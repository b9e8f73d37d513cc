----------------------------- MODULE MCServer -----------------------------
(***************************************************************************)
(* Small instances of Server for TLC.                                      *)
(***************************************************************************)
EXTENDS Server

CONSTANTS l1, l2, f1, f2, c1, c2

OneListener  == <<l1>>
TwoListeners == <<l1, l2>>

\* What acceptor()'s stack frame may have held where revents now is.
NoGarbage  == {{}}
BlindWrite == {{}, {"OUT"}}
AnyGarbage == {{}, {"IN"}, {"OUT"}, {"HUP"}}

Symmetry == Permutations({f1, f2}) \cup Permutations({c1, c2})

=============================================================================
