----------------------------- MODULE MCTimed ------------------------------
(***************************************************************************)
(* A small instance of TimedServer for TLC: two listeners.                 *)
(***************************************************************************)
EXTENDS TimedServer

CONSTANTS l1, l2, f1, c1, c2

TwoListeners == <<l1, l2>>

\* What acceptor()'s stack frame may have held where revents now is.
AnyGarbage == {{}, {"IN"}, {"OUT"}, {"HUP"}}

=============================================================================
