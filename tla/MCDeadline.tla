---------------------------- MODULE MCDeadline ----------------------------
(***************************************************************************)
(* A small instance of Deadline for TLC: one listener.                     *)
(***************************************************************************)
EXTENDS Deadline

CONSTANTS l1, f1, c1, c2

OneListener == <<l1>>

\* What acceptor()'s stack frame may have held where revents now is.
NoGarbage == {{}}

=============================================================================
