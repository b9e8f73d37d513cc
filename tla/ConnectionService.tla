------------------------- MODULE ConnectionService -------------------------
(***************************************************************************)
(* What webserv promises each connection, without descriptors, tables or   *)
(* scans: it is queued, accepted, read until its request is complete,      *)
(* written to only after that, and closed once and for all.  The service   *)
(* may stop, and no connection moves after it has.                         *)
(***************************************************************************)

CONSTANT Conns

VARIABLES
    phase,      \* phase[c]: how far the service of connection c has come
    answered,   \* answered[c]: bytes of a response have left for c
    up          \* the service runs

vars == <<phase, answered, up>>

TypeOK ==
    /\ phase \in [Conns -> {"idle", "queued", "reading", "writing", "gone"}]
    /\ answered \in [Conns -> BOOLEAN]
    /\ up \in BOOLEAN

Init ==
    /\ phase = [c \in Conns |-> "idle"]
    /\ answered = [c \in Conns |-> FALSE]
    /\ up = TRUE

Move(c, from, to) ==
    /\ up
    /\ phase[c] \in from
    /\ phase' = [phase EXCEPT ![c] = to]
    /\ UNCHANGED up

Arrive(c) == Move(c, {"idle"}, "queued") /\ UNCHANGED answered

Take(c) == Move(c, {"queued"}, "reading") /\ UNCHANGED answered

Complete(c) == Move(c, {"reading"}, "writing") /\ UNCHANGED answered

\* Part of the answer leaves, or the last of it and the connection is closed.
Answer(c) ==
    /\ \E to \in {"writing", "gone"} : Move(c, {"writing"}, to)
    /\ answered' = [answered EXCEPT ![c] = TRUE]

\* Dropped in the queue, hung up, or expired.
Close(c) == Move(c, {"queued", "reading", "writing"}, "gone") /\ UNCHANGED answered

Stop ==
    /\ up
    /\ up' = FALSE
    /\ UNCHANGED <<phase, answered>>

Next ==
    \/ Stop
    \/ \E c \in Conns : Arrive(c) \/ Take(c) \/ Complete(c) \/ Answer(c) \/ Close(c)

Spec == Init /\ [][Next]_vars

=============================================================================
