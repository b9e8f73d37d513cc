------------------------------ MODULE Deadline ------------------------------
(***************************************************************************)
(* Server with a clock per client that stands for time: the waits of       *)
(* poll() since the client was accepted.  poll() waits its 100 ms only     *)
(* when it has nothing to report; when any entry is ready it returns at    *)
(* once, so scans, which _timeout counts, and time drift apart.            *)
(***************************************************************************)
EXTENDS Server

CONSTANT Limit   \* 60 s, in waits of poll() (600 of 100 ms against 1000 scans).
                 \* It is less than MaxTimeout.

VARIABLE waited   \* waited[fd]: waits of poll() since the client at fd came, up to Limit

waitingVars == <<vars, waited>>

WaitingInit ==
    /\ Init
    /\ waited = [fd \in Fds |-> 0]

\* This step is a poll() that had nothing to report for 100 ms.
PollWaits ==
    /\ pos = 0
    /\ pos' = 1
    /\ \A i \in 1..Len(pollFds) : pollFds'[i].revents = {}

Waits ==
    waited' = [fd \in Fds |->
                  IF sock'[fd] = None THEN 0
                  ELSE IF PollWaits /\ waited[fd] < Limit THEN waited[fd] + 1
                  ELSE waited[fd]]

WaitingSpec == WaitingInit /\ [][Next /\ Waits]_waitingVars

-----------------------------------------------------------------------------
\* webserv/README.md:14, "request should have 60 seconds timeout": a client is
\* expired only when that time has passed.
NoEarlyTimeout ==
    [][\A fd \in Fds : TimeoutClient(fd) => waited[fd] = Limit]_waitingVars

=============================================================================
