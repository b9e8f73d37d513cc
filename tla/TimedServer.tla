---------------------------- MODULE TimedServer ----------------------------
(***************************************************************************)
(* Server with a clock per client that counts the scans of its entry since *)
(* it was accepted, to relate _timeout to how long a client is kept.       *)
(***************************************************************************)
EXTENDS Server

VARIABLE age      \* age[fd]: scans of the client at fd since it was accepted, up to MaxAge

\* More than AgeBound allows, so that the clock stops only when that is false.
MaxAge == 2 * MaxTimeout + 1

timedVars == <<vars, age>>

TimedInit ==
    /\ Init
    /\ age = [fd \in Fds |-> 0]

\* This step serves the entry of fd.
Served(fd) == Scanning(fd) /\ pos' # pos

Clocks ==
    age' = [fd \in Fds |->
               IF sock'[fd] = None THEN 0
               ELSE IF Served(fd) /\ age[fd] < MaxAge THEN age[fd] + 1 ELSE age[fd]]

TimedNext == Next /\ Clocks

TimedSpec == TimedInit /\ [][TimedNext]_timedVars

\* The one thread runs while(1) and poll() returns within 100 ms: the loop
\* always takes its next step.  Nothing is assumed of the peers.
FairSpec == TimedSpec /\ WF_vars(Loop)

-----------------------------------------------------------------------------
\* Until its first bytes arrive a client is scanned at most MaxTimeout times,
\* and MaxTimeout times more after: the count is restarted by a new request
\* (Server.cpp:125) and by nothing else, and it is never too high, so a client
\* is not expired early by the scans of the one that had its descriptor before.
AgeBound ==
    \A fd \in Fds : sock[fd] # None =>
        /\ age[fd] >= timeout[fd]
        /\ age[fd] <= timeout[fd] + (IF requests[fd] = None THEN 0 ELSE MaxTimeout)

=============================================================================
