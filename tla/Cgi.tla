-------------------------------- MODULE Cgi --------------------------------
(***************************************************************************)
(* Response::process_cgi: the server forks, hands a POST's body to the     *)
(* child through one pipe and takes its output from another.  It writes    *)
(* the whole body before it reads a byte, with blocking calls, inside the  *)
(* poll loop.  A pipe holds Capacity units; one of its ends is closed when *)
(* every process that holds it has closed it.                              *)
(*                                                                         *)
(* The script is the child's program after execve.  "drain" reads its      *)
(* input to the end before it prints.  The two of the repository look once *)
(* whether there is anything to read and do not read when there is not     *)
(* yet: "poll" is webserv/cgi.py, which reads to the end before it prints, *)
(* "stream" is public/cgi/cgi.py, which prints what it has read before it  *)
(* reads on.  "broken" ends before it reads or prints anything, as after a *)
(* failed execve().  All but the last print a page of their own, and what  *)
(* they have read.  A unit is what Python keeps in one buffer.             *)
(***************************************************************************)
EXTENDS Integers, FiniteSets

CONSTANTS
    Scripts,     \* the kinds of script that may be requested
    MaxBody,     \* units of body a request may have
    Page,        \* units a script prints besides what it has read
    Nuls,        \* the sets of printed units that may hold a null byte
    Capacity,    \* units a pipe holds
    Block        \* units one write() or read() may move (60000 bytes)

ASSUME CgiAssumption ==
    /\ Scripts \subseteq {"drain", "poll", "stream", "broken", "missing"}
    /\ MaxBody \in Nat
    /\ Page \in Nat \ {0}
    /\ Nuls \subseteq SUBSET (Nat \ {0})
    /\ Capacity \in Nat \ {0}
    /\ Block \in Nat \ {0}

VARIABLES
    script,    \* the script of this request
    method,    \* "GET" or "POST"
    body,      \* units of body it came with
    nuls,      \* which of the units the script prints hold a null byte
    toWrite,   \* units of body not yet written (to_write)
    input,     \* units in the pipe filefd
    output,    \* units in the pipe fd
    ends,      \* ends[p]: the pipe ends process p holds
    parent,    \* where process_cgi stands
    child,     \* where the child stands
    taken,     \* units of body the script has read
    due,       \* units it still has to print
    printed,   \* units it has printed
    got,       \* units the parent has read
    text       \* units of entireText

request == <<script, method, body, nuls>>
pipes == <<input, output, ends>>
program == <<taken, due, printed>>
answer == <<got, text>>
vars == <<request, toWrite, pipes, parent, child, program, answer>>

Holds(end) == \E p \in {"parent", "child"} : end \in ends[p]

Smaller(m, n) == IF m <= n THEN m ELSE n

TypeOK ==
    /\ script \in Scripts
    /\ method \in {"GET", "POST"}
    /\ body \in 0..MaxBody
    /\ nuls \in Nuls
    /\ toWrite \in 0..body
    /\ input \in 0..Capacity
    /\ output \in 0..Capacity
    /\ ends \in [{"parent", "child"} -> SUBSET {"inR", "inW", "outR", "outW"}]
    /\ parent \in {"start", "write", "close", "read", "wait", "done", "failed"}
    /\ child \in {"none", "fresh", "look", "drain", "print", "exited", "reaped"}
    /\ taken \in 0..body
    /\ due \in 0..(Page + body)
    /\ printed \in 0..(Page + body)
    /\ got \in 0..printed
    /\ text \in 0..got

Init ==
    /\ script \in Scripts
    /\ method \in {"GET", "POST"}
    /\ body \in 0..MaxBody
    /\ nuls \in Nuls
    /\ toWrite = body
    /\ input = 0 /\ output = 0
    /\ ends = [p \in {"parent", "child"} |-> {}]
    /\ parent = "start"
    /\ child = "none"
    /\ taken = 0 /\ due = 0 /\ printed = 0
    /\ got = 0 /\ text = 0

-----------------------------------------------------------------------------
\* The parent.

\* pipe(fd) comes before the script is looked for: it stays open if it is not there.
NoScript ==
    /\ parent = "start"
    /\ script = "missing"
    /\ ends' = [ends EXCEPT !["parent"] = {"outR", "outW"}]
    /\ parent' = "done"
    /\ UNCHANGED <<request, toWrite, input, output, child, program, answer>>

\* pipe(filefd) for a POST, then fork(): both processes hold every end.
Fork ==
    /\ parent = "start"
    /\ script # "missing"
    /\ LET open == {"outR", "outW"} \cup (IF method = "POST" THEN {"inR", "inW"} ELSE {})
       IN  ends' = [p \in {"parent", "child"} |-> open]
    /\ parent' = IF method = "POST" THEN "write" ELSE "close"
    /\ child' = "fresh"
    /\ UNCHANGED <<request, toWrite, input, output, program, answer>>

\* fork() fails: _exit(3).
ForkFails ==
    /\ parent = "start"
    /\ script # "missing"
    /\ parent' = "failed"
    /\ UNCHANGED <<request, toWrite, pipes, child, program, answer>>

\* Mutant: what was asked for is erased from to_write, not what was written.
WriteBodyAsAsked ==
    /\ parent = "write"
    /\ toWrite > 0
    /\ input < Capacity
    /\ Holds("inR")
    /\ toWrite' = toWrite - Smaller(toWrite, Block)
    /\ input' = input + Smaller(Smaller(toWrite, Block), Capacity - input)
    /\ UNCHANGED <<request, output, ends, parent, child, program, answer>>

\* Mutant: a whole block is erased, however little was left.
WriteBodyByBlocks ==
    /\ parent = "write"
    /\ toWrite > 0
    /\ input < Capacity
    /\ Holds("inR")
    /\ toWrite' = toWrite - Block
    /\ input' = input + Smaller(Smaller(toWrite, Block), Capacity - input)
    /\ UNCHANGED <<request, output, ends, parent, child, program, answer>>

\* The while loop of writes; a write waits for room as long as anyone, the
\* parent included, holds the read end.
WriteBody ==
    /\ parent = "write"
    /\ toWrite > 0
    /\ input < Capacity
    /\ Holds("inR")
    /\ LET n == Smaller(Smaller(toWrite, Block), Capacity - input)
       IN  /\ toWrite' = toWrite - n
           /\ input' = input + n
    /\ UNCHANGED <<request, output, ends, parent, child, program, answer>>

\* Mutant: the parent keeps the write end of the script's input.
BodyWrittenKeepingInput ==
    /\ parent = "write"
    /\ toWrite = 0
    /\ ends' = [ends EXCEPT !["parent"] = @ \ {"inR"}]
    /\ parent' = "close"
    /\ UNCHANGED <<request, toWrite, input, output, child, program, answer>>

BodyWritten ==
    /\ parent = "write"
    /\ toWrite = 0
    /\ ends' = [ends EXCEPT !["parent"] = @ \ {"inW", "inR"}]
    /\ parent' = "close"
    /\ UNCHANGED <<request, toWrite, input, output, child, program, answer>>

CloseOutput ==
    /\ parent = "close"
    /\ ends' = [ends EXCEPT !["parent"] = @ \ {"outW"}]
    /\ parent' = "read"
    /\ UNCHANGED <<request, toWrite, input, output, child, program, answer>>

\* entireText is given the block up to its first null byte, string(execve_buffer).
ReadOutput ==
    /\ parent = "read"
    /\ output > 0
    /\ LET n == Smaller(output, Block)
       IN  /\ output' = output - n
           /\ got' = got + n
           /\ \E m \in 0..n :
                 /\ \A u \in 1..m : got + u \notin nuls
                 /\ m = n \/ got + m + 1 \in nuls
                 /\ text' = text + m
    /\ UNCHANGED <<request, toWrite, input, ends, parent, child, program>>

\* read() returns 0 when the pipe is empty and nobody can write to it.
ReadEof ==
    /\ parent = "read"
    /\ output = 0
    /\ ~Holds("outW")
    /\ parent' = "wait"
    /\ UNCHANGED <<request, toWrite, pipes, child, program, answer>>

\* waitpid(), then the last close().
Reap ==
    /\ parent = "wait"
    /\ child = "exited"
    /\ child' = "reaped"
    /\ ends' = [ends EXCEPT !["parent"] = @ \ {"outR"}]
    /\ parent' = "done"
    /\ UNCHANGED <<request, toWrite, input, output, program, answer>>

-----------------------------------------------------------------------------
\* The child.

\* Where a script begins; without a body to read it prints its page at once.
Started ==
    CASE script = "broken"                               -> "exited"
      [] script # "broken" /\ method = "GET"             -> "print"
      [] script \in {"poll", "stream"} /\ method = "POST" -> "look"
      [] script = "drain" /\ method = "POST"             -> "drain"

\* Mutant: the child keeps the write end of its own input.
ExecKeepingInput ==
    /\ child = "fresh"
    /\ child' = Started
    /\ ends' = [ends EXCEPT !["child"] =
                    IF script = "broken" THEN {} ELSE @ \ {"outR"}]
    /\ due' = IF Started = "print" THEN Page ELSE 0
    /\ UNCHANGED <<request, toWrite, input, output, parent, taken, printed, answer>>

\* dup2() and close(): of each pipe the end that became stdin or stdout stays.
\* After a failed execve() comes exit(1).
Exec ==
    /\ child = "fresh"
    /\ child' = Started
    /\ ends' = [ends EXCEPT !["child"] =
                    IF script = "broken" THEN {} ELSE @ \ {"inW", "outR"}]
    /\ due' = IF Started = "print" THEN Page ELSE 0
    /\ UNCHANGED <<request, toWrite, input, output, parent, taken, printed, answer>>

\* select([sys.stdin], [], [], 0.0): readable when there is data, or no writer.
Look ==
    /\ child = "look"
    /\ \/ /\ input > 0 \/ ~Holds("inW")
          /\ child' = "drain"
          /\ due' = due
       \/ /\ input = 0 /\ Holds("inW")
          /\ child' = "print"
          /\ due' = Page
    /\ UNCHANGED <<request, toWrite, pipes, parent, taken, printed, answer>>

\* The script is in print: at its end, or between two reads.
Printing ==
    \/ child = "print"
    \/ child = "drain" /\ script = "stream" /\ due > 0

Drain ==
    /\ child = "drain" /\ ~Printing
    /\ \E n \in 1..input :
          /\ input' = input - n
          /\ taken' = taken + n
          /\ due' = due + n
    /\ UNCHANGED <<request, toWrite, output, ends, parent, child, printed, answer>>

DrainEof ==
    /\ child = "drain" /\ ~Printing
    /\ input = 0
    /\ ~Holds("inW")
    /\ child' = "print"
    /\ due' = due + Page
    /\ UNCHANGED <<request, toWrite, pipes, parent, taken, printed, answer>>

PrintPage ==
    /\ Printing
    /\ due > 0
    /\ output < Capacity
    /\ LET n == Smaller(due, Capacity - output)
       IN  /\ due' = due - n
           /\ printed' = printed + n
           /\ output' = output + n
    /\ UNCHANGED <<request, toWrite, input, ends, parent, child, taken, answer>>

Exit ==
    /\ child = "print"
    /\ due = 0
    /\ ends' = [ends EXCEPT !["child"] = {}]
    /\ child' = "exited"
    /\ UNCHANGED <<request, toWrite, input, output, parent, program, answer>>

-----------------------------------------------------------------------------
Parent ==
    \/ NoScript \/ Fork \/ ForkFails
    \/ WriteBody \/ BodyWritten \/ CloseOutput \/ ReadOutput \/ ReadEof \/ Reap

Child == Exec \/ Look \/ Drain \/ DrainEof \/ PrintPage \/ Exit

Next == Parent \/ Child

\* Both processes are scheduled; a blocked call waits for the other one only.
Spec == Init /\ [][Next]_vars /\ WF_vars(Parent) /\ WF_vars(Child)

-----------------------------------------------------------------------------
\* A request that cannot be stuck in the pipes: it has no body to write, or one
\* the pipe holds, or the script reads all of it before it prints.
CannotClog ==
    method = "GET" \/ body <= Capacity \/ script \in {"drain", "missing"}

\* The call returns, so that the poll loop goes on serving its other clients,
\* for every request that cannot clog the pipes.
Returns ==
    parent = "start" /\ CannotClog ~> parent \in {"done", "failed"}

\* When it returns after running a script, the script is no zombie and no end is
\* left open; all that it printed was read, of which entireText has at least
\* everything before the first null byte; and unless it broke off it printed its
\* page and what it had read, all of the body when it reads to the end.
WholeExchange ==
    parent = "done" /\ script # "missing" =>
        /\ child = "reaped"
        /\ \A p \in {"parent", "child"} : ends[p] = {}
        /\ got = printed
        /\ \A k \in 0..printed : (\A u \in 1..k : u \notin nuls) => text >= k
        /\ script # "broken" => printed = Page + taken
        /\ script = "drain" /\ method = "POST" => taken = body

\* A process waits in a call that the other one, and nobody else, can end.
ParentWaits ==
    \/ parent = "write" /\ toWrite > 0 /\ input = Capacity
    \/ parent = "read" /\ output = 0 /\ Holds("outW")
    \/ parent = "wait" /\ child # "exited"

ChildWaits ==
    \/ child = "drain" /\ ~Printing /\ input = 0 /\ Holds("inW")
    \/ Printing /\ due > 0 /\ output = Capacity

\* They never wait for each other over a request that cannot clog the pipes:
\* while the parent waits the child is there and does not.
NeverBothWait ==
    ParentWaits /\ CannotClog =>
        child \in {"fresh", "look", "drain", "print"} /\ ~ChildWaits

\* webserv/README.md:13, "IF REQUEST METHOD IS POST: write to child pipe the
\* request body": for a script that is run, all of the body gets written.
BodyGetsWritten ==
    script # "missing" /\ method = "POST" ~> parent = "failed" \/ toWrite = 0

=============================================================================
