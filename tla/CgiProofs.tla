------------------------------ MODULE CgiProofs ------------------------------
(***************************************************************************)
(* Proofs about Cgi, for every length of body and page and every capacity  *)
(* of a pipe: what a call of process_cgi has done when it returns.         *)
(***************************************************************************)
EXTENDS Cgi, TLAPS

(***************************************************************************)
(* WholeExchange speaks of the end of the call only.  The invariant says,  *)
(* at each point of it, where every unit of the body and of the page is,   *)
(* and who holds which end of the pipes: an end of file can only be read   *)
(* after the last writer has closed.                                       *)
(***************************************************************************)
AllEnds(m) == {"outR", "outW"} \cup (IF m = "POST" THEN {"inR", "inW"} ELSE {})

\* The ends each process holds follow from where it stands.
ParentEnds ==
    CASE parent = "write" -> AllEnds(method)
      [] parent = "close" -> {"outR", "outW"}
      [] parent \in {"read", "wait"} -> {"outR"}
      [] parent = "done" /\ child = "none" -> {"outR", "outW"}
      [] parent \in {"start", "failed"} \/ (parent = "done" /\ child # "none") -> {}

ChildEnds ==
    CASE child = "fresh" -> AllEnds(method)
      [] child \in {"look", "drain", "print"} -> AllEnds(method) \ {"inW", "outR"}
      [] child \in {"none", "exited", "reaped"} -> {}

EndsHeld == ends["parent"] = ParentEnds /\ ends["child"] = ChildEnds

\* How far the two processes can be apart.
InStep ==
    /\ parent \in {"start", "failed"} => child = "none"
    /\ parent \in {"write", "close", "read"} => child \notin {"none", "reaped"}
    /\ parent = "wait" => child = "exited"
    /\ parent = "done" => child = "reaped" \/ (child = "none" /\ script = "missing")
    /\ child # "none" => script # "missing"
    /\ parent = "write" => method = "POST"
    /\ child \in {"look", "drain"} => method = "POST"
    /\ child = "look" => script \in {"poll", "stream"}
    /\ child \in {"look", "drain", "print"} => script # "broken"

\* Every unit of the body is unwritten, in the pipe, or read by the script.
BodyKept ==
    /\ toWrite + input + taken = body
    /\ child = "none" => toWrite = body
    /\ child \in {"none", "fresh", "look"} \/ script = "broken" => taken = 0
    /\ child = "drain" /\ script = "drain" => printed = 0
    /\ method = "POST" /\ parent \in {"close", "read", "wait"} => toWrite = 0
    /\ method = "POST" /\ parent = "done" /\ child = "reaped" => toWrite = 0
    /\ /\ method = "POST"
       /\ script = "drain"
       /\ child \in {"print", "exited", "reaped"}
       => taken = body

\* Every unit the script has read, or has of its own once it is at its end, is
\* still to print or printed; every unit printed is in the pipe or was read.
PageKept ==
    /\ printed = got + output
    /\ printed + due = taken +
           (IF child \in {"print", "exited", "reaped"} /\ script # "broken"
            THEN Page ELSE 0)
    /\ child \in {"exited", "reaped"} => due = 0
    /\ parent \in {"wait", "done"} => output = 0

\* entireText misses nothing before the first null byte.
TextKept ==
    \A k \in 0..got : (\A u \in 1..k : u \notin nuls) => text >= k

Placed == TypeOK /\ EndsHeld /\ InStep /\ BodyKept /\ PageKept

IInv == Placed /\ TextKept

LEMMA Initially == Init => IInv
BY CgiAssumption
   DEF Init, IInv, Placed, TypeOK, EndsHeld, ParentEnds, ChildEnds, InStep, BodyKept,
       PageKept, TextKept

-----------------------------------------------------------------------------
\* Every step of the server's process keeps it.  An end of file is read only
\* when the child has exited, since a child that runs holds "outW".
LEMMA ParentKeeps == Placed /\ Parent => Placed'
<1> SUFFICES ASSUME Placed, Parent PROVE Placed'
    OBVIOUS
<1> USE CgiAssumption DEF Placed, TypeOK, EndsHeld, ParentEnds, ChildEnds, AllEnds,
        InStep, BodyKept, PageKept, request, pipes, program, answer
<1>1. CASE NoScript
  <2> USE <1>1 DEF NoScript
  <2>1. TypeOK'
        OBVIOUS
  <2>2. EndsHeld'
        OBVIOUS
  <2>3. InStep'
        OBVIOUS
  <2>4. BodyKept'
        OBVIOUS
  <2>5. PageKept'
        OBVIOUS
  <2>   QED
        BY ONLY <2>1, <2>2, <2>3, <2>4, <2>5 DEF Placed
<1>2. CASE Fork
  <2> USE <1>2 DEF Fork
  <2>1. TypeOK'
        OBVIOUS
  <2>2. EndsHeld'
        OBVIOUS
  <2>3. InStep'
        OBVIOUS
  <2>4. BodyKept'
        OBVIOUS
  <2>5. PageKept'
        OBVIOUS
  <2>   QED
        BY ONLY <2>1, <2>2, <2>3, <2>4, <2>5 DEF Placed
<1>3. CASE ForkFails
      BY <1>3 DEF ForkFails
<1>4. CASE WriteBody
  <2> USE <1>4 DEF WriteBody, Smaller
  <2>1. TypeOK'
        OBVIOUS
  <2>2. EndsHeld'
        OBVIOUS
  <2>3. InStep'
        OBVIOUS
  <2>4. BodyKept'
        OBVIOUS
  <2>5. PageKept'
        OBVIOUS
  <2>   QED
        BY ONLY <2>1, <2>2, <2>3, <2>4, <2>5 DEF Placed
<1>5. CASE BodyWritten
  <2> USE <1>5 DEF BodyWritten
  <2>1. TypeOK'
        OBVIOUS
  <2>2. EndsHeld'
        OBVIOUS
  <2>3. InStep'
        OBVIOUS
  <2>4. BodyKept'
        OBVIOUS
  <2>5. PageKept'
        OBVIOUS
  <2>   QED
        BY ONLY <2>1, <2>2, <2>3, <2>4, <2>5 DEF Placed
<1>6. CASE CloseOutput
  <2> USE <1>6 DEF CloseOutput
  <2>1. TypeOK'
        OBVIOUS
  <2>2. EndsHeld'
    <3>1. /\ parent = "close" /\ parent' = "read"
          /\ ends' = [ends EXCEPT !["parent"] = @ \ {"outW"}]
          /\ ends \in [{"parent", "child"} -> SUBSET {"inR", "inW", "outR", "outW"}]
          /\ UNCHANGED <<method, child>>
          OBVIOUS
    <3>2. EndsHeld
          OBVIOUS
    <3>   QED
          BY ONLY <3>1, <3>2 DEF EndsHeld, ParentEnds, ChildEnds, AllEnds
  <2>3. InStep'
        OBVIOUS
  <2>4. BodyKept'
        OBVIOUS
  <2>5. PageKept'
        OBVIOUS
  <2>   QED
        BY ONLY <2>1, <2>2, <2>3, <2>4, <2>5 DEF Placed
<1>7. CASE ReadOutput
      BY <1>7 DEF ReadOutput, Smaller
<1>8. CASE ReadEof
  <2>1. "outW" \notin ends["child"]
        BY <1>8 DEF ReadEof, Holds
  <2>2. child = "exited"
        BY <2>1, <1>8 DEF ReadEof
  <2>   QED
        BY <2>2, <1>8 DEF ReadEof
<1>9. CASE Reap
      BY <1>9 DEF Reap
<1>   QED
      BY <1>1, <1>2, <1>3, <1>4, <1>5, <1>6, <1>7, <1>8, <1>9 DEF Parent

\* Every step of the child keeps it.  A script that reads to the end sees the
\* end only when the server has written all of it, since it holds "inW" so long.
LEMMA ChildKeeps == Placed /\ Child => Placed'
<1> SUFFICES ASSUME Placed, Child PROVE Placed'
    OBVIOUS
<1> USE CgiAssumption DEF Placed, TypeOK, EndsHeld, ParentEnds, ChildEnds, AllEnds,
        InStep, BodyKept, PageKept, request, pipes, program, answer
<1>1. CASE Exec
  <2>0. /\ taken = 0 /\ due = 0 /\ printed = 0 /\ output = 0 /\ got = 0
        /\ child = "fresh" /\ script # "missing"
        BY <1>1 DEF Exec
  <2>1. child' = Started /\ due' = (IF Started = "print" THEN Page ELSE 0)
        BY <1>1 DEF Exec
  <2>2. /\ Started \in {"exited", "print", "look", "drain"}
        /\ Started = "exited" <=> script = "broken"
        /\ Started = "print" => method = "GET"
        /\ Started = "look" => method = "POST" /\ script \in {"poll", "stream"}
        /\ Started = "drain" => method = "POST" /\ script = "drain"
        BY <2>0 DEF Started
  <2>3. ends' \in [{"parent", "child"} -> SUBSET {"inR", "inW", "outR", "outW"}]
        BY <1>1 DEF Exec
  <2>4. /\ UNCHANGED <<script, method, body, nuls, toWrite, input, output, parent>>
        /\ UNCHANGED <<taken, printed, got, text>>
        BY <1>1 DEF Exec
  <2> HIDE DEF EndsHeld, InStep, BodyKept, PageKept
  <2>5. TypeOK'
        BY <2>0, <2>1, <2>2, <2>3, <2>4
  <2>6. EndsHeld'
        BY <1>1, <2>0, <2>1, <2>2, <2>4 DEF Exec, EndsHeld
  <2>7. InStep'
        BY <2>0, <2>1, <2>2, <2>4 DEF InStep
  <2>8. BodyKept'
        BY <2>0, <2>1, <2>2, <2>4 DEF BodyKept
  <2>9. PageKept'
        BY <2>0, <2>1, <2>2, <2>4 DEF PageKept, InStep
  <2>   QED
        BY ONLY <2>5, <2>6, <2>7, <2>8, <2>9 DEF Placed
<1>2. CASE Look
  <2>0. /\ taken = 0 /\ due = 0 /\ printed = 0 /\ output = 0 /\ got = 0
        /\ child = "look" /\ method = "POST" /\ script \in {"poll", "stream"}
        BY <1>2 DEF Look
  <2>1. \/ child' = "drain" /\ due' = 0
        \/ child' = "print" /\ due' = Page
        BY <1>2, <2>0 DEF Look
  <2>2. /\ UNCHANGED <<script, method, body, nuls, toWrite, input, output, ends, parent>>
        /\ UNCHANGED <<taken, printed, got, text>>
        BY <1>2 DEF Look
  <2> HIDE DEF EndsHeld, InStep, BodyKept, PageKept
  <2>3. TypeOK'
        BY <2>0, <2>1, <2>2
  <2>4. EndsHeld'
        BY <2>0, <2>1, <2>2 DEF EndsHeld
  <2>5. InStep'
        BY <2>0, <2>1, <2>2 DEF InStep
  <2>6. BodyKept'
        BY <2>0, <2>1, <2>2 DEF BodyKept
  <2>7. PageKept'
        BY <2>0, <2>1, <2>2 DEF PageKept
  <2>   QED
        BY ONLY <2>3, <2>4, <2>5, <2>6, <2>7 DEF Placed
<1>3. CASE Drain
      BY <1>3 DEF Drain, Printing
<1>4. CASE DrainEof
  <2>1. "inW" \notin ends["parent"]
        BY <1>4 DEF DrainEof, Holds
  <2>2. toWrite = 0 /\ taken = body
        BY <2>1, <1>4 DEF DrainEof
  <2>   QED
        BY <2>2, <1>4 DEF DrainEof
<1>5. CASE PrintPage
      BY <1>5 DEF PrintPage, Printing, Smaller
<1>6. CASE Exit
      BY <1>6 DEF Exit
<1>   QED
      BY <1>1, <1>2, <1>3, <1>4, <1>5, <1>6 DEF Child

\* A block read from the pipe is taken up to its first null byte, so that before
\* the first of all blocks were taken whole.  No other step reads.
LEMMA TextStays == IInv /\ Next => TextKept'
<1> SUFFICES ASSUME IInv, Next, NEW k \in 0..got', \A u \in 1..k : u \notin nuls'
             PROVE  text' >= k
    BY DEF TextKept
<1>1. got \in Nat /\ text \in Nat /\ output \in Nat /\ k \in Nat
      BY DEF IInv, Placed, TypeOK, Next, Parent, Child, NoScript, Fork, ForkFails,
             WriteBody, BodyWritten, CloseOutput, ReadOutput, Smaller, ReadEof, Reap,
             Exec, Look, Drain, DrainEof, PrintPage, Exit, answer
<1>2. \A i \in 0..got : (\A u \in 1..i : u \notin nuls) => text >= i
      BY DEF IInv, TextKept
<1>3. CASE ReadOutput
  <2>1. nuls' = nuls
        BY <1>3 DEF ReadOutput, request
  <2>2. PICK n \in Nat, m \in Nat :
           /\ got' = got + n
           /\ m = n \/ got + m + 1 \in nuls
           /\ text' = text + m
        BY <1>1, <1>3, CgiAssumption DEF ReadOutput, Smaller
  <2>3. CASE k <= got
        BY <1>1, <1>2, <2>1, <2>2, <2>3
  <2>4. CASE k > got
    <3>1. text >= got
          BY <1>1, <1>2, <2>1, <2>4
    <3>2. k <= got + m
          BY <1>1, <2>1, <2>2, <2>4
    <3>   QED
          BY <1>1, <2>2, <3>1, <3>2
  <2>   QED
        BY <1>1, <2>3, <2>4
<1>4. CASE ~ReadOutput
  <2>1. nuls' = nuls /\ got' = got /\ text' = text
        BY <1>4 DEF Next, Parent, Child, NoScript, Fork, ForkFails, WriteBody,
                    BodyWritten, CloseOutput, ReadEof, Reap, Exec, Look, Drain,
                    DrainEof, PrintPage, Exit, answer, request
  <2>   QED
        BY <1>2, <2>1
<1>   QED
      BY <1>3, <1>4

LEMMA Invariance == Spec => []IInv
<1>1. IInv /\ [Next]_vars => IInv'
  <2> SUFFICES ASSUME IInv, [Next]_vars PROVE IInv'
      OBVIOUS
  <2>1. CASE Next
        BY <2>1, ParentKeeps, ChildKeeps, TextStays DEF Next, IInv
  <2>2. CASE UNCHANGED vars
        BY <2>2 DEF vars, request, pipes, program, answer, IInv, Placed, TypeOK,
                    EndsHeld, ParentEnds, ChildEnds, AllEnds, InStep, BodyKept,
                    PageKept, TextKept
  <2>   QED
        BY <2>1, <2>2
<1>   QED
      BY Initially, <1>1, PTL DEF Spec

-----------------------------------------------------------------------------
\* Neither pipe is ever given more than it holds, and no unit is written, read
\* or taken twice, whatever the two processes' order.
THEOREM TypeCorrect == Spec => []TypeOK
<1>1. IInv => TypeOK
      BY DEF IInv, Placed
<1>   QED
      BY Invariance, <1>1, PTL

\* When process_cgi returns after running a script, the script is reaped, every
\* end of the pipes is closed, all it printed was read and entireText has all of
\* it up to the first null byte; a script that reads to the end had the whole
\* body: for every size of the pipes, of the body and of the page.
THEOREM WholeExchangeCorrect == Spec => []WholeExchange
<1>1. IInv => WholeExchange
  <2> SUFFICES ASSUME IInv, parent = "done", script # "missing" PROVE WholeExchange
      BY DEF WholeExchange
  <2> USE DEF IInv, Placed, TypeOK, EndsHeld, ParentEnds, ChildEnds, InStep, BodyKept,
          PageKept
  <2>1. child = "reaped" /\ (\A p \in {"parent", "child"} : ends[p] = {})
        OBVIOUS
  <2>2. got = printed
        OBVIOUS
  <2>3. \A k \in 0..printed : (\A u \in 1..k : u \notin nuls) => text >= k
        BY <2>2 DEF TextKept
  <2>4. /\ script # "broken" => printed = Page + taken
        /\ script = "drain" /\ method = "POST" => taken = body
        BY <2>1, CgiAssumption
  <2>   QED
        BY <2>1, <2>2, <2>3, <2>4 DEF WholeExchange
<1>   QED
      BY Invariance, <1>1, PTL

\* In no order of their steps do the two processes come to wait for each other,
\* unless a body larger than a pipe meets a script that does not read all of it
\* before it prints.
THEOREM NeverBothWaitCorrect == Spec => []NeverBothWait
<1>1. IInv => NeverBothWait
  <2> SUFFICES ASSUME IInv, ParentWaits, CannotClog
               PROVE  child \in {"fresh", "look", "drain", "print"} /\ ~ChildWaits
      BY DEF NeverBothWait
  <2> USE CgiAssumption DEF IInv, Placed, TypeOK, EndsHeld, ParentEnds, ChildEnds,
          AllEnds, InStep, BodyKept, PageKept, CannotClog
  <2>1. CASE parent = "write" /\ toWrite > 0 /\ input = Capacity
        BY <2>1 DEF ChildWaits, Printing
  <2>2. CASE parent = "read" /\ output = 0 /\ Holds("outW")
        BY <2>2 DEF ChildWaits, Printing, Holds
  <2>3. CASE parent = "wait" /\ child # "exited"
        BY <2>3
  <2>   QED
        BY <2>1, <2>2, <2>3 DEF ParentWaits
<1>   QED
      BY Invariance, <1>1, PTL

-----------------------------------------------------------------------------
(***************************************************************************)
(* Why the call returns: units only go forward, and so do the two          *)
(* processes, so that what is left to do gets less with every step.  With  *)
(* NeverBothWait this is what Returns rests on; the two fairness           *)
(* conditions, which turn it into a liveness property, stay with TLC.      *)
(***************************************************************************)
ParentLeft ==
    CASE parent = "start" -> 5
      [] parent = "write" -> 4
      [] parent = "close" -> 3
      [] parent = "read"  -> 2
      [] parent = "wait"  -> 1
      [] parent \in {"done", "failed"} -> 0

ChildLeft ==
    CASE child = "none"  -> 5
      [] child = "fresh" -> 5
      [] child = "look"  -> 4
      [] child = "drain" -> 3
      [] child = "print" -> 2
      [] child = "exited" -> 1
      [] child = "reaped" -> 0

\* The page comes in when the script comes to its end.
PageLeft ==
    IF child \in {"none", "fresh", "look", "drain"} THEN 2 * Page ELSE 0

\* A unit of the body is written, read, printed and read again; one of the page
\* is printed and read.
Left ==
    4 * toWrite + 3 * input + 2 * due + output + PageLeft + ParentLeft + ChildLeft

\* Every step of either process leaves less to do, and there is never less
\* than nothing left: no run of process_cgi takes steps for ever.
THEOREM EveryStepCounts == Spec => []( Left \in Nat ) /\ [][Left' < Left]_vars
<1>1. IInv => Left \in Nat
      BY CgiAssumption DEF IInv, Placed, TypeOK, Left, PageLeft, ParentLeft, ChildLeft
<1>2. IInv /\ [Next]_vars => [Left' < Left]_vars
  <2> SUFFICES ASSUME IInv, Next PROVE Left' < Left
      BY DEF vars
  <2> USE CgiAssumption DEF IInv, Placed, TypeOK, InStep, PageKept, Left, PageLeft,
          ParentLeft, ChildLeft, request, pipes, program, answer
  <2>1. CASE NoScript
        BY <2>1 DEF NoScript
  <2>2. CASE Fork
        BY <2>2 DEF Fork
  <2>3. CASE ForkFails
        BY <2>3 DEF ForkFails
  <2>4. CASE WriteBody
        BY <2>4 DEF WriteBody, Smaller
  <2>5. CASE BodyWritten
        BY <2>5 DEF BodyWritten
  <2>6. CASE CloseOutput
        BY <2>6 DEF CloseOutput
  <2>7. CASE ReadOutput
        BY <2>7 DEF ReadOutput, Smaller
  <2>8. CASE ReadEof
        BY <2>8 DEF ReadEof
  <2>9. CASE Reap
        BY <2>9 DEF Reap
  <2>10. CASE Exec
        BY <2>10 DEF Exec, Started
  <2>11. CASE Look
        BY <2>11 DEF Look
  <2>12. CASE Drain
        BY <2>12 DEF Drain
  <2>13. CASE DrainEof
        BY <2>13 DEF DrainEof
  <2>14. CASE PrintPage
        BY <2>14 DEF PrintPage, Printing, Smaller
  <2>15. CASE Exit
        BY <2>15 DEF Exit
  <2>   QED
        BY <2>1, <2>2, <2>3, <2>4, <2>5, <2>6, <2>7, <2>8, <2>9, <2>10, <2>11,
           <2>12, <2>13, <2>14, <2>15 DEF Next, Parent, Child
<1>   QED
      BY Invariance, <1>1, <1>2, PTL DEF Spec

=============================================================================
