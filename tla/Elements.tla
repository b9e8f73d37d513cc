------------------------------- MODULE Elements -------------------------------
(***************************************************************************)
(* What the std::vector interface promises of the contents: each container *)
(* is a sequence, a call changes it as the standard says of that call and  *)
(* of what it was given, and a call that inserts or erases returns the     *)
(* position it worked at.  `lost' is the one concession to ft::vector:     *)
(* after one of the calls Lose names, nothing is promised any more.        *)
(***************************************************************************)
EXTENDS Integers, Sequences, SequencesExt

CONSTANTS Vectors, Values, Ranges, NoPosition, MaxCells

VARIABLES
    seqs,      \* the contents of each vector
    call,      \* the last call: its name, the vector, and what it was given
    returned,  \* the index of the iterator it returned
    lost       \* nothing is promised any more

absVars == <<seqs, call, returned, lost>>

Init ==
    /\ seqs = [v \in Vectors |-> <<>>]
    /\ call = <<>>
    /\ returned = NoPosition
    /\ lost = FALSE

Repeated(n, x) == [i \in 1 .. n |-> x]

\* What the calls that take elements are given: a range, or n times one.
Given == Ranges \cup {Repeated(n, x) : n \in 0 .. MaxCells, x \in Values}

Holds(v, s) == seqs' = [seqs EXCEPT ![v] = s]

Constructed(v) ==
    \E s \in Given \cup {seqs[w] : w \in Vectors \ {v}} :
        call' = <<"construct", v, s>> /\ Holds(v, s)

Assigned(v) ==
    \/ \E w \in Vectors : call' = <<"operator=", v, w>> /\ Holds(v, seqs[w])
    \/ \E s \in Given : call' = <<"assign", v, s>> /\ Holds(v, s)

Reserved(v) == \E n \in 0 .. MaxCells : call' = <<"reserve", v, n>> /\ seqs' = seqs

Appended(v) ==
    \E x \in Values : call' = <<"push_back", v, x>> /\ Holds(v, Append(seqs[v], x))

RemovedLast(v) ==
    call' = <<"pop_back", v>> /\ seqs[v] # <<>> /\ Holds(v, Front(seqs[v]))

Cleared(v) == call' = <<"clear", v>> /\ Holds(v, <<>>)

Resized(v) ==
    \E n \in 0 .. MaxCells, x \in Values :
        /\ call' = <<"resize", v, n, x>>
        /\ Holds(v, [i \in 1 .. n |-> IF i <= Len(seqs[v]) THEN seqs[v][i] ELSE x])

Exchanged ==
    \E v, w \in Vectors :
        /\ call' = <<"swap", v, w>>
        /\ seqs' = [seqs EXCEPT ![v] = seqs[w], ![w] = seqs[v]]

\* The returned position is where the elements went in ...
Inserted(v) ==
    \E i \in 0 .. Len(seqs[v]), s \in Given :
        /\ call' = <<"insert", v, i, s>>
        /\ returned' = i
        /\ Holds(v, SubSeq(seqs[v], 1, i) \o s \o SubSeq(seqs[v], i + 1, Len(seqs[v])))

\* ... or where those after the d erased ones now begin.
Erased(v) ==
    \E i \in 0 .. Len(seqs[v]) : \E d \in 0 .. Len(seqs[v]) - i :
        /\ call' = <<"erase", v, i, d>>
        /\ returned' = i
        /\ Holds(v, SubSeq(seqs[v], 1, i) \o SubSeq(seqs[v], i + d + 1, Len(seqs[v])))

\* Self-assignment, an element of the vector itself as the argument of a call
\* that first gives its storage up, and an empty range erased at the end.
Lose(v) ==
    /\ \/ seqs[v] # <<>> /\ call' \in {<<"operator=", v, v>>, <<"assign own", v>>,
                                        <<"push_back own", v>>}
       \/ call' = <<"erase", v, Len(seqs[v]), 0>>
    /\ lost' = TRUE
    /\ UNCHANGED <<seqs, returned>>

Next ==
    /\ ~lost
    /\ \/ /\ lost' = FALSE
          /\ \/ /\ returned' = NoPosition
                /\ \/ Exchanged
                   \/ \E v \in Vectors :
                        \/ Constructed(v) \/ Assigned(v) \/ Reserved(v)
                        \/ Appended(v) \/ RemovedLast(v) \/ Cleared(v) \/ Resized(v)
             \/ \E v \in Vectors : Inserted(v) \/ Erased(v)
       \/ \E v \in Vectors : Lose(v)

Spec == Init /\ [][Next]_absVars
===============================================================================
