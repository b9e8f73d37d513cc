----------------------------- MODULE OrderedMap -----------------------------
(***************************************************************************)
(* What src/ft_containers/map.hpp promises its caller: maps that are sets  *)
(* of elements in the order of their keys, and an iterator that stays on   *)
(* its element.  Map implements it with red-black trees.                   *)
(*                                                                         *)
(*   elems[m]  the elements of map m: <<key, copy>>, equal keys in order   *)
(*   it        one iterator the caller keeps: the map, and the element or  *)
(*             END; NoIt when it has none it may still use                 *)
(*   fresh[m]  --end() is the last element of m.  Calls that step to the   *)
(*             end make it so; a call that changes m may undo it           *)
(*   call      the last call: its name, the map, and what it was given     *)
(*   lost      the process is gone                                         *)
(***************************************************************************)
EXTENDS Integers, FiniteSets, SequencesExt

CONSTANTS Map, Key, Copies, END, NoIt, Ranges

VARIABLES elems, it, fresh, call, lost
vars == <<elems, it, fresh, call, lost>>

KeyAt(e) == e[1]
Keys(S) == {KeyAt(e) : e \in S}
Distinct(S) == Cardinality(Keys(S)) = Cardinality(S)
Before(e, f) == e[1] < f[1] \/ (e[1] = f[1] /\ e[2] < f[2])
FirstOf(S) == IF S = {} THEN END ELSE CHOOSE e \in S : \A f \in S \ {e} : Before(e, f)
LastOf(S) == CHOOSE e \in S : \A f \in S \ {e} : Before(f, e)

\* A new element goes behind the equal ones; the last of them is the one to go.
PutNew(S, k) == S \cup {<<k, 1 + Cardinality({e \in S : KeyAt(e) = k})>>}
PutIfNone(S, k) == IF k \in Keys(S) THEN S ELSE PutNew(S, k)
Drop(S, k) == IF k \in Keys(S) THEN S \ {LastOf({e \in S : KeyAt(e) = k})} ELSE S

Become(m, S) == elems' = [elems EXCEPT ![m] = S] /\ fresh' \in [Map -> BOOLEAN]
Position(m, e) == [on |-> m, at |-> e]
\* Where the caller's iterator is once m holds S.
Kept(m, S) == IF it # NoIt /\ it.on = m /\ it.at # END /\ it.at \notin S THEN NoIt ELSE it

-----------------------------------------------------------------------------
Init == /\ elems = [m \in Map |-> {}] /\ it = NoIt /\ lost = FALSE
        /\ fresh = [m \in Map |-> FALSE] /\ call = <<>>

Construct(m, S) == Become(m, S) /\ it' = IF it # NoIt /\ it.on = m THEN NoIt ELSE it
Assign(m, x) == Become(m, IF m = x THEN {} ELSE elems[x]) /\ it' = Kept(m, {})
Clear(m) == Become(m, {}) /\ it' = Kept(m, {})

\* The caller keeps the iterator, and looks at the element, of insert.
Insert(m, k) == /\ Become(m, PutIfNone(elems[m], k))
                /\ \E e \in PutIfNone(elems[m], k) : KeyAt(e) = k /\ it' = Position(m, e)

Subscript(m, k) == Become(m, PutIfNone(elems[m], k)) /\ UNCHANGED it

InsertRange(m, r) == Become(m, FoldLeft(PutIfNone, elems[m], r)) /\ UNCHANGED it

Erase(m, k) == Become(m, Drop(elems[m], k)) /\ it' = Kept(m, Drop(elems[m], k))
EraseAt == it # NoIt /\ it.at # END /\ Erase(it.on, KeyAt(it.at))

\* [it, last): with equal keys in the map this call promises no more than to
\* leave some of the elements.
EraseRange(last) ==
  /\ it # NoIt
  /\ LET S == elems[it.on]
         rest == {e \in S : Before(e, it.at) \/ (last # END /\ (e = last \/ Before(last, e)))}
     IN  \/ it.at = last /\ UNCHANGED <<elems, it>> /\ fresh' \in [Map -> BOOLEAN]
         \/ /\ it.at # last /\ it.at # END /\ Distinct(S)
            /\ Become(it.on, rest) /\ it' = NoIt
         \/ ~Distinct(S) /\ it' = NoIt /\ \E R \in SUBSET S : Become(it.on, R)

Swap(m, x) ==
  /\ elems' = [elems EXCEPT ![m] = elems[x], ![x] = elems[m]]
  /\ fresh' = [fresh EXCEPT ![m] = fresh[x], ![x] = fresh[m]]
  /\ it' = IF it = NoIt THEN NoIt
           ELSE [it EXCEPT !.on = IF @ = m THEN x ELSE IF @ = x THEN m ELSE @]

\* A call that leaves the caller at position e of m; f says whether --end() holds.
At(m, e, f) == /\ it' = Position(m, e) /\ UNCHANGED elems
               /\ fresh' = [fresh EXCEPT ![m] = f]

GoBegin(m) == At(m, FirstOf(elems[m]), fresh[m])
GoEnd(m) == At(m, END, elems[m] # {})
Find(m, k) == \/ k \notin Keys(elems[m]) /\ GoEnd(m)
              \/ \E e \in elems[m] : KeyAt(e) = k /\ At(m, e, fresh[m])

\* lower_bound (ge) and upper_bound: the first element not before k, or after it
Bound(m, k, ge) ==
  At(m, FirstOf({e \in elems[m] : KeyAt(e) > k \/ (ge /\ KeyAt(e) = k)}), elems[m] # {})

Advance ==
  /\ it # NoIt /\ it.at # END
  /\ LET above == {e \in elems[it.on] : Before(it.at, e)}
     IN  At(it.on, FirstOf(above), fresh[it.on] \/ above = {})

\* Before the first element is END; --END holds its promise when fresh.
Retreat ==
  /\ it # NoIt
  /\ LET S == elems[it.on]
         below == IF it.at = END THEN S ELSE {e \in S : Before(e, it.at)}
     IN  \/ it.at # END /\ below = {} /\ \E f \in BOOLEAN : At(it.on, END, f)
         \/ below # {} /\ (it.at = END => fresh[it.on]) /\ At(it.on, LastOf(below), fresh[it.on])
         \/ it.at = END /\ ~fresh[it.on] /\ \E e \in S : At(it.on, e, FALSE)

RBegin(m) == elems[m] # {} /\ At(m, LastOf(elems[m]), TRUE)
REnd(m) == \E f \in BOOLEAN : At(m, END, f)

Step ==
  \/ call' = <<"operator++">> /\ Advance
  \/ call' = <<"operator--">> /\ Retreat
  \/ call' = <<"erase at">> /\ EraseAt
  \/ \E last \in (Key \X Copies) \cup {END} : call' = <<"erase range", last>> /\ EraseRange(last)
  \/ \E m \in Map :
       \/ call' = <<"begin", m>> /\ GoBegin(m)
       \/ call' = <<"end", m>> /\ GoEnd(m)
       \/ call' = <<"rbegin", m>> /\ RBegin(m)
       \/ call' = <<"rend", m>> /\ REnd(m)
       \/ call' = <<"clear", m>> /\ Clear(m)
  \/ \E m \in Map, k \in Key :
       \/ call' = <<"find", m, k>> /\ Find(m, k)
       \/ call' = <<"lower_bound", m, k>> /\ Bound(m, k, TRUE)
       \/ call' = <<"upper_bound", m, k>> /\ Bound(m, k, FALSE)
       \/ call' = <<"insert", m, k>> /\ Insert(m, k)
       \/ call' = <<"operator[]", m, k>> /\ Subscript(m, k)
       \/ call' = <<"erase", m, k>> /\ Erase(m, k)
  \/ \E m, x \in Map :
       \/ call' = <<"swap", m, x>> /\ Swap(m, x)
       \/ call' = <<"operator=", m, x>> /\ Assign(m, x)
       \/ call' = <<"copy", m, x>> /\ Construct(m, elems[x])
  \/ \E m \in Map, r \in Ranges :
       \/ call' = <<"construct", m, r>> /\ Construct(m, FoldLeft(PutNew, {}, r))
       \/ call' = <<"insert range", m, r>> /\ InsertRange(m, r)

\* The calls that delete, or step back: only they may take the process along.
Lose ==
  /\ lost' = TRUE /\ UNCHANGED <<elems, it, fresh>>
  /\ call'[1] \in {"construct", "copy", "operator=", "clear", "erase", "erase at",
                   "erase range", "rbegin", "rend", "operator--"}

Next == ~lost /\ (Lose \/ (lost' = FALSE /\ Step))

Spec == Init /\ [][Next]_vars
=============================================================================
