-------------------------------- MODULE Map --------------------------------
(***************************************************************************)
(* ft::map: src/ft_containers/map.hpp over RedBlackTree.  One action per   *)
(* member function; a caller with two maps, and one iterator it keeps      *)
(* across calls, makes them in any order.  Mapped values are left out: the *)
(* functions never look at them.                                           *)
(*                                                                         *)
(*   tree[m]    _rbt                                                       *)
(*   size[m]    _size                                                      *)
(*   it         the iterator the caller keeps: map and node, TNULL past    *)
(*              the end; NoIt when it has none, or when its element is     *)
(*              gone and using it is the caller's mistake                  *)
(*   down       the call that dereferenced a null pointer, or "no"         *)
(*   hollow[m]  _size has been left at the number of elements m held       *)
(*              before it was assigned to itself, or copied from such a map*)
(*   call       the last call: its name, the map, and what it was given    *)
(***************************************************************************)
EXTENDS RedBlackTree

CONSTANTS Maps, NoIt,
          Ranges,     \* sequences of keys a caller may pass as [first, last)
          MaxAlone,   \* bound on _size while the other maps are empty
          MaxBoth,    \* bound on what insertions make of it while they are not
          MaxCopied   \* bound on the _size of a map that is copied or assigned

ASSUME MapAssumption == Ranges \subseteq Seq(Key) /\ {MaxAlone, MaxBoth, MaxCopied} \subseteq Nat

VARIABLES tree, size, it, down, hollow, call
vars == <<tree, size, it, down, hollow, call>>

Position(m, n) == [on |-> m, at |-> n]
Positions == [on : Maps, at : Node \cup {TNULL}]
Count(m) == Cardinality(Allocated(tree[m]))
Missing(t, k) == SearchTree(t, k) = TNULL      \* node->left == node->right == nullptr

\* The caller's iterator once m's tree is t.
Kept(m, t) == IF it # NoIt /\ it.on = m /\ it.at \notin Allocated(t) \cup {TNULL} THEN NoIt ELSE it

Up == down = "no"
Went(bad, name) == Up /\ down' = IF bad THEN name ELSE "no"

\* m's tree and size after a call: nothing more happens once a call has gone down.
Put(m, t, s, name) ==
  /\ Went(t.bad, name)
  /\ tree' = IF t.bad THEN tree ELSE [tree EXCEPT ![m] = t]
  /\ size' = IF t.bad THEN size ELSE [size EXCEPT ![m] = s]

\* The bounds admit a map m of size n.
Room(m, n) == n <= MaxAlone /\ \A x \in Maps \ {m} : 0 \in {n, size[x]} \/ {n, size[x]} \subseteq 1..MaxBoth

-----------------------------------------------------------------------------
(* Whole maps. *)

Init ==
  /\ tree = [m \in Maps |-> EmptyTree] /\ size = [m \in Maps |-> 0]
  /\ it = NoIt /\ down = "no" /\ hollow = [m \in Maps |-> FALSE] /\ call = <<>>

\* Range constructor: every element, without looking for it first.
Elements(s) == FoldLeft(Insert, EmptyTree, s)

\* The elements of t from begin() to end(), as ++ visits them.
RECURSIVE From(_, _)
From(t, n) == IF n = TNULL THEN <<>> ELSE <<n>> \o From(t, Increment(t, n).at)
InOrder(t) == From(t, Begin(t))
KeysOf(t) == LET s == InOrder(t) IN [i \in DOMAIN s |-> KeyOf(s[i])]

Leave(m) == it' = IF it # NoIt /\ it.on = m THEN NoIt ELSE it

\* ~map() and map(first, last) in its place; map() when the range is empty.
\* old is the tree once the destructor has emptied it.
ConstructOver(m, s, old) ==
  /\ Room(m, Len(s))
  /\ Put(m, IF old.bad THEN old ELSE Elements(s), Len(s), "destroy")
  /\ IF old.bad THEN UNCHANGED <<it, hollow>>
     ELSE Leave(m) /\ hollow' = [hollow EXCEPT ![m] = FALSE]
Construct(m, s) == ConstructOver(m, s, DeleteFirst(tree[m], size[m]))

\* ~map() and map(x) in its place.  x.end() is called on the way.
CopyOver(m, x, old) ==
  /\ m # x /\ size[x] <= MaxCopied
  /\ Went(old.bad, "destroy")
  /\ IF old.bad THEN UNCHANGED <<tree, size, it, hollow>>
     ELSE /\ tree' = [tree EXCEPT ![m] = Elements(KeysOf(tree[x])), ![x] = End(@)]
          /\ size' = [size EXCEPT ![m] = size[x]]
          /\ hollow' = [hollow EXCEPT ![m] = hollow[x]]
          /\ Leave(m)
Copy(m, x) == CopyOver(m, x, DeleteFirst(tree[m], size[m]))

\* operator=: the elements go first, and are those of x when x is this map.
AssignOver(m, x, old) ==
  /\ size[x] <= MaxCopied
  /\ Went(old.bad, "assign")
  /\ IF old.bad THEN UNCHANGED <<tree, size, it, hollow>>
     ELSE /\ tree' = IF m = x THEN [tree EXCEPT ![m] = old]
                     ELSE [tree EXCEPT ![m] = FoldLeft(Insert, old, KeysOf(tree[x])), ![x] = End(@)]
          /\ size' = [size EXCEPT ![m] = size[x]]
          /\ hollow' = [hollow EXCEPT ![m] = hollow[x] \/ (m = x /\ size[m] > 0)]
          /\ it' = Kept(m, EmptyTree)
Assign(m, x) == AssignOver(m, x, DeleteFirst(tree[m], size[m]))

Swap(m, x) ==
  /\ Up /\ m # x
  /\ tree' = [tree EXCEPT ![m] = tree[x], ![x] = tree[m]]
  /\ size' = [size EXCEPT ![m] = size[x], ![x] = size[m]]
  /\ hollow' = [hollow EXCEPT ![m] = hollow[x], ![x] = hollow[m]]
  /\ it' = IF it # NoIt /\ it.on \in {m, x}
           THEN [it EXCEPT !.on = IF @ = m THEN x ELSE m] ELSE it
  /\ UNCHANGED down

\* Mutant: _size is not reset.
ClearToKeepingSize(m, t) == Put(m, t, size[m], "clear") /\ it' = Kept(m, t) /\ UNCHANGED hollow

ClearTo(m, t) ==
  /\ Put(m, t, 0, "clear")
  /\ IF t.bad THEN UNCHANGED <<it, hollow>>
     ELSE it' = Kept(m, t) /\ hollow' = [hollow EXCEPT ![m] = FALSE]
Clear(m) == ClearTo(m, DeleteFirst(tree[m], size[m]))

-----------------------------------------------------------------------------
(* Insertion and erasure. *)

\* What a call works on: the tree of m and _size.
Held(m) == [tree |-> tree[m], size |-> size[m]]

Added(h, k) ==
  IF Missing(h.tree, k) THEN [tree |-> Insert(h.tree, k), size |-> h.size + 1] ELSE h

\* Mutant: a deletion is not counted.
DeletedUncounted(h, k) ==
  IF Missing(h.tree, k) THEN h ELSE [h EXCEPT !.tree = Delete(@, k)]

\* deleteNode returns 1 when it has found the key.
Deleted(h, k) ==
  IF Missing(h.tree, k) THEN h ELSE [tree |-> Delete(h.tree, k), size |-> h.size - 1]

Grown(m, h) == Put(m, h.tree, h.size, "insert") /\ UNCHANGED hollow

\* insert(val) and insert(position, val), whose iterator the caller keeps.
InsertKey(m, k) ==
  /\ Room(m, size[m] + 1)
  /\ Grown(m, Added(Held(m), k))
  /\ it' = Position(m, SearchTree(tree'[m], k))

\* operator[]: a reference to the value, no iterator.
Subscript(m, k) == Room(m, size[m] + 1) /\ Grown(m, Added(Held(m), k)) /\ UNCHANGED it

InsertRange(m, s) ==
  Room(m, size[m] + Len(s)) /\ Grown(m, FoldLeft(Added, Held(m), s)) /\ UNCHANGED it

Shrunk(m, h) == Put(m, h.tree, h.size, "erase") /\ UNCHANGED hollow

Erased(m, h) == Shrunk(m, h) /\ it' = IF h.tree.bad THEN it ELSE Kept(m, h.tree)

EraseKey(m, k) == Erased(m, Deleted(Held(m), k))

\* erase(position): by the key at the position.
EraseAt == /\ it # NoIt /\ it.at # TNULL
           /\ Erased(it.on, Deleted(Held(it.on), KeyOf(it.at)))

\* erase(first, last): first has stepped on when its element goes.
RECURSIVE EraseFrom(_, _, _)
EraseFrom(h, n, last) ==
  IF n = last \/ h.tree.bad THEN h
  ELSE IF n \notin Allocated(h.tree) THEN [h EXCEPT !.tree.bad = TRUE]  \* a freed element
  ELSE LET next == Increment(h.tree, n)
       IN  EraseFrom(Deleted([h EXCEPT !.tree = next.tree], KeyOf(n)), next.at, last)

\* The positions from n to the end.
After(t, n) == ToSet(From(t, n)) \cup {TNULL}

RangeErased(m, h, last) ==
  Shrunk(m, h) /\ it' = IF h.tree.bad \/ it.at = last THEN it ELSE NoIt
EraseRange(last) ==
  /\ it # NoIt /\ last \in After(tree[it.on], it.at)
  /\ RangeErased(it.on, EraseFrom(Held(it.on), it.at, last), last)

-----------------------------------------------------------------------------
(* Iterators and look-ups: a position in m, whose sentinel may move. *)

Reach(m, step, name) ==
  /\ Put(m, step.tree, size[m], name)
  /\ it' = IF step.tree.bad THEN it ELSE Position(m, step.at)
  /\ UNCHANGED hollow

AtEnd(t) == [at |-> TNULL, tree |-> End(t)]
AtNode(t, n) == IF n = TNULL THEN AtEnd(t) ELSE [at |-> n, tree |-> t]

GoBegin(m) == Reach(m, [at |-> Begin(tree[m]), tree |-> tree[m]], "begin")
GoEnd(m) == Reach(m, AtEnd(tree[m]), "end")
RBegin(m) == Reach(m, Decrement(End(tree[m]), TNULL), "rbegin")
REnd(m) == Reach(m, Decrement(tree[m], Begin(tree[m])), "rend")
Find(m, k) == Reach(m, AtNode(tree[m], SearchTree(tree[m], k)), "find")

\* lower_bound() and upper_bound() walk from begin() and ask end() at every step.
FirstNode(t, Test(_)) ==
  LET s == InOrder(t) i == SelectInSeq(s, Test)
  IN  [at |-> IF i = 0 THEN TNULL ELSE s[i], tree |-> End(t)]

LowerBound(m, k) == Reach(m, FirstNode(tree[m], LAMBDA n : ~Compare(KeyOf(n), k)), "bound")
UpperBound(m, k) == Reach(m, FirstNode(tree[m], LAMBDA n : Compare(k, KeyOf(n))), "bound")

Advance == /\ it # NoIt /\ it.at # TNULL
           /\ Reach(it.on, Increment(tree[it.on], it.at), "advance")
Retreat == /\ it # NoIt
           /\ Reach(it.on, Decrement(tree[it.on], it.at), "retreat")

-----------------------------------------------------------------------------
Next ==
  \/ \E m \in Maps, s \in Ranges :
       \/ Construct(m, s) /\ call' = <<"construct", m, s>>
       \/ InsertRange(m, s) /\ call' = <<"insert range", m, s>>
  \/ \E m, x \in Maps :
       \/ Copy(m, x) /\ call' = <<"copy", m, x>>
       \/ Assign(m, x) /\ call' = <<"operator=", m, x>>
       \/ Swap(m, x) /\ call' = <<"swap", m, x>>
  \/ \E m \in Maps :
       \/ Clear(m) /\ call' = <<"clear", m>>
       \/ GoBegin(m) /\ call' = <<"begin", m>>
       \/ GoEnd(m) /\ call' = <<"end", m>>
       \/ RBegin(m) /\ call' = <<"rbegin", m>>
       \/ REnd(m) /\ call' = <<"rend", m>>
  \/ \E m \in Maps, k \in Key :
       \/ InsertKey(m, k) /\ call' = <<"insert", m, k>>
       \/ Subscript(m, k) /\ call' = <<"operator[]", m, k>>
       \/ EraseKey(m, k) /\ call' = <<"erase", m, k>>
       \/ Find(m, k) /\ call' = <<"find", m, k>>
       \/ LowerBound(m, k) /\ call' = <<"lower_bound", m, k>>
       \/ UpperBound(m, k) /\ call' = <<"upper_bound", m, k>>
  \/ EraseAt /\ call' = <<"erase at">>
  \/ Advance /\ call' = <<"operator++">>
  \/ Retreat /\ call' = <<"operator--">>
  \/ \E last \in Node \cup {TNULL} : EraseRange(last) /\ call' = <<"erase range", last>>

Spec == Init /\ [][Next]_vars

-----------------------------------------------------------------------------
(* Properties. *)

\* The map a caller sees.
Ordered == INSTANCE OrderedMap WITH
  Map <- Maps, END <- TNULL, lost <- down # "no",
  elems <- [m \in Maps |-> Allocated(tree[m])],
  fresh <- [m \in Maps |-> tree[m].root # TNULL /\ End(tree[m]) = tree[m]]

\* Trees and the iterator have their shape: every link leads to an allocated
\* node or to the sentinel.
TypeOK ==
  /\ \A m \in Maps : LET t == tree[m]
                         nodes == Allocated(t)
                     IN  /\ nodes \subseteq Node /\ t.root \in nodes \cup {TNULL}
                         /\ t.kid \in [nodes -> [left : nodes \cup {TNULL}, right : nodes \cup {TNULL}]]
                         /\ t.par \in [nodes \cup {TNULL} -> nodes \cup {NULL}]
                         /\ t.red \subseteq nodes /\ t.skew \in BOOLEAN /\ ~t.bad
  /\ size \in [Maps -> Nat] /\ hollow \in [Maps -> BOOLEAN]
  /\ it \in Positions \cup {NoIt}

\* redblacktree.hpp:167-240, 442-490: rotations, transplants and the relinking of
\* a deletion keep child and parent pointers each other's inverse and the keys in
\* order, so that ++ from begin() visits every element once, in order.
Linked ==
  TypeOK /\ \A m \in Maps :
    LET t == tree[m]
    IN  /\ t.root # TNULL => t.par[t.root] = NULL
        /\ \A n \in Allocated(t) :
             /\ n # t.root => t.par[n] # NULL /\ n \in {t.kid[t.par[n]].left, t.kid[t.par[n]].right}
             /\ \A d \in {"left", "right"} : t.kid[n][d] # TNULL => t.par[t.kid[n][d]] = n
        /\ LET s == InOrder(t)
           IN  /\ ToSet(s) = Allocated(t) /\ Len(s) = Count(m)
               /\ \A i \in 2..Len(s) : Ordered!Before(s[i - 1], s[i])

\* map.hpp: _size, which clear, operator= and the destructor count down by, is the
\* number of elements, unless the map was assigned to itself.
SizeIsCount == \A m \in Maps : ~hollow[m] => size[m] = Count(m)

\* A call goes down on a null pointer only in these cases, of the maps as they
\* were before it: erasing with a tree
\* that line 141 has unbalanced or with equal keys in the map (whose second may
\* be the one freed while the iterator is on the first); emptying a map whose
\* _size is stale; rbegin() of an empty map; rend() of a map whose first element
\* is the root, or whose nodes down the right all have a left child
\* (mapIterator.hpp:84-88); stepping back from a place before the first element
\* or from an end() that no call has refreshed.
GoesDownOnlyIf ==
  LET Repeats(t) == Cardinality({KeyOf(n) : n \in Allocated(t)}) # Cardinality(Allocated(t))
      NoRend(t) == OffLeft(t, t.root) \in {NULL, t.root}
  IN  CASE down = "no" -> TRUE
        [] down = "erase" -> \E m \in Maps : tree[m].skew \/ Repeats(tree[m])
        [] down \in {"clear", "assign", "destroy"} -> \E m \in Maps : tree[m].skew \/ hollow[m]
        [] down = "rbegin" -> \E m \in Maps : tree[m].root = TNULL
        [] down = "rend" -> \E m \in Maps : NoRend(tree[m])
        [] down = "retreat" -> LET t == tree[it.on]
                               IN  \/ it.at = Begin(t) /\ NoRend(t)
                                   \/ it.at = TNULL /\ t.par[TNULL] = NULL
        [] OTHER -> FALSE

\* map.hpp and mapIterator.hpp: to its caller the map is an ordered sequence, and
\* an iterator stays on its element through every other insertion, erasure and
\* rotation: each call does what it promises, and only those that may go down do.
Implements == Ordered!Spec

=============================================================================
