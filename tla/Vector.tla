-------------------------------- MODULE Vector --------------------------------
(***************************************************************************)
(* ft::vector over its storage: a block of _capacity cells, each of which  *)
(* holds an object of the class T or none, and _size.  An action is one    *)
(* call on one of the vectors of a client.  The code reaches the cells     *)
(* through raw pointers, so every action also names the cells it destroys, *)
(* assigns or reads; `did' says of the last call whether one of them lay   *)
(* beyond the block ("outside"), and whether the vector's block was given  *)
(* back ("moved": every iterator is invalid).  Whether a cell within the   *)
(* block holds an object is not asked: push_back, for one, assigns to a    *)
(* cell in which none was constructed.                                     *)
(***************************************************************************)
EXTENDS Integers, Sequences, SequencesExt

CONSTANTS
    Vectors,     \* the vectors of the client
    Values,      \* what an element can be: numbers, compared with <
    NoObject,    \* a cell in which nothing was constructed, or a destroyed one
    NoPosition,  \* what a call that returns no iterator returns
    Ranges,      \* the ranges [first, last) given to the calls that take one
    MaxCells     \* bound of the model: cells of any two vectors together

ASSUME VectorAssumption ==
    /\ Values \subseteq Int /\ Values # {}
    /\ NoObject \notin Values
    /\ NoPosition \notin Nat
    /\ Ranges \subseteq Seq(Values)
    /\ MaxCells \in Nat \ {0}

VARIABLES
    vec,       \* of each vector: its cells and its size
    call,      \* the last call: its name, the vector, and what it was given
    returned,  \* the index of the iterator the last call returned
    did,       \* what the last call did to the storage
    lost       \* the contents are no longer defined

vars == <<vec, call, returned, did, lost>>

Capacity(w) == Len(w.cells)

Elems(w) == SubSeq(w.cells, 1, w.size)

Storage(w) == 0 .. Capacity(w) - 1

\* The cells from index at on, constructed from or assigned the members of s.
Write(w, at, s) ==
    [w EXCEPT !.cells = [i \in DOMAIN @ |->
                            IF i - at \in DOMAIN s THEN s[i - at] ELSE @[i]]]

Destroy(w, at) ==
    [w EXCEPT !.cells = [i \in DOMAIN @ |->
                            IF i - 1 \in at THEN NoObject ELSE @[i]]]

Sized(w, n) == [w EXCEPT !.size = n]

\* A new block of n cells in which the members of s are constructed.
Block(s, n) ==
    [cells |-> [i \in 1 .. n |-> IF i <= Len(s) THEN s[i] ELSE NoObject],
     size |-> Len(s)]

Copies(n, x) == [i \in 1 .. n |-> x]

Given == Ranges \cup {Copies(n, x) : n \in 0 .. MaxCells, x \in Values}

\* What it means to use the cells at these indices of w.
Use(w, at) == {e \in {"outside"} : \E i \in at : i >= Capacity(w)}

Becomes(c, v, w, effects) ==
    /\ ~lost
    /\ \A u \in Vectors \ {v} : Capacity(vec[u]) + Capacity(w) <= MaxCells
    /\ vec' = [vec EXCEPT ![v] = w]
    /\ call' = c
    /\ did' = effects
    /\ lost' = FALSE

Loses(c) ==
    /\ ~lost
    /\ lost' = TRUE
    /\ call' = c
    /\ did' = {}
    /\ UNCHANGED <<vec, returned>>

Init ==
    /\ vec = [v \in Vectors |-> Block(<<>>, 0)]
    /\ call = <<>>
    /\ returned = NoPosition
    /\ did = {}
    /\ lost = FALSE

-------------------------------------------------------------------------------
(***************************************************************************)
(* The calls that return no position.                                      *)
(***************************************************************************)

\* The destructor, then the default, fill, range or copy constructor.
Construct(v) ==
    /\ \E s \in Given \cup {Elems(vec[w]) : w \in Vectors \ {v}} :
            Becomes(<<"construct", v, s>>, v, Block(s, Len(s)), {"moved"})
    /\ returned' = NoPosition

\* operator=: the cells are destroyed and given back before x is read ...
Assign(v) ==
    /\ \E w \in Vectors :
        /\ v # w \/ vec[w].size = 0
        /\ Becomes(<<"operator=", v, w>>, v, Block(Elems(vec[w]), vec[w].size), {"moved"})
    /\ returned' = NoPosition

\* ... so that an assignment to itself reads the new, unconstructed block.
AssignSelf(v) == vec[v].size > 0 /\ Loses(<<"operator=", v, v>>)

\* Mutant: in place, _size keeps its old value.
AssignCellsKeepingSize(w, s) ==
    IF Len(s) > Capacity(w)
    THEN Block(s, Len(s))
    ELSE Write(Destroy(w, Storage(w)), 0, s)

AssignCells(w, s) ==
    IF Len(s) > Capacity(w)
    THEN Block(s, Len(s))
    ELSE Sized(Write(Destroy(w, Storage(w)), 0, s), Len(s))

AssignGiven(v) ==
    /\ \E s \in Given :
            Becomes(<<"assign", v, s>>, v, AssignCells(vec[v], s),
                    IF Len(s) > Capacity(vec[v]) THEN {"moved"} ELSE {})
    /\ returned' = NoPosition

\* assign(n, val) where val is an element: it is destroyed before it is copied.
AssignOwn(v) == vec[v].size > 0 /\ Loses(<<"assign own", v>>)

Reserve(v) ==
    /\ \E n \in 0 .. MaxCells :
        /\ n > Capacity(vec[v])
        /\ Becomes(<<"reserve", v, n>>, v, Block(Elems(vec[v]), n), {"moved"})
    /\ returned' = NoPosition

\* Mutants: the capacity is compared with the size before / after the next one.
GrownLate(w) ==
    IF Capacity(w) = 0 THEN Block(<<>>, 2)
    ELSE IF w.size > Capacity(w) THEN Block(Elems(w), Capacity(w) * 2)
    ELSE w

GrownEarly(w) ==
    IF Capacity(w) = 0 THEN Block(<<>>, 2)
    ELSE IF w.size + 2 > Capacity(w) THEN Block(Elems(w), Capacity(w) * 2)
    ELSE w

Grown(w) ==
    IF Capacity(w) = 0 THEN Block(<<>>, 2)
    ELSE IF w.size + 1 > Capacity(w) THEN Block(Elems(w), Capacity(w) * 2)
    ELSE w

Pushed(w, room, x) == Sized(Write(room, w.size, <<x>>), w.size + 1)

\* The new element is assigned to its cell, which holds an object only if an
\* element was popped there.
PushBack(v) ==
    /\ \E x \in Values :
            Becomes(<<"push_back", v, x>>, v, Pushed(vec[v], Grown(vec[v]), x),
                    Use(Grown(vec[v]), {vec[v].size})
                      \cup IF Grown(vec[v]) # vec[v] THEN {"moved"} ELSE {})
    /\ returned' = NoPosition

\* push_back of an element, read from the block that was just given back.
PushBackOwn(v) ==
    vec[v].size > 0 /\ vec[v].size + 1 > Capacity(vec[v]) /\ Loses(<<"push_back own", v>>)

\* pop_back destroys the cell behind the last element.
Popped(w) == Sized(Destroy(w, {w.size}), w.size - 1)

PopBack(v) ==
    /\ vec[v].size > 0
    /\ Becomes(<<"pop_back", v>>, v, Popped(vec[v]), Use(vec[v], {vec[v].size}))
    /\ returned' = NoPosition

Clear(v) ==
    /\ Becomes(<<"clear", v>>, v, Sized(Destroy(vec[v], 0 .. vec[v].size - 1), 0),
               Use(vec[v], 0 .. vec[v].size - 1))
    /\ returned' = NoPosition

\* The shrinking loop compares its counter with what is left to pop, and so
\* pops half of it; _size is set to count all the same.
PoppedBy(w, n) == (w.size - (w.size - n + 1) \div 2) + 1 .. w.size

Resized(w, n, x) ==
    IF n > Capacity(w) THEN Block(Elems(w) \o Copies(n - w.size, x), n)
    ELSE IF n > w.size THEN Sized(Write(w, w.size, Copies(n - w.size, x)), n)
    ELSE Sized(Destroy(w, PoppedBy(w, n)), n)

Resize(v) ==
    /\ \E n \in 0 .. MaxCells, x \in Values :
            Becomes(<<"resize", v, n, x>>, v, Resized(vec[v], n, x),
                    IF n > Capacity(vec[v]) THEN {"moved"}
                    ELSE IF n > vec[v].size THEN {}
                    ELSE Use(vec[v], PoppedBy(vec[v], n)))
    /\ returned' = NoPosition

Swap ==
    /\ ~lost
    /\ \E v, w \in Vectors :
            /\ vec' = [vec EXCEPT ![v] = vec[w], ![w] = vec[v]]
            /\ call' = <<"swap", v, w>>
    /\ returned' = NoPosition
    /\ did' = {}
    /\ UNCHANGED lost

-------------------------------------------------------------------------------
(***************************************************************************)
(* The calls that return a position.                                       *)
(***************************************************************************)

Tail1(w, i) == SubSeq(w.cells, i + 1, w.size)

\* s in front of the element at index i: a block of exactly the new size if it
\* does not fit, else the elements from i on are assigned one after the other.
Spliced(w, i, s) ==
    IF w.size + Len(s) > Capacity(w)
    THEN Block(SubSeq(w.cells, 1, i) \o s \o Tail1(w, i), w.size + Len(s))
    ELSE Sized(Write(w, i, s \o Tail1(w, i)), w.size + Len(s))

Insert(v, i, s) ==
    /\ Becomes(<<"insert", v, i, s>>, v, Spliced(vec[v], i, s),
               IF vec[v].size + Len(s) > Capacity(vec[v]) THEN {"moved"}
               ELSE Use(vec[v], i .. vec[v].size + Len(s) - 1))
    /\ returned' = i

InsertOne(v) ==
    \E i \in 0 .. vec[v].size, x \in Values : Insert(v, i, <<x>>)

InsertFill(v) ==
    \E i \in 0 .. vec[v].size, n \in 0 .. MaxCells, x \in Values :
        Insert(v, i, Copies(n, x))

InsertRange(v) ==
    \E i \in 0 .. vec[v].size, s \in Ranges : Insert(v, i, s)

Erase(v) ==
    \E i \in 0 .. vec[v].size - 1 :
        /\ Becomes(<<"erase", v, i, 1>>, v,
                   Sized(Destroy(Write(vec[v], i, Tail1(vec[v], i + 1)),
                                 {vec[v].size - 1}), vec[v].size - 1),
                   Use(vec[v], i .. vec[v].size - 1))
        /\ returned' = i

\* Mutant: the loop stops before the last element that has one d further on.
ShiftedShort(w, i, d) ==
    Write(w, i, [j \in 1 .. w.size - 1 - i - d |-> w.cells[i + d + j]])

\* Every cell from first to the last but one is assigned the one d further on,
\* beyond the elements, and beyond the block, included.
Shifted(w, i, d) ==
    Write(w, i, [j \in 1 .. w.size - 1 - i |->
                    IF i + d + j <= Capacity(w) THEN w.cells[i + d + j]
                                                ELSE NoObject])

EraseRange(v) ==
    \E i \in 0 .. vec[v].size - 1 : \E d \in 0 .. vec[v].size - i :
        /\ Becomes(<<"erase", v, i, d>>, v,
                   Sized(Destroy(Shifted(vec[v], i, d),
                                 vec[v].size - d .. vec[v].size - 1),
                         vec[v].size - d),
                   Use(vec[v], (i .. vec[v].size - 1)
                                 \cup (i + d .. vec[v].size - 2 + d)))
        /\ returned' = i

\* erase(end(), end()), which the standard makes a no-op: the loop that ends
\* one short of end() starts behind it.
EraseNothingAtEnd(v) == Loses(<<"erase", v, vec[v].size, 0>>)

Next ==
    \/ \E v \in Vectors :
        \/ Construct(v) \/ Assign(v) \/ AssignSelf(v)
        \/ AssignGiven(v) \/ AssignOwn(v)
        \/ Reserve(v) \/ PushBack(v) \/ PushBackOwn(v) \/ PopBack(v)
        \/ Clear(v) \/ Resize(v)
        \/ InsertOne(v) \/ InsertFill(v) \/ InsertRange(v)
        \/ Erase(v) \/ EraseRange(v) \/ EraseNothingAtEnd(v)
    \/ Swap

Spec == Init /\ [][Next]_vars

-------------------------------------------------------------------------------
(***************************************************************************)
(* The comparisons.                                                        *)
(***************************************************************************)

Same(a, b) == Len(a) = Len(b) /\ \A i \in DOMAIN a : a[i] = b[i]

\* Where the loop of lexicographical_compare returns or ends.
Stop(a, b) ==
    CHOOSE i \in 1 .. Len(a) + 1 :
        /\ i > Len(a) \/ i > Len(b) \/ a[i] # b[i]
        /\ \A j \in 1 .. i - 1 : j <= Len(b) /\ a[j] = b[j]

\* Mutant: a prefix is not less than the longer vector.
LessWithinBoth(a, b) ==
    /\ Stop(a, b) <= Len(a)
    /\ Stop(a, b) <= Len(b)
    /\ a[Stop(a, b)] < b[Stop(a, b)]

Less(a, b) ==
    /\ Stop(a, b) <= Len(b)
    /\ Stop(a, b) <= Len(a) => a[Stop(a, b)] < b[Stop(a, b)]

-------------------------------------------------------------------------------
(***************************************************************************)
(* The properties.                                                         *)
(***************************************************************************)

\* The size fits the block, and every element, on whatever path its cell was
\* constructed, assigned, popped and pushed again, holds an object.
TypeOK ==
    /\ \A v \in Vectors :
        /\ vec[v].cells \in Seq(Values \cup {NoObject})
        /\ vec[v].size \in 0 .. Capacity(vec[v])
        /\ Elems(vec[v]) \in Seq(Values)
    /\ returned \in Nat \cup {NoPosition}
    /\ did \subseteq {"outside", "moved"}
    /\ lost \in BOOLEAN

\* The two loops behind the six comparisons decide the same order: of any two
\* vectors exactly one is less, or they are equal.
OrderIsTotal ==
    \A v, w \in Vectors :
        LET a == Elems(vec[v])
            b == Elems(vec[w])
        IN Cardinality({r \in 1 .. 3 : \/ r = 1 /\ Less(a, b)
                                       \/ r = 2 /\ Same(a, b)
                                       \/ r = 3 /\ Less(b, a)}) = 1

\* No call reaches beyond the block unless it removes more elements than the
\* block has spare cells: pop_back on a full vector, an erase of a wide range.
StaysInside ==
    [][("outside" \in did' /\ ~lost') =>
            \E v \in Vectors :
                /\ call'[2] = v
                /\ 2 * vec[v].size - vec'[v].size > Capacity(vec[v])]_vars

\* Iterators stay valid as long as the capacity suffices: a block is given up
\* only for elements that do not fit, by reserve, or by the calls that make
\* the vector anew.
MovesOnlyForRoom ==
    [][("moved" \in did' /\ ~lost') =>
            \E v \in Vectors :
                /\ call'[2] = v
                /\ \/ vec'[v].size > Capacity(vec[v])
                   \/ call'[1] \in {"reserve", "construct", "operator="}]_vars

\* Apart from the four calls that lose them, every call leaves the contents,
\* and returns the position, that the standard promises of this very call.
Contents ==
    INSTANCE Elements WITH seqs <- [v \in Vectors |-> Elems(vec[v])]

Implements == Contents!Spec
===============================================================================
