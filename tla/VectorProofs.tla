---------------------------- MODULE VectorProofs ----------------------------
(***************************************************************************)
(* Proofs about Vector, for any number of vectors, any values and blocks   *)
(* of any size: the size fits the block, elements are objects, the calls   *)
(* reach no further than they may, and they keep the promises of Elements. *)
(***************************************************************************)
EXTENDS Vector, SequenceLemmas, FiniteSetTheorems

(***************************************************************************)
(* A vector whose block has a cell for each of its elements, each of which *)
(* holds an object.  What the other cells hold is anybody's guess.         *)
(***************************************************************************)
Cells == Values \cup {NoObject}

Shape(w) == w \in [cells : Seq(Cells), size : Nat]

Vec(w) ==
    /\ Shape(w)
    /\ w.size <= Capacity(w)
    /\ \A i \in 1 .. w.size : w.cells[i] \in Values

-----------------------------------------------------------------------------
\* A function on 1..n is a sequence of length n.
LEMMA SeqOfFcn ==
    ASSUME NEW S, NEW n \in Nat, NEW f \in [1 .. n -> S]
    PROVE  f \in Seq(S) /\ Len(f) = n
<1>1. f \in Seq(S)
      BY SeqDef
<1>2. DOMAIN f = 1 .. Len(f) /\ Len(f) \in Nat
      BY <1>1, LenProperties
<1>   QED
      BY <1>1, <1>2

\* The elements are the first cells.
LEMMA ElemsAre ==
    ASSUME NEW w, Vec(w)
    PROVE  /\ Elems(w) \in Seq(Values)
           /\ Len(Elems(w)) = w.size
           /\ \A i \in 1 .. w.size : Elems(w)[i] = w.cells[i]
<1>1. w.size \in Nat /\ \A i \in 1 .. w.size : w.cells[i] \in Values
      BY DEF Vec, Shape
<1>   QED
      BY <1>1, SubSeqProperties DEF Elems

\* Two sequences of elements are the same if they have the same members.
LEMMA ElemsEqual ==
    ASSUME NEW w, Vec(w), NEW s \in Seq(Values), Len(s) = w.size,
           \A i \in 1 .. w.size : s[i] = w.cells[i]
    PROVE  Elems(w) = s
BY ElemsAre, SeqEqual

LEMMA CopiesAre ==
    ASSUME NEW n \in Nat, NEW x \in Values
    PROVE  /\ Copies(n, x) \in Seq(Values)
           /\ Len(Copies(n, x)) = n
           /\ \A i \in 1 .. n : Copies(n, x)[i] = x
<1>1. Copies(n, x) \in [1 .. n -> Values]
      BY DEF Copies
<1>   QED
      BY <1>1, SeqOfFcn DEF Copies

LEMMA Counts ==
    ASSUME NEW w, Vec(w)
    PROVE  /\ Shape(w)
           /\ w.size \in Nat /\ Capacity(w) \in Nat /\ w.size <= Capacity(w)
           /\ \A i \in 1 .. w.size : w.cells[i] \in Values
BY LenProperties DEF Vec, Shape, Capacity

\* A new block holds what was constructed in it.
LEMMA BlockIs ==
    ASSUME NEW s \in Seq(Values), NEW n \in Nat, Len(s) <= n
    PROVE  /\ Vec(Block(s, n))
           /\ Elems(Block(s, n)) = s
           /\ Capacity(Block(s, n)) = n
           /\ Block(s, n).size = Len(s)
<1> DEFINE f == [i \in 1 .. n |-> IF i <= Len(s) THEN s[i] ELSE NoObject]
<1>1. Len(s) \in Nat /\ \A i \in 1 .. Len(s) : s[i] \in Values
      BY LenProperties, ElementOfSeq
<1>2. f \in [1 .. n -> Cells]
      BY <1>1 DEF Cells
<1>3. f \in Seq(Cells) /\ Len(f) = n
      BY <1>2, SeqOfFcn
<1>4. \A i \in 1 .. Len(s) : f[i] = s[i]
      BY <1>1
<1>5. Block(s, n) = [cells |-> f, size |-> Len(s)]
      BY DEF Block
<1> HIDE DEF f
<1>6. Vec(Block(s, n)) /\ Capacity(Block(s, n)) = n /\ Block(s, n).size = Len(s)
      BY <1>1, <1>3, <1>4, <1>5 DEF Vec, Shape, Capacity
<1>7. Elems(Block(s, n)) = s
      BY <1>1, <1>4, <1>5, <1>6, ElemsEqual
<1>   QED
      BY <1>6, <1>7

\* Write and Destroy change cells only where they say, and nothing else.
LEMMA WriteIs ==
    ASSUME NEW w, Shape(w), NEW at \in Nat,
           NEW s \in Seq(Cells)
    PROVE  /\ Shape(Write(w, at, s))
           /\ Capacity(Write(w, at, s)) = Capacity(w)
           /\ Write(w, at, s).size = w.size
           /\ \A i \in 1 .. Capacity(w) :
                Write(w, at, s).cells[i] = IF i - at \in 1 .. Len(s) THEN s[i - at]
                                                                    ELSE w.cells[i]
<1> DEFINE f == [i \in DOMAIN w.cells |-> IF i - at \in DOMAIN s THEN s[i - at]
                                                                 ELSE w.cells[i]]
<1>1. /\ DOMAIN s = 1 .. Len(s) /\ \A i \in 1 .. Len(s) : s[i] \in Cells
      /\ DOMAIN w.cells = 1 .. Capacity(w) /\ Capacity(w) \in Nat
      /\ \A i \in 1 .. Capacity(w) : w.cells[i] \in Cells
      BY LenProperties, ElementOfSeq DEF Shape, Capacity
<1>2. f \in [1 .. Capacity(w) -> Cells]
      BY <1>1
<1>3. f \in Seq(Cells) /\ Len(f) = Capacity(w)
      BY <1>1, <1>2, SeqOfFcn
<1>4. \A i \in 1 .. Capacity(w) :
          f[i] = IF i - at \in 1 .. Len(s) THEN s[i - at] ELSE w.cells[i]
      BY <1>1
<1>5. Write(w, at, s) = [cells |-> f, size |-> w.size]
      BY DEF Write, Shape
<1> HIDE DEF f
<1>   QED
      BY <1>3, <1>4, <1>5 DEF Shape, Capacity

LEMMA DestroyIs ==
    ASSUME NEW w, Shape(w), NEW at
    PROVE  /\ Shape(Destroy(w, at))
           /\ Capacity(Destroy(w, at)) = Capacity(w)
           /\ Destroy(w, at).size = w.size
           /\ \A i \in 1 .. Capacity(w) :
                Destroy(w, at).cells[i] = IF i - 1 \in at THEN NoObject ELSE w.cells[i]
<1> DEFINE f == [i \in DOMAIN w.cells |-> IF i - 1 \in at THEN NoObject ELSE w.cells[i]]
<1>1. /\ DOMAIN w.cells = 1 .. Capacity(w) /\ Capacity(w) \in Nat
      /\ \A i \in 1 .. Capacity(w) : w.cells[i] \in Cells
      BY LenProperties, ElementOfSeq DEF Shape, Capacity
<1>2. f \in [1 .. Capacity(w) -> Cells]
      BY <1>1 DEF Cells
<1>3. f \in Seq(Cells) /\ Len(f) = Capacity(w)
      BY <1>1, <1>2, SeqOfFcn
<1>4. \A i \in 1 .. Capacity(w) : f[i] = IF i - 1 \in at THEN NoObject ELSE w.cells[i]
      BY <1>1
<1>5. Destroy(w, at) = [w EXCEPT !.cells = f]
      BY DEF Destroy, Shape
<1> HIDE DEF f
<1>   QED
      BY <1>3, <1>4, <1>5 DEF Shape, Capacity

\* A size up to which the cells hold objects makes a vector of them.
LEMMA SizedIs ==
    ASSUME NEW w, Shape(w), NEW n \in Nat,
           n <= Capacity(w), \A i \in 1 .. n : w.cells[i] \in Values
    PROVE  /\ Vec(Sized(w, n))
           /\ Sized(w, n).cells = w.cells
           /\ Sized(w, n).size = n
           /\ Capacity(Sized(w, n)) = Capacity(w)
<1>1. PICK t : t = Sized(w, n)
      OBVIOUS
<1>2. /\ Shape(t)
      /\ t.cells = w.cells
      /\ t.size = n
      BY <1>1 DEF Sized, Shape
<1>3. Capacity(t) = Capacity(w)
      BY <1>2 DEF Capacity
<1>4. Vec(t)
      BY <1>2, <1>3 DEF Vec
<1>   QED
      BY <1>1, <1>2, <1>3, <1>4

-----------------------------------------------------------------------------
(***************************************************************************)
(* What each call makes of the vector it is called on: its size, and its   *)
(* elements as the standard would have them.                               *)
(***************************************************************************)

LEMMA AssignCellsIs ==
    ASSUME NEW w, Vec(w), NEW s \in Seq(Values)
    PROVE  /\ Vec(AssignCells(w, s))
           /\ Elems(AssignCells(w, s)) = s
           /\ AssignCells(w, s).size = Len(s)
<1>1. CASE Len(s) > Capacity(w)
      BY <1>1, BlockIs, LenProperties DEF AssignCells
<1>2. CASE ~(Len(s) > Capacity(w))
  <2> PICK at \in Nat : at <= 0
      OBVIOUS
  <2> DEFINE d == Destroy(w, Storage(w))
             a == Write(d, at, s)
  <2>0. /\ Shape(w)
        /\ Len(s) \in Nat /\ s \in Seq(Cells)
        /\ \A i \in 1 .. Len(s) : s[i] \in Values
        /\ Capacity(w) \in Nat
        BY Counts, LenProperties, ElementOfSeq, SeqMonotonic DEF Cells
  <2>1. Shape(d) /\ Capacity(d) = Capacity(w)
        BY <2>0, DestroyIs
  <2> HIDE DEF d
  <2>2. /\ Shape(a) /\ Capacity(a) = Capacity(w)
        /\ \A i \in 1 .. Capacity(w) :
              a.cells[i] = IF i - at \in 1 .. Len(s) THEN s[i - at] ELSE d.cells[i]
        BY <2>0, <2>1, WriteIs
  <2> HIDE DEF a
  <2>3. \A i \in 1 .. Len(s) : a.cells[i] = s[i]
        BY <1>2, <2>0, <2>2
  <2>4. Vec(Sized(a, Len(s))) /\ Sized(a, Len(s)).cells = a.cells /\ Sized(a, Len(s)).size = Len(s)
        BY <1>2, <2>0, <2>2, <2>3, SizedIs
  <2>5. Elems(Sized(a, Len(s))) = s
        BY <2>3, <2>4, ElemsEqual
  <2>6. AssignCells(w, s) = Sized(a, Len(s))
        BY <1>2 DEF AssignCells, a, d
  <2>   QED
        BY <2>4, <2>5, <2>6
<1>   QED
      BY <1>1, <1>2

\* There is room for one more element after _vector_is_maxed, and a block is
\* only given up when it is full.
LEMMA GrownIs ==
    ASSUME NEW w, Vec(w)
    PROVE  /\ Vec(Grown(w))
           /\ Elems(Grown(w)) = Elems(w)
           /\ Grown(w).size = w.size
           /\ w.size < Capacity(Grown(w))
           /\ Grown(w) # w => w.size = Capacity(w)
<1>0. w.size \in Nat /\ Capacity(w) \in Nat /\ w.size <= Capacity(w)
      BY Counts
<1>1. CASE Capacity(w) = 0
  <2>1. PICK none \in Seq(Values) : Len(none) = 0
        BY EmptySeq
  <2>2. Elems(w) = none /\ none = <<>>
        BY <1>0, <1>1, <2>1, ElemsAre, EmptySeq
  <2>3. ASSUME NEW n \in Nat
        PROVE  /\ Vec(Block(none, n)) /\ Elems(Block(none, n)) = none
               /\ Capacity(Block(none, n)) = n
               /\ Block(none, n).size = 0
    <3>1. Len(none) <= n
          BY <2>1
    <3>2. /\ Vec(Block(none, n)) /\ Elems(Block(none, n)) = none
          /\ Capacity(Block(none, n)) = n
          /\ Block(none, n).size = Len(none)
          BY <3>1, BlockIs
    <3>   QED
          BY <2>1, <3>2
  <2>4. Grown(w) = Block(none, 2)
        BY <1>1, <2>2 DEF Grown
  <2>   QED
        BY <1>0, <1>1, <2>2, <2>3, <2>4
<1>2. CASE Capacity(w) # 0 /\ w.size + 1 > Capacity(w)
  <2>1. Elems(w) \in Seq(Values) /\ Len(Elems(w)) = w.size
        BY ElemsAre
  <2>2. Capacity(w) * 2 \in Nat /\ w.size < Capacity(w) * 2
        BY <1>0, <1>2
  <2>   QED
        BY <1>0, <1>2, <2>1, <2>2, BlockIs DEF Grown
<1>3. CASE Capacity(w) # 0 /\ ~(w.size + 1 > Capacity(w))
      BY <1>0, <1>3 DEF Grown
<1>   QED
      BY <1>1, <1>2, <1>3

LEMMA PushedIs ==
    ASSUME NEW w, Vec(w), NEW x \in Values
    PROVE  /\ Vec(Pushed(w, Grown(w), x))
           /\ Elems(Pushed(w, Grown(w), x)) = Append(Elems(w), x)
           /\ Pushed(w, Grown(w), x).size = w.size + 1
<1> DEFINE n == w.size
<1>1. PICK g : g = Grown(w)
      OBVIOUS
<1>2. /\ Vec(g) /\ g.size = n /\ n < Capacity(g) /\ n \in Nat
      /\ Elems(g) = Elems(w)
      BY <1>1, GrownIs, Counts
<1>3. /\ Shape(g) /\ Capacity(g) \in Nat
      /\ \A i \in 1 .. n : g.cells[i] \in Values
      BY <1>2, Counts
<1>4. <<x>> \in Seq(Cells) /\ Len(<<x>>) = 1 /\ <<x>>[1] = x
      BY DEF Cells
<1>5. PICK a : a = Write(g, n, <<x>>)
      OBVIOUS
<1> HIDE DEF n
<1>6. /\ Shape(a) /\ Capacity(a) = Capacity(g)
      /\ \A i \in 1 .. Capacity(g) :
            a.cells[i] = IF i - n \in 1 .. Len(<<x>>) THEN <<x>>[i - n] ELSE g.cells[i]
      BY <1>2, <1>3, <1>4, <1>5, WriteIs
<1>7. (\A i \in 1 .. n : a.cells[i] = g.cells[i]) /\ a.cells[n + 1] = x
  <2>1. ASSUME NEW i \in 1 .. n PROVE a.cells[i] = g.cells[i]
        BY <1>2, <1>3, <1>4, <1>6
  <2>2. n + 1 \in 1 .. Capacity(g) /\ (n + 1) - n = 1
        BY <1>2, <1>3
  <2>3. a.cells[n + 1] = <<x>>[1]
        BY <1>4, <1>6, <2>2
  <2>   QED
        BY <2>1, <2>3, <1>4
<1>8. /\ Vec(Sized(a, n + 1)) /\ Sized(a, n + 1).cells = a.cells
      /\ Sized(a, n + 1).size = n + 1
  <2>1. \A i \in 1 .. n + 1 : a.cells[i] \in Values
        BY <1>2, <1>3, <1>7
  <2>   QED
        BY <1>2, <1>3, <1>6, <2>1, SizedIs
<1>9. /\ Append(Elems(w), x) \in Seq(Values) /\ Len(Append(Elems(w), x)) = n + 1
      /\ \A i \in 1 .. n + 1 : Append(Elems(w), x)[i] = a.cells[i]
  <2>1. /\ Elems(g) \in Seq(Values) /\ Len(Elems(g)) = n
        /\ \A i \in 1 .. n : Elems(g)[i] = g.cells[i]
        BY <1>2, ElemsAre
  <2>   QED
        BY <1>2, <1>7, <2>1, AppendProperties
<1>10. Elems(Sized(a, n + 1)) = Append(Elems(w), x)
       BY <1>8, <1>9, ElemsEqual
<1>11. Pushed(w, Grown(w), x) = Sized(a, n + 1)
       BY <1>1, <1>5 DEF Pushed, n
<1>    QED
       BY <1>8, <1>10, <1>11 DEF n

\* pop_back destroys a cell behind the last element, and counts one down.
LEMMA PoppedIs ==
    ASSUME NEW w, Vec(w), w.size > 0
    PROVE  /\ Vec(Popped(w))
           /\ Elems(Popped(w)) = Front(Elems(w))
           /\ Popped(w).size = w.size - 1
<1>1. Shape(w) /\ w.size \in Nat /\ Capacity(w) \in Nat /\ w.size <= Capacity(w)
      BY Counts
<1>2. PICK n \in Nat : n = w.size - 1
      BY <1>1
<1>3. PICK d : d = Destroy(w, {w.size})
      OBVIOUS
<1>4. /\ Shape(d) /\ Capacity(d) = Capacity(w)
      /\ \A i \in 1 .. Capacity(w) :
            d.cells[i] = IF i - 1 \in {w.size} THEN NoObject ELSE w.cells[i]
      BY <1>1, <1>3, DestroyIs
<1>5. \A i \in 1 .. n : d.cells[i] = w.cells[i] /\ w.cells[i] \in Values
      BY <1>1, <1>2, <1>4, Counts
<1>6. /\ Vec(Sized(d, n)) /\ Sized(d, n).cells = d.cells
      /\ Sized(d, n).size = n
      BY <1>1, <1>2, <1>4, <1>5, SizedIs
<1>7. /\ Front(Elems(w)) \in Seq(Values) /\ Len(Front(Elems(w))) = n
      /\ \A i \in 1 .. n : Front(Elems(w))[i] = w.cells[i]
  <2>1. Len(Elems(w)) = w.size /\ \A i \in 1 .. n : Elems(w)[i] = w.cells[i]
        BY <1>1, <1>2, ElemsAre
  <2>2. \A i \in 1 .. n : Elems(w)[i] \in Values
        BY <1>5, <2>1
  <2>   QED
        BY <1>1, <1>2, <2>1, <2>2, SubSeqProperties DEF Front
<1>8. Elems(Sized(d, n)) = Front(Elems(w))
      BY <1>5, <1>6, <1>7, ElemsEqual
<1>   QED
      BY <1>2, <1>3, <1>6, <1>8 DEF Popped

\* clear() destroys every element, and none is left.
Cleared(w) == Sized(Destroy(w, 0 .. w.size - 1), 0)

LEMMA ClearedIs ==
    ASSUME NEW w, Vec(w)
    PROVE  Vec(Cleared(w)) /\ Elems(Cleared(w)) = <<>> /\ Cleared(w).size = 0
<1>1. PICK d : d = Destroy(w, 0 .. w.size - 1)
      OBVIOUS
<1>2. Shape(d) /\ Capacity(d) = Capacity(w) /\ Capacity(w) \in Nat
      BY <1>1, Counts, DestroyIs
<1>3. ASSUME NEW n \in Nat, n <= 0
      PROVE  Vec(Sized(d, n)) /\ Sized(d, n).size = n
      BY <1>2, <1>3, SizedIs
<1>4. PICK n \in Nat : n <= 0
      OBVIOUS
<1>5. Vec(Sized(d, n)) /\ Sized(d, n).size = n
      BY <1>3, <1>4
<1>6. n = 0
      BY <1>4
<1>7. Elems(Sized(d, n)) = <<>>
      BY <1>5, <1>6, ElemsAre, EmptySeq
<1>   QED
      BY <1>1, <1>5, <1>6, <1>7 DEF Cleared

\* The loop that shrinks destroys cells behind the elements that stay.
LEMMA PoppedByIs ==
    ASSUME NEW w, Vec(w), NEW n \in Nat, n <= w.size
    PROVE  /\ \A i \in PoppedBy(w, n) : i \in Int /\ n <= i /\ i <= w.size
           /\ PoppedBy(w, n) # {} => n < w.size
<1>1. PICK k : k = w.size - n + 1
      OBVIOUS
<1>2. k \in Nat \ {0} /\ w.size \in Nat
      BY <1>1, Counts
<1>3. k \div 2 \in Nat /\ k \div 2 < k /\ (k < 2 => k \div 2 = 0)
      BY <1>2
<1>4. PICK m : m = k \div 2
      OBVIOUS
<1>5. PoppedBy(w, n) = (w.size - m) + 1 .. w.size
      BY <1>1, <1>4 DEF PoppedBy
<1>6. m \in Nat /\ m < k /\ (k < 2 => m = 0)
      BY <1>3, <1>4
<1>7. n <= (w.size - m) + 1
      BY <1>1, <1>2, <1>6
<1>8. \A i \in PoppedBy(w, n) : i \in Int /\ n <= i /\ i <= w.size
      BY <1>2, <1>5, <1>6, <1>7
<1>9. ASSUME NEW i \in PoppedBy(w, n) PROVE n < w.size
      BY <1>1, <1>2, <1>5, <1>6
<1>   QED
      BY <1>8, <1>9

\* The elements resize(n, x) promises.
Stretched(e, n, x) == [i \in 1 .. n |-> IF i <= Len(e) THEN e[i] ELSE x]

LEMMA StretchedIs ==
    ASSUME NEW e \in Seq(Values), NEW n \in Nat, NEW x \in Values
    PROVE  /\ Stretched(e, n, x) \in Seq(Values)
           /\ Len(Stretched(e, n, x)) = n
           /\ \A i \in 1 .. n :
                Stretched(e, n, x)[i] = IF i <= Len(e) THEN e[i] ELSE x
<1>1. \A i \in 1 .. Len(e) : e[i] \in Values
      BY ElementOfSeq
<1>2. Len(e) \in Nat
      BY LenProperties
<1>3. Stretched(e, n, x) \in [1 .. n -> Values]
      BY <1>1, <1>2 DEF Stretched
<1>   QED
      BY <1>3, SeqOfFcn DEF Stretched

LEMMA ResizedIs ==
    ASSUME NEW w, Vec(w), NEW n \in Nat, NEW x \in Values
    PROVE  /\ Vec(Resized(w, n, x))
           /\ Elems(Resized(w, n, x)) = Stretched(Elems(w), n, x)
           /\ Resized(w, n, x).size = n
<1>0. /\ Shape(w) /\ w.size \in Nat /\ Capacity(w) \in Nat /\ w.size <= Capacity(w)
      /\ \A i \in 1 .. w.size : w.cells[i] \in Values
      BY Counts
<1>1. /\ Elems(w) \in Seq(Values) /\ Len(Elems(w)) = w.size
      /\ \A i \in 1 .. w.size : Elems(w)[i] = w.cells[i]
      BY ElemsAre
<1>2. PICK t \in Seq(Values) :
          /\ t = Stretched(Elems(w), n, x)
          /\ Len(t) = n
          /\ \A i \in 1 .. n : t[i] = IF i <= w.size THEN Elems(w)[i] ELSE x
      BY <1>1, StretchedIs
<1>3. CASE n > Capacity(w)
  <2>1. n - w.size \in Nat
        BY <1>0, <1>3
  <2>2. PICK c \in Seq(Values) :
            /\ c = Copies(n - w.size, x)
            /\ Len(c) = n - w.size
            /\ \A i \in 1 .. n - w.size : c[i] = x
        BY <2>1, CopiesAre
  <2>3. PICK j \in Seq(Values) :
            /\ j = Elems(w) \o c
            /\ Len(j) = n
            /\ \A i \in 1 .. n : j[i] = IF i <= w.size THEN Elems(w)[i] ELSE c[i - w.size]
    <3>1. Len(Elems(w)) + Len(c) = n
          BY <1>0, <1>1, <2>2
    <3>2. /\ Elems(w) \o c \in Seq(Values)
          /\ Len(Elems(w) \o c) = n
          /\ \A i \in 1 .. n :
                (Elems(w) \o c)[i] = IF i <= Len(Elems(w)) THEN Elems(w)[i]
                                                         ELSE c[i - Len(Elems(w))]
          BY <1>1, <3>1, ConcatProperties
    <3>   QED
          BY <1>1, <3>2
  <2>4. ASSUME NEW i \in 1 .. n PROVE j[i] = t[i]
    <3>1. CASE i <= w.size
          BY <1>2, <2>3, <3>1
    <3>2. CASE ~(i <= w.size)
      <4>1. i - w.size \in 1 .. n - w.size
            BY <1>0, <3>2
      <4>   QED
            BY <1>2, <2>2, <2>3, <3>2, <4>1
    <3>   QED
          BY <3>1, <3>2
  <2>5. j = t
        BY <1>2, <2>3, <2>4, SeqEqual
  <2>6. Resized(w, n, x) = Block(j, n)
        BY <1>3, <2>2, <2>3 DEF Resized
  <2>   QED
        BY <1>2, <2>3, <2>5, <2>6, BlockIs
<1>4. CASE ~(n > Capacity(w)) /\ n > w.size
  <2>1. n - w.size \in Nat
        BY <1>0, <1>4
  <2>2. PICK c \in Seq(Values) :
            /\ c = Copies(n - w.size, x)
            /\ Len(c) = n - w.size
            /\ \A i \in 1 .. n - w.size : c[i] = x
        BY <2>1, CopiesAre
  <2>3. c \in Seq(Cells)
        BY SeqMonotonic DEF Cells
  <2>4. PICK a : a = Write(w, w.size, c)
        OBVIOUS
  <2>5. /\ Shape(a) /\ Capacity(a) = Capacity(w)
        /\ \A i \in 1 .. Capacity(w) :
             a.cells[i] = IF i - w.size \in 1 .. Len(c) THEN c[i - w.size] ELSE w.cells[i]
        BY <1>0, <2>3, <2>4, WriteIs
  <2>6. ASSUME NEW i \in 1 .. n PROVE a.cells[i] = t[i] /\ a.cells[i] \in Values
    <3>1. i \in 1 .. Capacity(w) /\ t[i] \in Values
          BY <1>0, <1>2, <1>4, ElementOfSeq
    <3>2. CASE i <= w.size
      <4>1. i - w.size \notin 1 .. Len(c) /\ i \in 1 .. w.size
            BY <1>0, <3>2
      <4>   QED
            BY <1>1, <1>2, <2>5, <3>1, <3>2, <4>1
    <3>3. CASE ~(i <= w.size)
      <4>1. i - w.size \in 1 .. Len(c)
            BY <1>0, <2>2, <3>3
      <4>   QED
            BY <1>2, <2>2, <2>5, <3>1, <3>3, <4>1
    <3>   QED
          BY <3>2, <3>3
  <2>7. Vec(Sized(a, n)) /\ Sized(a, n).cells = a.cells /\ Sized(a, n).size = n
    <3>1. n <= Capacity(a)
          BY <1>0, <1>4, <2>5
    <3>   QED
          BY <2>5, <2>6, <3>1, SizedIs
  <2>8. Elems(Sized(a, n)) = t
        BY <1>2, <2>6, <2>7, ElemsEqual
  <2>9. Resized(w, n, x) = Sized(a, n)
        BY <1>4, <2>2, <2>4 DEF Resized
  <2>   QED
        BY <1>2, <2>7, <2>8, <2>9
<1>5. CASE ~(n > Capacity(w)) /\ ~(n > w.size)
  <2>1. PICK d : d = Destroy(w, PoppedBy(w, n))
        OBVIOUS
  <2>2. /\ Shape(d) /\ Capacity(d) = Capacity(w)
        /\ \A i \in 1 .. Capacity(w) :
             d.cells[i] = IF i - 1 \in PoppedBy(w, n) THEN NoObject ELSE w.cells[i]
        BY <1>0, <2>1, DestroyIs
  <2>3. \A i \in 1 .. n : i - 1 \notin PoppedBy(w, n)
        BY <1>0, <1>5, PoppedByIs
  <2>4. \A i \in 1 .. n : d.cells[i] = t[i] /\ t[i] \in Values
        BY <1>0, <1>1, <1>2, <1>5, <2>2, <2>3
  <2>5. Vec(Sized(d, n)) /\ Sized(d, n).cells = d.cells /\ Sized(d, n).size = n
        BY <1>0, <1>5, <2>2, <2>4, SizedIs
  <2>6. Elems(Sized(d, n)) = t
        BY <1>2, <2>4, <2>5, ElemsEqual
  <2>7. Resized(w, n, x) = Sized(d, n)
        BY <1>5, <2>1 DEF Resized
  <2>   QED
        BY <1>2, <2>5, <2>6, <2>7
<1>   QED
      BY <1>3, <1>4, <1>5

-----------------------------------------------------------------------------
(***************************************************************************)
(* Inserting and erasing: the elements in front of the position, those     *)
(* that go in, and those behind the ones that go out.                      *)
(***************************************************************************)
WithIn(e, i, s) == SubSeq(e, 1, i) \o s \o SubSeq(e, i + 1, Len(e))

LEMMA WithInIs ==
    ASSUME NEW e \in Seq(Values), NEW s \in Seq(Values), NEW i \in Nat, i <= Len(e)
    PROVE  /\ WithIn(e, i, s) \in Seq(Values)
           /\ Len(WithIn(e, i, s)) = Len(e) + Len(s)
           /\ \A j \in 1 .. Len(e) + Len(s) :
                WithIn(e, i, s)[j] =
                    IF j <= i THEN e[j]
                    ELSE IF j <= i + Len(s) THEN s[j - i]
                    ELSE e[j - Len(s)]
<1>0. /\ Len(e) \in Nat /\ Len(s) \in Nat
      /\ \A j \in 1 .. Len(e) : e[j] \in Values
      BY LenProperties, ElementOfSeq
<1>1. PICK f \in Seq(Values) : f = SubSeq(e, 1, i) /\ Len(f) = i /\ \A j \in 1 .. i : f[j] = e[j]
  <2>1. \A j \in 1 .. i : e[j] \in Values
        BY <1>0
  <2>2. /\ SubSeq(e, 1, i) \in Seq(Values) /\ Len(SubSeq(e, 1, i)) = i
        /\ \A j \in 1 .. i : SubSeq(e, 1, i)[j] = e[j]
        BY <1>0, <2>1, SubSeqProperties
  <2>   QED
        BY <2>2
<1>2. PICK b \in Seq(Values) :
          /\ b = SubSeq(e, i + 1, Len(e))
          /\ Len(b) = Len(e) - i
          /\ \A j \in 1 .. Len(e) - i : b[j] = e[j + i]
  <2>1. \A j \in i + 1 .. Len(e) : e[j] \in Values
        BY <1>0
  <2>2. /\ SubSeq(e, i + 1, Len(e)) \in Seq(Values)
        /\ Len(SubSeq(e, i + 1, Len(e))) = Len(e) - i
        /\ \A j \in 1 .. Len(e) - i : SubSeq(e, i + 1, Len(e))[j] = e[j + i]
        BY <1>0, <2>1, SubSeqProperties
  <2>   QED
        BY <2>2
<1>3. PICK a \in Seq(Values) :
          /\ a = f \o s
          /\ Len(a) = i + Len(s)
          /\ \A j \in 1 .. i + Len(s) : a[j] = IF j <= i THEN f[j] ELSE s[j - i]
  <2>1. /\ f \o s \in Seq(Values)
        /\ Len(f \o s) = Len(f) + Len(s)
        /\ \A j \in 1 .. Len(f) + Len(s) :
              (f \o s)[j] = IF j <= Len(f) THEN f[j] ELSE s[j - Len(f)]
        BY ConcatProperties
  <2>   QED
        BY <1>1, <2>1
<1>4. PICK n \in Nat : n = Len(e) + Len(s)
      BY <1>0
<1>5. /\ a \o b \in Seq(Values)
      /\ Len(a \o b) = n
      /\ \A j \in 1 .. n : (a \o b)[j] = IF j <= i + Len(s) THEN a[j] ELSE b[j - (i + Len(s))]
  <2>1. Len(a) + Len(b) = n
    <3>1. Len(a) = i + Len(s) /\ Len(b) = Len(e) - i
          BY <1>2, <1>3
    <3>   QED
          BY <1>0, <1>4, <3>1
  <2>2. /\ a \o b \in Seq(Values)
        /\ Len(a \o b) = n
        /\ \A j \in 1 .. n : (a \o b)[j] = IF j <= Len(a) THEN a[j] ELSE b[j - Len(a)]
        BY <2>1, ConcatProperties
  <2>   QED
        BY <1>3, <2>2
<1>6. a \o b = WithIn(e, i, s)
      BY <1>1, <1>2, <1>3 DEF WithIn
<1>7. ASSUME NEW j \in 1 .. n
      PROVE  (a \o b)[j] = IF j <= i THEN e[j]
                           ELSE IF j <= i + Len(s) THEN s[j - i]
                           ELSE e[j - Len(s)]
  <2>1. CASE j <= i
        BY <1>0, <1>1, <1>3, <1>5, <2>1
  <2>2. CASE ~(j <= i) /\ j <= i + Len(s)
        BY <1>0, <1>3, <1>5, <2>2
  <2>3. CASE ~(j <= i + Len(s))
    <3>1. j - (i + Len(s)) \in 1 .. Len(e) - i
          BY <1>0, <1>4, <2>3
    <3>2. b[j - (i + Len(s))] = e[j - (i + Len(s)) + i]
          BY <1>2, <3>1
    <3>3. j - (i + Len(s)) + i = j - Len(s)
          BY <1>0
    <3>4. ~(j <= i)
          BY <1>0, <2>3
    <3>   QED
          BY <1>5, <2>3, <3>2, <3>3, <3>4
  <2>   QED
        BY <2>1, <2>2, <2>3
<1>   QED
      BY <1>4, <1>5, <1>6, <1>7

\* The elements behind index i, copied before the block is touched.
LEMMA Tail1Is ==
    ASSUME NEW w, Vec(w), NEW i \in Nat, i <= w.size
    PROVE  /\ Tail1(w, i) \in Seq(Values)
           /\ Len(Tail1(w, i)) = w.size - i
           /\ \A j \in 1 .. w.size - i : Tail1(w, i)[j] = w.cells[j + i]
           /\ Tail1(w, i) = SubSeq(Elems(w), i + 1, Len(Elems(w)))
           /\ SubSeq(w.cells, 1, i) = SubSeq(Elems(w), 1, i)
<1>0. w.size \in Nat /\ \A j \in 1 .. w.size : w.cells[j] \in Values
      BY Counts
<1>1. /\ Elems(w) \in Seq(Values) /\ Len(Elems(w)) = w.size
      /\ \A j \in 1 .. w.size : Elems(w)[j] = w.cells[j] /\ Elems(w)[j] \in Values
      BY <1>0, ElemsAre
<1>2. /\ Tail1(w, i) \in Seq(Values)
      /\ Len(Tail1(w, i)) = w.size - i
      /\ \A j \in 1 .. w.size - i : Tail1(w, i)[j] = w.cells[j + i]
  <2>1. \A j \in i + 1 .. w.size : w.cells[j] \in Values
        BY <1>0
  <2>   QED
        BY <1>0, <2>1, SubSeqProperties DEF Tail1
<1>3. /\ SubSeq(Elems(w), i + 1, w.size) \in Seq(Values)
      /\ Len(SubSeq(Elems(w), i + 1, w.size)) = w.size - i
      /\ \A j \in 1 .. w.size - i : SubSeq(Elems(w), i + 1, w.size)[j] = w.cells[j + i]
  <2>1. \A j \in i + 1 .. w.size : Elems(w)[j] \in Values /\ Elems(w)[j] = w.cells[j]
        BY <1>0, <1>1
  <2>   QED
        BY <1>0, <2>1, SubSeqProperties
<1>4. Tail1(w, i) = SubSeq(Elems(w), i + 1, w.size)
      BY <1>2, <1>3, SeqEqual
<1>5. SubSeq(w.cells, 1, i) = SubSeq(Elems(w), 1, i)
  <2>1. \A j \in 1 .. i : w.cells[j] \in Values /\ Elems(w)[j] \in Values /\ Elems(w)[j] = w.cells[j]
        BY <1>0, <1>1
  <2>2. /\ SubSeq(w.cells, 1, i) \in Seq(Values) /\ Len(SubSeq(w.cells, 1, i)) = i
        /\ \A j \in 1 .. i : SubSeq(w.cells, 1, i)[j] = w.cells[j]
        BY <2>1, SubSeqProperties
  <2>3. /\ SubSeq(Elems(w), 1, i) \in Seq(Values) /\ Len(SubSeq(Elems(w), 1, i)) = i
        /\ \A j \in 1 .. i : SubSeq(Elems(w), 1, i)[j] = Elems(w)[j]
        BY <2>1, SubSeqProperties
  <2>   QED
        BY <2>1, <2>2, <2>3, SeqEqual
<1>   QED
      BY <1>1, <1>2, <1>4, <1>5

\* Every form of insert puts s in front of the element at index i.
LEMMA SplicedIs ==
    ASSUME NEW w, Vec(w), NEW i \in Nat, i <= w.size, NEW s \in Seq(Values)
    PROVE  /\ Vec(Spliced(w, i, s))
           /\ Elems(Spliced(w, i, s)) = WithIn(Elems(w), i, s)
           /\ Spliced(w, i, s).size = w.size + Len(s)
<1>0. /\ Shape(w) /\ w.size \in Nat /\ Capacity(w) \in Nat /\ w.size <= Capacity(w)
      /\ \A j \in 1 .. w.size : w.cells[j] \in Values
      /\ Len(s) \in Nat
      BY Counts, LenProperties
<1>1. /\ Elems(w) \in Seq(Values) /\ Len(Elems(w)) = w.size
      /\ \A j \in 1 .. w.size : Elems(w)[j] = w.cells[j]
      BY ElemsAre
<1>2. PICK n \in Nat : n = w.size + Len(s)
      BY <1>0
<1>3. PICK t \in Seq(Values) :
          /\ t = WithIn(Elems(w), i, s)
          /\ Len(t) = n
          /\ \A j \in 1 .. n : t[j] = IF j <= i THEN Elems(w)[j]
                                      ELSE IF j <= i + Len(s) THEN s[j - i]
                                      ELSE Elems(w)[j - Len(s)]
  <2>1. /\ WithIn(Elems(w), i, s) \in Seq(Values)
        /\ Len(WithIn(Elems(w), i, s)) = Len(Elems(w)) + Len(s)
        /\ \A j \in 1 .. Len(Elems(w)) + Len(s) :
             WithIn(Elems(w), i, s)[j] = IF j <= i THEN Elems(w)[j]
                                         ELSE IF j <= i + Len(s) THEN s[j - i]
                                         ELSE Elems(w)[j - Len(s)]
    <3>1. i <= Len(Elems(w))
          BY <1>1
    <3>   QED
          BY <1>1, <3>1, WithInIs
  <2>   QED
        BY <1>1, <1>2, <2>1
<1>4. /\ Tail1(w, i) \in Seq(Values)
      /\ Len(Tail1(w, i)) = w.size - i
      /\ \A j \in 1 .. w.size - i : Tail1(w, i)[j] = w.cells[j + i]
      /\ Tail1(w, i) = SubSeq(Elems(w), i + 1, Len(Elems(w)))
      /\ SubSeq(w.cells, 1, i) = SubSeq(Elems(w), 1, i)
      BY Tail1Is
<1>5. CASE w.size + Len(s) > Capacity(w)
  <2>1. Spliced(w, i, s) = Block(t, n)
        BY <1>2, <1>3, <1>4, <1>5 DEF Spliced, WithIn
  <2>   QED
        BY <1>2, <1>3, <2>1, BlockIs
<1>6. CASE ~(w.size + Len(s) > Capacity(w))
  <2>1. PICK m \in Seq(Values) :
            /\ m = s \o Tail1(w, i)
            /\ Len(m) = Len(s) + (w.size - i)
            /\ \A j \in 1 .. Len(s) + (w.size - i) :
                 m[j] = IF j <= Len(s) THEN s[j] ELSE Tail1(w, i)[j - Len(s)]
    <3>1. /\ s \o Tail1(w, i) \in Seq(Values)
          /\ Len(s \o Tail1(w, i)) = Len(s) + Len(Tail1(w, i))
          /\ \A j \in 1 .. Len(s) + Len(Tail1(w, i)) :
                 (s \o Tail1(w, i))[j] = IF j <= Len(s) THEN s[j] ELSE Tail1(w, i)[j - Len(s)]
          BY <1>4, ConcatProperties
    <3>   QED
          BY <1>4, <3>1
  <2>2. m \in Seq(Cells)
        BY SeqMonotonic DEF Cells
  <2>3. PICK a : a = Write(w, i, m)
        OBVIOUS
  <2>4. /\ Shape(a) /\ Capacity(a) = Capacity(w)
        /\ \A j \in 1 .. Capacity(w) :
             a.cells[j] = IF j - i \in 1 .. Len(m) THEN m[j - i] ELSE w.cells[j]
        BY <1>0, <2>2, <2>3, WriteIs
  <2>5. ASSUME NEW j \in 1 .. n PROVE a.cells[j] = t[j] /\ a.cells[j] \in Values
    <3>1. j \in 1 .. Capacity(w) /\ t[j] \in Values
          BY <1>0, <1>2, <1>3, <1>6, ElementOfSeq
    <3>2. CASE j <= i
      <4>1. j - i \notin 1 .. Len(m) /\ j \in 1 .. w.size
            BY <1>0, <3>2
      <4>   QED
            BY <1>1, <1>3, <2>4, <3>1, <3>2, <4>1
    <3>3. CASE ~(j <= i) /\ j <= i + Len(s)
      <4>1. /\ j - i \in 1 .. Len(m) /\ j - i <= Len(s)
            /\ j - i \in 1 .. Len(s) + (w.size - i)
            BY <1>0, <2>1, <3>3
      <4>2. m[j - i] = s[j - i]
            BY <2>1, <4>1
      <4>   QED
            BY <1>3, <2>4, <3>1, <3>3, <4>1, <4>2
    <3>4. CASE ~(j <= i + Len(s))
      <4>0. PICK l \in Nat : l = Len(s)
            BY <1>0
      <4>1. /\ j - i \in 1 .. Len(m) /\ ~(j - i <= Len(s)) /\ ~(j <= i)
            /\ j - i \in 1 .. Len(s) + (w.size - i)
            /\ j - i - Len(s) \in 1 .. w.size - i
            /\ j - Len(s) \in 1 .. w.size
            /\ j - i - Len(s) + i = j - Len(s)
        <5>1. j \in Nat /\ j <= w.size + l /\ ~(j <= i + l) /\ Len(m) = l + (w.size - i)
              BY <1>2, <2>1, <3>4, <4>0
        <5>2. PICK z \in Nat : z = w.size
              BY <1>0
        <5>3. i <= z /\ j <= z + l /\ j > i + l
              BY <1>0, <5>1, <5>2
        <5>4. j - i \in 1 .. l + (z - i) /\ ~(j - i <= l) /\ ~(j <= i)
              BY <5>1, <5>3
        <5>5. j - i - l \in 1 .. z - i /\ j - l \in 1 .. z /\ j - i - l + i = j - l
              BY <5>1, <5>3
        <5>   QED
              BY <4>0, <5>1, <5>2, <5>4, <5>5
      <4>2. m[j - i] = Tail1(w, i)[j - i - Len(s)]
            BY <2>1, <4>1
      <4>3. Tail1(w, i)[j - i - Len(s)] = w.cells[j - Len(s)]
            BY <1>4, <4>1
      <4>4. t[j] = Elems(w)[j - Len(s)]
            BY <1>3, <3>4, <4>1
      <4>5. Elems(w)[j - Len(s)] = w.cells[j - Len(s)]
            BY <1>1, <4>1
      <4>   QED
            BY <2>4, <3>1, <4>1, <4>2, <4>3, <4>4, <4>5
    <3>   QED
          BY <3>2, <3>3, <3>4
  <2>6. Vec(Sized(a, n)) /\ Sized(a, n).cells = a.cells /\ Sized(a, n).size = n
    <3>1. n <= Capacity(a)
          BY <1>0, <1>2, <1>6, <2>4
    <3>   QED
          BY <2>4, <2>5, <3>1, SizedIs
  <2>7. Elems(Sized(a, n)) = t
        BY <1>3, <2>5, <2>6, ElemsEqual
  <2>8. Spliced(w, i, s) = Sized(a, n)
        BY <1>2, <1>6, <2>1, <2>3 DEF Spliced
  <2>   QED
        BY <1>2, <1>3, <2>6, <2>7, <2>8
<1>   QED
      BY <1>5, <1>6

\* The elements without the k - i behind the first i.
Without(e, i, k) == SubSeq(e, 1, i) \o SubSeq(e, k + 1, Len(e))

LEMMA WithoutIs ==
    ASSUME NEW e \in Seq(Values), NEW i \in Nat, NEW d \in Nat, i + d <= Len(e)
    PROVE  /\ Without(e, i, i + d) \in Seq(Values)
           /\ Len(Without(e, i, i + d)) = Len(e) - d
           /\ \A j \in 1 .. Len(e) - d :
                Without(e, i, i + d)[j] = IF j <= i THEN e[j] ELSE e[j + d]
<1>0. /\ Len(e) \in Nat
      /\ \A j \in 1 .. Len(e) : e[j] \in Values
      BY LenProperties, ElementOfSeq
<1>1. PICK f \in Seq(Values) : f = SubSeq(e, 1, i) /\ Len(f) = i /\ \A j \in 1 .. i : f[j] = e[j]
  <2>1. \A j \in 1 .. i : e[j] \in Values
        BY <1>0
  <2>2. /\ SubSeq(e, 1, i) \in Seq(Values) /\ Len(SubSeq(e, 1, i)) = i
        /\ \A j \in 1 .. i : SubSeq(e, 1, i)[j] = e[j]
        BY <1>0, <2>1, SubSeqProperties
  <2>   QED
        BY <2>2
<1>2. PICK b \in Seq(Values) :
          /\ b = SubSeq(e, (i + d) + 1, Len(e))
          /\ Len(b) = Len(e) - (i + d)
          /\ \A j \in 1 .. Len(e) - (i + d) : b[j] = e[j + (i + d)]
  <2>1. \A j \in (i + d) + 1 .. Len(e) : e[j] \in Values
        BY <1>0
  <2>2. /\ SubSeq(e, (i + d) + 1, Len(e)) \in Seq(Values)
        /\ Len(SubSeq(e, (i + d) + 1, Len(e))) = Len(e) - (i + d)
        /\ \A j \in 1 .. Len(e) - (i + d) : SubSeq(e, (i + d) + 1, Len(e))[j] = e[j + (i + d)]
        BY <1>0, <2>1, SubSeqProperties
  <2>   QED
        BY <2>2
<1>3. /\ f \o b \in Seq(Values)
      /\ Len(f \o b) = Len(f) + Len(b)
      /\ \A j \in 1 .. Len(f) + Len(b) : (f \o b)[j] = IF j <= Len(f) THEN f[j] ELSE b[j - Len(f)]
      BY ConcatProperties
<1>4. Len(f) + Len(b) = Len(e) - d
  <2>1. Len(f) = i /\ Len(b) = Len(e) - (i + d)
        BY <1>1, <1>2
  <2>   QED
        BY <1>0, <2>1
<1>5. f \o b = Without(e, i, i + d)
      BY <1>1, <1>2 DEF Without
<1>6. ASSUME NEW j \in 1 .. Len(e) - d
      PROVE  (f \o b)[j] = IF j <= i THEN e[j] ELSE e[j + d]
  <2>1. CASE j <= i
        BY <1>1, <1>3, <1>4, <2>1
  <2>2. CASE ~(j <= i)
    <3>1. j - i \in 1 .. Len(e) - (i + d) /\ (j - i) + (i + d) = j + d
          BY <1>0, <2>2
    <3>2. b[j - i] = e[j + d]
          BY <1>2, <3>1
    <3>   QED
          BY <1>1, <1>3, <1>4, <2>2, <3>2
  <2>   QED
        BY <2>1, <2>2
<1>   QED
      BY <1>3, <1>4, <1>5, <1>6

\* Both forms of erase: the cells of a from index i on hold what stood d
\* further on, up to the new end, and some cells behind it are destroyed.
MovesDown(w, a, i, d) ==
    \A j \in 1 .. w.size - d : a.cells[j] = IF j <= i THEN w.cells[j]
                                                     ELSE w.cells[j + d]

Behind(gone, n) == \A j \in gone : j \in Int /\ j >= n

LEMMA MovedDown ==
    ASSUME NEW w, Vec(w), NEW i \in Nat, NEW d \in Nat,
           NEW n \in Nat, n = w.size - d, i <= n,
           NEW a, Shape(a), Capacity(a) = Capacity(w), MovesDown(w, a, i, d),
           NEW gone, Behind(gone, n)
    PROVE  /\ Vec(Sized(Destroy(a, gone), n))
           /\ Elems(Sized(Destroy(a, gone), n)) = Without(Elems(w), i, i + d)
           /\ Sized(Destroy(a, gone), n).size = n
<1>0. /\ Shape(w) /\ w.size \in Nat /\ Capacity(w) \in Nat /\ w.size <= Capacity(w)
      /\ \A j \in 1 .. w.size : w.cells[j] \in Values
      BY Counts
<1>1. /\ Elems(w) \in Seq(Values) /\ Len(Elems(w)) = w.size
      /\ \A j \in 1 .. w.size : Elems(w)[j] = w.cells[j]
      BY ElemsAre
<1>2. PICK t \in Seq(Values) :
          /\ t = Without(Elems(w), i, i + d)
          /\ Len(t) = n
          /\ \A j \in 1 .. n : t[j] = IF j <= i THEN Elems(w)[j] ELSE Elems(w)[j + d]
  <2>1. i + d <= Len(Elems(w))
        BY <1>1
  <2>2. /\ Without(Elems(w), i, i + d) \in Seq(Values)
        /\ Len(Without(Elems(w), i, i + d)) = Len(Elems(w)) - d
        /\ \A j \in 1 .. Len(Elems(w)) - d :
             Without(Elems(w), i, i + d)[j] = IF j <= i THEN Elems(w)[j] ELSE Elems(w)[j + d]
        BY <1>1, <2>1, WithoutIs
  <2>   QED
        BY <1>1, <2>2
<1>3. PICK c : c = Destroy(a, gone)
      OBVIOUS
<1>4. /\ Shape(c) /\ Capacity(c) = Capacity(w)
      /\ \A j \in 1 .. Capacity(w) : c.cells[j] = IF j - 1 \in gone THEN NoObject ELSE a.cells[j]
      BY <1>3, DestroyIs
<1>5. ASSUME NEW j \in 1 .. n
      PROVE  c.cells[j] = t[j] /\ c.cells[j] \in Values
  <2>1. j \in 1 .. Capacity(w) /\ j - 1 \notin gone
        BY <1>0 DEF Behind
  <2>2. c.cells[j] = a.cells[j]
        BY <1>4, <2>1
  <2>3. CASE j <= i
    <3>1. j \in 1 .. w.size
          BY <1>0
    <3>   QED
          BY <1>0, <1>1, <1>2, <2>2, <2>3, <3>1 DEF MovesDown
  <2>4. CASE ~(j <= i)
    <3>1. j + d \in 1 .. w.size
          BY <1>0
    <3>   QED
          BY <1>0, <1>1, <1>2, <2>2, <2>4, <3>1 DEF MovesDown
  <2>   QED
        BY <2>3, <2>4
<1>6. n <= Capacity(c)
      BY <1>0, <1>4
<1>7. Vec(Sized(c, n)) /\ Sized(c, n).cells = c.cells /\ Sized(c, n).size = n
      BY <1>4, <1>5, <1>6, SizedIs
<1>8. Elems(Sized(c, n)) = t
      BY <1>2, <1>5, <1>7, ElemsEqual
<1>   QED
      BY <1>2, <1>3, <1>7, <1>8

\* erase(position)
ErasedOne(w, i) ==
    Sized(Destroy(Write(w, i, Tail1(w, i + 1)), {w.size - 1}), w.size - 1)

LEMMA ErasedOneIs ==
    ASSUME NEW w, Vec(w), NEW i \in Nat, i < w.size
    PROVE  /\ Vec(ErasedOne(w, i))
           /\ Elems(ErasedOne(w, i)) = Without(Elems(w), i, i + 1)
           /\ ErasedOne(w, i).size = w.size - 1
<1>0. Shape(w) /\ w.size \in Nat /\ Capacity(w) \in Nat /\ w.size <= Capacity(w)
      BY Counts
<1>1. PICK k \in Nat : k = i + 1
      OBVIOUS
<1>2. PICK s : s = Tail1(w, k)
      OBVIOUS
<1>3. /\ s \in Seq(Values) /\ Len(s) = w.size - k
      /\ \A j \in 1 .. w.size - k : s[j] = w.cells[j + k]
      BY <1>0, <1>1, <1>2, Tail1Is
<1>4. s \in Seq(Cells)
      BY <1>3, SeqMonotonic DEF Cells
<1>5. PICK a : a = Write(w, i, s)
      OBVIOUS
<1>6. /\ Shape(a) /\ Capacity(a) = Capacity(w)
      /\ \A j \in 1 .. Capacity(w) :
           a.cells[j] = IF j - i \in 1 .. Len(s) THEN s[j - i] ELSE w.cells[j]
      BY <1>0, <1>4, <1>5, WriteIs
<1>7. PICK d \in Nat : d = 1
      OBVIOUS
<1>8. PICK n \in Nat : n = w.size - d
      BY <1>0, <1>7
<1>9. ASSUME NEW j \in 1 .. w.size - d
      PROVE  a.cells[j] = IF j <= i THEN w.cells[j] ELSE w.cells[j + d]
  <2>1. j \in 1 .. Capacity(w)
        BY <1>0, <1>7
  <2>2. CASE j <= i
    <3>1. j - i \notin 1 .. Len(s)
          BY <1>0, <1>3, <2>2
    <3>   QED
          BY <1>6, <2>1, <2>2, <3>1
  <2>3. CASE ~(j <= i)
    <3>1. j - i \in 1 .. w.size - k /\ (j - i) + k = j + d
          BY <1>0, <1>1, <1>7, <2>3
    <3>   QED
          BY <1>3, <1>6, <2>1, <2>3, <3>1
  <2>   QED
        BY <2>2, <2>3
<1>10. PICK gone : gone = {w.size - d}
       OBVIOUS
<1>11. Behind(gone, n) /\ i <= n /\ MovesDown(w, a, i, d)
       BY <1>0, <1>7, <1>8, <1>9, <1>10 DEF Behind, MovesDown
<1>12. /\ Vec(Sized(Destroy(a, gone), n))
       /\ Elems(Sized(Destroy(a, gone), n)) = Without(Elems(w), i, i + d)
       /\ Sized(Destroy(a, gone), n).size = n
       BY <1>6, <1>8, <1>11, MovedDown
<1>13. ErasedOne(w, i) = Sized(Destroy(a, gone), n)
       BY <1>1, <1>2, <1>5, <1>7, <1>8, <1>10 DEF ErasedOne
<1>    QED
       BY <1>7, <1>8, <1>12, <1>13

\* erase(first, last), for the d elements from index i on.
ErasedRange(w, i, d) ==
    Sized(Destroy(Shifted(w, i, d), w.size - d .. w.size - 1), w.size - d)

LEMMA ErasedRangeIs ==
    ASSUME NEW w, Vec(w), NEW i \in Nat, i < w.size, NEW d \in Nat, i + d <= w.size
    PROVE  /\ Vec(ErasedRange(w, i, d))
           /\ Elems(ErasedRange(w, i, d)) = Without(Elems(w), i, i + d)
           /\ ErasedRange(w, i, d).size = w.size - d
<1>0. Shape(w) /\ w.size \in Nat /\ Capacity(w) \in Nat /\ w.size <= Capacity(w)
      BY Counts
<1>1. PICK k \in Nat : k = w.size - 1 - i
      BY <1>0
<1>2. PICK s : s = [j \in 1 .. k |-> IF i + d + j <= Capacity(w) THEN w.cells[i + d + j]
                                                                ELSE NoObject]
      OBVIOUS
<1>3. \A j \in 1 .. Capacity(w) : w.cells[j] \in Cells
      BY <1>0, ElementOfSeq DEF Shape, Capacity
<1>4. s \in [1 .. k -> Cells]
  <2>1. ASSUME NEW j \in 1 .. k
        PROVE  (IF i + d + j <= Capacity(w) THEN w.cells[i + d + j] ELSE NoObject) \in Cells
        BY <1>0, <1>3 DEF Cells
  <2>   QED
        BY <1>2, <2>1
<1>5. s \in Seq(Cells) /\ Len(s) = k
      BY <1>4, SeqOfFcn
<1>6. PICK a : a = Write(w, i, s)
      OBVIOUS
<1>7. /\ Shape(a) /\ Capacity(a) = Capacity(w)
      /\ \A j \in 1 .. Capacity(w) :
           a.cells[j] = IF j - i \in 1 .. Len(s) THEN s[j - i] ELSE w.cells[j]
      BY <1>0, <1>5, <1>6, WriteIs
<1>8. PICK n \in Nat : n = w.size - d
      BY <1>0
<1>9. ASSUME NEW j \in 1 .. w.size - d
      PROVE  a.cells[j] = IF j <= i THEN w.cells[j] ELSE w.cells[j + d]
  <2>1. j \in 1 .. Capacity(w)
        BY <1>0
  <2>2. CASE j <= i
    <3>1. j - i \notin 1 .. Len(s)
          BY <1>0, <1>5, <2>2
    <3>   QED
          BY <1>7, <2>1, <2>2, <3>1
  <2>3. CASE ~(j <= i) /\ j - i <= k
    <3>1. j - i \in 1 .. k /\ i + d + (j - i) = j + d /\ j + d <= Capacity(w)
          BY <1>0, <2>3
    <3>2. s[j - i] = w.cells[j + d]
          BY <1>2, <3>1
    <3>   QED
          BY <1>5, <1>7, <2>1, <2>3, <3>1, <3>2
  <2>4. CASE ~(j <= i) /\ ~(j - i <= k)
    <3>1. d = 0 /\ j - i \notin 1 .. Len(s)
          BY <1>0, <1>1, <1>5, <2>4
    <3>   QED
          BY <1>0, <1>7, <2>1, <2>4, <3>1
  <2>   QED
        BY <2>2, <2>3, <2>4
<1>10. PICK gone : gone = w.size - d .. w.size - 1
       OBVIOUS
<1>11. Behind(gone, n) /\ i <= n /\ MovesDown(w, a, i, d)
       BY <1>0, <1>8, <1>9, <1>10 DEF Behind, MovesDown
<1>12. /\ Vec(Sized(Destroy(a, gone), n))
       /\ Elems(Sized(Destroy(a, gone), n)) = Without(Elems(w), i, i + d)
       /\ Sized(Destroy(a, gone), n).size = n
       BY <1>7, <1>8, <1>11, MovedDown
<1>13. ErasedRange(w, i, d) = Sized(Destroy(a, gone), n)
       BY <1>1, <1>2, <1>6, <1>8, <1>10 DEF ErasedRange, Shifted
<1>    QED
       BY <1>8, <1>12, <1>13

-----------------------------------------------------------------------------
(***************************************************************************)
(* What a call does to the storage.                                        *)
(***************************************************************************)
LEMMA UseIs ==
    ASSUME NEW w, NEW at
    PROVE  /\ Use(w, at) \subseteq {"outside"}
           /\ "outside" \in Use(w, at) => \E i \in at : i >= Capacity(w)
BY DEF Use

(***************************************************************************)
(* The invariant: every vector is one, whatever calls came before.         *)
(***************************************************************************)
IInv ==
    /\ DOMAIN vec = Vectors /\ vec = [v \in Vectors |-> vec[v]]
    /\ \A v \in Vectors : Vec(vec[v])
    /\ returned \in Nat \cup {NoPosition}
    /\ did \subseteq {"outside", "moved"}
    /\ lost \in BOOLEAN

\* What is to be shown of a call that makes w of v, and leaves these effects.
Kept(c, v, w, effects) ==
    /\ c[2] = v
    /\ Vec(w)
    /\ effects \subseteq {"outside", "moved"}
    /\ "outside" \in effects => 2 * vec[v].size - w.size > Capacity(vec[v])
    /\ "moved" \in effects => \/ w.size > Capacity(vec[v])
                              \/ c[1] \in {"reserve", "construct", "operator="}

Keeps(v) ==
    /\ \E c, w, effects : Becomes(c, v, w, effects) /\ Kept(c, v, w, effects)
    /\ returned' \in Nat \cup {NoPosition}

\* The contents after a call are those before with one vector's replaced.
LEMMA Replaced ==
    ASSUME IInv, NEW c, NEW v \in Vectors, NEW w, NEW effects,
           Becomes(c, v, w, effects)
    PROVE  /\ [u \in Vectors |-> Elems(vec[u])]'
                = [[u \in Vectors |-> Elems(vec[u])] EXCEPT ![v] = Elems(w)]
           /\ call' = c /\ ~lost /\ lost' = FALSE
<1>1. vec' = [vec EXCEPT ![v] = w] /\ call' = c /\ ~lost /\ lost' = FALSE
      BY DEF Becomes
<1>2. \A u \in Vectors : vec'[u] = IF u = v THEN w ELSE vec[u]
      BY <1>1 DEF IInv
<1>3. \A u \in Vectors : Elems(vec'[u]) = IF u = v THEN Elems(w) ELSE Elems(vec[u])
      BY <1>2
<1>   QED
      BY <1>1, <1>3

LEMMA GivenIs ==
    ASSUME NEW s \in Given
    PROVE  s \in Seq(Values) /\ Len(s) \in Nat /\ s \in Contents!Given
<1>1. s \in Seq(Values)
      BY CopiesAre, VectorAssumption DEF Given
<1>2. s \in Contents!Given
      BY DEF Given, Copies, Contents!Given, Contents!Repeated
<1>   QED
      BY <1>1, <1>2, LenProperties

-----------------------------------------------------------------------------
(***************************************************************************)
(* The calls, one by one: what they leave, and that the standard has them  *)
(* do so.                                                                  *)
(***************************************************************************)

LEMMA ConstructKeeps ==
    ASSUME IInv, NEW v \in Vectors, Construct(v)
    PROVE  Keeps(v) /\ Contents!Next
<1>1. PICK s \in Given \cup {Elems(vec[w]) : w \in Vectors \ {v}} :
          Becomes(<<"construct", v, s>>, v, Block(s, Len(s)), {"moved"})
      BY DEF Construct
<1>2. returned' = NoPosition
      BY DEF Construct
<1>3. s \in Seq(Values) /\ Len(s) \in Nat
      BY GivenIs, ElemsAre, LenProperties DEF IInv
<1>4. Vec(Block(s, Len(s))) /\ Elems(Block(s, Len(s))) = s
      BY <1>3, BlockIs
<1>5. Kept(<<"construct", v, s>>, v, Block(s, Len(s)), {"moved"})
      BY <1>4 DEF Kept
<1>6. Keeps(v)
      BY <1>1, <1>2, <1>5 DEF Keeps
<1>7. /\ Contents!Holds(v, s) /\ ~lost /\ lost' = FALSE
      /\ call' = <<"construct", v, s>>
      BY <1>1, <1>4, Replaced DEF Contents!Holds
<1>8. s \in Contents!Given \cup {[u \in Vectors |-> Elems(vec[u])][w] : w \in Vectors \ {v}}
  <2>1. CASE s \in Given
        BY <2>1, GivenIs
  <2>2. CASE s \in {Elems(vec[w]) : w \in Vectors \ {v}}
        BY <2>2
  <2>   QED
        BY <2>1, <2>2
<1>9. Contents!Constructed(v)
      BY <1>7, <1>8 DEF Contents!Constructed
<1>   QED
      BY <1>2, <1>6, <1>7, <1>9 DEF Contents!Next

LEMMA AssignKeeps ==
    ASSUME IInv, NEW v \in Vectors, Assign(v)
    PROVE  Keeps(v) /\ Contents!Next
<1>1. PICK w \in Vectors :
          Becomes(<<"operator=", v, w>>, v, Block(Elems(vec[w]), vec[w].size), {"moved"})
      BY DEF Assign
<1>2. returned' = NoPosition
      BY DEF Assign
<1>3. PICK b : b = Block(Elems(vec[w]), vec[w].size)
      OBVIOUS
<1>4. Vec(vec[w]) /\ Vec(vec[v])
      BY DEF IInv
<1>5. /\ Elems(vec[w]) \in Seq(Values) /\ Len(Elems(vec[w])) = vec[w].size
      /\ vec[w].size \in Nat
      BY <1>4, ElemsAre, Counts
<1>6. Vec(b) /\ Elems(b) = Elems(vec[w])
      BY <1>3, <1>5, BlockIs
<1>7. Kept(<<"operator=", v, w>>, v, b, {"moved"})
      BY <1>6 DEF Kept
<1>8. Keeps(v)
      BY <1>1, <1>2, <1>3, <1>7 DEF Keeps
<1>9. /\ Contents!Holds(v, [u \in Vectors |-> Elems(vec[u])][w]) /\ ~lost /\ lost' = FALSE
      /\ call' = <<"operator=", v, w>>
  <2>1. Becomes(<<"operator=", v, w>>, v, b, {"moved"})
        BY <1>1, <1>3
  <2>2. /\ [u \in Vectors |-> Elems(vec[u])]'
             = [[u \in Vectors |-> Elems(vec[u])] EXCEPT ![v] = Elems(b)]
        /\ call' = <<"operator=", v, w>> /\ ~lost /\ lost' = FALSE
        BY <2>1, Replaced
  <2>3. Elems(b) = [u \in Vectors |-> Elems(vec[u])][w]
        BY <1>6
  <2>   QED
        BY <2>2, <2>3 DEF Contents!Holds
<1>10. Contents!Assigned(v)
       BY <1>9 DEF Contents!Assigned
<1>    QED
       BY <1>2, <1>8, <1>9, <1>10 DEF Contents!Next

LEMMA AssignGivenKeeps ==
    ASSUME IInv, NEW v \in Vectors, AssignGiven(v)
    PROVE  Keeps(v) /\ Contents!Next
<1>1. PICK s \in Given :
          Becomes(<<"assign", v, s>>, v, AssignCells(vec[v], s),
                  IF Len(s) > Capacity(vec[v]) THEN {"moved"} ELSE {})
      BY DEF AssignGiven
<1>2. returned' = NoPosition
      BY DEF AssignGiven
<1>3. PICK effects : effects = IF Len(s) > Capacity(vec[v]) THEN {"moved"} ELSE {}
      OBVIOUS
<1>4. PICK b : b = AssignCells(vec[v], s)
      OBVIOUS
<1>5. Vec(vec[v]) /\ s \in Seq(Values) /\ s \in Contents!Given
      BY GivenIs DEF IInv
<1>6. Vec(b) /\ Elems(b) = s /\ b.size = Len(s)
      BY <1>4, <1>5, AssignCellsIs
<1>7. Kept(<<"assign", v, s>>, v, b, effects)
      BY <1>3, <1>6 DEF Kept
<1>8. Keeps(v)
      BY <1>1, <1>2, <1>3, <1>4, <1>7 DEF Keeps
<1>9. /\ Contents!Holds(v, s) /\ ~lost /\ lost' = FALSE
      /\ call' = <<"assign", v, s>>
      BY <1>1, <1>4, <1>6, Replaced DEF Contents!Holds
<1>10. Contents!Assigned(v)
       BY <1>5, <1>9 DEF Contents!Assigned
<1>    QED
       BY <1>2, <1>8, <1>9, <1>10 DEF Contents!Next

LEMMA ReserveKeeps ==
    ASSUME IInv, NEW v \in Vectors, Reserve(v)
    PROVE  Keeps(v) /\ Contents!Next
<1>1. PICK n \in 0 .. MaxCells :
          /\ n > Capacity(vec[v])
          /\ Becomes(<<"reserve", v, n>>, v, Block(Elems(vec[v]), n), {"moved"})
      BY DEF Reserve
<1>2. returned' = NoPosition
      BY DEF Reserve
<1>3. PICK b : b = Block(Elems(vec[v]), n)
      OBVIOUS
<1>4. /\ Vec(vec[v]) /\ n \in Nat
      /\ Elems(vec[v]) \in Seq(Values) /\ Len(Elems(vec[v])) <= n
      BY <1>1, ElemsAre, Counts, VectorAssumption DEF IInv
<1>5. Vec(b) /\ Elems(b) = Elems(vec[v])
      BY <1>3, <1>4, BlockIs
<1>6. Kept(<<"reserve", v, n>>, v, b, {"moved"})
      BY <1>5 DEF Kept
<1>7. Keeps(v)
      BY <1>1, <1>2, <1>3, <1>6 DEF Keeps
<1>8. /\ [u \in Vectors |-> Elems(vec[u])]' = [u \in Vectors |-> Elems(vec[u])]
      /\ call' = <<"reserve", v, n>> /\ ~lost /\ lost' = FALSE
  <2>1. /\ [u \in Vectors |-> Elems(vec[u])]'
             = [[u \in Vectors |-> Elems(vec[u])] EXCEPT ![v] = Elems(vec[v])]
        /\ call' = <<"reserve", v, n>> /\ ~lost /\ lost' = FALSE
        BY <1>1, <1>3, <1>5, Replaced
  <2>   QED
        BY <2>1
<1>9. Contents!Reserved(v)
      BY <1>8 DEF Contents!Reserved
<1>   QED
      BY <1>2, <1>7, <1>8, <1>9 DEF Contents!Next

LEMMA PushBackKeeps ==
    ASSUME IInv, NEW v \in Vectors, PushBack(v)
    PROVE  Keeps(v) /\ Contents!Next
<1>1. PICK x \in Values :
          Becomes(<<"push_back", v, x>>, v, Pushed(vec[v], Grown(vec[v]), x),
                  Use(Grown(vec[v]), {vec[v].size})
                    \cup IF Grown(vec[v]) # vec[v] THEN {"moved"} ELSE {})
      BY DEF PushBack
<1>2. returned' = NoPosition
      BY DEF PushBack
<1>3. PICK effects : effects = Use(Grown(vec[v]), {vec[v].size})
                      \cup IF Grown(vec[v]) # vec[v] THEN {"moved"} ELSE {}
      OBVIOUS
<1>4. PICK b : b = Pushed(vec[v], Grown(vec[v]), x)
      OBVIOUS
<1>5. Vec(vec[v])
      BY DEF IInv
<1>6. Vec(b) /\ Elems(b) = Append(Elems(vec[v]), x) /\ b.size = vec[v].size + 1
      BY <1>4, <1>5, PushedIs
<1>7. effects \subseteq {"moved"} /\ ("moved" \in effects => b.size > Capacity(vec[v]))
  <2>1. /\ vec[v].size < Capacity(Grown(vec[v]))
        /\ Grown(vec[v]) # vec[v] => vec[v].size = Capacity(vec[v])
        /\ vec[v].size \in Nat
        BY <1>5, GrownIs, Counts
  <2>2. Capacity(Grown(vec[v])) \in Nat
        BY <1>5, GrownIs, Counts
  <2>3. Use(Grown(vec[v]), {vec[v].size}) = {}
    <3>1. ~(\E i \in {vec[v].size} : i >= Capacity(Grown(vec[v])))
          BY <2>1, <2>2
    <3>   QED
          BY <3>1, UseIs
  <2>   QED
    <3>1. effects = IF Grown(vec[v]) # vec[v] THEN {"moved"} ELSE {}
          BY <1>3, <2>3
    <3>2. ASSUME Grown(vec[v]) # vec[v] PROVE b.size > Capacity(vec[v])
          BY <1>6, <2>1, <3>2
    <3>   QED
          BY <3>1, <3>2
<1>8. Kept(<<"push_back", v, x>>, v, b, effects)
      BY <1>6, <1>7 DEF Kept
<1>9. Keeps(v)
      BY <1>1, <1>2, <1>3, <1>4, <1>8 DEF Keeps
<1>10. /\ Contents!Holds(v, Append([u \in Vectors |-> Elems(vec[u])][v], x))
       /\ call' = <<"push_back", v, x>> /\ ~lost /\ lost' = FALSE
       BY <1>1, <1>4, <1>6, Replaced DEF Contents!Holds
<1>11. Contents!Appended(v)
       BY <1>10 DEF Contents!Appended
<1>    QED
       BY <1>2, <1>9, <1>10, <1>11 DEF Contents!Next

LEMMA PopBackKeeps ==
    ASSUME IInv, NEW v \in Vectors, PopBack(v)
    PROVE  Keeps(v) /\ Contents!Next
<1>1. /\ vec[v].size > 0
      /\ Becomes(<<"pop_back", v>>, v, Popped(vec[v]), Use(vec[v], {vec[v].size}))
      /\ returned' = NoPosition
      BY DEF PopBack
<1>2. PICK effects : effects = Use(vec[v], {vec[v].size})
      OBVIOUS
<1>3. PICK b : b = Popped(vec[v])
      OBVIOUS
<1>4. /\ Vec(vec[v]) /\ vec[v].size \in Nat
      /\ Capacity(vec[v]) \in Nat /\ vec[v].size <= Capacity(vec[v])
      BY Counts DEF IInv
<1>5. Vec(b) /\ Elems(b) = Front(Elems(vec[v])) /\ b.size = vec[v].size - 1
      BY <1>1, <1>3, <1>4, PoppedIs
<1>6. /\ effects \subseteq {"outside"}
      /\ "outside" \in effects => vec[v].size >= Capacity(vec[v])
      BY <1>2, UseIs
<1>7. "outside" \in effects => 2 * vec[v].size - b.size > Capacity(vec[v])
      BY <1>4, <1>5, <1>6
<1>8. Kept(<<"pop_back", v>>, v, b, effects)
      BY <1>5, <1>6, <1>7 DEF Kept
<1>9. Keeps(v)
      BY <1>1, <1>2, <1>3, <1>8 DEF Keeps
<1>10. /\ Contents!Holds(v, Contents!Front([u \in Vectors |-> Elems(vec[u])][v]))
       /\ call' = <<"pop_back", v>> /\ ~lost /\ lost' = FALSE
  <2>1. Contents!Front([u \in Vectors |-> Elems(vec[u])][v]) = Front(Elems(vec[v]))
        BY DEF Contents!Front, Front
  <2>   QED
        BY <1>1, <1>3, <1>5, <2>1, Replaced DEF Contents!Holds
<1>11. [u \in Vectors |-> Elems(vec[u])][v] # <<>>
       BY <1>1, <1>4, ElemsAre, EmptySeq
<1>12. Contents!RemovedLast(v)
       BY <1>10, <1>11 DEF Contents!RemovedLast
<1>    QED
       BY <1>1, <1>9, <1>10, <1>12 DEF Contents!Next

LEMMA ClearKeeps ==
    ASSUME IInv, NEW v \in Vectors, Clear(v)
    PROVE  Keeps(v) /\ Contents!Next
<1>1. /\ Becomes(<<"clear", v>>, v, Cleared(vec[v]), Use(vec[v], 0 .. vec[v].size - 1))
      /\ returned' = NoPosition
      BY DEF Clear, Cleared
<1>2. PICK effects : effects = Use(vec[v], 0 .. vec[v].size - 1)
      OBVIOUS
<1>3. PICK b : b = Cleared(vec[v])
      OBVIOUS
<1>4. /\ Vec(vec[v]) /\ vec[v].size \in Nat
      /\ Capacity(vec[v]) \in Nat /\ vec[v].size <= Capacity(vec[v])
      BY Counts DEF IInv
<1>5. Vec(b) /\ Elems(b) = <<>>
      BY <1>3, <1>4, ClearedIs
<1>6. effects = {}
  <2>1. PICK at : at = 0 .. vec[v].size - 1
        OBVIOUS
  <2>2. \A i \in at : ~(i >= Capacity(vec[v]))
        BY <1>4, <2>1
  <2>3. effects = Use(vec[v], at)
        BY <1>2, <2>1
  <2>   QED
        BY <2>2, <2>3, UseIs
<1>7. Kept(<<"clear", v>>, v, b, effects)
      BY <1>5, <1>6 DEF Kept
<1>8. Keeps(v)
      BY <1>1, <1>2, <1>3, <1>7 DEF Keeps
<1>9. /\ Contents!Holds(v, <<>>)
      /\ call' = <<"clear", v>> /\ ~lost /\ lost' = FALSE
      BY <1>1, <1>3, <1>5, Replaced DEF Contents!Holds
<1>10. Contents!Cleared(v)
       BY <1>9 DEF Contents!Cleared
<1>    QED
       BY <1>1, <1>8, <1>9, <1>10 DEF Contents!Next

LEMMA ResizeKeeps ==
    ASSUME IInv, NEW v \in Vectors, Resize(v)
    PROVE  Keeps(v) /\ Contents!Next
<1>1. PICK n \in 0 .. MaxCells, x \in Values :
          Becomes(<<"resize", v, n, x>>, v, Resized(vec[v], n, x),
                  IF n > Capacity(vec[v]) THEN {"moved"}
                  ELSE IF n > vec[v].size THEN {}
                  ELSE Use(vec[v], PoppedBy(vec[v], n)))
      BY DEF Resize
<1>2. returned' = NoPosition
      BY DEF Resize
<1>3. PICK effects : effects = IF n > Capacity(vec[v]) THEN {"moved"}
                               ELSE IF n > vec[v].size THEN {}
                               ELSE Use(vec[v], PoppedBy(vec[v], n))
      OBVIOUS
<1>4. PICK b : b = Resized(vec[v], n, x)
      OBVIOUS
<1>5. /\ Vec(vec[v]) /\ vec[v].size \in Nat /\ n \in Nat
      /\ Capacity(vec[v]) \in Nat /\ vec[v].size <= Capacity(vec[v])
      BY Counts, VectorAssumption DEF IInv
<1>6. Vec(b) /\ Elems(b) = Stretched(Elems(vec[v]), n, x) /\ b.size = n
      BY <1>4, <1>5, ResizedIs
<1>7. Kept(<<"resize", v, n, x>>, v, b, effects)
  <2>1. CASE n > Capacity(vec[v])
        BY <1>3, <1>6, <2>1 DEF Kept
  <2>2. CASE ~(n > Capacity(vec[v])) /\ n > vec[v].size
        BY <1>3, <1>6, <2>2 DEF Kept
  <2>3. CASE ~(n > Capacity(vec[v])) /\ ~(n > vec[v].size)
    <3>1. PICK at : at = PoppedBy(vec[v], n)
          OBVIOUS
    <3>2. effects = Use(vec[v], at)
          BY <1>3, <2>3, <3>1
    <3>3. /\ \A i \in at : i \in Int /\ n <= i /\ i <= vec[v].size
          /\ at # {} => n < vec[v].size
          BY <1>5, <2>3, <3>1, PoppedByIs
    <3>4. effects \subseteq {"outside"}
          BY <3>2, UseIs
    <3>5. ASSUME "outside" \in effects
          PROVE  2 * vec[v].size - n > Capacity(vec[v])
      <4>1. PICK i \in at : i >= Capacity(vec[v])
            BY <3>2, <3>5, UseIs
      <4>   QED
            BY <1>5, <3>3, <4>1
    <3>   QED
          BY <1>6, <3>4, <3>5 DEF Kept
  <2>   QED
        BY <2>1, <2>2, <2>3
<1>8. Keeps(v)
      BY <1>1, <1>2, <1>3, <1>4, <1>7 DEF Keeps
<1>9. /\ Contents!Holds(v, Stretched(Elems(vec[v]), n, x))
      /\ call' = <<"resize", v, n, x>> /\ ~lost /\ lost' = FALSE
      BY <1>1, <1>4, <1>6, Replaced DEF Contents!Holds
<1>10. Contents!Resized(v)
  <2>1. [u \in Vectors |-> Elems(vec[u])][v] = Elems(vec[v])
        OBVIOUS
  <2>   QED
        BY <1>9, <2>1 DEF Contents!Resized, Stretched
<1>11. ~lost /\ lost' = FALSE
       BY <1>9
<1>    QED
       BY <1>2, <1>8, <1>10, <1>11 DEF Contents!Next

\* insert(position, ...), for any elements s that go in.
LEMMA InsertKeeps ==
    ASSUME IInv, NEW v \in Vectors, NEW i \in 0 .. vec[v].size,
           NEW s \in Seq(Values), s \in Contents!Given, Insert(v, i, s)
    PROVE  Keeps(v) /\ Contents!Next
<1>1. /\ Becomes(<<"insert", v, i, s>>, v, Spliced(vec[v], i, s),
                 IF vec[v].size + Len(s) > Capacity(vec[v]) THEN {"moved"}
                 ELSE Use(vec[v], i .. vec[v].size + Len(s) - 1))
      /\ returned' = i
      BY DEF Insert
<1>2. PICK effects : effects = IF vec[v].size + Len(s) > Capacity(vec[v])
                               THEN {"moved"}
                               ELSE Use(vec[v], i .. vec[v].size + Len(s) - 1)
      OBVIOUS
<1>3. PICK b : b = Spliced(vec[v], i, s)
      OBVIOUS
<1>4. /\ Vec(vec[v]) /\ vec[v].size \in Nat /\ Len(s) \in Nat
      /\ Capacity(vec[v]) \in Nat /\ vec[v].size <= Capacity(vec[v])
      BY Counts, LenProperties DEF IInv
<1>5. i \in Nat /\ i <= vec[v].size
      BY <1>4
<1>6. Vec(b) /\ Elems(b) = WithIn(Elems(vec[v]), i, s) /\ b.size = vec[v].size + Len(s)
      BY <1>3, <1>4, <1>5, SplicedIs
<1>7. Kept(<<"insert", v, i, s>>, v, b, effects)
  <2>1. CASE vec[v].size + Len(s) > Capacity(vec[v])
        BY <1>2, <1>6, <2>1 DEF Kept
  <2>2. CASE ~(vec[v].size + Len(s) > Capacity(vec[v]))
    <3>1. PICK at : at = i .. vec[v].size + Len(s) - 1
          OBVIOUS
    <3>2. \A j \in at : ~(j >= Capacity(vec[v]))
          BY <1>4, <1>5, <2>2, <3>1
    <3>3. effects = Use(vec[v], at)
          BY <1>2, <2>2, <3>1
    <3>4. effects = {}
          BY <3>2, <3>3, UseIs
    <3>   QED
          BY <1>6, <3>4 DEF Kept
  <2>   QED
        BY <2>1, <2>2
<1>8. Keeps(v)
      BY <1>1, <1>2, <1>3, <1>5, <1>7 DEF Keeps
<1>9. PICK e : e = [u \in Vectors |-> Elems(vec[u])][v]
      OBVIOUS
<1>10. e = Elems(vec[v]) /\ Len(e) = vec[v].size
       BY <1>4, <1>9, ElemsAre
<1>11. /\ Contents!Holds(v, WithIn(e, i, s))
       /\ call' = <<"insert", v, i, s>> /\ ~lost /\ lost' = FALSE
       BY <1>1, <1>3, <1>6, <1>10, Replaced DEF Contents!Holds
<1>12. Contents!Inserted(v)
       BY <1>1, <1>9, <1>10, <1>11 DEF Contents!Inserted, WithIn
<1>13. ~lost /\ lost' = FALSE
       BY <1>11
<1>    QED
       BY <1>8, <1>12, <1>13 DEF Contents!Next

\* One element, n times one, or a range goes in: all are Inserted.
LEMMA InsertOneKeeps ==
    ASSUME IInv, NEW v \in Vectors, InsertOne(v)
    PROVE  Keeps(v) /\ Contents!Next
<1>1. PICK i \in 0 .. vec[v].size, x \in Values : Insert(v, i, <<x>>)
      BY DEF InsertOne
<1>2. PICK n \in 0 .. MaxCells : n = 1
      BY VectorAssumption
<1>3. PICK s \in Seq(Values) : s = Copies(n, x)
      BY <1>2, CopiesAre
<1>4. s = <<x>>
      BY <1>2, <1>3 DEF Copies
<1>5. s \in Contents!Given
      BY <1>3, GivenIs DEF Given
<1>   QED
      BY <1>1, <1>4, <1>5, InsertKeeps

LEMMA InsertFillKeeps ==
    ASSUME IInv, NEW v \in Vectors, InsertFill(v)
    PROVE  Keeps(v) /\ Contents!Next
<1>1. PICK i \in 0 .. vec[v].size, n \in 0 .. MaxCells, x \in Values :
          Insert(v, i, Copies(n, x))
      BY DEF InsertFill
<1>2. Copies(n, x) \in Seq(Values) /\ Copies(n, x) \in Contents!Given
      BY GivenIs DEF Given
<1>   QED
      BY <1>1, <1>2, InsertKeeps

LEMMA InsertRangeKeeps ==
    ASSUME IInv, NEW v \in Vectors, InsertRange(v)
    PROVE  Keeps(v) /\ Contents!Next
<1>1. PICK i \in 0 .. vec[v].size, s \in Ranges : Insert(v, i, s)
      BY DEF InsertRange
<1>2. s \in Seq(Values) /\ s \in Contents!Given
      BY GivenIs DEF Given
<1>   QED
      BY <1>1, <1>2, InsertKeeps

LEMMA EraseKeeps ==
    ASSUME IInv, NEW v \in Vectors, Erase(v)
    PROVE  Keeps(v) /\ Contents!Next
<1>1. PICK i \in 0 .. vec[v].size - 1 :
          /\ Becomes(<<"erase", v, i, 1>>, v, ErasedOne(vec[v], i),
                     Use(vec[v], i .. vec[v].size - 1))
          /\ returned' = i
      BY DEF Erase, ErasedOne
<1>2. PICK at : at = i .. vec[v].size - 1
      OBVIOUS
<1>3. PICK b : b = ErasedOne(vec[v], i)
      OBVIOUS
<1>4. /\ Vec(vec[v]) /\ vec[v].size \in Nat
      /\ Capacity(vec[v]) \in Nat /\ vec[v].size <= Capacity(vec[v])
      BY Counts DEF IInv
<1>5. i \in Nat /\ i < vec[v].size
      BY <1>4
<1>6. /\ Vec(b) /\ Elems(b) = Without(Elems(vec[v]), i, i + 1)
      /\ b.size = vec[v].size - 1
      BY <1>3, <1>4, <1>5, ErasedOneIs
<1>7. Use(vec[v], at) = {}
  <2>1. \A j \in at : ~(j >= Capacity(vec[v]))
        BY <1>2, <1>4, <1>5
  <2>   QED
        BY <2>1, UseIs
<1>8. Kept(<<"erase", v, i, 1>>, v, b, Use(vec[v], at))
      BY <1>6, <1>7 DEF Kept
<1>9. Keeps(v)
      BY <1>1, <1>2, <1>3, <1>5, <1>8 DEF Keeps
<1>10. PICK d \in Nat : d = 1
       OBVIOUS
<1>11. /\ Contents!Holds(v, Without([u \in Vectors |-> Elems(vec[u])][v], i, i + d))
       /\ call' = <<"erase", v, i, d>> /\ ~lost /\ lost' = FALSE
       BY <1>1, <1>3, <1>6, <1>10, Replaced DEF Contents!Holds
<1>12. /\ i \in 0 .. Len([u \in Vectors |-> Elems(vec[u])][v])
       /\ d \in 0 .. Len([u \in Vectors |-> Elems(vec[u])][v]) - i
       BY <1>4, <1>5, <1>10, ElemsAre
<1>13. Contents!Erased(v)
       BY <1>1, <1>11, <1>12 DEF Contents!Erased, Without
<1>14. ~lost /\ lost' = FALSE
       BY <1>11
<1>    QED
       BY <1>9, <1>13, <1>14 DEF Contents!Next

LEMMA EraseRangeKeeps ==
    ASSUME IInv, NEW v \in Vectors, EraseRange(v)
    PROVE  Keeps(v) /\ Contents!Next
<1>0. PICK i \in 0 .. vec[v].size - 1 : \E d \in 0 .. vec[v].size - i :
          /\ Becomes(<<"erase", v, i, d>>, v, ErasedRange(vec[v], i, d),
                     Use(vec[v], (i .. vec[v].size - 1)
                                   \cup (i + d .. vec[v].size - 2 + d)))
          /\ returned' = i
      BY DEF EraseRange, ErasedRange
<1>1. PICK d \in 0 .. vec[v].size - i :
          /\ Becomes(<<"erase", v, i, d>>, v, ErasedRange(vec[v], i, d),
                     Use(vec[v], (i .. vec[v].size - 1)
                                   \cup (i + d .. vec[v].size - 2 + d)))
          /\ returned' = i
      BY <1>0
<1>2. PICK at : at = (i .. vec[v].size - 1) \cup (i + d .. vec[v].size - 2 + d)
      OBVIOUS
<1>3. PICK b : b = ErasedRange(vec[v], i, d)
      OBVIOUS
<1>4. /\ Vec(vec[v]) /\ vec[v].size \in Nat
      /\ Capacity(vec[v]) \in Nat /\ vec[v].size <= Capacity(vec[v])
      BY Counts DEF IInv
<1>5. i \in Nat /\ i < vec[v].size /\ d \in Nat /\ i + d <= vec[v].size
      BY <1>4
<1>6. /\ Vec(b) /\ Elems(b) = Without(Elems(vec[v]), i, i + d)
      /\ b.size = vec[v].size - d
      BY <1>3, <1>4, <1>5, ErasedRangeIs
<1>7. /\ Use(vec[v], at) \subseteq {"outside"}
      /\ "outside" \in Use(vec[v], at) => 2 * vec[v].size - b.size > Capacity(vec[v])
  <2>1. at \in SUBSET Nat
        BY <1>2, <1>4, <1>5
  <2>2. ASSUME NEW j \in at, j >= Capacity(vec[v])
        PROVE  2 * vec[v].size - b.size > Capacity(vec[v])
    <3>1. j <= vec[v].size - 2 + d
          BY <1>2, <1>4, <1>5, <2>2
    <3>   QED
          BY <1>4, <1>5, <1>6, <2>1, <2>2, <3>1
  <2>   QED
        BY <2>2, UseIs
<1>8. Kept(<<"erase", v, i, d>>, v, b, Use(vec[v], at))
      BY <1>6, <1>7 DEF Kept
<1>9. Keeps(v)
      BY <1>1, <1>2, <1>3, <1>5, <1>8 DEF Keeps
<1>10. /\ Contents!Holds(v, Without([u \in Vectors |-> Elems(vec[u])][v], i, i + d))
       /\ call' = <<"erase", v, i, d>> /\ ~lost /\ lost' = FALSE
       BY <1>1, <1>3, <1>6, Replaced DEF Contents!Holds
<1>11. /\ i \in 0 .. Len([u \in Vectors |-> Elems(vec[u])][v])
       /\ d \in 0 .. Len([u \in Vectors |-> Elems(vec[u])][v]) - i
       BY <1>4, <1>5, ElemsAre
<1>12. Contents!Erased(v)
       BY <1>1, <1>10, <1>11 DEF Contents!Erased, Without
<1>13. ~lost /\ lost' = FALSE
       BY <1>10
<1>    QED
       BY <1>9, <1>12, <1>13 DEF Contents!Next

LEMMA SwapKeeps ==
    ASSUME IInv, Swap
    PROVE  IInv' /\ did' = {} /\ Contents!Next
<1>1. PICK v \in Vectors, w \in Vectors :
          /\ vec' = [vec EXCEPT ![v] = vec[w], ![w] = vec[v]]
          /\ call' = <<"swap", v, w>>
      BY DEF Swap
<1>2. returned' = NoPosition /\ did' = {} /\ ~lost /\ lost' = FALSE
      BY DEF Swap
<1>3. \A u \in Vectors :
          vec'[u] = IF u = w THEN vec[v] ELSE IF u = v THEN vec[w] ELSE vec[u]
      BY <1>1 DEF IInv
<1>4. \A u \in Vectors : Vec(vec'[u])
      BY <1>3 DEF IInv
<1>5. DOMAIN vec' = Vectors /\ vec' = [u \in Vectors |-> vec'[u]]
      BY <1>1 DEF IInv
<1>6. IInv'
      BY <1>2, <1>4, <1>5 DEF IInv, Vec, Shape, Capacity
<1>7. \A u \in Vectors : Elems(vec'[u]) = IF u = w THEN Elems(vec[v])
                                          ELSE IF u = v THEN Elems(vec[w])
                                          ELSE Elems(vec[u])
      BY <1>3
<1>8. Contents!Exchanged
  <2>1. [u \in Vectors |-> Elems(vec[u])]'
          = [[u \in Vectors |-> Elems(vec[u])]
               EXCEPT ![v] = [u \in Vectors |-> Elems(vec[u])][w],
                      ![w] = [u \in Vectors |-> Elems(vec[u])][v]]
        BY <1>7
  <2>   QED
        BY <1>1, <2>1 DEF Contents!Exchanged
<1>   QED
      BY <1>2, <1>6, <1>8 DEF Contents!Next

\* The four calls that lose the contents leave the vectors as they were, and
\* the standard's promise is given up for these four only.
Losing(v) == AssignSelf(v) \/ AssignOwn(v) \/ PushBackOwn(v) \/ EraseNothingAtEnd(v)

LEMMA LosesKeeps ==
    ASSUME IInv, NEW v \in Vectors, Losing(v)
    PROVE  IInv' /\ lost' = TRUE /\ Contents!Next
<1>1. vec' = vec /\ returned' = returned /\ did' = {} /\ lost' = TRUE /\ ~lost
      BY DEF Losing, AssignSelf, AssignOwn, PushBackOwn, EraseNothingAtEnd, Loses
<1>2. IInv'
      BY <1>1 DEF IInv, Vec, Shape, Capacity
<1>3. PICK e : e = [u \in Vectors |-> Elems(vec[u])][v]
      OBVIOUS
<1>4. Len(e) = vec[v].size /\ vec[v].size \in Nat /\ (vec[v].size > 0 => e # <<>>)
      BY <1>3, ElemsAre, Counts, EmptySeq DEF IInv
<1>5. \/ e # <<>> /\ call' \in {<<"operator=", v, v>>, <<"assign own", v>>,
                                <<"push_back own", v>>}
      \/ call' = <<"erase", v, Len(e), 0>>
      BY <1>4 DEF Losing, AssignSelf, AssignOwn, PushBackOwn, EraseNothingAtEnd, Loses
<1>6. Contents!Lose(v)
      BY <1>1, <1>3, <1>5 DEF Contents!Lose
<1>   QED
      BY <1>1, <1>2, <1>6 DEF Contents!Next

\* Every call is one of these.
LEMMA EveryCall ==
    ASSUME IInv, Next
    PROVE  /\ Contents!Next
           /\ \/ \E v \in Vectors : Keeps(v)
              \/ IInv' /\ did' = {}
              \/ IInv' /\ lost' = TRUE
<1>1. ASSUME NEW v \in Vectors,
             \/ Construct(v) \/ Assign(v)
             \/ AssignGiven(v)
             \/ Reserve(v) \/ PushBack(v) \/ PopBack(v)
             \/ Clear(v) \/ Resize(v)
             \/ InsertOne(v) \/ InsertFill(v) \/ InsertRange(v)
             \/ Erase(v) \/ EraseRange(v)
      PROVE  Keeps(v) /\ Contents!Next
      BY <1>1, ConstructKeeps, AssignKeeps, AssignGivenKeeps, ReserveKeeps,
         PushBackKeeps, PopBackKeeps, ClearKeeps, ResizeKeeps, InsertOneKeeps,
         InsertFillKeeps, InsertRangeKeeps, EraseKeeps, EraseRangeKeeps
<1>2. ASSUME NEW v \in Vectors, Losing(v)
      PROVE  IInv' /\ lost' = TRUE /\ Contents!Next
      BY <1>2, LosesKeeps
<1>3. CASE Swap
      BY <1>3, SwapKeeps
<1>   QED
      BY <1>1, <1>2, <1>3 DEF Next, Losing

LEMMA KeepsInvariant ==
    ASSUME IInv, NEW v \in Vectors, Keeps(v)
    PROVE  IInv'
<1>1. PICK c, w, effects : Becomes(c, v, w, effects) /\ Kept(c, v, w, effects)
      BY DEF Keeps
<1>2. vec' = [vec EXCEPT ![v] = w] /\ did' = effects /\ lost' = FALSE
      BY <1>1 DEF Becomes
<1>3. \A u \in Vectors : vec'[u] = IF u = v THEN w ELSE vec[u]
      BY <1>2 DEF IInv
<1>4. \A u \in Vectors : Vec(vec'[u])
      BY <1>1, <1>3 DEF IInv, Kept
<1>5. DOMAIN vec' = Vectors /\ vec' = [u \in Vectors |-> vec'[u]]
      BY <1>2 DEF IInv
<1>6. did' \subseteq {"outside", "moved"} /\ returned' \in Nat \cup {NoPosition}
      BY <1>1, <1>2 DEF Kept, Keeps
<1>   QED
      BY <1>2, <1>4, <1>5, <1>6 DEF IInv, Vec, Shape, Capacity

LEMMA Initially == Init => IInv /\ Contents!Init
<1> SUFFICES ASSUME Init PROVE IInv /\ Contents!Init
    OBVIOUS
<1>1. PICK none \in Seq(Values) : Len(none) = 0 /\ none = <<>>
      BY EmptySeq
<1>2. PICK n \in Nat : n = 0
      OBVIOUS
<1>3. Len(none) <= n
      BY <1>1, <1>2
<1>4. Vec(Block(none, n)) /\ Elems(Block(none, n)) = none
      BY <1>3, BlockIs
<1>5. \A v \in Vectors : vec[v] = Block(none, n)
      BY <1>1, <1>2 DEF Init
<1>6. IInv
      BY <1>4, <1>5 DEF Init, IInv
<1>7. \A v \in Vectors : Elems(vec[v]) = <<>>
      BY <1>1, <1>4, <1>5
<1>8. Contents!Init
      BY <1>7 DEF Init, Contents!Init
<1>   QED
      BY <1>6, <1>8

LEMMA Invariance == Spec => []IInv
<1>1. IInv /\ [Next]_vars => IInv'
  <2> SUFFICES ASSUME IInv, [Next]_vars PROVE IInv'
      OBVIOUS
  <2>1. CASE Next
        BY <2>1, EveryCall, KeepsInvariant
  <2>2. CASE UNCHANGED vars
        BY <2>2 DEF vars, IInv, Vec, Shape, Capacity
  <2>   QED
        BY <2>1, <2>2
<1>   QED
      BY Initially, <1>1, PTL DEF Spec

-----------------------------------------------------------------------------
(***************************************************************************)
(* The theorems.                                                           *)
(***************************************************************************)

\* After any calls on any vectors, the size fits the block and every element
\* holds an object.
THEOREM TypeCorrect == Spec => []TypeOK
<1>1. IInv => TypeOK
  <2> SUFFICES ASSUME IInv PROVE TypeOK
      OBVIOUS
  <2>1. ASSUME NEW v \in Vectors
        PROVE  /\ vec[v].cells \in Seq(Values \cup {NoObject})
               /\ vec[v].size \in 0 .. Capacity(vec[v])
               /\ Elems(vec[v]) \in Seq(Values)
    <3>1. Vec(vec[v])
          BY DEF IInv
    <3>   QED
          BY <3>1, Counts, ElemsAre DEF Shape, Cells
  <2>   QED
        BY <2>1 DEF TypeOK, IInv
<1>   QED
      BY Invariance, <1>1, PTL

\* What a call on v does to its storage, when it loses no contents.
LEMMA Effects ==
    ASSUME IInv, [Next]_vars, ~lost', NEW e \in did', vars' # vars
    PROVE  \E v \in Vectors :
              /\ call'[2] = v
              /\ e = "outside" => 2 * vec[v].size - vec'[v].size > Capacity(vec[v])
              /\ e = "moved" => \/ vec'[v].size > Capacity(vec[v])
                                \/ call'[1] \in {"reserve", "construct", "operator="}
<1>1. PICK v \in Vectors : Keeps(v)
      BY EveryCall
<1>2. PICK c, w, effects : Becomes(c, v, w, effects) /\ Kept(c, v, w, effects)
      BY <1>1 DEF Keeps
<1>3. vec'[v] = w /\ did' = effects /\ call' = c
      BY <1>2 DEF Becomes, IInv
<1>   QED
      BY <1>2, <1>3 DEF Kept

\* Only a call that removes more than the block has spare cells reaches beyond
\* the block: no other does, in any sequence of calls.
THEOREM StaysInsideCorrect == Spec => StaysInside
<1>1. IInv /\ [Next]_vars =>
        [("outside" \in did' /\ ~lost') =>
            \E v \in Vectors :
                /\ call'[2] = v
                /\ 2 * vec[v].size - vec'[v].size > Capacity(vec[v])]_vars
      BY Effects
<1>   QED
      BY Invariance, <1>1, PTL DEF Spec, StaysInside

\* Iterators stay valid unless the elements no longer fit, or the call is one
\* that makes the vector anew.
THEOREM MovesOnlyForRoomCorrect == Spec => MovesOnlyForRoom
<1>1. IInv /\ [Next]_vars =>
        [("moved" \in did' /\ ~lost') =>
            \E v \in Vectors :
                /\ call'[2] = v
                /\ \/ vec'[v].size > Capacity(vec[v])
                   \/ call'[1] \in {"reserve", "construct", "operator="}]_vars
      BY Effects
<1>   QED
      BY Invariance, <1>1, PTL DEF Spec, MovesOnlyForRoom

\* Every call leaves the contents, and returns the position, that the standard
\* promises, but for the four calls that lose them.
THEOREM ImplementsCorrect == Spec => Implements
<1>1. Init => Contents!Init
      BY Initially
<1>2. IInv /\ [Next]_vars => [Contents!Next]_(Contents!absVars)
  <2> SUFFICES ASSUME IInv, [Next]_vars
               PROVE  [Contents!Next]_(Contents!absVars)
      OBVIOUS
  <2>1. CASE Next
        BY <2>1, EveryCall
  <2>2. CASE UNCHANGED vars
        BY <2>2 DEF vars, Contents!absVars
  <2>   QED
        BY <2>1, <2>2
<1>   QED
      BY Invariance, <1>1, <1>2, PTL DEF Spec, Implements, Contents!Spec

-----------------------------------------------------------------------------
(***************************************************************************)
(* The comparisons.  The loop of lexicographical_compare stops at the      *)
(* first index at which the vectors differ or one of them ends.            *)
(***************************************************************************)

Stops(a, b, i) ==
    /\ i > Len(a) \/ i > Len(b) \/ a[i] # b[i]
    /\ \A j \in 1 .. i - 1 : j <= Len(b) /\ a[j] = b[j]

LEMMA StopIs ==
    ASSUME NEW a \in Seq(Values), NEW b \in Seq(Values)
    PROVE  Stop(a, b) \in 1 .. Len(a) + 1 /\ Stops(a, b, Stop(a, b))
<1>1. Len(a) \in Nat /\ Len(b) \in Nat
      BY LenProperties
<1>2. PICK T : T = {i \in 1 .. Len(a) + 1 : i > Len(a) \/ i > Len(b) \/ a[i] # b[i]}
      OBVIOUS
<1>3. Len(a) + 1 \in T
      BY <1>1, <1>2
<1>4. T \in SUBSET Nat /\ T # {}
      BY <1>1, <1>2, <1>3
<1>5. PICK i \in T : \A j \in T : i <= j
      BY <1>4, Smallest
<1>6. i \in 1 .. Len(a) + 1 /\ (i > Len(a) \/ i > Len(b) \/ a[i] # b[i])
      BY <1>2
<1>7. ASSUME NEW j \in 1 .. i - 1 PROVE j <= Len(b) /\ a[j] = b[j]
  <2>1. j \in 1 .. Len(a) + 1 /\ ~(i <= j)
        BY <1>1, <1>6
  <2>2. j \notin T
        BY <1>5, <2>1
  <2>   QED
        BY <1>1, <1>2, <2>1, <2>2
<1>8. \E k \in 1 .. Len(a) + 1 : Stops(a, b, k)
      BY <1>6, <1>7 DEF Stops
<1>   QED
      BY <1>8 DEF Stop, Stops

\* It stops at the same place whichever vector comes first.
LEMMA StopIsSymmetric ==
    ASSUME NEW a \in Seq(Values), NEW b \in Seq(Values)
    PROVE  Stop(a, b) = Stop(b, a)
<1>1. Len(a) \in Nat /\ Len(b) \in Nat
      BY LenProperties
<1>2. PICK s : s = Stop(a, b)
      OBVIOUS
<1>3. PICK t : t = Stop(b, a)
      OBVIOUS
<1>4. s \in 1 .. Len(a) + 1 /\ Stops(a, b, s)
      BY <1>2, StopIs
<1>5. t \in 1 .. Len(b) + 1 /\ Stops(b, a, t)
      BY <1>3, StopIs
<1>6. ~(s < t)
  <2> SUFFICES ASSUME s < t PROVE FALSE
      OBVIOUS
  <2>1. s \in 1 .. t - 1 /\ s <= Len(b)
        BY <1>1, <1>4, <1>5
  <2>2. s <= Len(a) /\ b[s] = a[s]
        BY <1>5, <2>1 DEF Stops
  <2>   QED
        BY <1>1, <1>4, <2>1, <2>2 DEF Stops
<1>7. ~(t < s)
  <2> SUFFICES ASSUME t < s PROVE FALSE
      OBVIOUS
  <2>1. t \in 1 .. s - 1 /\ t <= Len(a)
        BY <1>1, <1>4, <1>5
  <2>2. t <= Len(b) /\ a[t] = b[t]
        BY <1>4, <2>1 DEF Stops
  <2>   QED
        BY <1>1, <1>5, <2>1, <2>2 DEF Stops
<1>   QED
      BY <1>1, <1>2, <1>3, <1>4, <1>5, <1>6, <1>7

\* Exactly one of a < b, a == b and b < a.
LEMMA Trichotomy ==
    ASSUME NEW a \in Seq(Values), NEW b \in Seq(Values)
    PROVE  \/ Less(a, b) /\ ~Same(a, b) /\ ~Less(b, a)
           \/ ~Less(a, b) /\ Same(a, b) /\ ~Less(b, a)
           \/ ~Less(a, b) /\ ~Same(a, b) /\ Less(b, a)
<1>1. /\ Len(a) \in Nat /\ Len(b) \in Nat
      /\ DOMAIN a = 1 .. Len(a)
      /\ \A i \in 1 .. Len(a) : a[i] \in Int
      /\ \A i \in 1 .. Len(b) : b[i] \in Int
      BY LenProperties, ElementOfSeq, VectorAssumption
<1>2. PICK s : s = Stop(a, b)
      OBVIOUS
<1>3. s \in 1 .. Len(a) + 1 /\ Stops(a, b, s) /\ s = Stop(b, a)
      BY <1>2, StopIs, StopIsSymmetric
<1>4. s \in 1 .. Len(b) + 1
      BY <1>3, StopIs
<1>5. /\ Less(a, b) <=> s <= Len(b) /\ (s <= Len(a) => a[s] < b[s])
      /\ Less(b, a) <=> s <= Len(a) /\ (s <= Len(b) => b[s] < a[s])
      BY <1>2, <1>3 DEF Less
<1>6. CASE s > Len(a) /\ s > Len(b)
  <2>1. Len(a) = s - 1 /\ Len(b) = s - 1
        BY <1>1, <1>3, <1>4, <1>6
  <2>2. Same(a, b)
        BY <1>1, <1>3, <2>1 DEF Same, Stops
  <2>   QED
        BY <1>1, <1>3, <1>5, <1>6, <2>2
<1>7. CASE s > Len(a) /\ s <= Len(b)
      BY <1>1, <1>3, <1>5, <1>7 DEF Same
<1>8. CASE s <= Len(a) /\ s > Len(b)
      BY <1>1, <1>3, <1>5, <1>8 DEF Same
<1>9. CASE s <= Len(a) /\ s <= Len(b)
  <2>1. s \in 1 .. Len(a) /\ s \in 1 .. Len(b)
        BY <1>1, <1>3, <1>9
  <2>2. a[s] # b[s] /\ a[s] \in Int /\ b[s] \in Int
        BY <1>1, <1>3, <1>9, <2>1 DEF Stops
  <2>3. ~Same(a, b)
        BY <1>1, <2>1, <2>2 DEF Same
  <2>   QED
        BY <1>5, <1>9, <2>2, <2>3
<1>   QED
      BY <1>1, <1>3, <1>6, <1>7, <1>8, <1>9

\* Of any two vectors exactly one is less, or they are equal, whatever their
\* sizes and elements.
THEOREM OrderIsTotalCorrect == Spec => []OrderIsTotal
<1>1. ASSUME NEW a \in Seq(Values), NEW b \in Seq(Values)
      PROVE  Cardinality({r \in 1 .. 3 : \/ r = 1 /\ Less(a, b)
                                         \/ r = 2 /\ Same(a, b)
                                         \/ r = 3 /\ Less(b, a)}) = 1
  <2>1. PICK T : T = {r \in 1 .. 3 : \/ r = 1 /\ Less(a, b)
                                     \/ r = 2 /\ Same(a, b)
                                     \/ r = 3 /\ Less(b, a)}
        OBVIOUS
  <2>2. T = {1} \/ T = {2} \/ T = {3}
        BY <2>1, Trichotomy
  <2>   QED
        BY <2>1, <2>2, FS_Singleton
<1>2. IInv => OrderIsTotal
  <2> SUFFICES ASSUME IInv PROVE OrderIsTotal
      OBVIOUS
  <2>1. \A v \in Vectors : Elems(vec[v]) \in Seq(Values)
        BY ElemsAre DEF IInv
  <2>   QED
        BY <1>1, <2>1 DEF OrderIsTotal
<1>   QED
      BY Invariance, <1>2, PTL

=============================================================================
