--------------------------- MODULE SequenceLemmas ---------------------------
(***************************************************************************)
(* Lemmas the proofs about the components share: numbers, sequences, and   *)
(* functions that are defined along the numbers.  The library's theorem on *)
(* recursive functions takes an operator, so that one exists, and what its *)
(* values satisfy, is shown by the least number at which it would fail.    *)
(***************************************************************************)
EXTENDS Integers, SequencesExt, SequenceTheorems, WellFoundedInduction, TLAPS

-----------------------------------------------------------------------------
(***************************************************************************)
(* Functions defined along the numbers up to n.                            *)
(***************************************************************************)

LEMMA Smallest ==
    ASSUME NEW T \in SUBSET Nat, T # {}
    PROVE  \E x \in T : \A y \in T : x <= y
<1>1. \E x \in T : \A y \in T : ~ (<<y, x>> \in OpToRel(<, Nat))
      BY NatLessThanWellFounded, WFMin
<1>2. PICK x \in T : \A y \in T : ~ (<<y, x>> \in OpToRel(<, Nat))
      BY <1>1
<1>3. ASSUME NEW y \in T, y < x PROVE FALSE
  <2>1. x \in Nat /\ y \in Nat
        OBVIOUS
  <2>2. <<y, x>> \in Nat \X Nat /\ <<y, x>>[1] < <<y, x>>[2]
        BY <1>3, <2>1
  <2>3. <<y, x>> \in OpToRel(<, Nat)
        BY <2>2 DEF OpToRel
  <2>   QED
        BY <1>2, <2>3
<1>4. \A y \in T : x <= y
      BY <1>3
<1>   QED
      BY <1>4

\* What holds of 0, and of each number up to n after the one before it, holds
\* of all of them.
LEMMA Stepwise ==
    ASSUME NEW n \in Nat, NEW P, 0 \in P,
           \A i \in 1..n : i - 1 \in P => i \in P
    PROVE  \A i \in 0..n : i \in P
<1>   SUFFICES ASSUME NEW k \in 0..n, k \notin P PROVE FALSE
      OBVIOUS
<1>   DEFINE T == {i \in 0..n : i \notin P}
<1>1. PICK i \in T : \A j \in T : i <= j
  <2>1. T \in SUBSET Nat /\ k \in T
        OBVIOUS
  <2>   QED
        BY <2>1, Smallest
<1>2. i \in 1..n /\ i - 1 \in 0..n /\ i - 1 \notin T
      BY <1>1
<1>   QED
      BY <1>1, <1>2

\* step[i] leads from good[i - 1] into good[i].
Leads(n, step, good) ==
    \A i \in 1..n : \A a \in good[i - 1] : step[i][a] \in good[i]

\* g starts at base, goes on by step, and stays in good.
RunsIn(g, n, base, step, good) ==
    /\ g = [i \in 0..n |-> IF i = 0 THEN base ELSE step[i][g[i - 1]]]
    /\ \A i \in 0..n : g[i] \in good[i]

LEMMA Iterates ==
    ASSUME NEW n \in Nat, NEW base, NEW step, NEW good, base \in good[0],
           Leads(n, step, good)
    PROVE  \E g : RunsIn(g, n, base, step, good)
<1>   USE DEF Leads
<1>   DEFINE Run(g, k) == RunsIn(g, k, base, step, good)
<1>   USE DEF RunsIn
<1>   DEFINE P == {k \in Nat : \E g : Run(g, k)}
<1>1. 0 \in P
  <2>   DEFINE g == [i \in 0..0 |-> base]
  <2>1. g = [i \in 0..0 |-> IF i = 0 THEN base ELSE step[i][g[i - 1]]]
        OBVIOUS
  <2>2. Run(g, 0)
        BY <2>1
  <2>   QED
        BY <2>2
<1>2. ASSUME NEW k \in 1..n, k - 1 \in P PROVE k \in P
  <2>1. PICK h : Run(h, k - 1)
        BY <1>2
  <2>   DEFINE g == [i \in 0..k |-> IF i = k THEN step[k][h[k - 1]] ELSE h[i]]
  <2>2. k \in Nat /\ k - 1 \in 0..(k - 1)
        OBVIOUS
  <2>3. \A i \in 0..(k - 1) : g[i] = h[i] /\ i \in 0..k
        BY <2>2
  <2>4. g[k] = step[k][h[k - 1]]
        BY <2>2
  <2>5. ASSUME NEW i \in 0..k
        PROVE  g[i] = (IF i = 0 THEN base ELSE step[i][g[i - 1]]) /\ g[i] \in good[i]
    <3>1. CASE i = k
          BY <2>1, <2>2, <2>3, <2>4, <3>1
    <3>2. CASE i # k
      <4>1. i \in 0..(k - 1) /\ (i # 0 => i - 1 \in 0..(k - 1))
            BY <3>2
      <4>2. h[i] = (IF i = 0 THEN base ELSE step[i][h[i - 1]]) /\ h[i] \in good[i]
            BY <2>1, <4>1
      <4>   QED
            BY <2>3, <4>1, <4>2
    <3>   QED
          BY <3>1, <3>2
  <2>6. g = [i \in 0..k |-> IF i = 0 THEN base ELSE step[i][g[i - 1]]]
        BY <2>5
  <2>7. Run(g, k)
        BY <2>5, <2>6
  <2>   QED
        BY <2>2, <2>7
<1>   HIDE DEF P
<1>3. n \in P
      BY <1>1, <1>2, Stepwise
<1>   QED
      BY <1>3 DEF P

-----------------------------------------------------------------------------
(***************************************************************************)
(* Sequences of anything.                                                  *)
(***************************************************************************)

IsSequence(s) == Len(s) \in Nat /\ s = [i \in 1..Len(s) |-> s[i]]

LEMMA AppendIs ==
    ASSUME NEW s, NEW e, IsSequence(s)
    PROVE  /\ IsSequence(Append(s, e))
           /\ Len(Append(s, e)) = Len(s) + 1
           /\ \A i \in 1..Len(s) : Append(s, e)[i] = s[i]
           /\ Append(s, e)[Len(s) + 1] = e
<1>   DEFINE S == {s[i] : i \in 1..Len(s)} \cup {e}
<1>1. s \in Seq(S)
  <2>1. PICK n \in Nat : n = Len(s)
        BY DEF IsSequence
  <2>2. s \in [1..n -> S]
        BY <2>1 DEF IsSequence
  <2>   QED
        BY <2>1, <2>2
<1>   HIDE DEF S
<1>2. e \in S
      BY DEF S
<1>3. /\ Append(s, e) \in Seq(S)
      /\ Len(Append(s, e)) = Len(s) + 1
      /\ \A i \in 1..Len(s) : Append(s, e)[i] = s[i]
      /\ Append(s, e)[Len(s) + 1] = e
      BY <1>1, <1>2, AppendProperties
<1>4. \A t \in Seq(S) : t = [i \in 1..Len(t) |-> t[i]] /\ Len(t) \in Nat
      OBVIOUS
<1>   QED
      BY <1>3, <1>4 DEF IsSequence

LEMMA Single ==
    ASSUME NEW T, NEW x \in T
    PROVE  <<x>> \in Seq(T)
OBVIOUS

LEMMA HeadIs ==
    ASSUME NEW T, NEW s \in Seq(T), NEW m \in Nat, m <= Len(s), m # 0
    PROVE  SubSeq(s, 1, m)[1] = s[1]
OBVIOUS

LEMMA EmptyIs == IsSequence(<<>>) /\ Len(<<>>) = 0 /\ DOMAIN <<>> = {}
BY DEF IsSequence

LEMMA DomainIs ==
    ASSUME NEW s, IsSequence(s)
    PROVE  DOMAIN s = 1..Len(s) /\ Len(s) \in Nat
BY DEF IsSequence

LEMMA Joined ==
    ASSUME NEW T, NEW a \in Seq(T), NEW b \in Seq(T)
    PROVE  /\ a \o b \in Seq(T)
           /\ Len(a \o b) = Len(a) + Len(b)
           /\ \A i \in 1..Len(a) : (a \o b)[i] = a[i]
           /\ \A i \in 1..Len(b) : (a \o b)[Len(a) + i] = b[i]
<1>1. \A i \in 1..Len(a) + Len(b) :
        (a \o b)[i] = IF i <= Len(a) THEN a[i] ELSE b[i - Len(a)]
      BY ConcatProperties
<1>2. Len(a) \in Nat /\ Len(b) \in Nat
      OBVIOUS
<1>3. ASSUME NEW i \in 1..Len(b) PROVE (a \o b)[Len(a) + i] = b[i]
  <2>1. PICK x : x = Len(a) + i
        OBVIOUS
  <2>2. x \in 1..Len(a) + Len(b) /\ ~ (x <= Len(a)) /\ x - Len(a) = i
        BY <1>2, <2>1
  <2>   QED
        BY <1>1, <2>1, <2>2
<1>4. \A i \in 1..Len(a) : i \in 1..Len(a) + Len(b) /\ i <= Len(a)
      BY <1>2
<1>   QED
      BY <1>1, <1>3, <1>4, ConcatProperties

-----------------------------------------------------------------------------
(***************************************************************************)
(* The concatenation of a sequence of sequences.                           *)
(***************************************************************************)

Flat(seqs) ==
    CHOOSE f : f = [i \in 1..Len(seqs) |-> IF i = 1 THEN seqs[i]
                                           ELSE f[i - 1] \o seqs[i]]

LEMMA FlatIs ==
    ASSUME NEW T, NEW seqs \in Seq(Seq(T)), Len(seqs) # 0
    PROVE  /\ Flat(seqs) = [i \in 1..Len(seqs) |-> IF i = 1 THEN seqs[i]
                                                  ELSE Flat(seqs)[i - 1] \o seqs[i]]
           /\ FlattenSeq(seqs) = Flat(seqs)[Len(seqs)]
<1>   DEFINE n == Len(seqs)
             good == [i \in 0..n |-> Seq(T)]
             step == [i \in 1..n |-> [a \in Seq(T) |-> a \o seqs[i]]]
<1>1. n \in Nat /\ n >= 1 /\ \A i \in 1..n : seqs[i] \in Seq(T)
      OBVIOUS
<1>2. \A i \in 1..n : /\ i - 1 \in 0..n /\ i \in 0..n
                      /\ good[i - 1] = Seq(T) /\ good[i] = Seq(T)
      BY <1>1
<1>3. \A i \in 1..n : \A a \in Seq(T) : step[i][a] = a \o seqs[i] /\ a \o seqs[i] \in Seq(T)
      BY <1>1
<1>4. PICK base : base = <<>>
      OBVIOUS
<1>5. PICK g : RunsIn(g, n, base, step, good)
  <2>1. base \in good[0]
        BY <1>1, <1>4
  <2>2. Leads(n, step, good)
    <3>   HIDE DEF good, step
    <3>   QED
          BY <1>2, <1>3 DEF Leads
  <2>3. n \in Nat
        BY <1>1
  <2>   HIDE DEF good, step, n
  <2>   QED
        BY <2>1, <2>2, <2>3, Iterates
<1>6. \A i \in 0..n : g[i] \in Seq(T)
      BY <1>5 DEF RunsIn
<1>7. g[0] = <<>> /\ \A i \in 1..n : g[i] = g[i - 1] \o seqs[i]
  <2>1. g[0] = <<>>
        BY <1>1, <1>4, <1>5 DEF RunsIn
  <2>2. ASSUME NEW i \in 1..n PROVE g[i] = g[i - 1] \o seqs[i]
    <3>1. i # 0 /\ i \in 0..n /\ g[i - 1] \in Seq(T)
          BY <1>1, <1>2, <1>6
    <3>2. g[i] = step[i][g[i - 1]]
          BY <1>5, <3>1 DEF RunsIn
    <3>   HIDE DEF step, n
    <3>   QED
          BY <1>3, <3>1, <3>2
  <2>   QED
        BY <2>1, <2>2
<1>   DEFINE h == [i \in 1..n |-> g[i]]
<1>8. h = [i \in 1..n |-> IF i = 1 THEN seqs[i] ELSE h[i - 1] \o seqs[i]]
  <2>1. ASSUME NEW i \in 1..n
        PROVE  h[i] = IF i = 1 THEN seqs[i] ELSE h[i - 1] \o seqs[i]
    <3>1. h[i] = g[i - 1] \o seqs[i] /\ seqs[i] \in Seq(T)
          BY <1>1, <1>7
    <3>2. CASE i = 1
      <4>1. g[i - 1] = <<>>
            BY <1>7, <3>2
      <4>2. <<>> \o seqs[i] = seqs[i]
            BY <3>1
      <4>   QED
            BY <3>1, <3>2, <4>1, <4>2
    <3>3. CASE i # 1
      <4>1. i - 1 \in 1..n
            BY <1>1, <3>3
      <4>2. h[i - 1] = g[i - 1]
            BY <4>1
      <4>   HIDE DEF h
      <4>   QED
            BY <3>1, <3>3, <4>2
    <3>   HIDE DEF h
    <3>   QED
          BY <3>2, <3>3
  <2>2. h = [i \in 1..n |-> h[i]]
        OBVIOUS
  <2>   HIDE DEF h
  <2>   QED
        BY <2>1, <2>2
<1>9. Flat(seqs) = [i \in 1..n |-> IF i = 1 THEN seqs[i]
                                   ELSE Flat(seqs)[i - 1] \o seqs[i]]
  <2>   HIDE DEF h
  <2>   QED
        BY <1>8 DEF Flat
<1>10. FlattenSeq(seqs) = Flat(seqs)[n]
      BY DEF FlattenSeq, Flat
<1>   QED
      BY <1>9, <1>10

LEMMA FlattenIs ==
    ASSUME NEW T, NEW seqs \in Seq(Seq(T))
    PROVE  FlattenSeq(seqs) \in Seq(T)
<1>1. CASE Len(seqs) = 0
      BY <1>1 DEF FlattenSeq
<1>2. CASE Len(seqs) # 0
  <2>   DEFINE n == Len(seqs)
               P == {i \in 0..n : i = 0 \/ Flat(seqs)[i] \in Seq(T)}
  <2>1. n \in Nat /\ n >= 1 /\ \A i \in 1..n : seqs[i] \in Seq(T)
        BY <1>2
  <2>2. /\ Flat(seqs) = [i \in 1..n |-> IF i = 1 THEN seqs[i]
                                        ELSE Flat(seqs)[i - 1] \o seqs[i]]
        /\ FlattenSeq(seqs) = Flat(seqs)[n]
        BY <1>2, FlatIs
  <2>3. 0 \in P
        BY <2>1
  <2>4. ASSUME NEW i \in 1..n, i - 1 \in P PROVE i \in P
    <3>1. i \in 0..n /\ seqs[i] \in Seq(T)
          BY <2>1
    <3>2. CASE i = 1
          BY <2>2, <3>1, <3>2
    <3>3. CASE i # 1
      <4>1. Flat(seqs)[i - 1] \in Seq(T)
            BY <2>1, <2>4, <3>3
      <4>2. Flat(seqs)[i] = Flat(seqs)[i - 1] \o seqs[i]
            BY <2>2, <3>3
      <4>3. Flat(seqs)[i] \in Seq(T)
            BY <3>1, <4>1, <4>2
      <4>   QED
            BY <3>1, <4>3
    <3>   QED
          BY <3>2, <3>3
  <2>5. n \in P
    <3>1. \A i \in 0..n : i \in P
      <4>   HIDE DEF P, n
      <4>   QED
            BY <2>1, <2>3, <2>4, Stepwise
    <3>   QED
          BY <2>1, <3>1
  <2>   QED
        BY <2>1, <2>2, <2>5
<1>   QED
      BY <1>1, <1>2

=============================================================================
