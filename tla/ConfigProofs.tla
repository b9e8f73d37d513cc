---------------------------- MODULE ConfigProofs ----------------------------
(***************************************************************************)
(* That the parser of webserv.conf reads everything that is closed, for    *)
(* every file: the tokens it has passed over so far and the blocks it has  *)
(* built so far grow together, one semicolon with one directive and one    *)
(* bracket with one block.                                                 *)
(***************************************************************************)
EXTENDS Config, SequenceLemmas, FiniteSetTheorems

-----------------------------------------------------------------------------
LEMMA MinIs ==
    ASSUME NEW T \in SUBSET Nat, T # {}
    PROVE  Min(T) \in T /\ \A y \in T : Min(T) <= y
BY Smallest DEF Min

-----------------------------------------------------------------------------
(***************************************************************************)
(* What is left to parse is a part of the file: Lies(file, s, a, z)        *)
(* says that s is what stands in it from a to z.                           *)
(***************************************************************************)

LEMMA TokensDiffer == Opening # Closing /\ Opening # Semicolon /\ Closing # Semicolon
BY DEF Opening, Closing, Semicolon

IsText(file) == file \in Seq(STRING) /\ \A i \in DOMAIN file : file[i] # Outside[1]

Lies(file, s, a, z) ==
    /\ 1 <= a /\ a <= z + 1 /\ z <= Len(file)
    /\ s = SubSeq(file, a, z)

LEMMA LiesAlong ==
    ASSUME NEW file, IsText(file), NEW s, NEW a \in Nat, NEW z \in Nat, Lies(file, s, a, z)
    PROVE  s \in Seq(STRING) /\ Len(s) = z - a + 1 /\ DOMAIN s = 1..z - a + 1
<1>0. Len(file) \in Nat /\ file \in Seq(STRING)
      BY DEF IsText
<1>1. \A k \in a..z : file[k] \in STRING
      BY <1>0 DEF Lies
<1>2. s \in Seq(STRING) /\ Len(s) = z - a + 1
      BY <1>0, <1>1, SubSeqProperties DEF Lies
<1>   QED
      BY <1>2

LEMMA LiesAt ==
    ASSUME NEW file, IsText(file), NEW s, NEW a \in Nat, NEW z \in Nat, Lies(file, s, a, z)
    PROVE  \A k \in 1..z - a + 1 : s[k] = file[a + k - 1]
<1>0. Len(file) \in Nat /\ file \in Seq(STRING)
      BY DEF IsText
<1>1. \A k \in a..z : file[k] \in STRING
      BY <1>0 DEF Lies
<1>   QED
      BY <1>0, <1>1, SubSeqProperties DEF Lies

LEMMA LiesIs ==
    ASSUME NEW file, IsText(file), NEW s, NEW a \in Nat, NEW z \in Nat, Lies(file, s, a, z)
    PROVE  /\ s \in Seq(STRING) /\ Len(s) = z - a + 1 /\ DOMAIN s = 1..z - a + 1
           /\ \A k \in 1..z - a + 1 : s[k] = file[a + k - 1]
           /\ \A p \in a..z : p - a + 1 \in DOMAIN s /\ s[p - a + 1] = file[p]
           /\ s # Outside
<1>0. Len(file) \in Nat /\ file \in Seq(STRING)
      BY DEF IsText
<1>1. s \in Seq(STRING) /\ Len(s) = z - a + 1 /\ DOMAIN s = 1..z - a + 1
      BY LiesAlong
<1>2. \A k \in 1..z - a + 1 : s[k] = file[a + k - 1]
      BY LiesAt
<1>3. \A p \in a..z : p - a + 1 \in DOMAIN s /\ s[p - a + 1] = file[p]
      BY <1>1, <1>2
<1>4. ASSUME s = Outside PROVE FALSE
  <2>1. Len(s) = 1 /\ s[1] = Outside[1]
        BY <1>4 DEF Outside
  <2>2. z - a + 1 = 1
        BY <1>1, <2>1
  <2>3. s[1] = file[a] /\ a \in DOMAIN file
        BY <1>0, <1>2, <2>2 DEF Lies
  <2>   QED
        BY <2>1, <2>3 DEF IsText
<1>   QED
      BY <1>1, <1>2, <1>3, <1>4

LEMMA PartIs ==
    ASSUME NEW T, NEW s \in Seq(T), NEW i \in Nat, NEW j \in Nat,
           1 <= i, i <= j + 1, j <= Len(s)
    PROVE  /\ SubSeq(s, i, j) \in Seq(T) /\ Len(SubSeq(s, i, j)) = j - i + 1
           /\ \A k \in 1..j - i + 1 : SubSeq(s, i, j)[k] = s[i + k - 1]
<1>1. \A k \in i..j : s[k] \in T
      OBVIOUS
<1>   QED
      BY <1>1, SubSeqProperties

LEMMA PartLies ==
    ASSUME NEW file, IsText(file), NEW s, NEW a \in Nat, NEW z \in Nat, Lies(file, s, a, z),
           NEW b \in Nat, NEW y \in Nat, a <= b, b <= y + 1, y <= z,
           NEW i, NEW j, i = b - a + 1, j = y - a + 1
    PROVE  Lies(file, SubSeq(s, i, j), b, y)
<1>0. Len(file) \in Nat /\ file \in Seq(STRING)
      BY DEF IsText
<1>   DEFINE t == SubSeq(s, i, j)
             u == SubSeq(file, b, y)
<1>1. /\ s \in Seq(STRING) /\ Len(s) = z - a + 1
      /\ \A k \in 1..z - a + 1 : s[k] = file[a + k - 1]
      BY LiesAlong, LiesAt
<1>2. /\ t \in Seq(STRING) /\ Len(t) = y - b + 1
      /\ \A k \in 1..y - b + 1 : t[k] = s[b - a + k]
  <2>1. /\ i \in Nat /\ j \in Nat /\ 1 <= i /\ i <= j + 1 /\ j <= Len(s)
        /\ j - i + 1 = y - b + 1
        BY <1>1
  <2>2. /\ t \in Seq(STRING) /\ Len(t) = j - i + 1
        /\ \A k \in 1..j - i + 1 : t[k] = s[i + k - 1]
        BY <1>1, <2>1, PartIs
  <2>3. \A k \in 1..y - b + 1 : i + k - 1 = b - a + k
        OBVIOUS
  <2>   QED
        BY <2>1, <2>2, <2>3
<1>3. /\ u \in Seq(STRING) /\ Len(u) = y - b + 1
      /\ \A k \in 1..y - b + 1 : u[k] = file[b + k - 1]
  <2>1. \A k \in b..y : file[k] \in STRING
        BY <1>0 DEF Lies
  <2>   QED
        BY <1>0, <2>1, SubSeqProperties DEF Lies
<1>   HIDE DEF t, u
<1>4. ASSUME NEW k \in 1..y - b + 1 PROVE t[k] = u[k]
  <2>1. PICK m : m = b - a + k
        OBVIOUS
  <2>2. m \in 1..z - a + 1 /\ a + m - 1 = b + k - 1
        BY <2>1
  <2>3. t[k] = s[m] /\ s[m] = file[b + k - 1] /\ u[k] = file[b + k - 1]
        BY <1>1, <1>2, <1>3, <2>1, <2>2
  <2>   QED
        BY <2>3
<1>5. t = [k \in 1..y - b + 1 |-> t[k]] /\ u = [k \in 1..y - b + 1 |-> u[k]]
      BY <1>2, <1>3
<1>6. t = u
      BY <1>4, <1>5
<1>   QED
      BY <1>6 DEF Lies, t, u

\* What find_first_of finds stands at q, or nowhere for q = z + 1.
FirstAt(file, s, a, z, T, q) ==
    /\ a <= q /\ q <= z + 1
    /\ FirstOf(s, T) = q - a + 1
    /\ q <= z => file[q] \in T
    /\ \A p \in a..q - 1 : file[p] \notin T

LEMMA FirstIs ==
    ASSUME NEW file, IsText(file), NEW s, NEW a \in Nat, NEW z \in Nat,
           Lies(file, s, a, z), NEW T
    PROVE  \E q \in Nat : FirstAt(file, s, a, z, T, q)
<1>   DEFINE F == {i \in DOMAIN s : s[i] \in T} \cup {Len(s) + 1}
<1>0. /\ Len(s) = z - a + 1 /\ DOMAIN s = 1..z - a + 1
      /\ \A k \in 1..z - a + 1 : s[k] = file[a + k - 1]
      /\ \A p \in a..z : p - a + 1 \in DOMAIN s /\ s[p - a + 1] = file[p]
      BY LiesIs
<1>1. F \in SUBSET Nat /\ F # {}
      BY <1>0 DEF Lies
<1>2. PICK f \in F : f = Min(F) /\ \A i \in F : f <= i
      BY <1>1, MinIs
<1>3. FirstOf(s, T) = f
      BY <1>2 DEF FirstOf
<1>4. f \in 1..z - a + 2
  <2>1. f \in 1..z - a + 1 \/ f = z - a + 1 + 1
        BY <1>0, <1>2
  <2>2. a <= z + 1
        BY DEF Lies
  <2>   QED
        BY <2>1, <2>2
<1>   DEFINE q == f + a - 1
<1>5. q \in Nat /\ a <= q /\ q <= z + 1 /\ f = q - a + 1
      BY <1>4
<1>6. ASSUME q <= z PROVE file[q] \in T
  <2>1. f \in 1..z - a + 1 /\ f # Len(s) + 1
        BY <1>0, <1>4, <1>6
  <2>2. s[f] \in T
        BY <1>2, <2>1
  <2>3. s[f] = file[a + f - 1] /\ q = a + f - 1
        BY <1>0, <1>4, <2>1
  <2>   QED
        BY <2>2, <2>3
<1>7. ASSUME NEW p \in a..q - 1, file[p] \in T PROVE FALSE
  <2>1. p \in a..z /\ p - a + 1 < f
        BY <1>4, <1>5
  <2>2. p - a + 1 \in F
        BY <1>0, <1>7, <2>1
  <2>3. f <= p - a + 1
        BY <1>2, <2>2
  <2>   QED
        BY <1>4, <2>1, <2>3
<1>   HIDE DEF q
<1>   QED
      BY <1>3, <1>5, <1>6, <1>7 DEF FirstAt

\* A closing bracket at m that closes one opened behind a.
Inside(file, a, m) ==
    \E j \in a..m - 1 : file[j] = Opening /\ \A k \in j..m - 1 : file[k] # Closing

LEMMA ClosingsAre ==
    ASSUME NEW file, IsText(file), NEW s, NEW a \in Nat, NEW z \in Nat, Lies(file, s, a, z)
    PROVE  \A p \in a..z :
            p - a + 1 \in Closings(s) <=> file[p] = Closing /\ ~Inside(file, a, p)
<1>0. /\ DOMAIN s = 1..z - a + 1
      /\ \A p \in a..z : p - a + 1 \in DOMAIN s /\ s[p - a + 1] = file[p]
      BY LiesIs
<1>   SUFFICES ASSUME NEW p \in a..z
               PROVE  p - a + 1 \in Closings(s) <=> file[p] = Closing /\ ~Inside(file, a, p)
      OBVIOUS
<1>   PICK x \in Nat : x = p - a + 1
      OBVIOUS
<1>4. s[x] = file[p] /\ x \in DOMAIN s
      BY <1>0
<1>1. ASSUME Inside(file, a, p), x \in Closings(s) PROVE FALSE
  <2>1. PICK j \in a..p - 1 : file[j] = Opening /\ \A k \in j..p - 1 : file[k] # Closing
        BY <1>1 DEF Inside
  <2>2. PICK y \in Nat : y = j - a + 1
        OBVIOUS
  <2>3. j \in a..z /\ y \in 1..x - 1
        BY <2>2
  <2>4. s[y] = Opening
        BY <1>0, <2>1, <2>2, <2>3
  <2>5. PICK m \in y..x - 1 : s[m] = Closing
        BY <1>1, <2>3, <2>4 DEF Closings
  <2>6. PICK k \in Nat : k = m + a - 1
        BY <2>2, <2>3
  <2>7. k \in j..p - 1 /\ k \in a..z /\ k - a + 1 = m
        BY <2>2, <2>6
  <2>8. s[m] = file[k]
        BY <1>0, <2>7
  <2>   QED
        BY <2>1, <2>5, <2>7, <2>8
<1>2. ASSUME file[p] = Closing, ~Inside(file, a, p) PROVE x \in Closings(s)
  <2>1. ASSUME NEW j \in 1..x - 1, s[j] = Opening
        PROVE  \E m \in j..x - 1 : s[m] = Closing
    <3>1. PICK i \in Nat : i = j + a - 1
          OBVIOUS
    <3>2. i \in a..p - 1 /\ i \in a..z /\ i - a + 1 = j
          BY <3>1
    <3>3. file[i] = Opening
          BY <1>0, <2>1, <3>2
    <3>4. PICK k \in i..p - 1 : file[k] = Closing
          BY <1>2, <3>2, <3>3 DEF Inside
    <3>5. k \in a..z /\ k - a + 1 \in j..x - 1
          BY <3>2, <3>1
    <3>   QED
          BY <1>0, <3>4, <3>5
  <2>   QED
        BY <1>2, <1>4, <2>1 DEF Closings
<1>3. x \in Closings(s) => file[p] = Closing
      BY <1>4 DEF Closings
<1>   QED
      BY <1>1, <1>2, <1>3

LEMMA ContentLies ==
    ASSUME NEW file, IsText(file), NEW s, NEW a \in Nat, NEW z \in Nat, Lies(file, s, a, z), HasContent(s)
    PROVE  \E c \in a..z :
            /\ Lies(file, Content(s), a, c - 1) /\ Lies(file, BehindContent(s), c + 1, z)
            /\ file[c] = Closing /\ ~Inside(file, a, c)
            /\ \A m \in a..c - 1 : file[m] = Closing => Inside(file, a, m)
<1>0. Len(s) = z - a + 1 /\ DOMAIN s = 1..z - a + 1
      BY LiesAlong
<1>1. Closings(s) \in SUBSET Nat /\ Closings(s) # {}
  <2>1. Closings(s) \subseteq DOMAIN s
        BY DEF Closings
  <2>   QED
        BY <1>0, <2>1 DEF HasContent
<1>2. PICK f \in Closings(s) : f = Min(Closings(s)) /\ \A i \in Closings(s) : f <= i
      BY <1>1, MinIs
<1>3. f \in 1..z - a + 1
      BY <1>0 DEF Closings
<1>   DEFINE c == f + a - 1
<1>4. c \in a..z /\ f = c - a + 1 /\ f - 1 = c - 1 - a + 1 /\ c - 1 \in Nat
      BY <1>3 DEF Lies
<1>5. \A p \in a..z :
            p - a + 1 \in Closings(s) <=> file[p] = Closing /\ ~Inside(file, a, p)
      BY ClosingsAre
<1>6. file[c] = Closing /\ ~Inside(file, a, c)
      BY <1>2, <1>4, <1>5
<1>7. ASSUME NEW m \in a..c - 1, file[m] = Closing PROVE Inside(file, a, m)
  <2>1. m \in a..z /\ m - a + 1 < f
        BY <1>3
  <2>2. m - a + 1 \notin Closings(s)
        BY <1>2, <1>3, <2>1
  <2>   QED
        BY <1>5, <1>7, <2>1, <2>2
<1>8. Lies(file, Content(s), a, c - 1)
  <2>1. PICK y \in Nat : y = c - 1
        BY <1>4
  <2>2. a <= a /\ a <= y + 1 /\ y <= z /\ a - a + 1 = 1 /\ y - a + 1 = f - 1
        BY <1>4, <2>1
  <2>3. PICK i, j : i = a - a + 1 /\ j = y - a + 1
        OBVIOUS
  <2>4. Lies(file, SubSeq(s, i, j), a, y)
        BY <2>2, <2>3, PartLies
  <2>5. Content(s) = SubSeq(s, i, j)
        BY <1>2, <2>2, <2>3 DEF Content
  <2>   QED
        BY <2>1, <2>4, <2>5
<1>9. Lies(file, BehindContent(s), c + 1, z)
  <2>1. PICK b \in Nat : b = c + 1
        BY <1>4
  <2>2. z <= z /\ a <= b /\ b <= z + 1 /\ b - a + 1 = f + 1
        BY <1>4, <2>1
  <2>3. PICK i, j : i = b - a + 1 /\ j = z - a + 1
        OBVIOUS
  <2>4. Lies(file, SubSeq(s, i, j), b, z)
        BY <2>2, <2>3, PartLies
  <2>5. BehindContent(s) = SubSeq(s, i, j)
        BY <1>0, <1>2, <2>2, <2>3 DEF BehindContent, From
  <2>   QED
        BY <2>1, <2>4, <2>5
<1>   HIDE DEF c
<1>   QED
      BY <1>4, <1>6, <1>7, <1>8, <1>9

LEMMA AfterLies ==
    ASSUME NEW file, IsText(file), NEW s, NEW a \in Nat, NEW z \in Nat, Lies(file, s, a, z),
           NEW T, NEW q \in Nat, a <= q, q <= z, FirstOf(s, T) = q - a + 1
    PROVE  /\ T = {Semicolon} => Lies(file, AfterSemicolon(s), q + 1, z)
           /\ T = {Opening} => Lies(file, AfterBracket(s), q + 1, z)
<1>0. Len(s) = z - a + 1
      BY LiesIs
<1>1. PICK b \in Nat : b = q + 1
      OBVIOUS
<1>2. a <= b /\ b <= z + 1 /\ b - a + 1 = FirstOf(s, T) + 1
      BY <1>1
<1>3. PICK i, j : i = b - a + 1 /\ j = z - a + 1
      OBVIOUS
<1>6. Lies(file, SubSeq(s, i, j), b, z)
  <2>1. z <= z /\ a <= b /\ b <= z + 1
        BY <1>2
  <2>   QED
        BY <2>1, <1>3, PartLies
<1>4. Lies(file, From(s, FirstOf(s, T) + 1), q + 1, z)
      BY <1>0, <1>1, <1>2, <1>3, <1>6 DEF From
<1>5. ~(FirstOf(s, T) > Len(s))
  <2>   ~(q - a + 1 > z - a + 1)
        OBVIOUS
  <2>   QED
        BY <1>0
<1>   QED
      BY <1>4, <1>5 DEF AfterSemicolon, AfterBracket

-----------------------------------------------------------------------------
(***************************************************************************)
(* The server blocks and what they hold.                                   *)
(***************************************************************************)

IsLocation(l) == \E p, d : l = [path |-> p, dirs |-> d] /\ IsSequence(d)

IsServer(s) ==
    \E d, l : /\ s = [dirs |-> d, locs |-> l]
              /\ IsSequence(d) /\ IsSequence(l)
              /\ \A i \in 1..Len(l) : IsLocation(l[i])

AreServers(ss) == IsSequence(ss) /\ \A i \in 1..Len(ss) : IsServer(ss[i])

AreFinite(ss) == IsFiniteSet(Blocks(ss)) /\ IsFiniteSet(Directives(ss))

\* tt is the n blocks ss and behind them s, which has k locations.
Appended(ss, s, tt, n, k) ==
    /\ AreServers(tt)
    /\ Blocks(tt) = Blocks(ss) \cup ({n + 1} \X (0..k))
    /\ \A b \in Blocks(ss) : b[1] # n + 1 /\ BlockDirs(tt, b) = BlockDirs(ss, b)
    /\ \A l \in 0..k :
        BlockDirs(tt, <<n + 1, l>>) = IF l = 0 THEN s.dirs ELSE s.locs[l].dirs

LEMMA BlocksAppended ==
    ASSUME NEW ss, NEW s, AreServers(ss), IsServer(s), NEW tt, tt = Append(ss, s),
           NEW n \in Nat, n = Len(ss), NEW k \in Nat, k = Len(s.locs)
    PROVE  Appended(ss, s, tt, n, k)
<1>1. /\ IsSequence(tt) /\ Len(tt) = n + 1
      /\ \A i \in 1..n : tt[i] = ss[i]
      /\ tt[n + 1] = s
      BY AppendIs DEF AreServers
<1>2. DOMAIN ss = 1..n /\ DOMAIN tt = 1..n + 1
      BY <1>1 DEF AreServers, IsSequence
<1>3. AreServers(tt)
  <2>1. ASSUME NEW i \in 1..n + 1 PROVE IsServer(tt[i])
    <3>1. i \in 1..n \/ i = n + 1
          OBVIOUS
    <3>   QED
          BY <1>1, <3>1 DEF AreServers
  <2>   QED
        BY <1>1, <2>1 DEF AreServers
<1>4. DOMAIN tt = DOMAIN ss \cup {n + 1} /\ n + 1 \notin DOMAIN ss
      BY <1>2
<1>5. Blocks(tt) = Blocks(ss) \cup ({n + 1} \X (0..Len(s.locs)))
  <2>1. \A i \in DOMAIN ss : {i} \X (0..Len(tt[i].locs)) = {i} \X (0..Len(ss[i].locs))
        BY <1>1, <1>2
  <2>2. {n + 1} \X (0..Len(tt[n + 1].locs)) = {n + 1} \X (0..Len(s.locs))
        BY <1>1
  <2>   QED
        BY <1>4, <2>1, <2>2 DEF Blocks
<1>6. ASSUME NEW b \in Blocks(ss)
      PROVE  b[1] # n + 1 /\ BlockDirs(tt, b) = BlockDirs(ss, b)
  <2>1. b[1] \in DOMAIN ss
        BY DEF Blocks
  <2>2. tt[b[1]] = ss[b[1]] /\ b[1] # n + 1
        BY <1>1, <1>2, <1>4, <2>1
  <2>   QED
        BY <2>2 DEF BlockDirs
<1>7. ASSUME NEW l \in 0..Len(s.locs)
      PROVE  BlockDirs(tt, <<n + 1, l>>) = IF l = 0 THEN s.dirs ELSE s.locs[l].dirs
      BY <1>1 DEF BlockDirs
<1>   QED
      BY <1>3, <1>5, <1>6, <1>7 DEF Appended

\* What one turn of a loop of the parser adds to what is built.
AddsBlock(ss, tt) ==
    /\ AreServers(tt) /\ AreFinite(tt)
    /\ Cardinality(Blocks(tt)) = Cardinality(Blocks(ss)) + 1
    /\ Cardinality(Directives(tt)) = Cardinality(Directives(ss))

AddsDirective(ss, tt) ==
    /\ AreServers(tt) /\ AreFinite(tt)
    /\ Cardinality(Blocks(tt)) = Cardinality(Blocks(ss))
    /\ Cardinality(Directives(tt)) = Cardinality(Directives(ss)) + 1

LEMMA BlockAdded ==
    ASSUME NEW ss, NEW tt, NEW b, b \notin Blocks(ss), AreFinite(ss), AreServers(tt),
           Blocks(tt) = Blocks(ss) \cup {b}, DOMAIN BlockDirs(tt, b) = {},
           \A c \in Blocks(ss) : BlockDirs(tt, c) = BlockDirs(ss, c)
    PROVE  AddsBlock(ss, tt)
<1>1. Directives(tt) = Directives(ss)
      BY DEF Directives
<1>2. IsFiniteSet(Blocks(tt)) /\ Cardinality(Blocks(tt)) = Cardinality(Blocks(ss)) + 1
      BY FS_AddElement DEF AreFinite
<1>   QED
      BY <1>1, <1>2 DEF AreFinite, AddsBlock

LEMMA DirectiveAdded ==
    ASSUME NEW ss, NEW tt, NEW b \in Blocks(ss), NEW k, AreFinite(ss), AreServers(tt),
           k \notin DOMAIN BlockDirs(ss, b), Blocks(tt) = Blocks(ss),
           DOMAIN BlockDirs(tt, b) = DOMAIN BlockDirs(ss, b) \cup {k},
           \A c \in Blocks(ss) \ {b} : BlockDirs(tt, c) = BlockDirs(ss, c)
    PROVE  AddsDirective(ss, tt)
<1>1. Directives(tt) = Directives(ss) \cup {<<b, k>>} /\ <<b, k>> \notin Directives(ss)
      BY DEF Directives
<1>2. IsFiniteSet(Directives(tt))
      /\ Cardinality(Directives(tt)) = Cardinality(Directives(ss)) + 1
      BY <1>1, FS_AddElement DEF AreFinite
<1>   QED
      BY <1>1, <1>2 DEF AreFinite, AddsDirective

LEMMA ServerAdded ==
    ASSUME NEW ss, AreServers(ss), AreFinite(ss), NEW d, NEW l, NEW s,
           d = <<>>, l = <<>>, s = [dirs |-> d, locs |-> l]
    PROVE  AddsBlock(ss, Append(ss, s))
<1>   PICK n \in Nat : n = Len(ss)
      BY DEF AreServers, IsSequence
<1>   PICK b : b = <<n + 1, 0>>
      OBVIOUS
<1>   PICK tt : tt = Append(ss, s)
      OBVIOUS
<1>1. IsServer(s) /\ s.locs = l /\ s.dirs = d /\ 0..Len(l) = {0}
      BY EmptyIs DEF IsServer
<1>8. PICK k \in Nat : k = 0 /\ k = Len(l)
      BY EmptyIs
<1>2. /\ AreServers(tt)
      /\ Blocks(tt) = Blocks(ss) \cup ({n + 1} \X {0})
      /\ \A c \in Blocks(ss) : c[1] # n + 1 /\ BlockDirs(tt, c) = BlockDirs(ss, c)
      /\ \A i \in {0} : BlockDirs(tt, <<n + 1, i>>) = IF i = 0 THEN d ELSE l[i].dirs
  <2>1. Appended(ss, s, tt, n, k)
    <3>1. k = Len(s.locs)
          BY <1>1, <1>8
    <3>   QED
          BY <1>1, <3>1, BlocksAppended
  <2>2. 0..k = {0}
        BY <1>8
  <2>   QED
        BY <1>1, <2>1, <2>2 DEF Appended
<1>3. {n + 1} \X {0} = {b} /\ b[1] = n + 1
      OBVIOUS
<1>4. Blocks(tt) = Blocks(ss) \cup {b} /\ b \notin Blocks(ss)
      BY <1>2, <1>3
<1>5. DOMAIN BlockDirs(tt, b) = {}
      BY <1>2, EmptyIs
<1>6. AreServers(tt) /\ \A c \in Blocks(ss) : BlockDirs(tt, c) = BlockDirs(ss, c)
      BY <1>2
<1>7. AddsBlock(ss, tt)
      BY <1>4, <1>5, <1>6, BlockAdded
<1>   QED
      BY <1>7

LEMMA LocationAdded ==
    ASSUME NEW ss, AreServers(ss), NEW d, NEW l, NEW m, NEW s, NEW t,
           IsServer(s), s = [dirs |-> d, locs |-> l], AreFinite(Append(ss, s)),
           NEW p, NEW e, e = <<>>, m = [path |-> p, dirs |-> e],
           t = [dirs |-> d, locs |-> Append(l, m)]
    PROVE  AddsBlock(Append(ss, s), Append(ss, t))
<1>   PICK n \in Nat : n = Len(ss)
      BY DEF AreServers, IsSequence
<1>   PICK tt, uu : tt = Append(ss, s) /\ uu = Append(ss, t)
      OBVIOUS
<1>1. /\ IsSequence(d) /\ IsSequence(l) /\ \A i \in 1..Len(l) : IsLocation(l[i])
      BY DEF IsServer
<1>   PICK k \in Nat : k = Len(l)
      BY <1>1 DEF IsSequence
<1>   PICK j \in Nat : j = k + 1
      OBVIOUS
<1>   PICK b : b = <<n + 1, j>>
      OBVIOUS
<1>   PICK r : r = Append(l, m)
      OBVIOUS
<1>2. /\ IsSequence(r) /\ Len(r) = k + 1
      /\ \A i \in 1..k : r[i] = l[i]
      /\ r[k + 1] = m
      BY <1>1, AppendIs
<1>3. IsServer(t)
  <2>1. ASSUME NEW i \in 1..k + 1 PROVE IsLocation(r[i])
    <3>1. i \in 1..k \/ i = k + 1
          OBVIOUS
    <3>2. IsLocation(m)
          BY EmptyIs DEF IsLocation
    <3>   QED
          BY <1>1, <1>2, <3>1, <3>2
  <2>   QED
        BY <1>1, <1>2, <2>1 DEF IsServer
<1>4. s.dirs = d /\ s.locs = l /\ t.dirs = d /\ t.locs = r
      OBVIOUS
<1>5. /\ AreServers(tt)
      /\ Blocks(tt) = Blocks(ss) \cup ({n + 1} \X (0..k))
      /\ \A c \in Blocks(ss) : c[1] # n + 1 /\ BlockDirs(tt, c) = BlockDirs(ss, c)
      /\ \A i \in 0..k : BlockDirs(tt, <<n + 1, i>>) = IF i = 0 THEN d ELSE l[i].dirs
  <2>1. k = Len(s.locs)
        BY <1>4
  <2>2. Appended(ss, s, tt, n, k)
        BY <2>1, BlocksAppended
  <2>   QED
        BY <1>4, <2>2 DEF Appended
<1>6. /\ AreServers(uu)
      /\ Blocks(uu) = Blocks(ss) \cup ({n + 1} \X (0..j))
      /\ \A c \in Blocks(ss) : c[1] # n + 1 /\ BlockDirs(uu, c) = BlockDirs(ss, c)
      /\ \A i \in 0..j : BlockDirs(uu, <<n + 1, i>>) = IF i = 0 THEN d ELSE r[i].dirs
  <2>1. j = Len(t.locs)
        BY <1>2, <1>4
  <2>2. Appended(ss, t, uu, n, j)
        BY <1>3, <2>1, BlocksAppended
  <2>   QED
        BY <1>4, <2>2 DEF Appended
<1>7. 0..j = (0..k) \cup {j} /\ j \notin 0..k
      OBVIOUS
<1>8. Blocks(uu) = Blocks(tt) \cup {b} /\ b \notin Blocks(tt)
  <2>1. {n + 1} \X (0..j) = ({n + 1} \X (0..k)) \cup {b}
        BY <1>7
  <2>2. b \notin {n + 1} \X (0..k) /\ b[1] = n + 1
        BY <1>7
  <2>   QED
        BY <1>5, <1>6, <2>1, <2>2
<1>9. DOMAIN BlockDirs(uu, b) = {}
  <2>1. j \in 0..j /\ j # 0 /\ r[j] = m /\ m.dirs = <<>>
        BY <1>2
  <2>2. BlockDirs(uu, b) = <<>>
        BY <1>6, <2>1
  <2>   QED
        BY <2>2, EmptyIs
<1>10. ASSUME NEW c \in Blocks(tt) PROVE BlockDirs(uu, c) = BlockDirs(tt, c)
  <2>1. CASE c \in Blocks(ss)
        BY <1>5, <1>6, <2>1
  <2>2. CASE c \notin Blocks(ss)
    <3>1. PICK i \in 0..k : c = <<n + 1, i>>
          BY <1>5, <2>2
    <3>2. i \in 0..j /\ (i # 0 => r[i].dirs = l[i].dirs)
          BY <1>2
    <3>3. BlockDirs(tt, c) = IF i = 0 THEN d ELSE l[i].dirs
          BY <1>5, <3>1
    <3>4. BlockDirs(uu, c) = IF i = 0 THEN d ELSE r[i].dirs
          BY <1>6, <3>1, <3>2
    <3>   QED
          BY <3>2, <3>3, <3>4
  <2>   QED
        BY <2>1, <2>2
<1>11. AreServers(uu) /\ AreFinite(tt)
       BY <1>6
<1>12. AddsBlock(tt, uu)
       BY <1>8, <1>9, <1>10, <1>11, BlockAdded
<1>   QED
      BY <1>12

Listed(s, k, f) ==
    /\ k = Len(s.locs)
    /\ \A i \in 0..k : f[i] = IF i = 0 THEN s.dirs ELSE s.locs[i].dirs

\* s and t differ in one more directive, of the server block itself for j = 0
\* and else of its j-th location.
LEMMA OneMore ==
    ASSUME NEW ss, AreServers(ss), NEW s, NEW t, IsServer(s), IsServer(t),
           AreFinite(Append(ss, s)), NEW k \in Nat, NEW f, NEW g,
           Listed(s, k, f), Listed(t, k, g), NEW j \in 0..k, NEW x,
           IsSequence(f[j]), g[j] = Append(f[j], x), \A i \in (0..k) \ {j} : g[i] = f[i]
    PROVE  AddsDirective(Append(ss, s), Append(ss, t))
<1>   PICK n \in Nat : n = Len(ss)
      BY DEF AreServers, IsSequence
<1>   PICK tt, uu : tt = Append(ss, s) /\ uu = Append(ss, t)
      OBVIOUS
<1>   PICK b : b = <<n + 1, j>>
      OBVIOUS
<1>1. /\ AreServers(tt)
      /\ Blocks(tt) = Blocks(ss) \cup ({n + 1} \X (0..k))
      /\ \A c \in Blocks(ss) : c[1] # n + 1 /\ BlockDirs(tt, c) = BlockDirs(ss, c)
      /\ \A i \in 0..k : BlockDirs(tt, <<n + 1, i>>) = f[i]
  <2>1. Appended(ss, s, tt, n, k)
        BY BlocksAppended DEF Listed
  <2>   QED
        BY <2>1 DEF Appended, Listed
<1>2. /\ AreServers(uu)
      /\ Blocks(uu) = Blocks(ss) \cup ({n + 1} \X (0..k))
      /\ \A c \in Blocks(ss) : c[1] # n + 1 /\ BlockDirs(uu, c) = BlockDirs(ss, c)
      /\ \A i \in 0..k : BlockDirs(uu, <<n + 1, i>>) = g[i]
  <2>1. Appended(ss, t, uu, n, k)
        BY BlocksAppended DEF Listed
  <2>   QED
        BY <2>1 DEF Appended, Listed
<1>   PICK h \in Nat : h = Len(f[j])
      BY DEF IsSequence
<1>3. DOMAIN f[j] = 1..h /\ DOMAIN g[j] = 1..h + 1
  <2>1. IsSequence(g[j]) /\ Len(g[j]) = h + 1
        BY AppendIs
  <2>   QED
        BY <2>1, DomainIs
<1>4. b \in Blocks(tt) /\ Blocks(uu) = Blocks(tt)
      BY <1>1, <1>2
<1>5. BlockDirs(tt, b) = f[j] /\ BlockDirs(uu, b) = g[j]
      BY <1>1, <1>2
<1>6. /\ h + 1 \notin DOMAIN BlockDirs(tt, b)
      /\ DOMAIN BlockDirs(uu, b) = DOMAIN BlockDirs(tt, b) \cup {h + 1}
  <2>1. 1..h + 1 = (1..h) \cup {h + 1} /\ h + 1 \notin 1..h
        OBVIOUS
  <2>   QED
        BY <1>3, <1>5, <2>1
<1>7. ASSUME NEW c \in Blocks(tt) \ {b} PROVE BlockDirs(uu, c) = BlockDirs(tt, c)
  <2>1. CASE c \in Blocks(ss)
        BY <1>1, <1>2, <2>1
  <2>2. CASE c \notin Blocks(ss)
    <3>1. PICK i \in 0..k : c = <<n + 1, i>>
          BY <1>1, <2>2
    <3>2. i \in (0..k) \ {j}
          BY <3>1
    <3>3. BlockDirs(tt, c) = f[i] /\ BlockDirs(uu, c) = g[i]
          BY <1>1, <1>2, <3>1
    <3>   QED
          BY <3>2, <3>3
  <2>   QED
        BY <2>1, <2>2
<1>8. AreServers(uu) /\ AreFinite(tt)
      BY <1>2
<1>9. PICK m : m = h + 1
      OBVIOUS
<1>10. AddsDirective(tt, uu)
       BY <1>4, <1>6, <1>7, <1>8, <1>9, DirectiveAdded
<1>   QED
      BY <1>10

LEMMA ServerDirectiveAdded ==
    ASSUME NEW ss, AreServers(ss), NEW d, NEW l, NEW s, NEW t, NEW x,
           IsServer(s), s = [dirs |-> d, locs |-> l], AreFinite(Append(ss, s)),
           t = [dirs |-> Append(d, x), locs |-> l]
    PROVE  IsServer(t) /\ AddsDirective(Append(ss, s), Append(ss, t))
<1>1. /\ IsSequence(d) /\ IsSequence(l) /\ \A i \in 1..Len(l) : IsLocation(l[i])
      BY DEF IsServer
<1>2. IsSequence(Append(d, x))
      BY <1>1, AppendIs
<1>3. IsServer(t)
      BY <1>1, <1>2 DEF IsServer
<1>   PICK k \in Nat : k = Len(l)
      BY <1>1 DEF IsSequence
<1>4. s.dirs = d /\ s.locs = l /\ t.dirs = Append(d, x) /\ t.locs = l
      OBVIOUS
<1>5. PICK f, g : /\ f = [i \in 0..k |-> IF i = 0 THEN s.dirs ELSE s.locs[i].dirs]
                  /\ g = [i \in 0..k |-> IF i = 0 THEN t.dirs ELSE t.locs[i].dirs]
      OBVIOUS
<1>6. /\ \A i \in 0..k : f[i] = IF i = 0 THEN s.dirs ELSE s.locs[i].dirs
      /\ \A i \in 0..k : g[i] = IF i = 0 THEN t.dirs ELSE t.locs[i].dirs
      BY <1>5
<1>7. PICK j \in 0..k : j = 0
      OBVIOUS
<1>8. f[j] = d /\ g[j] = Append(f[j], x) /\ \A i \in (0..k) \ {j} : g[i] = f[i]
      BY <1>4, <1>6, <1>7
<1>9. k = Len(s.locs) /\ k = Len(t.locs) /\ IsSequence(f[j])
      BY <1>1, <1>4, <1>8
<1>10. Listed(s, k, f) /\ Listed(t, k, g)
       BY <1>6, <1>9 DEF Listed
<1>11. IsSequence(f[j]) /\ g[j] = Append(f[j], x) /\ \A i \in (0..k) \ {j} : g[i] = f[i]
      BY <1>8, <1>9
<1>12. k \in Nat /\ j \in 0..k /\ AreServers(ss) /\ IsServer(s) /\ AreFinite(Append(ss, s))
      OBVIOUS
<1>13. AddsDirective(Append(ss, s), Append(ss, t))
      BY ONLY <1>3, <1>10, <1>11, <1>12, OneMore
<1>   QED
      BY <1>3, <1>13

LEMMA LocationDirectiveAdded ==
    ASSUME NEW ss, AreServers(ss), NEW d, NEW l, NEW s, NEW t, NEW x, NEW p, NEW e,
           IsServer([dirs |-> d, locs |-> l]), IsSequence(e),
           s = [dirs |-> d, locs |-> Append(l, [path |-> p, dirs |-> e])],
           t = [dirs |-> d, locs |-> Append(l, [path |-> p, dirs |-> Append(e, x)])],
           AreFinite(Append(ss, s))
    PROVE  AddsDirective(Append(ss, s), Append(ss, t))
<1>1. /\ IsSequence(d) /\ IsSequence(l) /\ \A i \in 1..Len(l) : IsLocation(l[i])
      BY DEF IsServer
<1>   PICK h \in Nat : h = Len(l)
      BY <1>1 DEF IsSequence
<1>   PICK k \in Nat : k = h + 1
      OBVIOUS
<1>   PICK m, o : /\ m = [path |-> p, dirs |-> e]
                  /\ o = [path |-> p, dirs |-> Append(e, x)]
      OBVIOUS
<1>   PICK q, r : q = Append(l, m) /\ r = Append(l, o)
      OBVIOUS
<1>2. /\ IsSequence(q) /\ Len(q) = k /\ q[k] = m
      /\ IsSequence(r) /\ Len(r) = k /\ r[k] = o
      /\ \A i \in 1..h : q[i] = l[i] /\ r[i] = l[i]
      BY <1>1, AppendIs
<1>3. IsLocation(m) /\ IsLocation(o)
      BY AppendIs DEF IsLocation
<1>4. IsServer(s) /\ IsServer(t)
  <2>1. ASSUME NEW i \in 1..k PROVE IsLocation(q[i]) /\ IsLocation(r[i])
    <3>1. i \in 1..h \/ i = k
          OBVIOUS
    <3>   QED
          BY <1>1, <1>2, <1>3, <3>1
  <2>   QED
        BY <1>1, <1>2, <2>1 DEF IsServer
<1>5. s.dirs = d /\ s.locs = q /\ t.dirs = d /\ t.locs = r
      OBVIOUS
<1>6. PICK f, g : /\ f = [i \in 0..k |-> IF i = 0 THEN s.dirs ELSE s.locs[i].dirs]
                  /\ g = [i \in 0..k |-> IF i = 0 THEN t.dirs ELSE t.locs[i].dirs]
      OBVIOUS
<1>7. /\ \A i \in 0..k : f[i] = IF i = 0 THEN s.dirs ELSE s.locs[i].dirs
      /\ \A i \in 0..k : g[i] = IF i = 0 THEN t.dirs ELSE t.locs[i].dirs
      BY <1>6
<1>8. k \in 0..k /\ k # 0 /\ m.dirs = e /\ o.dirs = Append(e, x)
      OBVIOUS
<1>9. f[k] = e /\ g[k] = Append(f[k], x)
  <2>1. s.locs[k] = m /\ t.locs[k] = o
        BY <1>2, <1>5
  <2>   QED
        BY <1>7, <1>8, <2>1
<1>10. ASSUME NEW i \in (0..k) \ {k} PROVE g[i] = f[i]
  <2>1. i = 0 \/ i \in 1..h
        OBVIOUS
  <2>   QED
        BY <1>2, <1>5, <1>7, <2>1
<1>11. k = Len(s.locs) /\ k = Len(t.locs) /\ IsSequence(f[k])
       BY <1>2, <1>5, <1>9
<1>12. Listed(s, k, f) /\ Listed(t, k, g)
       BY <1>7, <1>11 DEF Listed
<1>13. PICK j \in 0..k : j = k
       BY <1>8
<1>14. IsSequence(f[j]) /\ g[j] = Append(f[j], x) /\ \A i \in (0..k) \ {j} : g[i] = f[i]
       BY <1>9, <1>10, <1>11, <1>13
<1>15. k \in Nat /\ j \in 0..k /\ AreServers(ss) /\ AreFinite(Append(ss, s))
       OBVIOUS
<1>   QED
      BY ONLY <1>4, <1>12, <1>14, <1>15, OneMore

-----------------------------------------------------------------------------
(***************************************************************************)
(* The tokens that have been passed over, and what stands for them.        *)
(***************************************************************************)

OfToken(file, R, token) == {p \in R : file[p] = token}

\* ss holds a directive for every semicolon among the positions R and a block
\* for every bracket.
Counted(file, R, ss) ==
    /\ AreServers(ss) /\ AreFinite(ss) /\ IsFiniteSet(R)
    /\ Cardinality(OfToken(file, R, Semicolon)) = Cardinality(Directives(ss))
    /\ Cardinality(OfToken(file, R, Opening)) = Cardinality(Blocks(ss))

LEMMA OneRead ==
    ASSUME NEW file, NEW R, NEW Q, NEW token, R \subseteq Q, IsFiniteSet(R),
           NEW q \in Q \ R, file[q] = token, \A p \in Q \ R : p # q => file[p] # token
    PROVE  Cardinality(OfToken(file, Q, token)) = Cardinality(OfToken(file, R, token)) + 1
<1>1. OfToken(file, Q, token) = OfToken(file, R, token) \cup {q}
      BY DEF OfToken
<1>2. q \notin OfToken(file, R, token) /\ OfToken(file, R, token) \in SUBSET R
      BY DEF OfToken
<1>3. IsFiniteSet(OfToken(file, R, token))
      BY <1>2, FS_Subset
<1>   QED
      BY <1>1, <1>2, <1>3, FS_AddElement

LEMMA NoneRead ==
    ASSUME NEW file, NEW R, NEW Q, NEW token, R \subseteq Q,
           \A p \in Q \ R : file[p] # token
    PROVE  OfToken(file, Q, token) = OfToken(file, R, token)
BY DEF OfToken

LEMMA DirectiveCounted ==
    ASSUME NEW file, NEW R, NEW Q, NEW ss, NEW tt, Counted(file, R, ss),
           AddsDirective(ss, tt), R \subseteq Q, IsFiniteSet(Q),
           NEW q \in Q \ R, file[q] = Semicolon,
           \A p \in Q \ R : p # q => file[p] \notin {Opening, Semicolon}
    PROVE  Counted(file, Q, tt)
<1>1. Cardinality(OfToken(file, Q, Semicolon)) = Cardinality(OfToken(file, R, Semicolon)) + 1
  <2>1. PICK token : token = Semicolon
        OBVIOUS
  <2>2. file[q] = token /\ \A p \in Q \ R : p # q => file[p] # token
        BY <2>1
  <2>3. Cardinality(OfToken(file, Q, token)) = Cardinality(OfToken(file, R, token)) + 1
    <3>1. IsFiniteSet(R) /\ R \subseteq Q /\ q \in Q \ R
          BY DEF Counted
    <3>   QED
          BY ONLY <2>2, <3>1, OneRead
  <2>   QED
        BY <2>1, <2>3
<1>2. OfToken(file, Q, Opening) = OfToken(file, R, Opening)
  <2>1. \A p \in Q \ R : file[p] # Opening
        BY TokensDiffer
  <2>   QED
        BY <2>1, NoneRead
<1>   QED
      BY <1>1, <1>2 DEF Counted, AddsDirective

LEMMA BlockCounted ==
    ASSUME NEW file, NEW R, NEW Q, NEW ss, NEW tt, Counted(file, R, ss),
           AddsBlock(ss, tt), R \subseteq Q, IsFiniteSet(Q),
           NEW q \in Q \ R, file[q] = Opening,
           \A p \in Q \ R : p # q => file[p] \notin {Opening, Semicolon}
    PROVE  Counted(file, Q, tt)
<1>1. Cardinality(OfToken(file, Q, Opening)) = Cardinality(OfToken(file, R, Opening)) + 1
  <2>1. PICK token : token = Opening
        OBVIOUS
  <2>2. file[q] = token /\ \A p \in Q \ R : p # q => file[p] # token
        BY <2>1
  <2>3. Cardinality(OfToken(file, Q, token)) = Cardinality(OfToken(file, R, token)) + 1
    <3>1. IsFiniteSet(R) /\ R \subseteq Q /\ q \in Q \ R
          BY DEF Counted
    <3>   QED
          BY ONLY <2>2, <3>1, OneRead
  <2>   QED
        BY <2>1, <2>3
<1>2. OfToken(file, Q, Semicolon) = OfToken(file, R, Semicolon)
  <2>1. \A p \in Q \ R : file[p] # Semicolon
        BY TokensDiffer
  <2>   QED
        BY <2>1, NoneRead
<1>   QED
      BY <1>1, <1>2 DEF Counted, AddsBlock

LEMMA NothingCounted ==
    ASSUME NEW file, NEW R, NEW Q, NEW ss, Counted(file, R, ss), R \subseteq Q,
           IsFiniteSet(Q), \A p \in Q \ R : file[p] \notin {Opening, Semicolon}
    PROVE  Counted(file, Q, ss)
<1>1. OfToken(file, Q, Opening) = OfToken(file, R, Opening)
  <2>1. \A p \in Q \ R : file[p] # Opening
        OBVIOUS
  <2>   QED
        BY <2>1, NoneRead
<1>2. OfToken(file, Q, Semicolon) = OfToken(file, R, Semicolon)
  <2>1. \A p \in Q \ R : file[p] # Semicolon
        OBVIOUS
  <2>   QED
        BY <2>1, NoneRead
<1>   QED
      BY <1>1, <1>2 DEF Counted

\* What has been passed over: what stands before r, but for the rest of a
\* server block from b to c and that of a location block from i to j.
ReadUpTo(r, b, c, i, j) == {p \in 1..r - 1 : p \notin b..c /\ p \notin i..j}

LEMMA ReadFinite ==
    ASSUME NEW r \in Nat, NEW b, NEW c, NEW i, NEW j
    PROVE  IsFiniteSet(ReadUpTo(r, b, c, i, j))
<1>1. ReadUpTo(r, b, c, i, j) \in SUBSET (1..r - 1)
      BY DEF ReadUpTo
<1>2. PICK n \in Int : n = r - 1
      OBVIOUS
<1>3. PICK o \in Int : o = 1
      OBVIOUS
<1>4. IsFiniteSet(o..n)
      BY FS_Interval
<1>   QED
      BY <1>1, <1>2, <1>3, <1>4, FS_Subset

-----------------------------------------------------------------------------
(***************************************************************************)
(* The invariant of the parser, of a file without directives ended by a    *)
(* bracket.  In what is left of a server block every closing bracket has   *)
(* an opening one before it, so that no bracket is left in a location      *)
(* block: extract_bracket_content counts nothing, and yet it finds the     *)
(* bracket that closes the block.                                          *)
(***************************************************************************)

\* The server blocks with the one being built and its location.
Under ==
    IF block = Outside THEN servers
    ELSE Append(servers,
                IF inner = Outside THEN server
                ELSE [dirs |-> server.dirs, locs |-> Append(server.locs, location)])

At(r, b, c, i, j) ==
    /\ Lies(text, rest, r, Len(text))
    /\ IF block = Outside THEN b = 1 /\ c = 0
       ELSE Lies(text, block, b, c) /\ c < r /\ IsServer(server)
    /\ IF inner = Outside THEN i = 1 /\ j = 0
       ELSE block # Outside /\ Lies(text, inner, i, j) /\ j < b /\ IsLocation(location)
    /\ \A m \in b..c : text[m] = Closing => Inside(text, b, m)
    /\ \A m \in i..j : text[m] # Opening
    /\ AreServers(servers)
    /\ Counted(text, ReadUpTo(r, b, c, i, j), Under)

Reading == \E r, b, c, i, j \in Nat : At(r, b, c, i, j)

CInv ==
    /\ IsText(text)
    /\ phase \in {"read", "parse", "validate"} /\ ~EndedByBracket => Reading
    /\ phase = "validate" => /\ block = Outside
                             /\ FirstOf(rest, {Opening, Semicolon}) > Len(rest)

LEMMA CInitially == Init => CInv
<1>   SUFFICES ASSUME Init PROVE CInv
      OBVIOUS
<1>1. IsText(text)
      BY TextsAssumption DEF Init, IsText
<1>2. PICK r, b, c \in Nat : r = 1 /\ b = 1 /\ c = 0
      OBVIOUS
<1>3. Lies(text, rest, r, Len(text))
  <2>1. text \in Seq(STRING) /\ Len(text) \in Nat
        BY <1>1 DEF IsText
  <2>2. SubSeq(text, 1, Len(text)) = text
        BY <2>1
  <2>   QED
        BY <1>2, <2>1, <2>2 DEF Init, Lies
<1>4. ReadUpTo(r, b, c, b, c) = {}
      BY <1>2 DEF ReadUpTo
<1>5. Under = <<>> /\ servers = <<>>
      BY DEF Init, Under
<1>6. AreServers(<<>>) /\ Blocks(<<>>) = {} /\ Directives(<<>>) = {}
      BY EmptyIs DEF AreServers, Blocks, Directives
<1>7. Counted(text, ReadUpTo(r, b, c, b, c), Under)
  <2>1. OfToken(text, {}, Semicolon) = {} /\ OfToken(text, {}, Opening) = {}
        BY DEF OfToken
  <2>   QED
        BY <1>4, <1>5, <1>6, <2>1, FS_EmptySet DEF Counted, AreFinite
<1>8. At(r, b, c, b, c)
      BY <1>2, <1>3, <1>5, <1>6, <1>7 DEF At, Init
<1>   QED
      BY <1>1, <1>2, <1>8 DEF CInv, Reading, Init

-----------------------------------------------------------------------------
(***************************************************************************)
(* One turn of a loop.                                                     *)
(***************************************************************************)

LEMMA TokenAt ==
    ASSUME NEW file, IsText(file), NEW s, NEW a \in Nat, NEW z \in Nat,
           Lies(file, s, a, z), NEW T, FirstOf(s, T) <= Len(s)
    PROVE  \E q \in a..z :
            /\ FirstOf(s, T) = q - a + 1 /\ file[q] \in T
            /\ \A p \in a..q - 1 : file[p] \notin T
<1>1. PICK q \in Nat : FirstAt(file, s, a, z, T, q)
      BY FirstIs
<1>2. q - a + 1 <= z - a + 1
  <2>1. Len(s) = z - a + 1
        BY LiesIs
  <2>   QED
        BY <1>1, <2>1 DEF FirstAt
<1>3. q \in a..z
      BY <1>1, <1>2 DEF FirstAt
<1>   QED
      BY <1>1, <1>3 DEF FirstAt

LEMMA NoTokenIn ==
    ASSUME NEW file, IsText(file), NEW s, NEW a \in Nat, NEW z \in Nat,
           Lies(file, s, a, z), NEW T, FirstOf(s, T) > Len(s)
    PROVE  \A p \in a..z : file[p] \notin T
<1>1. PICK q \in Nat : FirstAt(file, s, a, z, T, q)
      BY FirstIs
<1>2. q - a + 1 > z - a + 1
  <2>1. Len(s) = z - a + 1
        BY LiesIs
  <2>   QED
        BY <1>1, <2>1 DEF FirstAt
<1>3. \A p \in a..z : p \in a..q - 1
      BY <1>1, <1>2 DEF FirstAt
<1>   QED
      BY <1>1, <1>3 DEF FirstAt

\* The first semicolon, and what follows it.
LEMMA SemicolonAt ==
    ASSUME NEW file, IsText(file), NEW s, NEW a \in Nat, NEW z \in Nat,
           Lies(file, s, a, z), FirstOf(s, {Semicolon}) <= Len(s)
    PROVE  \E q \in a..z :
            /\ file[q] = Semicolon /\ Lies(file, AfterSemicolon(s), q + 1, z)
            /\ \A p \in a..q - 1 : file[p] # Semicolon
<1>1. PICK T : T = {Semicolon}
      OBVIOUS
<1>2. PICK q \in a..z :
            /\ FirstOf(s, T) = q - a + 1 /\ file[q] \in T
            /\ \A p \in a..q - 1 : file[p] \notin T
      BY <1>1, TokenAt
<1>3. q \in Nat /\ a <= q /\ q <= z
      OBVIOUS
<1>4. T = {Semicolon} => Lies(file, AfterSemicolon(s), q + 1, z)
      BY <1>2, <1>3, AfterLies
<1>   QED
      BY <1>1, <1>2, <1>4

\* The first bracket, where no semicolon comes before it.
LEMMA BracketAt ==
    ASSUME NEW file, IsText(file), NEW s, NEW a \in Nat, NEW z \in Nat,
           Lies(file, s, a, z), FirstOf(s, {Opening, Semicolon}) <= Len(s), ~EndsAt(s, Semicolon)
    PROVE  \E q \in a..z :
            /\ file[q] = Opening /\ Lies(file, AfterBracket(s), q + 1, z)
            /\ \A p \in a..q - 1 : file[p] \notin {Opening, Semicolon}
<1>1. PICK T : T = {Opening, Semicolon}
      OBVIOUS
<1>2. PICK q \in a..z :
            /\ FirstOf(s, T) = q - a + 1 /\ file[q] \in T
            /\ \A p \in a..q - 1 : file[p] \notin T
      BY <1>1, TokenAt
<1>3. q \in Nat /\ a <= q /\ q <= z
      OBVIOUS
<1>4. s[q - a + 1] = file[q]
      BY LiesIs
<1>5. file[q] = Opening
      BY <1>1, <1>2, <1>4 DEF EndsAt
<1>6. PICK U : U = {Opening}
      OBVIOUS
<1>7. PICK f \in Nat : FirstAt(file, s, a, z, U, f)
      BY FirstIs
<1>10. /\ a <= f /\ f <= z + 1 /\ FirstOf(s, U) = f - a + 1
       /\ f <= z => file[f] \in U
       /\ \A p \in a..f - 1 : file[p] \notin U
       BY <1>7 DEF FirstAt
<1>8. f = q
  <2>1. ASSUME f < q PROVE FALSE
    <3>1. f \in a..q - 1 /\ f <= z
          BY <1>3, <1>10, <2>1
    <3>   QED
          BY <1>1, <1>2, <1>6, <1>10, <3>1
  <2>2. ASSUME q < f PROVE FALSE
    <3>1. q \in a..f - 1
          BY <1>3, <1>10, <2>2
    <3>   QED
          BY <1>5, <1>6, <1>10, <3>1
  <2>   QED
        BY <1>3, <1>10, <2>1, <2>2
<1>9. U = {Opening} => Lies(file, AfterBracket(s), q + 1, z)
      BY <1>3, <1>10, <1>8, AfterLies
<1>   QED
      BY <1>1, <1>2, <1>5, <1>6, <1>9

LEMMA OpenServerKept ==
    ASSUME CInv, ~EndedByBracket, OpenServer, phase' = "parse"
    PROVE  Reading'
<1>   USE DEF At
<1>1. PICK r, b, c, i, j \in Nat : At(r, b, c, i, j)
      BY DEF CInv, OpenServer, Reading
<1>2. IsText(text)
      BY DEF CInv
<1>   PICK n \in Nat : n = Len(text)
      BY <1>2 DEF IsText
<1>3. /\ block = Outside /\ FirstOf(rest, {Opening, Semicolon}) <= Len(rest)
      /\ ~EndsAt(rest, Semicolon) /\ HasContent(AfterBracket(rest))
      /\ block' = Content(AfterBracket(rest))
      /\ rest' = BehindContent(AfterBracket(rest))
      /\ server' = NoServer
      /\ UNCHANGED <<phase, text, inner, location, servers>>
      BY DEF OpenServer, Throw
<1>4. /\ Lies(text, rest, r, n) /\ b = 1 /\ c = 0 /\ inner = Outside /\ i = 1 /\ j = 0
      /\ AreServers(servers) /\ Under = servers
      /\ Counted(text, ReadUpTo(r, b, c, i, j), servers)
      BY <1>1, <1>3 DEF Under
<1>5. PICK q \in r..n :
            /\ text[q] = Opening /\ Lies(text, AfterBracket(rest), q + 1, n)
            /\ \A p \in r..q - 1 : text[p] \notin {Opening, Semicolon}
      BY <1>2, <1>3, <1>4, BracketAt
<1>6. PICK a \in Nat : a = q + 1
      OBVIOUS
<1>7. PICK e \in a..n :
        /\ Lies(text, Content(AfterBracket(rest)), a, e - 1)
        /\ Lies(text, BehindContent(AfterBracket(rest)), e + 1, n)
        /\ text[e] = Closing /\ ~Inside(text, a, e)
        /\ \A m \in a..e - 1 : text[m] = Closing => Inside(text, a, m)
      BY <1>2, <1>3, <1>5, <1>6, ContentLies
<1>8. PICK d, f \in Nat : d = e - 1 /\ f = e + 1
      BY <1>6
<1>9. /\ Lies(text, block', a, d) /\ Lies(text, rest', f, n)
      /\ \A m \in a..d : text[m] = Closing => Inside(text, a, m)
      BY <1>3, <1>7, <1>8
<1>10. /\ block' # Outside /\ d < f
  <2>1. PICK x : x = block'
        OBVIOUS
  <2>2. Lies(text, x, a, d)
        BY <1>9, <2>1
  <2>3. x # Outside
        BY <1>2, <2>2, LiesIs
  <2>   QED
        BY <1>8, <2>1, <2>3
<1>11. PICK R, Q : R = ReadUpTo(r, b, c, i, j) /\ Q = ReadUpTo(f, a, d, i, j)
       OBVIOUS
<1>12. R = 1..r - 1 /\ Q = (1..q) \cup {e} /\ 1 <= r
       BY <1>4, <1>6, <1>8, <1>11 DEF ReadUpTo, Lies
<1>13. Counted(text, Q, Append(servers, NoServer))
  <2>1. AddsBlock(servers, Append(servers, NoServer))
        BY <1>4, ServerAdded DEF NoServer, Counted
  <2>2. R \subseteq Q /\ q \in Q \ R /\ \A p \in Q \ R : p \in r..q \/ p = e
        BY <1>5, <1>6, <1>12
  <2>3. ASSUME NEW p \in Q \ R, p # q PROVE text[p] \notin {Opening, Semicolon}
    <3>1. p \in r..q - 1 \/ p = e
          BY <2>2, <2>3
    <3>   QED
          BY <1>5, <1>7, <3>1, TokensDiffer
  <2>4. IsFiniteSet(Q)
        BY <1>11, ReadFinite
  <2>   QED
        BY <1>4, <1>5, <1>11, <2>1, <2>2, <2>3, <2>4, BlockCounted
<1>14. Under' = Append(servers, NoServer)
       BY <1>3, <1>4, <1>10 DEF Under
<1>15. IsServer(NoServer)
       BY EmptyIs DEF NoServer, IsServer
<1>16. At(f, a, d, i, j)'
  <2>1. Lies(text', rest', f, Len(text'))
        BY <1>3, <1>9
  <2>2. Lies(text', block', a, d) /\ d < f /\ IsServer(server')
        BY <1>3, <1>9, <1>10, <1>15
  <2>3. \A m \in a..d : text'[m] = Closing => Inside(text', a, m)
        BY <1>3, <1>9
  <2>4. Counted(text', ReadUpTo(f, a, d, i, j), Under')
        BY <1>3, <1>11, <1>13, <1>14
  <2>   QED
        BY <1>3, <1>4, <1>10, <2>1, <2>2, <2>3, <2>4
<1>   QED
      BY <1>16 DEF Reading

\* In what is left of a server block a closing bracket comes after an opening
\* one, so that there is none before the first opening one.
LEMMA NoClosingBefore ==
    ASSUME NEW file, NEW b \in Nat, NEW c \in Nat, NEW q \in b..c,
           \A m \in b..c : file[m] = Closing => Inside(file, b, m),
           \A p \in b..q - 1 : file[p] # Opening
    PROVE  \A p \in b..q - 1 : file[p] # Closing
<1>   SUFFICES ASSUME NEW p \in b..q - 1, file[p] = Closing PROVE FALSE
      OBVIOUS
<1>1. p \in b..c
      OBVIOUS
<1>2. PICK j \in b..p - 1 : file[j] = Opening
      BY <1>1 DEF Inside
<1>3. j \in b..q - 1
      OBVIOUS
<1>   QED
      BY <1>2, <1>3

\* What stands behind q is like what stands behind b, if no bracket lies between.
LEMMA InsideBehind ==
    ASSUME NEW file, NEW b \in Nat, NEW c \in Nat, NEW q \in b..c, NEW a \in Nat,
           a = q + 1, \A m \in b..c : file[m] = Closing => Inside(file, b, m),
           \/ \A p \in b..q : file[p] # Opening
           \/ file[q] = Closing
    PROVE  \A m \in a..c : file[m] = Closing => Inside(file, a, m)
<1>   SUFFICES ASSUME NEW m \in a..c, file[m] = Closing PROVE Inside(file, a, m)
      OBVIOUS
<1>1. m \in b..c
      OBVIOUS
<1>2. PICK j \in b..m - 1 : file[j] = Opening /\ \A k \in j..m - 1 : file[k] # Closing
      BY <1>1 DEF Inside
<1>3. ~(j <= q)
  <2>1. SUFFICES ASSUME j <= q PROVE FALSE
        OBVIOUS
  <2>2. j \in b..q /\ q \in j..m - 1
        BY <2>1
  <2>   QED
        BY <1>2, <2>2
<1>4. j \in a..m - 1
      BY <1>3
<1>   QED
      BY <1>2, <1>4 DEF Inside

\* The line before the first token of a directive of the server block.
LEMMA LineIs ==
    ASSUME NEW file, IsText(file), NEW s, NEW a \in Nat, NEW z \in Nat,
           Lies(file, s, a, z), Line(s) # <<>>, NEW q \in Nat,
           FirstAt(file, s, a, z, {Opening, Semicolon}, q)
    PROVE  a < q /\ s[1] = file[a] /\ a \in DOMAIN file
<1>1. s \in Seq(STRING) /\ DOMAIN s = 1..z - a + 1 /\ Len(file) \in Nat
      /\ DOMAIN file = 1..Len(file)
      /\ \A p \in a..z : p - a + 1 \in DOMAIN s /\ s[p - a + 1] = file[p]
      BY LiesIs DEF IsText
<1>2. a < q
  <2>1. SUFFICES ASSUME ~(a < q) PROVE FALSE
        OBVIOUS
  <2>2. FirstOf(s, {Opening, Semicolon}) = 1
        BY <2>1 DEF FirstAt
  <2>3. SubSeq(s, 1, 1 - 1) = <<>>
        BY <1>1
  <2>   QED
        BY <2>2, <2>3 DEF Line
<1>3. a \in a..z /\ 1 <= a /\ z <= Len(file)
      BY <1>2 DEF FirstAt, Lies
<1>4. a - a + 1 = 1 /\ a \in 1..Len(file)
      BY <1>3
<1>   QED
      BY <1>1, <1>2, <1>3, <1>4

LEMMA NormalDirectiveKept ==
    ASSUME CInv, ~EndedByBracket, NormalDirective, phase' = "parse"
    PROVE  Reading'
<1>   USE DEF At
<1>1. PICK r, b, c, i, j \in Nat : At(r, b, c, i, j)
      BY DEF CInv, NormalDirective, InServer, Reading
<1>2. IsText(text)
      BY DEF CInv
<1>3. /\ block # Outside /\ inner = Outside
      /\ FirstOf(block, {Opening, Semicolon}) <= Len(block)
      /\ Line(block) # <<>> /\ block[1] \in OneValue \cup TwoValues
      /\ server' = [server EXCEPT !.dirs = Append(@, Directive(Line(block)))]
      /\ block' = AfterSemicolon(block)
      /\ UNCHANGED <<phase, text, rest, inner, location, servers>>
      BY DEF NormalDirective, InServer, Throw
<1>4. /\ Lies(text, rest, r, Len(text)) /\ Lies(text, block, b, c) /\ c < r
      /\ IsServer(server) /\ i = 1 /\ j = 0
      /\ \A m \in b..c : text[m] = Closing => Inside(text, b, m)
      /\ AreServers(servers) /\ Under = Append(servers, server)
      /\ Counted(text, ReadUpTo(r, b, c, i, j), Under)
      BY <1>1, <1>3 DEF Under
<1>5. PICK q \in Nat : FirstAt(text, block, b, c, {Opening, Semicolon}, q)
      BY <1>2, <1>4, FirstIs
<1>6. q \in b..c /\ text[q] \in {Opening, Semicolon}
      /\ \A p \in b..q - 1 : text[p] \notin {Opening, Semicolon}
  <2>1. Len(block) = c - b + 1
        BY <1>2, <1>4, LiesIs
  <2>   QED
        BY <1>3, <1>5, <2>1 DEF FirstAt
<1>7. b < q /\ block[1] = text[b] /\ b \in DOMAIN text
      BY <1>2, <1>3, <1>4, <1>5, LineIs
<1>8. \A p \in b..q - 1 : text[p] # Closing
  <2>1. \A p \in b..q - 1 : text[p] # Opening
        BY <1>6
  <2>   QED
        BY <1>4, <1>6, <2>1, NoClosingBefore
<1>9. text[q] = Semicolon
  <2>1. SUFFICES ASSUME text[q] = Opening PROVE FALSE
        BY <1>6
  <2>2. q \in DOMAIN text
    <3>1. Len(text) \in Nat /\ DOMAIN text = 1..Len(text)
          BY <1>2 DEF IsText
    <3>2. q <= c /\ c < r /\ r <= Len(text) + 1 /\ 1 <= b /\ b < q
          BY <1>4, <1>6, <1>7 DEF Lies
    <3>   QED
          BY <3>1, <3>2
  <2>3. \A k \in b + 1..q - 1 : text[k] \notin {Semicolon, Opening, Closing}
        BY <1>6, <1>8
  <2>4. EndedByBracket
        BY <1>3, <1>7, <2>1, <2>2, <2>3 DEF EndedByBracket
  <2>   QED
        BY <2>4
<1>10. Lies(text, AfterSemicolon(block), q + 1, c)
  <2>1. PICK T : T = {Semicolon}
        OBVIOUS
  <2>2. FirstAt(text, block, b, c, T, q)
    <3>1. PICK f \in Nat : FirstAt(text, block, b, c, T, f)
          BY <1>2, <1>4, FirstIs
    <3>2. /\ b <= f /\ f <= c + 1 /\ f <= c => text[f] \in T
          /\ \A p \in b..f - 1 : text[p] \notin T
          BY <3>1 DEF FirstAt
    <3>3. ~(q < f)
      <4>1. SUFFICES ASSUME q < f PROVE FALSE
            OBVIOUS
      <4>2. q \in b..f - 1
            BY <1>6, <4>1
      <4>   QED
            BY <1>9, <2>1, <3>2, <4>2
    <3>4. ~(f < q)
      <4>1. SUFFICES ASSUME f < q PROVE FALSE
            OBVIOUS
      <4>2. b <= f /\ q \in b..c
        <5>1. b <= f
              BY <3>1 DEF FirstAt
        <5>   QED
              BY ONLY <1>6, <5>1
      <4>3. f \in b..q - 1 /\ f <= c
            BY ONLY <4>1, <4>2, f \in Nat, b \in Nat, c \in Nat
      <4>   QED
            BY <1>6, <2>1, <3>2, <4>3
    <3>5. f = q
          BY <3>3, <3>4
    <3>   QED
          BY <3>1, <3>5
  <2>3. b <= q /\ q <= c /\ FirstOf(block, T) = q - b + 1
        BY <1>6, <2>2 DEF FirstAt
  <2>4. T = {Semicolon} => Lies(text, AfterSemicolon(block), q + 1, c)
        BY <1>2, <1>4, <2>3, AfterLies
  <2>   QED
        BY <2>1, <2>4
<1>11. PICK a \in Nat : a = q + 1
       OBVIOUS
<1>12. Lies(text, block', a, c) /\ block' # Outside
  <2>1. PICK x : x = block'
        OBVIOUS
  <2>2. Lies(text, x, a, c)
        BY <1>3, <1>10, <1>11, <2>1
  <2>3. x # Outside
        BY <1>2, <2>2, LiesIs
  <2>   QED
        BY <2>1, <2>2, <2>3
<1>13. \A m \in a..c : text[m] = Closing => Inside(text, a, m)
  <2>1. \A p \in b..q : text[p] # Opening
    <3>1. \A p \in b..q : p \in b..q - 1 \/ p = q
          BY <1>6
    <3>   QED
          BY <1>6, <1>9, <3>1, TokensDiffer
  <2>   QED
        BY <1>4, <1>6, <1>11, <2>1, InsideBehind
<1>14. PICK R, Q : R = ReadUpTo(r, b, c, i, j) /\ Q = ReadUpTo(r, a, c, i, j)
       OBVIOUS
<1>15. Q = R \cup (b..q) /\ \A p \in b..q : p \notin R
  <2>1. 1 <= b
        BY <1>4 DEF Lies
  <2>   QED
        BY <1>4, <1>6, <1>11, <1>14, <2>1 DEF ReadUpTo
<1>16. IsServer(server') /\ AddsDirective(Append(servers, server), Append(servers, server'))
  <2>1. PICK d, l : server = [dirs |-> d, locs |-> l]
        BY <1>4 DEF IsServer
  <2>2. PICK x : x = Directive(Line(block))
        OBVIOUS
  <2>3. PICK t : t = server'
        OBVIOUS
  <2>4. t = [dirs |-> Append(d, x), locs |-> l]
        BY <1>3, <2>1, <2>2, <2>3
  <2>5. AreFinite(Append(servers, server))
        BY <1>4 DEF Counted
  <2>6. IsServer(t) /\ AddsDirective(Append(servers, server), Append(servers, t))
        BY <1>4, <2>1, <2>4, <2>5, ServerDirectiveAdded
  <2>   QED
        BY <2>3, <2>6
<1>17. Counted(text, Q, Append(servers, server'))
  <2>1. R \subseteq Q /\ q \in Q \ R
        BY <1>6, <1>15
  <2>2. ASSUME NEW p \in Q \ R, p # q PROVE text[p] \notin {Opening, Semicolon}
    <3>1. p \in b..q - 1
          BY <1>6, <1>15, <2>2
    <3>   QED
          BY <1>6, <3>1
  <2>3. IsFiniteSet(Q)
        BY <1>14, ReadFinite
  <2>4. PICK uu : uu = Append(servers, server')
        OBVIOUS
  <2>5. AddsDirective(Append(servers, server), uu)
        BY <1>16, <2>4
  <2>6. Counted(text, R, Append(servers, server))
        BY <1>4, <1>14
  <2>7. Counted(text, Q, uu)
        BY <1>9, <2>1, <2>2, <2>3, <2>5, <2>6, DirectiveCounted
  <2>   QED
        BY <2>4, <2>7
<1>18. Under' = Append(servers, server')
       BY <1>3, <1>12 DEF Under
<1>19. At(r, a, c, i, j)'
  <2>1. Lies(text', rest', r, Len(text'))
        BY <1>3, <1>4
  <2>2. Lies(text', block', a, c) /\ c < r /\ IsServer(server')
        BY <1>3, <1>4, <1>12, <1>16
  <2>3. \A m \in a..c : text'[m] = Closing => Inside(text', a, m)
        BY <1>3, <1>13
  <2>4. Counted(text', ReadUpTo(r, a, c, i, j), Under')
        BY <1>3, <1>14, <1>17, <1>18
  <2>   QED
        BY <1>3, <1>4, <1>12, <2>1, <2>2, <2>3, <2>4
<1>   QED
      BY <1>19 DEF Reading

LEMMA OpenLocationKept ==
    ASSUME CInv, ~EndedByBracket, OpenLocation, phase' = "parse"
    PROVE  Reading'
<1>   USE DEF At
<1>1. PICK r, b, c, i, j \in Nat : At(r, b, c, i, j)
      BY DEF CInv, OpenLocation, InServer, Reading
<1>2. IsText(text)
      BY DEF CInv
<1>3. /\ block # Outside /\ inner = Outside
      /\ FirstOf(block, {Opening, Semicolon}) <= Len(block)
      /\ ~EndsAt(block, Semicolon) /\ HasContent(AfterBracket(block))
      /\ location' = [path |-> PathOf(Line(block)), dirs |-> <<>>]
      /\ inner' = Content(AfterBracket(block))
      /\ block' = BehindContent(AfterBracket(block))
      /\ UNCHANGED <<phase, text, rest, server, servers>>
      BY DEF OpenLocation, InServer, Throw
<1>4. /\ Lies(text, rest, r, Len(text)) /\ Lies(text, block, b, c) /\ c < r
      /\ IsServer(server) /\ i = 1 /\ j = 0
      /\ \A m \in b..c : text[m] = Closing => Inside(text, b, m)
      /\ AreServers(servers) /\ Under = Append(servers, server)
      /\ Counted(text, ReadUpTo(r, b, c, i, j), Under)
      BY <1>1, <1>3 DEF Under
<1>5. PICK q \in b..c :
            /\ text[q] = Opening /\ Lies(text, AfterBracket(block), q + 1, c)
            /\ \A p \in b..q - 1 : text[p] \notin {Opening, Semicolon}
      BY <1>2, <1>3, <1>4, BracketAt
<1>6. PICK a \in Nat : a = q + 1
      OBVIOUS
<1>7. PICK e \in a..c :
        /\ Lies(text, Content(AfterBracket(block)), a, e - 1)
        /\ Lies(text, BehindContent(AfterBracket(block)), e + 1, c)
        /\ text[e] = Closing /\ ~Inside(text, a, e)
        /\ \A m \in a..e - 1 : text[m] = Closing => Inside(text, a, m)
      BY <1>2, <1>3, <1>5, <1>6, ContentLies
<1>8. PICK d, f \in Nat : d = e - 1 /\ f = e + 1
      BY <1>6
<1>9. /\ Lies(text, inner', a, d) /\ Lies(text, block', f, c)
      BY <1>3, <1>7, <1>8
<1>10. inner' # Outside /\ block' # Outside
  <2>1. PICK x, y : x = inner' /\ y = block'
        OBVIOUS
  <2>2. Lies(text, x, a, d) /\ Lies(text, y, f, c)
        BY <1>9, <2>1
  <2>3. x # Outside
        BY <1>2, <2>2, LiesIs
  <2>4. y # Outside
        BY <1>2, <2>2, LiesIs
  <2>   QED
        BY <2>1, <2>3, <2>4
<1>11. \A m \in a..d : text[m] # Opening
  <2>1. e \in b..c
        BY <1>6
  <2>2. PICK k \in b..e - 1 : text[k] = Opening /\ \A m \in k..e - 1 : text[m] # Closing
        BY <1>4, <1>7, <2>1 DEF Inside
  <2>3. ASSUME NEW m \in a..d, text[m] = Opening PROVE FALSE
    <3>1. ~(k < q)
      <4>1. SUFFICES ASSUME k < q PROVE FALSE
            OBVIOUS
      <4>2. k \in b..q - 1
            BY <4>1
      <4>   QED
            BY <1>5, <2>2, <4>2
    <3>2. m \in a..e - 1 /\ \A h \in m..e - 1 : h \in a..e - 1
          BY <1>8, <2>3
    <3>3. PICK h \in m..e - 1 : text[h] = Closing
          BY <1>7, <2>3, <3>2 DEF Inside
    <3>4. ~(h >= k)
      <4>1. SUFFICES ASSUME h >= k PROVE FALSE
            OBVIOUS
      <4>2. h \in k..e - 1
            BY <4>1
      <4>   QED
            BY <2>2, <3>3, <4>2
    <3>5. PICK g \in a..h - 1 : text[g] = Opening /\ \A o \in g..h - 1 : text[o] # Closing
          BY <1>7, <3>2, <3>3 DEF Inside
    <3>6. ~Inside(text, a, e) /\ k \in a..e - 1 /\ text[k] = Opening
          BY <1>6, <1>7, <2>2, <3>4
    <3>   QED
          BY <2>2, <3>6 DEF Inside
  <2>   QED
        BY <2>3
<1>12. \A m \in f..c : text[m] = Closing => Inside(text, f, m)
  <2>1. e \in b..c
        BY <1>6
  <2>   QED
        BY <1>4, <1>7, <1>8, <2>1, InsideBehind
<1>14. PICK R, Q : R = ReadUpTo(r, b, c, i, j) /\ Q = ReadUpTo(r, f, c, a, d)
       OBVIOUS
<1>15. /\ Q = R \cup (b..q) \cup {e}
       /\ \A p \in b..q : p \notin R
       /\ d < f /\ a <= f
  <2>1. 1 <= b
        BY <1>4 DEF Lies
  <2>   QED
        BY <1>4, <1>6, <1>8, <1>14, <2>1 DEF ReadUpTo
<1>16. PICK ll : ll = [dirs |-> server.dirs, locs |-> Append(server.locs, location')]
       OBVIOUS
<1>17. IsLocation(location')
       BY <1>3, EmptyIs DEF IsLocation
<1>18. AddsBlock(Append(servers, server), Append(servers, ll))
  <2>1. PICK u, l : server = [dirs |-> u, locs |-> l]
        BY <1>4 DEF IsServer
  <2>2. PICK p, x, m : x = <<>> /\ m = [path |-> p, dirs |-> x] /\ location' = m
        BY <1>3
  <2>3. ll = [dirs |-> u, locs |-> Append(l, m)]
        BY <1>16, <2>1, <2>2
  <2>4. AreFinite(Append(servers, server))
        BY <1>4 DEF Counted
  <2>   QED
        BY <1>4, <2>1, <2>2, <2>3, <2>4, LocationAdded
<1>19. Counted(text, Q, Append(servers, ll))
  <2>1. R \subseteq Q /\ q \in Q \ R
        BY <1>5, <1>15
  <2>2. ASSUME NEW p \in Q \ R, p # q PROVE text[p] \notin {Opening, Semicolon}
    <3>1. p \in b..q - 1 \/ p = e
          BY <1>5, <1>15, <2>2
    <3>   QED
          BY <1>5, <1>7, <3>1, TokensDiffer
  <2>3. IsFiniteSet(Q)
        BY <1>14, ReadFinite
  <2>4. PICK uu : uu = Append(servers, ll)
        OBVIOUS
  <2>5. AddsBlock(Append(servers, server), uu)
        BY <1>18, <2>4
  <2>6. Counted(text, R, Append(servers, server))
        BY <1>4, <1>14
  <2>7. Counted(text, Q, uu)
        BY <1>5, <2>1, <2>2, <2>3, <2>5, <2>6, BlockCounted
  <2>   QED
        BY <2>4, <2>7
<1>20. Under' = Append(servers, ll)
       BY <1>3, <1>10, <1>16 DEF Under
<1>21. At(r, f, c, a, d)'
  <2>1. Lies(text', rest', r, Len(text'))
        BY <1>3, <1>4
  <2>2. Lies(text', block', f, c) /\ c < r /\ IsServer(server')
        BY <1>3, <1>4, <1>9
  <2>3. Lies(text', inner', a, d) /\ d < f /\ IsLocation(location')
        BY <1>3, <1>9, <1>15, <1>17
  <2>4. \A m \in f..c : text'[m] = Closing => Inside(text', f, m)
        BY <1>3, <1>12
  <2>5. \A m \in a..d : text'[m] # Opening
        BY <1>3, <1>11
  <2>6. Counted(text', ReadUpTo(r, f, c, a, d), Under')
        BY <1>3, <1>14, <1>19, <1>20
  <2>   QED
        BY <1>3, <1>4, <1>10, <2>1, <2>2, <2>3, <2>4, <2>5, <2>6
<1>   QED
      BY <1>21 DEF Reading

LEMMA LocationDirectiveKept ==
    ASSUME CInv, ~EndedByBracket, LocationDirective, phase' = "parse"
    PROVE  Reading'
<1>   USE DEF At
<1>1. PICK r, b, c, i, j \in Nat : At(r, b, c, i, j)
      BY DEF CInv, LocationDirective, InLocation, Reading
<1>2. IsText(text)
      BY DEF CInv
<1>3. PICK x :
      /\ inner # Outside /\ FirstOf(inner, {Semicolon}) <= Len(inner)
      /\ location' = [location EXCEPT !.dirs = Append(@, x)]
      /\ inner' = AfterSemicolon(inner)
      /\ UNCHANGED <<phase, text, rest, block, server, servers>>
      BY DEF LocationDirective, InLocation, Throw
<1>4. /\ block # Outside
      /\ Lies(text, rest, r, Len(text)) /\ Lies(text, block, b, c) /\ c < r
      /\ IsServer(server) /\ Lies(text, inner, i, j) /\ j < b /\ IsLocation(location)
      /\ \A m \in b..c : text[m] = Closing => Inside(text, b, m)
      /\ \A m \in i..j : text[m] # Opening
      /\ AreServers(servers)
      /\ Counted(text, ReadUpTo(r, b, c, i, j), Under)
      BY <1>1, <1>3
<1>5. PICK q \in i..j :
            /\ text[q] = Semicolon /\ Lies(text, AfterSemicolon(inner), q + 1, j)
            /\ \A p \in i..q - 1 : text[p] # Semicolon
      BY <1>2, <1>3, <1>4, SemicolonAt
<1>6. PICK a \in Nat : a = q + 1
      OBVIOUS
<1>7. Lies(text, inner', a, j) /\ inner' # Outside
  <2>1. PICK y : y = inner'
        OBVIOUS
  <2>2. Lies(text, y, a, j)
        BY <1>3, <1>5, <1>6, <2>1
  <2>3. y # Outside
        BY <1>2, <2>2, LiesIs
  <2>   QED
        BY <2>1, <2>2, <2>3
<1>8. PICK R, Q : R = ReadUpTo(r, b, c, i, j) /\ Q = ReadUpTo(r, b, c, a, j)
      OBVIOUS
<1>9. Q = R \cup (i..q) /\ \A p \in i..q : p \notin R
  <2>1. 1 <= i /\ b <= c + 1 /\ c < r /\ j < b
        BY <1>4 DEF Lies
  <2>2. \A p \in i..j : p \in 1..r - 1 /\ p \notin b..c
        BY <2>1
  <2>3. \A p \in i..j : p \in i..q \/ p \in a..j
        BY <1>6
  <2>4. \A p \in i..q : p \in i..j /\ p \notin a..j
        BY <1>5, <1>6
  <2>5. \A p \in a..j : p \in i..j
        BY <1>5, <1>6
  <2>   QED
        BY <1>8, <2>2, <2>3, <2>4, <2>5 DEF ReadUpTo
<1>10. PICK u, l, p, e : /\ server = [dirs |-> u, locs |-> l]
                         /\ location = [path |-> p, dirs |-> e] /\ IsSequence(e)
       BY <1>4 DEF IsServer, IsLocation
<1>11. PICK s, t :
        /\ s = [dirs |-> u, locs |-> Append(l, [path |-> p, dirs |-> e])]
        /\ t = [dirs |-> u, locs |-> Append(l, [path |-> p, dirs |-> Append(e, x)])]
       OBVIOUS
<1>12. location' = [path |-> p, dirs |-> Append(e, x)]
       BY <1>3, <1>10
<1>13. Under = Append(servers, s) /\ Under' = Append(servers, t)
  <2>1. Under = Append(servers, [dirs |-> u, locs |-> Append(l, location)])
        BY <1>3, <1>4, <1>10 DEF Under
  <2>2. Under' = Append(servers, [dirs |-> u, locs |-> Append(l, location')])
        BY <1>3, <1>4, <1>7, <1>10 DEF Under
  <2>   QED
        BY <1>10, <1>11, <1>12, <2>1, <2>2
<1>14. IsLocation(location')
       BY <1>10, <1>12, AppendIs DEF IsLocation
<1>15. AddsDirective(Append(servers, s), Append(servers, t))
  <2>1. AreFinite(Append(servers, s)) /\ IsServer([dirs |-> u, locs |-> l])
        BY <1>4, <1>10, <1>13 DEF Counted
  <2>   QED
        BY <1>4, <1>10, <1>11, <2>1, LocationDirectiveAdded
<1>16. Counted(text, Q, Under')
  <2>1. R \subseteq Q /\ q \in Q \ R
        BY <1>5, <1>9
  <2>2. ASSUME NEW o \in Q \ R, o # q PROVE text[o] \notin {Opening, Semicolon}
    <3>1. o \in i..q - 1 /\ o \in i..j
          BY <1>5, <1>9, <2>2
    <3>   QED
          BY <1>4, <1>5, <3>1
  <2>3. IsFiniteSet(Q)
        BY <1>8, ReadFinite
  <2>4. PICK tt, uu : tt = Under /\ uu = Under'
        OBVIOUS
  <2>5. AddsDirective(tt, uu)
        BY <1>13, <1>15, <2>4
  <2>6. Counted(text, R, tt)
        BY <1>4, <1>8, <2>4
  <2>7. Counted(text, Q, uu)
        BY <1>5, <2>1, <2>2, <2>3, <2>5, <2>6, DirectiveCounted
  <2>   QED
        BY <2>4, <2>7
<1>17. At(r, b, c, a, j)'
  <2>1. Lies(text', rest', r, Len(text'))
        BY <1>3, <1>4
  <2>2. Lies(text', block', b, c) /\ c < r /\ IsServer(server') /\ block' # Outside
        BY <1>3, <1>4
  <2>3. Lies(text', inner', a, j) /\ j < b /\ IsLocation(location')
        BY <1>3, <1>4, <1>7, <1>14
  <2>4. \A m \in b..c : text'[m] = Closing => Inside(text', b, m)
        BY <1>3, <1>4
  <2>5. \A m \in a..j : text'[m] # Opening
    <3>1. \A m \in a..j : m \in i..j
          BY <1>5, <1>6
    <3>   QED
          BY <1>3, <1>4, <3>1
  <2>6. Counted(text', ReadUpTo(r, b, c, a, j), Under')
        BY <1>3, <1>8, <1>16
  <2>   QED
        BY <1>3, <1>4, <1>7, <2>1, <2>2, <2>3, <2>4, <2>5, <2>6
<1>   QED
      BY <1>17 DEF Reading

LEMMA CloseLocationKept ==
    ASSUME CInv, ~EndedByBracket, CloseLocation
    PROVE  Reading'
<1>   USE DEF At
<1>1. PICK r, b, c, i, j \in Nat : At(r, b, c, i, j)
      BY DEF CInv, CloseLocation, Reading
<1>2. IsText(text)
      BY DEF CInv
<1>3. /\ inner # Outside /\ FirstOf(inner, {Semicolon}) > Len(inner)
      /\ server' = [server EXCEPT !.locs = Append(@, location)]
      /\ inner' = Outside
      /\ UNCHANGED <<phase, text, rest, block, location, servers>>
      BY DEF CloseLocation
<1>4. /\ block # Outside
      /\ Lies(text, rest, r, Len(text)) /\ Lies(text, block, b, c) /\ c < r
      /\ IsServer(server) /\ Lies(text, inner, i, j) /\ j < b /\ IsLocation(location)
      /\ \A m \in b..c : text[m] = Closing => Inside(text, b, m)
      /\ \A m \in i..j : text[m] # Opening
      /\ AreServers(servers)
      /\ Counted(text, ReadUpTo(r, b, c, i, j), Under)
      BY <1>1, <1>3
<1>5. \A p \in i..j : text[p] \notin {Semicolon}
      BY <1>2, <1>3, <1>4, NoTokenIn
<1>6. PICK u, l : /\ server = [dirs |-> u, locs |-> l]
                  /\ IsSequence(u) /\ IsSequence(l)
                  /\ \A k \in 1..Len(l) : IsLocation(l[k])
      BY <1>4 DEF IsServer
<1>7. server' = [dirs |-> u, locs |-> Append(l, location)]
      BY <1>3, <1>6
<1>8. IsServer(server')
  <2>1. PICK k \in Nat : k = Len(l)
        BY <1>6 DEF IsSequence
  <2>2. /\ IsSequence(Append(l, location)) /\ Len(Append(l, location)) = k + 1
        /\ \A m \in 1..k : Append(l, location)[m] = l[m]
        /\ Append(l, location)[k + 1] = location
        BY <1>6, <2>1, AppendIs
  <2>3. ASSUME NEW m \in 1..k + 1 PROVE IsLocation(Append(l, location)[m])
    <3>1. m \in 1..k \/ m = k + 1
          OBVIOUS
    <3>   QED
          BY <1>4, <1>6, <2>1, <2>2, <3>1
  <2>   QED
        BY <1>6, <1>7, <2>2, <2>3 DEF IsServer
<1>9. Under' = Under
  <2>1. Under = Append(servers, [dirs |-> u, locs |-> Append(l, location)])
        BY <1>3, <1>4, <1>6 DEF Under
  <2>2. Under' = Append(servers, server')
        BY <1>3, <1>4 DEF Under
  <2>   QED
        BY <1>7, <2>1, <2>2
<1>10. PICK o, z \in Nat : o = 1 /\ z = 0
       OBVIOUS
<1>11. PICK R, Q : R = ReadUpTo(r, b, c, i, j) /\ Q = ReadUpTo(r, b, c, o, z)
       OBVIOUS
<1>12. R \subseteq Q /\ \A p \in Q \ R : p \in i..j
  <2>1. \A p : p \notin o..z
        BY <1>10
  <2>   QED
        BY <1>11, <2>1 DEF ReadUpTo
<1>13. Counted(text, Q, Under)
  <2>1. \A p \in Q \ R : text[p] \notin {Opening, Semicolon}
        BY <1>4, <1>5, <1>12
  <2>2. IsFiniteSet(Q)
        BY <1>11, ReadFinite
  <2>   QED
        BY <1>4, <1>11, <1>12, <2>1, <2>2, NothingCounted
<1>14. At(r, b, c, o, z)'
  <2>1. Lies(text', rest', r, Len(text'))
        BY <1>3, <1>4
  <2>2. Lies(text', block', b, c) /\ c < r /\ IsServer(server') /\ block' # Outside
        BY <1>3, <1>4, <1>8
  <2>3. \A m \in b..c : text'[m] = Closing => Inside(text', b, m)
        BY <1>3, <1>4
  <2>4. \A m \in o..z : text'[m] # Opening
        BY <1>10
  <2>5. Counted(text', ReadUpTo(r, b, c, o, z), Under')
        BY <1>3, <1>9, <1>11, <1>13
  <2>   QED
        BY <1>3, <1>4, <1>10, <2>1, <2>2, <2>3, <2>4, <2>5
<1>   QED
      BY <1>14 DEF Reading

LEMMA CloseServerKept ==
    ASSUME CInv, ~EndedByBracket, CloseServer
    PROVE  Reading'
<1>   USE DEF At
<1>1. PICK r, b, c, i, j \in Nat : At(r, b, c, i, j)
      BY DEF CInv, CloseServer, Reading
<1>2. IsText(text)
      BY DEF CInv
<1>3. /\ block # Outside /\ inner = Outside
      /\ FirstOf(block, {Opening, Semicolon}) > Len(block)
      /\ servers' = Append(servers, server)
      /\ block' = Outside
      /\ UNCHANGED <<phase, text, rest, inner, server, location>>
      BY DEF CloseServer
<1>4. /\ Lies(text, rest, r, Len(text)) /\ Lies(text, block, b, c) /\ c < r
      /\ IsServer(server) /\ i = 1 /\ j = 0
      /\ AreServers(servers) /\ Under = Append(servers, server)
      /\ Counted(text, ReadUpTo(r, b, c, i, j), Under)
      BY <1>1, <1>3 DEF Under
<1>5. \A p \in b..c : text[p] \notin {Opening, Semicolon}
      BY <1>2, <1>3, <1>4, NoTokenIn
<1>6. Under' = Under /\ AreServers(servers')
      BY <1>3, <1>4 DEF Under, Counted
<1>7. PICK R, Q : R = ReadUpTo(r, b, c, i, j) /\ Q = ReadUpTo(r, i, j, i, j)
      OBVIOUS
<1>8. R \subseteq Q /\ \A p \in Q \ R : p \in b..c
  <2>1. \A p : p \notin i..j
        BY <1>4
  <2>   QED
        BY <1>7, <2>1 DEF ReadUpTo
<1>9. Counted(text, Q, Under)
  <2>1. \A p \in Q \ R : text[p] \notin {Opening, Semicolon}
        BY <1>5, <1>8
  <2>2. IsFiniteSet(Q)
        BY <1>7, ReadFinite
  <2>   QED
        BY <1>4, <1>7, <1>8, <2>1, <2>2, NothingCounted
<1>10. At(r, i, j, i, j)'
  <2>1. Lies(text', rest', r, Len(text'))
        BY <1>3, <1>4
  <2>2. Counted(text', ReadUpTo(r, i, j, i, j), Under')
        BY <1>3, <1>6, <1>7, <1>9
  <2>3. \A m : m \notin i..j
        BY <1>4
  <2>   QED
        BY <1>3, <1>4, <1>6, <2>1, <2>2, <2>3
<1>   QED
      BY <1>10 DEF Reading

\* A step of the start-up that leaves the files to be parsed as they are.
Fixed == UNCHANGED <<text, rest, block, inner, server, location, servers>>

LEMMA FixedKept ==
    ASSUME CInv, Fixed, \/ phase' \notin {"read", "parse", "validate"}
                        \/ phase' = phase
    PROVE  CInv'
<1>1. UNCHANGED <<text, rest, block, inner, server, location, servers>>
      BY DEF Fixed
<1>2. /\ Reading' = Reading /\ EndedByBracket' = EndedByBracket /\ IsText(text') = IsText(text)
      /\ (FirstOf(rest, {Opening, Semicolon}) > Len(rest))'
            = (FirstOf(rest, {Opening, Semicolon}) > Len(rest))
  <2>1. Under' = Under
        BY <1>1 DEF Under
  <2>   QED
        BY <1>1, <2>1 DEF Reading, At, EndedByBracket
<1>   QED
      BY <1>1, <1>2 DEF CInv

LEMMA EndOfTextKept ==
    ASSUME CInv, ~EndedByBracket, Fixed, phase \in {"read", "parse"}
    PROVE  Reading'
<1>1. Reading
      BY DEF CInv
<1>2. UNCHANGED <<text, rest, block, inner, server, location, servers>>
      BY DEF Fixed
<1>3. Under' = Under
      BY <1>2 DEF Under
<1>   QED
      BY <1>1, <1>2, <1>3 DEF Reading, At

LEMMA StartUpKept == ASSUME CInv, StartUp PROVE CInv'
<1>1. text' = text /\ phase' # "read"
      BY DEF StartUp, Read, OpenServer, EndOfText, BadDirective, NormalDirective,
             OpenLocation, CloseServer, LocationDirective, CloseLocation, Validate,
             Listen, Throw, InServer, InLocation
<1>2. EndedByBracket' = EndedByBracket /\ IsText(text')
      BY <1>1 DEF EndedByBracket, CInv
<1>3. ASSUME phase' = "parse", ~EndedByBracket PROVE Reading'
  <2>1. CASE Read
        BY <1>3, <2>1, EndOfTextKept DEF Read, Throw, Fixed
  <2>2. CASE OpenServer
        BY <1>3, <2>2, OpenServerKept
  <2>3. CASE NormalDirective
        BY <1>3, <2>3, NormalDirectiveKept
  <2>4. CASE OpenLocation
        BY <1>3, <2>4, OpenLocationKept
  <2>5. CASE CloseServer
        BY <1>3, <2>5, CloseServerKept
  <2>6. CASE LocationDirective
        BY <1>3, <2>6, LocationDirectiveKept
  <2>7. CASE CloseLocation
        BY <1>3, <2>7, CloseLocationKept
  <2>8. ~(EndOfText \/ BadDirective \/ Validate \/ Listen)
        BY <1>3 DEF EndOfText, BadDirective, Validate, Listen, Throw
  <2>   QED
        BY <2>1, <2>2, <2>3, <2>4, <2>5, <2>6, <2>7, <2>8 DEF StartUp
<1>4. CASE phase' = "parse"
      BY <1>1, <1>2, <1>3, <1>4 DEF CInv
<1>5. CASE phase' = "validate"
  <2>1. EndOfText
        BY <1>5 DEF StartUp, Read, OpenServer, EndOfText, BadDirective,
             NormalDirective, OpenLocation, CloseServer, LocationDirective,
             CloseLocation, Validate, Listen, Throw, InServer, InLocation
  <2>2. /\ Fixed /\ phase = "parse" /\ block = Outside
        /\ FirstOf(rest, {Opening, Semicolon}) > Len(rest)
        BY <2>1 DEF EndOfText, Fixed
  <2>3. block' = Outside /\ (FirstOf(rest, {Opening, Semicolon}) > Len(rest))'
        BY <2>2 DEF Fixed
  <2>4. ~EndedByBracket => Reading'
        BY <2>2, EndOfTextKept
  <2>   QED
        BY <1>2, <1>5, <2>3, <2>4 DEF CInv
<1>6. CASE phase' \notin {"parse", "validate"}
      BY <1>1, <1>2, <1>6 DEF CInv
<1>   QED
      BY <1>4, <1>5, <1>6

\* When the text is read to its end, nothing is left that has a token.
LEMMA AllIsRead == CInv => EveryDirectiveIsRead
<1>   SUFFICES ASSUME CInv, phase = "validate", ~EndedByBracket
               PROVE  /\ Tokens(Semicolon) = Cardinality(Directives(servers))
                      /\ Tokens(Opening) = Cardinality(Blocks(servers))
      BY DEF EveryDirectiveIsRead
<1>1. /\ IsText(text) /\ block = Outside
      /\ FirstOf(rest, {Opening, Semicolon}) > Len(rest)
      BY DEF CInv
<1>2. PICK r, b, c, i, j \in Nat : At(r, b, c, i, j)
      BY DEF CInv, Reading
<1>   PICK n \in Nat : n = Len(text)
      BY <1>1 DEF IsText
<1>3. /\ Lies(text, rest, r, n) /\ b = 1 /\ c = 0 /\ i = 1 /\ j = 0
      /\ Counted(text, ReadUpTo(r, b, c, i, j), servers)
      BY <1>1, <1>2 DEF At, Under
<1>4. \A p \in r..n : text[p] \notin {Opening, Semicolon}
      BY <1>1, <1>3, NoTokenIn
<1>5. ReadUpTo(r, b, c, i, j) \subseteq DOMAIN text
      /\ \A p \in DOMAIN text : p \in ReadUpTo(r, b, c, i, j) \/ p \in r..n
  <2>1. DOMAIN text = 1..n /\ r <= n + 1
        BY <1>1, <1>3 DEF IsText, Lies
  <2>   QED
        BY <1>3, <2>1 DEF ReadUpTo
<1>6. ASSUME NEW token \in {Opening, Semicolon}
      PROVE  {p \in DOMAIN text : text[p] = token}
                = OfToken(text, ReadUpTo(r, b, c, i, j), token)
      BY <1>4, <1>5 DEF OfToken
<1>   QED
      BY <1>3, <1>6 DEF Tokens, Counted

-----------------------------------------------------------------------------
(***************************************************************************)
(* What is parsed has its type, of every file: in particular the path of a *)
(* location is a sequence, although it is put together from words.         *)
(***************************************************************************)

LEMMA SpelledIs ==
    ASSUME NEW w \in STRING
    PROVE  Spelled(w) \in Seq(STRING)
<1>1. CASE w \in DOMAIN Chars
      BY <1>1, WordsAssumption DEF Spelled
<1>2. CASE w \notin DOMAIN Chars
      BY <1>2, Single DEF Spelled
<1>   QED
      BY <1>1, <1>2

LEMMA CapitalsAre ==
    ASSUME NEW w \in STRING
    PROVE  Capitals(w) \in STRING
BY WordsAssumption DEF Capitals

LEMMA WholeLies ==
    ASSUME NEW s, IsText(s)
    PROVE  \E a, z \in Nat : a = 1 /\ z = Len(s) /\ Lies(s, s, a, z)
<1>1. PICK a, z \in Nat : a = 1 /\ z = Len(s)
      BY DEF IsText
<1>2. s \in Seq(STRING)
      BY DEF IsText
<1>3. SubSeq(s, 1, Len(s)) = s
      BY <1>2
<1>4. Lies(s, s, a, z)
      BY <1>1, <1>3 DEF Lies
<1>   QED
      BY <1>1, <1>4

LEMMA PartIsText ==
    ASSUME NEW file, IsText(file), NEW s, NEW a \in Nat, NEW z \in Nat, Lies(file, s, a, z)
    PROVE  IsText(s)
<1>1. /\ s \in Seq(STRING) /\ DOMAIN s = 1..z - a + 1
      /\ \A k \in 1..z - a + 1 : s[k] = file[a + k - 1]
      BY LiesIs
<1>2. DOMAIN file = 1..Len(file) /\ Len(file) \in Nat
      BY DEF IsText
<1>3. \A k \in 1..z - a + 1 : a + k - 1 \in DOMAIN file
      BY <1>2 DEF Lies
<1>   QED
      BY <1>1, <1>3 DEF IsText

\* What stands before the first of the tokens T.
LEMMA BeforeIsText ==
    ASSUME NEW s, IsText(s), NEW T
    PROVE  IsText(SubSeq(s, 1, FirstOf(s, T) - 1))
<1>1. PICK a, z \in Nat : a = 1 /\ z = Len(s) /\ Lies(s, s, a, z)
      BY WholeLies
<1>2. PICK q \in Nat : FirstAt(s, s, a, z, T, q)
      BY <1>1, FirstIs
<1>3. PICK y \in Nat : y = q - 1
      BY <1>1, <1>2 DEF FirstAt
<1>4. PICK i, j : i = a - a + 1 /\ j = y - a + 1
      OBVIOUS
<1>5. a <= a /\ a <= y + 1 /\ y <= z /\ i = 1 /\ j = FirstOf(s, T) - 1
      BY <1>1, <1>2, <1>3, <1>4 DEF FirstAt
<1>6. Lies(s, SubSeq(s, i, j), a, y)
      BY <1>1, <1>4, <1>5, PartLies
<1>7. IsText(SubSeq(s, i, j))
      BY <1>6, PartIsText
<1>   QED
      BY <1>5, <1>7

LEMMA BehindIsText ==
    ASSUME NEW s, IsText(s), FirstOf(s, {Opening, Semicolon}) <= Len(s)
    PROVE  /\ IsText(AfterSemicolon(s))
           /\ ~EndsAt(s, Semicolon) => IsText(AfterBracket(s))
<1>1. PICK a, z \in Nat : a = 1 /\ z = Len(s) /\ Lies(s, s, a, z)
      BY WholeLies
<1>2. ASSUME FirstOf(s, {Semicolon}) <= Len(s) PROVE IsText(AfterSemicolon(s))
  <2>1. PICK q \in a..z : Lies(s, AfterSemicolon(s), q + 1, z)
        BY <1>1, <1>2, SemicolonAt
  <2>2. PICK b \in Nat : b = q + 1
        OBVIOUS
  <2>   QED
        BY <2>1, <2>2, PartIsText
<1>3. IsText(AfterSemicolon(s))
  <2>1. CASE FirstOf(s, {Semicolon}) > Len(s)
        BY <2>1 DEF AfterSemicolon
  <2>2. CASE ~(FirstOf(s, {Semicolon}) > Len(s))
    <3>1. PICK T : T = {Semicolon}
          OBVIOUS
    <3>2. PICK f \in Nat : FirstAt(s, s, a, z, T, f)
          BY <1>1, FirstIs
    <3>3. FirstOf(s, T) <= Len(s)
          BY <1>1, <2>2, <3>1, <3>2 DEF FirstAt
    <3>   QED
          BY <1>2, <3>1, <3>3
  <2>   QED
        BY <2>1, <2>2
<1>4. ASSUME ~EndsAt(s, Semicolon) PROVE IsText(AfterBracket(s))
  <2>1. PICK q \in a..z : Lies(s, AfterBracket(s), q + 1, z)
        BY <1>1, <1>4, BracketAt
  <2>2. PICK b \in Nat : b = q + 1
        OBVIOUS
  <2>   QED
        BY <2>1, <2>2, PartIsText
<1>   QED
      BY <1>3, <1>4

LEMMA ContentIsText ==
    ASSUME NEW s, IsText(s), HasContent(s)
    PROVE  IsText(Content(s)) /\ IsText(BehindContent(s))
<1>1. PICK a, z \in Nat : a = 1 /\ z = Len(s) /\ Lies(s, s, a, z)
      BY WholeLies
<1>2. PICK c \in a..z : /\ Lies(s, Content(s), a, c - 1)
                        /\ Lies(s, BehindContent(s), c + 1, z)
      BY <1>1, ContentLies
<1>3. PICK d, e \in Nat : d = c - 1 /\ e = c + 1
      BY <1>1
<1>   QED
      BY <1>1, <1>2, <1>3, PartIsText

LEMMA DirectiveIs ==
    ASSUME NEW line \in Seq(STRING), line # <<>>
    PROVE  /\ Directive(line) \in DirectiveType
           /\ [key |-> line[1], values |-> [i \in 1 .. Len(line) - 1 |-> Capitals(line[i + 1])]]
                \in DirectiveType
<1>   PICK n \in Nat : n = Len(line)
      OBVIOUS
<1>1. n # 0 /\ \A i \in 1..n : line[i] \in STRING
      OBVIOUS
<1>2. PICK k \in Nat : k = n - 1
      BY <1>1
<1>3. Tail(line) \in Seq(STRING)
      OBVIOUS
<1>4. [i \in 1..k |-> Capitals(line[i + 1])] \in Seq(STRING)
  <2>1. \A i \in 1..k : line[i + 1] \in STRING
        BY <1>1, <1>2
  <2>2. \A i \in 1..k : Capitals(line[i + 1]) \in STRING
        BY <2>1, CapitalsAre
  <2>   QED
        BY <2>2
<1>   QED
      BY <1>1, <1>2, <1>3, <1>4 DEF Directive, DirectiveType

LEMMA PathIs ==
    ASSUME NEW line \in Seq(STRING), Len(line) >= 2
    PROVE  PathOf(line) \in Seq(STRING)
<1>   PICK n \in Nat : n = Len(line) - 1
      OBVIOUS
<1>   DEFINE words == [i \in 1..n |-> IF i = 1 THEN Spelled(line[2])
                                      ELSE <<Blank>> \o Spelled(line[i + 1])]
<1>1. ASSUME NEW i \in 1..n + 1 PROVE Spelled(line[i]) \in Seq(STRING)
  <2>1. line[i] \in STRING
        OBVIOUS
  <2>   QED
        BY <2>1, SpelledIs
<1>2. ASSUME NEW i \in 1..n PROVE words[i] \in Seq(STRING)
  <2>1. Spelled(line[i + 1]) \in Seq(STRING) /\ Spelled(line[2]) \in Seq(STRING)
    <3>1. i + 1 \in 1..n + 1 /\ 2 \in 1..n + 1
          OBVIOUS
    <3>   QED
          BY <1>1, <3>1
  <2>2. <<Blank>> \in Seq(STRING)
        BY WordsAssumption, Single
  <2>3. <<Blank>> \o Spelled(line[i + 1]) \in Seq(STRING)
        BY <2>1, <2>2
  <2>   QED
        BY <2>1, <2>3
<1>3. words \in Seq(Seq(STRING))
  <2>   HIDE DEF words
  <2>1. words = [i \in 1..n |-> IF i = 1 THEN Spelled(line[2])
                                ELSE <<Blank>> \o Spelled(line[i + 1])]
        BY DEF words
  <2>2. words = [i \in 1..n |-> words[i]]
        BY <2>1
  <2>   QED
        BY <1>2, <2>2
<1>4. FlattenSeq(words) \in Seq(STRING)
  <2>   HIDE DEF words
  <2>   QED
        BY <1>3, FlattenIs
<1>   QED
      BY <1>4 DEF PathOf

TInv ==
    /\ IsText(rest)
    /\ block = Outside \/ IsText(block)
    /\ inner = Outside \/ IsText(inner)
    /\ server \in ServerType /\ location \in LocationType
    /\ servers \in Seq(ServerType)

LEMMA TInitially == Init => TInv
<1>1. ASSUME Init PROVE IsText(rest)
      BY <1>1, TextsAssumption DEF Init, IsText
<1>   QED
      BY <1>1 DEF Init, TInv, NoServer, NoLocation, ServerType, LocationType

LEMMA ParsedIs == ASSUME TInv, StartUp PROVE TInv'
<1>1. CASE OpenServer /\ ~Throw
  <2>1. /\ FirstOf(rest, {Opening, Semicolon}) <= Len(rest)
        /\ ~EndsAt(rest, Semicolon) /\ HasContent(AfterBracket(rest))
        /\ block' = Content(AfterBracket(rest))
        /\ rest' = BehindContent(AfterBracket(rest))
        /\ server' = NoServer
        /\ UNCHANGED <<phase, text, inner, location, servers>>
        BY <1>1 DEF OpenServer
  <2>2. IsText(block') /\ IsText(rest')
        BY <2>1, BehindIsText, ContentIsText DEF TInv
  <2>3. server' \in ServerType
        BY <2>1 DEF NoServer, ServerType
  <2>   QED
        BY <2>1, <2>2, <2>3 DEF TInv
<1>2. CASE NormalDirective /\ ~Throw
  <2>1. /\ block # Outside /\ FirstOf(block, {Opening, Semicolon}) <= Len(block)
        /\ Line(block) # <<>>
        /\ server' = [server EXCEPT !.dirs = Append(@, Directive(Line(block)))]
        /\ block' = AfterSemicolon(block)
        /\ UNCHANGED <<phase, text, rest, inner, location, servers>>
        BY <1>2 DEF NormalDirective, InServer
  <2>2. IsText(block') /\ IsText(Line(block))
        BY <2>1, BehindIsText, BeforeIsText DEF TInv, Line
  <2>3. Directive(Line(block)) \in DirectiveType
        BY <2>1, <2>2, DirectiveIs DEF IsText
  <2>4. PICK u \in Seq(DirectiveType), l \in Seq(LocationType) :
            server = [dirs |-> u, locs |-> l]
        BY DEF TInv, ServerType
  <2>5. server' = [dirs |-> Append(u, Directive(Line(block))), locs |-> l]
        BY <2>1, <2>4
  <2>6. server' \in ServerType
        BY <2>3, <2>5 DEF ServerType
  <2>   QED
        BY <2>1, <2>2, <2>6 DEF TInv
<1>3. CASE OpenLocation /\ ~Throw
  <2>1. /\ block # Outside /\ FirstOf(block, {Opening, Semicolon}) <= Len(block)
        /\ ~EndsAt(block, Semicolon) /\ HasContent(AfterBracket(block))
        /\ ~(Len(Line(block)) < 2)
        /\ location' = [path |-> PathOf(Line(block)), dirs |-> <<>>]
        /\ inner' = Content(AfterBracket(block))
        /\ block' = BehindContent(AfterBracket(block))
        /\ UNCHANGED <<phase, text, rest, server, servers>>
        BY <1>3 DEF OpenLocation, InServer
  <2>2. IsText(block') /\ IsText(inner') /\ IsText(Line(block))
        BY <2>1, BehindIsText, ContentIsText, BeforeIsText DEF TInv, Line
  <2>3. Line(block) \in Seq(STRING) /\ Len(Line(block)) >= 2
        BY <2>1, <2>2 DEF IsText
  <2>4. PathOf(Line(block)) \in Seq(STRING)
        BY <2>3, PathIs
  <2>5. location' \in LocationType
        BY <2>1, <2>4 DEF LocationType
  <2>   QED
        BY <2>1, <2>2, <2>5 DEF TInv
<1>4. CASE CloseServer
      BY <1>4 DEF CloseServer, TInv
<1>5. CASE LocationDirective /\ ~Throw
  <2>   DEFINE d == IF inner[1] = "allowed_methods"
                    THEN [key |-> inner[1],
                          values |-> [i \in 1 .. Len(InnerLine) - 1 |->
                                        Capitals(InnerLine[i + 1])]]
                    ELSE Directive(InnerLine)
  <2>1. /\ inner # Outside /\ FirstOf(inner, {Semicolon}) <= Len(inner)
        /\ IsLocationDirective(InnerLine)
        /\ location' = [location EXCEPT !.dirs = Append(@, d)]
        /\ inner' = AfterSemicolon(inner)
        /\ UNCHANGED <<phase, text, rest, block, server, servers>>
        BY <1>5 DEF LocationDirective, InLocation
  <2>2. IsText(InnerLine) /\ InnerLine # <<>>
        BY <2>1, BeforeIsText DEF TInv, InnerLine, IsLocationDirective
  <2>3. InnerLine[1] = inner[1] /\ IsText(inner')
    <3>1. PICK a, z \in Nat : a = 1 /\ z = Len(inner) /\ Lies(inner, inner, a, z)
          BY <2>1, WholeLies DEF TInv
    <3>2. PICK q \in a..z : Lies(inner, AfterSemicolon(inner), q + 1, z)
          BY <2>1, <3>1, SemicolonAt DEF TInv
    <3>3. PICK b \in Nat : b = q + 1
          BY <3>1
    <3>4. IsText(inner')
          BY <2>1, <3>1, <3>2, <3>3, PartIsText DEF TInv
    <3>5. PICK m \in Nat : m = FirstOf(inner, {Semicolon}) - 1 /\ m <= Len(inner)
      <4>1. PICK f \in Nat : FirstAt(inner, inner, a, z, {Semicolon}, f)
            BY <2>1, <3>1, FirstIs DEF TInv
      <4>   QED
            BY <2>1, <3>1, <4>1 DEF FirstAt
    <3>6. InnerLine = SubSeq(inner, 1, m) /\ inner \in Seq(STRING)
          BY <2>1, <3>5 DEF InnerLine, TInv, IsText
    <3>7. m # 0
          BY <2>2, <3>6
    <3>8. SubSeq(inner, 1, m)[1] = inner[1]
          BY <3>5, <3>6, <3>7, HeadIs
    <3>   QED
          BY <3>4, <3>6, <3>8
  <2>4. InnerLine \in Seq(STRING)
        BY <2>2 DEF IsText
  <2>5. d \in DirectiveType
        BY <2>2, <2>3, <2>4, DirectiveIs
  <2>   HIDE DEF d
  <2>6. PICK p \in Seq(STRING), e \in Seq(DirectiveType) :
            location = [path |-> p, dirs |-> e]
        BY DEF TInv, LocationType
  <2>7. location' = [path |-> p, dirs |-> Append(e, d)]
        BY <2>1, <2>6
  <2>8. location' \in LocationType
        BY <2>5, <2>7 DEF LocationType
  <2>9. /\ rest' = rest /\ block' = block /\ server' = server /\ servers' = servers
        /\ IsText(inner') /\ location' \in LocationType
        BY <2>1, <2>3, <2>8
  <2>10. /\ IsText(rest') /\ (block' = Outside \/ IsText(block'))
         /\ server' \in ServerType /\ servers' \in Seq(ServerType)
        BY <2>9 DEF TInv
  <2>   QED
        BY <2>9, <2>10 DEF TInv
<1>6. CASE CloseLocation
  <2>1. PICK u \in Seq(DirectiveType), l \in Seq(LocationType) :
            server = [dirs |-> u, locs |-> l]
        BY DEF TInv, ServerType
  <2>2. server' = [dirs |-> u, locs |-> Append(l, location)]
        BY <1>6, <2>1 DEF CloseLocation
  <2>3. server' \in ServerType
        BY <2>2 DEF TInv, ServerType
  <2>   QED
        BY <1>6, <2>3 DEF CloseLocation, TInv
<1>7. CASE UNCHANGED <<rest, block, inner, server, location, servers>>
      BY <1>7 DEF TInv
<1>   QED
      BY <1>1, <1>2, <1>3, <1>4, <1>5, <1>6, <1>7
      DEF StartUp, Read, EndOfText, BadDirective, Validate, Listen, Throw

=============================================================================
