----------------------------- MODULE TreeProofs -----------------------------
(***************************************************************************)
(* That insert() and deleteNode() keep the tree a search tree, and, until  *)
(* line 141 has repainted a sibling it should not, a red-black tree, for   *)
(* every set of keys and every number of equal ones, at every turn of      *)
(* their loops.                                                            *)
(*                                                                         *)
(* Nothing here is computed by recursion.  What a recursive function would *)
(* give for each node is a label that every node of the tree carries: the  *)
(* set of the nodes in its subtree (Labels), and the number of black nodes *)
(* on the way down from it (Heights).  The invariant says that there are   *)
(* such labels; each step is proved to turn those of the old tree into     *)
(* ones of the new tree.  An operation on the record is first shown to be  *)
(* a relation between two trees (Turned for a rotation, Spliced for a node *)
(* cut out, Renamed for one that takes the place of another), and the      *)
(* labels are then followed through the relation.                          *)
(*                                                                         *)
(* The order: rotations; insertFix, the walk down and the attachment; the  *)
(* two walks of deleteNode(); taking a node out; deleteFix; the invariant; *)
(* and last the properties, which follow from the labels.                  *)
(***************************************************************************)
EXTENDS TreeCalls, TLAPS, FiniteSetTheorems

-----------------------------------------------------------------------------
(* Links, labels and what a rotation does to them. *)

\* Linked, for any tree.
Joined(t) ==
  /\ t.root = TNULL => Allocated(t) = {}
  /\ t.root \in Allocated(t) => t.par[t.root] = NULL
  /\ \A n \in Allocated(t) \ {t.root} :
       t.par[n] \in Allocated(t) /\ \E d \in Side : t.kid[t.par[n]][d] = n
  /\ \A n \in Allocated(t), d \in Side :
       t.kid[n][d] \in Allocated(t) => t.par[t.kid[n][d]] = n

\* The label of a child: a leaf has nobody below it.
Lab(b, c) == IF c \in DOMAIN b THEN b[c] ELSE {}

\* A label holds the node and its children's labels; it is in the order of the tree;
\* it is left upwards only through its node; and it holds the labels of its nodes.
Covers(t, b) ==
  \A n \in Allocated(t) :
    b[n] = {n} \cup Lab(b, t.kid[n]["left"]) \cup Lab(b, t.kid[n]["right"])
Orders(t, b) == \A n \in Allocated(t), d \in Side : \A m \in Lab(b, t.kid[n][d]) : On(d, m, n)
Climbs(t, b) == \A n \in Allocated(t) : \A m \in b[n] : m # n => t.par[m] \in b[n]
Nests(t, b) == \A n \in Allocated(t) : \A m \in b[n] : b[m] \subseteq b[n]

\* b labels every node with the nodes of its subtree.
Labels(t, b) == /\ b \in [Allocated(t) -> SUBSET Allocated(t)]
                /\ Covers(t, b) /\ Orders(t, b) /\ Climbs(t, b) /\ Nests(t, b)

\* u is t with a turned down to side d: top, its child on the other side, takes
\* its place, and inner goes over from top to a.
Turned(t, u, a, d, top, inner) ==
  /\ Allocated(u) = Allocated(t)
  /\ u.root = IF t.root = a THEN top ELSE t.root
  /\ u.kid[a][Opposite(d)] = inner /\ u.kid[a][d] = t.kid[a][d]
  /\ u.kid[top][d] = a /\ u.kid[top][Opposite(d)] = t.kid[top][Opposite(d)]
  /\ \A m \in Allocated(t) \ {a, top}, e \in Side :
       u.kid[m][e] = IF t.kid[m][e] = a THEN top ELSE t.kid[m][e]
  /\ u.par[top] = t.par[a] /\ u.par[a] = top
  /\ inner \in Allocated(t) => u.par[inner] = a
  /\ \A m \in Allocated(t) \ {a, top, inner} : u.par[m] = t.par[m]

\* Before and its converse are strict orders.
LEMMA NodeOrder ==
  ASSUME NEW l \in Node, NEW m \in Node, NEW n \in Node, NEW d \in Side
  PROVE  /\ ~On(d, m, m)
         /\ On(d, m, n) => ~On(Opposite(d), m, n) /\ On(Opposite(d), n, m)
         /\ On(d, l, m) /\ On(d, m, n) => On(d, l, n)
<1>1. \A i \in Node : i[1] \in Nat /\ i[2] \in Nat
  BY RedBlackTreeAssumption DEF Node
<1>2. l[1] \in Nat /\ l[2] \in Nat /\ m[1] \in Nat /\ m[2] \in Nat /\ n[1] \in Nat /\ n[2] \in Nat
  BY <1>1
<1>3. ~Before(m, m) /\ ~(Before(m, n) /\ Before(n, m))
  BY <1>2 DEF Before, KeyOf
<1>4. /\ Before(l, m) /\ Before(m, n) => Before(l, n)
      /\ Before(n, m) /\ Before(m, l) => Before(n, l)
  BY <1>2 DEF Before, KeyOf
<1>5. CASE d = "left"
  BY <1>3, <1>4, <1>5 DEF On, Opposite
<1>6. CASE d = "right"
  BY <1>3, <1>4, <1>6 DEF On, Opposite
<1> QED BY <1>5, <1>6 DEF Side

LEMMA OppositeIs ==
  ASSUME NEW d \in Side
  PROVE  Opposite(d) \in Side /\ Opposite(d) # d /\ Opposite(Opposite(d)) = d
         /\ \A e \in Side : e = d \/ e = Opposite(d)
BY DEF Side, Opposite

\* A node is not below its child, and its two children are two nodes.
LEMMA ChildFacts ==
  ASSUME NEW t, IsTree(t), Joined(t), NEW b, Labels(t, b),
         NEW n \in Allocated(t), NEW d \in Side, t.kid[n][d] \in Allocated(t)
  PROVE  /\ n \notin b[t.kid[n][d]] /\ t.kid[n][d] # n
         /\ t.kid[n][Opposite(d)] # t.kid[n][d]
         /\ t.par[n] # t.kid[n][d]
         /\ b[t.kid[n][d]] \subseteq b[n]
<1> DEFINE c == t.kid[n][d]
<1>0. n \in Node /\ c \in Node /\ c \in Allocated(t)
  BY DEF IsTree
<1>1. \A m \in Allocated(t) : m \in b[m] /\ Lab(b, m) = b[m]
  BY DEF Labels, Covers, Lab
<1>2. \A m \in b[c] : On(d, m, n)
  BY <1>1 DEF Labels, Orders
<1>3. n \notin b[c] /\ c # n
  BY <1>0, <1>1, <1>2, NodeOrder
<1>4. t.kid[n][Opposite(d)] # c
  <2> SUFFICES ASSUME t.kid[n][Opposite(d)] = c PROVE FALSE
    OBVIOUS
  <2>1. On(Opposite(d), c, n) /\ On(d, c, n)
    BY <1>0, <1>1, <1>2, OppositeIs DEF Labels, Orders
  <2> QED BY <2>1, <1>0, NodeOrder
<1>5. b[c] \subseteq b[n]
  BY <1>1 DEF Labels, Covers, Side
<1>6. t.par[n] # c
  <2> SUFFICES ASSUME t.par[n] = c PROVE FALSE
    OBVIOUS
  <2>1. n # t.root
    BY <1>0, RedBlackTreeAssumption DEF Joined, Nobody
  <2>2. PICK e \in Side : t.kid[c][e] = n
    BY <2>1 DEF Joined
  <2>3. n \in b[c]
    BY <2>2, <1>1, <1>0 DEF Labels, Covers, Side
  <2> QED BY <2>3, <1>3
<1> QED BY <1>3, <1>4, <1>5, <1>6

\* The fields of a rotated tree, one at a time.
LEMMA RotateParts ==
  ASSUME NEW t, IsTree(t), NEW a, NEW d
  PROVE  /\ DOMAIN Rotate(t, a, d) = {"root", "kid", "par", "red", "skew", "bad"}
         /\ Rotate(t, a, d).root = IF t.par[a] = NULL THEN t.kid[a][Opposite(d)] ELSE t.root
         /\ Rotate(t, a, d).red = t.red
         /\ Rotate(t, a, d).skew = t.skew
         /\ Rotate(t, a, d).bad = t.bad
BY DEF IsTree, Rotate

TurnedKid(t, a, d) ==
  LET o == Opposite(d) top == t.kid[a][o]
  IN  [t.kid EXCEPT ![a][o] = t.kid[top][d], ![top][d] = a]

LEMMA RotateKid ==
  ASSUME NEW t, IsTree(t), NEW a, NEW d
  PROVE  /\ t.par[a] = NULL => Rotate(t, a, d).kid = TurnedKid(t, a, d)
         /\ t.par[a] # NULL =>
              Rotate(t, a, d).kid =
                [TurnedKid(t, a, d) EXCEPT ![t.par[a]][SideOf(t, a)] = t.kid[a][Opposite(d)]]
BY DEF IsTree, Rotate, RotatedKid, TurnedKid

LEMMA RotatePar ==
  ASSUME NEW t, IsTree(t), NEW a, NEW d, NEW top, top = t.kid[a][Opposite(d)],
         NEW inner, inner = t.kid[top][d]
  PROVE  Rotate(t, a, d).par =
           [t.par EXCEPT ![inner] = IF inner = TNULL THEN @ ELSE a, ![top] = t.par[a], ![a] = top]
BY DEF IsTree, Rotate, RotatedPar

\* The nodes a rotation relinks are different nodes.
LEMMA RotateApart ==
  ASSUME NEW t, IsTree(t), Joined(t), NEW b, Labels(t, b),
         NEW a \in Allocated(t), NEW d \in Side,
         NEW top \in Allocated(t), top = t.kid[a][Opposite(d)],
         NEW inner, inner = t.kid[top][d]
  PROVE  /\ inner \in Allocated(t) \cup {TNULL} /\ t.par[a] \in Allocated(t) \cup {NULL}
         /\ NULL \notin Allocated(t) /\ TNULL \notin Allocated(t) /\ TNULL # NULL
         /\ top # a /\ t.kid[a][d] # top /\ t.par[a] # top /\ t.par[a] # a
         /\ a \notin b[top] /\ t.par[top] = a
         /\ inner # a /\ inner # top
         /\ inner \in Allocated(t) => inner # t.par[a] /\ t.par[inner] = top
                                      /\ t.kid[top][Opposite(d)] # inner
         /\ t.kid[top][Opposite(d)] \notin {a, top}
<1> DEFINE o == Opposite(d)
           p == t.par[a]
<1>0. /\ o \in Side /\ o # d
      /\ inner \in Allocated(t) \cup {TNULL} /\ p \in Allocated(t) \cup {NULL}
      /\ NULL \notin Allocated(t) /\ TNULL \notin Allocated(t) /\ TNULL # NULL
  BY OppositeIs, RedBlackTreeAssumption DEF IsTree, Side, Nobody
<1>1. top # a /\ t.kid[a][d] # top /\ p # top /\ a \notin b[top] /\ t.par[top] = a
  BY <1>0, ChildFacts, OppositeIs DEF Joined
<1>2. p # a
  BY <1>0, <1>1, ChildFacts, OppositeIs DEF Joined
<1>3. ASSUME inner \in Allocated(t)
           PROVE  /\ inner # top /\ inner # p /\ inner # a
                  /\ t.par[inner] = top /\ t.kid[top][o] # inner
  <2>1. inner # top /\ b[inner] \subseteq b[top] /\ t.par[inner] = top
    BY <1>0, <1>3, ChildFacts DEF Joined
  <2>2. inner # a
    BY <1>1, <1>2, <2>1
  <2>3. ASSUME inner = p PROVE FALSE
    <3>1. a # t.root
      BY <2>3, <1>3, <1>0 DEF Joined
    <3>2. PICK e \in Side : t.kid[inner][e] = a
      BY <3>1, <2>3 DEF Joined
    <3>3. b[a] \subseteq b[inner] /\ a \in b[a]
      BY <3>2, <1>3, ChildFacts DEF Labels, Covers
    <3> QED BY <3>3, <2>1, <1>1
  <2>4. t.kid[top][o] # inner
    BY <1>3, ChildFacts
  <2> QED BY <2>1, <2>2, <2>3, <2>4
<1>4. t.kid[top][o] \notin {a, top}
  <2>1. t.kid[top][o] \in Allocated(t) \cup {TNULL}
    BY <1>0 DEF IsTree
  <2> QED BY <2>1, <1>0, <1>1, ChildFacts
<1> QED BY <1>1, <1>2, <1>3, <1>4, <1>0

\* What leftRotate and rightRotate do is to turn the tree.
LEMMA RotateIsTurned ==
  ASSUME NEW t, IsTree(t), Joined(t), NEW b, Labels(t, b),
         NEW a \in Allocated(t), NEW d \in Side,
         NEW top \in Allocated(t), top = t.kid[a][Opposite(d)],
         NEW inner, inner = t.kid[top][d]
  PROVE  Turned(t, Rotate(t, a, d), a, d, top, inner) /\ IsTree(Rotate(t, a, d))
<1> DEFINE o == Opposite(d)
           p == t.par[a]
           turned == TurnedKid(t, a, d)
           u == Rotate(t, a, d)
<1>0. /\ o \in Side /\ o # d /\ top \in Allocated(t)
      /\ inner \in Allocated(t) \cup {TNULL} /\ p \in Allocated(t) \cup {NULL}
      /\ NULL \notin Allocated(t) /\ TNULL \notin Allocated(t) /\ TNULL # NULL
  BY OppositeIs, RedBlackTreeAssumption DEF IsTree, Side, Nobody
<1>1. /\ top # a /\ t.kid[a][d] # top /\ p # top /\ p # a
      /\ inner # a /\ inner # top /\ inner \in Allocated(t) => inner # p
  BY <1>0, RotateApart
<1>2. turned \in [Allocated(t) -> [Side -> Allocated(t) \cup {TNULL}]]
  BY <1>0, <1>1 DEF IsTree, TurnedKid
<1>3. /\ turned[a][o] = inner /\ turned[a][d] = t.kid[a][d]
      /\ turned[top][d] = a /\ turned[top][o] = t.kid[top][o]
      /\ \A m \in Allocated(t) \ {a, top} : turned[m] = t.kid[m]
  BY <1>0, <1>1 DEF IsTree, TurnedKid
<1>4. /\ u.kid \in [Allocated(t) -> [Side -> Allocated(t) \cup {TNULL}]]
      /\ u.kid[a] = turned[a] /\ u.kid[top] = turned[top]
      /\ \A m \in Allocated(t) \ {a, top}, e \in Side :
           u.kid[m][e] = IF t.kid[m][e] = a THEN top ELSE t.kid[m][e]
  <2>1. u.kid = IF p = NULL THEN turned ELSE [turned EXCEPT ![p][SideOf(t, a)] = top]
    BY RotateKid
  <2>2. \A m \in Allocated(t), e \in Side : t.kid[m][e] = a => m = p
    BY DEF Joined
  <2>3. CASE p = NULL
    <3> HIDE DEF turned, u, p
    <3>1. u.kid = turned
      BY <2>1, <2>3
    <3>2. \A m \in Allocated(t), e \in Side : t.kid[m][e] # a
      BY <2>2, <2>3, <1>0
    <3> QED BY <3>1, <3>2, <1>2, <1>3
  <2>4. CASE p \in Allocated(t)
    <3>1. a # t.root
      BY <2>4, <1>0 DEF Joined
    <3>2. PICK s \in Side : t.kid[p][s] = a
      BY <3>1 DEF Joined
    <3>3. t.kid[p][Opposite(s)] # a
      BY <3>2, <2>4, ChildFacts
    <3>4. SideOf(t, a) = s
      BY <3>2, <3>3 DEF SideOf, Opposite, Side
    <3>5. u.kid = [turned EXCEPT ![p][s] = top]
      BY <2>1, <2>4, <3>4, <1>0
    <3>6. \A e \in Side : e # s => t.kid[p][e] # a
      BY <3>3, OppositeIs
    <3> HIDE DEF turned, u, p
    <3>7. u.kid \in [Allocated(t) -> [Side -> Allocated(t) \cup {TNULL}]]
      BY <3>5, <2>4, <1>0, <1>2
    <3>8. \A m \in Allocated(t) : m # p => u.kid[m] = turned[m]
      BY <3>5, <1>2
    <3>9. \A e \in Side : u.kid[p][e] = IF e = s THEN top ELSE turned[p][e]
      BY <3>5, <1>2, <2>4
    <3>10. u.kid[a] = turned[a] /\ u.kid[top] = turned[top]
      BY <3>8, <1>0, <1>1
    <3>11. ASSUME NEW m \in Allocated(t) \ {a, top}, NEW e \in Side
           PROVE  u.kid[m][e] = IF t.kid[m][e] = a THEN top ELSE t.kid[m][e]
      <4>1. turned[m] = t.kid[m]
        BY <1>3
      <4>2. CASE m = p
        BY <4>1, <4>2, <3>2, <3>6, <3>9
      <4>3. CASE m # p
        BY <4>1, <4>3, <3>8, <2>2
      <4> QED BY <4>2, <4>3
    <3> QED BY <3>7, <3>10, <3>11
  <2> QED BY <2>3, <2>4, <1>0
<1>5. /\ u.par \in [Allocated(t) \cup {TNULL} -> Allocated(t) \cup {NULL}]
      /\ u.par[top] = p /\ u.par[a] = top
      /\ inner \in Allocated(t) => u.par[inner] = a
      /\ \A m \in Allocated(t) \ {a, top, inner} : u.par[m] = t.par[m]
  <2>1. u.par = [t.par EXCEPT ![inner] = IF inner = TNULL THEN @ ELSE a, ![top] = p, ![a] = top]
    BY RotatePar
  <2>2. t.par \in [Allocated(t) \cup {TNULL} -> Allocated(t) \cup {NULL}]
    BY DEF IsTree
  <2> HIDE DEF u, p
  <2>3. u.par \in [Allocated(t) \cup {TNULL} -> Allocated(t) \cup {NULL}]
    <3>1. PICK i : i = IF inner = TNULL THEN t.par[inner] ELSE a
      OBVIOUS
    <3>2. i \in Allocated(t) \cup {NULL}
      BY <3>1, <2>2, <1>0
    <3>3. u.par = [[[t.par EXCEPT ![inner] = i] EXCEPT ![top] = p] EXCEPT ![a] = top]
      BY Zenon, <2>1, <3>1
    <3> QED BY <3>2, <3>3, <2>2, <1>0
  <2>4. u.par[top] = p /\ u.par[a] = top /\ (inner \in Allocated(t) => u.par[inner] = a)
    BY <2>1, <2>2, <1>0, <1>1
  <2>5. \A m \in Allocated(t) \ {a, top, inner} : u.par[m] = t.par[m]
    BY <2>1, <2>2, <1>0
  <2> QED BY <2>3, <2>4, <2>5
<1>6. u.root = (IF t.root = a THEN top ELSE t.root)
  <2>1. u.root = IF p = NULL THEN top ELSE t.root
    BY RotateParts
  <2>2. p = NULL <=> a = t.root
    BY <1>0 DEF Joined
  <2> QED BY <2>1, <2>2
<1>7. Allocated(u) = Allocated(t)
  BY <1>4 DEF Allocated
<1>8. u.red = t.red /\ u.skew = t.skew /\ u.bad = t.bad
      /\ DOMAIN u = {"root", "kid", "par", "red", "skew", "bad"}
  BY RotateParts
<1>9. Turned(t, u, a, d, top, inner)
  <2> HIDE DEF u
  <2> QED BY <1>3, <1>4, <1>5, <1>6, <1>7, <1>8 DEF Turned
<1>10. IsTree(u)
  <2> HIDE DEF u, p
  <2> QED BY <1>0, <1>4, <1>5, <1>6, <1>7, <1>8 DEF IsTree
<1> QED BY <1>9, <1>10

LEMMA TurnedJoined ==
  ASSUME NEW t, IsTree(t), Joined(t), NEW b, Labels(t, b),
         NEW a \in Allocated(t), NEW d \in Side,
         NEW top \in Allocated(t), top = t.kid[a][Opposite(d)],
         NEW inner, inner = t.kid[top][d],
         NEW u, IsTree(u), Turned(t, u, a, d, top, inner)
  PROVE  Joined(u)
<1> DEFINE o == Opposite(d)
<1>0. /\ o \in Side /\ o # d /\ \A e \in Side : e = d \/ e = o
      /\ Allocated(u) = Allocated(t)
  BY OppositeIs DEF Turned
<1>1. u.root = TNULL => Allocated(u) = {}
  BY <1>0, RotateApart DEF Turned, Joined
<1>2. u.root \in Allocated(u) => u.par[u.root] = NULL
  <2>1. CASE t.root = a
    BY <2>1 DEF Turned, Joined
  <2>2. CASE t.root # a /\ t.root \in Allocated(t)
    <3>1. t.root \notin {a, top, inner}
      BY <2>2, RotateApart DEF Joined
    <3> QED BY <3>1, <2>2 DEF Turned, Joined
  <2> QED BY <2>1, <2>2, <1>0 DEF Turned
<1>3. ASSUME NEW n \in Allocated(t), n # u.root
      PROVE  u.par[n] \in Allocated(t) /\ \E e \in Side : u.kid[u.par[n]][e] = n
  <2>1. CASE n = top
    <3>1. a # t.root
      BY <2>1, <1>3 DEF Turned
    <3>2. PICK e \in Side : t.kid[t.par[a]][e] = a
      BY <3>1 DEF Joined
    <3>3. t.par[a] \in Allocated(t) \ {a, top}
      BY <3>1, RotateApart DEF Joined
    <3>4. u.kid[t.par[a]][e] = top
      BY <3>2, <3>3 DEF Turned
    <3> QED BY <3>3, <3>4, <2>1 DEF Turned
  <2>2. CASE n = a
    BY <2>2, <1>0 DEF Turned
  <2>3. CASE n = inner
    BY Zenon, <2>3, <1>0 DEF Turned
  <2>4. CASE n \notin {a, top, inner}
    <3> DEFINE m == t.par[n]
    <3>1. n # t.root
      BY <2>4, <1>3 DEF Turned
    <3>2. PICK e \in Side : m \in Allocated(t) /\ t.kid[m][e] = n
      BY <3>1 DEF Joined
    <3>3. u.par[n] = m
      BY <2>4 DEF Turned
    <3>4. u.kid[m][e] = n
      <4>1. CASE m \notin {a, top}
        BY <4>1, <3>2, <2>4 DEF Turned
      <4>2. CASE m = a
        BY <4>2, <3>2, <2>4, <1>0 DEF Turned
      <4>3. CASE m = top
        BY <4>3, <3>2, <2>4, <1>0 DEF Turned
      <4> QED BY <4>1, <4>2, <4>3
    <3> QED BY <3>2, <3>3, <3>4
  <2> QED BY Zenon, <2>1, <2>2, <2>3, <2>4
<1>4. ASSUME NEW n \in Allocated(t), NEW e \in Side, u.kid[n][e] \in Allocated(t)
      PROVE  u.par[u.kid[n][e]] = n
  <2>1. CASE n = a
    <3>1. CASE e = o
      BY <3>1, <2>1, <1>4 DEF Turned
    <3>2. CASE e = d
      <4>1. u.kid[n][e] = t.kid[a][d] /\ t.par[t.kid[a][d]] = a
        BY <3>2, <2>1, <1>4 DEF Turned, Joined
      <4>2. t.kid[a][d] \notin {a, top, inner}
        BY <4>1, <1>4, RotateApart
      <4> QED BY <4>1, <4>2, <2>1, <1>4 DEF Turned
    <3> QED BY <3>1, <3>2, <1>0
  <2>2. CASE n = top
    <3>1. CASE e = d
      BY <3>1, <2>2 DEF Turned
    <3>2. CASE e = o
      <4>1. u.kid[n][e] = t.kid[top][o] /\ t.par[t.kid[top][o]] = top
        BY <3>2, <2>2, <1>0, <1>4 DEF Turned, Joined
      <4>2. t.kid[top][o] \notin {a, top, inner}
        BY <4>1, <1>4, RotateApart
      <4> QED BY <4>1, <4>2, <2>2, <1>4 DEF Turned
    <3> QED BY <3>1, <3>2, <1>0
  <2>3. CASE n \notin {a, top}
    <3>1. CASE t.kid[n][e] = a
      BY <3>1, <2>3 DEF Turned, Joined
    <3>2. CASE t.kid[n][e] # a
      <4>1. u.kid[n][e] = t.kid[n][e] /\ t.par[t.kid[n][e]] = n
        BY <3>2, <2>3, <1>4 DEF Turned, Joined
      <4>2. t.kid[n][e] \notin {a, top, inner}
        BY <4>1, <3>2, <2>3, <1>4, RotateApart
      <4> QED BY <4>1, <4>2, <1>4 DEF Turned
    <3> QED BY <3>1, <3>2
  <2> QED BY <2>1, <2>2, <2>3
<1> HIDE DEF o
<1> QED BY <1>0, <1>1, <1>2, <1>3, <1>4 DEF Joined

\* The labels after a turn: top has what a had, and a what is left below it.
TurnedLab(t, b, a, d, top, inner) ==
  [n \in Allocated(t) |-> IF n = top THEN b[a]
                          ELSE IF n = a THEN {a} \cup Lab(b, t.kid[a][d]) \cup Lab(b, inner)
                          ELSE b[n]]

LEMMA CoverOf ==
  ASSUME NEW t, NEW b, Labels(t, b), NEW n \in Allocated(t), NEW d \in Side
  PROVE  b[n] = {n} \cup Lab(b, t.kid[n][d]) \cup Lab(b, t.kid[n][Opposite(d)])
BY DEF Labels, Covers, Side, Opposite

LEMMA TurnedLabels ==
  ASSUME NEW t, IsTree(t), Joined(t), NEW b, Labels(t, b),
         NEW a \in Allocated(t), NEW d \in Side,
         NEW top \in Allocated(t), top = t.kid[a][Opposite(d)],
         NEW inner, inner = t.kid[top][d],
         NEW u, IsTree(u), Turned(t, u, a, d, top, inner)
  PROVE  Labels(u, TurnedLab(t, b, a, d, top, inner))
<1> DEFINE o == Opposite(d)
           bb == TurnedLab(t, b, a, d, top, inner)
           out == t.kid[a][d]
           far == t.kid[top][o]
<1>0. /\ o \in Side /\ o # d /\ \A e \in Side : e = d \/ e = o
      /\ Allocated(u) = Allocated(t) /\ Allocated(t) \subseteq Node
      /\ inner \notin {a, top} /\ out \notin {a, top} /\ far \notin {a, top}
      /\ Opposite(o) = d
  <2>1. out # a
    <3>1. out \in Allocated(t) \cup {TNULL}
      BY DEF IsTree
    <3> QED BY <3>1, RotateApart, ChildFacts
  <2>2. o \in Side /\ o # d /\ (\A e \in Side : e = d \/ e = o) /\ Opposite(o) = d
    BY OppositeIs
  <2>3. inner \notin {a, top} /\ out # top /\ far \notin {a, top}
    BY RotateApart
  <2>4. Allocated(u) = Allocated(t) /\ Allocated(t) \subseteq Node
    BY DEF Turned, IsTree
  <2> QED BY <2>1, <2>2, <2>3, <2>4
<1>1. /\ b[a] = {a} \cup Lab(b, out) \cup b[top]
      /\ b[top] = {top} \cup Lab(b, inner) \cup Lab(b, far)
      /\ Lab(b, a) = b[a] /\ Lab(b, top) = b[top]
      /\ \A n \in Allocated(t) : b[n] \subseteq Allocated(t)
  BY CoverOf DEF Labels, Lab
<1>2. /\ bb[top] = b[a] /\ bb[a] = {a} \cup Lab(b, out) \cup Lab(b, inner)
      /\ \A n \in Allocated(t) \ {a, top} : bb[n] = b[n]
      /\ Lab(bb, top) = b[a] /\ Lab(bb, a) = bb[a]
      /\ \A n : n \notin {a, top} => Lab(bb, n) = Lab(b, n)
      /\ DOMAIN bb = Allocated(t)
  BY RotateApart DEF TurnedLab, Lab, Labels
<1>3. bb \in [Allocated(t) -> SUBSET Allocated(t)]
  BY Zenon, <1>1, <1>2 DEF TurnedLab
<1>9. /\ \A m \in Lab(b, out) : m \notin {a, top} /\ m \notin b[top]
      /\ \A m \in Lab(b, inner) : m \notin {a, top}
  <2>1. ASSUME NEW m \in Lab(b, out) PROVE m \notin {a, top} /\ m \notin b[top]
    <3>1. m \in Node /\ On(d, m, a) /\ top \in b[top]
      BY Zenon, <1>0, <1>1 DEF Labels, Orders
    <3>2. \A k \in b[top] : On(o, k, a)
      BY <1>0, <1>1 DEF Labels, Orders
    <3> QED BY <3>1, <3>2, <1>0, NodeOrder
  <2>2. ASSUME NEW m \in Lab(b, inner) PROVE m \notin {a, top}
    <3>1. m \in Node /\ On(d, m, top) /\ m \in b[top]
      BY <1>0, <1>1 DEF Labels, Orders
    <3> QED BY <3>1, <1>0, NodeOrder, RotateApart
  <2> QED BY <2>1, <2>2
<1>8. ASSUME NEW n \in Allocated(t) \ {a, top}, NEW e \in Side
      PROVE  Lab(bb, u.kid[n][e]) = Lab(b, t.kid[n][e])
  <2>1. CASE t.kid[n][e] = a
    BY Zenon, <2>1, <1>1, <1>2 DEF Turned
  <2>2. CASE t.kid[n][e] # a
    <3>1. t.kid[n][e] # top
      BY RotateApart DEF Joined
    <3> QED BY Zenon, <3>1, <2>2, <1>2 DEF Turned
  <2> QED BY <2>1, <2>2
<1>4. Covers(u, bb)
  <2> SUFFICES ASSUME NEW n \in Allocated(t)
               PROVE  bb[n] = {n} \cup Lab(bb, u.kid[n][d]) \cup Lab(bb, u.kid[n][o])
    BY <1>0 DEF Covers, Side
  <2>1. CASE n = a
    <3>1. u.kid[a][d] = out /\ u.kid[a][o] = inner
      BY Zenon DEF Turned
    <3>2. Lab(bb, out) = Lab(b, out) /\ Lab(bb, inner) = Lab(b, inner)
      BY <1>0, <1>2
    <3> HIDE DEF bb, o, out, far
    <3> QED BY <3>1, <3>2, <2>1, <1>2
  <2>2. CASE n = top
    <3>1. u.kid[top][d] = a /\ u.kid[top][o] = far
      BY Zenon DEF Turned
    <3>2. b[a] = {top} \cup bb[a] \cup Lab(b, far)
      BY Zenon, <1>1, <1>2
    <3>3. Lab(bb, far) = Lab(b, far) /\ Lab(bb, a) = bb[a] /\ bb[top] = b[a]
      BY <1>0, <1>2
    <3> HIDE DEF bb, o, out, far
    <3> QED BY <3>1, <3>2, <3>3, <2>2
  <2>3. CASE n \notin {a, top}
    <3>1. \A e \in Side : Lab(bb, u.kid[n][e]) = Lab(b, t.kid[n][e])
      BY <2>3, <1>8
    <3>2. b[n] = {n} \cup Lab(b, t.kid[n][d]) \cup Lab(b, t.kid[n][o])
      BY CoverOf
    <3> HIDE DEF bb, o
    <3> QED BY <3>1, <3>2, <2>3, <1>0, <1>2
  <2> QED BY <2>1, <2>2, <2>3
<1>5. Orders(u, bb)
  <2> SUFFICES ASSUME NEW n \in Allocated(t), NEW e \in Side, NEW m \in Lab(bb, u.kid[n][e])
               PROVE  On(e, m, n)
    BY <1>0 DEF Orders
  <2>0. \A i \in Allocated(t), f \in Side : \A k \in Lab(b, t.kid[i][f]) : On(f, k, i)
    BY DEF Labels, Orders
  <2>1. CASE n = a
    <3>1. CASE e = d
      BY Zenon, <3>1, <2>0, <2>1, <1>0, <1>2 DEF Turned
    <3>2. CASE e = o
      <4>1. m \in Lab(b, inner)
        BY Zenon, <3>2, <2>1, <1>0, <1>2 DEF Turned
      <4>2. m \in b[top]
        BY <4>1, <1>1
      <4> QED BY <4>2, <3>2, <2>0, <2>1, <1>0, <1>1
    <3> QED BY <3>1, <3>2, <1>0
  <2>2. CASE n = top
    <3>1. CASE e = d
      <4>1. m \in {a} \cup Lab(b, out) \cup Lab(b, inner)
        BY Zenon, <3>1, <2>2, <1>0, <1>2 DEF Turned
      <4>2. On(o, top, a) /\ a \in Node /\ top \in Node
        BY <2>0, <1>0, <1>1
      <4>3. On(d, a, top)
        BY <4>2, <1>0, NodeOrder
      <4>4. CASE m \in Lab(b, inner)
        BY <4>4, <3>1, <2>0, <2>2
      <4>5. CASE m \in Lab(b, out)
        <5>1. m \in Node
          BY <4>5, <1>0, <1>1
        <5>2. On(d, m, a)
          BY <4>5, <2>0
        <5> QED BY <5>1, <5>2, <4>2, <4>3, <3>1, <2>2, NodeOrder
      <4> QED BY <4>1, <4>3, <4>4, <4>5, <3>1, <2>2
    <3>2. CASE e = o
      BY Zenon, <3>2, <2>0, <2>2, <1>0, <1>2 DEF Turned
    <3> QED BY <3>1, <3>2, <1>0
  <2>3. CASE n \notin {a, top}
    <3>1. Lab(bb, u.kid[n][e]) = Lab(b, t.kid[n][e])
      BY <2>3, <1>8
    <3> QED BY <3>1, <2>0
  <2> QED BY <2>1, <2>2, <2>3
<1>6. Climbs(u, bb)
  <2> SUFFICES ASSUME NEW n \in Allocated(t), NEW m \in bb[n], m # n
               PROVE  u.par[m] \in bb[n]
    BY <1>0 DEF Climbs
  <2>0. /\ \A i \in Allocated(t) : \A k \in b[i] : k # i => t.par[k] \in b[i]
        /\ \A i \in Allocated(t) : \A k \in b[i] : b[k] \subseteq b[i]
        /\ \A i \in Allocated(t) : i \in b[i]
    BY DEF Labels, Climbs, Nests, Covers
  <2>4. m \in Allocated(t)
    BY <1>0, <1>3
  <2>5. /\ u.par[top] = t.par[a] /\ u.par[a] = top /\ t.par[top] = a
        /\ inner \in Allocated(t) => u.par[inner] = a /\ t.par[inner] = top
        /\ m \notin {a, top, inner} => u.par[m] = t.par[m]
    BY <2>4, RotateApart DEF Turned
  <2>1. CASE n = a
    <3>1. m \in Lab(b, out) \/ m \in Lab(b, inner)
      BY <2>1, <1>2
    <3>2. CASE m \in Lab(b, out)
      <4>1. out \in Allocated(t) /\ Lab(b, out) = b[out] /\ t.par[out] = a
        BY <3>2 DEF Lab, Labels, Joined
      <4>2. m \notin b[top]
        BY <3>2, <1>9
      <4>3. m \notin {a, top, inner}
        BY Zenon, <4>2, <2>1, <2>0, <1>1, <2>4 DEF Lab, Labels
      <4>4. u.par[m] \in {a} \cup b[out]
        BY <4>1, <4>3, <3>2, <2>0, <2>5
      <4> QED BY Zenon, <4>1, <4>4, <2>1, <1>2
    <3>3. CASE m \in Lab(b, inner)
      <4>1. inner \in Allocated(t) /\ Lab(b, inner) = b[inner] /\ m # top
        BY <3>3, <1>9 DEF Lab, Labels
      <4>2. u.par[m] \in {a} \cup b[inner]
        BY <4>1, <3>3, <2>0, <2>1, <2>5
      <4>3. {a} \cup b[inner] \subseteq bb[n]
        BY Zenon, <4>1, <2>1, <1>2
      <4> QED BY <4>2, <4>3
    <3> QED BY Zenon, <3>1, <3>2, <3>3
  <2>2. CASE n = top
    <3>1. m # top /\ m \in b[a] /\ a \in b[a] /\ top \in b[a]
      BY <2>0, <2>2, <1>1, <1>2
    <3>2. m \notin {a, inner} => u.par[m] \in b[a]
      BY Zenon, <3>1, <2>0, <2>5
    <3>3. bb[n] = b[a]
      BY <2>2, <1>2
    <3>4. m = a => u.par[m] \in b[a]
      BY <3>1, <2>5
    <3>5. m = inner => u.par[m] \in b[a]
      BY <3>1, <2>4, <2>5
    <3> HIDE DEF bb
    <3> QED BY <3>2, <3>3, <3>4, <3>5
  <2>3. CASE n \notin {a, top}
    <3>1. m \in b[n] /\ bb[n] = b[n]
      BY <2>3, <1>2
    <3>2. \A k \in b[n] : k # n => t.par[k] \in b[n]
      BY <2>0
    <3>3. top \in b[n] => a \in b[n] /\ t.par[a] \in b[n]
      BY <3>2, <2>3, <2>5
    <3>4. a \in b[n] => top \in b[n]
      BY <2>0, <1>1
    <3>5. CASE m \in {a, top}
      BY <3>1, <3>3, <3>4, <3>5, <2>5
    <3>6. CASE m = inner /\ m \notin {a, top}
      BY <3>1, <3>2, <3>3, <3>6, <2>3, <2>4, <2>5
    <3>7. CASE m \notin {a, top, inner}
      BY Zenon, <3>1, <3>2, <3>7, <2>5
    <3> QED BY Zenon, <3>5, <3>6, <3>7
  <2> QED BY <2>1, <2>2, <2>3
<1>7. Nests(u, bb)
  <2> SUFFICES ASSUME NEW n \in Allocated(t), NEW m \in bb[n]
               PROVE  bb[m] \subseteq bb[n]
    BY <1>0 DEF Nests
  <2>0. /\ \A i \in Allocated(t) : \A k \in b[i] : k # i => t.par[k] \in b[i]
        /\ \A i \in Allocated(t) : \A k \in b[i] : b[k] \subseteq b[i]
    BY DEF Labels, Climbs, Nests
  <2>1. bb[a] \subseteq b[a] /\ m \in Allocated(t)
    BY Zenon, <1>0, <1>1, <1>2, <1>3
  <2>2. CASE n = a
    <3>1. CASE m = a
      BY <3>1, <2>2
    <3>2. CASE m \in Lab(b, out)
      <4>1. out \in Allocated(t) /\ Lab(b, out) = b[out] /\ m \notin {a, top}
        BY <3>2, <1>9 DEF Lab, Labels
      <4>2. bb[m] = b[m] /\ b[out] \subseteq bb[n]
        BY Zenon, <4>1, <2>1, <2>2, <1>2
      <4>3. b[m] \subseteq b[out]
        BY <4>1, <3>2, <2>0
      <4> QED BY <4>2, <4>3
    <3>3. CASE m \in Lab(b, inner)
      <4>1. inner \in Allocated(t) /\ Lab(b, inner) = b[inner] /\ m \notin {a, top}
        BY <3>3, <1>9 DEF Lab, Labels
      <4>2. bb[m] = b[m] /\ b[inner] \subseteq bb[n]
        BY Zenon, <4>1, <2>1, <2>2, <1>2
      <4>3. b[m] \subseteq b[inner]
        BY <4>1, <3>3, <2>0
      <4> QED BY <4>2, <4>3
    <3> QED BY Zenon, <3>1, <3>2, <3>3, <2>2, <1>2
  <2>3. CASE n = top
    <3>1. bb[n] = b[a] /\ (m \notin {a, top} => bb[m] = b[m])
      BY <2>1, <2>3, <1>2
    <3>2. m = top => bb[m] = b[a]
      BY Zenon, <1>2
    <3> HIDE DEF bb
    <3> QED BY Zenon, <3>1, <3>2, <2>0, <2>1
  <2>4. CASE n \notin {a, top}
    <3>1. m \in b[n] /\ bb[n] = b[n]
      BY <2>4, <1>2
    <3>2. m = top => b[a] \subseteq b[n]
      BY <3>1, <2>4, <2>0, RotateApart
    <3>3. m = top => bb[m] = b[a]
      BY <1>2
    <3>4. m \notin {a, top} => bb[m] = b[m]
      BY <2>1, <1>2
    <3> HIDE DEF bb
    <3> QED BY Zenon, <3>1, <3>2, <3>3, <3>4, <2>0, <2>1
  <2> QED BY Zenon, <2>2, <2>3, <2>4
<1> QED BY <1>0, <1>3, <1>4, <1>5, <1>6, <1>7 DEF Labels

-----------------------------------------------------------------------------
(* No node lost, and the black heights. *)

\* Whole, for any tree.
IsWhole(t) ==
  \A S \in SUBSET Allocated(t) : t.root \in S /\ ClosedDown(t, S) => Allocated(t) \subseteq S

LEMMA TurnedWhole ==
  ASSUME NEW t, IsTree(t), Joined(t), NEW b, Labels(t, b),
         NEW a \in Allocated(t), NEW d \in Side,
         NEW top \in Allocated(t), top = t.kid[a][Opposite(d)],
         NEW inner, inner = t.kid[top][d],
         NEW u, IsTree(u), Turned(t, u, a, d, top, inner), IsWhole(t)
  PROVE  IsWhole(u)
<1> DEFINE o == Opposite(d)
<1>0. o \in Side /\ o # d /\ (\A e \in Side : e = d \/ e = o) /\ Allocated(u) = Allocated(t)
  BY OppositeIs DEF Turned
<1> SUFFICES ASSUME NEW S \in SUBSET Allocated(t), u.root \in S, ClosedDown(u, S)
             PROVE  Allocated(t) \subseteq S
  BY <1>0 DEF IsWhole
<1>1. CASE top \in S
  <2>1. a \in S
    BY <1>1, <1>0 DEF ClosedDown, Turned
  <2>2. t.root \in S
    BY <2>1 DEF Turned
  <2>3. ASSUME NEW m \in S, NEW e \in Side, t.kid[m][e] \in Allocated(t)
        PROVE  t.kid[m][e] \in S
    <3>1. CASE m = a
      <4>1. CASE e = o
        BY <4>1, <3>1, <1>1
      <4>2. CASE e = d
        BY <4>2, <3>1, <2>3, <1>0 DEF ClosedDown, Turned
      <4> QED BY <4>1, <4>2, <1>0
    <3>2. CASE m = top
      <4>1. CASE e = o
        BY <4>1, <3>2, <2>3, <1>0 DEF ClosedDown, Turned
      <4>2. CASE e = d
        BY <4>2, <3>2, <2>1, <2>3, <1>0 DEF ClosedDown, Turned
      <4> QED BY <4>1, <4>2, <1>0
    <3>3. CASE m \notin {a, top}
      BY <3>3, <2>1, <2>3, <1>0 DEF ClosedDown, Turned
    <3> QED BY <3>1, <3>2, <3>3
  <2> QED BY <2>2, <2>3 DEF IsWhole, ClosedDown
<1>2. CASE top \notin S
  <2>1. t.root \in S \ {a}
    BY <1>2 DEF Turned
  <2>2. ASSUME NEW m \in S \ {a}, NEW e \in Side, t.kid[m][e] \in Allocated(t)
        PROVE  t.kid[m][e] \in S \ {a}
    <3>1. u.kid[m][e] = IF t.kid[m][e] = a THEN top ELSE t.kid[m][e]
      BY <1>2 DEF Turned
    <3> QED BY <3>1, <2>2, <1>0, <1>2 DEF ClosedDown
  <2>3. Allocated(t) \subseteq S \ {a}
    BY <2>1, <2>2 DEF IsWhole, ClosedDown
  <2> QED BY <2>3
<1> QED BY <1>1, <1>2

\* h[n] is the number of black nodes on every way from n, without n, to a leaf;
\* Weight is that number with the node itself.
Weight(t, h, c) ==
  IF c \in Allocated(t) THEN h[c] + (IF c \in t.red THEN 0 ELSE 1) ELSE 0

Heights(t, h) ==
  /\ h \in [Allocated(t) -> Nat]
  /\ \A n \in Allocated(t), d \in Side : Weight(t, h, t.kid[n][d]) = h[n]

\* Turning two red nodes leaves the heights as they are.
LEMMA RedTurnedHeights ==
  ASSUME NEW t, IsTree(t), Joined(t), NEW b, Labels(t, b),
         NEW a \in Allocated(t), NEW d \in Side,
         NEW top \in Allocated(t), top = t.kid[a][Opposite(d)],
         NEW inner, inner = t.kid[top][d],
         NEW u, IsTree(u), Turned(t, u, a, d, top, inner),
         u.red = t.red, NEW h, Heights(t, h), {a, top} \subseteq t.red
  PROVE  Heights(u, h)
<1> DEFINE o == Opposite(d)
<1>0. o \in Side /\ o # d /\ (\A e \in Side : e = d \/ e = o) /\ Allocated(u) = Allocated(t)
  BY OppositeIs DEF Turned
<1>1. \A c : Weight(u, h, c) = Weight(t, h, c)
  BY <1>0 DEF Weight, Turned
<1>2. /\ Weight(t, h, a) = h[a] /\ Weight(t, h, top) = h[top] /\ h[a] = h[top]
      /\ \A n \in Allocated(t), e \in Side : Weight(t, h, t.kid[n][e]) = h[n]
  BY <1>0 DEF Weight, Heights
<1>3. ASSUME NEW n \in Allocated(t), NEW e \in Side
      PROVE  Weight(t, h, u.kid[n][e]) = h[n]
  <2>1. CASE n = a
    BY <2>1, <1>0, <1>2 DEF Turned
  <2>2. CASE n = top
    BY <2>2, <1>0, <1>2 DEF Turned
  <2>3. CASE n \notin {a, top}
    BY <2>3, <1>2 DEF Turned
  <2> QED BY <2>1, <2>2, <2>3
<1> QED BY <1>0, <1>1, <1>3 DEF Heights

\* A gap is one black node missing, on side f of q; there is none when q is NULL.
Gap(n, e, q, f) == IF n = q /\ e = f THEN 1 ELSE 0
Short(t, h, q, f) ==
  /\ h \in [Allocated(t) -> Nat]
  /\ \A n \in Allocated(t), e \in Side : Weight(t, h, t.kid[n][e]) + Gap(n, e, q, f) = h[n]

LEMMA NoGap ==
  ASSUME NEW t, IsTree(t), NEW h, NEW f
  PROVE  Heights(t, h) <=> Short(t, h, NULL, f)
<1>1. NULL \notin Allocated(t)
  BY RedBlackTreeAssumption DEF IsTree, Nobody
<1>2. \A n \in Allocated(t), e \in Side : Gap(n, e, NULL, f) = 0
  BY <1>1 DEF Gap
<1>3. h \in [Allocated(t) -> Nat] => \A c : Weight(t, h, c) \in Nat
  BY DEF Weight
<1> QED BY <1>2, <1>3 DEF Heights, Short

\* Turning a red node up and its black parent down, the two exchanging their
\* colours, leaves the heights as they are, a gap elsewhere too.
LEMMA ExchangedShort ==
  ASSUME NEW t, IsTree(t), Joined(t), NEW b, Labels(t, b),
         NEW a \in Allocated(t), a \notin t.red, NEW d \in Side,
         NEW top \in t.red, top = t.kid[a][Opposite(d)],
         NEW inner, inner = t.kid[top][d],
         NEW u, Turned(t, u, a, d, top, inner), u.red = (t.red \ {top}) \cup {a},
         NEW h, NEW q, NEW f, Short(t, h, q, f), q = a => f = d, q = top => f = Opposite(d)
  PROVE  Short(u, h, q, f)
<1> DEFINE o == Opposite(d)
           out == t.kid[a][d]
           far == t.kid[top][o]
<1>0. /\ o \in Side /\ o # d /\ (\A e \in Side : e = d \/ e = o)
      /\ Allocated(u) = Allocated(t) /\ top \in Allocated(t)
  BY OppositeIs DEF Turned, IsTree
<1>1. /\ top # a /\ inner \notin {a, top} /\ out \notin {a, top} /\ far \notin {a, top}
  <2>1. out \in Allocated(t) => out # a
    BY ChildFacts
  <2>2. out \in Allocated(t) \cup {TNULL}
    BY DEF IsTree
  <2> QED BY <1>0, <2>1, <2>2, RotateApart
<1>2. /\ h \in [Allocated(t) -> Nat]
      /\ \A n \in Allocated(t), e \in Side : Weight(t, h, t.kid[n][e]) + Gap(n, e, q, f) = h[n]
  BY DEF Short
<1>3. /\ Weight(t, h, a) = h[a] + 1 /\ Weight(u, h, a) = h[a]
      /\ Weight(t, h, top) = h[top] /\ Weight(u, h, top) = h[top] + 1
  BY <1>0, <1>1, <1>2 DEF Weight
<1>4. \A c : c \notin {a, top} => Weight(u, h, c) = Weight(t, h, c)
  BY <1>0 DEF Weight
<1>5. Gap(a, o, q, f) = 0 /\ Gap(top, d, q, f) = 0
  BY <1>0 DEF Gap
<1>6. h[a] = h[top]
  <2>1. Weight(t, h, top) + Gap(a, o, q, f) = h[a]
    BY <1>0, <1>2
  <2> QED BY <2>1, <1>0, <1>2, <1>3, <1>5
<1>7. ASSUME NEW n \in Allocated(t), NEW e \in Side
      PROVE  Weight(u, h, u.kid[n][e]) + Gap(n, e, q, f) = h[n]
  <2>1. CASE n = a /\ e = d
    BY <2>1, <1>1, <1>2, <1>4 DEF Turned
  <2>2. CASE n = a /\ e = o
    <3>1. Weight(t, h, inner) + Gap(top, d, q, f) = h[top]
      BY <1>0, <1>2
    <3>2. u.kid[n][e] = inner
      BY <2>2 DEF Turned
    <3>3. Weight(u, h, inner) = Weight(t, h, inner)
      BY <1>1, <1>4
    <3> HIDE DEF o
    <3> QED BY ONLY <3>1, <3>2, <3>3, <2>2, <1>5, <1>6
  <2>3. CASE n = top /\ e = d
    BY <2>3, <1>0, <1>2, <1>3, <1>5, <1>6 DEF Turned
  <2>4. CASE n = top /\ e = o
    <3>1. u.kid[n][e] = far
      BY <2>4 DEF Turned
    <3> QED BY <3>1, <2>4, <1>0, <1>1, <1>2, <1>4
  <2>5. CASE n \notin {a, top}
    <3>1. t.kid[n][e] # top
      BY <2>5, <1>0, RotateApart DEF Joined
    <3>2. u.kid[n][e] = IF t.kid[n][e] = a THEN top ELSE t.kid[n][e]
      BY <2>5 DEF Turned
    <3>3. Weight(u, h, u.kid[n][e]) = Weight(t, h, t.kid[n][e])
      BY <3>1, <3>2, <1>3, <1>4, <1>6
    <3> QED BY <3>3, <1>2
  <2> QED BY <2>1, <2>2, <2>3, <2>4, <2>5, <1>0
<1> QED BY <1>0, <1>2, <1>7 DEF Short

Labelled(t) == \E b : Labels(t, b)
Even(t) == \E h : Heights(t, h)

\* The order and the links of a tree, which its colours do not matter to.
Shaped(t) == IsTree(t) /\ Joined(t) /\ Labelled(t) /\ IsWhole(t) /\ IsFiniteSet(Allocated(t))

\* k is the only node in the wrong place for its colour, if any is.
OnlyAt(t, k) == \A n \in t.red : n = t.root \/ t.par[n] \in t.red => n = k

LEMMA ExchangedColours ==
  ASSUME NEW t, IsTree(t), Joined(t), NEW b, Labels(t, b),
         NEW a \in Allocated(t), a \notin t.red, NEW d \in Side,
         NEW top \in t.red, top = t.kid[a][Opposite(d)],
         NEW inner, inner = t.kid[top][d],
         NEW u, Turned(t, u, a, d, top, inner), u.red = (t.red \ {top}) \cup {a},
         inner \notin t.red, t.kid[a][d] \notin t.red,
         NEW k, OnlyAt(t, k), k # NULL => t.par[k] = top
  PROVE  OnlyAt(u, NULL)
<1>0. /\ Opposite(d) # d /\ (\A e \in Side : e = d \/ e = Opposite(d))
      /\ top \in Allocated(t) /\ t.red \subseteq Allocated(t) /\ NULL \notin Allocated(t)
      /\ top # a /\ inner # a
  <2>1. top \in Allocated(t) /\ t.red \subseteq Allocated(t)
    BY DEF IsTree
  <2> QED BY <2>1, OppositeIs, RotateApart
<1> SUFFICES ASSUME NEW n \in u.red, n = u.root \/ u.par[n] \in u.red PROVE FALSE
  BY DEF OnlyAt
<1>1. n \in Allocated(t) /\ n # top /\ top \notin u.red /\ n # inner
  BY <1>0
<1>2. n # a => n \in t.red
  OBVIOUS
<1>3. CASE n = u.root
  <2>1. n = t.root /\ n # a
    BY <1>1, <1>3 DEF Turned
  <2>2. n = k /\ t.par[n] = NULL
    BY <2>1, <1>1, <1>2 DEF OnlyAt, Joined
  <2> QED BY <2>2, <1>0, <1>1
<1>4. CASE u.par[n] \in u.red
  <2>1. n # a
    BY <1>1, <1>4 DEF Turned
  <2>2. u.par[n] = t.par[n] /\ t.par[n] # top
    BY <2>1, <1>1, <1>4 DEF Turned
  <2>3. CASE t.par[n] = a
    <3>1. n # t.root
      BY <2>3, <1>0, <1>1 DEF Joined
    <3>2. PICK e \in Side : t.kid[a][e] = n
      BY <3>1, <2>3, <1>1 DEF Joined
    <3> QED BY <3>2, <2>1, <1>0, <1>1, <1>2
  <2>4. CASE t.par[n] # a
    <3>1. n = k
      BY <2>1, <2>2, <2>4, <1>2, <1>4 DEF OnlyAt
    <3> QED BY <3>1, <2>2, <1>0, <1>1
  <2> QED BY <2>3, <2>4
<1> QED BY <1>3, <1>4

\* A tree that differs in its colours and its sentinel only.
LEMMA SameShape ==
  ASSUME NEW t, Shaped(t), NEW u, IsTree(u), u.kid = t.kid, u.root = t.root,
         \A n \in Allocated(t) : u.par[n] = t.par[n]
  PROVE  Shaped(u) /\ Allocated(u) = Allocated(t)
<1>1. Allocated(u) = Allocated(t)
  BY DEF Allocated
<1>2. Joined(u)
  BY <1>1 DEF Shaped, Joined
<1>3. Labelled(u)
  <2>1. PICK b : Labels(t, b)
    BY DEF Shaped, Labelled
  <2>2. Labels(u, b)
    BY <1>1, <2>1 DEF Labels, Covers, Orders, Climbs, Nests
  <2> QED BY <2>2 DEF Labelled
<1>4. IsWhole(u)
  BY <1>1 DEF Shaped, IsWhole, ClosedDown
<1> QED BY <1>1, <1>2, <1>3, <1>4 DEF Shaped

\* A tree that differs in the color of its nodes only.
Painted(t, u, R) == /\ Shaped(u) /\ u.red = R /\ Allocated(u) = Allocated(t)
                    /\ u.kid = t.kid /\ u.par = t.par /\ u.root = t.root
                    /\ u.skew = t.skew /\ u.bad = t.bad

LEMMA PaintedShaped ==
  ASSUME NEW t, Shaped(t), NEW R \in SUBSET Allocated(t), NEW u, u = [t EXCEPT !.red = R]
  PROVE  Painted(t, u, R)
<1>1. /\ DOMAIN u = DOMAIN t /\ u.red = R /\ u.kid = t.kid /\ u.par = t.par
      /\ u.root = t.root /\ u.skew = t.skew /\ u.bad = t.bad
  BY DEF Shaped, IsTree
<1>2. IsTree(u)
  BY <1>1 DEF Shaped, IsTree, Allocated
<1> QED BY <1>1, <1>2, SameShape DEF Painted

-----------------------------------------------------------------------------
(* The loop of insertFix. *)

\* What a rotation leaves.
Rotated(t, u, a, d, top, inner) ==
  Turned(t, u, a, d, top, inner) /\ Shaped(u) /\ u.skew = t.skew /\ u.bad = t.bad

LEMMA TurnedShaped ==
  ASSUME NEW t, Shaped(t), NEW a \in Allocated(t), NEW d \in Side,
         NEW top \in Allocated(t), top = t.kid[a][Opposite(d)],
         NEW inner, inner = t.kid[top][d]
  PROVE  Rotated(t, Rotate(t, a, d), a, d, top, inner) /\ Rotate(t, a, d).red = t.red
<1> DEFINE u == Rotate(t, a, d)
<1>1. PICK b : Labels(t, b)
  BY DEF Shaped, Labelled
<1>2. Turned(t, u, a, d, top, inner) /\ IsTree(u)
  BY <1>1, RotateIsTurned DEF Shaped
<1>3. Joined(u)
  BY <1>1, <1>2, TurnedJoined DEF Shaped
<1>4. Labels(u, TurnedLab(t, b, a, d, top, inner))
  BY <1>1, <1>2, TurnedLabels DEF Shaped
<1>5. IsWhole(u)
  BY <1>1, <1>2, TurnedWhole DEF Shaped
<1>6. u.red = t.red /\ u.skew = t.skew /\ u.bad = t.bad
  BY RotateParts DEF Shaped
<1>7. Shaped(u)
  <2> HIDE DEF u
  <2> QED BY <1>2, <1>3, <1>4, <1>5 DEF Shaped, Turned, Labelled
<1> HIDE DEF u
<1> QED BY <1>2, <1>6, <1>7 DEF Rotated, u

LEMMA PaintedTurned ==
  ASSUME NEW t, Shaped(t), NEW R \in SUBSET Allocated(t), NEW r, r = [t EXCEPT !.red = R],
         NEW a \in Allocated(t), NEW d \in Side,
         NEW top \in Allocated(t), top = t.kid[a][Opposite(d)],
         NEW inner, inner = t.kid[top][d]
  PROVE  Rotated(t, Rotate(r, a, d), a, d, top, inner) /\ Rotate(r, a, d).red = R
<1>1. Painted(t, r, R)
  BY PaintedShaped
<1>2. PICK u : u = Rotate(r, a, d)
  OBVIOUS
<1>3. /\ Shaped(r) /\ a \in Allocated(r) /\ top \in Allocated(r)
      /\ top = r.kid[a][Opposite(d)] /\ inner = r.kid[top][d]
  BY <1>1 DEF Painted
<1>4. Rotated(r, u, a, d, top, inner) /\ u.red = R
  <2>1. r.red = R
    BY <1>1 DEF Painted
  <2> QED BY <1>2, <1>3, <2>1, TurnedShaped
<1>5. Turned(t, u, a, d, top, inner)
  BY <1>1, <1>4 DEF Painted, Rotated, Turned
<1>6. Rotated(t, u, a, d, top, inner)
  BY <1>1, <1>4, <1>5 DEF Painted, Rotated
<1> QED BY <1>2, <1>4, <1>6

\* What insertFix finds at a red node k with a red parent p on side d of its own
\* parent g.
Kin(t, k, p, g, d) ==
  /\ Shaped(t)
  /\ {k, p, g} \subseteq Allocated(t) /\ p # k /\ g # p /\ g # k
  /\ k \in t.red /\ p \in t.red /\ t.root \notin t.red
  /\ k # t.root /\ p # t.root
  /\ t.par[k] = p /\ t.par[p] = g
  /\ d \in Side /\ t.kid[g][d] = p /\ t.kid[g][Opposite(d)] # p
  /\ k \in {t.kid[p][d], t.kid[p][Opposite(d)]} /\ t.kid[p][d] # t.kid[p][Opposite(d)]

LEMMA KinIs ==
  ASSUME NEW t, Shaped(t), NEW k \in t.red, t.root \notin t.red, t.par[k] \in t.red
  PROVE  Kin(t, k, t.par[k], t.par[t.par[k]], SideOf(t, t.par[k]))
<1> DEFINE p == t.par[k]
           g == t.par[p]
           d == SideOf(t, p)
<1>1. PICK b : Labels(t, b)
  BY DEF Shaped, Labelled
<1>2. k \in Allocated(t) /\ p \in Allocated(t) /\ IsTree(t) /\ Joined(t)
  BY DEF Shaped, IsTree
<1>3. PICK e \in Side : t.kid[p][e] = k
  BY <1>2 DEF Joined
<1>4. p # k /\ t.kid[p][Opposite(e)] # k /\ t.par[p] # k
  BY <1>1, <1>2, <1>3, ChildFacts
<1>5. p # t.root /\ k # t.root
  OBVIOUS
<1>6. PICK f \in Side : g \in Allocated(t) /\ t.kid[g][f] = p
  BY <1>2, <1>5 DEF Joined
<1>7. g # p /\ t.kid[g][Opposite(f)] # p
  BY <1>1, <1>2, <1>6, ChildFacts
<1>8. d = f
  BY <1>6, <1>7 DEF SideOf, Opposite, Side
<1>9. k \in {t.kid[p][d], t.kid[p][Opposite(d)]} /\ t.kid[p][d] # t.kid[p][Opposite(d)]
  BY <1>3, <1>4, <1>6, <1>8, OppositeIs
<1> HIDE DEF p, g, d
<1>10. t.par[k] = p /\ t.par[p] = g
  BY DEF p, g
<1>11. p \in t.red
  BY DEF p
<1>12. Kin(t, k, p, g, d)
  BY <1>2, <1>4, <1>5, <1>6, <1>7, <1>8, <1>9, <1>10, <1>11 DEF Kin
<1> QED BY <1>12 DEF p, g, d

\* A turn from t and k to u and at: a turn after which there is more to do recoloured
\* only and went up by two nodes.
Climbed(t, k, u, at) ==
  /\ Shaped(u) /\ at \in u.red /\ Allocated(u) = Allocated(t)
  /\ u.skew = t.skew /\ u.bad = t.bad
  /\ u.root \in u.red => at = u.root
  /\ u.par[at] \in u.red => u.kid = t.kid /\ at = t.par[t.par[k]] /\ at # k

\* In a red-black tree, what was out of place at k is so at at, if anywhere.
Repaired(t, u, k, at) == Even(t) /\ OnlyAt(t, k) => Even(u) /\ OnlyAt(u, at)

\* A red uncle: both turn black, and the grandparent is the node to mend.
LEMMA Recoloured ==
  ASSUME NEW t, NEW k, NEW p, NEW g, NEW d, Kin(t, k, p, g, d),
         NEW un \in t.red, t.kid[g][Opposite(d)] = un,
         NEW u, u = Redden(Blacken(Blacken(t, un), p), g)
  PROVE  Climbed(t, k, u, g) /\ Repaired(t, u, k, g)
<1> DEFINE R == ((t.red \ {un}) \ {p}) \cup {g}
<1>0. IsTree(t) /\ Joined(t)
  BY DEF Kin, Shaped
<1>1. un \in Allocated(t) /\ un # p /\ un # g /\ t.par[un] = g
  <2>1. un \in Allocated(t) /\ Opposite(d) \in Side
    BY <1>0, OppositeIs DEF Kin, IsTree
  <2>2. PICK b : Labels(t, b)
    BY DEF Shaped, Labelled, Kin
  <2>3. un # g
    BY <2>1, <2>2, <1>0, ChildFacts DEF Kin
  <2> QED BY <2>1, <2>3, <1>0 DEF Kin, Joined
<1>2. \A n \in Allocated(t), e \in Side :
        /\ n = g => t.kid[n][e] \in {p, un}
        /\ n # g => t.kid[n][e] \notin {p, un}
  <2>1. \A e \in Side : t.kid[g][e] \in {p, un}
    BY OppositeIs DEF Kin
  <2> QED BY <2>1, <1>0, <1>1 DEF Kin, Joined
<1>3. R \in SUBSET Allocated(t)
  BY <1>0 DEF IsTree, Kin
<1>4. u = [t EXCEPT !.red = R]
  BY <1>0 DEF Redden, Blacken, IsTree
<1>5. Painted(t, u, R)
  <2> HIDE DEF R
  <2> QED BY <1>3, <1>4, PaintedShaped DEF Kin
<1>9. Climbed(t, k, u, g)
  <2>1. t.root \in R => g = t.root
    BY DEF Kin
  <2>2. g \in R /\ g = t.par[t.par[k]] /\ g # k
    BY DEF Kin
  <2> HIDE DEF R
  <2> QED BY <2>1, <2>2, <1>5 DEF Painted, Climbed
<1> SUFFICES ASSUME Even(t), OnlyAt(t, k) PROVE Even(u) /\ OnlyAt(u, g)
  BY <1>9 DEF Repaired
<1>10. g \notin t.red
  BY DEF Kin, OnlyAt
<1>6. OnlyAt(u, g)
  <2> SUFFICES ASSUME NEW n \in R, n # g, n = t.root \/ t.par[n] \in R PROVE FALSE
    <3> HIDE DEF R
    <3> QED BY <1>5 DEF OnlyAt, Painted
  <2>1. n \in t.red /\ n # p /\ n # un /\ n \in Allocated(t)
    BY <1>3
  <2>2. CASE n = t.root \/ t.par[n] \in t.red
    <3>1. n = k
      BY <2>1, <2>2 DEF OnlyAt
    <3>2. n # t.root /\ t.par[n] = p /\ p # g
      BY <3>1 DEF Kin
    <3> QED BY <3>2
  <2>3. CASE n # t.root /\ t.par[n] = g
    <3>1. PICK e \in Side : t.kid[g][e] = n
      BY <2>1, <2>3, <1>0 DEF Joined
    <3> QED BY <3>1, <2>1, <1>2 DEF Kin
  <2> QED BY <2>2, <2>3
<1>7. Even(u)
  <2>1. PICK h : Heights(t, h)
    BY DEF Even
  <2> DEFINE hh == [h EXCEPT ![g] = @ + 1]
  <2>2. /\ h \in [Allocated(t) -> Nat]
        /\ \A n \in Allocated(t), e \in Side : Weight(t, h, t.kid[n][e]) = h[n]
    BY <2>1 DEF Heights
  <2>3. hh \in [Allocated(t) -> Nat] /\ hh[g] = h[g] + 1
        /\ \A n \in Allocated(t) : n # g => hh[n] = h[n]
    BY <2>2 DEF Kin
  <2>4. Weight(t, h, p) = h[g] /\ Weight(t, h, un) = h[g]
    BY <2>2, OppositeIs DEF Kin
  <2>5. h[p] = h[g] /\ h[un] = h[g]
    BY <2>2, <2>4, <1>1 DEF Weight, Kin
  <2> HIDE DEF hh
  <2>6. ASSUME NEW c, c \notin {p, un} PROVE Weight(u, hh, c) = Weight(t, h, c)
    <3>1. CASE c = g
      <4>1. Weight(u, hh, g) = hh[g] + 0 /\ Weight(t, h, g) = h[g] + 1
        BY <1>5, <1>10 DEF Weight, Kin, Painted
      <4> QED BY <4>1, <3>1, <2>2, <2>3 DEF Kin
    <3>2. CASE c # g
      BY <3>2, <2>3, <2>6, <1>5 DEF Weight, Painted
    <3> QED BY <3>1, <3>2
  <2>7. Weight(u, hh, p) = hh[g] /\ Weight(u, hh, un) = hh[g]
    <3>1. p \notin R /\ un \notin R /\ {p, un} \subseteq Allocated(t) /\ p # g
      BY <1>1 DEF Kin
    <3> HIDE DEF R
    <3>2. Weight(u, hh, p) = h[p] + 1 /\ Weight(u, hh, un) = h[un] + 1
      BY <3>1, <2>3, <1>1, <1>5 DEF Weight, Painted
    <3> QED BY <3>2, <2>3, <2>5
  <2>8. ASSUME NEW n \in Allocated(t), NEW e \in Side
        PROVE  Weight(u, hh, t.kid[n][e]) = hh[n]
    <3>1. CASE n = g
      <4>1. t.kid[n][e] \in {p, un}
        BY <3>1, <1>2
      <4> QED BY <4>1, <3>1, <2>7
    <3>2. CASE n # g
      <4>1. t.kid[n][e] \notin {p, un}
        BY <3>2, <1>2
      <4>2. Weight(t, h, t.kid[n][e]) = h[n] /\ hh[n] = h[n]
        BY <3>2, <2>2, <2>3
      <4> QED BY <4>1, <4>2, <2>6
    <3> QED BY <3>1, <3>2
  <2>9. Heights(u, hh)
    BY <2>3, <2>8, <1>5 DEF Heights, Painted
  <2> QED BY <2>9 DEF Even
<1> QED BY <1>6, <1>7

\* The inner child is turned outwards; the two red nodes change places.
LEMMA Straightened ==
  ASSUME NEW t, NEW k, NEW p, NEW g, NEW d, Kin(t, k, p, g, d),
         k = t.kid[p][Opposite(d)], NEW u, u = Rotate(t, p, d)
  PROVE  /\ Kin(u, p, k, g, d) /\ Repaired(t, u, k, p)
         /\ u.kid[k][d] = p /\ u.red = t.red
         /\ u.kid[g][Opposite(d)] = t.kid[g][Opposite(d)]
         /\ Allocated(u) = Allocated(t) /\ u.skew = t.skew /\ u.bad = t.bad
<1> DEFINE inner == t.kid[k][d]
<1>0. IsTree(t) /\ Joined(t) /\ d \in Side /\ Opposite(d) # d /\ Opposite(d) \in Side
  BY OppositeIs DEF Kin, Shaped
<1>1. Rotated(t, u, p, d, k, inner) /\ u.red = t.red
  BY <1>0, TurnedShaped DEF Kin
<1>9. Turned(t, u, p, d, k, inner) /\ Shaped(u) /\ u.skew = t.skew /\ u.bad = t.bad
  BY <1>1 DEF Rotated
<1>2. /\ Allocated(u) = Allocated(t) /\ u.root = t.root
      /\ u.par[p] = k /\ u.par[k] = g /\ u.kid[k][d] = p
  BY <1>9 DEF Turned, Kin
<1>3. u.kid[g][d] = k /\ u.kid[g][Opposite(d)] = t.kid[g][Opposite(d)]
  BY <1>0, <1>9 DEF Turned, Kin
<1>6. u.kid[k][Opposite(d)] # p
  <2>1. PICK b : Labels(u, b)
    BY <1>9 DEF Shaped, Labelled
  <2>2. k \in Allocated(u) /\ u.kid[k][d] \in Allocated(u)
    BY <1>2 DEF Kin
  <2> QED BY <2>1, <2>2, <1>0, <1>9, <1>2, ChildFacts DEF Shaped
<1>7. u.kid[g][Opposite(d)] # k
  BY <1>0, <1>3 DEF Joined, Kin
<1>8. Kin(u, p, k, g, d)
  BY <1>0, <1>1, <1>9, <1>2, <1>3, <1>6, <1>7 DEF Kin
<1>10. Repaired(t, u, k, p)
  <2> SUFFICES ASSUME Even(t), OnlyAt(t, k) PROVE Even(u) /\ OnlyAt(u, p)
    BY DEF Repaired
  <2>1. Even(u)
    <3>1. PICK b : Labels(t, b)
      BY DEF Shaped, Labelled, Kin
    <3>2. PICK h : Heights(t, h)
      BY DEF Even
    <3>3. Heights(u, h)
      BY <1>0, <1>1, <1>9, <3>1, <3>2, RedTurnedHeights DEF Shaped, Kin
    <3> QED BY <3>3 DEF Even
  <2>2. OnlyAt(u, p)
    <3> SUFFICES ASSUME NEW n \in t.red, n # p, n = t.root \/ u.par[n] \in t.red PROVE FALSE
      BY <1>1, <1>2 DEF OnlyAt
    <3>0. n \in Allocated(t) /\ n # t.root
      BY <1>0 DEF IsTree, Kin
    <3>1. CASE n = k
      BY <3>0, <3>1, <1>2 DEF Kin, OnlyAt
    <3>2. CASE n = inner /\ n # k
      <4>1. t.par[n] = k
        BY <3>0, <3>2, <1>0 DEF Joined, Kin
      <4> QED BY <4>1, <3>2 DEF OnlyAt, Kin
    <3>3. CASE n \notin {p, k, inner}
      <4>1. u.par[n] = t.par[n]
        BY <3>0, <3>3, <1>9 DEF Turned
      <4> QED BY <4>1, <3>0, <3>3 DEF OnlyAt, Kin
    <3> QED BY <3>1, <3>2, <3>3
  <2> QED BY <2>1, <2>2
<1> HIDE DEF inner
<1> QED BY <1>1, <1>9, <1>2, <1>3, <1>8, <1>10

\* The outer child: the parent rises to the grandparent's place and colour.
LEMMA Hoisted ==
  ASSUME NEW t, NEW k, NEW p, NEW g, NEW d, Kin(t, k, p, g, d),
         k = t.kid[p][d], NEW u, u = Hoist(t, k, d)
  PROVE  /\ Climbed(t, k, u, k) /\ u.par[k] \notin u.red
         /\ t.kid[g][Opposite(d)] \notin t.red => Repaired(t, u, k, k)
<1> DEFINE R == (t.red \ {p}) \cup {g}
           r == [t EXCEPT !.red = R]
           o == Opposite(d)
           inner == t.kid[p][o]
<1>0. /\ IsTree(t) /\ Joined(t) /\ d \in Side /\ o # d /\ o \in Side /\ Opposite(o) = d
      /\ \A e \in Side : e = d \/ e = o
  BY OppositeIs DEF Kin, Shaped
<1>1. R \in SUBSET Allocated(t)
  BY <1>0 DEF IsTree, Kin
<1>2. u = Rotate(r, g, o)
  BY <1>0 DEF Hoist, Redden, Blacken, IsTree, Kin
<1>3. Rotated(t, u, g, o, p, inner) /\ u.red = R
  <2>1. g \in Allocated(t) /\ p \in Allocated(t) /\ p = t.kid[g][Opposite(o)] /\ Shaped(t)
    BY <1>0 DEF Kin
  <2> HIDE DEF R, o
  <2> QED BY <2>1, <1>0, <1>1, <1>2, PaintedTurned
<1>4. Turned(t, u, g, o, p, inner) /\ Shaped(u) /\ u.skew = t.skew /\ u.bad = t.bad
  BY <1>3 DEF Rotated
<1>5. u.par[k] = p /\ k # inner /\ p \notin R /\ k \in R
  BY <1>4 DEF Turned, Kin
<1>6. u.root = (IF t.root = g THEN p ELSE t.root) /\ Allocated(u) = Allocated(t)
  BY <1>4 DEF Turned
<1>7. u.root \notin R
  BY <1>6 DEF Kin
<1>8. Climbed(t, k, u, k) /\ u.par[k] \notin u.red
  <2> HIDE DEF R
  <2> QED BY <1>3, <1>4, <1>5, <1>6, <1>7 DEF Climbed
<1>9. ASSUME t.kid[g][o] \notin t.red, Even(t), OnlyAt(t, k) PROVE Even(u) /\ OnlyAt(u, k)
  <2>1. PICK b : Labels(t, b)
    BY DEF Shaped, Labelled, Kin
  <2>2. PICK h : Short(t, h, NULL, d)
    BY <1>0, <1>9, NoGap DEF Even
  <2>3. g \notin t.red /\ p = t.kid[g][Opposite(o)] /\ t.par[k] = p /\ k # NULL
    BY <1>0, <1>9, RedBlackTreeAssumption DEF OnlyAt, Kin, IsTree, Nobody
  <2>4. inner \notin t.red
    <3> SUFFICES ASSUME inner \in t.red PROVE FALSE
      OBVIOUS
    <3>1. t.par[inner] = p
      BY <1>0 DEF Joined, Kin, IsTree
    <3> QED BY <3>1, <1>5, <1>9 DEF OnlyAt, Kin
  <2>5. g \in Allocated(t) /\ p \in t.red /\ NULL \notin Allocated(t)
    BY <1>0, RedBlackTreeAssumption DEF Kin, IsTree, Nobody
  <2>10. inner = t.kid[p][o] /\ t.kid[g][o] \notin t.red /\ OnlyAt(t, k)
    BY <1>9
  <2>11. u.red = (t.red \ {p}) \cup {g}
    BY <1>3
  <2> HIDE DEF o, inner, r, R
  <2>12. /\ IsTree(t) /\ Joined(t) /\ Labels(t, b) /\ o \in Side
         /\ g \in Allocated(t) /\ g \notin t.red /\ p \in t.red /\ p = t.kid[g][Opposite(o)]
         /\ inner = t.kid[p][o] /\ Turned(t, u, g, o, p, inner)
         /\ u.red = (t.red \ {p}) \cup {g} /\ inner \notin t.red /\ t.kid[g][o] \notin t.red
         /\ OnlyAt(t, k) /\ (k # NULL => t.par[k] = p)
    BY Zenon, <1>0, <1>4, <2>1, <2>3, <2>4, <2>5, <2>10, <2>11
  <2>6. OnlyAt(u, NULL)
    BY ONLY <2>12, ExchangedColours
  <2>7. Short(u, h, NULL, d)
    <3>1. g # NULL /\ p # NULL
      BY <2>3, <2>5, <1>0 DEF IsTree
    <3> QED BY ONLY <2>2, <2>12, <3>1, ExchangedShort
  <2>8. Even(u)
    BY <2>7, <1>4, NoGap DEF Even, Shaped
  <2>9. NULL \notin u.red
    BY <1>3, <1>1, <2>5
  <2> QED BY <2>6, <2>8, <2>9 DEF OnlyAt
<1> QED BY <1>8, <1>9 DEF Repaired

\* One turn of the loop of insertFix, whichever of its branches it takes.
LEMMA FixTurnKeeps ==
  ASSUME NEW t, Shaped(t), NEW k \in t.red, t.root \notin t.red, t.par[k] \in t.red,
         NEW u, u = FixTurn(t, k).tree, NEW at, at = FixTurn(t, k).at
  PROVE  Climbed(t, k, u, at) /\ Repaired(t, u, k, at)
<1>0. PICK p, g, d, un : /\ p = t.par[k] /\ g = t.par[p] /\ d = SideOf(t, p)
                         /\ un = t.kid[g][Opposite(d)]
  OBVIOUS
<1>1. Kin(t, k, p, g, d)
  BY Zenon, <1>0, KinIs
<1>3. CASE un \in t.red
  <2>1. u = Redden(Blacken(Blacken(t, un), p), g) /\ at = g
    BY <1>0, <1>3 DEF FixTurn
  <2> QED BY <1>0, <1>1, <1>3, <2>1, Recoloured
<1>4. CASE un \notin t.red /\ k = t.kid[p][Opposite(d)]
  <2>1. PICK s : s = Rotate(t, p, d)
    OBVIOUS
  <2>2. u = Hoist(s, p, d) /\ at = p
    BY Zenon, <1>0, <1>4, <2>1 DEF FixTurn
  <2>3. /\ Kin(s, p, k, g, d) /\ s.kid[k][d] = p /\ s.red = t.red /\ Repaired(t, s, k, p)
        /\ s.kid[g][Opposite(d)] = un /\ Allocated(s) = Allocated(t)
        /\ s.skew = t.skew /\ s.bad = t.bad
    <3>1. k = t.kid[p][Opposite(d)]
      BY <1>4
    <3>2. /\ Kin(s, p, k, g, d) /\ Repaired(t, s, k, p)
          /\ s.kid[k][d] = p /\ s.red = t.red
          /\ s.kid[g][Opposite(d)] = t.kid[g][Opposite(d)]
          /\ Allocated(s) = Allocated(t) /\ s.skew = t.skew /\ s.bad = t.bad
      BY ONLY <1>1, <2>1, <3>1, Straightened
    <3> QED BY ONLY <1>0, <3>2
  <2>4. Climbed(s, p, u, p) /\ u.par[p] \notin u.red /\ Repaired(s, u, p, p)
    BY <1>4, <2>2, <2>3, Hoisted
  <2> QED BY <2>2, <2>3, <2>4 DEF Climbed, Repaired
<1>5. CASE un \notin t.red /\ k # t.kid[p][Opposite(d)]
  <2>1. u = Hoist(t, k, d) /\ at = k
    BY <1>0, <1>5 DEF FixTurn
  <2>2. k = t.kid[p][d]
    BY <1>1, <1>5 DEF Kin
  <2> QED BY Zenon, <1>0, <1>1, <1>5, <2>1, <2>2, Hoisted
<1> QED BY <1>3, <1>4, <1>5

-----------------------------------------------------------------------------
(* The walk down and the attachment. *)

\* The side of m that n belongs to.
Way(n, m) == IF Compare(KeyOf(n), KeyOf(m)) THEN "left" ELSE "right"

\* n comes after the nodes with its key.
Newest(t, n) == n \in Node \ Allocated(t)
                /\ \A m \in Allocated(t) : KeyOf(m) = KeyOf(n) => m[2] < n[2]

\* The walk at below (at the root when above is NULL) is where n belongs.
Fits(t, b, n, above, at) ==
  /\ above = NULL => at = t.root
  /\ above # NULL => /\ above \in Allocated(t) /\ at = t.kid[above][Way(n, above)]
                     /\ \A m \in Allocated(t), e \in Side :
                          above \in Lab(b, t.kid[m][e]) => On(e, n, m)

LEMMA WayIs ==
  ASSUME NEW t, IsTree(t), NEW n, Newest(t, n), NEW m \in Allocated(t)
  PROVE  Way(n, m) \in Side /\ On(Way(n, m), n, m)
<1>1. n \in Node /\ m \in Node
  BY DEF Newest, IsTree
<1>2. n[1] \in Nat /\ n[2] \in Nat /\ m[1] \in Nat /\ m[2] \in Nat
  BY <1>1, RedBlackTreeAssumption DEF Node
<1>3. n[1] = m[1] => m[2] < n[2]
  BY DEF Newest, KeyOf
<1>4. CASE n[1] < m[1]
  BY <1>4 DEF Way, Compare, KeyOf, Side, On, Before
<1>5. CASE ~(n[1] < m[1])
  BY <1>2, <1>3, <1>5 DEF Way, Compare, KeyOf, Side, On, Before
<1> QED BY <1>4, <1>5

\* One turn of the loop of insert() keeps to the way.
LEMMA WalkFits ==
  ASSUME NEW t, Shaped(t), NEW b, Labels(t, b), NEW n, Newest(t, n),
         NEW above, NEW at \in Allocated(t), Fits(t, b, n, above, at)
  PROVE  Fits(t, b, n, at, t.kid[at][Way(n, at)])
<1>0. IsTree(t) /\ Joined(t) /\ at # NULL
  BY RedBlackTreeAssumption DEF Shaped, IsTree, Nobody
<1> SUFFICES ASSUME NEW m \in Allocated(t), NEW e \in Side, at \in Lab(b, t.kid[m][e])
             PROVE  On(e, n, m)
  BY <1>0 DEF Fits
<1> DEFINE c == t.kid[m][e]
<1>1. c \in Allocated(t) /\ Lab(b, c) = b[c] /\ t.par[c] = m /\ c # t.root
  BY <1>0, RedBlackTreeAssumption DEF Lab, Labels, Joined, IsTree, Nobody
<1>2. at = c \/ t.par[at] \in b[c]
  BY <1>1 DEF Labels, Climbs
<1>3. CASE above = NULL
  <2>1. at = t.root /\ t.par[at] = NULL
    BY <1>0, <1>3 DEF Fits, Joined
  <2>2. NULL \notin b[c]
    BY <1>0, <1>1, RedBlackTreeAssumption DEF Labels, IsTree, Nobody
  <2> QED BY <2>1, <2>2, <1>1, <1>2
<1>4. CASE above # NULL
  <2>1. /\ above \in Allocated(t) /\ at = t.kid[above][Way(n, above)] /\ t.par[at] = above
        /\ above \in Lab(b, c) => On(e, n, m)
    BY <1>0, <1>4, WayIs DEF Fits, Joined
  <2>2. CASE at = c
    <3>1. m = above
      BY <2>1, <2>2, <1>1
    <3>2. Way(n, m) = e
      <4>1. Way(n, m) \in Side
        BY <1>0, WayIs
      <4>2. t.kid[m][Opposite(e)] # c
        BY <1>0, <1>1, ChildFacts
      <4> QED BY <2>1, <2>2, <3>1, <4>1, <4>2, OppositeIs
    <3> QED BY <3>2, <1>0, WayIs
  <2>3. CASE t.par[at] \in b[c]
    BY <2>1, <2>3, <1>1
  <2> QED BY <2>2, <2>3, <1>2
<1> QED BY <1>3, <1>4

\* u is t with n below above, on side s of it.
Hung(t, u, n, above, s) ==
  /\ Allocated(u) = Allocated(t) \cup {n} /\ u.red = t.red \cup {n} /\ u.root = t.root
  /\ \A e \in Side : u.kid[n][e] = TNULL
  /\ u.kid[above][s] = n
  /\ \A m \in Allocated(t), e \in Side : m # above \/ e # s => u.kid[m][e] = t.kid[m][e]
  /\ u.par[n] = above /\ \A m \in Allocated(t) : u.par[m] = t.par[m]
  /\ u.skew = t.skew /\ u.bad = t.bad

LEMMA AttachedIsHung ==
  ASSUME NEW t, IsTree(t), NEW n \in Node \ Allocated(t), NEW above \in Allocated(t)
  PROVE  Hung(t, Attached(t, n, above), n, above, Way(n, above)) /\ IsTree(Attached(t, n, above))
<1> DEFINE u == Attached(t, n, above)
           s == Way(n, above)
           al == Alone(t, n, above)
<1>0. /\ above # NULL /\ above # n /\ s \in Side /\ TNULL # n /\ NULL # n
      /\ t.kid \in [Allocated(t) -> [Side -> Allocated(t) \cup {TNULL}]]
      /\ t.par \in [Allocated(t) \cup {TNULL} -> Allocated(t) \cup {NULL}]
  BY RedBlackTreeAssumption DEF IsTree, Nobody, Way, Side
<1>1. /\ DOMAIN al = DOMAIN t /\ al.root = t.root /\ al.red = t.red
      /\ al.skew = t.skew /\ al.bad = t.bad
      /\ al.kid = [m \in DOMAIN t.kid \cup {n} |->
                     IF m = n THEN [left |-> TNULL, right |-> TNULL] ELSE t.kid[m]]
      /\ al.par = [m \in DOMAIN t.par \cup {n} |-> IF m = n THEN above ELSE t.par[m]]
  BY DEF Alone, IsTree
<1>2. al.kid \in [Allocated(t) \cup {n} -> [Side -> Allocated(t) \cup {TNULL}]]
  BY <1>0, <1>1 DEF Side, Allocated
<1>3. /\ al.par \in [(Allocated(t) \cup {n}) \cup {TNULL} -> Allocated(t) \cup {NULL}]
  BY <1>0, <1>1 DEF IsTree
<1> HIDE DEF al
<1>4. u = [[al EXCEPT !.kid = [@ EXCEPT ![above][s] = n]] EXCEPT !.red = @ \cup {n}]
  BY <1>0 DEF Attached, Redden, al, Way, Compare
<1> HIDE DEF u
<1>5. /\ DOMAIN u = DOMAIN t /\ u.root = t.root /\ u.red = t.red \cup {n}
      /\ u.skew = t.skew /\ u.bad = t.bad /\ u.par = al.par
      /\ u.kid = [al.kid EXCEPT ![above][s] = n]
  BY <1>1, <1>4 DEF IsTree
<1>6. u.kid \in [Allocated(t) \cup {n} -> [Side -> (Allocated(t) \cup {n}) \cup {TNULL}]]
  BY <1>0, <1>2, <1>5
<1>7. Allocated(u) = Allocated(t) \cup {n}
  BY <1>6 DEF Allocated
<1>8. IsTree(u)
  BY <1>3, <1>5, <1>6, <1>7 DEF IsTree
<1>9. /\ \A e \in Side : u.kid[n][e] = TNULL
      /\ u.kid[above][s] = n
      /\ \A m \in Allocated(t), e \in Side : m # above \/ e # s => u.kid[m][e] = t.kid[m][e]
  BY <1>0, <1>1, <1>2, <1>5 DEF Side, Allocated
<1>10. u.par[n] = above /\ \A m \in Allocated(t) : u.par[m] = t.par[m]
  BY <1>0, <1>1, <1>5
<1> QED BY <1>5, <1>7, <1>8, <1>9, <1>10 DEF Hung, u

LEMMA HungJoined ==
  ASSUME NEW t, Shaped(t), NEW n \in Node \ Allocated(t), NEW above \in Allocated(t),
         NEW s \in Side, t.kid[above][s] = TNULL,
         NEW u, IsTree(u), Hung(t, u, n, above, s)
  PROVE  Joined(u) /\ IsWhole(u) /\ IsFiniteSet(Allocated(u))
<1>0. /\ IsTree(t) /\ Joined(t) /\ above # n /\ TNULL \notin Node /\ NULL \notin Node
      /\ TNULL \notin Allocated(u) /\ TNULL \notin Allocated(t) /\ NULL \notin Allocated(t)
      /\ t.root \in Allocated(t)
  BY RedBlackTreeAssumption DEF Shaped, IsTree, Nobody, Joined
<1>1. u.root \in Allocated(t) /\ u.root # n /\ u.par[u.root] = NULL
  BY <1>0 DEF Hung, Joined
<1>2. ASSUME NEW m \in Allocated(u), m # u.root
      PROVE  u.par[m] \in Allocated(u) /\ \E e \in Side : u.kid[u.par[m]][e] = m
  <2>1. CASE m = n
    BY <2>1 DEF Hung
  <2>2. CASE m # n
    <3>1. m \in Allocated(t) /\ m # t.root /\ u.par[m] = t.par[m]
      BY <2>2, <1>2 DEF Hung
    <3>2. PICK e \in Side : t.par[m] \in Allocated(t) /\ t.kid[t.par[m]][e] = m
      BY <3>1, <1>0 DEF Joined
    <3>3. u.kid[t.par[m]][e] = m
      BY <3>1, <3>2, <1>0 DEF Hung
    <3> QED BY <3>1, <3>2, <3>3 DEF Hung
  <2> QED BY <2>1, <2>2
<1>3. ASSUME NEW m \in Allocated(u), NEW e \in Side, u.kid[m][e] \in Allocated(u)
      PROVE  u.par[u.kid[m][e]] = m
  <2>1. CASE m = n
    BY <2>1, <1>0, <1>3 DEF Hung
  <2>2. CASE m = above /\ e = s
    BY <2>2 DEF Hung
  <2>3. CASE m # n /\ (m # above \/ e # s)
    <3>1. m \in Allocated(t) /\ u.kid[m][e] = t.kid[m][e]
      BY <2>3 DEF Hung
    <3>2. t.kid[m][e] \in Allocated(t)
      BY <3>1, <1>0, <1>3 DEF IsTree
    <3> QED BY <3>1, <3>2, <1>0 DEF Hung, Joined
  <2> QED BY <2>1, <2>2, <2>3
<1>4. Joined(u)
  BY <1>0, <1>1, <1>2, <1>3 DEF Joined
<1>5. IsWhole(u)
  <2> SUFFICES ASSUME NEW S \in SUBSET Allocated(u), u.root \in S, ClosedDown(u, S)
               PROVE  Allocated(u) \subseteq S
    BY DEF IsWhole
  <2> DEFINE T == S \ {n}
  <2>1. T \in SUBSET Allocated(t) /\ t.root \in T
    BY <1>1 DEF Hung
  <2>2. ASSUME NEW m \in T, NEW e \in Side, t.kid[m][e] \in Allocated(t)
        PROVE  t.kid[m][e] \in T
    <3>1. m # above \/ e # s
      BY <2>2, <1>0
    <3>2. u.kid[m][e] = t.kid[m][e] /\ t.kid[m][e] # n /\ t.kid[m][e] \in Allocated(u)
      BY <3>1, <2>1, <2>2 DEF Hung
    <3> QED BY <3>2 DEF ClosedDown
  <2>3. Allocated(t) \subseteq T
    BY <2>1, <2>2 DEF ClosedDown, IsWhole, Shaped
  <2>4. u.kid[above][s] = n /\ n \in Allocated(u) /\ above \in S
    BY <2>3 DEF Hung
  <2>5. n \in S
    BY <2>4 DEF ClosedDown
  <2> QED BY <2>3, <2>5 DEF Hung
<1>6. IsFiniteSet(Allocated(u))
  BY FS_AddElement DEF Hung, Shaped
<1> QED BY <1>4, <1>5, <1>6

\* The labels with n attached: it is below above and all that above is below.
HungLab(t, b, n, above) ==
  [m \in Allocated(t) \cup {n} |-> IF m = n THEN {n}
                                   ELSE IF above \in b[m] THEN b[m] \cup {n} ELSE b[m]]

LEMMA HungLabels ==
  ASSUME NEW t, Shaped(t), NEW b, Labels(t, b), NEW n, Newest(t, n),
         NEW above \in Allocated(t), NEW s, s = Way(n, above), t.kid[above][s] = TNULL,
         Fits(t, b, n, above, TNULL),
         NEW u, IsTree(u), Hung(t, u, n, above, s)
  PROVE  Labels(u, HungLab(t, b, n, above))
<1> DEFINE bb == HungLab(t, b, n, above)
           o == Opposite(s)
<1>0. /\ IsTree(t) /\ Joined(t) /\ above # n /\ TNULL \notin Node /\ NULL \notin Node
      /\ TNULL \notin Allocated(t) /\ NULL \notin Allocated(t) /\ n \in Node
      /\ n \notin Allocated(t) /\ Allocated(u) = Allocated(t) \cup {n}
      /\ s \in Side /\ o \in Side /\ o # s /\ \A e \in Side : e = s \/ e = o
      /\ above # NULL /\ TNULL # n
  BY WayIs, OppositeIs, RedBlackTreeAssumption DEF Shaped, IsTree, Nobody, Newest, Hung
<1>1. /\ b \in [Allocated(t) -> SUBSET Allocated(t)]
      /\ Covers(t, b) /\ Orders(t, b) /\ Climbs(t, b) /\ Nests(t, b)
  BY DEF Labels
<1>2. /\ bb[n] = {n}
      /\ \A m \in Allocated(t) : bb[m] = IF above \in b[m] THEN b[m] \cup {n} ELSE b[m]
      /\ DOMAIN bb = Allocated(u)
      /\ Lab(bb, TNULL) = {} /\ Lab(bb, n) = {n} /\ Lab(b, TNULL) = {}
      /\ \A m \in Allocated(t) : Lab(bb, m) = bb[m] /\ Lab(b, m) = b[m]
  BY <1>0, <1>1 DEF HungLab, Lab
<1>3. bb \in [Allocated(u) -> SUBSET Allocated(u)]
  BY <1>0, <1>1 DEF HungLab
<1>4. ASSUME NEW m \in Allocated(t), NEW e \in Side
      PROVE  Lab(bb, u.kid[m][e]) =
               IF (m = above /\ e = s) \/ above \in Lab(b, t.kid[m][e])
               THEN Lab(b, t.kid[m][e]) \cup {n} ELSE Lab(b, t.kid[m][e])
  <2>1. CASE m = above /\ e = s
    <3>1. u.kid[m][e] = n /\ t.kid[m][e] = TNULL
      BY <2>1 DEF Hung
    <3> HIDE DEF bb
    <3> QED BY <3>1, <2>1, <1>2
  <2>2. CASE m # above \/ e # s
    <3>1. u.kid[m][e] = t.kid[m][e] /\ t.kid[m][e] \in Allocated(t) \cup {TNULL}
      BY <2>2, <1>0 DEF Hung, IsTree
    <3> HIDE DEF bb
    <3> QED BY <3>1, <2>2, <1>2
  <2> QED BY <2>1, <2>2
<1> HIDE DEF bb
<1>5. Covers(u, bb)
  <2> SUFFICES ASSUME NEW m \in Allocated(u)
               PROVE  bb[m] = {m} \cup Lab(bb, u.kid[m][s]) \cup Lab(bb, u.kid[m][o])
    BY <1>0 DEF Covers, Side
  <2>1. CASE m = n
    <3>1. u.kid[m][s] = TNULL /\ u.kid[m][o] = TNULL
      BY <2>1, <1>0 DEF Hung
    <3> QED BY <3>1, <2>1, <1>2
  <2>2. CASE m \in Allocated(t)
    <3>1. b[m] = {m} \cup Lab(b, t.kid[m][s]) \cup Lab(b, t.kid[m][o])
      BY <2>2, <1>0, CoverOf
    <3>2. bb[m] = IF above \in b[m] THEN b[m] \cup {n} ELSE b[m]
      BY <2>2, <1>2
    <3>3. Lab(bb, u.kid[m][s]) = IF m = above \/ above \in Lab(b, t.kid[m][s])
                                 THEN Lab(b, t.kid[m][s]) \cup {n} ELSE Lab(b, t.kid[m][s])
      BY <2>2, <1>0, <1>4
    <3>4. Lab(bb, u.kid[m][o]) = IF above \in Lab(b, t.kid[m][o])
                                 THEN Lab(b, t.kid[m][o]) \cup {n} ELSE Lab(b, t.kid[m][o])
      BY <2>2, <1>0, <1>4
    <3> QED BY ONLY <3>1, <3>2, <3>3, <3>4
  <2> QED BY <2>1, <2>2, <1>0
<1>6. Orders(u, bb)
  <2> SUFFICES ASSUME NEW m \in Allocated(u), NEW e \in Side, NEW i \in Lab(bb, u.kid[m][e])
               PROVE  On(e, i, m)
    BY DEF Orders
  <2>1. CASE m = n
    BY <2>1, <1>2 DEF Hung
  <2>2. CASE m \in Allocated(t) /\ i \in Lab(b, t.kid[m][e])
    BY <2>2, <1>1 DEF Orders
  <2>3. CASE m \in Allocated(t) /\ i = n /\ i \notin Lab(b, t.kid[m][e])
    <3>1. (m = above /\ e = s) \/ above \in Lab(b, t.kid[m][e])
      BY <2>3, <1>4
    <3>2. CASE m = above /\ e = s
      BY <3>2, <2>3, <1>0, WayIs
    <3>3. CASE above \in Lab(b, t.kid[m][e])
      BY <3>3, <2>3, <1>0 DEF Fits
    <3> QED BY <3>1, <3>2, <3>3
  <2> QED BY <2>1, <2>2, <2>3, <1>0, <1>4
<1>7. Climbs(u, bb)
  <2> SUFFICES ASSUME NEW m \in Allocated(u), NEW i \in bb[m], i # m
               PROVE  u.par[i] \in bb[m]
    BY DEF Climbs
  <2>1. m \in Allocated(t)
    BY <1>0, <1>2
  <2>2. CASE i = n
    BY <2>1, <2>2, <1>0, <1>1, <1>2 DEF Hung
  <2>3. CASE i # n
    <3>1. i \in b[m] /\ u.par[i] = t.par[i] /\ b[m] \subseteq bb[m]
      BY <2>1, <2>3, <1>1, <1>2 DEF Hung
    <3> QED BY <3>1, <2>1, <1>1 DEF Climbs
  <2> QED BY <2>2, <2>3
<1>8. Nests(u, bb)
  <2> SUFFICES ASSUME NEW m \in Allocated(u), NEW i \in bb[m]
               PROVE  bb[i] \subseteq bb[m]
    BY DEF Nests
  <2>1. CASE i = n
    BY <2>1, <1>2
  <2>2. CASE i # n
    <3>1. m \in Allocated(t) /\ i \in b[m] /\ i \in Allocated(t) /\ b[i] \subseteq b[m]
      BY <2>2, <1>0, <1>1, <1>2 DEF Nests
    <3> QED BY <3>1, <1>2
  <2> QED BY <2>1, <2>2
<1> QED BY <1>3, <1>5, <1>6, <1>7, <1>8 DEF Labels, bb

LEMMA HungHeights ==
  ASSUME NEW t, Shaped(t), NEW n \in Node \ Allocated(t), NEW above \in Allocated(t),
         NEW s \in Side, t.kid[above][s] = TNULL,
         NEW u, IsTree(u), Hung(t, u, n, above, s), NEW h, Heights(t, h)
  PROVE  Heights(u, [m \in Allocated(u) |-> IF m = n THEN 0 ELSE h[m]])
<1> DEFINE hh == [m \in Allocated(u) |-> IF m = n THEN 0 ELSE h[m]]
<1>0. /\ IsTree(t) /\ TNULL \notin Allocated(u) /\ TNULL \notin Allocated(t) /\ TNULL # n
      /\ n \notin t.red
  BY RedBlackTreeAssumption DEF Shaped, IsTree, Nobody, Hung
<1>1. /\ h \in [Allocated(t) -> Nat]
      /\ \A m \in Allocated(t), e \in Side : Weight(t, h, t.kid[m][e]) = h[m]
  BY DEF Heights
<1>2. /\ hh \in [Allocated(u) -> Nat] /\ hh[n] = 0
      /\ \A m \in Allocated(t) : hh[m] = h[m]
  BY <1>1 DEF Hung
<1> HIDE DEF hh
<1>3. /\ Weight(u, hh, n) = 0 /\ Weight(u, hh, TNULL) = 0 /\ Weight(t, h, TNULL) = 0
      /\ \A m \in Allocated(t) : Weight(u, hh, m) = Weight(t, h, m)
  BY <1>0, <1>2 DEF Weight, Hung
<1>4. ASSUME NEW m \in Allocated(u), NEW e \in Side
      PROVE  Weight(u, hh, u.kid[m][e]) = hh[m]
  <2>1. CASE m = n
    BY <2>1, <1>2, <1>3 DEF Hung
  <2>2. CASE m = above /\ e = s
    BY <2>2, <1>1, <1>2, <1>3 DEF Hung
  <2>3. CASE m # n /\ (m # above \/ e # s)
    <3>1. m \in Allocated(t) /\ u.kid[m][e] = t.kid[m][e]
      BY <2>3 DEF Hung
    <3>2. t.kid[m][e] \in Allocated(t) \cup {TNULL}
      BY <3>1, <1>0 DEF IsTree
    <3> QED BY <3>1, <3>2, <1>1, <1>2, <1>3
  <2> QED BY <2>1, <2>2, <2>3
<1> QED BY <1>2, <1>4 DEF Heights, hh

\* A node below another: red, and out of place if that one is red.
LEMMA AttachKeeps ==
  ASSUME NEW t, Shaped(t), NEW b, Labels(t, b),
         NEW n, Newest(t, n), NEW above, above # NULL, Fits(t, b, n, above, TNULL),
         NEW u, u = Attached(t, n, above)
  PROVE  /\ Shaped(u) /\ n \in u.red /\ Allocated(u) = Allocated(t) \cup {n}
         /\ u.skew = t.skew /\ u.bad = t.bad
         /\ u.root \in u.red => t.root \in t.red
         /\ Even(t) /\ OnlyAt(t, NULL) =>
              Even(u) /\ OnlyAt(u, n) /\ (IsSettled(u, n) => OnlyAt(u, NULL))
<1> DEFINE s == Way(n, above)
<1>0. /\ IsTree(t) /\ Joined(t) /\ above \in Allocated(t) /\ n \in Node \ Allocated(t)
      /\ s \in Side /\ t.kid[above][s] = TNULL /\ NULL \notin Node /\ TNULL \notin Node
  BY WayIs, RedBlackTreeAssumption DEF Shaped, Fits, Newest, Nobody
<1>1. Hung(t, u, n, above, s) /\ IsTree(u)
  BY <1>0, AttachedIsHung
<1> HIDE DEF s
<1>2. Joined(u) /\ IsWhole(u) /\ IsFiniteSet(Allocated(u))
  BY <1>0, <1>1, HungJoined
<1>3. Labels(u, HungLab(t, b, n, above))
  BY <1>0, <1>1, HungLabels DEF s
<1>4. /\ Allocated(u) = Allocated(t) \cup {n} /\ u.red = t.red \cup {n} /\ u.root = t.root
      /\ u.skew = t.skew /\ u.bad = t.bad
  BY <1>1 DEF Hung
<1>5. Shaped(u)
  BY <1>1, <1>2, <1>3 DEF Shaped, Labelled
<1>6. n # t.root
  BY <1>0 DEF IsTree
<1>7. ASSUME Even(t), OnlyAt(t, NULL)
      PROVE  Even(u) /\ OnlyAt(u, n) /\ (IsSettled(u, n) => OnlyAt(u, NULL))
  <2>1. Even(u)
    BY <1>0, <1>1, <1>7, HungHeights DEF Even
  <2>2. \A m \in u.red : m # n => m \in t.red /\ m # t.root /\ t.par[m] \notin t.red
                                  /\ u.par[m] = t.par[m] /\ t.par[m] # n
    <3> TAKE m \in u.red
    <3> HAVE m # n
    <3>1. m \in t.red /\ m \in Allocated(t) /\ m # NULL
      BY <1>0, <1>4 DEF IsTree
    <3>2. m # t.root /\ t.par[m] \notin t.red
      BY <3>1, <1>7 DEF OnlyAt
    <3>3. t.par[m] \in Allocated(t) /\ u.par[m] = t.par[m]
      BY <3>1, <3>2, <1>0, <1>1 DEF Joined, Hung
    <3> QED BY <3>1, <3>2, <3>3, <1>0
  <2>3. \A m \in u.red : m # n => m # u.root /\ u.par[m] \notin u.red
    BY <2>2, <1>4
  <2>4. ASSUME IsSettled(u, n) PROVE OnlyAt(u, NULL)
    <3>1. u.par[n] = above /\ u.par[above] = t.par[above]
      BY <1>0, <1>1 DEF Hung
    <3>2. t.par[above] = NULL
      BY <2>4, <3>1, <1>0 DEF IsSettled, IsTree
    <3>3. above = t.root
      BY <3>2, <1>0 DEF Joined, IsTree
    <3>4. above \notin u.red
      BY <3>3, <1>0, <1>4, <2>3
    <3> QED BY <3>1, <3>4, <1>4, <1>6, <2>3 DEF OnlyAt
  <2>5. OnlyAt(u, n)
    BY <2>3 DEF OnlyAt
  <2> QED BY <2>1, <2>4, <2>5
<1> QED BY <1>4, <1>5, <1>6, <1>7

\* The first node of a tree is its black root.
LEMMA FirstKeeps ==
  ASSUME NEW t, Shaped(t), t.root = TNULL, NEW n \in Node,
         NEW u, u = Attached(t, n, NULL)
  PROVE  /\ Shaped(u) /\ Even(u) /\ OnlyAt(u, NULL) /\ IsSettled(u, n) /\ u.red = {}
         /\ Allocated(u) = Allocated(t) \cup {n} /\ u.skew = t.skew /\ u.bad = t.bad
<1>0. /\ IsTree(t) /\ Allocated(t) = {} /\ t.red = {} /\ TNULL # n /\ NULL # n /\ TNULL # NULL
  BY RedBlackTreeAssumption DEF Shaped, IsTree, Joined, Nobody
<1>1. /\ DOMAIN u = DOMAIN t /\ u.root = n /\ u.red = {}
      /\ u.skew = t.skew /\ u.bad = t.bad
      /\ u.kid = [m \in DOMAIN t.kid \cup {n} |->
                    IF m = n THEN [left |-> TNULL, right |-> TNULL] ELSE t.kid[m]]
      /\ u.par = [m \in DOMAIN t.par \cup {n} |-> IF m = n THEN NULL ELSE t.par[m]]
  BY <1>0 DEF Attached, Alone, IsTree
<1>2. /\ u.kid \in [{n} -> [Side -> {n} \cup {TNULL}]] /\ Allocated(u) = {n}
      /\ \A e \in Side : u.kid[n][e] = TNULL
  BY <1>0, <1>1 DEF Side, Allocated
<1>3. u.par \in [{n} \cup {TNULL} -> {n} \cup {NULL}] /\ u.par[n] = NULL
  BY <1>0, <1>1 DEF IsTree
<1>4. IsTree(u)
  BY <1>0, <1>1, <1>2, <1>3 DEF IsTree
<1>5. Joined(u) /\ IsWhole(u)
  BY <1>0, <1>1, <1>2, <1>3 DEF Joined, IsWhole
<1>6. Labels(u, [m \in {n} |-> {n}])
  BY <1>0, <1>2 DEF Labels, Covers, Orders, Climbs, Nests, Lab, Side
<1>7. Heights(u, [m \in {n} |-> 0])
  BY <1>0, <1>2 DEF Heights, Weight
<1>8. IsFiniteSet(Allocated(u))
  BY <1>2, FS_Singleton
<1> QED BY <1>0, <1>1, <1>2, <1>3, <1>4, <1>5, <1>6, <1>7, <1>8
        DEF Shaped, Even, Labelled, OnlyAt, IsSettled

LEMMA BlackenIs ==
  ASSUME NEW t, Shaped(t), NEW n, NEW u, u = Blacken(t, n)
  PROVE  Painted(t, u, t.red \ {n})
<1>1. t.red \ {n} \in SUBSET Allocated(t)
  BY DEF Shaped, IsTree
<1>2. u = [t EXCEPT !.red = t.red \ {n}]
  BY DEF Blacken, Shaped, IsTree
<1> QED BY <1>1, <1>2, PaintedShaped

\* The end of insertFix.
LEMMA BlackenKeeps ==
  ASSUME NEW t, Shaped(t), Even(t), NEW k \in t.red, OnlyAt(t, k),
         ~(k # t.root /\ t.par[k] \in t.red),
         NEW u, u = Blacken(t, t.root)
  PROVE  Even(u) /\ OnlyAt(u, NULL)
<1>0. IsTree(t) /\ Joined(t)
  BY DEF Shaped
<1> DEFINE R == t.red \ {t.root}
<1>2. Painted(t, u, R)
  BY BlackenIs
<1>3. OnlyAt(u, NULL)
  <2> HIDE DEF R
  <2> SUFFICES ASSUME NEW n \in R, n = t.root \/ t.par[n] \in R PROVE FALSE
    BY <1>2 DEF OnlyAt, Painted
  <2> QED BY DEF OnlyAt, R
<1>4. PICK h : Heights(t, h)
  BY DEF Even
<1>5. \A n \in Allocated(t), e \in Side : t.kid[n][e] # t.root
  BY <1>0, RedBlackTreeAssumption DEF Joined, IsTree, Nobody
<1>6. Heights(u, h)
  <2>1. \A c : c # t.root => Weight(u, h, c) = Weight(t, h, c)
    BY <1>2 DEF Weight, Painted
  <2> QED BY <2>1, <1>2, <1>4, <1>5 DEF Heights, Painted
<1> QED BY <1>3, <1>6 DEF Even

-----------------------------------------------------------------------------
(* The empty tree, and the copies of a key. *)

\* Nodes with one key are allocated in the order of their copies.
Dense(t) == \A m \in Allocated(t) : \A c \in 1..(m[2] - 1) : <<m[1], c>> \in Allocated(t)

LEMMA EmptyShaped ==
  Shaped(EmptyTree) /\ Even(EmptyTree) /\ Dense(EmptyTree) /\ OnlyAt(EmptyTree, NULL)
  /\ Allocated(EmptyTree) = {}
<1> DEFINE t == EmptyTree
<1>1. /\ DOMAIN t = {"root", "kid", "par", "red", "skew", "bad"}
      /\ t.root = TNULL /\ t.kid = [n \in {} |-> TNULL] /\ t.par = [n \in {TNULL} |-> NULL]
      /\ t.red = {} /\ t.skew = FALSE /\ t.bad = FALSE
  BY DEF EmptyTree
<1> HIDE DEF t
<1>2. Allocated(t) = {}
  BY <1>1 DEF Allocated
<1>3. IsTree(t)
  BY <1>1, <1>2 DEF IsTree
<1>4. Joined(t) /\ IsWhole(t) /\ Dense(t) /\ OnlyAt(t, NULL) /\ IsFiniteSet(Allocated(t))
  BY <1>1, <1>2, FS_EmptySet DEF Joined, IsWhole, Dense, OnlyAt
<1>5. Labels(t, [n \in {} |-> {}])
  BY <1>2 DEF Labels, Covers, Orders, Climbs, Nests
<1>6. Heights(t, [n \in {} |-> 0])
  BY <1>2 DEF Heights
<1> QED BY <1>2, <1>3, <1>4, <1>5, <1>6 DEF Shaped, Labelled, Even, t

LEMMA NextIsNewest ==
  ASSUME NEW t, IsTree(t), Dense(t), NEW n \in Node, IsNext(t, n)
  PROVE  Newest(t, n)
<1> SUFFICES ASSUME NEW m \in Allocated(t), KeyOf(m) = KeyOf(n), ~(m[2] < n[2])
             PROVE  FALSE
  BY DEF Newest, IsNext
<1>1. m \in Node
  BY DEF IsTree
<1>2. m[1] = n[1] /\ m[2] \in Nat \ {0} /\ n[2] \in Nat \ {0} /\ n = <<n[1], n[2]>>
      /\ m = <<m[1], m[2]>>
  <2>1. \A i \in Node : i[2] \in Nat \ {0} /\ i = <<i[1], i[2]>>
    <3> TAKE i \in Node
    <3>1. PICK k \in Key, c \in Copies : i = <<k, c>>
      BY DEF Node
    <3>2. c \in Nat \ {0}
      BY RedBlackTreeAssumption
    <3> QED BY <3>1, <3>2
  <2> QED BY <2>1, <1>1 DEF KeyOf
<1>3. CASE m[2] = n[2]
  BY <1>2, <1>3 DEF IsNext
<1>4. CASE m[2] > n[2]
  <2>1. n[2] \in 1..(m[2] - 1)
    BY <1>2, <1>4
  <2>2. <<m[1], n[2]>> \in Allocated(t)
    BY <2>1 DEF Dense
  <2> QED BY <2>2, <1>2 DEF IsNext
<1> QED BY <1>2, <1>3, <1>4

LEMMA DenseGrows ==
  ASSUME NEW t, Dense(t), NEW n \in Node, IsNext(t, n),
         NEW u, Allocated(u) = Allocated(t) \cup {n}
  PROVE  Dense(u)
BY DEF Dense, IsNext

-----------------------------------------------------------------------------
(* The two walks of deleteNode(). *)

LEMMA LabelClosed ==
  ASSUME NEW t, IsTree(t), NEW b, Labels(t, b), NEW n \in Allocated(t)
  PROVE  b[n] \in SUBSET Allocated(t) /\ n \in b[n] /\ ClosedDown(t, b[n])
<1>1. b[n] \in SUBSET Allocated(t) /\ n \in b[n]
  BY DEF Labels, Covers
<1>2. ASSUME NEW m \in b[n], NEW d \in Side, t.kid[m][d] \in Allocated(t)
      PROVE  t.kid[m][d] \in b[n]
  <2>1. m \in Allocated(t) /\ b[m] \subseteq b[n]
    BY <1>1 DEF Labels, Nests
  <2>2. t.kid[m][d] \in b[t.kid[m][d]]
    BY <1>2 DEF Labels, Covers
  <2>3. b[t.kid[m][d]] \subseteq b[m]
    BY <2>1, <1>2, CoverOf DEF Lab, Labels
  <2> QED BY <2>1, <2>2, <2>3
<1> QED BY <1>1, <1>2 DEF ClosedDown

LEMMA RootLabel ==
  ASSUME NEW t, Shaped(t), NEW b, Labels(t, b)
  PROVE  Lab(b, t.root) = Allocated(t)
<1>1. CASE t.root \in Allocated(t)
  <2>1. b[t.root] = Allocated(t)
    BY <1>1, LabelClosed DEF Shaped, IsWhole
  <2> QED BY <1>1, <2>1 DEF Lab, Labels
<1>2. CASE t.root \notin Allocated(t)
  BY <1>2 DEF Lab, Labels, Shaped, IsTree, Joined
<1> QED BY <1>1, <1>2

\* The walk for the last node with key k is at at, and found the last with it so
\* far: every other is before that one or below at, and all below at after it.
Sought(t, b, k, at, found) ==
  /\ found # TNULL => KeyOf(found) = k /\ \A m \in Lab(b, at) : Before(found, m)
  /\ \A m \in WithKey(t, k) :
       m = found \/ m \in Lab(b, at) \/ (found # TNULL /\ Before(m, found))

LEMMA SeekStarts ==
  ASSUME NEW t, Shaped(t), NEW b, Labels(t, b), NEW k
  PROVE  Sought(t, b, k, t.root, TNULL)
BY RootLabel DEF Sought, WithKey

LEMMA SeekTurns ==
  ASSUME NEW t, Shaped(t), NEW b, Labels(t, b), NEW k \in Key, NEW at \in Allocated(t),
         NEW found \in Allocated(t) \cup {TNULL}, Sought(t, b, k, at, found)
  PROVE  Sought(t, b, k, t.kid[at][IF KeyOf(at) <= k THEN "right" ELSE "left"],
                IF KeyOf(at) = k THEN at ELSE found)
<1> DEFINE L == Lab(b, t.kid[at]["left"])
           R == Lab(b, t.kid[at]["right"])
<1>0. /\ Lab(b, at) = {at} \cup L \cup R /\ L \subseteq Allocated(t) /\ R \subseteq Allocated(t)
      /\ \A m \in L : Before(m, at)
      /\ \A m \in R : Before(at, m)
  BY DEF Labels, Covers, Orders, Lab, On, Side
<1>1. \A m \in Allocated(t) : m \in Node /\ m[1] \in Nat /\ m[2] \in Nat
  <2>1. \A m \in Node : m[1] \in Nat /\ m[2] \in Nat
    BY RedBlackTreeAssumption DEF Node
  <2> QED BY <2>1 DEF Shaped, IsTree
<1>2. k \in Nat /\ at[1] \in Nat /\ at[2] \in Nat
  BY <1>1, RedBlackTreeAssumption
<1>3. TNULL \notin Allocated(t)
  BY RedBlackTreeAssumption DEF Shaped, IsTree, Nobody
<1>4. \A m \in WithKey(t, k) : m \in Allocated(t) /\ m[1] = k
  BY DEF WithKey, KeyOf
<1>5. \A m \in L : m[1] <= at[1] /\ (m[1] = at[1] => Before(m, at))
  BY <1>0, <1>1, <1>2 DEF Before, KeyOf
<1>6. \A m \in R : m[1] >= at[1]
  BY <1>0, <1>1, <1>2 DEF Before, KeyOf
<1> HIDE DEF L, R
<1>7. CASE KeyOf(at) = k
  <2>1. Sought(t, b, k, t.kid[at]["right"], at)
    <3>1. \A m \in Lab(b, t.kid[at]["right"]) : Before(at, m)
      BY <1>0 DEF R
    <3>2. ASSUME NEW m \in WithKey(t, k), m # at, m \notin R PROVE Before(m, at)
      <4>1. CASE m \in L
        BY <4>1, <1>0
      <4>2. CASE m \notin L
        <5>1. m = found \/ (found # TNULL /\ Before(m, found))
          BY <3>2, <4>2, <1>0 DEF Sought
        <5>2. found # TNULL /\ found \in Allocated(t) /\ Before(found, at)
          BY <5>1, <1>0, <1>3, <1>4 DEF Sought
        <5>3. Before(m, found) /\ Before(found, at) => Before(m, at)
          BY <5>2, <1>1, <1>2, <1>4 DEF Before, KeyOf
        <5> QED BY <5>1, <5>2, <5>3
      <4> QED BY <4>1, <4>2
    <3> QED BY <3>1, <3>2, <1>3, <1>7 DEF Sought, R
  <2> QED BY <2>1, <1>2, <1>7 DEF KeyOf
<1>8. ASSUME NEW d \in Side, NEW o \in Side, o # d,
             \A m \in Lab(b, t.kid[at][o]) : m \notin WithKey(t, k), KeyOf(at) # k
      PROVE  Sought(t, b, k, t.kid[at][d], found)
  <2>1. Lab(b, at) = {at} \cup Lab(b, t.kid[at][d]) \cup Lab(b, t.kid[at][o])
    BY <1>8, <1>0 DEF Side, L, R
  <2>2. at \notin WithKey(t, k)
    BY <1>8 DEF WithKey
  <2> QED BY <2>1, <2>2, <1>8 DEF Sought
<1>9. CASE KeyOf(at) < k
  <2>1. \A m \in L : m \notin WithKey(t, k)
    BY <1>9, <1>2, <1>4, <1>5, <1>0, <1>1 DEF KeyOf
  <2> QED BY <2>1, <1>2, <1>8, <1>9 DEF Side, L, KeyOf
<1>10. CASE KeyOf(at) > k
  <2>1. \A m \in R : m \notin WithKey(t, k)
    BY <1>10, <1>2, <1>4, <1>6, <1>0, <1>1 DEF KeyOf
  <2> QED BY <2>1, <1>2, <1>8, <1>10 DEF Side, R, KeyOf
<1> QED BY <1>2, <1>7, <1>9, <1>10 DEF KeyOf

\* The walk for the first node below top is at at.
Leftmost(t, b, top, at) ==
  at \in b[top] /\ \A m \in b[top] \ b[at], i \in b[at] : Before(i, m)

LEMMA LeastTurns ==
  ASSUME NEW t, Shaped(t), NEW b, Labels(t, b), NEW top \in Allocated(t),
         NEW at \in Allocated(t), Leftmost(t, b, top, at), t.kid[at]["left"] # TNULL
  PROVE  t.kid[at]["left"] \in Allocated(t) /\ Leftmost(t, b, top, t.kid[at]["left"])
<1> DEFINE c == t.kid[at]["left"]
<1>0. IsTree(t) /\ "left" \in Side /\ "right" \in Side
  BY DEF Shaped, Side
<1>1. c \in Allocated(t)
  BY <1>0 DEF IsTree
<1>2. b[at] = {at} \cup b[c] \cup Lab(b, t.kid[at]["right"])
  BY <1>1 DEF Labels, Covers, Lab
<1>3. c \in b[c] /\ b[at] \subseteq Allocated(t)
  BY <1>1 DEF Labels, Covers
<1>4. /\ \A i \in b[c] : Before(i, at)
      /\ \A m \in Lab(b, t.kid[at]["right"]) : Before(at, m)
  BY <1>0, <1>1 DEF Labels, Orders, Lab, On
<1>5. b[at] \subseteq b[top]
  BY DEF Leftmost, Labels, Nests
<1>6. ASSUME NEW m \in b[top] \ b[c], NEW i \in b[c] PROVE Before(i, m)
  <2>1. CASE m \notin b[at]
    BY <2>1, <1>2 DEF Leftmost
  <2>2. CASE m = at
    BY <2>2, <1>4
  <2>3. CASE m \in Lab(b, t.kid[at]["right"])
    <3>1. i \in Node /\ at \in Node /\ m \in Node
      BY <2>3, <1>0, <1>2, <1>3 DEF IsTree
    <3>2. On("left", i, at) /\ On("left", at, m)
      BY <2>3, <1>4 DEF On
    <3>3. On("left", i, m)
      BY <3>1, <3>2, <1>0, NodeOrder
    <3> QED BY <3>3 DEF On
  <2> QED BY <2>1, <2>2, <2>3, <1>2
<1> QED BY <1>1, <1>2, <1>3, <1>5, <1>6 DEF Leftmost

LEMMA LeastEnds ==
  ASSUME NEW t, Shaped(t), NEW b, Labels(t, b), NEW top \in Allocated(t),
         NEW at \in Allocated(t), Leftmost(t, b, top, at), t.kid[at]["left"] = TNULL
  PROVE  \A m \in b[top] : m # at => Before(at, m)
<1>1. TNULL \notin Allocated(t)
  BY RedBlackTreeAssumption DEF Shaped, IsTree, Nobody
<1>2. b[at] = {at} \cup Lab(b, t.kid[at]["right"])
  BY <1>1 DEF Labels, Covers, Lab
<1>3. \A m \in Lab(b, t.kid[at]["right"]) : Before(at, m)
  BY DEF Labels, Orders, Side, On
<1> QED BY <1>2, <1>3 DEF Leftmost

-----------------------------------------------------------------------------
(* A node with one child at most is taken out. *)

\* u is t without v, and c, the only child of v if any, in its place.
Spliced(t, u, v, c) ==
  /\ Allocated(u) = Allocated(t) \ {v} /\ u.red = t.red \ {v}
  /\ u.skew = t.skew /\ u.bad = t.bad
  /\ u.root = IF t.root = v THEN c ELSE t.root
  /\ \A m \in Allocated(u), e \in Side : u.kid[m][e] = IF t.kid[m][e] = v THEN c ELSE t.kid[m][e]
  /\ u.par[c] = t.par[v]
  /\ \A m \in Allocated(u) \ {c} : u.par[m] = t.par[m]

\* What a node's place is.
LEMMA PlaceIs ==
  ASSUME NEW t, IsTree(t), Joined(t), NEW b, Labels(t, b), NEW n \in Allocated(t)
  PROVE  /\ t.par[n] = NULL <=> n = t.root
         /\ n # t.root => /\ t.par[n] \in Allocated(t) /\ SideOf(t, n) \in Side
                          /\ t.kid[t.par[n]][SideOf(t, n)] = n
         /\ \A m \in Allocated(t), e \in Side :
              t.kid[m][e] = n => n # t.root /\ m = t.par[n] /\ e = SideOf(t, n)
         /\ t.par[n] # n /\ t.par[n] \notin b[n]
         /\ TNULL \notin Allocated(t) /\ NULL \notin Allocated(t) /\ TNULL # NULL
<1>0. TNULL \notin Allocated(t) /\ NULL \notin Allocated(t) /\ TNULL # NULL
  BY RedBlackTreeAssumption DEF IsTree, Nobody
<1>1. t.par[n] = NULL <=> n = t.root
  BY <1>0 DEF Joined
<1>2. ASSUME NEW m \in Allocated(t), NEW e \in Side, t.kid[m][e] = n
      PROVE  /\ n # t.root /\ m = t.par[n] /\ e = SideOf(t, n)
             /\ t.par[n] # n /\ t.par[n] \notin b[n]
  <2>1. m = t.par[n] /\ n # t.root
    BY <1>0, <1>2 DEF Joined
  <2>2. t.kid[m][Opposite(e)] # n /\ m \notin b[n] /\ n # m
    BY <1>2, ChildFacts
  <2>3. e = SideOf(t, n)
    BY <2>1, <2>2, <1>2 DEF SideOf, Opposite, Side
  <2> QED BY <2>1, <2>2, <2>3
<1>3. ASSUME n # t.root
      PROVE  /\ t.par[n] \in Allocated(t) /\ SideOf(t, n) \in Side
             /\ t.kid[t.par[n]][SideOf(t, n)] = n
             /\ t.par[n] # n /\ t.par[n] \notin b[n]
  <2>1. PICK e \in Side : t.par[n] \in Allocated(t) /\ t.kid[t.par[n]][e] = n
    BY <1>3 DEF Joined
  <2> QED BY <2>1, <1>2
<1>4. n = t.root => t.par[n] # n /\ t.par[n] \notin b[n]
  BY <1>0, <1>1 DEF Labels
<1> QED BY <1>0, <1>1, <1>2, <1>3, <1>4

LEMMA TransplantParts ==
  ASSUME NEW t, IsTree(t), NEW v, NEW c
  PROVE  /\ DOMAIN Transplant(t, v, c) = {"root", "kid", "par", "red", "skew", "bad"}
         /\ Transplant(t, v, c).root = IF t.par[v] = NULL THEN c ELSE t.root
         /\ t.par[v] = NULL => Transplant(t, v, c).kid = t.kid
         /\ Transplant(t, v, c).red = t.red
         /\ Transplant(t, v, c).skew = t.skew
         /\ Transplant(t, v, c).bad = t.bad
BY DEF IsTree, Transplant

LEMMA TransplantKid ==
  ASSUME NEW t, IsTree(t), NEW v, NEW c, NEW p, p = t.par[v], NEW s, s = SideOf(t, v)
  PROVE  p # NULL => Transplant(t, v, c).kid = [t.kid EXCEPT ![p][s] = c]
BY DEF IsTree, Transplant

LEMMA TransplantPar ==
  ASSUME NEW t, IsTree(t), NEW v, NEW c
  PROVE  Transplant(t, v, c).par = [t.par EXCEPT ![c] = t.par[v]]
BY DEF IsTree, Transplant

LEMMA FreeParts ==
  ASSUME NEW t, DOMAIN t = {"root", "kid", "par", "red", "skew", "bad"}, NEW v
  PROVE  /\ DOMAIN Free(t, v) = {"root", "kid", "par", "red", "skew", "bad"}
         /\ Free(t, v).root = t.root
         /\ Free(t, v).kid = [n \in DOMAIN t.kid \ {v} |-> t.kid[n]]
         /\ Free(t, v).par = [n \in DOMAIN t.par \ {v} |-> IF t.par[n] = v THEN NULL ELSE t.par[n]]
         /\ Free(t, v).red = t.red \ {v}
         /\ Free(t, v).skew = t.skew
         /\ Free(t, v).bad = t.bad
<1>1. Restrict(t.kid, DOMAIN t.kid \ {v}) = [n \in DOMAIN t.kid \ {v} |-> t.kid[n]]
  BY DEF Restrict
<1> QED BY <1>1 DEF Free

LEMMA SpliceIs ==
  ASSUME NEW t, IsTree(t), Joined(t), NEW b, Labels(t, b), NEW v \in Allocated(t),
         NEW e \in Side, NEW c, c = t.kid[v][e], t.kid[v][Opposite(e)] = TNULL,
         NEW u, u = Free(Transplant(t, v, c), v)
  PROVE  Spliced(t, u, v, c) /\ IsTree(u)
<1> DEFINE p == t.par[v]
           w == Transplant(t, v, c)
<1>0. /\ TNULL \notin Allocated(t) /\ NULL \notin Allocated(t) /\ TNULL # NULL
      /\ c \in Allocated(t) \cup {TNULL} /\ c # v /\ c # p
      /\ p \in Allocated(t) \cup {NULL} /\ p # v
      /\ p = NULL <=> v = t.root
      /\ c \in Allocated(t) => c # t.root /\ t.par[c] = v
      /\ t.kid \in [Allocated(t) -> [Side -> Allocated(t) \cup {TNULL}]]
      /\ t.par \in [Allocated(t) \cup {TNULL} -> Allocated(t) \cup {NULL}]
  <2>1. c \in Allocated(t) \cup {TNULL} /\ p \in Allocated(t) \cup {NULL}
    BY DEF IsTree
  <2>2. c \in Allocated(t) => c # v /\ c # p /\ t.par[c] = v /\ c # t.root
    BY ChildFacts, PlaceIs
  <2> QED BY <2>1, <2>2, PlaceIs DEF IsTree
<1>1. /\ DOMAIN w = {"root", "kid", "par", "red", "skew", "bad"}
      /\ w.root = IF p = NULL THEN c ELSE t.root
      /\ w.red = t.red /\ w.skew = t.skew /\ w.bad = t.bad
  BY TransplantParts
<1>14. w.par = [t.par EXCEPT ![c] = p]
  BY TransplantPar
<1>2. /\ w.kid \in [Allocated(t) -> [Side -> Allocated(t) \cup {TNULL}]]
      /\ \A m \in Allocated(t), f \in Side :
           w.kid[m][f] = IF t.kid[m][f] = v THEN c ELSE t.kid[m][f]
  <2>1. CASE p = NULL
    <3>1. \A m \in Allocated(t), f \in Side : t.kid[m][f] # v
      BY <2>1, <1>0, PlaceIs
    <3>2. w.kid = t.kid
      BY <2>1, TransplantParts
    <3> QED BY <3>1, <3>2, <1>0
  <2>2. CASE p # NULL
    <3>1. p \in Allocated(t) /\ SideOf(t, v) \in Side /\ t.kid[p][SideOf(t, v)] = v
          /\ \A m \in Allocated(t), f \in Side : t.kid[m][f] = v => m = p /\ f = SideOf(t, v)
      BY <2>2, <1>0, PlaceIs
    <3>2. PICK s \in Side : s = SideOf(t, v)
      BY <3>1
    <3>3. w.kid = [t.kid EXCEPT ![p][s] = c]
      <4>1. PICK q : q = p
        OBVIOUS
      <4>2. Transplant(t, v, c).kid = [t.kid EXCEPT ![q][s] = c]
        BY <2>2, <3>2, <4>1, TransplantKid
      <4> QED BY <4>1, <4>2
    <3> HIDE DEF w, p
    <3> QED BY <3>1, <3>2, <3>3, <1>0
  <2> QED BY <2>1, <2>2
<1>3. /\ w.par \in [Allocated(t) \cup {TNULL} -> Allocated(t) \cup {NULL}]
      /\ DOMAIN w.par = Allocated(t) \cup {TNULL} /\ DOMAIN w.kid = Allocated(t)
      /\ w.par[c] = p /\ \A m \in Allocated(t) : m # c => w.par[m] = t.par[m] /\ t.par[m] # v
  <2>1. \A m \in Allocated(t) : m # c => t.par[m] # v
    <3> SUFFICES ASSUME NEW m \in Allocated(t), m # c, t.par[m] = v PROVE FALSE
      OBVIOUS
    <3>1. m # t.root
      BY <1>0, PlaceIs
    <3>2. t.kid[v][SideOf(t, m)] = m /\ SideOf(t, m) \in Side
      BY <3>1, PlaceIs
    <3> QED BY <3>2, <1>0, OppositeIs
  <2>2. DOMAIN w.kid = Allocated(t)
    BY <1>2
  <2> HIDE DEF w, p
  <2> QED BY <2>1, <2>2, <1>0, <1>14
<1> HIDE DEF w
<1>4. /\ DOMAIN u = {"root", "kid", "par", "red", "skew", "bad"}
      /\ u.root = w.root /\ u.red = w.red \ {v} /\ u.skew = w.skew /\ u.bad = w.bad
      /\ u.kid = [n \in DOMAIN w.kid \ {v} |-> w.kid[n]]
      /\ u.par = [n \in DOMAIN w.par \ {v} |-> IF w.par[n] = v THEN NULL ELSE w.par[n]]
  BY <1>1, FreeParts DEF w
<1>5. Allocated(u) = Allocated(t) \ {v}
  BY <1>2, <1>4 DEF Allocated
<1>6. \A m \in Allocated(u), f \in Side :
        u.kid[m][f] = IF t.kid[m][f] = v THEN c ELSE t.kid[m][f]
  BY <1>2, <1>4, <1>5
<1>7. u.par[c] = p /\ \A m \in Allocated(u) \ {c} : u.par[m] = t.par[m]
  BY <1>0, <1>3, <1>4, <1>5
<1>8. u.root = (IF t.root = v THEN c ELSE t.root)
  BY <1>0, <1>1, <1>4
<1>9. Spliced(t, u, v, c)
  BY <1>1, <1>4, <1>5, <1>6, <1>7, <1>8 DEF Spliced
<1>10. u.kid \in [Allocated(u) -> [Side -> Allocated(u) \cup {TNULL}]]
  <2>1. \A m \in Allocated(u) : u.kid[m] \in [Side -> Allocated(t) \cup {TNULL}]
    BY <1>2, <1>4, <1>5
  <2>2. \A m \in Allocated(u), f \in Side : u.kid[m][f] \in Allocated(u) \cup {TNULL}
    BY <2>1, <1>0, <1>5, <1>6
  <2>3. \A m \in Allocated(u) : u.kid[m] \in [Side -> Allocated(u) \cup {TNULL}]
    BY <2>1, <2>2
  <2>4. u.kid = [n \in Allocated(u) |-> u.kid[n]]
    BY <1>4, <1>2, <1>5
  <2> QED BY <2>3, <2>4
<1>11. u.par \in [Allocated(u) \cup {TNULL} -> Allocated(u) \cup {NULL}]
  <2>1. DOMAIN w.par \ {v} = Allocated(u) \cup {TNULL}
    BY <1>0, <1>3, <1>5
  <2> QED BY <2>1, <1>3, <1>4, <1>5
<1>12. u.root \in Allocated(u) \cup {TNULL}
  BY <1>0, <1>5, <1>8 DEF IsTree
<1>13. u.red \subseteq Allocated(u) /\ u.skew \in BOOLEAN /\ u.bad \in BOOLEAN
       /\ Allocated(u) \subseteq Node
  BY <1>1, <1>4, <1>5 DEF IsTree
<1> QED BY <1>4, <1>9, <1>10, <1>11, <1>12, <1>13 DEF IsTree

SplicedLab(t, b, v) == [n \in Allocated(t) \ {v} |-> b[n] \ {v}]

LEMMA SplicedShaped ==
  ASSUME NEW t, Shaped(t), NEW b, Labels(t, b), NEW v \in Allocated(t),
         NEW e \in Side, NEW c, c = t.kid[v][e], t.kid[v][Opposite(e)] = TNULL,
         NEW u, IsTree(u), Spliced(t, u, v, c)
  PROVE  Shaped(u) /\ Labels(u, SplicedLab(t, b, v))
<1> DEFINE o == Opposite(e)
           bb == SplicedLab(t, b, v)
           p == t.par[v]
<1>0. /\ IsTree(t) /\ Joined(t) /\ o \in Side /\ o # e /\ \A f \in Side : f = e \/ f = o
      /\ TNULL \notin Allocated(t) /\ NULL \notin Allocated(t) /\ TNULL # NULL
      /\ c \in Allocated(t) \cup {TNULL} /\ c # v
      /\ v = t.root <=> p = NULL
      /\ p # NULL => p \in Allocated(u) /\ p \notin b[v]
      /\ c \in Allocated(t) => /\ c # t.root /\ t.par[c] = v /\ c # p
                               /\ c \in Allocated(u) /\ b[c] \subseteq b[v] /\ v \notin b[c]
  <2>1. o \in Side /\ o # e /\ \A f \in Side : f = e \/ f = o
    BY OppositeIs
  <2>2. IsTree(t) /\ Joined(t)
    BY DEF Shaped
  <2>3. c \in Allocated(t) \cup {TNULL}
    BY <2>2 DEF IsTree
  <2>4. c \in Allocated(t) => c # v /\ c # p /\ t.par[c] = v /\ c # t.root
                              /\ b[c] \subseteq b[v] /\ v \notin b[c]
    BY <2>2, ChildFacts, PlaceIs
  <2>5. /\ TNULL \notin Allocated(t) /\ NULL \notin Allocated(t) /\ TNULL # NULL
        /\ v = t.root <=> p = NULL
        /\ p # v /\ p \notin b[v] /\ (v # t.root => p \in Allocated(t))
    BY <2>2, PlaceIs
  <2>6. Allocated(u) = Allocated(t) \ {v}
    BY DEF Spliced
  <2> HIDE DEF o, p
  <2> QED BY <2>1, <2>2, <2>3, <2>4, <2>5, <2>6
<1>1. Allocated(u) = Allocated(t) \ {v}
  BY DEF Spliced
<1>2. /\ b \in [Allocated(t) -> SUBSET Allocated(t)]
      /\ \A n \in Allocated(t) : n \in b[n]
      /\ \A n \in Allocated(t) : \A m \in b[n] : b[m] \subseteq b[n]
      /\ \A n \in Allocated(t) : \A m \in b[n] : m # n => t.par[m] \in b[n]
      /\ b[v] = {v} \cup Lab(b, c)
  <2>1. b[v] = {v} \cup Lab(b, c) \cup Lab(b, t.kid[v][o])
    BY CoverOf
  <2>2. Lab(b, t.kid[v][o]) = {}
    BY <1>0 DEF Lab, Labels
  <2>3. b[v] = {v} \cup Lab(b, c)
    BY <2>1, <2>2
  <2>4. \A n \in Allocated(t) : n \in b[n]
    BY DEF Labels, Covers
  <2> QED BY <2>3, <2>4 DEF Labels, Climbs, Nests
<1>3. /\ DOMAIN bb = Allocated(u) /\ \A n \in Allocated(u) : bb[n] = b[n] \ {v}
      /\ bb \in [Allocated(u) -> SUBSET Allocated(u)]
  BY <1>1, <1>2 DEF SplicedLab
<1> HIDE DEF bb
<1>4. ASSUME NEW n \in Allocated(u), NEW f \in Side
      PROVE  Lab(bb, u.kid[n][f]) = Lab(b, t.kid[n][f]) \ {v}
  <2>1. u.kid[n][f] = IF t.kid[n][f] = v THEN c ELSE t.kid[n][f]
    BY DEF Spliced
  <2>2. CASE t.kid[n][f] = v
    <3>1. Lab(b, v) \ {v} = Lab(b, c)
      BY <1>0, <1>2 DEF Lab
    <3>2. Lab(bb, c) = Lab(b, c)
      <4>1. c \in Allocated(t) => bb[c] = b[c] /\ c \in DOMAIN bb
        <5> SUFFICES ASSUME c \in Allocated(t) PROVE bb[c] = b[c] /\ c \in DOMAIN bb
          OBVIOUS
        <5>1. c \in Allocated(u) /\ v \notin b[c]
          BY <1>0
        <5>2. bb[c] = b[c] \ {v} /\ c \in DOMAIN bb
          BY <5>1, <1>3
        <5> QED BY <5>1, <5>2
      <4>2. c \notin Allocated(t) => c \notin DOMAIN bb
        BY <1>1, <1>3
      <4> QED BY <4>1, <4>2, <1>2 DEF Lab
    <3> QED BY <2>1, <2>2, <3>1, <3>2
  <2>3. CASE t.kid[n][f] # v
    BY <2>1, <2>3, <1>0, <1>1, <1>2, <1>3 DEF Lab
  <2> QED BY <2>2, <2>3
<1>5. Covers(u, bb)
  <2> SUFFICES ASSUME NEW n \in Allocated(u)
               PROVE  bb[n] = {n} \cup Lab(bb, u.kid[n]["left"]) \cup Lab(bb, u.kid[n]["right"])
    BY DEF Covers
  <2>1. b[n] = {n} \cup Lab(b, t.kid[n]["left"]) \cup Lab(b, t.kid[n]["right"])
    BY <1>1 DEF Labels, Covers
  <2>2. /\ Lab(bb, u.kid[n]["left"]) = Lab(b, t.kid[n]["left"]) \ {v}
        /\ Lab(bb, u.kid[n]["right"]) = Lab(b, t.kid[n]["right"]) \ {v}
    BY <1>4 DEF Side
  <2>3. bb[n] = b[n] \ {v} /\ n # v
    BY <1>1, <1>3
  <2> QED BY ONLY <2>1, <2>2, <2>3
<1>6. Orders(u, bb)
  BY <1>1, <1>4 DEF Orders, Labels
<1>7. Climbs(u, bb)
  <2> SUFFICES ASSUME NEW n \in Allocated(u), NEW m \in bb[n], m # n
               PROVE  u.par[m] \in bb[n]
    BY DEF Climbs
  <2>1. n \in Allocated(t) /\ n # v /\ m \in b[n] /\ m # v /\ bb[n] = b[n] \ {v}
        /\ m \in Allocated(u)
    BY <1>1, <1>3
  <2>2. t.par[m] \in b[n]
    BY <2>1, <1>2
  <2>3. CASE m = c
    <3>1. v \in b[n] /\ u.par[m] = p
      BY <2>1, <2>2, <2>3, <1>0, <1>1 DEF Spliced
    <3>2. p \in b[n]
      BY <3>1, <2>1, <1>2
    <3> QED BY <3>1, <3>2, <2>1, <1>0, <1>1, <1>2
  <2>4. CASE m # c
    <3>1. u.par[m] = t.par[m]
      BY <2>1, <2>4 DEF Spliced
    <3>2. t.par[m] # v
      <4> SUFFICES ASSUME t.par[m] = v PROVE FALSE
        OBVIOUS
      <4>1. m \in Allocated(t) /\ m # t.root
        BY <2>1, <1>0, <1>1, PlaceIs
      <4>2. t.kid[v][SideOf(t, m)] = m /\ SideOf(t, m) \in Side
        BY <4>1, <1>0, PlaceIs
      <4> QED BY <4>1, <4>2, <2>4, <1>0
    <3> QED BY <3>1, <3>2, <2>1, <2>2
  <2> QED BY <2>3, <2>4
<1>8. Nests(u, bb)
  BY <1>1, <1>2, <1>3 DEF Nests
<1>9. Labels(u, bb)
  BY <1>3, <1>5, <1>6, <1>7, <1>8 DEF Labels
<1>10. Joined(u)
  <2>1. u.root = TNULL => Allocated(u) = {}
    <3> SUFFICES ASSUME u.root = TNULL, NEW m \in Allocated(u) PROVE FALSE
      OBVIOUS
    <3>1. t.root \in Allocated(t)
      BY <1>0, <1>1 DEF IsTree, Joined
    <3>2. t.root = v /\ c = TNULL
      BY <3>1, <1>0 DEF Spliced
    <3>3. Lab(b, v) = Allocated(t)
      BY <3>2, RootLabel
    <3>4. Allocated(t) = {v}
      BY <3>2, <3>3, <1>0, <1>2 DEF Lab
    <3> QED BY <3>4, <1>1
  <2>2. u.root \in Allocated(u) => u.par[u.root] = NULL
    <3>1. CASE t.root = v
      BY <3>1, <1>0, <1>1 DEF Spliced
    <3>2. CASE t.root # v
      BY <3>2, <1>0, <1>1 DEF Spliced, Joined
    <3> QED BY <3>1, <3>2
  <2>3. ASSUME NEW n \in Allocated(u), n # u.root
        PROVE  u.par[n] \in Allocated(u) /\ \E f \in Side : u.kid[u.par[n]][f] = n
    <3>1. n \in Allocated(t) /\ n # v
      BY <1>1
    <3>2. CASE n = c
      <4>1. v # t.root /\ u.par[n] = p /\ p \in Allocated(u)
        BY <2>3, <3>1, <3>2, <1>0 DEF Spliced
      <4>2. t.kid[p][SideOf(t, v)] = v /\ SideOf(t, v) \in Side
        BY <4>1, <1>0, PlaceIs
      <4> QED BY <4>1, <4>2, <3>2 DEF Spliced
    <3>3. CASE n # c
      <4>1. n # t.root
        BY <2>3, <3>1 DEF Spliced
      <4>2. /\ t.par[n] \in Allocated(t) /\ SideOf(t, n) \in Side
            /\ t.kid[t.par[n]][SideOf(t, n)] = n
        BY <4>1, <3>1, <1>0, PlaceIs
      <4>3. t.par[n] # v
        BY <4>2, <3>1, <3>3, <1>0
      <4> QED BY <4>2, <4>3, <3>1, <3>3, <1>1 DEF Spliced
    <3> QED BY <3>2, <3>3
  <2>4. ASSUME NEW n \in Allocated(u), NEW f \in Side, u.kid[n][f] \in Allocated(u)
        PROVE  u.par[u.kid[n][f]] = n
    <3>1. CASE t.kid[n][f] = v
      BY <3>1, <2>4, <1>0, <1>1 DEF Spliced, Joined
    <3>2. CASE t.kid[n][f] # v
      <4>1. u.kid[n][f] = t.kid[n][f] /\ t.par[t.kid[n][f]] = n
        BY <3>2, <2>4, <1>0, <1>1 DEF Spliced, Joined
      <4>2. t.kid[n][f] # c
        BY <4>1, <2>4, <1>0, <1>1
      <4> QED BY <4>1, <4>2, <2>4 DEF Spliced
    <3> QED BY <3>1, <3>2
  <2> QED BY <2>1, <2>2, <2>3, <2>4 DEF Joined
<1>11. IsWhole(u)
  <2> SUFFICES ASSUME NEW S \in SUBSET Allocated(u), u.root \in S, ClosedDown(u, S)
               PROVE  Allocated(u) \subseteq S
    BY DEF IsWhole
  <2> DEFINE T == IF c \in S \/ c = TNULL THEN S \cup {v} ELSE S
  <2>1. T \in SUBSET Allocated(t)
    BY <1>1
  <2>2. t.root \in T
    <3>1. t.root = v => u.root = c
      BY DEF Spliced
    <3>2. t.root # v => u.root = t.root
      BY DEF Spliced
    <3> QED BY <3>1, <3>2
  <2>3. ASSUME NEW m \in T, NEW f \in Side, t.kid[m][f] \in Allocated(t)
        PROVE  t.kid[m][f] \in T
    <3>1. CASE m = v
      <4>1. f = e /\ t.kid[m][f] = c
        BY <3>1, <2>3, <1>0
      <4> QED BY <4>1, <2>3, <3>1, <1>0, <1>1
    <3>2. CASE m # v
      <4>1. m \in S /\ m \in Allocated(u)
        BY <3>2, <2>3
      <4>2. CASE t.kid[m][f] = v
        <5>1. u.kid[m][f] = c
          BY <4>1, <4>2 DEF Spliced
        <5>2. c \in Allocated(u) => c \in S
          BY <4>1, <5>1 DEF ClosedDown
        <5> QED BY <5>2, <4>2, <1>0
      <4>3. CASE t.kid[m][f] # v
        <5>1. u.kid[m][f] = t.kid[m][f] /\ t.kid[m][f] \in Allocated(u)
          BY <4>1, <4>3, <2>3, <1>1 DEF Spliced
        <5> QED BY <5>1, <4>1 DEF ClosedDown
      <4> QED BY <4>2, <4>3
    <3> QED BY <3>1, <3>2
  <2>4. Allocated(t) \subseteq T
    <3> HIDE DEF T
    <3> QED BY <2>1, <2>2, <2>3 DEF IsWhole, ClosedDown, Shaped
  <2> QED BY <2>4, <1>1
<1>12. IsFiniteSet(Allocated(u))
  BY <1>1, FS_Subset DEF Shaped
<1>13. Shaped(u)
  BY <1>9, <1>10, <1>11, <1>12 DEF Shaped, Labelled
<1> QED BY <1>9, <1>13 DEF bb

-----------------------------------------------------------------------------
(* A node takes the place and the colour of another. *)

Sub(a, n, c) == IF c = a THEN n ELSE c
Old(a, n, c) == IF c = n THEN a ELSE c

\* u is t with n where a was.
Renamed(t, u, a, n) ==
  /\ Allocated(u) = (Allocated(t) \ {a}) \cup {n}
  /\ u.skew = t.skew /\ u.bad = t.bad
  /\ u.root = Sub(a, n, t.root)
  /\ \A m \in Allocated(u), e \in Side : u.kid[m][e] = Sub(a, n, t.kid[Old(a, n, m)][e])
  /\ \A m \in Allocated(u) : u.par[m] = Sub(a, n, t.par[Old(a, n, m)])
  /\ \A m \in Allocated(u) : m \in u.red <=> Old(a, n, m) \in t.red

\* n fits in where a is.
FitsFor(t, b, a, n) ==
  /\ \A e \in Side : \A m \in Lab(b, t.kid[a][e]) : On(e, m, n)
  /\ \A m \in Allocated(t), e \in Side : a \in Lab(b, t.kid[m][e]) => On(e, n, m)

RenamedLab(t, b, a, n) ==
  [m \in (Allocated(t) \ {a}) \cup {n} |->
     {i \in (Allocated(t) \ {a}) \cup {n} : Old(a, n, i) \in b[Old(a, n, m)]}]

LEMMA SubIs ==
  ASSUME NEW t, IsTree(t), NEW a \in Allocated(t), NEW n \in Node \ Allocated(t)
  PROVE  /\ \A c \in Allocated(t) : /\ Sub(a, n, c) \in (Allocated(t) \ {a}) \cup {n}
                                    /\ Old(a, n, Sub(a, n, c)) = c
         /\ \A c \in (Allocated(t) \ {a}) \cup {n} : /\ Old(a, n, c) \in Allocated(t)
                                                     /\ Sub(a, n, Old(a, n, c)) = c
         /\ Sub(a, n, TNULL) = TNULL /\ Sub(a, n, NULL) = NULL
         /\ TNULL \notin Node /\ NULL \notin Node
BY RedBlackTreeAssumption DEF IsTree, Nobody, Sub, Old

LEMMA RenamedShaped ==
  ASSUME NEW t, Shaped(t), NEW b, Labels(t, b), NEW a \in Allocated(t),
         NEW n \in Node \ Allocated(t), FitsFor(t, b, a, n),
         NEW u, IsTree(u), Renamed(t, u, a, n)
  PROVE  Shaped(u) /\ Labels(u, RenamedLab(t, b, a, n))
<1> DEFINE S(c) == Sub(a, n, c)
           O(c) == Old(a, n, c)
           A == (Allocated(t) \ {a}) \cup {n}
           bb == RenamedLab(t, b, a, n)
<1>0. /\ IsTree(t) /\ Joined(t) /\ Allocated(u) = A
      /\ TNULL \notin Allocated(t) /\ NULL \notin Allocated(t) /\ TNULL # NULL
      /\ TNULL \notin A /\ NULL \notin A /\ a \notin A
      /\ t.root \in Allocated(t) \cup {TNULL}
      /\ t.kid \in [Allocated(t) -> [Side -> Allocated(t) \cup {TNULL}]]
      /\ \A m \in Allocated(t) : t.par[m] \in Allocated(t) \cup {NULL}
  BY RedBlackTreeAssumption DEF Shaped, IsTree, Nobody, Renamed
<1>1. /\ \A c \in Allocated(t) : S(c) \in A /\ O(S(c)) = c
      /\ \A c \in A : O(c) \in Allocated(t) /\ S(O(c)) = c
      /\ S(TNULL) = TNULL /\ S(NULL) = NULL
  BY <1>0, SubIs
<1>2. /\ u.root = S(t.root)
      /\ \A m \in A, e \in Side : u.kid[m][e] = S(t.kid[O(m)][e])
      /\ \A m \in A : u.par[m] = S(t.par[O(m)])
  BY <1>0 DEF Renamed
<1>3. /\ b \in [Allocated(t) -> SUBSET Allocated(t)]
      /\ \A m \in Allocated(t) : m \in b[m]
      /\ \A m \in Allocated(t) : \A i \in b[m] : b[i] \subseteq b[m]
      /\ \A m \in Allocated(t) : \A i \in b[m] : i # m => t.par[i] \in b[m]
  BY DEF Labels, Covers, Climbs, Nests
<1>4. /\ DOMAIN bb = A /\ bb \in [A -> SUBSET A]
      /\ \A m \in A : bb[m] = {i \in A : O(i) \in b[O(m)]}
  BY DEF RenamedLab
<1>20. \A i \in A : (i = n => O(i) = a) /\ (i # n => O(i) = i)
  BY DEF Old
<1> HIDE DEF S, O, bb
<1>5. ASSUME NEW m \in A, NEW e \in Side
      PROVE  Lab(bb, u.kid[m][e]) = {i \in A : O(i) \in Lab(b, t.kid[O(m)][e])}
  <2>1. O(m) \in Allocated(t) /\ t.kid[O(m)][e] \in Allocated(t) \cup {TNULL}
    BY <1>0, <1>1
  <2>2. PICK c \in Allocated(t) \cup {TNULL} : c = t.kid[O(m)][e] /\ u.kid[m][e] = S(c)
    BY <2>1, <1>2
  <2>3. CASE c = TNULL
    <3>1. Lab(bb, TNULL) = {} /\ Lab(b, TNULL) = {}
      BY <1>0, <1>3, <1>4 DEF Lab
    <3> QED BY <2>2, <2>3, <3>1, <1>1
  <2>4. CASE c \in Allocated(t)
    <3>1. Lab(b, c) = b[c] /\ Lab(bb, S(c)) = bb[S(c)]
      BY <2>4, <1>1, <1>3, <1>4 DEF Lab
    <3>2. bb[S(c)] = {i \in A : O(i) \in b[c]}
      BY <2>4, <1>1, <1>4
    <3> QED BY <2>2, <3>1, <3>2
  <2> QED BY <2>3, <2>4
<1>6. Covers(u, bb)
  <2> SUFFICES ASSUME NEW m \in A
               PROVE  bb[m] = {m} \cup Lab(bb, u.kid[m]["left"]) \cup Lab(bb, u.kid[m]["right"])
    BY <1>0 DEF Covers
  <2>1. b[O(m)] = {O(m)} \cup Lab(b, t.kid[O(m)]["left"]) \cup Lab(b, t.kid[O(m)]["right"])
    BY <1>1 DEF Labels, Covers
  <2>2. /\ Lab(bb, u.kid[m]["left"]) = {i \in A : O(i) \in Lab(b, t.kid[O(m)]["left"])}
        /\ Lab(bb, u.kid[m]["right"]) = {i \in A : O(i) \in Lab(b, t.kid[O(m)]["right"])}
    BY <1>5 DEF Side
  <2>3. {i \in A : O(i) \in {O(m)}} = {m}
    BY <1>1
  <2>4. bb[m] = {i \in A : O(i) \in b[O(m)]}
    BY <1>4
  <2> HIDE DEF A
  <2> QED BY ONLY <2>1, <2>2, <2>3, <2>4
<1>7. Orders(u, bb)
  <2> SUFFICES ASSUME NEW m \in A, NEW e \in Side, NEW i \in Lab(bb, u.kid[m][e])
               PROVE  On(e, i, m)
    BY <1>0 DEF Orders
  <2>1. i \in A /\ O(i) \in Lab(b, t.kid[O(m)][e])
    BY <1>5
  <2>2. O(m) \in Allocated(t) /\ On(e, O(i), O(m))
    BY <2>1, <1>1 DEF Labels, Orders
  <2>3. CASE m = n
    <3>1. O(m) = a
      BY <2>3, <1>20
    <3>2. O(i) # a
      <4>1. O(i) \in Node /\ a \in Node
        BY <2>1, <1>0, <1>1 DEF IsTree
      <4> QED BY <4>1, <2>2, <3>1, NodeOrder
    <3>3. O(i) = i
      BY <3>2, <2>1, <1>20
    <3> QED BY <2>1, <2>3, <3>1, <3>3 DEF FitsFor
  <2>4. CASE m # n /\ i = n
    <3>1. O(i) = a /\ O(m) = m
      BY <2>1, <2>4, <1>20
    <3> QED BY <2>1, <2>2, <2>4, <3>1 DEF FitsFor
  <2>5. CASE m # n /\ i # n
    BY <2>1, <2>2, <2>5, <1>20
  <2> QED BY <2>3, <2>4, <2>5
<1>8. Climbs(u, bb)
  <2> SUFFICES ASSUME NEW m \in A, NEW i \in bb[m], i # m
               PROVE  u.par[i] \in bb[m]
    BY <1>0 DEF Climbs
  <2>1. i \in A /\ O(i) \in b[O(m)] /\ O(m) \in Allocated(t)
    BY <1>1, <1>4
  <2>2. O(i) # O(m)
    BY <2>1, <1>1
  <2>3. t.par[O(i)] \in b[O(m)]
    BY <2>1, <2>2, <1>3
  <2>4. t.par[O(i)] \in Allocated(t)
    BY <2>1, <2>3, <1>3
  <2>5. u.par[i] = S(t.par[O(i)])
    BY <2>1, <1>2
  <2>6. u.par[i] \in A /\ O(u.par[i]) = t.par[O(i)]
    BY <2>4, <2>5, <1>1
  <2> HIDE DEF A
  <2> QED BY <2>3, <2>6, <1>4
<1>9. Nests(u, bb)
  <2> SUFFICES ASSUME NEW m \in A, NEW i \in bb[m]
               PROVE  bb[i] \subseteq bb[m]
    BY <1>0 DEF Nests
  <2>1. i \in A /\ O(i) \in b[O(m)] /\ O(m) \in Allocated(t)
    BY <1>1, <1>4
  <2>2. b[O(i)] \subseteq b[O(m)]
    BY <2>1, <1>3
  <2> HIDE DEF A
  <2> QED BY <2>1, <2>2, <1>4
<1>10. Labels(u, bb)
  BY <1>0, <1>4, <1>6, <1>7, <1>8, <1>9 DEF Labels
<1>11. Joined(u)
  <2>1. u.root # TNULL
    <3>1. t.root # TNULL
      BY <1>0 DEF Joined
    <3> QED BY <3>1, <1>0, <1>1, <1>2
  <2>2. u.root \in A => u.par[u.root] = NULL
    <3>1. t.root \in Allocated(t)
      BY <1>0 DEF Joined
    <3>2. O(u.root) = t.root /\ t.par[t.root] = NULL
      BY <3>1, <1>0, <1>1, <1>2 DEF Joined
    <3> QED BY <3>2, <1>1, <1>2
  <2>3. ASSUME NEW m \in A, m # u.root
        PROVE  u.par[m] \in A /\ \E e \in Side : u.kid[u.par[m]][e] = m
    <3>1. O(m) \in Allocated(t) /\ O(m) # t.root
      BY <2>3, <1>1, <1>2
    <3>2. PICK e \in Side : t.par[O(m)] \in Allocated(t) /\ t.kid[t.par[O(m)]][e] = O(m)
      BY <3>1, <1>0 DEF Joined
    <3>3. u.par[m] \in A /\ O(u.par[m]) = t.par[O(m)]
      BY <3>2, <1>1, <1>2
    <3>4. u.kid[u.par[m]][e] = S(O(m))
      BY <3>2, <3>3, <1>2
    <3> QED BY <3>3, <3>4, <1>1
  <2>4. ASSUME NEW m \in A, NEW e \in Side, u.kid[m][e] \in A
        PROVE  u.par[u.kid[m][e]] = m
    <3>1. PICK c \in Allocated(t) \cup {TNULL} : c = t.kid[O(m)][e] /\ u.kid[m][e] = S(c)
      BY <1>0, <1>1, <1>2
    <3>2. c \in Allocated(t)
      BY <3>1, <2>4, <1>0, <1>1
    <3>3. t.par[c] = O(m) /\ O(S(c)) = c
      BY <3>1, <3>2, <1>0, <1>1 DEF Joined
    <3>4. u.par[S(c)] = S(O(m))
      BY <3>1, <3>3, <2>4, <1>2
    <3> QED BY <3>1, <3>4, <1>1
  <2> QED BY <2>1, <2>2, <2>3, <2>4, <1>0 DEF Joined
<1>12. IsWhole(u)
  <2> SUFFICES ASSUME NEW T \in SUBSET A, u.root \in T, ClosedDown(u, T)
               PROVE  A \subseteq T
    BY <1>0 DEF IsWhole
  <2> DEFINE W == {i \in Allocated(t) : S(i) \in T}
  <2>1. t.root \in W
    BY <1>0, <1>1, <1>2 DEF Joined
  <2>2. ASSUME NEW m \in W, NEW e \in Side, t.kid[m][e] \in Allocated(t)
        PROVE  t.kid[m][e] \in W
    <3>1. S(m) \in A /\ O(S(m)) = m /\ S(m) \in T
      BY <1>1
    <3>2. u.kid[S(m)][e] = S(t.kid[m][e]) /\ S(t.kid[m][e]) \in A
      BY <2>2, <3>1, <1>1, <1>2
    <3>3. S(t.kid[m][e]) \in T
      BY <3>1, <3>2, <1>0 DEF ClosedDown
    <3> QED BY <3>3, <2>2
  <2>3. Allocated(t) \subseteq W
    <3>1. W \in SUBSET Allocated(t)
      OBVIOUS
    <3> HIDE DEF W
    <3> QED BY <2>1, <2>2, <3>1 DEF Shaped, IsWhole, ClosedDown
  <2>4. ASSUME NEW i \in A PROVE i \in T
    <3>1. O(i) \in W
      BY <2>3, <1>1
    <3> QED BY <3>1, <1>1
  <2> QED BY <2>4
<1>13. IsFiniteSet(Allocated(u))
  <2>1. IsFiniteSet(Allocated(t) \ {a})
    BY FS_Subset DEF Shaped
  <2> QED BY <2>1, <1>0, FS_AddElement
<1>14. Shaped(u)
  BY <1>10, <1>11, <1>12, <1>13 DEF Shaped, Labelled
<1> QED BY <1>10, <1>14 DEF bb

\* The colours go with the places.
LEMMA RenamedRed ==
  ASSUME NEW t, Shaped(t), NEW a \in Allocated(t), NEW n \in Node \ Allocated(t),
         NEW u, IsTree(u), Renamed(t, u, a, n),
         NEW h, NEW q \in Allocated(t) \cup {NULL}, NEW f, Short(t, h, q, f)
  PROVE  Short(u, [m \in Allocated(u) |-> h[Old(a, n, m)]], Sub(a, n, q), f)
<1> DEFINE S(c) == Sub(a, n, c)
           O(c) == Old(a, n, c)
           A == (Allocated(t) \ {a}) \cup {n}
           hh == [m \in Allocated(u) |-> h[O(m)]]
<1>0. /\ IsTree(t) /\ Allocated(u) = A
      /\ TNULL \notin Allocated(t) /\ NULL \notin Allocated(t)
      /\ TNULL \notin A /\ NULL \notin A
      /\ t.kid \in [Allocated(t) -> [Side -> Allocated(t) \cup {TNULL}]]
  BY RedBlackTreeAssumption DEF Shaped, IsTree, Nobody, Renamed
<1>1. /\ \A c \in Allocated(t) : S(c) \in A /\ O(S(c)) = c
      /\ \A c \in A : O(c) \in Allocated(t) /\ S(O(c)) = c
      /\ S(TNULL) = TNULL /\ S(NULL) = NULL
  BY <1>0, SubIs
<1>2. /\ \A m \in A, e \in Side : u.kid[m][e] = S(t.kid[O(m)][e])
      /\ \A m \in A : m \in u.red <=> O(m) \in t.red
  BY <1>0 DEF Renamed
<1>3. /\ h \in [Allocated(t) -> Nat]
      /\ \A m \in Allocated(t), e \in Side : Weight(t, h, t.kid[m][e]) + Gap(m, e, q, f) = h[m]
  BY DEF Short
<1> HIDE DEF S, O
<1>4. hh \in [Allocated(u) -> Nat] /\ \A m \in A : hh[m] = h[O(m)]
  BY <1>0, <1>1, <1>3
<1> HIDE DEF hh
<1>5. \A c \in Allocated(t) \cup {TNULL} : Weight(u, hh, S(c)) = Weight(t, h, c)
  <2> TAKE c \in Allocated(t) \cup {TNULL}
  <2>1. CASE c = TNULL
    BY <2>1, <1>0, <1>1 DEF Weight
  <2>2. CASE c \in Allocated(t)
    <3>1. S(c) \in A /\ O(S(c)) = c
      BY <2>2, <1>1
    <3>2. hh[S(c)] = h[c] /\ (S(c) \in u.red <=> c \in t.red)
      BY <3>1, <1>2, <1>4
    <3> QED BY <2>2, <3>1, <3>2, <1>0 DEF Weight
  <2> QED BY <2>1, <2>2
<1>6. \A m \in A, e \in Side : Gap(m, e, S(q), f) = Gap(O(m), e, q, f)
  <2>1. \A m \in A : m = S(q) <=> O(m) = q
    BY <1>0, <1>1
  <2> QED BY <2>1 DEF Gap
<1>7. ASSUME NEW m \in A, NEW e \in Side
      PROVE  Weight(u, hh, u.kid[m][e]) + Gap(m, e, S(q), f) = hh[m]
  <2>1. O(m) \in Allocated(t) /\ t.kid[O(m)][e] \in Allocated(t) \cup {TNULL}
    BY <1>0, <1>1
  <2>2. Weight(u, hh, u.kid[m][e]) = Weight(t, h, t.kid[O(m)][e])
    BY <2>1, <1>2, <1>5
  <2>3. Weight(t, h, t.kid[O(m)][e]) + Gap(O(m), e, q, f) = h[O(m)]
    BY <2>1, <1>3
  <2> QED BY <2>2, <2>3, <1>4, <1>6
<1>8. Short(u, hh, S(q), f)
  <2> HIDE DEF A
  <2> QED BY <1>0, <1>4, <1>7 DEF Short
<1> QED BY <1>8 DEF hh, S, O

\* Red nodes are out of place at k, or where k is below one.
OnlyBy(t, k) == \A n \in t.red : n = t.root \/ t.par[n] \in t.red => k \in {n, t.par[n]}

LEMMA RenamedColours ==
  ASSUME NEW t, Shaped(t), NEW a \in Allocated(t), NEW n \in Node \ Allocated(t),
         NEW u, IsTree(u), Renamed(t, u, a, n), NEW k, k # a, OnlyBy(t, k)
  PROVE  OnlyBy(u, k)
<1> DEFINE O(c) == Old(a, n, c)
           A == (Allocated(t) \ {a}) \cup {n}
<1>0. /\ IsTree(t) /\ Joined(t) /\ Allocated(u) = A /\ NULL \notin A
      /\ t.red \subseteq Allocated(t) /\ u.red \subseteq A
      /\ t.root \in Allocated(t)
      /\ \A m \in Allocated(t) : t.par[m] \in Allocated(t) \cup {NULL}
  BY RedBlackTreeAssumption DEF Shaped, IsTree, Nobody, Renamed, Joined
<1>1. /\ \A c \in Allocated(t) : Sub(a, n, c) \in A /\ O(Sub(a, n, c)) = c
      /\ \A c \in A : O(c) \in Allocated(t) /\ Sub(a, n, O(c)) = c
      /\ Sub(a, n, NULL) = NULL
  BY <1>0, SubIs
<1> HIDE DEF O
<1> SUFFICES ASSUME NEW m \in u.red, m = u.root \/ u.par[m] \in u.red
             PROVE  k \in {m, u.par[m]}
  BY DEF OnlyBy
<1>2. m \in A /\ O(m) \in Allocated(t) /\ O(m) \in t.red /\ u.par[m] = Sub(a, n, t.par[O(m)])
      /\ m = Sub(a, n, O(m))
  BY <1>0, <1>1 DEF Renamed, O
<1>3. m = u.root => O(m) = t.root
  BY <1>0, <1>1, <1>2 DEF Renamed
<1>4. u.par[m] \in u.red => t.par[O(m)] \in t.red
  <2> SUFFICES ASSUME u.par[m] \in u.red PROVE t.par[O(m)] \in t.red
    OBVIOUS
  <2>1. t.par[O(m)] \in Allocated(t) /\ u.par[m] \in A
    BY <1>0, <1>1, <1>2
  <2>2. O(u.par[m]) = t.par[O(m)]
    BY <2>1, <1>1, <1>2
  <2> QED BY <2>1, <2>2, <1>0 DEF Renamed, O
<1>5. k \in {O(m), t.par[O(m)]}
  BY <1>2, <1>3, <1>4 DEF OnlyBy
<1>6. Sub(a, n, k) = k
  BY DEF Sub
<1> QED BY <1>2, <1>5, <1>6

-----------------------------------------------------------------------------
(* The heights and the colours when a node is cut out. *)

LEMMA SplicedShort ==
  ASSUME NEW t, Shaped(t), NEW b, Labels(t, b), NEW v \in Allocated(t),
         NEW e \in Side, NEW c, c = t.kid[v][e],
         NEW u, IsTree(u), Spliced(t, u, v, c), NEW h, Heights(t, h)
  PROVE  Short(u, [m \in Allocated(u) |-> h[m]],
               IF v \in t.red THEN NULL ELSE t.par[v], SideOf(t, v))
<1> DEFINE hh == [m \in Allocated(u) |-> h[m]]
           q == IF v \in t.red THEN NULL ELSE t.par[v]
           f == SideOf(t, v)
<1>0. /\ IsTree(t) /\ Joined(t) /\ Allocated(u) = Allocated(t) \ {v} /\ u.red = t.red \ {v}
      /\ TNULL \notin Allocated(t) /\ NULL \notin Allocated(t)
      /\ c \in Allocated(t) \cup {TNULL}
      /\ t.kid \in [Allocated(t) -> [Side -> Allocated(t) \cup {TNULL}]]
  BY RedBlackTreeAssumption DEF Shaped, IsTree, Nobody, Spliced
<1>1. c # v
  <2>1. c \in Allocated(t) => t.par[c] = v /\ t.par[v] # v
    BY <1>0, PlaceIs DEF Joined
  <2> QED BY <2>1, <1>0
<1>2. /\ h \in [Allocated(t) -> Nat]
      /\ \A n \in Allocated(t), s \in Side : Weight(t, h, t.kid[n][s]) = h[n]
  BY DEF Heights
<1>3. hh \in [Allocated(u) -> Nat] /\ \A n \in Allocated(u) : hh[n] = h[n]
  BY <1>0, <1>2
<1> HIDE DEF hh
<1>4. \A m \in (Allocated(t) \cup {TNULL}) \ {v} : Weight(u, hh, m) = Weight(t, h, m)
  BY <1>0, <1>3 DEF Weight
<1>5. \A n \in Allocated(u), s \in Side :
        u.kid[n][s] = IF t.kid[n][s] = v THEN c ELSE t.kid[n][s]
  BY DEF Spliced
<1>6. /\ t.par[v] = NULL <=> v = t.root
      /\ v # t.root => t.kid[t.par[v]][f] = v
      /\ \A m \in Allocated(t), s \in Side : t.kid[m][s] = v => m = t.par[v] /\ s = f
  BY <1>0, PlaceIs
<1>7. \A n \in Allocated(u) : n # NULL
  BY <1>0
<1> HIDE DEF f
<1>8. ASSUME NEW n \in Allocated(u), NEW s \in Side
      PROVE  Weight(u, hh, u.kid[n][s]) + Gap(n, s, q, f) = hh[n]
  <2>1. n \in Allocated(t) /\ t.kid[n][s] \in Allocated(t) \cup {TNULL} /\ h[n] \in Nat
    BY <1>0, <1>2
  <2>2. CASE t.kid[n][s] = v
    <3>1. h[n] = h[v] + (IF v \in t.red THEN 0 ELSE 1) /\ h[v] \in Nat
      BY <2>1, <2>2, <1>2 DEF Weight
    <3>2. Weight(u, hh, u.kid[n][s]) = h[v]
      BY <2>2, <1>0, <1>1, <1>2, <1>4, <1>5
    <3>3. Gap(n, s, q, f) = IF v \in t.red THEN 0 ELSE 1
      BY <2>1, <2>2, <1>6, <1>7 DEF Gap
    <3> QED BY <3>1, <3>2, <3>3, <1>3
  <2>3. CASE t.kid[n][s] # v
    <3>1. Weight(u, hh, u.kid[n][s]) = h[n]
      BY <2>1, <2>3, <1>2, <1>4, <1>5
    <3>2. Gap(n, s, q, f) = 0
      BY <2>1, <2>3, <1>6, <1>7 DEF Gap
    <3> QED BY <2>1, <3>1, <3>2, <1>3
  <2> QED BY <2>2, <2>3
<1>9. Short(u, hh, q, f)
  <2> HIDE DEF q
  <2> QED BY <1>3, <1>8 DEF Short
<1> QED BY <1>9 DEF hh, q, f

\* What takes the place of a black node may be red below a red one; what takes
\* that of a red one is not.
LEMMA SplicedColours ==
  ASSUME NEW t, Shaped(t), OnlyAt(t, NULL), NEW v \in Allocated(t),
         NEW e \in Side, NEW c, c = t.kid[v][e],
         NEW u, Spliced(t, u, v, c)
  PROVE  OnlyBy(u, IF v \in t.red THEN TNULL ELSE c)
<1>0. /\ IsTree(t) /\ Joined(t) /\ Allocated(u) = Allocated(t) \ {v} /\ u.red = t.red \ {v}
      /\ NULL \notin Allocated(t) /\ t.red \subseteq Allocated(t)
  BY RedBlackTreeAssumption DEF Shaped, IsTree, Nobody, Spliced
<1> SUFFICES ASSUME NEW n \in u.red, n = u.root \/ u.par[n] \in u.red
             PROVE  v \notin t.red /\ n = c
  BY DEF OnlyBy
<1>1. n \in Allocated(u) /\ n \in t.red /\ n # NULL /\ n # v
  BY <1>0
<1>2. ~(n = t.root \/ t.par[n] \in t.red)
  BY <1>1 DEF OnlyAt
<1>3. n = c
  <2> SUFFICES ASSUME n # c PROVE FALSE
    OBVIOUS
  <2>1. u.par[n] = t.par[n] /\ (n = u.root => n = t.root)
    BY <1>1 DEF Spliced
  <2> QED BY <2>1, <1>0, <1>2
<1>4. t.par[c] = v
  BY <1>0, <1>1, <1>3 DEF Joined
<1> QED BY <1>2, <1>3, <1>4

-----------------------------------------------------------------------------
(* A node with two children: the first node after it takes its place. *)

\* What is known of a, to be deleted, and n, the first node after it: their parents
\* p and q, a's children l and r, and n's right child c.
Heir(t, a, n, p, q, l, r, c) ==
  /\ {a, n, q, l, r} \subseteq Allocated(t)
  /\ p \in Allocated(t) \cup {NULL} /\ c \in Allocated(t) \cup {TNULL}
  /\ TNULL \notin Allocated(t) /\ NULL \notin Allocated(t) /\ TNULL # NULL
  /\ t.par[a] = p /\ t.par[n] = q
  /\ t.kid[a]["left"] = l /\ t.kid[a]["right"] = r /\ t.par[l] = a /\ t.par[r] = a
  /\ t.kid[n]["left"] = TNULL /\ t.kid[n]["right"] = c
  /\ a \notin {n, l, r, c, p} /\ n \notin {l, c, p, q} /\ l \notin {c, r} /\ r # c /\ p # q
  /\ n = r <=> q = a
  /\ p = NULL <=> t.root = a
  /\ n # t.root
  /\ SideOf(t, n) \in Side /\ t.kid[q][SideOf(t, n)] = n
  /\ p # NULL => SideOf(t, a) \in Side /\ t.kid[p][SideOf(t, a)] = a
  /\ \A m \in Allocated(t), e \in Side :
       /\ t.kid[m][e] = n => m = q /\ e = SideOf(t, n)
       /\ t.kid[m][e] = a => m = p /\ e = SideOf(t, a)
  /\ \A m \in Allocated(t) : /\ t.par[m] = a => m \in {l, r}
                             /\ t.par[m] = n => m = c

LEMMA HeirIs ==
  ASSUME NEW t, Shaped(t), NEW b, Labels(t, b), NEW a \in Allocated(t),
         NEW r \in Allocated(t), r = t.kid[a]["right"],
         NEW l \in Allocated(t), l = t.kid[a]["left"],
         NEW n \in b[r], t.kid[n]["left"] = TNULL,
         NEW p, p = t.par[a], NEW q, q = t.par[n], NEW c, c = t.kid[n]["right"]
  PROVE  Heir(t, a, n, p, q, l, r, c)
<1>0. /\ IsTree(t) /\ Joined(t) /\ "left" \in Side /\ "right" \in Side
      /\ \A e \in Side : e = "left" \/ e = "right"
      /\ Opposite("left") = "right" /\ Opposite("right") = "left"
  BY DEF Shaped, Side, Opposite
<1>1. /\ b \in [Allocated(t) -> SUBSET Allocated(t)]
      /\ \A m \in Allocated(t) : m \in b[m]
      /\ \A m \in Allocated(t) : \A i \in b[m] : b[i] \subseteq b[m]
  BY DEF Labels, Covers, Nests
<1>2. n \in Allocated(t) /\ c \in Allocated(t) \cup {TNULL}
  BY <1>0, <1>1 DEF IsTree
<1>3. /\ a \notin b[r] /\ r # a /\ l # r /\ p # r /\ b[r] \subseteq b[a]
      /\ t.par[r] = a
  BY <1>0, ChildFacts DEF Joined
<1>4. a \notin b[l] /\ l # a /\ p # l /\ b[l] \subseteq b[a] /\ t.par[l] = a
  BY <1>0, ChildFacts DEF Joined
<1>5. b[l] \cap b[r] = {}
  <2> SUFFICES ASSUME NEW m \in b[l], m \in b[r] PROVE FALSE
    OBVIOUS
  <2>1. Before(m, a) /\ Before(a, m)
    BY <1>0 DEF Labels, Orders, Lab, On
  <2>2. m \in Node /\ a \in Node /\ On("left", m, a) /\ On("right", m, a)
    BY <2>1, <1>0, <1>1 DEF IsTree, On
  <2> QED BY <2>2, <1>0, NodeOrder
<1>6. /\ p = NULL <=> a = t.root
      /\ a # t.root => p \in Allocated(t) /\ SideOf(t, a) \in Side /\ t.kid[p][SideOf(t, a)] = a
      /\ \A m \in Allocated(t), e \in Side : t.kid[m][e] = a => m = p /\ e = SideOf(t, a)
      /\ p # a /\ p \notin b[a]
      /\ TNULL \notin Allocated(t) /\ NULL \notin Allocated(t) /\ TNULL # NULL
  BY <1>0, PlaceIs
<1>7. /\ q = NULL <=> n = t.root
      /\ n # t.root => q \in Allocated(t) /\ SideOf(t, n) \in Side /\ t.kid[q][SideOf(t, n)] = n
      /\ \A m \in Allocated(t), e \in Side : t.kid[m][e] = n => m = q /\ e = SideOf(t, n)
      /\ q # n /\ q \notin b[n]
  BY <1>0, <1>2, PlaceIs
<1>8. n # t.root
  <2> SUFFICES ASSUME n = t.root PROVE FALSE
    OBVIOUS
  <2>1. b[n] = Allocated(t)
    BY <1>2, RootLabel DEF Lab, Labels
  <2> QED BY <2>1, <1>1, <1>3
<1>9. c \in Allocated(t) => c \in b[n] /\ b[c] \subseteq b[n] /\ t.par[c] = n /\ c # n
  BY <1>0, <1>1, <1>2, ChildFacts DEF Joined
<1>10. c \in Allocated(t) => c \in b[r]
  BY <1>9, <1>1
<1>11. c # r
  <2> SUFFICES ASSUME c = r PROVE FALSE
    OBVIOUS
  <2>1. t.kid[n]["right"] \in Allocated(t) /\ n \in Allocated(t)
    BY <1>2
  <2>2. n \notin b[t.kid[n]["right"]]
    BY <2>1, <1>0, ChildFacts
  <2> QED BY <2>2
<1>12. c # a /\ n # a /\ n # l /\ c # l
  BY <1>1, <1>3, <1>4, <1>5, <1>6, <1>10
<1>13. n # p
  BY <1>3, <1>6
<1>14. q \in Allocated(t)
  BY <1>7, <1>8
<1>15. n = r <=> q = a
  <2>1. n = r => q = a
    BY <1>3
  <2>2. ASSUME q = a PROVE n = r
    <3>1. n \in {l, r}
      BY <2>2, <1>0, <1>7, <1>8
    <3> QED BY <3>1, <1>12
  <2> QED BY <2>1, <2>2
<1>16. p # q
  <2>1. CASE n = r
    BY <2>1, <1>6, <1>15
  <2>2. CASE n # r
    <3>1. q \in b[r]
      BY <2>2 DEF Labels, Climbs
    <3> QED BY <3>1, <1>3, <1>6
  <2> QED BY <2>1, <2>2
<1>17. ASSUME NEW m \in Allocated(t), NEW i \in Allocated(t), t.par[m] = i
       PROVE  m \in {t.kid[i]["left"], t.kid[i]["right"]}
  <2>1. m # t.root
    BY <1>17, <1>0, <1>6 DEF Joined
  <2> QED BY <2>1, <1>17, <1>0 DEF Joined
<1>18. \A m \in Allocated(t) : /\ t.par[m] = a => m \in {l, r}
                               /\ t.par[m] = n => m = c
  BY <1>2, <1>6, <1>17
<1> QED BY <1>2, <1>3, <1>4, <1>6, <1>7, <1>8, <1>9, <1>11, <1>12, <1>13, <1>14, <1>15, <1>16, <1>18
        DEF Heir

Fields == {"root", "kid", "par", "red", "skew", "bad"}

\* w is t after Detach: n is out of its place, and a's right subtree below it.
Detached(t, w, a, n, q, l, r, c) ==
  /\ DOMAIN w = Fields
  /\ w.root = t.root /\ w.red = t.red /\ w.skew = t.skew /\ w.bad = t.bad
  /\ w.kid \in [Allocated(t) -> [Side -> Allocated(t) \cup {TNULL}]]
  /\ \A m \in Allocated(t) \ {n}, e \in Side :
       w.kid[m][e] = IF m # a /\ t.kid[m][e] = n THEN c ELSE t.kid[m][e]
  /\ w.kid[n]["right"] = IF q = a THEN c ELSE r
  /\ w.par \in [Allocated(t) \cup {TNULL} -> Allocated(t) \cup {NULL}]
  /\ w.par[c] = IF q = a THEN n ELSE q
  /\ q # a => w.par[r] = n
  /\ \A m \in Allocated(t) \ {c} : q = a \/ m # r => w.par[m] = t.par[m]

LEMMA DetachNear ==
  ASSUME NEW t, IsTree(t), NEW a, NEW n, t.par[n] = a, NEW c, c = t.kid[n]["right"],
         NEW w, w = Detach(t, a, n)
  PROVE  /\ DOMAIN w = Fields
         /\ w.root = t.root /\ w.red = t.red /\ w.skew = t.skew /\ w.bad = t.bad
         /\ w.kid = t.kid /\ w.par = [t.par EXCEPT ![c] = n]
BY DEF IsTree, Detach, Fields

LEMMA DetachFar ==
  ASSUME NEW t, IsTree(t), NEW a, NEW n, t.par[n] # a, NEW c, c = t.kid[n]["right"],
         NEW r, r = t.kid[a]["right"], NEW v, v = Transplant(t, n, c),
         NEW w, w = Detach(t, a, n), DOMAIN v = Fields
  PROVE  /\ DOMAIN w = Fields
         /\ w.root = v.root /\ w.red = v.red /\ w.skew = v.skew /\ w.bad = v.bad
         /\ w.kid = [v.kid EXCEPT ![n]["right"] = r] /\ w.par = [v.par EXCEPT ![r] = n]
BY DEF Detach, Fields

LEMMA DetachIs ==
  ASSUME NEW t, IsTree(t), NEW a, NEW n, NEW p, NEW q, NEW l, NEW r, NEW c,
         Heir(t, a, n, p, q, l, r, c), NEW w, w = Detach(t, a, n)
  PROVE  Detached(t, w, a, n, q, l, r, c)
<1>0. /\ t.kid \in [Allocated(t) -> [Side -> Allocated(t) \cup {TNULL}]]
      /\ t.par \in [Allocated(t) \cup {TNULL} -> Allocated(t) \cup {NULL}]
      /\ \A e \in Side : e = "left" \/ e = "right"
      /\ "left" \in Side /\ "right" \in Side
  BY DEF IsTree, Side
<1>1. /\ {a, n, q, l, r} \subseteq Allocated(t) /\ c \in Allocated(t) \cup {TNULL}
      /\ TNULL \notin Allocated(t) /\ NULL \notin Allocated(t) /\ TNULL # NULL
      /\ t.par[n] = q /\ r = t.kid[a]["right"] /\ c = t.kid[n]["right"]
      /\ a \notin {n, l, r, c, p} /\ n \notin {l, c, p, q} /\ l \notin {c, r} /\ r # c
      /\ n = r <=> q = a
      /\ n # t.root
  BY DEF Heir
<1>2. PICK s \in Side : /\ s = SideOf(t, n) /\ t.kid[q][s] = n
                        /\ \A m \in Allocated(t), e \in Side : t.kid[m][e] = n => m = q /\ e = s
  BY DEF Heir
<1>3. CASE q = a
  <2>1. /\ DOMAIN w = Fields
        /\ w.root = t.root /\ w.red = t.red /\ w.skew = t.skew /\ w.bad = t.bad
        /\ w.kid = t.kid /\ w.par = [t.par EXCEPT ![c] = n]
    BY <1>1, <1>3, DetachNear
  <2>2. /\ w.par \in [Allocated(t) \cup {TNULL} -> Allocated(t) \cup {NULL}]
        /\ w.par[c] = n /\ \A m \in Allocated(t) \ {c} : w.par[m] = t.par[m]
    BY <2>1, <1>0, <1>1
  <2>3. \A m \in Allocated(t) \ {n}, e \in Side :
          w.kid[m][e] = IF m # a /\ t.kid[m][e] = n THEN c ELSE t.kid[m][e]
    BY <2>1, <1>2, <1>3
  <2> QED BY <2>1, <2>2, <2>3, <1>0, <1>1, <1>3 DEF Detached
<1>4. CASE q # a
  <2>0. PICK v : v = Transplant(t, n, c)
    OBVIOUS
  <2>1. /\ DOMAIN v = Fields
        /\ v.root = t.root /\ v.red = t.red /\ v.skew = t.skew /\ v.bad = t.bad
    BY <2>0, <1>1, TransplantParts DEF Fields
  <2>2. v.kid = [t.kid EXCEPT ![q][s] = c] /\ v.par = [t.par EXCEPT ![c] = q]
    <3>1. q = t.par[n] /\ q # NULL /\ s = SideOf(t, n)
      BY <1>1, <1>2
    <3>2. v.kid = [t.kid EXCEPT ![q][s] = c]
      BY ONLY <2>0, <3>1, IsTree(t), TransplantKid
    <3>3. v.par = [t.par EXCEPT ![c] = q]
      BY ONLY <2>0, <3>1, IsTree(t), TransplantPar
    <3> QED BY <3>2, <3>3
  <2>3. /\ DOMAIN w = Fields
        /\ w.root = t.root /\ w.red = t.red /\ w.skew = t.skew /\ w.bad = t.bad
        /\ w.kid = [v.kid EXCEPT ![n]["right"] = r] /\ w.par = [v.par EXCEPT ![r] = n]
    BY <2>0, <2>1, <1>1, <1>4, DetachFar
  <2>4. /\ v.par \in [Allocated(t) \cup {TNULL} -> Allocated(t) \cup {NULL}]
        /\ v.par[c] = q /\ \A m \in Allocated(t) \ {c} : v.par[m] = t.par[m]
    BY <2>2, <1>0, <1>1
  <2>5. /\ w.par \in [Allocated(t) \cup {TNULL} -> Allocated(t) \cup {NULL}]
        /\ w.par[c] = q /\ w.par[r] = n /\ \A m \in Allocated(t) \ {c, r} : w.par[m] = t.par[m]
    BY <2>3, <2>4, <1>1
  <2>6. /\ v.kid \in [Allocated(t) -> [Side -> Allocated(t) \cup {TNULL}]]
        /\ v.kid[q][s] = c /\ v.kid[n] = t.kid[n]
        /\ \A m \in Allocated(t), e \in Side : m # q \/ e # s => v.kid[m][e] = t.kid[m][e]
    BY <2>2, <1>0, <1>1
  <2>7. /\ w.kid \in [Allocated(t) -> [Side -> Allocated(t) \cup {TNULL}]]
        /\ w.kid[n]["right"] = r
        /\ \A m \in Allocated(t) \ {n} : w.kid[m] = v.kid[m]
    BY <2>3, <2>6, <1>0, <1>1
  <2>8. ASSUME NEW m \in Allocated(t) \ {n}, NEW e \in Side
        PROVE  w.kid[m][e] = IF m # a /\ t.kid[m][e] = n THEN c ELSE t.kid[m][e]
    <3>1. CASE m = q /\ e = s
      BY <3>1, <2>6, <2>7, <1>2, <1>4
    <3>2. CASE ~(m = q /\ e = s)
      <4>1. t.kid[m][e] # n
        BY <3>2, <1>2
      <4> QED BY <4>1, <3>2, <2>6, <2>7
    <3> QED BY <3>1, <3>2
  <2> QED BY <2>3, <2>5, <2>7, <2>8, <1>4 DEF Detached
<1> QED BY <1>3, <1>4

\* u is the tree with n for a.
LEMMA ReplaceParts ==
  ASSUME NEW w, NEW a, NEW n, NEW l, l = w.kid[a]["left"],
         NEW v, v = Transplant(w, a, n), DOMAIN v = Fields,
         NEW u, u = Replace(w, a, n)
  PROVE  /\ DOMAIN u = Fields
         /\ u.root = v.root /\ u.skew = v.skew /\ u.bad = v.bad
         /\ u.kid = [v.kid EXCEPT ![n]["left"] = l] /\ u.par = [v.par EXCEPT ![l] = n]
         /\ a \in v.red => u.red = v.red \cup {n}
         /\ a \notin v.red => u.red = v.red \ {n}
BY DEF Replace, Fields

LEMMA TransplantAny ==
  ASSUME NEW w, DOMAIN w = Fields, NEW a, NEW n, NEW p, p = w.par[a],
         NEW v, v = Transplant(w, a, n)
  PROVE  /\ DOMAIN v = Fields
         /\ v.root = IF p = NULL THEN n ELSE w.root
         /\ v.red = w.red /\ v.skew = w.skew /\ v.bad = w.bad
         /\ p = NULL => v.kid = w.kid
         /\ v.par = [w.par EXCEPT ![n] = p]
BY DEF Transplant, Fields

LEMMA TransplantAnyKid ==
  ASSUME NEW w, DOMAIN w = Fields, NEW a, NEW n, NEW p, p = w.par[a], NEW s, s = SideOf(w, a),
         NEW v, v = Transplant(w, a, n), p # NULL
  PROVE  v.kid = [w.kid EXCEPT ![p][s] = n]
BY DEF Transplant, Fields

\* u is w, which Detach made of t, after Replace.
Replaced(t, w, u, a, n, p, l) ==
  /\ DOMAIN u = Fields
  /\ u.root = Sub(a, n, t.root) /\ u.skew = t.skew /\ u.bad = t.bad
  /\ u.red \subseteq Allocated(t)
  /\ n \in u.red <=> a \in t.red
  /\ \A m \in Allocated(t) \ {n} : m \in u.red <=> m \in t.red
  /\ u.kid \in [Allocated(t) -> [Side -> Allocated(t) \cup {TNULL}]]
  /\ u.kid[n]["left"] = l /\ u.kid[n]["right"] = w.kid[n]["right"]
  /\ \A m \in Allocated(t) \ {a, n}, e \in Side : u.kid[m][e] = Sub(a, n, w.kid[m][e])
  /\ u.par \in [Allocated(t) \cup {TNULL} -> Allocated(t) \cup {NULL}]
  /\ u.par[n] = p /\ u.par[l] = n
  /\ \A m \in (Allocated(t) \cup {TNULL}) \ {n, l} : u.par[m] = w.par[m]

LEMMA ReplaceIs ==
  ASSUME NEW t, IsTree(t), NEW a, NEW n, NEW p, NEW q, NEW l, NEW r, NEW c,
         Heir(t, a, n, p, q, l, r, c), NEW w, Detached(t, w, a, n, q, l, r, c),
         NEW u, u = Replace(w, a, n)
  PROVE  Replaced(t, w, u, a, n, p, l)
<1>0. /\ \A e \in Side : e = "left" \/ e = "right"
      /\ "left" \in Side /\ "right" \in Side
      /\ t.root \in Allocated(t) \cup {TNULL} /\ t.red \subseteq Allocated(t)
      /\ t.kid \in [Allocated(t) -> [Side -> Allocated(t) \cup {TNULL}]]
  BY DEF IsTree, Side
<1>1. /\ {a, n, q, l, r} \subseteq Allocated(t) /\ c \in Allocated(t) \cup {TNULL}
      /\ p \in Allocated(t) \cup {NULL}
      /\ TNULL \notin Allocated(t) /\ NULL \notin Allocated(t) /\ TNULL # NULL
      /\ t.par[a] = p /\ l = t.kid[a]["left"]
      /\ a \notin {n, l, r, c, p} /\ n \notin {l, c, p, q} /\ l \notin {c, r} /\ r # c
      /\ p = NULL <=> t.root = a
      /\ p # q
      /\ \A m \in Allocated(t), e \in Side : t.kid[m][e] = n => m = q
  BY DEF Heir
<1>2. /\ DOMAIN w = Fields
      /\ w.root = t.root /\ w.red = t.red /\ w.skew = t.skew /\ w.bad = t.bad
      /\ w.kid \in [Allocated(t) -> [Side -> Allocated(t) \cup {TNULL}]]
      /\ \A m \in Allocated(t) \ {n}, e \in Side :
           w.kid[m][e] = IF m # a /\ t.kid[m][e] = n THEN c ELSE t.kid[m][e]
      /\ w.par \in [Allocated(t) \cup {TNULL} -> Allocated(t) \cup {NULL}]
      /\ \A m \in Allocated(t) \ {c} : q = a \/ m # r => w.par[m] = t.par[m]
  BY DEF Detached
<1>3. w.par[a] = p
  BY <1>1, <1>2
<1>4. w.kid[a]["left"] = l
  BY <1>0, <1>1, <1>2
<1>5. PICK s : s = SideOf(w, a)
  OBVIOUS
<1>6. p # NULL => /\ s \in Side /\ w.kid[p][s] = a
                  /\ \A m \in Allocated(t) \ {n}, e \in Side : w.kid[m][e] = a => m = p /\ e = s
  <2> SUFFICES ASSUME p # NULL
               PROVE  /\ s \in Side /\ w.kid[p][s] = a
                      /\ \A m \in Allocated(t) \ {n}, e \in Side : w.kid[m][e] = a => m = p /\ e = s
    OBVIOUS
  <2>1. p \in Allocated(t) /\ p # n /\ p # a
    BY <1>1
  <2>2. \A e \in Side : w.kid[p][e] = t.kid[p][e]
    <3> TAKE e \in Side
    <3>1. t.kid[p][e] # n
      BY <2>1, <1>1
    <3> QED BY <3>1, <2>1, <1>1, <1>2
  <2>3. s = SideOf(t, a)
    BY <2>2, <1>0, <1>1, <1>3, <1>5 DEF SideOf
  <2>4. \A m \in Allocated(t), e \in Side : t.kid[m][e] = a => m = p /\ e = s
    BY <2>3 DEF Heir
  <2>5. s \in Side /\ t.kid[p][s] = a
    BY <2>3 DEF Heir
  <2>6. \A m \in Allocated(t) \ {n}, e \in Side : w.kid[m][e] = a => t.kid[m][e] = a
    BY <1>1, <1>2
  <2> QED BY <2>1, <2>2, <2>4, <2>5, <2>6
<1>7. PICK v : v = Transplant(w, a, n)
  OBVIOUS
<1>8. /\ DOMAIN v = Fields
      /\ v.root = IF p = NULL THEN n ELSE w.root
      /\ v.red = w.red /\ v.skew = w.skew /\ v.bad = w.bad
      /\ p = NULL => v.kid = w.kid
      /\ p # NULL => v.kid = [w.kid EXCEPT ![p][s] = n]
      /\ v.par = [w.par EXCEPT ![n] = p]
  <2>1. DOMAIN w = Fields /\ p = w.par[a] /\ s = SideOf(w, a) /\ v = Transplant(w, a, n)
    BY <1>2, <1>3, <1>5, <1>7
  <2>2. p # NULL => v.kid = [w.kid EXCEPT ![p][s] = n]
    <3> SUFFICES ASSUME p # NULL PROVE v.kid = [w.kid EXCEPT ![p][s] = n]
      OBVIOUS
    <3> QED BY ONLY <2>1, p # NULL, TransplantAnyKid
  <2>3. /\ DOMAIN v = Fields
        /\ v.root = IF p = NULL THEN n ELSE w.root
        /\ v.red = w.red /\ v.skew = w.skew /\ v.bad = w.bad
        /\ p = NULL => v.kid = w.kid
        /\ v.par = [w.par EXCEPT ![n] = p]
    BY ONLY <2>1, TransplantAny
  <2> QED BY ONLY <2>2, <2>3
<1>9. /\ DOMAIN u = Fields
      /\ u.root = v.root /\ u.skew = v.skew /\ u.bad = v.bad
      /\ u.kid = [v.kid EXCEPT ![n]["left"] = l] /\ u.par = [v.par EXCEPT ![l] = n]
      /\ a \in v.red => u.red = v.red \cup {n}
      /\ a \notin v.red => u.red = v.red \ {n}
  BY <1>4, <1>7, <1>8, ReplaceParts
<1>10. u.root = Sub(a, n, t.root) /\ u.skew = t.skew /\ u.bad = t.bad
  <2>1. CASE p = NULL
    BY <2>1, <1>1, <1>2, <1>8, <1>9 DEF Sub
  <2>2. CASE p # NULL
    BY <2>2, <1>1, <1>2, <1>8, <1>9 DEF Sub
  <2> QED BY <2>1, <2>2
<1>11. /\ u.red \subseteq Allocated(t)
       /\ n \in u.red <=> a \in t.red
       /\ \A m \in Allocated(t) \ {n} : m \in u.red <=> m \in t.red
  <2>1. v.red = t.red /\ n \in Allocated(t)
    BY <1>1, <1>2, <1>8
  <2> QED BY <2>1, <1>0, <1>9
<1>12. /\ v.par \in [Allocated(t) \cup {TNULL} -> Allocated(t) \cup {NULL}]
       /\ v.par[n] = p
       /\ \A m \in (Allocated(t) \cup {TNULL}) \ {n} : v.par[m] = w.par[m]
  <2>1. n \in Allocated(t) \cup {TNULL} /\ p \in Allocated(t) \cup {NULL}
    BY <1>1
  <2> QED BY ONLY <2>1, <1>2, <1>8
<1>13. /\ u.par \in [Allocated(t) \cup {TNULL} -> Allocated(t) \cup {NULL}]
       /\ u.par[n] = p /\ u.par[l] = n
       /\ \A m \in (Allocated(t) \cup {TNULL}) \ {n, l} : u.par[m] = w.par[m]
  <2>1. n \in Allocated(t) \cup {NULL} /\ l \in Allocated(t) \cup {TNULL} /\ n # l
    BY <1>1
  <2> QED BY ONLY <2>1, <1>9, <1>12
<1>14. /\ v.kid \in [Allocated(t) -> [Side -> Allocated(t) \cup {TNULL}]]
       /\ v.kid[n] = w.kid[n]
       /\ \A m \in Allocated(t) \ {a, n}, e \in Side : v.kid[m][e] = Sub(a, n, w.kid[m][e])
  <2>1. CASE p = NULL
    <3>1. v.kid = w.kid
      BY <2>1, <1>8
    <3>2. \A m \in Allocated(t) \ {n}, e \in Side : w.kid[m][e] # a
      <4>1. \A m \in Allocated(t), e \in Side : t.kid[m][e] # a
        BY <2>1, <1>1 DEF Heir
      <4> QED BY <4>1, <1>1, <1>2
    <3> QED BY <3>1, <3>2, <1>2 DEF Sub
  <2>2. CASE p # NULL
    <3>1. /\ v.kid = [w.kid EXCEPT ![p][s] = n] /\ s \in Side /\ p \in Allocated(t)
          /\ n \in Allocated(t) /\ n # p
          /\ w.kid \in [Allocated(t) -> [Side -> Allocated(t) \cup {TNULL}]]
      BY <2>2, <1>1, <1>2, <1>6, <1>8
    <3>2. /\ v.kid \in [Allocated(t) -> [Side -> Allocated(t) \cup {TNULL}]]
          /\ v.kid[n] = w.kid[n] /\ v.kid[p][s] = n
          /\ \A m \in Allocated(t), e \in Side : m # p \/ e # s => v.kid[m][e] = w.kid[m][e]
      BY ONLY <3>1
    <3>3. ASSUME NEW m \in Allocated(t) \ {a, n}, NEW e \in Side
          PROVE  v.kid[m][e] = Sub(a, n, w.kid[m][e])
      <4>1. CASE m = p /\ e = s
        BY <4>1, <2>2, <3>2, <1>6 DEF Sub
      <4>2. CASE ~(m = p /\ e = s)
        BY <4>2, <2>2, <3>2, <1>6 DEF Sub
      <4> QED BY <4>1, <4>2
    <3> QED BY <3>2, <3>3
  <2> QED BY <2>1, <2>2
<1>15. /\ u.kid \in [Allocated(t) -> [Side -> Allocated(t) \cup {TNULL}]]
       /\ u.kid[n]["left"] = l /\ u.kid[n]["right"] = w.kid[n]["right"]
       /\ \A m \in Allocated(t) \ {n} : u.kid[m] = v.kid[m]
  <2>1. n \in Allocated(t) /\ l \in Allocated(t) \cup {TNULL}
    BY <1>1
  <2> QED BY ONLY <2>1, <1>0, <1>9, <1>14
<1> QED BY <1>9, <1>10, <1>11, <1>13, <1>14, <1>15 DEF Replaced

\* Taking n out by Detach and a out by Replace is cutting n out and putting it
\* where a is.
LEMMA RelinkIs ==
  ASSUME NEW t, IsTree(t), NEW a, NEW n, NEW p, NEW q, NEW l, NEW r, NEW c,
         Heir(t, a, n, p, q, l, r, c), NEW v, Spliced(t, v, n, c),
         NEW u, u = Free(Replace(Detach(t, a, n), a, n), a)
  PROVE  Renamed(v, u, a, n) /\ IsTree(u) /\ u.par[c] = Sub(a, n, q)
<1> DEFINE B == Allocated(t) \ {a}
<1>0. /\ \A e \in Side : e = "left" \/ e = "right"
      /\ "left" \in Side /\ "right" \in Side /\ Allocated(t) \subseteq Node
      /\ t.root \in Allocated(t) \cup {TNULL} /\ t.red \subseteq Allocated(t)
      /\ t.kid \in [Allocated(t) -> [Side -> Allocated(t) \cup {TNULL}]]
      /\ t.par \in [Allocated(t) \cup {TNULL} -> Allocated(t) \cup {NULL}]
      /\ t.skew \in BOOLEAN /\ t.bad \in BOOLEAN
  BY DEF IsTree, Side
<1>1. /\ {a, n, q, l, r} \subseteq Allocated(t) /\ c \in Allocated(t) \cup {TNULL}
      /\ p \in Allocated(t) \cup {NULL}
      /\ TNULL \notin Allocated(t) /\ NULL \notin Allocated(t) /\ TNULL # NULL
      /\ t.par[a] = p /\ l = t.kid[a]["left"] /\ r = t.kid[a]["right"]
      /\ a \notin {n, l, r, c, p} /\ n \notin {l, c, p, q} /\ l \notin {c, r} /\ r # c
      /\ n # t.root
  BY DEF Heir
<1>2. /\ n = r <=> q = a
      /\ \A m \in Allocated(t), e \in Side : t.kid[m][e] = n => m = q
      /\ \A m \in Allocated(t) : /\ t.par[m] = a => m \in {l, r}
                                 /\ t.par[m] = n => m = c
      /\ q = a => t.kid[a]["right"] = n
  BY DEF Heir
<1>3. PICK w : w = Detach(t, a, n) /\ Detached(t, w, a, n, q, l, r, c)
  BY DetachIs
<1>4. /\ \A m \in Allocated(t) \ {n}, e \in Side :
           w.kid[m][e] = IF m # a /\ t.kid[m][e] = n THEN c ELSE t.kid[m][e]
      /\ w.kid[n]["right"] = IF q = a THEN c ELSE r
      /\ w.par[c] = IF q = a THEN n ELSE q
      /\ q # a => w.par[r] = n
      /\ \A m \in Allocated(t) \ {c} : q = a \/ m # r => w.par[m] = t.par[m]
  BY <1>3 DEF Detached
<1>5. PICK s : s = Replace(w, a, n)
  OBVIOUS
<1>6. /\ DOMAIN s = Fields
      /\ s.root = Sub(a, n, t.root) /\ s.skew = t.skew /\ s.bad = t.bad
      /\ s.red \subseteq Allocated(t)
      /\ n \in s.red <=> a \in t.red
      /\ \A m \in Allocated(t) \ {n} : m \in s.red <=> m \in t.red
      /\ s.kid \in [Allocated(t) -> [Side -> Allocated(t) \cup {TNULL}]]
      /\ s.kid[n]["left"] = l /\ s.kid[n]["right"] = w.kid[n]["right"]
      /\ \A m \in Allocated(t) \ {a, n}, e \in Side : s.kid[m][e] = Sub(a, n, w.kid[m][e])
      /\ s.par \in [Allocated(t) \cup {TNULL} -> Allocated(t) \cup {NULL}]
      /\ s.par[n] = p /\ s.par[l] = n
      /\ \A m \in (Allocated(t) \cup {TNULL}) \ {n, l} : s.par[m] = w.par[m]
  <2>1. /\ IsTree(t) /\ Heir(t, a, n, p, q, l, r, c) /\ Detached(t, w, a, n, q, l, r, c)
        /\ s = Replace(w, a, n)
    BY <1>3, <1>5
  <2>2. Replaced(t, w, s, a, n, p, l)
    BY ONLY <2>1, ReplaceIs
  <2> QED BY <2>2 DEF Replaced
<1>7. /\ DOMAIN u = Fields
      /\ u.root = s.root
      /\ u.kid = [m \in DOMAIN s.kid \ {a} |-> s.kid[m]]
      /\ u.par = [m \in DOMAIN s.par \ {a} |-> IF s.par[m] = a THEN NULL ELSE s.par[m]]
      /\ u.red = s.red \ {a} /\ u.skew = s.skew /\ u.bad = s.bad
  <2>1. u = Free(s, a) /\ DOMAIN s = {"root", "kid", "par", "red", "skew", "bad"}
    BY <1>3, <1>5, <1>6 DEF Fields
  <2>2. /\ DOMAIN u = {"root", "kid", "par", "red", "skew", "bad"}
        /\ u.root = s.root
        /\ u.kid = [m \in DOMAIN s.kid \ {a} |-> s.kid[m]]
        /\ u.par = [m \in DOMAIN s.par \ {a} |-> IF s.par[m] = a THEN NULL ELSE s.par[m]]
        /\ u.red = s.red \ {a} /\ u.skew = s.skew /\ u.bad = s.bad
    BY ONLY <2>1, FreeParts
  <2> QED BY <2>2 DEF Fields
<1>8. /\ Allocated(u) = B /\ \A m \in B : u.kid[m] = s.kid[m]
      /\ u.kid \in [B -> [Side -> Allocated(t) \cup {TNULL}]]
  BY <1>6, <1>7 DEF Allocated
<1>9. /\ u.par \in [B \cup {TNULL} -> Allocated(t) \cup {NULL}]
      /\ \A m \in B \cup {TNULL} : u.par[m] = IF s.par[m] = a THEN NULL ELSE s.par[m]
  BY <1>1, <1>6, <1>7
<1>10. /\ Allocated(v) = Allocated(t) \ {n} /\ v.red = t.red \ {n}
       /\ v.skew = t.skew /\ v.bad = t.bad
       /\ v.root = t.root
       /\ \A m \in Allocated(t) \ {n}, e \in Side :
            v.kid[m][e] = IF t.kid[m][e] = n THEN c ELSE t.kid[m][e]
       /\ v.par[c] = q
       /\ \A m \in Allocated(t) \ {n, c} : v.par[m] = t.par[m]
  BY <1>1 DEF Spliced, Heir
<1>11. /\ \A m \in B \ {n} : Old(a, n, m) = m
       /\ Old(a, n, n) = a /\ Sub(a, n, a) = n
       /\ \A i : i # a => Sub(a, n, i) = i
  BY DEF Old, Sub
<1>12. ASSUME NEW m \in B, NEW e \in Side
       PROVE  u.kid[m][e] = Sub(a, n, v.kid[Old(a, n, m)][e])
  <2>1. CASE m = n /\ e = "left"
    <3>1. u.kid[m][e] = l
      BY <2>1, <1>6, <1>8
    <3>2. v.kid[a]["left"] = l
      BY <1>0, <1>1, <1>10
    <3> QED BY <3>1, <3>2, <2>1, <1>1, <1>11
  <2>2. CASE m = n /\ e = "right"
    <3>1. u.kid[m][e] = IF q = a THEN c ELSE r
      BY <2>2, <1>4, <1>6, <1>8
    <3>2. v.kid[a]["right"] = IF q = a THEN c ELSE r
      BY <1>0, <1>1, <1>2, <1>10
    <3> QED BY <3>1, <3>2, <2>2, <1>1, <1>11
  <2>3. CASE m # n
    <3>1. u.kid[m][e] = Sub(a, n, w.kid[m][e])
      BY <2>3, <1>6, <1>8
    <3>2. w.kid[m][e] = v.kid[m][e]
      BY <2>3, <1>4, <1>10
    <3> QED BY <3>1, <3>2, <2>3, <1>11
  <2> QED BY <2>1, <2>2, <2>3, <1>0
<1>13. s.par[c] = IF q = a THEN n ELSE q
  BY <1>1, <1>4, <1>6
<1>14. u.par[c] = Sub(a, n, q)
  BY <1>1, <1>9, <1>13 DEF Sub
<1>15. ASSUME NEW m \in B
       PROVE  u.par[m] = Sub(a, n, v.par[Old(a, n, m)])
  <2>1. CASE m = n
    BY <2>1, <1>1, <1>6, <1>9, <1>10, <1>11
  <2>2. CASE m = c
    BY <2>2, <1>1, <1>10, <1>11, <1>14
  <2>3. CASE m \notin {n, c}
    <3>1. v.par[Old(a, n, m)] = t.par[m]
      BY <2>3, <1>10, <1>11
    <3>2. CASE m = l
      <4>1. t.par[l] = a
        BY DEF Heir
      <4> QED BY <3>1, <3>2, <4>1, <1>1, <1>6, <1>9, <1>11
    <3>3. CASE m = r /\ q # a
      <4>1. t.par[r] = a
        BY DEF Heir
      <4>2. s.par[r] = n
        BY <3>3, <2>3, <1>1, <1>4, <1>6
      <4> QED BY <3>1, <3>3, <4>1, <4>2, <1>1, <1>9, <1>11
    <3>4. CASE m # l /\ (m # r \/ q = a)
      <4>1. s.par[m] = t.par[m]
        BY <3>4, <2>3, <1>4, <1>6
      <4>2. t.par[m] # a
        BY <3>4, <2>3, <1>2
      <4> QED BY <3>1, <4>1, <4>2, <1>9, <1>11
    <3> QED BY <3>2, <3>3, <3>4
  <2> QED BY <2>1, <2>2, <2>3
<1>16. ASSUME NEW m \in B PROVE m \in u.red <=> Old(a, n, m) \in v.red
  BY <1>1, <1>6, <1>7, <1>10, <1>11
<1>17. Renamed(v, u, a, n)
  <2>1. Allocated(u) = (Allocated(v) \ {a}) \cup {n}
    BY <1>1, <1>8, <1>10
  <2>2. u.skew = v.skew /\ u.bad = v.bad /\ u.root = Sub(a, n, v.root)
    BY <1>6, <1>7, <1>10
  <2> QED BY <2>1, <2>2, <1>8, <1>12, <1>15, <1>16 DEF Renamed
<1>18. IsTree(u)
  <2>1. u.kid \in [B -> [Side -> B \cup {TNULL}]]
    <3>1. ASSUME NEW m \in B, NEW e \in Side PROVE u.kid[m][e] # a
      <4>1. u.kid[m][e] = Sub(a, n, v.kid[Old(a, n, m)][e])
        BY <1>12
      <4> QED BY <4>1, <1>1 DEF Sub
    <3> QED BY <3>1, <1>8
  <2>2. u.par \in [B \cup {TNULL} -> B \cup {NULL}]
    <3>1. \A m \in B \cup {TNULL} : u.par[m] # a
      BY <1>1, <1>9
    <3> QED BY <3>1, <1>9
  <2>3. u.root \in B \cup {TNULL}
    BY <1>0, <1>1, <1>6, <1>7 DEF Sub
  <2>4. u.red \subseteq B /\ u.skew \in BOOLEAN /\ u.bad \in BOOLEAN /\ B \subseteq Node
    BY <1>0, <1>6, <1>7
  <2> QED BY <2>1, <2>2, <2>3, <2>4, <1>7, <1>8 DEF IsTree, Fields
<1> QED BY <1>14, <1>17, <1>18

-----------------------------------------------------------------------------
(* What is left when a node is out of the tree. *)

\* c has a place in t, TNULL too.
Placed(t, c) == c = t.root \/ (t.par[c] \in Allocated(t) /\ \E d \in Side : t.kid[t.par[c]][d] = c)

\* A red-black tree but for one black node missing on the way down to c, above which
\* or in which the colours may be wrong.
GapAt(t, c) == IF c = t.root THEN NULL ELSE t.par[c]
Lacking(t, c) ==
  /\ OnlyBy(t, c)
  /\ \E d \in Side : /\ c # t.root => t.kid[t.par[c]][d] = c
                     /\ \E h : Short(t, h, GapAt(t, c), d)

\* u is t without the node gone; c has the place that is gone, and color was its color.
Without(t, u, gone, c, color) ==
  /\ Shaped(u) /\ Allocated(u) = Allocated(t) \ {gone} /\ u.skew = t.skew /\ u.bad = t.bad
  /\ c \in Allocated(u) \cup {TNULL} /\ Placed(u, c)
  /\ u.root \in u.red => t.root \in t.red \/ (c = u.root /\ color = "black")
  /\ Even(t) /\ OnlyAt(t, NULL) =>
       /\ color = "red" => Even(u) /\ OnlyAt(u, NULL)
       /\ color = "black" => Lacking(u, c)

LEMMA NowhereIs ==
  ASSUME NEW t, Shaped(t), OnlyBy(t, TNULL)
  PROVE  OnlyAt(t, NULL)
<1>1. /\ t.red \subseteq Allocated(t) /\ TNULL \notin Allocated(t) /\ TNULL # NULL
      /\ \A m \in Allocated(t) : t.par[m] \in Allocated(t) \cup {NULL}
  BY RedBlackTreeAssumption DEF Shaped, IsTree, Nobody
<1>2. ASSUME NEW n \in t.red, n = t.root \/ t.par[n] \in t.red PROVE FALSE
  <2>1. TNULL \in {n, t.par[n]}
    BY <1>2 DEF OnlyBy
  <2> QED BY <2>1, <1>1
<1> QED BY <1>2 DEF OnlyAt

LEMMA ShortAnySide ==
  ASSUME NEW t, IsTree(t), NEW h, NEW f, Short(t, h, NULL, f), NEW d
  PROVE  Heights(t, h) /\ Short(t, h, NULL, d)
BY NoGap

LEMMA SplicedOut ==
  ASSUME NEW t, Shaped(t), NEW b, Labels(t, b), NEW v \in Allocated(t),
         NEW e \in Side, NEW c, c = t.kid[v][e], t.kid[v][Opposite(e)] = TNULL,
         NEW u, u = Free(Transplant(t, v, c), v)
  PROVE  Without(t, u, v, c, ColorOf(t, v))
<1>0. IsTree(t) /\ Joined(t) /\ t.red \subseteq Allocated(t)
  BY DEF Shaped, IsTree
<1>1. Spliced(t, u, v, c) /\ IsTree(u)
  BY <1>0, SpliceIs
<1>2. Shaped(u)
  BY <1>1, SplicedShaped
<1>3. /\ Allocated(u) = Allocated(t) \ {v} /\ u.red = t.red \ {v}
      /\ u.skew = t.skew /\ u.bad = t.bad
      /\ u.root = IF t.root = v THEN c ELSE t.root
      /\ \A m \in Allocated(u), s \in Side : u.kid[m][s] = IF t.kid[m][s] = v THEN c ELSE t.kid[m][s]
      /\ u.par[c] = t.par[v]
  BY <1>1 DEF Spliced
<1>4. /\ t.par[v] = NULL <=> v = t.root
      /\ v # t.root => /\ t.par[v] \in Allocated(t) /\ SideOf(t, v) \in Side
                       /\ t.kid[t.par[v]][SideOf(t, v)] = v
      /\ t.par[v] # v
      /\ TNULL \notin Allocated(t) /\ NULL \notin Allocated(t) /\ TNULL # NULL
  BY <1>0, PlaceIs
<1>5. c \in Allocated(t) => t.par[c] = v /\ c # t.root /\ c # v
  BY <1>0, <1>4 DEF Joined
<1>6. c \in Allocated(t) \cup {TNULL} /\ c # v
  BY <1>0, <1>4, <1>5 DEF IsTree
<1>7. c = u.root <=> v = t.root
  BY <1>0, <1>3, <1>4, <1>5, <1>6 DEF Joined
<1>8. v # t.root => /\ u.par[c] = t.par[v] /\ u.par[c] \in Allocated(u)
                    /\ u.kid[u.par[c]][SideOf(t, v)] = c
  BY <1>3, <1>4
<1>9. Placed(u, c)
  BY <1>4, <1>7, <1>8 DEF Placed
<1>10. u.root \in u.red => t.root \in t.red \/ (c = u.root /\ ColorOf(t, v) = "black")
  BY <1>3, <1>7 DEF ColorOf
<1>11. ASSUME Even(t), OnlyAt(t, NULL)
       PROVE  /\ ColorOf(t, v) = "red" => Even(u) /\ OnlyAt(u, NULL)
              /\ ColorOf(t, v) = "black" => Lacking(u, c)
  <2>1. PICK h : Heights(t, h)
    BY <1>11 DEF Even
  <2>2. PICK hh : Short(u, hh, IF v \in t.red THEN NULL ELSE t.par[v], SideOf(t, v))
    BY <1>1, <2>1, SplicedShort
  <2>3. OnlyBy(u, IF v \in t.red THEN TNULL ELSE c)
    BY <1>1, <1>11, SplicedColours
  <2>4. CASE v \in t.red
    <3>1. OnlyBy(u, TNULL) /\ Short(u, hh, NULL, SideOf(t, v))
      BY <2>2, <2>3, <2>4
    <3>2. Even(u) /\ OnlyAt(u, NULL)
      BY <3>1, <1>1, <1>2, NowhereIs, ShortAnySide DEF Even
    <3> QED BY <2>4, <3>2 DEF ColorOf
  <2>5. CASE v \notin t.red
    <3>1. OnlyBy(u, c) /\ Short(u, hh, t.par[v], SideOf(t, v))
      BY <2>2, <2>3, <2>5
    <3>2. CASE v = t.root
      <4>1. Short(u, hh, NULL, SideOf(t, v)) /\ GapAt(u, c) = NULL /\ c = u.root
        BY <3>1, <3>2, <1>4, <1>7 DEF GapAt
      <4>2. Short(u, hh, NULL, "left") /\ "left" \in Side
        BY <4>1, <1>1, ShortAnySide DEF Side
      <4>3. Lacking(u, c)
        BY Zenon, <3>1, <4>1, <4>2 DEF Lacking
      <4> QED BY <2>5, <4>3 DEF ColorOf
    <3>3. CASE v # t.root
      <4>1. GapAt(u, c) = t.par[v] /\ c # u.root /\ SideOf(t, v) \in Side
        BY <3>3, <1>3, <1>4, <1>7 DEF GapAt
      <4>2. Lacking(u, c)
        BY Zenon, <3>1, <3>3, <4>1, <1>8 DEF Lacking
      <4> QED BY <2>5, <4>2 DEF ColorOf
    <3> QED BY <3>2, <3>3
  <2> QED BY <2>4, <2>5
<1> QED BY <1>2, <1>3, <1>6, <1>9, <1>10, <1>11 DEF Without

\* The first node n after a fits in where a is, once it is cut out itself.
LEMMA HeirFits ==
  ASSUME NEW t, Shaped(t), NEW b, Labels(t, b), NEW a \in Allocated(t),
         NEW r \in Allocated(t), r = t.kid[a]["right"],
         NEW n \in b[r], \A m \in b[r] : m # n => Before(n, m),
         NEW c, NEW v, Spliced(t, v, n, c), c \in Allocated(t) => c \in b[n] /\ b[c] \subseteq b[n],
         c \in Allocated(t) \cup {TNULL}
  PROVE  FitsFor(v, SplicedLab(t, b, n), a, n)
<1> DEFINE bb == SplicedLab(t, b, n)
<1>0. /\ IsTree(t) /\ Joined(t) /\ "right" \in Side
      /\ TNULL \notin Allocated(t) /\ Allocated(t) \subseteq Node
      /\ \A e \in Side : e = "left" \/ e = "right"
  BY RedBlackTreeAssumption DEF Shaped, IsTree, Nobody, Side
<1>1. /\ b \in [Allocated(t) -> SUBSET Allocated(t)]
      /\ \A m \in Allocated(t) : m \in b[m]
      /\ \A m \in Allocated(t) : \A i \in b[m] : b[i] \subseteq b[m]
      /\ \A m \in Allocated(t), e \in Side : \A i \in Lab(b, t.kid[m][e]) : On(e, i, m)
  BY DEF Labels, Covers, Nests, Orders
<1>2. n \in Allocated(t) /\ b[r] \subseteq b[a] /\ a \notin b[r]
  BY <1>0, <1>1, ChildFacts
<1>3. /\ DOMAIN bb = Allocated(t) \ {n} /\ \A m \in Allocated(t) \ {n} : bb[m] = b[m] \ {n}
      /\ Allocated(v) = Allocated(t) \ {n}
      /\ \A m \in Allocated(t) \ {n}, e \in Side :
           v.kid[m][e] = IF t.kid[m][e] = n THEN c ELSE t.kid[m][e]
  BY DEF SplicedLab, Spliced
<1> HIDE DEF bb
<1>4. ASSUME NEW m \in Allocated(t) \ {n}, NEW e \in Side
      PROVE  Lab(bb, v.kid[m][e]) \subseteq Lab(b, t.kid[m][e]) \ {n}
  <2>1. CASE t.kid[m][e] = n
    <3>1. Lab(b, n) = b[n] /\ Lab(bb, c) \subseteq b[n] \ {n}
      BY <1>0, <1>1, <1>2, <1>3 DEF Lab
    <3> QED BY <3>1, <2>1, <1>3
  <2>2. CASE t.kid[m][e] # n
    BY <2>2, <1>1, <1>3 DEF Lab
  <2> QED BY <2>1, <2>2
<1>5. a \in Allocated(t) \ {n}
  BY <1>2
<1>6. ASSUME NEW e \in Side, NEW m \in Lab(bb, v.kid[a][e]) PROVE On(e, m, n)
  <2>1. m \in Lab(b, t.kid[a][e]) /\ m # n
    BY <1>4, <1>5
  <2>2. CASE e = "right"
    <3>1. m \in b[r]
      BY <2>1, <2>2, <1>1 DEF Lab
    <3> QED BY <3>1, <2>1, <2>2 DEF On
  <2>3. CASE e = "left"
    <3>1. n \in Lab(b, t.kid[a]["right"])
      BY <1>1 DEF Lab
    <3>2. Before(m, a) /\ Before(a, n)
      BY <2>1, <2>3, <3>1, <1>0, <1>1 DEF On
    <3>3. m \in Node /\ a \in Node /\ n \in Node /\ On("left", m, a) /\ On("left", a, n)
      BY <2>1, <3>2, <1>0, <1>1, <1>2 DEF On, Lab
    <3>4. On("left", m, n)
      BY <3>3, <2>3, NodeOrder
    <3> QED BY <3>4, <2>3
  <2> QED BY <2>2, <2>3, <1>0
<1>7. ASSUME NEW m \in Allocated(v), NEW e \in Side, a \in Lab(bb, v.kid[m][e]) PROVE On(e, n, m)
  <2>1. m \in Allocated(t) \ {n} /\ a \in Lab(b, t.kid[m][e])
    BY <1>3, <1>4, <1>7
  <2>2. n \in Lab(b, t.kid[m][e])
    BY <2>1, <1>1, <1>2 DEF Lab
  <2> QED BY <2>1, <2>2, <1>1
<1> QED BY <1>6, <1>7 DEF FitsFor, bb

LEMMA HeirOut ==
  ASSUME NEW t, Shaped(t), NEW b, Labels(t, b), NEW a \in Allocated(t),
         NEW r \in Allocated(t), r = t.kid[a]["right"], t.kid[a]["left"] \in Allocated(t),
         NEW n \in b[r], \A m \in b[r] : m # n => Before(n, m), t.kid[n]["left"] = TNULL,
         NEW c, c = t.kid[n]["right"],
         NEW u, u = Free(Replace(Detach(t, a, n), a, n), a)
  PROVE  Without(t, u, a, c, ColorOf(t, n))
<1>0. /\ IsTree(t) /\ Joined(t) /\ t.red \subseteq Allocated(t)
      /\ "right" \in Side /\ Opposite("right") = "left"
  BY DEF Shaped, IsTree, Side, Opposite
<1>1. PICK l, p, q : l \in Allocated(t) /\ l = t.kid[a]["left"] /\ p = t.par[a] /\ q = t.par[n]
  OBVIOUS
<1>2. Heir(t, a, n, p, q, l, r, c)
  BY <1>1, HeirIs
<1>3. /\ {a, n, q, l, r} \subseteq Allocated(t)
      /\ p \in Allocated(t) \cup {NULL} /\ c \in Allocated(t) \cup {TNULL}
      /\ TNULL \notin Allocated(t) /\ NULL \notin Allocated(t) /\ TNULL # NULL
      /\ a \notin {n, l, r, c, p} /\ n \notin {l, c, p, q}
      /\ n # t.root /\ SideOf(t, n) \in Side /\ t.kid[q][SideOf(t, n)] = n
  BY <1>2 DEF Heir
<1>4. PICK v : v = Free(Transplant(t, n, c), n)
  OBVIOUS
<1>5. Spliced(t, v, n, c) /\ IsTree(v)
  BY <1>0, <1>3, <1>4, SpliceIs
<1>6. Shaped(v) /\ Labels(v, SplicedLab(t, b, n))
  BY <1>0, <1>3, <1>5, SplicedShaped
<1>7. c \in Allocated(t) => c \in b[n] /\ b[c] \subseteq b[n] /\ t.par[c] = n
  <2> SUFFICES ASSUME c \in Allocated(t) PROVE c \in b[n] /\ b[c] \subseteq b[n] /\ t.par[c] = n
    OBVIOUS
  <2>1. n \in Allocated(t) /\ t.kid[n]["right"] \in Allocated(t)
    BY <1>3
  <2>2. b[t.kid[n]["right"]] \subseteq b[n]
    BY <2>1, <1>0, ChildFacts
  <2>3. t.kid[n]["right"] \in b[t.kid[n]["right"]]
    BY <2>1 DEF Labels, Covers
  <2> QED BY <2>1, <2>2, <2>3, <1>0 DEF Joined
<1>8. FitsFor(v, SplicedLab(t, b, n), a, n)
  BY <1>3, <1>5, <1>7, HeirFits
<1>9. Renamed(v, u, a, n) /\ IsTree(u) /\ u.par[c] = Sub(a, n, q)
  BY <1>0, <1>2, <1>5, RelinkIs
<1>10. /\ Allocated(v) = Allocated(t) \ {n} /\ v.red = t.red \ {n}
       /\ v.skew = t.skew /\ v.bad = t.bad /\ v.root = t.root
       /\ v.kid[q][SideOf(t, n)] = c
  BY <1>3, <1>5 DEF Spliced
<1>11. a \in Allocated(v) /\ n \in Node \ Allocated(v)
  BY <1>0, <1>3, <1>10 DEF IsTree
<1>12. Shaped(u)
  BY <1>6, <1>8, <1>9, <1>11, RenamedShaped
<1>13. /\ Allocated(u) = Allocated(t) \ {a}
       /\ u.skew = t.skew /\ u.bad = t.bad /\ u.root = Sub(a, n, t.root)
       /\ \A m \in Allocated(u), e \in Side : u.kid[m][e] = Sub(a, n, v.kid[Old(a, n, m)][e])
       /\ \A m \in Allocated(u) : m \in u.red <=> Old(a, n, m) \in v.red
  BY <1>3, <1>9, <1>10 DEF Renamed
<1>14. c # u.root
  <2>1. t.root \in Allocated(t)
    BY <1>0, <1>3 DEF Joined, IsTree
  <2>2. c # t.root
    BY <2>1, <1>0, <1>3, <1>7 DEF Joined
  <2> QED BY <2>1, <2>2, <1>3, <1>13 DEF Sub
<1>15. Sub(a, n, q) \in Allocated(u) /\ Old(a, n, Sub(a, n, q)) = q
  BY <1>3, <1>13 DEF Sub, Old
<1>16. u.kid[Sub(a, n, q)][SideOf(t, n)] = c
  BY <1>3, <1>10, <1>13, <1>15 DEF Sub
<1>17. Placed(u, c)
  BY <1>3, <1>9, <1>15, <1>16 DEF Placed
<1>18. u.root \in u.red => t.root \in t.red
  <2>1. t.root \in Allocated(t)
    BY <1>0, <1>3 DEF Joined, IsTree
  <2>2. u.root \in Allocated(u) /\ Old(a, n, u.root) = t.root
    BY <2>1, <1>3, <1>13 DEF Sub, Old
  <2> QED BY <2>2, <1>10, <1>13
<1>19. ASSUME Even(t), OnlyAt(t, NULL)
       PROVE  /\ ColorOf(t, n) = "red" => Even(u) /\ OnlyAt(u, NULL)
              /\ ColorOf(t, n) = "black" => Lacking(u, c)
  <2>1. PICK h : Heights(t, h)
    BY <1>19 DEF Even
  <2>2. PICK hh : Short(v, hh, IF n \in t.red THEN NULL ELSE q, SideOf(t, n))
    <3>1. n \in Allocated(t)
      BY <1>3
    <3> QED BY <3>1, <1>0, <1>1, <1>5, <2>1, SplicedShort
  <2>3. OnlyBy(v, IF n \in t.red THEN TNULL ELSE c)
    <3>1. n \in Allocated(t)
      BY <1>3
    <3> QED BY <3>1, <1>0, <1>5, <1>19, SplicedColours
  <2>4. CASE n \in t.red
    <3>1. OnlyBy(v, TNULL) /\ Short(v, hh, NULL, SideOf(t, n)) /\ TNULL # a
      BY <2>2, <2>3, <2>4, <1>3
    <3>2. OnlyBy(u, TNULL)
      BY <3>1, <1>6, <1>9, <1>11, RenamedColours
    <3>3. PICK hu : Short(u, hu, Sub(a, n, NULL), SideOf(t, n))
      BY <3>1, <1>6, <1>9, <1>11, RenamedRed
    <3>4. Sub(a, n, NULL) = NULL
      BY <1>3 DEF Sub
    <3>5. Even(u) /\ OnlyAt(u, NULL)
      BY <3>2, <3>3, <3>4, <1>9, <1>12, NowhereIs, ShortAnySide DEF Even
    <3> QED BY <2>4, <3>5 DEF ColorOf
  <2>5. CASE n \notin t.red
    <3>1. OnlyBy(v, c) /\ Short(v, hh, q, SideOf(t, n)) /\ c # a
      BY <2>2, <2>3, <2>5, <1>3
    <3>2. OnlyBy(u, c)
      BY <3>1, <1>6, <1>9, <1>11, RenamedColours
    <3>3. q \in Allocated(v)
      BY <1>3, <1>10
    <3>4. PICK hu : Short(u, hu, Sub(a, n, q), SideOf(t, n))
      BY <3>1, <3>3, <1>6, <1>9, <1>11, RenamedRed
    <3>5. GapAt(u, c) = Sub(a, n, q)
      BY <1>9, <1>14 DEF GapAt
    <3>6. Lacking(u, c)
      BY <3>2, <3>4, <3>5, <1>3, <1>9, <1>16 DEF Lacking
    <3> QED BY <2>5, <3>6 DEF ColorOf
  <2> QED BY <2>4, <2>5
<1>20. c \in Allocated(u) \cup {TNULL}
  BY <1>3, <1>13
<1> QED BY <1>12, <1>13, <1>17, <1>18, <1>19, <1>20 DEF Without

\* Whichever of its three cases deleteNodeHelper() takes.
LEMMA UnlinkedIs ==
  ASSUME NEW t, Shaped(t), NEW b, Labels(t, b), NEW a \in Allocated(t), NEW n,
         t.kid[a]["left"] # TNULL /\ t.kid[a]["right"] # TNULL =>
           n \in Allocated(t) /\ Leftmost(t, b, t.kid[a]["right"], n) /\ t.kid[n]["left"] = TNULL,
         NEW out, out = Unlinked(t, a, n)
  PROVE  Without(t, out.tree, a, out.at, out.color) /\ out.color \in {"red", "black"}
<1> DEFINE l == t.kid[a]["left"]
           r == t.kid[a]["right"]
<1>0. /\ "left" \in Side /\ "right" \in Side
      /\ Opposite("left") = "right" /\ Opposite("right") = "left"
      /\ l \in Allocated(t) \cup {TNULL} /\ r \in Allocated(t) \cup {TNULL}
  BY DEF Shaped, IsTree, Side, Opposite
<1>1. \A m : ColorOf(t, m) \in {"red", "black"}
  BY DEF ColorOf
<1>2. CASE l = TNULL
  <2>1. /\ out.tree = Free(Transplant(t, a, r), a) /\ out.at = r /\ out.color = ColorOf(t, a)
    BY <1>2 DEF Unlinked
  <2>2. Without(t, out.tree, a, r, ColorOf(t, a))
    BY <2>1, <1>0, <1>2, SplicedOut
  <2> QED BY <2>1, <2>2, <1>1
<1>3. CASE l # TNULL /\ r = TNULL
  <2>1. /\ out.tree = Free(Transplant(t, a, l), a) /\ out.at = l /\ out.color = ColorOf(t, a)
    BY <1>3 DEF Unlinked
  <2>2. Without(t, out.tree, a, l, ColorOf(t, a))
    BY <2>1, <1>0, <1>3, SplicedOut
  <2> QED BY <2>1, <2>2, <1>1
<1>4. CASE l # TNULL /\ r # TNULL
  <2>1. /\ out.tree = Free(Replace(Detach(t, a, n), a, n), a)
        /\ out.at = t.kid[n]["right"] /\ out.color = ColorOf(t, n)
    BY <1>4 DEF Unlinked
  <2>2. /\ r \in Allocated(t) /\ l \in Allocated(t) /\ n \in Allocated(t)
        /\ Leftmost(t, b, r, n) /\ t.kid[n]["left"] = TNULL
    BY <1>0, <1>4
  <2>3. n \in b[r] /\ \A m \in b[r] : m # n => Before(n, m)
    BY <2>2, LeastEnds DEF Leftmost
  <2>4. Without(t, out.tree, a, t.kid[n]["right"], ColorOf(t, n))
    BY <2>1, <2>2, <2>3, HeirOut
  <2> QED BY <2>1, <2>4, <1>1
<1> QED BY <1>2, <1>3, <1>4

-----------------------------------------------------------------------------
(* The loop of deleteFix. *)

\* A red child of a black node turned up, the two exchanging their colours.
LEMMA TurnedAway ==
  ASSUME NEW t, Shaped(t), NEW a \in Allocated(t), NEW d \in Side,
         NEW top \in Allocated(t), top = t.kid[a][Opposite(d)],
         NEW inner, inner = t.kid[top][d],
         NEW u, u = Rotate(Redden(Blacken(t, top), a), a, d)
  PROVE  Rotated(t, u, a, d, top, inner) /\ u.red = (t.red \ {top}) \cup {a}
<1> DEFINE R == (t.red \ {top}) \cup {a}
<1>1. PICK r : r = [t EXCEPT !.red = R]
  OBVIOUS
<1>2. R \in SUBSET Allocated(t)
  BY DEF Shaped, IsTree
<1>3. Redden(Blacken(t, top), a) = r
  BY <1>1 DEF Shaped, IsTree, Redden, Blacken
<1> HIDE DEF R
<1>4. Rotated(t, Rotate(r, a, d), a, d, top, inner) /\ Rotate(r, a, d).red = R
  <2>1. /\ Shaped(t) /\ R \in SUBSET Allocated(t) /\ r = [t EXCEPT !.red = R]
        /\ a \in Allocated(t) /\ d \in Side /\ top \in Allocated(t)
        /\ top = t.kid[a][Opposite(d)] /\ inner = t.kid[top][d]
    BY <1>1, <1>2
  <2> QED BY ONLY <2>1, PaintedTurned
<1> QED BY <1>3, <1>4 DEF R

LEMMA TurnedAwayKeeps ==
  ASSUME NEW t, Shaped(t), NEW a \in Allocated(t), NEW d \in Side,
         NEW top \in t.red, top = t.kid[a][Opposite(d)],
         NEW inner, inner = t.kid[top][d], t.kid[a][d] \notin t.red,
         OnlyAt(t, NULL), NEW h, NEW q, NEW f, Short(t, h, q, f), q = a => f = d, q # top,
         NEW u, Rotated(t, u, a, d, top, inner), u.red = (t.red \ {top}) \cup {a}
  PROVE  Short(u, h, q, f) /\ OnlyAt(u, NULL) /\ a \notin t.red /\ inner \notin t.red
<1>0. /\ IsTree(t) /\ Joined(t) /\ NULL \notin Allocated(t) /\ t.red \subseteq Allocated(t)
  BY RedBlackTreeAssumption DEF Shaped, IsTree, Nobody
<1>1. PICK b : Labels(t, b)
  BY DEF Shaped, Labelled
<1>2. Opposite(d) \in Side
  BY OppositeIs
<1>3. a \notin t.red
  <2>1. t.par[top] = a /\ top # NULL
    BY <1>0, <1>2 DEF Joined
  <2> QED BY <2>1 DEF OnlyAt
<1>4. inner \notin t.red
  <2> SUFFICES ASSUME inner \in t.red PROVE FALSE
    OBVIOUS
  <2>1. t.par[inner] = top /\ inner # NULL
    BY <1>0 DEF Joined
  <2> QED BY <2>1 DEF OnlyAt
<1>5. Turned(t, u, a, d, top, inner)
  BY DEF Rotated
<1>6. Short(u, h, q, f)
  BY <1>0, <1>1, <1>3, <1>5, ExchangedShort
<1>7. OnlyAt(u, NULL)
  BY <1>0, <1>1, <1>3, <1>4, <1>5, ExchangedColours
<1> QED BY <1>3, <1>4, <1>6, <1>7

\* What Settle paints.
SettleRed(t, p, s, far) == ((t.red \ {s, p}) \cup (IF p \in t.red THEN {s} ELSE {})) \ {far}

LEMMA SettleIs ==
  ASSUME NEW t, Shaped(t), NEW p \in Allocated(t), NEW d \in Side,
         NEW s \in Allocated(t), s = t.kid[p][Opposite(d)],
         NEW far, far = t.kid[s][Opposite(d)], NEW near, near = t.kid[s][d],
         NEW u, u = Settle(t, p, d)
  PROVE  Rotated(t, u, p, d, s, near) /\ u.red = SettleRed(t, p, s, far)
<1> DEFINE R == SettleRed(t, p, s, far)
<1>1. PICK r : r = [t EXCEPT !.red = R]
  OBVIOUS
<1>2. R \in SUBSET Allocated(t)
  BY DEF Shaped, IsTree, SettleRed
<1>3. u = Rotate(r, p, d)
  <2>1. r = [t EXCEPT !.red = ((@ \ {s, p}) \cup (IF p \in @ THEN {s} ELSE {})) \ {far}]
    BY <1>1 DEF Shaped, IsTree, SettleRed
  <2> QED BY <2>1 DEF Settle
<1> HIDE DEF R
<1>4. Rotated(t, Rotate(r, p, d), p, d, s, near) /\ Rotate(r, p, d).red = R
  <2>1. /\ Shaped(t) /\ R \in SUBSET Allocated(t) /\ r = [t EXCEPT !.red = R]
        /\ p \in Allocated(t) /\ d \in Side /\ s \in Allocated(t)
        /\ s = t.kid[p][Opposite(d)] /\ near = t.kid[s][d]
    BY <1>1, <1>2
  <2> QED BY ONLY <2>1, PaintedTurned
<1> QED BY <1>3, <1>4 DEF R

\* One black node is missing on side d of p, whose children are black.
Gapped(t, p, d) ==
  /\ OnlyAt(t, NULL) /\ (\E h : Short(t, h, p, d))
  /\ t.kid[p][d] \notin t.red /\ t.kid[p][Opposite(d)] \notin t.red

LEMMA SettledHeights ==
  ASSUME NEW t, Shaped(t), NEW p \in Allocated(t), NEW d \in Side,
         NEW s \in Allocated(t), s = t.kid[p][Opposite(d)],
         NEW far \in t.red, far = t.kid[s][Opposite(d)], NEW near, near = t.kid[s][d],
         s \notin t.red,
         NEW u, Turned(t, u, p, d, s, near), u.red = SettleRed(t, p, s, far),
         NEW h, Short(t, h, p, d)
  PROVE  Heights(u, [m \in Allocated(t) |-> IF m = p THEN h[p] - 1 ELSE IF m = s THEN h[p] ELSE h[m]])
<1> DEFINE o == Opposite(d)
           hh == [m \in Allocated(t) |-> IF m = p THEN h[p] - 1 ELSE IF m = s THEN h[p] ELSE h[m]]
           out == t.kid[p][d]
<1>0. /\ IsTree(t) /\ Joined(t) /\ TNULL \notin Allocated(t) /\ NULL \notin Allocated(t)
      /\ t.red \subseteq Allocated(t)
      /\ t.kid \in [Allocated(t) -> [Side -> Allocated(t) \cup {TNULL}]]
  BY RedBlackTreeAssumption DEF Shaped, IsTree, Nobody
<1>1. PICK b : Labels(t, b)
  BY DEF Shaped, Labelled
<1>2. o \in Side /\ o # d /\ \A e \in Side : e = d \/ e = o
  BY OppositeIs
<1>3. /\ s # p /\ out # s /\ t.par[p] # s /\ near # p /\ near # s
      /\ far \notin {p, s} /\ t.par[s] = p /\ near # far
  <2>1. near \in Allocated(t) => t.kid[s][o] # near
    BY <1>0, <1>1, RotateApart
  <2> QED BY <2>1, <1>0, <1>1, RotateApart
<1>4. out \in Allocated(t) \cup {TNULL} /\ near \in Allocated(t) \cup {TNULL} /\ out # p
  <2>1. out \in Allocated(t) => t.kid[p][d] # p
    BY <1>0, <1>1, ChildFacts
  <2> QED BY <2>1, <1>0
<1>5. /\ h \in [Allocated(t) -> Nat]
      /\ \A n \in Allocated(t), e \in Side : Weight(t, h, t.kid[n][e]) + Gap(n, e, p, d) = h[n]
  BY DEF Short
<1>6. far # out
  <2>1. t.par[far] = s
    BY <1>0, <1>2 DEF Joined
  <2>2. out \in Allocated(t) => t.par[out] = p
    BY <1>0 DEF Joined
  <2> QED BY <2>1, <2>2, <1>0, <1>3
<1>7. /\ Weight(t, h, out) + 1 = h[p] /\ Weight(t, h, s) = h[p]
      /\ Weight(t, h, near) = h[s] /\ Weight(t, h, far) = h[s]
  <2>1. Gap(p, d, p, d) = 1 /\ Gap(p, o, p, d) = 0 /\ Gap(s, d, p, d) = 0 /\ Gap(s, o, p, d) = 0
    BY <1>2, <1>3 DEF Gap
  <2> USE <2>1
  <2>2. Weight(t, h, out) + 1 = h[p]
    BY <1>5
  <2>3. Weight(t, h, s) + 0 = h[p]
    BY <1>2, <1>5
  <2>4. Weight(t, h, near) + 0 = h[s]
    BY <1>5
  <2>5. Weight(t, h, far) + 0 = h[s]
    BY <1>2, <1>5
  <2>6. \A m \in Allocated(t) \cup {TNULL} : Weight(t, h, m) \in Nat
    BY <1>5 DEF Weight
  <2> QED BY <2>2, <2>3, <2>4, <2>5, <2>6, <1>0, <1>4
<1>8. h[s] + 1 = h[p] /\ h[s] \in Nat /\ h[p] \in Nat /\ h[far] = h[s]
  BY <1>0, <1>5, <1>7 DEF Weight
<1>9. /\ hh \in [Allocated(t) -> Nat] /\ hh[p] = h[s] /\ hh[s] = h[p]
      /\ \A m \in Allocated(t) \ {p, s} : hh[m] = h[m]
  BY <1>3, <1>5, <1>8
<1>10. /\ p \notin u.red /\ far \notin u.red /\ (s \in u.red <=> p \in t.red)
       /\ \A m : m \notin {p, s, far} => (m \in u.red <=> m \in t.red)
  BY <1>3 DEF SettleRed
<1>11. /\ Allocated(u) = Allocated(t)
       /\ u.kid[p][o] = near /\ u.kid[p][d] = out /\ u.kid[s][d] = p /\ u.kid[s][o] = far
       /\ \A m \in Allocated(t) \ {p, s}, e \in Side :
            u.kid[m][e] = IF t.kid[m][e] = p THEN s ELSE t.kid[m][e]
  BY Zenon DEF Turned
<1> HIDE DEF hh, o
<1>12. \A m \in (Allocated(t) \cup {TNULL}) \ {p, s, far} : Weight(u, hh, m) = Weight(t, h, m)
  BY <1>9, <1>10, <1>11 DEF Weight
<1>13. /\ Weight(u, hh, s) = Weight(t, h, p)
       /\ Weight(u, hh, p) = h[p] /\ Weight(u, hh, far) = h[p]
  <2>1. Weight(u, hh, s) = Weight(t, h, p)
    BY Zenon, <1>8, <1>9, <1>10, <1>11 DEF Weight
  <2>2. Weight(u, hh, p) = h[p]
    BY Zenon, <1>8, <1>9, <1>10, <1>11 DEF Weight
  <2>3. hh[far] = h[s] /\ far \in Allocated(u)
    BY Zenon, <1>0, <1>3, <1>8, <1>9, <1>11
  <2>4. Weight(u, hh, far) = h[p]
    BY <2>3, <1>8, <1>10 DEF Weight
  <2> QED BY Zenon, <2>1, <2>2, <2>4
<1>14. \A m \in Allocated(t), e \in Side : /\ t.kid[m][e] = s => m = p
                                           /\ t.kid[m][e] = far => m = s
  <2>1. t.par[far] = s
    BY <1>0, <1>2 DEF Joined, o
  <2> QED BY <2>1, <1>0, <1>3 DEF Joined
<1>15. ASSUME NEW n \in Allocated(t), NEW e \in Side
       PROVE  Weight(u, hh, u.kid[n][e]) = hh[n]
  <2>1. CASE n = p /\ e = d
    <3>1. Weight(u, hh, out) = Weight(t, h, out)
      BY <1>3, <1>4, <1>6, <1>12
    <3>2. Weight(t, h, out) \in Nat
      BY <1>4, <1>5 DEF Weight
    <3> QED BY <3>1, <3>2, <2>1, <1>7, <1>8, <1>9, <1>11
  <2>2. CASE n = p /\ e = o
    <3>1. Weight(u, hh, near) = Weight(t, h, near)
      BY <1>3, <1>4, <1>12
    <3> QED BY <3>1, <2>2, <1>7, <1>9, <1>11
  <2>3. CASE n = s /\ e = d
    BY <2>3, <1>9, <1>11, <1>13
  <2>4. CASE n = s /\ e = o
    BY <2>4, <1>9, <1>11, <1>13
  <2>5. CASE n \notin {p, s}
    <3>1. Weight(t, h, t.kid[n][e]) = h[n]
      <4>1. Gap(n, e, p, d) = 0
        BY <2>5 DEF Gap
      <4>2. Weight(t, h, t.kid[n][e]) + 0 = h[n]
        BY <4>1, <1>5
      <4>3. t.kid[n][e] \in Allocated(t) \cup {TNULL}
        BY <1>0
      <4>4. Weight(t, h, t.kid[n][e]) \in Nat
        BY <4>3, <1>5 DEF Weight
      <4> QED BY <4>2, <4>4
    <3>2. CASE t.kid[n][e] = p
      BY <3>1, <3>2, <2>5, <1>9, <1>11, <1>13
    <3>3. CASE t.kid[n][e] # p
      <4>1. t.kid[n][e] \in (Allocated(t) \cup {TNULL}) \ {p, s, far}
        BY <3>3, <2>5, <1>0, <1>14
      <4> QED BY <4>1, <3>1, <3>3, <2>5, <1>9, <1>11, <1>12
    <3> QED BY <3>2, <3>3
  <2> QED BY <2>1, <2>2, <2>3, <2>4, <2>5, <1>2
<1>16. Heights(u, hh)
  BY <1>9, <1>11, <1>15 DEF Heights
<1> QED BY <1>16 DEF hh

LEMMA SettledColours ==
  ASSUME NEW t, Shaped(t), OnlyAt(t, NULL), NEW p \in Allocated(t), NEW d \in Side,
         NEW s \in Allocated(t), s = t.kid[p][Opposite(d)],
         NEW far \in t.red, far = t.kid[s][Opposite(d)], NEW near, near = t.kid[s][d],
         s \notin t.red,
         NEW u, Turned(t, u, p, d, s, near), u.red = SettleRed(t, p, s, far)
  PROVE  OnlyAt(u, NULL)
<1>0. /\ IsTree(t) /\ Joined(t) /\ TNULL \notin Allocated(t) /\ NULL \notin Allocated(t)
      /\ t.red \subseteq Allocated(t)
      /\ \A m \in Allocated(t) : t.par[m] \in Allocated(t) \cup {NULL}
  BY RedBlackTreeAssumption DEF Shaped, IsTree, Nobody
<1>1. PICK b : Labels(t, b)
  BY DEF Shaped, Labelled
<1>2. /\ Opposite(d) \in Side /\ \A e \in Side : e = d \/ e = Opposite(d)
  BY OppositeIs
<1>3. /\ s # p /\ t.par[p] # s /\ t.par[p] # p /\ near # p /\ near # s
      /\ far \notin {p, s} /\ t.par[s] = p /\ t.par[far] = s
      /\ near \in Allocated(t) => t.par[near] = s
  <2>1. t.par[far] = s
    BY <1>0, <1>2 DEF Joined
  <2> QED BY <2>1, <1>0, <1>1, RotateApart
<1>4. /\ p \notin u.red /\ far \notin u.red /\ (s \in u.red <=> p \in t.red)
      /\ \A m : m \notin {p, s, far} => (m \in u.red <=> m \in t.red)
  BY <1>3 DEF SettleRed
<1>5. \A m \in t.red : m # t.root /\ t.par[m] \notin t.red
  BY <1>0 DEF OnlyAt
<1>6. /\ u.root = IF t.root = p THEN s ELSE t.root
      /\ u.par[s] = t.par[p] /\ u.par[p] = s
      /\ near \in Allocated(t) => u.par[near] = p
      /\ \A m \in Allocated(t) \ {p, s, near} : u.par[m] = t.par[m]
  BY DEF Turned
<1>7. \A m \in Allocated(t) : t.par[m] = s => m \in {near, far}
  <2> SUFFICES ASSUME NEW m \in Allocated(t), t.par[m] = s PROVE m \in {near, far}
    OBVIOUS
  <2>1. m # t.root
    BY <1>0 DEF Joined
  <2>2. PICK e \in Side : t.kid[s][e] = m
    BY <2>1, <1>0 DEF Joined
  <2> QED BY <2>2, <1>2
<1> SUFFICES ASSUME NEW n \in u.red, n = u.root \/ u.par[n] \in u.red PROVE FALSE
  BY DEF OnlyAt
<1>8. CASE n = s
  <2>1. p \in t.red /\ p # t.root /\ t.par[p] \notin t.red
    BY Zenon, <1>4, <1>5, <1>8
  <2>2. n # u.root
    BY <2>1, <1>0, <1>3, <1>6, <1>8 DEF Joined
  <2>3. u.par[n] = t.par[p] /\ t.par[p] \notin u.red
    BY Zenon, <2>1, <1>3, <1>4, <1>6, <1>8
  <2> QED BY <2>2, <2>3
<1>9. CASE n # s
  <2>1. n \in t.red /\ n \notin {p, far} /\ n # t.root /\ t.par[n] \notin t.red
    BY <1>4, <1>5, <1>9
  <2>2. n # u.root
    BY <2>1, <1>6, <1>9
  <2>3. CASE n = near
    BY Zenon, <2>1, <2>2, <2>3, <1>0, <1>4, <1>6
  <2>4. CASE n # near
    <3>1. u.par[n] = t.par[n] /\ t.par[n] # s
      BY <2>1, <2>4, <1>0, <1>6, <1>7, <1>9
    <3> QED BY <3>1, <2>1, <2>2, <1>4
  <2> QED BY <2>3, <2>4
<1> QED BY <1>8, <1>9

\* u and at are what a turn at p leaves of t: the loop is at the root then, or at p
\* and nothing has been moved.
Went(t, p, u, at) ==
  /\ Shaped(u) /\ Allocated(u) = Allocated(t) /\ (t.skew => u.skew)
  /\ at \in Allocated(u) /\ Placed(u, at)
  /\ u.root \in u.red => t.root \in t.red
  /\ at = u.root \/ (at = p /\ u.kid = t.kid /\ u.root = t.root /\ t.red \subseteq u.red)

\* Without a nephew of the far side recoloured the turn goes on mending.
Mends(t, u, at) == ~u.skew => u.bad = t.bad /\ Lacking(u, at)

LEMMA AllPlaced ==
  ASSUME NEW t, Shaped(t), NEW n \in Allocated(t)
  PROVE  Placed(t, n)
BY DEF Shaped, Joined, Placed

LEMMA RootIsThere ==
  ASSUME NEW t, Shaped(t), Allocated(t) # {}
  PROVE  t.root \in Allocated(t)
BY DEF Shaped, IsTree, Joined

\* The sibling of a place with a gap is a node.
LEMMA GapSibling ==
  ASSUME NEW t, Shaped(t), NEW p \in Allocated(t), NEW d \in Side, NEW h, Short(t, h, p, d)
  PROVE  /\ h \in [Allocated(t) -> Nat]
         /\ Weight(t, h, t.kid[p][d]) + 1 = h[p]
         /\ Weight(t, h, t.kid[p][Opposite(d)]) = h[p]
         /\ h[p] - 1 \in Nat
         /\ t.kid[p][Opposite(d)] \in Allocated(t)
         /\ t.kid[p][d] # t.kid[p][Opposite(d)]
<1>0. /\ TNULL \notin Allocated(t) /\ Opposite(d) \in Side /\ Opposite(d) # d
      /\ t.kid \in [Allocated(t) -> [Side -> Allocated(t) \cup {TNULL}]]
  BY RedBlackTreeAssumption, OppositeIs DEF Shaped, IsTree, Nobody
<1>1. /\ h \in [Allocated(t) -> Nat]
      /\ \A n \in Allocated(t), e \in Side : Weight(t, h, t.kid[n][e]) + Gap(n, e, p, d) = h[n]
  BY DEF Short
<1>2. Gap(p, d, p, d) = 1 /\ Gap(p, Opposite(d), p, d) = 0
  BY <1>0 DEF Gap
<1>3. /\ Weight(t, h, t.kid[p][d]) + 1 = h[p]
      /\ Weight(t, h, t.kid[p][Opposite(d)]) + 0 = h[p]
  BY <1>0, <1>1, <1>2
<1>4. \A m \in Allocated(t) \cup {TNULL} : Weight(t, h, m) \in Nat
  BY <1>1 DEF Weight
<1>5. /\ Weight(t, h, t.kid[p][d]) \in Nat /\ Weight(t, h, t.kid[p][Opposite(d)]) \in Nat
  BY <1>0, <1>4
<1>6. /\ Weight(t, h, t.kid[p][Opposite(d)]) = h[p] /\ h[p] - 1 \in Nat
  BY <1>3, <1>5
<1>7. t.kid[p][Opposite(d)] # TNULL
  BY <1>0, <1>6 DEF Weight
<1>8. t.kid[p][d] # t.kid[p][Opposite(d)]
  BY <1>3, <1>5, <1>6
<1> QED BY <1>0, <1>1, <1>3, <1>6, <1>7, <1>8

LEMMA MendBad ==
  ASSUME NEW t, Shaped(t), NEW p \in Allocated(t), NEW d \in Side,
         t.kid[p][Opposite(d)] = TNULL, NEW u, u = [t EXCEPT !.bad = TRUE]
  PROVE  Went(t, p, u, p) /\ ~Gapped(t, p, d)
<1>1. /\ DOMAIN u = DOMAIN t /\ u.red = t.red /\ u.kid = t.kid /\ u.par = t.par
      /\ u.root = t.root /\ u.skew = t.skew /\ u.bad = TRUE
  BY DEF Shaped, IsTree
<1>2. IsTree(u)
  BY <1>1 DEF Shaped, IsTree, Allocated
<1>3. Shaped(u) /\ Allocated(u) = Allocated(t)
  BY <1>1, <1>2, SameShape
<1>4. Placed(u, p)
  BY <1>3, AllPlaced
<1>5. TNULL \notin Allocated(t)
  BY RedBlackTreeAssumption DEF Shaped, IsTree, Nobody
<1>6. ~Gapped(t, p, d)
  BY <1>5, GapSibling DEF Gapped
<1> QED BY <1>1, <1>3, <1>4, <1>6 DEF Went

\* Both nephews are black: the sibling turns red, and the gap is above.
LEMMA MendUp ==
  ASSUME NEW t, Shaped(t), NEW p \in Allocated(t), NEW d \in Side,
         NEW s \in Allocated(t), s = t.kid[p][Opposite(d)], NephewsBlack(t, s, d),
         NEW u, u = [t EXCEPT !.red = @ \cup {s},
                              !.skew = @ \/ t.kid[s][Opposite(d)] \in t.red]
  PROVE  Went(t, p, u, p) /\ (Gapped(t, p, d) => Mends(t, u, p))
<1> DEFINE o == Opposite(d)
           far == t.kid[s][o]
<1>0. /\ IsTree(t) /\ Joined(t) /\ TNULL \notin Allocated(t) /\ NULL \notin Allocated(t)
      /\ TNULL # NULL /\ t.red \subseteq Allocated(t)
      /\ t.kid \in [Allocated(t) -> [Side -> Allocated(t) \cup {TNULL}]]
      /\ \A m \in Allocated(t) : t.par[m] \in Allocated(t) \cup {NULL}
  BY RedBlackTreeAssumption DEF Shaped, IsTree, Nobody
<1>1. /\ DOMAIN u = DOMAIN t /\ u.red = t.red \cup {s} /\ u.kid = t.kid /\ u.par = t.par
      /\ u.root = t.root /\ u.skew = (t.skew \/ far \in t.red) /\ u.bad = t.bad
  BY DEF Shaped, IsTree
<1>2. IsTree(u)
  BY <1>0, <1>1 DEF IsTree, Allocated
<1>3. Shaped(u) /\ Allocated(u) = Allocated(t)
  BY <1>0, <1>1, <1>2, SameShape
<1>4. Placed(u, p)
  BY <1>3, AllPlaced
<1>5. o \in Side /\ o # d /\ \A e \in Side : e = d \/ e = o
  BY OppositeIs
<1>6. t.par[s] = p /\ s # t.root
  BY <1>0, <1>5 DEF Joined
<1>7. Went(t, p, u, p)
  BY <1>1, <1>3, <1>4, <1>6 DEF Went
<1>8. ASSUME Gapped(t, p, d), ~u.skew PROVE Lacking(u, p)
  <2>1. PICK h : Short(t, h, p, d)
    BY <1>8 DEF Gapped
  <2>2. /\ h \in [Allocated(t) -> Nat] /\ h[p] - 1 \in Nat
        /\ Weight(t, h, t.kid[p][d]) + 1 = h[p] /\ Weight(t, h, s) = h[p]
        /\ t.kid[p][d] # s
    BY <2>1, GapSibling
  <2>3. /\ s \notin t.red /\ OnlyAt(t, NULL) /\ t.kid[p][d] \notin t.red
    BY <1>8 DEF Gapped
  <2>4. t.kid[s][d] \notin t.red /\ far \notin t.red
    BY <1>1, <1>8 DEF NephewsBlack
  <2>5. OnlyBy(u, p)
    <3> SUFFICES ASSUME NEW n \in u.red, n = u.root \/ u.par[n] \in u.red
                 PROVE  p \in {n, u.par[n]}
      BY DEF OnlyBy
    <3>1. CASE n = s
      BY <3>1, <1>1, <1>6
    <3>2. CASE n # s
      <4>1. n \in t.red /\ n \in Allocated(t) /\ n # NULL
        BY <3>2, <1>0, <1>1
      <4>2. n # t.root /\ t.par[n] \notin t.red
        BY <4>1, <2>3 DEF OnlyAt
      <4>3. t.par[n] = s
        BY <4>2, <1>1
      <4>4. PICK e \in Side : t.kid[s][e] = n
        BY <4>1, <4>2, <4>3, <1>0 DEF Joined
      <4> QED BY <4>1, <4>4, <2>4, <1>5
    <3> QED BY <3>1, <3>2
  <2> DEFINE hh == [m \in Allocated(u) |-> IF m = p THEN h[p] - 1 ELSE h[m]]
             f == SideOf(t, p)
  <2>6. hh \in [Allocated(u) -> Nat] /\ hh[p] = h[p] - 1
        /\ \A m \in Allocated(u) \ {p} : hh[m] = h[m]
    BY <2>2, <1>3
  <2> HIDE DEF hh
  <2>7. PICK b : Labels(t, b)
    BY DEF Shaped, Labelled
  <2>8. /\ t.par[p] = NULL <=> p = t.root
        /\ p # t.root => f \in Side /\ t.kid[t.par[p]][f] = p
        /\ \A m \in Allocated(t), e \in Side : t.kid[m][e] = p => p # t.root /\ m = t.par[p] /\ e = f
        /\ t.par[p] # p
    BY <1>0, <2>7, PlaceIs
  <2> HIDE DEF f
  <2>9. \A m \in (Allocated(t) \cup {TNULL}) \ {p, s} : Weight(u, hh, m) = Weight(t, h, m)
    BY <2>6, <1>1, <1>3 DEF Weight
  <2>10. s # p
    BY <1>6, <2>8
  <2>11. Weight(u, hh, s) = h[p] - 1
    <3>1. h[s] + 1 = h[p]
      BY <2>2, <2>3 DEF Weight
    <3>2. h[s] \in Nat
      BY <2>2
    <3>3. Weight(u, hh, s) = h[s] + 0
      BY <2>6, <2>10, <1>1, <1>3 DEF Weight
    <3> QED BY <3>1, <3>2, <3>3
  <2>12. Weight(u, hh, p) + 1 = Weight(t, h, p)
    <3>1. p \in u.red <=> p \in t.red
      BY <2>10, <1>1
    <3> QED BY <3>1, <2>2, <2>6, <1>3 DEF Weight
  <2>13. GapAt(u, p) = t.par[p]
    BY <2>8, <1>1 DEF GapAt
  <2>14. ASSUME NEW n \in Allocated(u), NEW e \in Side
         PROVE  Weight(u, hh, u.kid[n][e]) + Gap(n, e, t.par[p], f) = hh[n]
    <3>0. t.kid[n][e] \in Allocated(t) \cup {TNULL} /\ n # NULL /\ n \in Allocated(t) /\ h[n] \in Nat
      BY <1>0, <1>3, <2>2
    <3>1. CASE n = p /\ e = d
      <4>1. t.kid[p][d] # p
        BY <2>8
      <4>2. Gap(n, e, t.par[p], f) = 0
        BY <3>1, <2>8 DEF Gap
      <4>3. Weight(u, hh, u.kid[n][e]) = Weight(t, h, t.kid[p][d])
        BY <4>1, <3>0, <3>1, <2>2, <2>9, <1>1
      <4>4. Weight(t, h, t.kid[p][d]) \in Nat
        BY <3>0, <3>1, <2>2 DEF Weight
      <4> QED BY <4>2, <4>3, <4>4, <3>1, <2>2, <2>6
    <3>2. CASE n = p /\ e = o
      <4>1. Gap(n, e, t.par[p], f) = 0
        BY <3>2, <2>8 DEF Gap
      <4> QED BY <4>1, <3>2, <2>2, <2>6, <2>11, <1>1
    <3>3. CASE n # p
      <4>1. Gap(n, e, p, d) = 0
        BY <3>3 DEF Gap
      <4>2. Weight(t, h, t.kid[n][e]) = h[n]
        <5>1. Weight(t, h, t.kid[n][e]) + 0 = h[n]
          BY <4>1, <3>0, <2>1 DEF Short
        <5>2. Weight(t, h, t.kid[n][e]) \in Nat
          BY <3>0, <2>2 DEF Weight
        <5> QED BY <5>1, <5>2
      <4>3. t.kid[n][e] # s
        BY <3>0, <3>3, <1>0, <1>6 DEF Joined
      <4>4. CASE t.kid[n][e] = p
        <5>1. Gap(n, e, t.par[p], f) = 1
          BY <4>4, <3>0, <2>8 DEF Gap
        <5>2. Weight(u, hh, u.kid[n][e]) + 1 = h[n]
          BY <4>2, <4>4, <2>12, <1>1
        <5> QED BY <5>1, <5>2, <3>3, <2>6
      <4>5. CASE t.kid[n][e] # p
        <5>1. Gap(n, e, t.par[p], f) = 0
          BY <4>5, <3>0, <2>8 DEF Gap
        <5>2. Weight(u, hh, u.kid[n][e]) = h[n]
          BY <4>2, <4>3, <4>5, <3>0, <2>9, <1>1
        <5> QED BY <5>1, <5>2, <3>0, <3>3, <2>6
      <4> QED BY <4>4, <4>5
    <3> QED BY <3>1, <3>2, <3>3, <1>5
  <2>15. Short(u, hh, t.par[p], f)
    BY <2>6, <2>14 DEF Short
  <2>16. CASE p = t.root
    <3>1. Short(u, hh, NULL, f) /\ GapAt(u, p) = NULL
      BY <2>8, <2>13, <2>15, <2>16
    <3>2. Short(u, hh, NULL, "left")
      BY <3>1, <1>2, ShortAnySide
    <3> QED BY Zenon, <3>1, <3>2, <2>5, <2>16, <1>1 DEF Lacking, Side
  <2>17. CASE p # t.root
    BY <2>5, <2>8, <2>13, <2>15, <2>17, <1>1 DEF Lacking
  <2> QED BY <2>16, <2>17
<1> QED BY <1>1, <1>7, <1>8 DEF Mends

\* The far nephew is red: the gap is closed.
LEMMA MendFar ==
  ASSUME NEW t, Shaped(t), NEW p \in Allocated(t), NEW d \in Side,
         NEW s \in Allocated(t), s = t.kid[p][Opposite(d)],
         t.kid[s][Opposite(d)] \in t.red,
         NEW u, u = Settle(t, p, d)
  PROVE  Went(t, p, u, u.root) /\ (Gapped(t, p, d) => Mends(t, u, u.root)) /\ u.skew = t.skew
<1>1. PICK far, near : far = t.kid[s][Opposite(d)] /\ near = t.kid[s][d]
  OBVIOUS
<1>2. Rotated(t, u, p, d, s, near) /\ u.red = SettleRed(t, p, s, far)
  BY <1>1, SettleIs
<1>3. /\ Turned(t, u, p, d, s, near) /\ Shaped(u) /\ u.skew = t.skew /\ u.bad = t.bad
      /\ Allocated(u) = Allocated(t)
  BY <1>2 DEF Rotated, Turned
<1>4. u.root \in Allocated(u)
  BY <1>3, RootIsThere
<1>9. u.root \in u.red => t.root \in t.red
  <2>1. PICK b : Labels(t, b)
    BY DEF Shaped, Labelled
  <2>2. s # p /\ t.par[s] = p /\ t.par[p] # s
    BY <1>1, <2>1, RotateApart DEF Shaped
  <2>3. t.root # s
    BY <2>2, RedBlackTreeAssumption DEF Shaped, IsTree, Joined, Nobody
  <2>4. u.root = IF t.root = p THEN s ELSE t.root
    BY <1>3 DEF Turned
  <2>5. (s \in u.red => p \in t.red) /\ \A m : m # s /\ m \in u.red => m \in t.red
    BY <1>2 DEF SettleRed
  <2> QED BY <2>3, <2>4, <2>5
<1>5. Went(t, p, u, u.root)
  BY <1>3, <1>4, <1>9, AllPlaced DEF Went
<1>6. ASSUME Gapped(t, p, d) PROVE Lacking(u, u.root)
  <2>1. PICK h : Short(t, h, p, d)
    BY <1>6 DEF Gapped
  <2>2. s \notin t.red /\ OnlyAt(t, NULL)
    BY <1>6 DEF Gapped
  <2>3. PICK hh : Heights(u, hh)
    BY <2>1, <2>2, <1>1, <1>2, <1>3, SettledHeights
  <2>4. OnlyAt(u, NULL)
    BY <2>2, <1>1, <1>2, <1>3, SettledColours
  <2>5. OnlyBy(u, u.root)
    <3>1. NULL \notin u.red
      BY <1>3, RedBlackTreeAssumption DEF Shaped, IsTree, Nobody
    <3> QED BY <3>1, <2>4 DEF OnlyAt, OnlyBy
  <2>6. Short(u, hh, NULL, "left") /\ GapAt(u, u.root) = NULL
    BY <2>3, <1>3, NoGap DEF GapAt, Shaped
  <2> QED BY <2>5, <2>6 DEF Lacking, Side
<1> QED BY <1>3, <1>5, <1>6 DEF Mends

\* The near nephew is red and the far one black: it is turned outwards first.
LEMMA MendNear ==
  ASSUME NEW t, Shaped(t), NEW p \in Allocated(t), NEW d \in Side,
         NEW s \in Allocated(t), s = t.kid[p][Opposite(d)],
         t.kid[s][d] \in t.red, t.kid[s][Opposite(d)] \notin t.red,
         NEW u, u = Settle(Rotate(Redden(Blacken(t, t.kid[s][d]), s), s, Opposite(d)), p, d)
  PROVE  Went(t, p, u, u.root) /\ (Gapped(t, p, d) => Mends(t, u, u.root))
<1>0. /\ IsTree(t) /\ Joined(t) /\ TNULL \notin Allocated(t) /\ NULL \notin Allocated(t)
      /\ t.red \subseteq Allocated(t)
      /\ t.kid \in [Allocated(t) -> [Side -> Allocated(t) \cup {TNULL}]]
  BY RedBlackTreeAssumption DEF Shaped, IsTree, Nobody
<1>1. PICK o, near, inner : o = Opposite(d) /\ near = t.kid[s][d] /\ inner = t.kid[near][o]
  OBVIOUS
<1>2. o \in Side /\ o # d /\ Opposite(o) = d
  BY <1>1, OppositeIs
<1>3. PICK w : w = Rotate(Redden(Blacken(t, near), s), s, o)
  OBVIOUS
<1>4. near \in t.red /\ near \in Allocated(t) /\ near = t.kid[s][Opposite(o)]
  BY Zenon, <1>0, <1>1, <1>2
<1>5. Rotated(t, w, s, o, near, inner) /\ w.red = (t.red \ {near}) \cup {s}
  BY <1>1, <1>2, <1>3, <1>4, TurnedAway
<1>6. /\ Turned(t, w, s, o, near, inner) /\ Shaped(w) /\ w.skew = t.skew /\ w.bad = t.bad
      /\ Allocated(w) = Allocated(t)
  BY <1>5 DEF Rotated, Turned
<1>7. PICK b : Labels(t, b)
  BY DEF Shaped, Labelled
<1>8. s # p /\ near # p /\ t.kid[p][d] # s /\ t.par[s] = p
  BY <1>0, <1>1, <1>7, RotateApart
<1>9. /\ w.kid[p][o] = near /\ w.kid[p][d] = t.kid[p][d]
      /\ w.kid[near][o] = s
  BY Zenon, <1>1, <1>2, <1>6, <1>8 DEF Turned
<1>10. s \in w.red
  BY <1>5
<1>11. u = Settle(w, p, d)
  BY <1>1, <1>3
<1>12. /\ Went(w, p, u, u.root) /\ (Gapped(w, p, d) => Mends(w, u, u.root))
       /\ u.skew = w.skew
  <2>1. /\ Shaped(w) /\ p \in Allocated(w) /\ near \in Allocated(w)
        /\ near = w.kid[p][Opposite(d)] /\ w.kid[near][Opposite(d)] \in w.red
    BY Zenon, <1>1, <1>4, <1>6, <1>9, <1>10
  <2> QED BY <2>1, <1>11, MendFar
<1>13. Went(t, p, u, u.root)
  <2>1. t.root # s
    BY <1>0, <1>8 DEF Joined
  <2>2. w.root \in w.red => t.root \in t.red
    BY <2>1, <1>5, <1>6 DEF Turned
  <2> QED BY Zenon, <2>2, <1>6, <1>12 DEF Went
<1>14. ASSUME Gapped(t, p, d) PROVE Gapped(w, p, d)
  <2>1. PICK h : Short(t, h, p, d)
    BY <1>14 DEF Gapped
  <2>2. OnlyAt(t, NULL) /\ t.kid[p][d] \notin t.red
    BY <1>14 DEF Gapped
  <2>3. t.kid[s][o] \notin t.red
    BY <1>1
  <2>4. Short(w, h, p, d) /\ OnlyAt(w, NULL)
    <3>1. /\ Shaped(t) /\ s \in Allocated(t) /\ o \in Side
          /\ near \in t.red /\ near = t.kid[s][Opposite(o)] /\ inner = t.kid[near][o]
          /\ t.kid[s][o] \notin t.red /\ OnlyAt(t, NULL) /\ Short(t, h, p, d)
          /\ p = s => d = o
          /\ p # near
          /\ Rotated(t, w, s, o, near, inner) /\ w.red = (t.red \ {near}) \cup {s}
      BY Zenon, <2>1, <2>2, <2>3, <1>1, <1>2, <1>4, <1>5, <1>8
    <3> QED BY ONLY <3>1, TurnedAwayKeeps
  <2>5. w.kid[p][d] \notin w.red /\ w.kid[p][o] \notin w.red
    <3>1. near # s
      BY <1>0, <1>1, <1>7, RotateApart
    <3> QED BY <3>1, <2>2, <1>5, <1>8, <1>9
  <2> QED BY <2>4, <2>5, <1>1 DEF Gapped
<1> QED BY Zenon, <1>6, <1>12, <1>13, <1>14 DEF Mends

LEMMA MendAtKeeps ==
  ASSUME NEW t, Shaped(t), NEW p \in Allocated(t), NEW d \in Side,
         NEW out, out = MendAt(t, p, d)
  PROVE  Went(t, p, out.tree, out.at) /\ (Gapped(t, p, d) => Mends(t, out.tree, out.at))
<1>1. PICK o, s : o = Opposite(d) /\ s = t.kid[p][o]
  OBVIOUS
<1>2. o \in Side /\ \A e \in Side : e = d \/ e = o
  BY <1>1, OppositeIs
<1>3. s \in Allocated(t) \cup {TNULL}
  BY <1>1, <1>2 DEF Shaped, IsTree
<1>4. CASE s = TNULL
  <2>1. out.tree = [t EXCEPT !.bad = TRUE] /\ out.at = p
    BY <1>1, <1>4 DEF MendAt
  <2> QED BY <2>1, <1>1, <1>4, MendBad
<1>5. CASE s # TNULL /\ NephewsBlack(t, s, d)
  <2>1. PICK u : u = [t EXCEPT !.red = @ \cup {s}, !.skew = @ \/ t.kid[s][Opposite(d)] \in t.red]
    OBVIOUS
  <2>2. out.tree = u /\ out.at = p
    BY <2>1, <1>1, <1>5 DEF MendAt
  <2>3. Went(t, p, u, p) /\ (Gapped(t, p, d) => Mends(t, u, p))
    BY Zenon, <2>1, <1>1, <1>3, <1>5, MendUp
  <2> QED BY <2>2, <2>3
<1>6. CASE s # TNULL /\ ~NephewsBlack(t, s, d) /\ t.kid[s][o] \in t.red
  <2>1. PICK u : u = Settle(t, p, d)
    OBVIOUS
  <2>2. out.tree = u /\ out.at = u.root
    BY <2>1, <1>1, <1>6 DEF MendAt
  <2>3. Went(t, p, u, u.root) /\ (Gapped(t, p, d) => Mends(t, u, u.root))
    BY <2>1, <1>1, <1>3, <1>6, MendFar
  <2> QED BY <2>2, <2>3
<1>7. CASE s # TNULL /\ ~NephewsBlack(t, s, d) /\ t.kid[s][o] \notin t.red
  <2>1. PICK u : u = Settle(Rotate(Redden(Blacken(t, t.kid[s][d]), s), s, Opposite(d)), p, d)
    OBVIOUS
  <2>2. out.tree = u /\ out.at = u.root
    BY <2>1, <1>1, <1>7 DEF MendAt
  <2>3. t.kid[s][d] \in t.red
    BY <1>1, <1>7 DEF NephewsBlack, Opposite, Side
  <2>4. Went(t, p, u, u.root) /\ (Gapped(t, p, d) => Mends(t, u, u.root))
    BY <2>1, <2>3, <1>1, <1>3, <1>7, MendNear
  <2> QED BY <2>2, <2>4
<1> QED BY <1>4, <1>5, <1>6, <1>7

\* What a turn of deleteFix for k leaves: when there is more to do it went up by
\* one node and moved none.
Took(t, k, u, at) ==
  /\ Shaped(u) /\ Allocated(u) = Allocated(t) /\ (t.skew => u.skew)
  /\ at \in Allocated(u) /\ Placed(u, at)
  /\ u.root \in u.red => t.root \in t.red
  /\ at = u.root \/ at \in u.red \/ (at = t.par[k] /\ u.kid = t.kid)

\* Where the loop of deleteFix is.
Loose(t, k, p, d) ==
  /\ Shaped(t) /\ k \in Allocated(t) \cup {TNULL} /\ k # t.root /\ k \notin t.red
  /\ p \in Allocated(t) /\ t.par[k] = p /\ d \in Side /\ SideOf(t, k) = d /\ t.kid[p][d] = k

LEMMA LooseIs ==
  ASSUME NEW t, Shaped(t), NEW k \in Allocated(t) \cup {TNULL}, Placed(t, k),
         k # t.root, k \notin t.red
  PROVE  Loose(t, k, t.par[k], SideOf(t, k))
BY DEF Placed, Loose, SideOf, Side

LEMMA LooseGap ==
  ASSUME NEW t, NEW k, NEW p, NEW d, Loose(t, k, p, d), Lacking(t, k)
  PROVE  OnlyAt(t, NULL) /\ \E h : Short(t, h, p, d)
<1>0. /\ Shaped(t) /\ k # t.root /\ k \notin t.red /\ p \in Allocated(t) /\ t.par[k] = p
      /\ k \in Allocated(t) \cup {TNULL}
  BY DEF Loose
<1>1. /\ IsTree(t) /\ Joined(t) /\ NULL \notin Allocated(t) /\ TNULL # NULL
      /\ t.red \subseteq Allocated(t)
  BY <1>0, RedBlackTreeAssumption DEF Shaped, IsTree, Nobody
<1>2. PICK e \in Side : t.kid[p][e] = k /\ \E h : Short(t, h, p, e)
  BY <1>0 DEF Lacking, GapAt
<1>3. t.kid[p][e] # t.kid[p][Opposite(e)]
  BY <1>0, <1>2, GapSibling
<1>4. e = d
  BY <1>2, <1>3 DEF Loose, SideOf, Side, Opposite
<1>5. ASSUME NEW n \in t.red, n = t.root \/ t.par[n] \in t.red PROVE FALSE
  <2>1. k \in {n, t.par[n]}
    BY <1>5 DEF Lacking, OnlyBy
  <2>2. k = t.par[n] /\ n = t.root
    BY <2>1, <1>0, <1>5
  <2>3. t.par[n] = NULL
    BY <2>2, <1>1 DEF Joined
  <2> QED BY <2>2, <2>3, <1>0, <1>1
<1> QED BY <1>2, <1>4, <1>5 DEF OnlyAt

LEMMA MendTurnKeeps ==
  ASSUME NEW t, Shaped(t), NEW k \in Allocated(t) \cup {TNULL}, Placed(t, k),
         k # t.root, k \notin t.red, NEW out, out = MendTurn(t, k)
  PROVE  Took(t, k, out.tree, out.at) /\ (Lacking(t, k) => Mends(t, out.tree, out.at))
<1>1. PICK p, d, s : p = t.par[k] /\ d = SideOf(t, k) /\ s = t.kid[p][Opposite(d)]
  OBVIOUS
<1>2. Loose(t, k, p, d)
  BY <1>1, LooseIs
<1>3. /\ p \in Allocated(t) /\ d \in Side /\ t.kid[p][d] = k
      /\ IsTree(t) /\ Joined(t) /\ t.red \subseteq Allocated(t)
      /\ TNULL \notin Allocated(t) /\ NULL \notin Allocated(t)
  BY <1>2, RedBlackTreeAssumption DEF Loose, Shaped, IsTree, Nobody
<1>4. CASE s \in t.red
  <2>1. PICK w, inner : w = Rotate(Redden(Blacken(t, s), p), p, d) /\ inner = t.kid[s][d]
    OBVIOUS
  <2>2. out = MendAt(w, p, d)
    BY <2>1, <1>1, <1>4 DEF MendTurn
  <2>3. s \in Allocated(t)
    BY <1>3, <1>4
  <2>4. Rotated(t, w, p, d, s, inner) /\ w.red = (t.red \ {s}) \cup {p}
    BY <2>1, <2>3, <1>1, <1>3, TurnedAway
  <2>5. /\ Turned(t, w, p, d, s, inner) /\ Shaped(w) /\ w.skew = t.skew /\ w.bad = t.bad
        /\ Allocated(w) = Allocated(t)
    BY <2>4 DEF Rotated, Turned
  <2>6. Went(w, p, out.tree, out.at) /\ (Gapped(w, p, d) => Mends(w, out.tree, out.at))
    BY <2>2, <2>5, <1>3, MendAtKeeps
  <2>7. PICK b : Labels(t, b)
    BY DEF Shaped, Labelled
  <2>8. s # p /\ inner # p
    BY <2>1, <2>3, <2>7, <1>1, <1>3, RotateApart
  <2>9. w.root \in w.red => t.root \in t.red
    BY <2>4, <2>5, <2>8 DEF Turned
  <2>10. Took(t, k, out.tree, out.at)
    BY <2>4, <2>5, <2>6, <2>9 DEF Went, Took
  <2>11. ASSUME Lacking(t, k) PROVE Gapped(w, p, d)
    <3>1. PICK h : Short(t, h, p, d) /\ OnlyAt(t, NULL)
      BY <2>11, <1>2, LooseGap
    <3>2. /\ Shaped(t) /\ p \in Allocated(t) /\ d \in Side
          /\ s \in t.red /\ s = t.kid[p][Opposite(d)] /\ inner = t.kid[s][d]
          /\ t.kid[p][d] \notin t.red /\ OnlyAt(t, NULL) /\ Short(t, h, p, d)
          /\ p = p => d = d
          /\ p # s
          /\ Rotated(t, w, p, d, s, inner) /\ w.red = (t.red \ {s}) \cup {p}
      BY Zenon, <3>1, <2>1, <2>4, <2>8, <1>1, <1>3, <1>4
    <3>3. Short(w, h, p, d) /\ OnlyAt(w, NULL) /\ inner \notin t.red
      BY ONLY <3>2, TurnedAwayKeeps
    <3>4. k # p
      <4>1. k \in Allocated(t) => t.kid[p][d] # p
        BY <2>7, <1>3, ChildFacts
      <4> QED BY <4>1, <1>3
    <3>5. w.kid[p][d] = k /\ w.kid[p][Opposite(d)] = inner
      BY <2>5, <1>3 DEF Turned
    <3> QED BY <3>3, <3>4, <3>5, <2>4, <2>8 DEF Gapped
  <2> QED BY <2>5, <2>6, <2>10, <2>11 DEF Mends
<1>5. CASE s \notin t.red
  <2>1. out = MendAt(t, p, d)
    BY <1>1, <1>5 DEF MendTurn
  <2>2. Went(t, p, out.tree, out.at) /\ (Gapped(t, p, d) => Mends(t, out.tree, out.at))
    BY <2>1, <1>3, MendAtKeeps
  <2>3. Took(t, k, out.tree, out.at)
    BY <2>2, <1>1 DEF Went, Took
  <2>4. ASSUME Lacking(t, k) PROVE Gapped(t, p, d)
    BY <2>4, <1>1, <1>2, <1>3, <1>5, LooseGap DEF Gapped
  <2> QED BY <2>2, <2>3, <2>4
<1> QED BY <1>4, <1>5

\* The end of deleteFix: the place with the gap is black then.
LEMMA MendEnds ==
  ASSUME NEW t, Shaped(t), NEW k \in Allocated(t) \cup {TNULL},
         k = t.root \/ k \in t.red, t.root \in t.red => k = t.root,
         NEW u, u = Blacken(t, k)
  PROVE  /\ Painted(t, u, t.red \ {k}) /\ u.root \notin u.red
         /\ Lacking(t, k) => Even(u) /\ OnlyAt(u, NULL)
<1>0. /\ IsTree(t) /\ Joined(t) /\ TNULL \notin Allocated(t) /\ NULL \notin Allocated(t)
      /\ TNULL # NULL /\ t.red \subseteq Allocated(t)
      /\ t.kid \in [Allocated(t) -> [Side -> Allocated(t) \cup {TNULL}]]
  BY RedBlackTreeAssumption DEF Shaped, IsTree, Nobody
<1>1. /\ Painted(t, u, t.red \ {k}) /\ u.red = t.red \ {k} /\ Allocated(u) = Allocated(t)
      /\ u.kid = t.kid /\ u.par = t.par /\ u.root = t.root /\ Shaped(u)
  BY BlackenIs DEF Painted
<1>2. u.root \notin u.red
  BY <1>1
<1>3. ASSUME Lacking(t, k) PROVE OnlyAt(u, NULL)
  <2> SUFFICES ASSUME NEW n \in u.red, n = u.root \/ u.par[n] \in u.red PROVE FALSE
    BY DEF OnlyAt
  <2>1. n # t.root /\ t.par[n] \in t.red /\ t.par[n] # k /\ n \in t.red /\ n # k
    BY <1>1, <1>2
  <2> QED BY <2>1, <1>3 DEF Lacking, OnlyBy
<1>4. ASSUME Lacking(t, k) PROVE Even(u)
  <2>0. PICK d \in Side : /\ k # t.root => t.kid[t.par[k]][d] = k
                          /\ \E h : Short(t, h, GapAt(t, k), d)
    BY <1>4 DEF Lacking
  <2>1. PICK h : Short(t, h, GapAt(t, k), d)
    BY <2>0
  <2>2. /\ h \in [Allocated(t) -> Nat]
        /\ \A n \in Allocated(t), e \in Side :
             Weight(t, h, t.kid[n][e]) + Gap(n, e, GapAt(t, k), d) = h[n]
    BY <2>1 DEF Short
  <2>3. \A m \in (Allocated(t) \cup {TNULL}) \ {k} : Weight(u, h, m) = Weight(t, h, m)
    BY <1>1 DEF Weight
  <2>4. ASSUME NEW n \in Allocated(t), NEW e \in Side
        PROVE  Weight(u, h, t.kid[n][e]) = h[n]
    <3>0. /\ t.kid[n][e] \in Allocated(t) \cup {TNULL} /\ n # NULL /\ h[n] \in Nat
          /\ Weight(t, h, t.kid[n][e]) \in Nat
      BY <1>0, <2>2 DEF Weight
    <3>1. Weight(t, h, t.kid[n][e]) + Gap(n, e, GapAt(t, k), d) = h[n]
      BY <2>2
    <3>2. CASE k = t.root
      <4>1. Gap(n, e, GapAt(t, k), d) = 0
        BY <3>0, <3>2 DEF Gap, GapAt
      <4>2. t.kid[n][e] # k \/ k = TNULL
        BY <3>0, <3>2, <1>0 DEF Joined
      <4>3. Allocated(t) # {}
        OBVIOUS
      <4>4. k # TNULL
        BY <4>3, <3>2, <1>0 DEF Joined
      <4> QED BY <3>0, <3>1, <4>1, <4>2, <4>4, <2>3
    <3>3. CASE k # t.root
      <4>0. k \in t.red /\ k \in Allocated(t) /\ GapAt(t, k) = t.par[k] /\ t.kid[t.par[k]][d] = k
        BY <3>3, <2>0, <1>0 DEF GapAt
      <4>1. PICK b : Labels(t, b)
        BY DEF Shaped, Labelled
      <4>2. /\ \A m \in Allocated(t), f \in Side : t.kid[m][f] = k => m = t.par[k] /\ f = SideOf(t, k)
            /\ t.par[k] \in Allocated(t)
        BY <4>0, <4>1, <3>3, <1>0, PlaceIs
      <4>3. t.kid[n][e] = k <=> n = t.par[k] /\ e = d
        BY <4>0, <4>2
      <4>4. CASE t.kid[n][e] = k
        <5>1. Gap(n, e, GapAt(t, k), d) = 1
          BY <4>0, <4>3, <4>4 DEF Gap
        <5>2. Weight(u, h, k) = h[k] + 1 /\ Weight(t, h, k) = h[k] + 0 /\ h[k] \in Nat
          BY <4>0, <1>1, <2>2 DEF Weight
        <5> QED BY <5>1, <5>2, <4>4, <3>1
      <4>5. CASE t.kid[n][e] # k
        <5>1. Gap(n, e, GapAt(t, k), d) = 0
          BY <4>0, <4>3, <4>5 DEF Gap
        <5> QED BY <5>1, <4>5, <3>0, <3>1, <2>3
      <4> QED BY <4>4, <4>5
    <3> QED BY <3>2, <3>3
  <2>5. Heights(u, h)
    BY <2>2, <2>4, <1>1 DEF Heights
  <2> QED BY <2>5 DEF Even
<1> QED BY <1>1, <1>2, <1>3, <1>4

-----------------------------------------------------------------------------
(* The invariant, and that each step keeps it. *)

\* Where the walks are.
Walking == \E b : Labels(tree, b) /\ Fits(tree, b, node, y, x)
Seeking == \E b : Labels(tree, b) /\ Sought(tree, b, key, node, z)
Nearing == \E b : Labels(tree, b) /\ Leftmost(tree, b, tree.kid[z].right, y)

\* n is the last of the nodes with key k.
LastOf(t, k, n) == n \in WithKey(t, k) /\ \A m \in WithKey(t, k) \ {n} : Before(m, n)

\* The colours, until a turn of deleteFix has recoloured a sibling it should not.
Coloured ==
  ~tree.skew =>
    /\ phase # "down"
    /\ phase \in {"idle", "descend", "seek", "least"} => Even(tree) /\ OnlyAt(tree, NULL)
    /\ phase = "fix" => Even(tree) /\ OnlyAt(tree, x)
    /\ phase = "mend" => Lacking(tree, x)

IInv ==
  /\ TypeOK /\ Shaped(tree) /\ Dense(tree) /\ Coloured
  /\ tree.root \in tree.red => phase \in {"fix", "mend"} /\ x = tree.root
  /\ phase = "descend" => IsNext(tree, node) /\ Newest(tree, node) /\ Walking
  /\ phase = "fix" => x \in tree.red
  /\ phase = "seek" => Seeking
  /\ phase = "least" => LastOf(tree, key, z) /\ TwoChildren /\ Nearing
  /\ phase = "mend" => Placed(tree, x)

LEMMA InitIInv == Init => IInv
BY EmptyShaped, RedBlackTreeAssumption DEF Init, IInv, TypeOK, Place, Shaped, Coloured, EmptyTree

LEMMA CallInsertKeeps == ASSUME IInv, NEW n \in Node, CallInsert(n) PROVE IInv'
<1>1. /\ phase = "idle" /\ IsNext(tree, n) /\ phase' = "descend" /\ node' = n /\ x' = tree.root
      /\ tree' = tree /\ key' = key /\ z' = z /\ y' = y
  BY DEF CallInsert
<1>2. /\ IsTree(tree) /\ Shaped(tree) /\ Dense(tree) /\ tree.root \notin tree.red
      /\ key = NULL /\ z = NULL /\ y = NULL /\ ~tree.bad
  BY <1>1 DEF IInv, Shaped, TypeOK, Place
<1>3. Newest(tree, n)
  BY <1>1, <1>2, NextIsNewest
<1>4. PICK b : Labels(tree, b)
  BY <1>2 DEF Shaped, Labelled
<1>5. Fits(tree, b, n, NULL, tree.root)
  BY DEF Fits
<1>6. Walking'
  BY <1>1, <1>2, <1>4, <1>5 DEF Walking
<1>7. TypeOK'
  BY <1>1, <1>2 DEF TypeOK, Place, IsTree
<1>8. Coloured'
  BY <1>1 DEF IInv, Coloured
<1> QED BY <1>1, <1>2, <1>3, <1>6, <1>7, <1>8 DEF IInv

LEMMA DescendKeeps == ASSUME IInv, Descend PROVE IInv'
<1>1. /\ phase = "descend" /\ x # TNULL /\ y' = x
      /\ x' = tree.kid[x][Way(node, x)] /\ tree' = tree /\ phase' = phase /\ node' = node
      /\ key' = key /\ z' = z
  BY DEF Descend, Way
<1>2. /\ Shaped(tree) /\ Dense(tree) /\ IsTree(tree) /\ tree.root \notin tree.red
      /\ IsNext(tree, node) /\ Newest(tree, node) /\ Walking
      /\ x \in Allocated(tree) /\ node \in Node /\ key = NULL /\ z = NULL /\ ~tree.bad
  BY <1>1 DEF IInv, Shaped, TypeOK, Place
<1>3. PICK b : Labels(tree, b) /\ Fits(tree, b, node, y, x)
  BY <1>2 DEF Walking
<1>4. Fits(tree, b, node, x, tree.kid[x][Way(node, x)])
  BY <1>2, <1>3, WalkFits
<1>5. Walking'
  BY <1>1, <1>3, <1>4 DEF Walking
<1>6. x' \in Allocated(tree) \cup {TNULL}
  <2>1. Way(node, x) \in Side
    BY <1>2, WayIs
  <2> QED BY <2>1, <1>1, <1>2 DEF IsTree
<1>7. TypeOK'
  BY <1>1, <1>2, <1>6 DEF TypeOK, Place
<1>8. Coloured'
  BY <1>1 DEF IInv, Coloured
<1> QED BY <1>1, <1>2, <1>5, <1>7, <1>8 DEF IInv

LEMMA ReturnedType ==
  ASSUME IsTree(tree'), Shaped(tree'), Dense(tree'), ~tree.bad, tree'.bad = tree.bad, Returned,
         ~tree'.skew => Even(tree') /\ OnlyAt(tree', NULL), tree'.root \notin tree'.red
  PROVE  IInv'
<1>1. /\ phase' = "idle" /\ key' = NULL /\ node' = NULL /\ z' = NULL /\ y' = NULL /\ x' = NULL
  BY DEF Returned, NoneSought
<1>2. TypeOK'
  BY <1>1 DEF TypeOK, Place
<1>3. Coloured'
  BY <1>1 DEF Coloured
<1> QED BY <1>1, <1>2, <1>3 DEF IInv

LEMMA AttachStep ==
  ASSUME IInv, Attach
  PROVE  IInv' /\ Allocated(tree') = Allocated(tree) \cup {node} /\ Newest(tree, node)
<1>1. /\ phase = "descend" /\ x = TNULL /\ tree' = Attached(tree, node, y)
      /\ \/ IsSettled(tree', node) /\ Returned
         \/ /\ ~IsSettled(tree', node) /\ phase' = "fix" /\ x' = node
            /\ key' = key /\ node' = node /\ z' = z /\ y' = y
  BY DEF Attach
<1>2. /\ Shaped(tree) /\ Dense(tree) /\ IsTree(tree) /\ tree.root \notin tree.red
      /\ IsNext(tree, node) /\ Newest(tree, node) /\ Walking
      /\ node \in Node /\ y \in Allocated(tree) \cup {NULL} /\ key = NULL /\ z = NULL /\ ~tree.bad
      /\ ~tree.skew => Even(tree) /\ OnlyAt(tree, NULL)
  BY <1>1 DEF IInv, Shaped, TypeOK, Place, Coloured
<1>3. PICK b : Labels(tree, b) /\ Fits(tree, b, node, y, TNULL)
  BY <1>1, <1>2 DEF Walking
<1>4. CASE y = NULL
  <2>1. tree.root = TNULL
    BY <1>3, <1>4 DEF Fits
  <2>2. /\ Shaped(tree') /\ Even(tree') /\ OnlyAt(tree', NULL) /\ IsSettled(tree', node)
        /\ Allocated(tree') = Allocated(tree) \cup {node}
        /\ tree'.red = {} /\ tree'.bad = tree.bad
    BY <1>1, <1>2, <1>4, <2>1, FirstKeeps
  <2>3. Dense(tree')
    BY <1>2, <2>2, DenseGrows
  <2>4. Returned
    BY <1>1, <2>2
  <2>5. IInv'
    BY <2>2, <2>3, <2>4, <1>2, ReturnedType DEF Shaped
  <2> QED BY <2>2, <2>5, <1>2
<1>5. CASE y # NULL
  <2>1. /\ Shaped(tree') /\ node \in tree'.red
        /\ Allocated(tree') = Allocated(tree) \cup {node}
        /\ tree'.skew = tree.skew /\ tree'.bad = tree.bad
        /\ tree'.root \in tree'.red => tree.root \in tree.red
        /\ Even(tree) /\ OnlyAt(tree, NULL) =>
             /\ Even(tree') /\ OnlyAt(tree', node)
             /\ IsSettled(tree', node) => OnlyAt(tree', NULL)
    BY <1>1, <1>2, <1>3, <1>5, AttachKeeps
  <2>2. Dense(tree')
    BY <1>2, <2>1, DenseGrows
  <2>3. CASE IsSettled(tree', node)
    <3>1. Returned
      BY <1>1, <2>3
    <3>2. IInv'
      BY <3>1, <2>1, <2>2, <2>3, <1>2, ReturnedType DEF Shaped
    <3> QED BY <3>2, <2>1, <1>2
  <2>4. CASE ~IsSettled(tree', node)
    <3>1. /\ phase' = "fix" /\ x' = node
          /\ key' = NULL /\ node' = node /\ z' = NULL /\ y' = y
      BY <1>1, <1>2, <2>4
    <3>2. TypeOK'
      BY <3>1, <2>1, <1>2, <1>5 DEF TypeOK, Place, Shaped
    <3>3. Coloured'
      BY <3>1, <2>1, <1>2 DEF Coloured
    <3>4. IInv'
      BY <3>1, <3>2, <3>3, <2>1, <2>2, <1>2 DEF IInv
    <3> QED BY <3>4, <2>1, <1>2
  <2> QED BY <2>3, <2>4
<1> QED BY <1>4, <1>5

LEMMA FixStepKeeps ==
  ASSUME IInv, FixStep
  PROVE  /\ IInv' /\ Allocated(tree') = Allocated(tree)
         /\ Unfixed' => tree'.kid = tree.kid /\ x' = tree.par[tree.par[x]] /\ x' # x
<1>1. /\ phase = "fix" /\ x # tree.root /\ tree.par[x] \in tree.red
      /\ tree' = FixTurn(tree, x).tree /\ x' = FixTurn(tree, x).at
      /\ phase' = phase /\ key' = key /\ node' = node /\ z' = z /\ y' = y
  BY DEF FixStep, Unfixed
<1>2. /\ Shaped(tree) /\ Dense(tree) /\ x \in tree.red /\ tree.root \notin tree.red
      /\ node \in Node /\ y \in Allocated(tree) /\ key = NULL /\ z = NULL /\ ~tree.bad
      /\ ~tree.skew => Even(tree) /\ OnlyAt(tree, x)
  BY <1>1 DEF IInv, TypeOK, Place, Coloured
<1>3. Climbed(tree, x, tree', x') /\ Repaired(tree, tree', x, x')
  BY <1>1, <1>2, FixTurnKeeps
<1>4. /\ Shaped(tree') /\ x' \in tree'.red /\ Allocated(tree') = Allocated(tree)
      /\ tree'.skew = tree.skew /\ tree'.bad = tree.bad
      /\ tree'.root \in tree'.red => x' = tree'.root
      /\ Unfixed' => tree'.kid = tree.kid /\ x' = tree.par[tree.par[x]] /\ x' # x
      /\ Even(tree) /\ OnlyAt(tree, x) => Even(tree') /\ OnlyAt(tree', x')
  BY <1>3 DEF Climbed, Repaired, Unfixed
<1>5. Dense(tree')
  BY <1>2, <1>4 DEF Dense
<1>6. TypeOK'
  BY <1>1, <1>2, <1>4 DEF TypeOK, Place, Shaped, IsTree
<1>7. Coloured'
  BY <1>1, <1>2, <1>4 DEF Coloured
<1>8. IInv'
  BY <1>1, <1>4, <1>5, <1>6, <1>7 DEF IInv
<1> QED BY <1>4, <1>8

LEMMA FixedKeeps == ASSUME IInv, Fixed PROVE IInv' /\ Allocated(tree') = Allocated(tree)
<1>1. /\ phase = "fix" /\ ~(x # tree.root /\ tree.par[x] \in tree.red)
      /\ tree' = Blacken(tree, tree.root) /\ Returned
  BY DEF Fixed, Unfixed
<1>2. /\ Shaped(tree) /\ Dense(tree) /\ x \in tree.red /\ ~tree.bad
      /\ ~tree.skew => Even(tree) /\ OnlyAt(tree, x)
  BY <1>1 DEF IInv, TypeOK, Place, Coloured
<1>3. Painted(tree, tree', tree.red \ {tree.root})
  BY <1>1, <1>2, BlackenIs
<1>4. /\ Shaped(tree') /\ Allocated(tree') = Allocated(tree) /\ tree'.root \notin tree'.red
      /\ tree'.skew = tree.skew /\ tree'.bad = tree.bad
  BY <1>3 DEF Painted
<1>5. Even(tree) /\ OnlyAt(tree, x) => Even(tree') /\ OnlyAt(tree', NULL)
  BY <1>1, <1>2, BlackenKeeps
<1>6. Dense(tree')
  BY <1>2, <1>4 DEF Dense
<1>7. IInv'
  BY <1>1, <1>2, <1>4, <1>5, <1>6, ReturnedType DEF Shaped
<1> QED BY <1>4, <1>7

LEMMA CallDeleteKeeps == ASSUME IInv, NEW k \in Key, CallDelete(k) PROVE IInv'
<1>1. /\ phase = "idle" /\ phase' = "seek" /\ key' = k /\ node' = tree.root /\ z' = TNULL
      /\ tree' = tree /\ y' = y /\ x' = x
  BY DEF CallDelete
<1>2. /\ IsTree(tree) /\ Shaped(tree) /\ Dense(tree) /\ tree.root \notin tree.red
      /\ y = NULL /\ x = NULL /\ ~tree.bad
  BY <1>1 DEF IInv, Shaped, TypeOK, Place
<1>3. PICK b : Labels(tree, b)
  BY <1>2 DEF Shaped, Labelled
<1>4. Sought(tree, b, k, tree.root, TNULL)
  BY <1>2, <1>3, SeekStarts
<1>5. Seeking'
  BY <1>1, <1>3, <1>4 DEF Seeking
<1>6. TypeOK'
  BY <1>1, <1>2 DEF TypeOK, Place, IsTree
<1>7. Coloured'
  BY <1>1 DEF IInv, Coloured
<1> QED BY <1>1, <1>2, <1>5, <1>6, <1>7 DEF IInv

LEMMA SeekKeeps == ASSUME IInv, Seek PROVE IInv'
<1>1. /\ phase = "seek" /\ node # TNULL
      /\ z' = IF KeyOf(node) = key THEN node ELSE z
      /\ node' = tree.kid[node][IF KeyOf(node) <= key THEN "right" ELSE "left"]
      /\ tree' = tree /\ phase' = phase /\ key' = key /\ y' = y /\ x' = x
  BY DEF Seek
<1>2. /\ Shaped(tree) /\ Dense(tree) /\ IsTree(tree) /\ tree.root \notin tree.red
      /\ Seeking /\ key \in Key /\ node \in Allocated(tree)
      /\ z \in Allocated(tree) \cup {TNULL} /\ y = NULL /\ x = NULL /\ ~tree.bad
  BY <1>1 DEF IInv, Shaped, TypeOK, Place
<1>3. PICK b : Labels(tree, b) /\ Sought(tree, b, key, node, z)
  BY <1>2 DEF Seeking
<1>4. Sought(tree, b, key, node', z')
  BY <1>1, <1>2, <1>3, SeekTurns
<1>5. Seeking'
  BY <1>1, <1>3, <1>4 DEF Seeking
<1>6. node' \in Allocated(tree) \cup {TNULL} /\ z' \in Allocated(tree) \cup {TNULL}
  BY <1>1, <1>2 DEF IsTree, Side
<1>7. TypeOK'
  BY <1>1, <1>2, <1>6 DEF TypeOK, Place
<1>8. Coloured'
  BY <1>1 DEF IInv, Coloured
<1> QED BY <1>1, <1>2, <1>5, <1>7, <1>8 DEF IInv

LEMMA NotFoundKeeps == ASSUME IInv, NotFound PROVE IInv'
<1>1. phase = "seek" /\ Returned /\ tree' = tree
  BY DEF NotFound
<1>2. /\ Shaped(tree) /\ Dense(tree) /\ IsTree(tree) /\ tree.root \notin tree.red /\ ~tree.bad
      /\ ~tree.skew => Even(tree) /\ OnlyAt(tree, NULL)
  BY <1>1 DEF IInv, Shaped, TypeOK, Place, Coloured
<1> QED BY <1>1, <1>2, ReturnedType

\* The loop of deleteNodeHelper() ends: z is the node to delete.
LEMMA SoughtEnds ==
  ASSUME IInv, phase = "seek", node = TNULL, z # TNULL
  PROVE  LastOf(tree, key, z) /\ z \in Allocated(tree)
<1>1. /\ IsTree(tree) /\ Seeking /\ z \in Allocated(tree) /\ TNULL \notin Allocated(tree)
  BY RedBlackTreeAssumption DEF IInv, Shaped, TypeOK, Place, IsTree, Nobody
<1>2. PICK b : Labels(tree, b) /\ Sought(tree, b, key, TNULL, z)
  BY <1>1 DEF Seeking
<1>3. Lab(b, TNULL) = {}
  BY <1>1, <1>2 DEF Lab, Labels
<1> QED BY <1>1, <1>2, <1>3 DEF Sought, LastOf, WithKey

LEMMA SearchKeeps == ASSUME IInv, Search PROVE IInv'
<1>1. /\ phase = "seek" /\ node = TNULL /\ z # TNULL /\ TwoChildren
      /\ phase' = "least" /\ y' = tree.kid[z].right
      /\ tree' = tree /\ key' = key /\ node' = node /\ z' = z /\ x' = x
  BY DEF Search
<1>2. /\ Shaped(tree) /\ Dense(tree) /\ IsTree(tree) /\ tree.root \notin tree.red
      /\ key \in Key /\ x = NULL /\ ~tree.bad
  BY <1>1 DEF IInv, Shaped, TypeOK, Place
<1>3. LastOf(tree, key, z) /\ z \in Allocated(tree)
  BY <1>1, SoughtEnds
<1>4. tree.kid[z].right \in Allocated(tree)
  BY <1>1, <1>2, <1>3 DEF TwoChildren, IsTree, Side
<1>5. PICK b : Labels(tree, b)
  BY <1>2 DEF Shaped, Labelled
<1>6. Leftmost(tree, b, tree.kid[z].right, tree.kid[z].right)
  BY <1>4, <1>5 DEF Leftmost, Labels, Covers
<1>7. Nearing'
  BY <1>1, <1>5, <1>6 DEF Nearing
<1>8. TypeOK'
  BY <1>1, <1>2, <1>3, <1>4 DEF TypeOK, Place
<1>9. Coloured'
  BY <1>1 DEF IInv, Coloured
<1>10. TwoChildren'
  BY <1>1 DEF TwoChildren
<1> QED BY <1>1, <1>2, <1>3, <1>7, <1>8, <1>9, <1>10 DEF IInv

LEMMA LeastKeeps == ASSUME IInv, Least PROVE IInv'
<1>1. /\ phase = "least" /\ tree.kid[y].left # TNULL /\ y' = tree.kid[y].left
      /\ tree' = tree /\ phase' = phase /\ key' = key /\ node' = node /\ z' = z /\ x' = x
  BY DEF Least
<1>2. /\ Shaped(tree) /\ Dense(tree) /\ IsTree(tree) /\ tree.root \notin tree.red
      /\ key \in Key /\ node = TNULL /\ x = NULL /\ ~tree.bad
      /\ z \in Allocated(tree) /\ y \in Allocated(tree)
      /\ LastOf(tree, key, z) /\ TwoChildren /\ Nearing
  BY <1>1 DEF IInv, Shaped, TypeOK, Place
<1>3. tree.kid[z].right \in Allocated(tree)
  BY <1>2 DEF TwoChildren, IsTree, Side
<1>4. PICK b : Labels(tree, b) /\ Leftmost(tree, b, tree.kid[z].right, y)
  BY <1>2 DEF Nearing
<1>5. /\ tree.kid[y]["left"] \in Allocated(tree)
      /\ Leftmost(tree, b, tree.kid[z].right, tree.kid[y]["left"])
  BY <1>1, <1>2, <1>3, <1>4, LeastTurns
<1>6. Nearing'
  BY <1>1, <1>4, <1>5 DEF Nearing
<1>7. TypeOK'
  BY <1>1, <1>2, <1>5 DEF TypeOK, Place
<1>8. Coloured'
  BY <1>1 DEF IInv, Coloured
<1>9. TwoChildren'
  BY <1>1, <1>2 DEF TwoChildren
<1> QED BY <1>1, <1>2, <1>6, <1>7, <1>8, <1>9 DEF IInv

LEMMA DenseShrinks ==
  ASSUME NEW t, IsTree(t), Dense(t), NEW k, NEW n, LastOf(t, k, n),
         NEW u, Allocated(u) = Allocated(t) \ {n}
  PROVE  Dense(u)
<1> SUFFICES ASSUME NEW m \in Allocated(t) \ {n}, NEW c \in 1..(m[2] - 1)
             PROVE  <<m[1], c>> \in Allocated(t) \ {n}
  BY DEF Dense
<1>1. <<m[1], c>> \in Allocated(t)
  BY DEF Dense
<1>2. m \in Node /\ m[2] \in Nat
  BY RedBlackTreeAssumption DEF IsTree, Node
<1>3. <<m[1], c>> # n
  <2> SUFFICES ASSUME n = <<m[1], c>> PROVE FALSE
    OBVIOUS
  <2>1. n[1] = m[1] /\ n[2] = c
    OBVIOUS
  <2>2. m \in WithKey(t, k)
    BY <2>1 DEF LastOf, WithKey, KeyOf
  <2>3. Before(m, n)
    BY <2>2 DEF LastOf
  <2>4. m[1] \in Nat
    BY RedBlackTreeAssumption DEF IsTree, Node
  <2> QED BY <2>1, <2>3, <2>4, <1>2 DEF Before, KeyOf
<1> QED BY <1>1, <1>3


\* A call of deleteNode() that has no colour to mend is over, another one goes on in
\* deleteFix.
LEMMA UnlinkKeeps ==
  ASSUME IInv, Unlink
  PROVE  /\ IInv' /\ phase \in {"seek", "least"} /\ LastOf(tree, key, z)
         /\ Allocated(tree') = Allocated(tree) \ {z}
<1>1. PICK out : /\ out = Unlinked(tree, z, y) /\ tree' = out.tree
                 /\ \/ out.color = "red" /\ Returned
                    \/ out.color # "red" /\ phase' = "mend" /\ NoneSought /\ x' = out.at
  BY DEF Unlink
<1>2. \/ phase = "seek" /\ node = TNULL /\ z # TNULL /\ ~TwoChildren
      \/ phase = "least" /\ tree.kid[y].left = TNULL
  BY DEF Unlink
<1>3. /\ Shaped(tree) /\ Dense(tree) /\ IsTree(tree) /\ tree.root \notin tree.red /\ ~tree.bad
      /\ ~tree.skew => Even(tree) /\ OnlyAt(tree, NULL)
  BY <1>2 DEF IInv, Shaped, TypeOK, Place, Coloured
<1>4. LastOf(tree, key, z) /\ z \in Allocated(tree) /\ phase \in {"seek", "least"}
  <2>1. CASE phase = "seek"
    BY <2>1, <1>2, SoughtEnds
  <2>2. CASE phase = "least"
    BY <2>2 DEF IInv, TypeOK, Place
  <2> QED BY <2>1, <2>2, <1>2
<1>5. PICK b : /\ Labels(tree, b)
               /\ tree.kid[z]["left"] # TNULL /\ tree.kid[z]["right"] # TNULL =>
                    /\ y \in Allocated(tree) /\ Leftmost(tree, b, tree.kid[z]["right"], y)
                    /\ tree.kid[y]["left"] = TNULL
  <2>1. CASE phase = "seek"
    BY <2>1, <1>2, <1>3 DEF TwoChildren, Shaped, Labelled
  <2>2. CASE phase = "least"
    <3>1. PICK b : Labels(tree, b) /\ Leftmost(tree, b, tree.kid[z].right, y)
      BY <2>2 DEF IInv, Nearing
    <3>2. y \in Allocated(tree) /\ tree.kid[y].left = TNULL
      BY <2>2, <1>2 DEF IInv, TypeOK, Place
    <3> QED BY <3>1, <3>2
  <2> QED BY <2>1, <2>2, <1>4
<1>6. Without(tree, out.tree, z, out.at, out.color) /\ out.color \in {"red", "black"}
  BY <1>1, <1>3, <1>4, <1>5, UnlinkedIs
<1>7. /\ Shaped(tree') /\ Allocated(tree') = Allocated(tree) \ {z}
      /\ tree'.skew = tree.skew /\ tree'.bad = tree.bad
      /\ out.at \in Allocated(tree') \cup {TNULL} /\ Placed(tree', out.at)
      /\ tree'.root \in tree'.red => out.at = tree'.root /\ out.color = "black"
      /\ ~tree'.skew /\ out.color = "red" => Even(tree') /\ OnlyAt(tree', NULL)
      /\ ~tree'.skew /\ out.color = "black" => Lacking(tree', out.at)
  BY <1>1, <1>3, <1>6 DEF Without
<1>8. Dense(tree')
  BY <1>3, <1>4, <1>7, DenseShrinks
<1>9. CASE out.color = "red"
  <2>1. Returned /\ tree'.root \notin tree'.red /\ IsTree(tree')
    BY <1>1, <1>7, <1>9 DEF Shaped
  <2>2. IInv'
    BY <2>1, <1>3, <1>7, <1>8, <1>9, ReturnedType
  <2> QED BY <2>2, <1>4, <1>7
<1>10. CASE out.color = "black"
  <2>1. /\ phase' = "mend" /\ key' = NULL /\ node' = NULL /\ z' = NULL /\ y' = NULL
        /\ x' = out.at /\ IsTree(tree')
    BY <1>1, <1>7, <1>10 DEF NoneSought, Shaped
  <2>2. TypeOK'
    BY <2>1, <1>3, <1>7 DEF TypeOK, Place
  <2>3. Coloured'
    BY <2>1, <1>7, <1>10 DEF Coloured
  <2>4. IInv'
    BY <2>1, <2>2, <2>3, <1>7, <1>8 DEF IInv
  <2> QED BY <2>4, <1>4, <1>7
<1> QED BY <1>6, <1>9, <1>10

LEMMA MendStepKeeps ==
  ASSUME IInv, MendStep
  PROVE  /\ IInv' /\ Allocated(tree') = Allocated(tree)
         /\ phase' = "mend" /\ Unmended' => x' = tree.par[x] /\ tree'.kid = tree.kid
<1>1. PICK out : /\ out = MendTurn(tree, x) /\ tree' = out.tree /\ x' = out.at
                 /\ phase = "mend" /\ x # tree.root /\ x \notin tree.red
                 /\ phase' = IF tree'.bad THEN "down" ELSE "mend"
                 /\ key' = key /\ node' = node /\ z' = z /\ y' = y
  BY DEF MendStep, Unmended
<1>2. /\ Shaped(tree) /\ Dense(tree) /\ x \in Allocated(tree) \cup {TNULL} /\ Placed(tree, x)
      /\ key = NULL /\ node = NULL /\ z = NULL /\ y = NULL /\ ~tree.bad
      /\ tree.root \notin tree.red
      /\ ~tree.skew => Lacking(tree, x)
  BY <1>1 DEF IInv, TypeOK, Place, Coloured
<1>3. /\ Took(tree, x, out.tree, out.at)
      /\ Lacking(tree, x) => Mends(tree, out.tree, out.at)
  BY <1>1, <1>2, MendTurnKeeps
<1>4. /\ Shaped(tree') /\ Allocated(tree') = Allocated(tree) /\ (tree.skew => tree'.skew)
      /\ x' \in Allocated(tree') /\ Placed(tree', x') /\ tree'.root \notin tree'.red
      /\ Unmended' => x' = tree.par[x] /\ tree'.kid = tree.kid
  BY <1>1, <1>2, <1>3 DEF Took, Unmended
<1>5. ~tree'.skew => ~tree'.bad /\ Lacking(tree', x')
  BY <1>1, <1>2, <1>3, <1>4 DEF Mends
<1>6. Dense(tree')
  BY <1>2, <1>4 DEF Dense
<1>7. tree'.bad \in BOOLEAN /\ IsTree(tree')
  BY <1>4 DEF Shaped, IsTree
<1>8. TypeOK'
  BY <1>1, <1>2, <1>4, <1>7 DEF TypeOK, Place
<1>9. Coloured'
  BY <1>1, <1>5, <1>7 DEF Coloured
<1>10. IInv'
  BY <1>1, <1>4, <1>6, <1>8, <1>9 DEF IInv
<1> QED BY <1>4, <1>10

LEMMA MendedKeeps == ASSUME IInv, Mended PROVE IInv' /\ Allocated(tree') = Allocated(tree)
<1>1. /\ phase = "mend" /\ (x = tree.root \/ x \in tree.red)
      /\ tree' = Blacken(tree, x) /\ Returned
  BY DEF Mended, Unmended
<1>2. /\ Shaped(tree) /\ Dense(tree) /\ x \in Allocated(tree) \cup {TNULL} /\ ~tree.bad
      /\ tree.root \in tree.red => x = tree.root
      /\ ~tree.skew => Lacking(tree, x)
  BY <1>1 DEF IInv, TypeOK, Place, Coloured
<1>3. /\ Painted(tree, tree', tree.red \ {x}) /\ tree'.root \notin tree'.red
      /\ Lacking(tree, x) => Even(tree') /\ OnlyAt(tree', NULL)
  BY <1>1, <1>2, MendEnds
<1>4. /\ Shaped(tree') /\ IsTree(tree') /\ Allocated(tree') = Allocated(tree)
      /\ tree'.skew = tree.skew /\ tree'.bad = tree.bad
  BY <1>3 DEF Painted, Shaped
<1>5. Dense(tree')
  BY <1>2, <1>4 DEF Dense
<1>6. IInv'
  BY <1>1, <1>2, <1>3, <1>4, <1>5, ReturnedType
<1> QED BY <1>4, <1>6

LEMMA NextIInv == IInv /\ [Next]_vars => IInv'
<1> SUFFICES ASSUME IInv, [Next]_vars PROVE IInv'
  OBVIOUS
<1>1. CASE UNCHANGED vars
  BY <1>1 DEF vars, locals, IInv, TypeOK, Place, Coloured, Walking, Seeking, Nearing, TwoChildren
<1>2. CASE Inserting
  BY <1>2, DescendKeeps, AttachStep, FixStepKeeps, FixedKeeps DEF Inserting
<1>3. CASE Deleting
  BY <1>3, SeekKeeps, NotFoundKeeps, SearchKeeps, LeastKeeps, UnlinkKeeps, MendStepKeeps,
     MendedKeeps DEF Deleting
<1>4. CASE \/ \E n \in Node : CallInsert(n)
           \/ \E k \in Key : CallDelete(k)
  BY <1>4, CallInsertKeeps, CallDeleteKeeps
<1> QED BY <1>1, <1>2, <1>3, <1>4 DEF Next

\* At every step of every call of insert() and deleteNode(), links, order and wholeness
\* hold; and, until line 141 has repainted a sibling it should not, so do the colours
\* and the balance but for the node a repair is at.
THEOREM Invariant == Spec => []IInv
<1>1. Init => IInv
  BY InitIInv
<1>2. IInv /\ [Next]_vars => IInv'
  BY NextIInv
<1> QED BY <1>1, <1>2, PTL DEF Spec

-----------------------------------------------------------------------------
(* What the runs check. *)

\* Every node has the fields the code gives it, and the locals of insert() and
\* deleteNode() are where their loops may leave them.
THEOREM TypeCorrect == Spec => []TypeOK
<1>1. IInv => TypeOK
  BY DEF IInv
<1> QED BY <1>1, Invariant, PTL

\* Parents and children agree, and only the root has no parent.
THEOREM LinkedCorrect == Spec => []Linked
<1>1. IInv => Linked
  BY RedBlackTreeAssumption DEF IInv, Shaped, IsTree, Joined, Linked, Nobody
<1> QED BY <1>1, Invariant, PTL

\* No rotation, attachment or relinking loses a node.
THEOREM WholeCorrect == Spec => []Whole
<1>1. IInv => Whole
  BY DEF IInv, Shaped, IsWhole, Whole, Below
<1> QED BY <1>1, Invariant, PTL

LEMMA BelowIsLabelled ==
  ASSUME NEW t, IsTree(t), NEW b, Labels(t, b), NEW n \in Allocated(t)
  PROVE  Below(t, n) \subseteq b[n]
<1>1. b[n] \in SUBSET Allocated(t) /\ n \in b[n]
  BY DEF Labels, Covers
<1>2. ASSUME NEW m \in b[n], NEW d \in Side, t.kid[m][d] \in Allocated(t)
      PROVE  t.kid[m][d] \in b[n]
  <2>1. m \in Allocated(t) /\ b[m] \subseteq b[n]
    BY <1>1 DEF Labels, Nests
  <2>2. t.kid[m][d] \in b[t.kid[m][d]]
    BY <1>2 DEF Labels, Covers
  <2>3. b[t.kid[m][d]] \subseteq b[m]
    BY <2>1, <1>2, CoverOf DEF Lab, Labels
  <2> QED BY <2>1, <2>2, <2>3
<1>3. ClosedDown(t, b[n])
  BY <1>2 DEF ClosedDown
<1> QED BY <1>1, <1>3 DEF Below

\* The order of a search tree, at any depth and in the middle of a repair.
THEOREM SortedCorrect == Spec => []Sorted
<1>1. IInv => Sorted
  <2> SUFFICES ASSUME IInv, NEW n \in Allocated(tree), NEW d \in Side,
                      tree.kid[n][d] # TNULL, NEW m \in Below(tree, tree.kid[n][d])
               PROVE  On(d, m, n)
    BY DEF Sorted
  <2>1. PICK b : Labels(tree, b)
    BY DEF IInv, Shaped, Labelled
  <2>2. tree.kid[n][d] \in Allocated(tree) /\ IsTree(tree)
    BY DEF IInv, Shaped, IsTree
  <2>3. m \in Lab(b, tree.kid[n][d])
    BY <2>1, <2>2, BelowIsLabelled DEF Lab, Labels
  <2> QED BY <2>1, <2>3 DEF Labels, Orders
<1> QED BY <1>1, Invariant, PTL

\* After any insertions and deletions, and at any place inside one, the tree is a
\* search tree, whatever line 141 does to its colours.
THEOREM OrderedCorrect == Spec => []Ordered
BY TypeCorrect, LinkedCorrect, WholeCorrect, SortedCorrect, PTL DEF Ordered

LEMMA AboveFacts ==
  ASSUME NEW t, Shaped(t), NEW n \in Allocated(t), NEW d \in Side,
         NEW c \in Allocated(t), c = t.kid[n][d]
  PROVE  Above(t, c) = {c} \cup Above(t, n) /\ c \notin Above(t, n)
<1>0. IsTree(t) /\ Joined(t) /\ t.par[c] = n
  BY DEF Shaped, Joined
<1>1. PICK b : Labels(t, b)
  BY DEF Shaped, Labelled
<1>2. ClosedUp(t, {c} \cup Above(t, n))
  <2> SUFFICES ASSUME NEW m \in {c} \cup Above(t, n), t.par[m] \in Allocated(t)
               PROVE  t.par[m] \in {c} \cup Above(t, n)
    BY DEF ClosedUp
  <2>1. CASE m = c
    BY <2>1, <1>0 DEF Above
  <2>2. CASE m \in Above(t, n)
    BY <2>2 DEF Above, ClosedUp
  <2> QED BY <2>1, <2>2
<1>3. Above(t, c) \subseteq {c} \cup Above(t, n)
  <2>1. {c} \cup Above(t, n) \in SUBSET Allocated(t)
    BY DEF Above
  <2> QED BY <2>1, <1>2 DEF Above
<1>4. ASSUME NEW m \in {c} \cup Above(t, n) PROVE m \in Above(t, c)
  <2> SUFFICES ASSUME NEW S \in SUBSET Allocated(t), c \in S, ClosedUp(t, S)
               PROVE  m \in S
    BY <1>4 DEF Above
  <2>1. n \in S
    BY <1>0 DEF ClosedUp
  <2> QED BY <2>1, <1>4 DEF Above
<1>5. c \notin Above(t, n)
  <2> DEFINE S == {m \in Allocated(t) : n \in b[m]}
  <2>1. n \in S
    BY <1>1 DEF Labels, Covers
  <2>2. ASSUME NEW m \in S, t.par[m] \in Allocated(t) PROVE t.par[m] \in S
    <3>1. m # t.root
      BY <1>0, <2>2, RedBlackTreeAssumption DEF Joined, IsTree, Nobody
    <3>2. PICK e \in Side : t.kid[t.par[m]][e] = m
      BY <3>1, <1>0 DEF Joined
    <3>3. b[m] \subseteq b[t.par[m]]
      BY <3>2, <2>2, <1>0, <1>1, ChildFacts
    <3> QED BY <3>3, <2>2
  <2>3. ClosedUp(t, S)
    BY <2>2 DEF ClosedUp
  <2>4. c \notin S
    BY <1>0, <1>1, ChildFacts
  <2> HIDE DEF S
  <2> QED BY <2>1, <2>3, <2>4 DEF Above, S
<1> QED BY <1>3, <1>4, <1>5

BlackAbove(t, n) == Cardinality(Above(t, n) \ t.red)

LEMMA BlackAboveFacts ==
  ASSUME NEW t, Shaped(t), NEW n \in Allocated(t), NEW d \in Side,
         NEW c \in Allocated(t), c = t.kid[n][d]
  PROVE  /\ BlackAbove(t, n) \in Nat
         /\ BlackAbove(t, c) = BlackAbove(t, n) + (IF c \in t.red THEN 0 ELSE 1)
<1> DEFINE A == Above(t, n) \ t.red
<1>1. IsFiniteSet(A)
  BY FS_Subset DEF Shaped, Above
<1>2. Cardinality(A) \in Nat
  BY <1>1, FS_CardinalityType
<1>3. c \notin A
  BY AboveFacts
<1>4. CASE c \in t.red
  <2>1. Above(t, c) \ t.red = A
    BY <1>4, AboveFacts
  <2> QED BY <2>1, <1>2, <1>4 DEF BlackAbove
<1>5. CASE c \notin t.red
  <2>1. Above(t, c) \ t.red = A \cup {c}
    BY <1>5, AboveFacts
  <2>2. Cardinality(A \cup {c}) = Cardinality(A) + 1
    BY <1>1, <1>3, FS_AddElement
  <2> QED BY <2>1, <2>2, <1>2, <1>5 DEF BlackAbove
<1> QED BY <1>4, <1>5

\* As many black nodes above a leaf as above any other, when the heights agree.
LEMMA BlackSums ==
  ASSUME NEW t, Shaped(t), NEW h, Heights(t, h)
  PROVE  \A n \in Allocated(t) : /\ BlackAbove(t, n) \in Nat
                                   /\ BlackAbove(t, n) + h[n] = BlackAbove(t, t.root) + h[t.root]
<1> DEFINE total == BlackAbove(t, t.root) + h[t.root]
           S == {n \in Allocated(t) : BlackAbove(t, n) \in Nat /\ BlackAbove(t, n) + h[n] = total}
<1>1. ASSUME NEW n \in S, NEW d \in Side, t.kid[n][d] \in Allocated(t)
      PROVE  t.kid[n][d] \in S
  <2>1. PICK c \in Allocated(t) : c = t.kid[n][d]
    BY <1>1
  <2>2. BlackAbove(t, c) = BlackAbove(t, n) + (IF c \in t.red THEN 0 ELSE 1)
    BY <2>1, BlackAboveFacts
  <2>3. h[n] = h[c] + (IF c \in t.red THEN 0 ELSE 1) /\ h[n] \in Nat /\ h[c] \in Nat
    BY <2>1 DEF Heights, Weight
  <2>4. BlackAbove(t, n) \in Nat /\ BlackAbove(t, n) + h[n] = total
    OBVIOUS
  <2> HIDE DEF S, total
  <2>5. BlackAbove(t, c) \in Nat /\ BlackAbove(t, c) + h[c] = total
    BY <2>2, <2>3, <2>4
  <2> QED BY <2>1, <2>5 DEF S
<1>2. BlackAbove(t, t.root) \in Nat
  <2>1. IsFiniteSet(Above(t, t.root) \ t.red)
    BY FS_Subset DEF Shaped, Above
  <2> QED BY <2>1, FS_CardinalityType DEF BlackAbove
<1>3. t.root \in Allocated(t) => t.root \in S
  BY <1>2
<1>4. ClosedDown(t, S)
  BY <1>1 DEF ClosedDown
<1>5. t.root \in Allocated(t) => Allocated(t) \subseteq S
  <2> HIDE DEF S
  <2> QED BY <1>3, <1>4 DEF Shaped, IsWhole, S
<1>6. t.root \notin Allocated(t) => Allocated(t) = {}
  BY DEF Shaped, IsTree, Joined
<1> QED BY <1>5, <1>6

LEMMA EvenIsBalanced == ASSUME Shaped(tree), Even(tree) PROVE Balanced
<1> SUFFICES ASSUME NEW m \in Allocated(tree), NEW n \in Allocated(tree),
                    NEW d \in Side, tree.kid[m][d] = TNULL,
                    NEW e \in Side, tree.kid[n][e] = TNULL
             PROVE  BlackAbove(tree, m) = BlackAbove(tree, n)
  BY DEF Balanced, BlackAbove
<1>1. PICK h : Heights(tree, h)
  BY DEF Even
<1>2. TNULL \notin Allocated(tree)
  BY RedBlackTreeAssumption DEF Shaped, IsTree, Nobody
<1>3. h[m] = 0 /\ h[n] = 0
  BY <1>1, <1>2 DEF Heights, Weight
<1>4. /\ BlackAbove(tree, m) \in Nat /\ BlackAbove(tree, n) \in Nat
      /\ BlackAbove(tree, m) + h[m] = BlackAbove(tree, n) + h[n]
  BY <1>1, BlackSums
<1> QED BY <1>3, <1>4

\* The tree is a red-black tree but for the one node insertFix or deleteFix is at, until
\* line 141 has repainted a sibling it should not; its root is black between two calls
\* even then.
THEOREM RedBlackCorrect == Spec => []RedBlack
<1>1. ASSUME IInv, ~tree.skew PROVE OneRedPair
  <2> SUFFICES ASSUME NEW n \in tree.red, n = tree.root \/ tree.par[n] \in tree.red
               PROVE  \/ phase = "fix" /\ n = x
                      \/ phase = "mend" /\ x \in {n, tree.par[n]}
    BY DEF OneRedPair
  <2>1. n # NULL
    BY <1>1, RedBlackTreeAssumption DEF IInv, Shaped, IsTree, Nobody
  <2>2. phase \in {"idle", "descend", "seek", "least", "fix", "mend"}
    BY <1>1 DEF IInv, TypeOK, Coloured
  <2>3. CASE phase \in {"idle", "descend", "seek", "least"}
    BY <1>1, <2>1, <2>3 DEF IInv, Coloured, OnlyAt
  <2>4. CASE phase = "fix"
    BY <1>1, <2>4 DEF IInv, Coloured, OnlyAt
  <2>5. CASE phase = "mend"
    BY <1>1, <2>5 DEF IInv, Coloured, Lacking, OnlyBy
  <2> QED BY <2>2, <2>3, <2>4, <2>5
<1>2. ASSUME IInv, ~tree.skew, phase # "mend" PROVE Balanced
  <2>1. phase \in {"idle", "descend", "seek", "least", "fix"}
    BY <1>2 DEF IInv, TypeOK, Coloured
  <2>2. Shaped(tree) /\ Even(tree)
    BY <1>2, <2>1 DEF IInv, Coloured
  <2> QED BY <2>2, EvenIsBalanced
<1>3. IInv => RedBlack
  BY <1>1, <1>2 DEF RedBlack, IInv, Coloured
<1> QED BY <1>3, Invariant, PTL

\* A turn that leaves work went up and moved no node, so that a repair has at most as
\* many turns as the tree is high, and two more.
THEOREM ClimbsOrEndsCorrect == Spec => ClimbsOrEnds
<1>1. ASSUME IInv, FixStep, Unfixed'
      PROVE  x' # x /\ x \in Below(tree, x') /\ tree'.kid = tree.kid
  <2>1. /\ tree'.kid = tree.kid /\ x' = tree.par[tree.par[x]] /\ x' # x
        /\ x' \in Allocated(tree)
    BY <1>1, FixStepKeeps DEF IInv, Shaped, IsTree, Allocated, TypeOK, FixStep
  <2>2. IsTree(tree) /\ Joined(tree) /\ x \in Allocated(tree) /\ x # tree.root
        /\ tree.par[x] \in Allocated(tree)
    BY <1>1 DEF IInv, Shaped, IsTree, FixStep, Unfixed
  <2>3. tree.par[x] # tree.root
    BY <2>1, <2>2, RedBlackTreeAssumption DEF Joined, IsTree, Nobody
  <2>4. /\ \E d \in Side : tree.kid[tree.par[x]][d] = x
        /\ \E d \in Side : tree.kid[x'][d] = tree.par[x]
    BY <2>1, <2>2, <2>3 DEF Joined
  <2>5. x \in Below(tree, x')
    <3> SUFFICES ASSUME NEW S \in SUBSET Allocated(tree), x' \in S, ClosedDown(tree, S)
                 PROVE  x \in S
      BY <2>2 DEF Below
    <3>1. tree.par[x] \in S
      BY <2>2, <2>4 DEF ClosedDown
    <3> QED BY <3>1, <2>2, <2>4 DEF ClosedDown
  <2> QED BY <2>1, <2>5
<1>2. ASSUME IInv, MendStep, phase' = "mend", Unmended'
      PROVE  x' = tree.par[x] /\ tree'.kid = tree.kid
  BY <1>2, MendStepKeeps
<1>3. IInv /\ [Next]_vars =>
        [/\ FixStep /\ Unfixed' => x' # x /\ x \in Below(tree, x') /\ tree'.kid = tree.kid
         /\ MendStep /\ phase' = "mend" /\ Unmended' =>
              x' = tree.par[x] /\ tree'.kid = tree.kid]_vars
  BY <1>1, <1>2
<1> QED BY <1>3, Invariant, PTL DEF Spec, ClimbsOrEnds

\* insert() adds the node it allocated, behind all with its key; deleteNode() takes out
\* the last node with the key; no other step adds or removes one.
THEOREM OneElementCorrect == Spec => OneElement
<1> DEFINE Adds == /\ phase = "descend" /\ Allocated(tree') = Allocated(tree) \cup {node}
                   /\ \A m \in WithKey(tree, KeyOf(node)) : Before(m, node)
           Removes == /\ phase \in {"seek", "least"} /\ z \in WithKey(tree, key)
                      /\ Allocated(tree') = Allocated(tree) \ {z}
                      /\ \A m \in WithKey(tree, key) \ {z} : Before(m, z)
           Same == Allocated(tree') = Allocated(tree)
<1>1. ASSUME IInv, Attach PROVE Adds
  <2>1. Allocated(tree') = Allocated(tree) \cup {node} /\ Newest(tree, node)
    BY <1>1, AttachStep
  <2> QED BY <1>1, <2>1 DEF Attach, Newest, WithKey, Before
<1>2. ASSUME IInv, Unlink PROVE Removes
  BY <1>2, UnlinkKeeps DEF LastOf
<1>3. ASSUME IInv, FixStep \/ Fixed \/ MendStep \/ Mended PROVE Same
  BY <1>3, FixStepKeeps, FixedKeeps, MendStepKeeps, MendedKeeps
<1>4. ASSUME \/ Descend \/ Seek \/ NotFound \/ Search \/ Least
             \/ \E n \in Node : CallInsert(n)
             \/ \E k \in Key : CallDelete(k)
      PROVE  Same
  BY <1>4 DEF Descend, Seek, NotFound, Search, Least, CallInsert, CallDelete
<1>5. IInv /\ [Next]_vars => [Same \/ Adds \/ Removes]_vars
  <2> HIDE DEF Same, Adds, Removes
  <2> QED BY <1>1, <1>2, <1>3, <1>4 DEF Next, Inserting, Deleting
<1> QED BY <1>5, Invariant, PTL DEF Spec, OneElement

=============================================================================
