----------------------------- MODULE TreeSteps ------------------------------
(***************************************************************************)
(* The tree under ft::map and the steps its functions are made of:         *)
(* rotations, one turn of the loops that repair an insertion and a         *)
(* deletion, attachment and relinking, src/ft_containers/redblacktree.hpp. *)
(* The functions that repeat them are in RedBlackTree; TreeCalls takes the *)
(* turns of insert() and deleteNode() one at a time.                       *)
(*                                                                         *)
(* A node is <<key, copy>>: its key and which of the equal keys it is (the *)
(* range constructor of map inserts without searching).  A tree is a       *)
(* record:                                                                 *)
(*   root  the root node, or TNULL                                         *)
(*   kid   left and right child of every node that is allocated            *)
(*   par   parent of every node and of TNULL, the sentinel every leaf      *)
(*         shares; NULL stands for nullptr and, for TNULL, also for a      *)
(*         field never set or left on a freed node                         *)
(*   red   the nodes whose color is 1 (TNULL is always black)              *)
(*   skew  deleteFix has recoloured a sibling that has a red child         *)
(*   bad   a null pointer has been dereferenced: the process is gone       *)
(* leftRotate and rightRotate, and the two branches of each fix, are one   *)
(* definition with the side d as a parameter.                              *)
(***************************************************************************)
EXTENDS Integers, FiniteSets, Functions

CONSTANTS Key,      \* keys, naturals
          Copies,   \* how many equal keys a tree may hold: 1..n, or all
          TNULL, NULL

Node == Key \X Copies
Nobody == {TNULL, NULL}

ASSUME RedBlackTreeAssumption ==
  /\ Key \subseteq Nat /\ Copies \subseteq Nat \ {0}
  /\ \A c \in Copies : 1..c \subseteq Copies
  /\ TNULL # NULL /\ Nobody \cap Node = {}

KeyOf(n) == n[1]
Compare(a, b) == a < b          \* std::less, the default of map
Opposite(d) == IF d = "left" THEN "right" ELSE "left"

EmptyTree == [root |-> TNULL, kid |-> [n \in {} |-> TNULL], par |-> [n \in {TNULL} |-> NULL],
              red |-> {}, skew |-> FALSE, bad |-> FALSE]

Allocated(t) == DOMAIN t.kid
SideOf(t, n) == IF n = t.kid[t.par[n]].left THEN "left" ELSE "right"

-----------------------------------------------------------------------------
(* Rotation and insertion. *)

\* Mutant: the subtree between x and y is forgotten.
RotatedKidLost(t, x, d) ==
  LET y == t.kid[x][Opposite(d)] p == t.par[x]
      turned == [t.kid EXCEPT ![y][d] = x]
  IN  IF p = NULL THEN turned ELSE [turned EXCEPT ![p][SideOf(t, x)] = y]

\* leftRotate(x) for d = "left": x goes down to side d of y, which takes its
\* place, and the subtree between them goes over to x.
RotatedKid(t, x, d) ==
  LET y == t.kid[x][Opposite(d)] p == t.par[x]
      turned == [t.kid EXCEPT ![x][Opposite(d)] = t.kid[y][d], ![y][d] = x]
  IN  IF p = NULL THEN turned ELSE [turned EXCEPT ![p][SideOf(t, x)] = y]

RotatedPar(t, x, d) ==
  LET y == t.kid[x][Opposite(d)] inner == t.kid[y][d]
  IN  [t.par EXCEPT ![inner] = IF inner = TNULL THEN @ ELSE x, ![y] = t.par[x], ![x] = y]

Rotate(t, x, d) ==
  [t EXCEPT !.root = IF t.par[x] = NULL THEN t.kid[x][Opposite(d)] ELSE @,
            !.kid = RotatedKid(t, x, d), !.par = RotatedPar(t, x, d)]

Blacken(t, n) == [t EXCEPT !.red = @ \ {n}]
Redden(t, n) == [t EXCEPT !.red = @ \cup {n}]

\* The fix of an insertion below a parent on side d of its own parent, whose
\* sibling is black: the parent takes its parent's place.
Hoist(t, k, d) ==
  LET p == t.par[k] g == t.par[p]
  IN  Rotate(Redden(Blacken(t, p), g), g, Opposite(d))

\* Mutant: the inner child is not rotated outwards first.
FixTurnInside(t, k) ==
  LET p == t.par[k] g == t.par[p] d == SideOf(t, p) u == t.kid[g][Opposite(d)]
  IN  IF u \in t.red THEN [tree |-> Redden(Blacken(Blacken(t, u), p), g), at |-> g]
      ELSE [tree |-> Hoist(t, k, d), at |-> k]

\* One turn of the loop of insertFix: the tree, and k behind the turn.
FixTurn(t, k) ==
  LET p == t.par[k] g == t.par[p] d == SideOf(t, p) u == t.kid[g][Opposite(d)]
  IN  IF u \in t.red THEN [tree |-> Redden(Blacken(Blacken(t, u), p), g), at |-> g]
      ELSE IF k = t.kid[p][Opposite(d)]
      THEN [tree |-> Hoist(Rotate(t, p, d), p, d), at |-> p]
      ELSE [tree |-> Hoist(t, k, d), at |-> k]

\* The new node n, to be linked to y.
Alone(t, n, y) ==
  [t EXCEPT !.kid = [m \in DOMAIN t.kid \cup {n} |->
                       IF m = n THEN [left |-> TNULL, right |-> TNULL] ELSE t.kid[m]],
            !.par = [m \in DOMAIN t.par \cup {n} |-> IF m = n THEN y ELSE t.par[m]]]

\* Mutant: an equal key is linked to the left.
AttachedLeft(t, n, y) ==
  LET side == IF KeyOf(n) <= KeyOf(y) THEN "left" ELSE "right"
  IN  IF y = NULL THEN [Alone(t, n, y) EXCEPT !.root = n]
      ELSE Redden([Alone(t, n, y) EXCEPT !.kid[y][side] = n], n)

\* n below y, NULL when the tree is empty: black as the root, else red
Attached(t, n, y) ==
  LET side == IF KeyOf(n) < KeyOf(y) THEN "left" ELSE "right"
  IN  IF y = NULL THEN [Alone(t, n, y) EXCEPT !.root = n]
      ELSE Redden([Alone(t, n, y) EXCEPT !.kid[y][side] = n], n)

\* insert() has no more to do: n is the root or a child of the root.
IsSettled(t, n) == t.par[n] = NULL \/ t.par[t.par[n]] = NULL

-----------------------------------------------------------------------------
(* Deletion. *)

\* rbTransplant(u, v)
Transplant(t, u, v) ==
  LET p == t.par[u]
  IN  [t EXCEPT !.root = IF p = NULL THEN v ELSE @,
                !.kid = IF p = NULL THEN @ ELSE [@ EXCEPT ![p][SideOf(t, u)] = v],
                !.par[v] = p]

\* deallocate(z); the sentinel may be left pointing at it
Free(t, z) ==
  [t EXCEPT !.kid = Restrict(@, DOMAIN @ \ {z}),
            !.par = [n \in DOMAIN @ \ {z} |-> IF @[n] = z THEN NULL ELSE @[n]],
            !.red = @ \ {z}]

\* The test that decides whether the sibling s may be recoloured.  On the right
\* it reads the nephew next to x twice and never the far one.
NephewsBlack(t, s, d) ==
  /\ t.kid[s][d] \notin t.red
  /\ t.kid[s][IF d = "right" THEN d ELSE Opposite(d)] \notin t.red

\* The far nephew of x is red: the sibling takes the place of x's parent p.
Settle(t, p, d) ==
  LET s == t.kid[p][Opposite(d)]
  IN  Rotate([t EXCEPT !.red = ((@ \ {s, p}) \cup (IF p \in @ THEN {s} ELSE {}))
                                 \ {t.kid[s][Opposite(d)]}], p, d)

\* The rest of a turn of deleteFix for a node on side d of p whose sibling is
\* black, or was red and has been turned away: the tree, and x behind the turn.
MendAt(t, p, d) ==
  LET o == Opposite(d) s == t.kid[p][o]
      Up(u) == [tree |-> u, at |-> p]
      Done(u) == [tree |-> u, at |-> u.root]
  IN  IF s = TNULL THEN Up([t EXCEPT !.bad = TRUE])      \* s->left->color
      ELSE IF NephewsBlack(t, s, d)
      THEN Up([t EXCEPT !.red = @ \cup {s}, !.skew = @ \/ t.kid[s][o] \in t.red])
      ELSE IF t.kid[s][o] \in t.red THEN Done(Settle(t, p, d))
      ELSE Done(Settle(Rotate(Redden(Blacken(t, t.kid[s][d]), s), s, o), p, d))

\* One turn of the loop of deleteFix.
MendTurn(t, x) ==
  LET p == t.par[x] d == SideOf(t, x) s == t.kid[p][Opposite(d)]
  IN  IF s \in t.red THEN MendAt(Rotate(Redden(Blacken(t, s), p), p, d), p, d)
      ELSE MendAt(t, p, d)

ColorOf(t, n) == IF n \in t.red THEN "red" ELSE "black"

\* y, the first node after z, leaves its place to its right child; z's right
\* subtree is below it then.
Detach(t, z, y) ==
  IF t.par[y] = z THEN [t EXCEPT !.par[t.kid[y].right] = y]
  ELSE [Transplant(t, y, t.kid[y].right) EXCEPT !.kid[y].right = t.kid[z].right,
                                                !.par[t.kid[z].right] = y]

\* Mutant: y keeps its own colour.
ReplaceUnpainted(t, z, y) ==
  [Transplant(t, z, y) EXCEPT !.kid[y].left = t.kid[z].left, !.par[t.kid[z].left] = y]

\* y takes the place, the left subtree and the colour of z.
Replace(t, z, y) ==
  [Transplant(t, z, y) EXCEPT !.kid[y].left = t.kid[z].left, !.par[t.kid[z].left] = y,
                              !.red = IF z \in @ THEN @ \cup {y} ELSE @ \ {y}]

\* deleteNodeHelper() once z is out of the tree: what the tree is, what takes the
\* place that is gone and the colour of that place.
Unlinked(t, z, y) ==
  LET l == t.kid[z].left r == t.kid[z].right
  IN  IF l = TNULL THEN [tree |-> Free(Transplant(t, z, r), z), at |-> r, color |-> ColorOf(t, z)]
      ELSE IF r = TNULL
      THEN [tree |-> Free(Transplant(t, z, l), z), at |-> l, color |-> ColorOf(t, z)]
      ELSE [tree |-> Free(Replace(Detach(t, z, y), z, y), z), at |-> t.kid[y].right,
            color |-> ColorOf(t, y)]

=============================================================================
