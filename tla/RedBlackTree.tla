---------------------------- MODULE RedBlackTree ----------------------------
(***************************************************************************)
(* The functions of src/ft_containers/redblacktree.hpp that repeat the     *)
(* steps of TreeSteps down, up or along the tree, and the steps of the     *)
(* iterator that walks it, mapIterator.hpp.                                *)
(***************************************************************************)
EXTENDS TreeSteps, SequencesExt

-----------------------------------------------------------------------------
(* Walks from the root. *)

RECURSIVE SearchTreeHelper(_, _, _), InsertPoint(_, _, _, _), Doomed(_, _, _, _),
          Outermost(_, _, _)

SearchTreeHelper(t, n, k) ==
  IF n = TNULL \/ KeyOf(n) = k THEN n
  ELSE SearchTreeHelper(t, t.kid[n][IF Compare(k, KeyOf(n)) THEN "left" ELSE "right"], k)

SearchTree(t, k) == SearchTreeHelper(t, t.root, k)

\* The node insert() links the new one to, NULL when the tree is empty.
InsertPoint(t, n, y, k) ==
  IF n = TNULL THEN y
  ELSE InsertPoint(t, t.kid[n][IF Compare(k, KeyOf(n)) THEN "left" ELSE "right"], n, k)

\* Mutant: equal keys are searched to the left.
DoomedLeft(t, n, z, k) ==
  IF n = TNULL THEN z
  ELSE Doomed(t, t.kid[n][IF KeyOf(n) < k THEN "right" ELSE "left"],
              IF KeyOf(n) = k THEN n ELSE z, k)

\* The node deleteNodeHelper() picks: the last one with the key on its way down.
Doomed(t, n, z, k) ==
  IF n = TNULL THEN z
  ELSE Doomed(t, t.kid[n][IF KeyOf(n) <= k THEN "right" ELSE "left"],
              IF KeyOf(n) = k THEN n ELSE z, k)

\* minimum() for d = "left", maximum() for d = "right".
Outermost(t, n, d) ==
  IF t.kid[n][d] = TNULL THEN n ELSE Outermost(t, t.kid[n][d], d)

Begin(t) == IF t.root = TNULL THEN TNULL ELSE Outermost(t, t.root, "left")

\* end() points the sentinel at the last node; the position it returns is TNULL.
End(t) == IF t.root = TNULL THEN t
          ELSE [t EXCEPT !.par[TNULL] = Outermost(t, t.root, "right")]

-----------------------------------------------------------------------------
(* Rotation, insertion, deletion. *)

RECURSIVE InsertFix(_, _)

\* Mutant: one turn of the loop and no more.
InsertFixOnce(t, k) ==
  IF k = t.root \/ t.par[k] \notin t.red THEN t ELSE FixTurn(t, k).tree

InsertFix(t, k) ==
  IF k = t.root \/ t.par[k] \notin t.red THEN t
  ELSE LET turn == FixTurn(t, k) IN InsertFix(turn.tree, turn.at)

\* insert() once the new node n and its parent y are known
Link(t, n, y) ==
  LET attached == Attached(t, n, y) fixed == InsertFix(attached, n)
  IN  IF IsSettled(attached, n) THEN attached ELSE Blacken(fixed, fixed.root)

NextCopy(t, k) == CHOOSE c \in Copies : /\ <<k, c>> \notin Allocated(t)
                                        /\ \A b \in 1..(c - 1) : <<k, b>> \in Allocated(t)

Insert(t, k) == Link(t, <<k, NextCopy(t, k)>>, InsertPoint(t, t.root, NULL, k))

RECURSIVE DeleteFix(_, _)

DeleteFix(t, x) ==
  IF x = t.root \/ x \in t.red THEN Blacken(t, x)
  ELSE LET turn == MendTurn(t, x)
       IN  IF turn.tree.bad THEN turn.tree ELSE DeleteFix(turn.tree, turn.at)

DeleteNode(t, z) ==
  LET r == t.kid[z].right
      out == Unlinked(t, z, IF r = TNULL THEN z ELSE Outermost(t, r, "left"))
  IN  IF out.color = "red" THEN out.tree ELSE DeleteFix(out.tree, out.at)

\* deleteNode(k) when a node has the key
Delete(t, k) == DeleteNode(t, Doomed(t, t.root, TNULL, k))

\* n times deleteNode(begin()->first), as the destructor, operator= and clear do
RECURSIVE DeleteFirst(_, _)
DeleteFirst(t, n) ==
  IF n = 0 \/ t.bad THEN t
  ELSE IF t.root = TNULL THEN [t EXCEPT !.bad = TRUE]      \* TNULL has no data
  ELSE DeleteFirst(Delete(t, KeyOf(Begin(t))), n - 1)

-----------------------------------------------------------------------------
(* mapIterator: a step gives the position reached and the tree, since      *)
(* stepping past either end re-points the sentinel.                        *)

RECURSIVE Climb(_, _, _), OffLeft(_, _)

\* The first ancestor reached from side Opposite(d), NULL above the root.
Climb(t, n, d) ==
  IF t.par[n] = NULL THEN NULL
  ELSE IF n = t.kid[t.par[n]][d] THEN Climb(t, t.par[n], d) ELSE t.par[n]

\* "while (temp->left->data != nullptr) temp = temp->right;": NULL when temp
\* falls off the tree.
OffLeft(t, n) ==
  IF n = TNULL THEN NULL ELSE IF t.kid[n].left = TNULL THEN n ELSE OffLeft(t, t.kid[n].right)

Increment(t, p) ==
  IF t.kid[p].right # TNULL THEN [at |-> Outermost(t, t.kid[p].right, "left"), tree |-> t]
  ELSE LET up == Climb(t, p, "right")
       IN  IF up # NULL THEN [at |-> up, tree |-> t] ELSE [at |-> TNULL, tree |-> End(t)]

Decrement(t, p) ==
  LET Gone == [at |-> NULL, tree |-> [t EXCEPT !.bad = TRUE]]
  IN  IF p = TNULL
      THEN IF t.par[TNULL] = NULL THEN Gone ELSE [at |-> t.par[TNULL], tree |-> t]
      ELSE IF t.kid[p].left # TNULL
      THEN [at |-> Outermost(t, t.kid[p].left, "right"), tree |-> t]
      ELSE LET up == Climb(t, p, "left")
               off == OffLeft(t, t.root)
           IN  IF up # NULL THEN [at |-> up, tree |-> t]
               ELSE IF p = t.root \/ off = NULL THEN Gone
               ELSE [at |-> TNULL, tree |-> [t EXCEPT !.par[TNULL] = off]]

=============================================================================
