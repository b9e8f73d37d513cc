----------------------------- MODULE TreeCalls ------------------------------
(***************************************************************************)
(* insert() and deleteNode() of src/ft_containers/redblacktree.hpp one     *)
(* step at a time: the call, every turn of each loop, and the relinking    *)
(* between two loops.  RedBlackTree has the same calls in one piece, as    *)
(* Map makes them.                                                         *)
(*                                                                         *)
(*   tree   the tree, see TreeSteps                                        *)
(*   phase  "idle" between two calls; in insert() "descend" in its loop    *)
(*          and "fix" in that of insertFix; in deleteNode() "seek" in the  *)
(*          loop of deleteNodeHelper, "least" in that of minimum and       *)
(*          "mend" in that of deleteFix; "down" when a null pointer was    *)
(*          dereferenced                                                   *)
(*   key    the key to delete                                              *)
(*   node   the node insert() allocates, or the place where "seek" is      *)
(*   z      the node to delete, TNULL while none is found                  *)
(*   y, x   the locals of these names: x is where a walk or a repair is, y *)
(*          the node before x in "descend", the leftmost so far in "least" *)
(***************************************************************************)
EXTENDS TreeSteps

VARIABLES tree, phase, key, node, z, y, x

locals == <<key, node, z, y, x>>
vars == <<tree, phase, locals>>

\* The locals of a call are gone when it returns.
NoneSought == key' = NULL /\ node' = NULL /\ z' = NULL /\ y' = NULL
Returned == phase' = "idle" /\ NoneSought /\ x' = NULL

\* n is the next of the nodes with its key.
IsNext(t, n) == /\ n \notin Allocated(t)
                /\ \A c \in 1..(n[2] - 1) : <<n[1], c>> \in Allocated(t)

-----------------------------------------------------------------------------
Init == /\ tree = EmptyTree /\ phase = "idle"
        /\ key = NULL /\ node = NULL /\ z = NULL /\ y = NULL /\ x = NULL

(* insert(). *)

\* insert(val): the node is allocated and the walk begins at the root.
CallInsert(n) == /\ phase = "idle" /\ IsNext(tree, n)
                 /\ phase' = "descend" /\ node' = n /\ x' = tree.root
                 /\ UNCHANGED <<tree, key, z, y>>

\* One turn of "while (x != TNULL)".
Descend ==
  /\ phase = "descend" /\ x # TNULL
  /\ y' = x
  /\ x' = tree.kid[x][IF Compare(KeyOf(node), KeyOf(x)) THEN "left" ELSE "right"]
  /\ UNCHANGED <<tree, phase, key, node, z>>

\* The rest of insert() up to its call of insertFix.
Attach ==
  /\ phase = "descend" /\ x = TNULL
  /\ tree' = Attached(tree, node, y)
  /\ IF IsSettled(tree', node) THEN Returned
     ELSE phase' = "fix" /\ x' = node /\ UNCHANGED <<key, node, z, y>>

\* The loop of insertFix goes on: its condition, and the break at its end.
Unfixed == x # tree.root /\ tree.par[x] \in tree.red

FixStep ==
  /\ phase = "fix" /\ Unfixed
  /\ tree' = FixTurn(tree, x).tree /\ x' = FixTurn(tree, x).at
  /\ UNCHANGED <<phase, key, node, z, y>>

\* The loop ends, and insertFix and insert() with it.
Fixed ==
  /\ phase = "fix" /\ ~Unfixed
  /\ tree' = Blacken(tree, tree.root)
  /\ Returned

-----------------------------------------------------------------------------
(* deleteNode(). *)

CallDelete(k) == /\ phase = "idle"
                 /\ phase' = "seek" /\ key' = k /\ node' = tree.root /\ z' = TNULL
                 /\ UNCHANGED <<tree, y, x>>

\* Mutant: the search for another such node goes to the left.
SeekLeft ==
  /\ phase = "seek" /\ node # TNULL
  /\ z' = IF KeyOf(node) = key THEN node ELSE z
  /\ node' = tree.kid[node][IF KeyOf(node) < key THEN "right" ELSE "left"]
  /\ UNCHANGED <<tree, phase, key, y, x>>

\* One turn of "while (node != TNULL)".
Seek ==
  /\ phase = "seek" /\ node # TNULL
  /\ z' = IF KeyOf(node) = key THEN node ELSE z
  /\ node' = tree.kid[node][IF KeyOf(node) <= key THEN "right" ELSE "left"]
  /\ UNCHANGED <<tree, phase, key, y, x>>

\* "return (0);"
NotFound == /\ phase = "seek" /\ node = TNULL /\ z = TNULL
            /\ Returned /\ UNCHANGED tree

TwoChildren == tree.kid[z].left # TNULL /\ tree.kid[z].right # TNULL

\* minimum(z->right) is called.
Search == /\ phase = "seek" /\ node = TNULL /\ z # TNULL /\ TwoChildren
          /\ phase' = "least" /\ y' = tree.kid[z].right
          /\ UNCHANGED <<tree, key, node, z, x>>

\* One turn of the loop of minimum().
Least == /\ phase = "least" /\ tree.kid[y].left # TNULL
         /\ y' = tree.kid[y].left
         /\ UNCHANGED <<tree, phase, key, node, z, x>>

\* z is taken out of the tree and freed, and deleteFix called when the place
\* that is gone was black.
Unlink ==
  /\ \/ phase = "seek" /\ node = TNULL /\ z # TNULL /\ ~TwoChildren
     \/ phase = "least" /\ tree.kid[y].left = TNULL
  /\ LET out == Unlinked(tree, z, y)
     IN  /\ tree' = out.tree
         /\ IF out.color = "red" THEN Returned
            ELSE phase' = "mend" /\ NoneSought /\ x' = out.at

\* One turn of the loop of deleteFix.
Unmended == x # tree.root /\ x \notin tree.red

MendStep ==
  /\ phase = "mend" /\ Unmended
  /\ tree' = MendTurn(tree, x).tree /\ x' = MendTurn(tree, x).at
  /\ phase' = IF tree'.bad THEN "down" ELSE "mend"
  /\ UNCHANGED <<key, node, z, y>>

\* The loop ends, and deleteFix and deleteNode() with it.
Mended ==
  /\ phase = "mend" /\ ~Unmended
  /\ tree' = Blacken(tree, x)
  /\ Returned

-----------------------------------------------------------------------------
Inserting == Descend \/ Attach \/ FixStep \/ Fixed
Deleting == Seek \/ NotFound \/ Search \/ Least \/ Unlink \/ MendStep \/ Mended
Next == \/ Inserting \/ Deleting
        \/ \E n \in Node : CallInsert(n)
        \/ \E k \in Key : CallDelete(k)

Spec == Init /\ [][Next]_vars

-----------------------------------------------------------------------------
(* What the tree looks like, whichever way it came about. *)

Side == {"left", "right"}

\* The order of an in-order walk: by key, equal keys as they were inserted.
Before(m, n) == KeyOf(m) < KeyOf(n) \/ (KeyOf(m) = KeyOf(n) /\ m[2] < n[2])
On(d, m, n) == IF d = "left" THEN Before(m, n) ELSE Before(n, m)

\* The nodes in the subtree of n, and n with its ancestors: what every set with
\* n that is closed downwards, or upwards, holds.
ClosedDown(t, S) ==
  \A m \in S, d \in Side : t.kid[m][d] \in Allocated(t) => t.kid[m][d] \in S
ClosedUp(t, S) == \A m \in S : t.par[m] \in Allocated(t) => t.par[m] \in S
Below(t, n) ==
  LET closed == {S \in SUBSET Allocated(t) : n \in S /\ ClosedDown(t, S)}
  IN  {m \in Allocated(t) : \A S \in closed : m \in S}
Above(t, n) ==
  LET closed == {S \in SUBSET Allocated(t) : n \in S /\ ClosedUp(t, S)}
  IN  {m \in Allocated(t) : \A S \in closed : m \in S}

IsTree(t) ==
  /\ DOMAIN t = {"root", "kid", "par", "red", "skew", "bad"}
  /\ Allocated(t) \subseteq Node
  /\ t.root \in Allocated(t) \cup {TNULL}
  /\ t.kid \in [Allocated(t) -> [Side -> Allocated(t) \cup {TNULL}]]
  /\ t.par \in [Allocated(t) \cup {TNULL} -> Allocated(t) \cup {NULL}]
  /\ t.red \subseteq Allocated(t)
  /\ t.skew \in BOOLEAN /\ t.bad \in BOOLEAN

Place == Allocated(tree) \cup {TNULL}

TypeOK ==
  /\ IsTree(tree)
  /\ CASE phase = "idle" -> key = NULL /\ node = NULL /\ z = NULL /\ y = NULL /\ x = NULL
       [] phase = "descend" -> /\ key = NULL /\ node \in Node /\ z = NULL
                               /\ y \in Allocated(tree) \cup {NULL} /\ x \in Place
       [] phase = "fix" -> /\ key = NULL /\ node \in Node /\ z = NULL
                           /\ y \in Allocated(tree) /\ x \in Allocated(tree)
       [] phase = "seek" -> /\ key \in Key /\ node \in Place /\ z \in Place
                            /\ y = NULL /\ x = NULL
       [] phase = "least" -> /\ key \in Key /\ node = TNULL
                             /\ {z, y} \subseteq Allocated(tree) /\ x = NULL
       [] phase \in {"mend", "down"} -> /\ key = NULL /\ node = NULL /\ z = NULL /\ y = NULL
                                        /\ x \in Place
       [] OTHER -> FALSE
  /\ tree.bad <=> phase = "down"

\* Every node but the root is a child of its parent, and every child's parent
\* is the node it is a child of, between any two turns of the rotating loops.
Linked ==
  /\ tree.root \in Allocated(tree) => tree.par[tree.root] = NULL
  /\ \A n \in Allocated(tree) \ {tree.root} :
       tree.par[n] \in Allocated(tree) /\ \E d \in Side : tree.kid[tree.par[n]][d] = n
  /\ \A n \in Allocated(tree), d \in Side :
       tree.kid[n][d] \in Allocated(tree) => tree.par[tree.kid[n][d]] = n

\* No node is lost: whatever is done to the links, all nodes stay in the root's
\* subtree.
Whole == Allocated(tree) \subseteq Below(tree, tree.root)

\* Everything left of a node comes before it and everything right of it after
\* it, equal keys in the order of their insertion, at any depth and in the middle of
\* a repair too: what find() and the iterators rely on.
Sorted ==
  \A n \in Allocated(tree), d \in Side :
    tree.kid[n][d] # TNULL => \A m \in Below(tree, tree.kid[n][d]) : On(d, m, n)

\* redblacktree.hpp:91-300, 442-555: after any insertions and deletions, and at any
\* place inside one, the tree is a search tree, whatever line 141 does to it.
Ordered == TypeOK /\ Linked /\ Whole /\ Sorted

\* A red node has a black parent and the root is black, except that insertFix or
\* deleteFix still has the node it is at to mend: one place, never two.
OneRedPair ==
  \A n \in tree.red :
    n = tree.root \/ tree.par[n] \in tree.red =>
      \/ phase = "fix" /\ n = x
      \/ phase = "mend" /\ x \in {n, tree.par[n]}

\* As many black nodes on the way to one leaf as to any other, whatever the
\* loop of insertFix is at: it moves the red pair, never the balance.
Balanced ==
  LET ends == {n \in Allocated(tree) : TNULL \in {tree.kid[n][d] : d \in Side}}
  IN  \A i, j \in {Cardinality(Above(tree, n) \ tree.red) : n \in ends} : i = j

\* redblacktree.hpp:91-300: until a deletion recolours a sibling whose far child is
\* red (line 141) the tree is a red-black tree but for the node a repair is at, and
\* no null pointer is dereferenced; the root is black between two calls even then.
RedBlack ==
  /\ ~tree.skew => OneRedPair /\ (phase # "mend" => Balanced) /\ phase # "down"
  /\ tree.root \in tree.red => phase \in {"fix", "mend"} /\ x = tree.root

\* redblacktree.hpp:92-165, 247-298: a turn after which insertFix or deleteFix still
\* has work went up: the node it is at then had the one before in its subtree,
\* and the shape of the tree is as it was.  So the loops end.
ClimbsOrEnds ==
  [][/\ FixStep /\ Unfixed' => x' # x /\ x \in Below(tree, x') /\ tree'.kid = tree.kid
     /\ MendStep /\ phase' = "mend" /\ Unmended' =>
          x' = tree.par[x] /\ tree'.kid = tree.kid]_vars

WithKey(t, k) == {n \in Allocated(t) : KeyOf(n) = k}

\* redblacktree.hpp:184-241, 493-545: insert() adds one node, behind those with its
\* key, and deleteNode() removes one, the last with the key, or none when there is
\* none; no repair does either.
OneElement ==
  [][\/ Allocated(tree') = Allocated(tree)
     \/ /\ phase = "descend" /\ Allocated(tree') = Allocated(tree) \cup {node}
        /\ \A m \in WithKey(tree, KeyOf(node)) : Before(m, node)
     \/ /\ phase \in {"seek", "least"} /\ z \in WithKey(tree, key)
        /\ Allocated(tree') = Allocated(tree) \ {z}
        /\ \A m \in WithKey(tree, key) \ {z} : Before(m, z)]_vars

=============================================================================
