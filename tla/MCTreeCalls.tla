---------------------------- MODULE MCTreeCalls -----------------------------
(***************************************************************************)
(* Small trees for TLC.  call holds the tree before the call under way and *)
(* what is called, for IsCall; lost says that a deletion was called.       *)
(***************************************************************************)
EXTENDS TreeCalls, RedBlackTree

CONSTANT MaxNodes       \* of a tree after an insertion that follows a deletion

VARIABLES call, lost

MCKey == 1..4
MCCopies == 1..2

NoCall == [tree |-> EmptyTree, key |-> NULL, adds |-> FALSE]
Called == IF phase' = "descend" THEN [tree |-> tree, key |-> KeyOf(node'), adds |-> TRUE]
          ELSE [tree |-> tree, key |-> key', adds |-> FALSE]

MCInit == Init /\ call = NoCall /\ lost = FALSE
MCNext == /\ Next
          /\ call' = IF phase' = "idle" THEN NoCall ELSE IF phase = "idle" THEN Called ELSE call
          /\ lost' = (lost \/ phase' = "seek")
          /\ lost' /\ phase' = "descend" => Cardinality(Allocated(tree)) < MaxNodes
MCSpec == MCInit /\ [][MCNext]_<<vars, call, lost>>

Outcome(c) == IF c.adds THEN Insert(c.tree, c.key)
              ELSE IF WithKey(c.tree, c.key) = {} THEN c.tree
              ELSE Delete(c.tree, c.key)

\* When a call returns the tree is what RedBlackTree!Insert or RedBlackTree!Delete,
\* the call in one piece that Map makes, gives for the tree before it.
IsCall ==
  [][phase # "idle" /\ phase' \in {"idle", "down"} => tree' = Outcome(call)]_vars
=============================================================================
