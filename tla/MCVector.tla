------------------------------- MODULE MCVector -------------------------------
(***************************************************************************)
(* Two vectors of two values, with six cells between them.                 *)
(***************************************************************************)
EXTENDS Vector

MCRanges == {<<>>, <<1, 2>>}

\* No step reads what the last call was, returned or did: two states that
\* differ only there have the same successors, and the properties speak of a
\* step's call, position and effects, which TLC computes for each step.
View == <<vec, lost>>
===============================================================================
