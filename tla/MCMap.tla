------------------------------- MODULE MCMap -------------------------------
(***************************************************************************)
(* Two maps over five keys, five elements between them: five is the fewest *)
(* with which a deletion goes down.  Ranges are empty, hold two keys out   *)
(* of order, or a key twice.                                               *)
(***************************************************************************)
EXTENDS Map

MCKey == 1..5
MCCopies == 1..2
MCRanges == {<<>>, <<4, 2>>, <<3, 1, 3>>}

\* No step reads what the last call was: two states that differ only there have
\* the same successors, and Implements speaks of a step's call, which TLC
\* computes for each step.
View == <<tree, size, it, down, hollow>>
=============================================================================
