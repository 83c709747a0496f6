-------------------------------- MODULE Lists --------------------------------
(***************************************************************************)
(* Filtering and adding up lists, as the simulators of app/src/figures do  *)
(* with filter and reduce.                                                 *)
(***************************************************************************)
EXTENDS Integers, Sequences, SequencesExt

\* The elements of s that are in T, in their order.
Kept(s, T) == FlattenSeq([i \in DOMAIN s |-> IF s[i] \in T THEN <<s[i]>> ELSE << >>])

\* The sum of a list of numbers.
Total(s) == FoldLeft(LAMBDA a, b : a + b, 0, s)
=============================================================================
