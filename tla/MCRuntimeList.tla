---------------------------- MODULE MCRuntimeList ----------------------------
(***************************************************************************)
(* RuntimeList for TLC: two list variables, and indices on both sides of   *)
(* every list.  The capacity grows from 2 instead of 8, so that four       *)
(* elements pass through every case of the two growth rules.  The element  *)
(* values only differ by name.                                             *)
(***************************************************************************)
EXTENDS RuntimeList

MCIndices == {0, 1, 2, MaxLen + 1}

MCSymmetry == Permutations(Values)
=============================================================================
