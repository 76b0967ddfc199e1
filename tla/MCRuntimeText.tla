---------------------------- MODULE MCRuntimeText ----------------------------
(***************************************************************************)
(* RuntimeText for TLC: three structs, characters of one, two and three    *)
(* bytes, and indices on both sides of every text.                         *)
(***************************************************************************)
EXTENDS RuntimeText

MCChars == {97, 228, 8364}

MCIndices == 0 .. MaxLen + 1

MCGarbage == Uninit
=============================================================================
