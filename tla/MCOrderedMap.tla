---------------------------- MODULE MCOrderedMap ----------------------------
(* The map keyed by tokens of which no two types share a name.             *)
EXTENDS OrderedMap, AliasToken

Zahl == 26
Punkt == 16

MCKey ==
  {Word(DER), Literal(INT, 1), Literal(INT, 2), Param(FALSE, FALSE, Zahl, 0),
   Param(TRUE, FALSE, Zahl, 0), Param(FALSE, TRUE, Punkt, 1)}

\* three struct types of one name from three modules (README, Findings)
MCSameName == {Param(FALSE, FALSE, Punkt, m) : m \in 1 .. 3}
=============================================================================
