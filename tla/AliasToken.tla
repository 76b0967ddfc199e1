----------------------------- MODULE AliasToken -----------------------------
(***************************************************************************)
(* tokenEqual and tokenLess of src/src/parser/util.go, the comparison      *)
(* functions of the alias trie.  A token is a record: its type, its        *)
(* literal (an integer that stands for the string's place in the           *)
(* alphabet), and for an ALIAS_PARAMETER its AliasInfo, that is whether it *)
(* is a reference, whether its underlying type is a list, and the element  *)
(* type.  A DDP type is its name and its identity: two struct types of     *)
(* different modules may have one name and are still different types.      *)
(***************************************************************************)
EXTENDS Integers

(* Token types of token_types.go, in its order. *)
IDENTIFIER == 2
ALIAS_PARAMETER == 3
SYMBOL == 5
INT == 6
FLOAT == 7
STRING_ == 8
CHAR == 9
DER == 48

HasLiteral == {IDENTIFIER, SYMBOL, INT, FLOAT, CHAR, STRING_}

boolToInt(b) == IF b THEN 1 ELSE 0

(* ddptypes.Equal compares the type values, that is pointers for structs.  *)
ParamTypesEqual(p1, p2) ==
  /\ p1.ref = p2.ref
  /\ p1.list = p2.list
  /\ p1.name = p2.name
  /\ p1.module = p2.module

tokenEqual(t1, t2) ==
  /\ t1.type = t2.type
  /\ t1.type = ALIAS_PARAMETER => ParamTypesEqual(t1.info, t2.info)
  /\ t1.type \in HasLiteral => t1.lit = t2.lit

AliasInfoLess(p1, p2) ==
  IF p1.ref # p2.ref THEN boolToInt(p1.ref) < boolToInt(p2.ref)
  ELSE IF p1.list # p2.list THEN boolToInt(p1.list) < boolToInt(p2.list)
  ELSE p1.name < p2.name

tokenLess(t1, t2) ==
  \/ t1.type < t2.type
  \/ /\ t1.type = t2.type
     /\ t1.type = ALIAS_PARAMETER
     /\ AliasInfoLess(t1.info, t2.info)
  \/ /\ t1.type = t2.type
     /\ t1.type \in HasLiteral
     /\ t1.lit < t2.lit

NoInfo == [ref |-> FALSE, list |-> FALSE, name |-> 0, module |-> 0]

Word(type) == [type |-> type, lit |-> 0, info |-> NoInfo]

Literal(type, lit) == [type |-> type, lit |-> lit, info |-> NoInfo]

Param(ref, list, name, module) ==
  [type |-> ALIAS_PARAMETER, lit |-> 0,
   info |-> [ref |-> ref, list |-> list, name |-> name, module |-> module]]
=============================================================================
