----------------------------- MODULE Overloads -----------------------------
(***************************************************************************)
(* Operator overloads: the sorted slice a declaration is inserted into     *)
(* (insertOperatorOverload in src/parser/parser.go) and the choice among   *)
(* its entries (findOverload, findOverloadCast in the typechecker).  An    *)
(* overload has parameters [typ, ref] and a return type; an operand is     *)
(* [t, asg]: its type and whether isAssignable holds of the expression.    *)
(***************************************************************************)
EXTENDS DDPTypes

CONSTANT OverloadDecls   \* [op, params, ret]: overloads a program may declare

UnaryOps == {"UN_ABS", "UN_NEGATE", "UN_NOT", "UN_LOGIC_NOT", "UN_LEN"}

BinaryOps ==
  {"BIN_AND", "BIN_OR", "BIN_XOR", "BIN_CONCAT", "BIN_PLUS", "BIN_MINUS", "BIN_MULT",
   "BIN_DIV", "BIN_INDEX", "BIN_SLICE_FROM", "BIN_SLICE_TO", "BIN_POW", "BIN_LOG",
   "BIN_LOGIC_AND", "BIN_LOGIC_OR", "BIN_LOGIC_XOR", "BIN_MOD", "BIN_LEFT_SHIFT",
   "BIN_RIGHT_SHIFT", "BIN_EQUAL", "BIN_UNEQUAL", "BIN_LESS", "BIN_LESS_EQ",
   "BIN_GREATER", "BIN_GREATER_EQ"}

TernaryOps == {"TER_SLICE", "TER_BETWEEN", "TER_FALLS"}

Ops == UnaryOps \cup BinaryOps \cup TernaryOps \cup {"CAST_OP"}

Arity(op) == IF op \in BinaryOps THEN 2 ELSE IF op \in TernaryOps THEN 3 ELSE 1

\* an overload has as many parameters as the operator has operands
ASSUME DeclsAssumption == \A d \in OverloadDecls : d.op \in Ops /\ Len(d.params) = Arity(d.op)

\* how many of the parameters are marked
countArgs(marked) ==
  LET n[k \in 0..Len(marked)] == IF k = 0 THEN 0 ELSE n[k - 1] + IF marked[k] THEN 1 ELSE 0
  IN n[Len(marked)]

Refs(d) == countArgs([i \in 1..Len(d.params) |-> d.params[i].ref])

Gens(d) == countArgs([i \in 1..Len(d.params) |-> CastDeeplyNestedGenerics(d.params[i].typ)])

IsGenericDecl(d) == Gens(d) > 0

\* the comparison of the slice: fewer generics first, then more references
Compare(a, t) == IF Gens(a) # Gens(t) THEN Gens(a) - Gens(t) ELSE Refs(t) - Refs(a)

operatorParameterTypesEqual(p1, p2) ==
  /\ Len(p1) = Len(p2)
  /\ \A i \in DOMAIN p1 :
       LET g1 == CastDeeplyNestedGenerics(p1[i].typ)
           g2 == CastDeeplyNestedGenerics(p2[i].typ)
       IN /\ p1[i].ref = p2[i].ref
          /\ IF g1 \/ g2 THEN g1 /\ g2 ELSE Equal(p1[i].typ, p2[i].typ)

operatorReturnTypeEqual(r1, r2) ==
  IF CastDeeplyNestedGenerics(r1) \/ CastDeeplyNestedGenerics(r2)
    THEN CastDeeplyNestedGenerics(r1) /\ CastDeeplyNestedGenerics(r2)
    ELSE Equal(r1, r2)

AlreadyOverloaded(op, overloads, d) ==
  \E i \in DOMAIN overloads :
    /\ operatorParameterTypesEqual(overloads[i].params, d.params)
    /\ op = "CAST_OP" => operatorReturnTypeEqual(overloads[i].ret, d.ret)

\* halves the window [lo, hi) of 0-based indices, as slices.BinarySearchFunc
BinarySearchFunc(overloads, d) ==
  LET at[w \in (0..Len(overloads)) \X (0..Len(overloads))] ==
        LET h == (w[1] + w[2]) \div 2
        IN IF w[1] >= w[2] THEN w[1]
           ELSE IF Compare(overloads[h + 1], d) < 0 THEN at[<<h + 1, w[2]>>]
           ELSE at[<<w[1], h>>]
  IN at[<<0, Len(overloads)>>]

InsertLast(overloads, d) == Append(overloads, d)

Insert(overloads, d) ==
  LET i == BinarySearchFunc(overloads, d)
  IN SubSeq(overloads, 1, i) \o <<d>> \o SubSeq(overloads, i + 1, Len(overloads))

insertOperatorOverload(op, overloads, d) ==
  IF AlreadyOverloaded(op, overloads, d) THEN overloads ELSE Insert(overloads, d)

(***************************************************************************)
(* The parameter types of overload d for these operands, unified from left *)
(* to right, and the type the type parameter is bound to in the end.       *)
(***************************************************************************)
Unified(d, operands) ==
  LET upTo[i \in 0..Len(operands)] ==
        IF i = 0 THEN [typs |-> << >>, bound |-> Void]
        ELSE LET u == UnifyGenericType(operands[i].t, d.params[i].typ, upTo[i - 1].bound)
             IN [typs |-> Append(upTo[i - 1].typs, u.typ), bound |-> u.bound]
  IN IF IsGenericDecl(d) THEN upTo[Len(operands)]
     ELSE [typs |-> [i \in DOMAIN operands |-> d.params[i].typ], bound |-> Void]

ParamsMatch(d, operands, typs) ==
  \A i \in DOMAIN operands : /\ Equal(typs[i], operands[i].t)
                             /\ d.params[i].ref => operands[i].asg

\* the return type; of a generic overload, the one of its instantiation
ReturnType(d, bound) == IF IsGeneric(d.ret) THEN bound ELSE d.ret

Matches(d, operands, target) ==
  LET u == Unified(d, operands)
  IN /\ ParamsMatch(d, operands, u.typs)
     /\ target # Void => Equal(ReturnType(d, u.bound), target)

containsUserDefinedType(operands) ==
  \E i \in DOMAIN operands : IsStruct(GetNestedListElementType[operands[i].t])

(***************************************************************************)
(* The overloads are tried in order.  A generic one ends the search when   *)
(* no operand is a Kombination, and also when its instantiation has errors *)
(* (instantiable is FALSE).  target is Void except for casts.  0: none.    *)
(***************************************************************************)
findOverload(overloads, operands, target, instantiable) ==
  LET stops == {i \in DOMAIN overloads :
                  \/ IsGenericDecl(overloads[i]) /\ ~ containsUserDefinedType(operands)
                  \/ Matches(overloads[i], operands, target)}
      first == CHOOSE i \in stops : \A j \in stops : i <= j
  IN IF stops = {} \/ (IsGenericDecl(overloads[first])
                       /\ ~ (containsUserDefinedType(operands) /\ instantiable))
       THEN 0 ELSE first
=============================================================================
