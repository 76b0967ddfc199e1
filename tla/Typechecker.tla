---------------------------- MODULE Typechecker ----------------------------
(***************************************************************************)
(* The typing rules of src/parser/typechecker: for an operator and the     *)
(* types of its operands, whether the expression is accepted and the type  *)
(* it gets (latestReturnedType).                                           *)
(***************************************************************************)
EXTENDS DDPTypes

CONSTANT FieldTypes   \* the fields of each Kombination: name -> field -> type

Typed(accepted, t) == [ok |-> accepted, typ |-> t]

isOneOf(t, types) == \E v \in types : Equal(t, v)

Integral(t) == isOneOf(t, {ZAHL, BYTE})

IndexableOrVariable(t) == IsList(t) \/ Equal(t, TEXT) \/ IsAny(t)

Indexable(t) == IsList(t) \/ Equal(t, TEXT)

TC_VisitUnaryExpr(op, rhs) ==
  CASE op \in {"UN_ABS", "UN_NEGATE"} ->
         Typed(IsNumeric(rhs), IF Equal(rhs, BYTE) THEN ZAHL ELSE rhs)
    [] op = "UN_NOT"       -> Typed(isOneOf(rhs, {WAHRHEITSWERT}), WAHRHEITSWERT)
    [] op = "UN_LOGIC_NOT" -> Typed(Integral(rhs), rhs)
    [] op = "UN_LEN"       -> Typed(Indexable(rhs), ZAHL)

TypeOfConcat(lhs, rhs) ==
  IF ~ IsList(lhs) /\ ~ IsList(rhs) /\ (Equal(lhs, TEXT) \/ Equal(rhs, TEXT))
    THEN Typed(\A t \in {lhs, rhs} : isOneOf(t, {TEXT, BUCHSTABE}), TEXT)
    ELSE Typed(Equal(GetListElementType(lhs), GetListElementType(rhs)),
               ListOf(GetListElementType(lhs)))

TypeOfArithmetic(lhs, rhs) ==
  Typed(IsNumeric(lhs) /\ IsNumeric(rhs),
        CASE Equal(lhs, ZAHL) /\ Equal(rhs, ZAHL)           -> ZAHL
          [] Equal(lhs, BYTE) /\ Equal(rhs, BYTE)           -> BYTE
          [] Equal(lhs, KOMMAZAHL) \/ Equal(rhs, KOMMAZAHL) -> KOMMAZAHL
          [] OTHER                                          -> BYTE)

TypeOfIntegral(lhs, rhs) ==
  Typed(Integral(lhs) /\ Integral(rhs), IF isOneOf(ZAHL, {lhs, rhs}) THEN ZAHL ELSE BYTE)

TC_VisitBinaryExpr(op, lhs, rhs) ==
  CASE op = "BIN_CONCAT" -> TypeOfConcat(lhs, rhs)
    [] op \in {"BIN_PLUS", "BIN_MINUS", "BIN_MULT"} -> TypeOfArithmetic(lhs, rhs)
    [] op = "BIN_INDEX" ->
         Typed(Indexable(lhs) /\ Integral(rhs),
               IF IsList(lhs) THEN GetListElementType(lhs) ELSE BUCHSTABE)
    [] op \in {"BIN_SLICE_FROM", "BIN_SLICE_TO"} ->
         Typed(Indexable(lhs) /\ Integral(rhs), IF IsList(lhs) THEN lhs ELSE TEXT)
    [] op \in {"BIN_DIV", "BIN_POW", "BIN_LOG"} ->
         Typed(IsNumeric(lhs) /\ IsNumeric(rhs), KOMMAZAHL)
    [] op \in {"BIN_MOD", "BIN_LOGIC_AND", "BIN_LOGIC_OR", "BIN_LOGIC_XOR"} ->
         TypeOfIntegral(lhs, rhs)
    [] op \in {"BIN_AND", "BIN_OR", "BIN_XOR"} ->
         Typed(\A t \in {lhs, rhs} : isOneOf(t, {WAHRHEITSWERT}), WAHRHEITSWERT)
    [] op \in {"BIN_LEFT_SHIFT", "BIN_RIGHT_SHIFT"} ->
         Typed(Integral(lhs) /\ Integral(rhs), lhs)
    [] op \in {"BIN_EQUAL", "BIN_UNEQUAL"} -> Typed(Equal(lhs, rhs), WAHRHEITSWERT)
    [] op \in {"BIN_GREATER", "BIN_LESS", "BIN_GREATER_EQ", "BIN_LESS_EQ"} ->
         Typed(IsNumeric(lhs) /\ IsNumeric(rhs), WAHRHEITSWERT)

TC_VisitTernaryExpr(op, lhs, mid, rhs) ==
  CASE op = "TER_SLICE" ->
         Typed(Indexable(lhs) /\ Integral(mid) /\ Integral(rhs),
               IF IsList(lhs) THEN lhs ELSE TEXT)
    [] op = "TER_BETWEEN" ->
         Typed(\A t \in {lhs, mid, rhs} : IsNumeric(t), WAHRHEITSWERT)
    [] op = "TER_FALLS" ->
         Typed(Equal(lhs, rhs) /\ isOneOf(mid, {WAHRHEITSWERT}), lhs)

PrimitiveCastFrom(target) ==
  CASE target \in {ZAHL, TEXT}  ->
         {ZAHL, KOMMAZAHL, BYTE, WAHRHEITSWERT, BUCHSTABE, TEXT}
    [] target = KOMMAZAHL       -> {TEXT, ZAHL, KOMMAZAHL, BYTE}
    [] target = BYTE            -> {ZAHL, KOMMAZAHL, BYTE}
    [] target = WAHRHEITSWERT   -> {ZAHL, WAHRHEITSWERT, BYTE}
    [] target = BUCHSTABE       -> {ZAHL, BUCHSTABE, BYTE}

TC_VisitCastExpr(lhs, target) ==
  Typed(\/ IsAny(lhs) \/ (IsAny(target) /\ ~ IsVoid(lhs))
        \/ /\ IsTypeDef(target) /\ IsTypeDef(lhs)
           /\ Equal(DefinedAs(lhs), target) \/ Equal(DefinedAs(target), lhs)
        \/ IsTypeDef(target) /\ ~ IsTypeDef(lhs) /\ Equal(lhs, DefinedAs(target))
        \/ ~ IsTypeDef(target) /\ IsTypeDef(lhs) /\ Equal(target, DefinedAs(lhs))
        \/ /\ ~ IsTypeDef(target) /\ ~ IsTypeDef(lhs)
           /\ \/ IsList(target) /\ isOneOf(lhs, {GetListElementType(target)})
              \/ IsPrimitive(target) /\ isOneOf(lhs, PrimitiveCastFrom(GetUnderlying(target))),
        target)

TC_VisitTypeCheck(lhs, check) ==
  Typed(Equal(lhs, VARIABLE_) /\ ~ Equal(check, VARIABLE_), WAHRHEITSWERT)

TC_VisitTypeOpExpr(op, t) == Typed(TRUE, IF op = "TYPE_SIZE" THEN ZAHL ELSE t)

\* values has the types of the elements, or of the one value that is repeated
TC_VisitListLit(values) ==
  Typed(\A i \in DOMAIN values : Equal(values[1], values[i]), ListOf(values[1]))

checkFieldAccess(field, t) ==
  LET fields == FieldTypes[Head(GetUnderlying(t))]
  IN IF IsStruct(t) /\ field \in DOMAIN fields
       THEN Typed(TRUE, fields[field]) ELSE Typed(FALSE, Void)

\* a variable declaration and an assignment; the result is the variable's type
TC_VisitStructLiteral(field, arg) == Typed(Equal(arg, field), field)

TC_VisitVarDecl(t, init) ==
  Typed(\/ IsGeneric(t) \/ Equal(init, t) \/ (Equal(t, VARIABLE_) /\ ~ Equal(init, Void))
        \/ IsNumeric(t) /\ IsNumeric(init), t)

TC_VisitAssignStmt(target, rhs) ==
  Typed(\/ Equal(target, rhs) \/ (Equal(target, VARIABLE_) /\ ~ Equal(rhs, Void))
        \/ IsNumeric(target) /\ IsNumeric(rhs), target)

TC_VisitReturnStmt(returnType, value) ==
  Typed(Equal(returnType, value) \/ (Equal(returnType, VARIABLE_) /\ ~ Equal(value, Void)),
        returnType)

TC_VisitRepeat(count) == Typed(Integral(count), Void)

TC_VisitForStmt(iter, to, step) == Typed(\A t \in {iter, to, step} : IsNumeric(t), Void)

TC_VisitForRangeStmt(element, in) ==
  Typed(IF IsList(in) THEN Equal(element, GetListElementType(in))
                      ELSE Equal(in, TEXT) /\ Equal(element, BUCHSTABE), Void)
=============================================================================
