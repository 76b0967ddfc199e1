----------------------------- MODULE IrTyping -----------------------------
(***************************************************************************)
(* What the code generator (src/compiler) makes of the types: for an       *)
(* operator and the IR types of its operands, the IR type it records       *)
(* (latestReturnType), the type the emitted value really has, whether the  *)
(* operands of every emitted instruction agree, and how numbers are        *)
(* converted.  IR types are written like the DDP types they stand for.     *)
(***************************************************************************)
EXTENDS DDPTypes

\* nested lists have no IR type: the type assertion in toIrType panics
NoIrType == <<"panic">>

toIrType(t) ==
  LET u == TrueUnderlying[t]
      e == TrueUnderlying[Tail(u)]
  IN IF Head(u) # "Liste" THEN u ELSE IF Head(e) = "Liste" THEN NoIrType ELSE ListOf(e)

IsIrList(ir) == Head(ir) = "Liste"

(***************************************************************************)
(* Outcomes.  err: c.err or a panic ends the compilation.  typ, rep: the   *)
(* recorded type and the type of the value.  wf: instructions get operands *)
(* of one type.  conv: <<from, to, instruction>>, how numbers are read.    *)
(***************************************************************************)
Outcome(typ, rep, wf, conv) ==
  [err |-> FALSE, typ |-> typ, rep |-> rep, wf |-> wf, conv |-> conv]

Value(typ) == Outcome(typ, typ, TRUE, {})

Converted(typ, conv) == Outcome(typ, typ, TRUE, conv)

Failed == [err |-> TRUE, typ |-> Void, rep |-> Void, wf |-> TRUE, conv |-> {}]

floatOrByteAsInt(from) ==
  CASE from = ZAHL      -> {}
    [] from = KOMMAZAHL -> {<<from, ZAHL, "FPToSI">>}
    [] from = BYTE      -> {<<from, ZAHL, "ZExt">>}

intOrByteAsFloatSigned(from) ==
  IF from = KOMMAZAHL THEN {} ELSE {<<from, KOMMAZAHL, "SIToFP">>}

intOrByteAsFloat(from) ==
  CASE from = ZAHL      -> {<<from, KOMMAZAHL, "SIToFP">>}
    [] from = KOMMAZAHL -> {}
    [] from = BYTE      -> {<<from, KOMMAZAHL, "UIToFP">>}

intOrFloatAsByte(from) ==
  CASE from = ZAHL      -> {<<from, BYTE, "Trunc">>}
    [] from = KOMMAZAHL -> {<<from, BYTE, "FPToUI">>}
    [] from = BYTE      -> {}

numericCast(from, to) ==
  CASE to = ZAHL      -> floatOrByteAsInt(from)
    [] to = KOMMAZAHL -> intOrByteAsFloat(from)
    [] to = BYTE      -> intOrFloatAsByte(from)

Numeric == {ZAHL, KOMMAZAHL, BYTE}

\* the case for a byte repeats the one for an integer and is never taken
VisitNegate(typ) == IF typ \in {KOMMAZAHL, ZAHL} THEN Value(typ) ELSE Failed

VisitAbs(typ) == IF typ \in Numeric THEN Value(typ) ELSE Failed

CG_VisitUnaryExpr(op, typ) ==
  CASE op = "UN_ABS"       -> VisitAbs(typ)
    [] op = "UN_NEGATE"    -> VisitNegate(typ)
    [] op = "UN_NOT"       -> Outcome(WAHRHEITSWERT, typ, TRUE, {})
    [] op = "UN_LOGIC_NOT" -> Value(typ)
    [] op = "UN_LEN"       -> IF typ = TEXT \/ IsIrList(typ) THEN Value(ZAHL) ELSE Failed

\* the second operand has the type the chosen concatenation function takes
VisitConcat(l, r) ==
  CASE IsIrList(l) -> Outcome(l, l, r \in {l, Tail(l)}, {})
    [] ~ IsIrList(l) /\ IsIrList(r) -> Outcome(r, r, l = Tail(r), {})
    [] ~ IsIrList(l) /\ ~ IsIrList(r) /\ TEXT \in {l, r} ->
         Outcome(TEXT, TEXT, {l, r} \subseteq {TEXT, BUCHSTABE}, {})
    [] OTHER -> Outcome(ListOf(l), ListOf(l), l = r, {})

VisitArithmetic(l, r) ==
  CASE ~ ({l, r} \subseteq Numeric) -> Failed
    [] KOMMAZAHL \in {l, r} /\ {l, r} \subseteq Numeric ->
         Converted(KOMMAZAHL, intOrByteAsFloat(l) \cup intOrByteAsFloat(r))
    [] {l, r} = {ZAHL, BYTE} ->
         Converted(ZAHL, floatOrByteAsInt(l) \cup floatOrByteAsInt(r))
    [] OTHER -> Value(l)

VisitDiv(l, r) ==
  IF ~ ({l, r} \subseteq Numeric) THEN Failed
  ELSE Converted(KOMMAZAHL, intOrByteAsFloat(r) \cup
                   (IF l = BYTE /\ r = KOMMAZAHL
                      THEN {<<BYTE, KOMMAZAHL, "SIToFP">>} ELSE intOrByteAsFloat(l)))

VisitPowLog(l, r) ==
  IF ~ ({l, r} \subseteq Numeric) THEN Failed
  ELSE Converted(KOMMAZAHL, intOrByteAsFloat(l) \cup intOrByteAsFloat(r))

VisitIndex(l, r) ==
  CASE l = TEXT    -> Converted(BUCHSTABE, floatOrByteAsInt(r))
    [] IsIrList(l) -> Converted(Tail(l), floatOrByteAsInt(r))
    [] OTHER       -> Failed

VisitSliceFromTo(l, r) ==
  IF l = TEXT \/ IsIrList(l) THEN Converted(l, floatOrByteAsInt(r)) ELSE Failed

VisitLogic(l, r) == Outcome(ZAHL, l, l = r, {})

VisitModAlwaysSigned(l, r) ==
  Converted(ZAHL, {<<ZAHL, ZAHL, "signed">>} \cup floatOrByteAsInt(l) \cup floatOrByteAsInt(r))

VisitMod(l, r) ==
  IF l = BYTE /\ r = BYTE THEN Converted(BYTE, {<<BYTE, BYTE, "unsigned">>})
  ELSE Converted(ZAHL, {<<ZAHL, ZAHL, "signed">>} \cup floatOrByteAsInt(l)
                       \cup floatOrByteAsInt(r))

VisitShift(l, r) == Outcome(l, l, l = r, {})

VisitEqual(l, r) == Outcome(WAHRHEITSWERT, WAHRHEITSWERT, l = r, {})

\* LESS, LESS_EQ, GREATER and GREATER_EQ
VisitCompare(l, r) ==
  CASE KOMMAZAHL \in {l, r} ->
         Converted(WAHRHEITSWERT, intOrByteAsFloat(l) \cup intOrByteAsFloat(r)
                                  \cup {<<KOMMAZAHL, KOMMAZAHL, "ordered">>})
    [] l = BYTE /\ r = BYTE -> Converted(WAHRHEITSWERT, {<<BYTE, BYTE, "unsigned">>})
    [] OTHER -> Converted(WAHRHEITSWERT, floatOrByteAsInt(l) \cup floatOrByteAsInt(r)
                                         \cup {<<ZAHL, ZAHL, "signed">>})

CG_VisitBinaryExpr(op, l, r) ==
  CASE op \in {"BIN_AND", "BIN_OR", "BIN_XOR"} -> Outcome(WAHRHEITSWERT, l, l = r, {})
    [] op = "BIN_CONCAT" -> VisitConcat(l, r)
    [] op \in {"BIN_PLUS", "BIN_MINUS", "BIN_MULT"} -> VisitArithmetic(l, r)
    [] op = "BIN_DIV" -> VisitDiv(l, r)
    [] op = "BIN_INDEX" -> VisitIndex(l, r)
    [] op \in {"BIN_SLICE_FROM", "BIN_SLICE_TO"} -> VisitSliceFromTo(l, r)
    [] op \in {"BIN_POW", "BIN_LOG"} -> VisitPowLog(l, r)
    [] op \in {"BIN_LOGIC_AND", "BIN_LOGIC_OR", "BIN_LOGIC_XOR"} -> VisitLogic(l, r)
    [] op = "BIN_MOD" -> VisitMod(l, r)
    [] op \in {"BIN_LEFT_SHIFT", "BIN_RIGHT_SHIFT"} -> VisitShift(l, r)
    [] op \in {"BIN_EQUAL", "BIN_UNEQUAL"} -> VisitEqual(l, r)
    [] op \in {"BIN_GREATER", "BIN_LESS", "BIN_GREATER_EQ", "BIN_LESS_EQ"} ->
         VisitCompare(l, r)

CG_VisitTernaryExpr(op, l, m, r) ==
  CASE op = "TER_SLICE" ->
         IF l = TEXT \/ IsIrList(l)
           THEN Converted(l, floatOrByteAsInt(m) \cup floatOrByteAsInt(r)) ELSE Failed
    [] op = "TER_BETWEEN" ->
         CASE KOMMAZAHL \in {l, m, r} ->
                Converted(WAHRHEITSWERT, {<<KOMMAZAHL, KOMMAZAHL, "ordered">>}
                                         \cup UNION {intOrByteAsFloat(t) : t \in {l, m, r}})
           [] {l, m, r} = {BYTE} -> Converted(WAHRHEITSWERT, {<<BYTE, BYTE, "unsigned">>})
           [] OTHER -> Converted(WAHRHEITSWERT, {<<ZAHL, ZAHL, "signed">>}
                                         \cup UNION {floatOrByteAsInt(t) : t \in {l, m, r}})
    [] op = "TER_FALLS" -> Outcome(l, l, l = r /\ m = WAHRHEITSWERT, {})

CastToZahl(l) ==
  CASE l \in Numeric             -> Converted(ZAHL, numericCast(l, ZAHL))
    [] l = WAHRHEITSWERT         -> Converted(ZAHL, {<<l, ZAHL, "ZExt">>})
    [] l = BUCHSTABE             -> Converted(ZAHL, {<<l, ZAHL, "SExt">>})
    [] l \in {TEXT, VARIABLE_}   -> Value(ZAHL)
    [] OTHER                     -> Failed

CastToKommazahl(l) ==
  CASE l \in Numeric             -> Converted(KOMMAZAHL, numericCast(l, KOMMAZAHL))
    [] l \in {TEXT, VARIABLE_}   -> Value(KOMMAZAHL)
    [] OTHER                     -> Failed

\* a Byte in a Variable is read with the width of a Zahl
CastToByte(l) ==
  CASE l \in Numeric             -> Converted(BYTE, numericCast(l, BYTE))
    [] l = WAHRHEITSWERT         -> Converted(BYTE, {<<l, BYTE, "ZExt">>})
    [] l \in {BUCHSTABE, TEXT}   -> Converted(BYTE, {<<l, BYTE, "Trunc">>})
    [] l = VARIABLE_             -> Outcome(BYTE, ZAHL, TRUE, {})
    [] OTHER                     -> Failed

CastToWahrheitswert(l) ==
  IF l \in {ZAHL, BYTE, WAHRHEITSWERT, VARIABLE_} THEN Value(WAHRHEITSWERT) ELSE Failed

CastToBuchstabe(l) ==
  CASE l = ZAHL                      -> Converted(BUCHSTABE, {<<l, BUCHSTABE, "Trunc">>})
    [] l = BYTE                      -> Converted(BUCHSTABE, {<<l, BUCHSTABE, "ZExt">>})
    [] l \in {BUCHSTABE, VARIABLE_}  -> Value(BUCHSTABE)
    [] OTHER                         -> Failed

CastToText(l) ==
  IF l \in {VARIABLE_, TEXT, ZAHL, KOMMAZAHL, BYTE, WAHRHEITSWERT, BUCHSTABE}
    THEN Value(TEXT) ELSE Failed

CastToList(l, target) ==
  IF target = NoIrType \/ IsIrList(l) THEN Failed
  ELSE IF l = VARIABLE_ THEN Value(target) ELSE Outcome(target, ListOf(l), TRUE, {})

CG_VisitCastExpr(l, targetType) ==
  LET t  == TrueUnderlying[targetType]
      ir == toIrType(targetType)
  IN CASE Head(t) = "Liste"   -> CastToList(l, ir)
       [] t = ZAHL            -> CastToZahl(l)
       [] t = KOMMAZAHL       -> CastToKommazahl(l)
       [] t = BYTE            -> CastToByte(l)
       [] t = WAHRHEITSWERT   -> CastToWahrheitswert(l)
       [] t = BUCHSTABE       -> CastToBuchstabe(l)
       [] t = TEXT            -> CastToText(l)
       [] t = VARIABLE_       -> Value(VARIABLE_)
       [] OTHER -> Outcome(ir, IF l = VARIABLE_ THEN ir ELSE l, TRUE, {})

\* the vtable that tells the type of the value in a Variable
VTable(t) == IF IsTypeDef(t) THEN GetUnderlying(t) ELSE toIrType(t)

CG_VisitListLit(e, elements) ==
  IF toIrType(ListOf(e)) = NoIrType THEN Failed
  ELSE Outcome(toIrType(ListOf(e)), toIrType(ListOf(e)),
               \A i \in DOMAIN elements : elements[i] = toIrType(e), {})

\* a value of type init stored into a variable of type t: numbers are converted,
\* into a Variable a value is packed
CG_VisitVarDecl(t, init, ir) ==
  CASE toIrType(t) = NoIrType -> Failed
    [] IsNumeric(t) /\ IsNumeric(init) -> Converted(toIrType(t), numericCast(ir, toIrType(t)))
    [] OTHER -> Outcome(toIrType(t), toIrType(t), toIrType(t) \in {VARIABLE_, ir}, {})

CG_VisitAssignStmt(t, loc, init, ir) ==
  IF IsNumeric(t) /\ IsNumeric(init) THEN Converted(loc, numericCast(ir, loc))
  ELSE Outcome(loc, loc, loc \in {VARIABLE_, ir}, {})

evaluateStructLiteral(t, ir) ==
  Outcome(toIrType(t), toIrType(t), toIrType(t) \in {VARIABLE_, ir}, {})

VisitReturnStmtUnpacked(returnType, ir) == Outcome(ir, ir, toIrType(returnType) = ir, {})

CG_VisitReturnStmt(returnType, ir) ==
  Outcome(toIrType(returnType), toIrType(returnType), toIrType(returnType) \in {VARIABLE_, ir}, {})

\* the count is stored into a counter of type Zahl
CG_VisitRepeat(count) == Outcome(Void, Void, count = ZAHL, {})

(***************************************************************************)
(* The step is compared with 0, the counter with the end value.  Only for  *)
(* a counter of type Byte are both sides converted before the comparison.  *)
(***************************************************************************)
CG_VisitForStmt(iter, to, step) ==
  Outcome(Void, Void,
    CASE iter = BYTE      -> TRUE
      [] iter = KOMMAZAHL -> to = KOMMAZAHL /\ step = KOMMAZAHL
      [] OTHER            -> to = ZAHL /\ step # KOMMAZAHL,
    (IF iter = KOMMAZAHL THEN intOrByteAsFloat(step) ELSE floatOrByteAsInt(step))
    \cup (IF iter = ZAHL THEN {<<step, step, "signed">>} ELSE {})
    \cup (IF iter = BYTE THEN floatOrByteAsInt(to) ELSE {}))

CG_VisitForRangeStmt(element, in) ==
  Outcome(Void, Void, IF in = TEXT THEN element = BUCHSTABE ELSE element = Tail(in), {})

\* arguments of a call: references are locations, others are values
evaluateAssignableOrReference(loc, ir) ==
  IF loc = Void THEN Failed ELSE Outcome(Void, Void, loc = ir, {})
-----------------------------------------------------------------------------
\* the types a variable can have: those with an IR type
Storable == {t \in ValueTypes : toIrType(t) # NoIrType}

\* the conversions that keep the value: a Byte is unsigned, a Zahl signed
Faithful ==
  {<<ZAHL, KOMMAZAHL, "SIToFP">>, <<BYTE, KOMMAZAHL, "UIToFP">>, <<KOMMAZAHL, ZAHL, "FPToSI">>,
   <<BYTE, ZAHL, "ZExt">>, <<ZAHL, BYTE, "Trunc">>, <<KOMMAZAHL, BYTE, "FPToUI">>,
   <<WAHRHEITSWERT, ZAHL, "ZExt">>, <<BUCHSTABE, ZAHL, "SExt">>, <<ZAHL, BUCHSTABE, "Trunc">>,
   <<BYTE, BUCHSTABE, "ZExt">>, <<BYTE, BYTE, "unsigned">>, <<ZAHL, ZAHL, "signed">>,
   <<KOMMAZAHL, KOMMAZAHL, "ordered">>}

(***************************************************************************)
(* Where code generator and typechecker disagree in the current source     *)
(* (README, Findings).                                                     *)
(***************************************************************************)
KnownDivergence(op, ts) ==
  LET u == [i \in DOMAIN ts |-> GetUnderlying(ts[i])]
      one == u[1]
      two == {u[i] : i \in DOMAIN u}
  IN CASE op \in {"UN_ABS", "UN_NEGATE"} -> one = BYTE
       [] op \in {"BIN_PLUS", "BIN_MINUS", "BIN_MULT", "BIN_LEFT_SHIFT", "BIN_RIGHT_SHIFT"} ->
            two = {ZAHL, BYTE}
       [] op \in {"BIN_LOGIC_AND", "BIN_LOGIC_OR", "BIN_LOGIC_XOR"} -> BYTE \in two
       [] op = "BIN_DIV" -> one = BYTE /\ u[2] = KOMMAZAHL
       [] op = "BIN_CONCAT" ->
            \E e \in two : IsTypeDef(e) /\ (TrueUnderlying[e] = TEXT \/ IsList(TrueUnderlying[e]))
       [] op = "CAST_OP" ->
            \/ IsAny(one) /\ TrueUnderlying[u[2]] = BYTE
            \/ IsTypeDef(one) /\ IsAny(u[2])
            \/ IsList(TrueUnderlying[one]) /\ IsList(TrueUnderlying[u[2]])
       [] op = "LIST" -> IsList(TrueUnderlying[one])
       [] op = "RETURN" -> IsTypeDef(one) /\ IsAny(u[2])
       [] op = "CAST_REF" -> TRUE
       [] op = "TEXT_REF" -> IsTypeDef(one)
       [] op = "FIELD" -> IsNumeric(one) /\ one # u[2]
       [] op = "REPEAT" -> one = BYTE
       [] op = "FOR" -> CASE one = ZAHL -> u[2] # ZAHL \/ u[3] # ZAHL
                          [] one = KOMMAZAHL -> two # {KOMMAZAHL}
                          [] OTHER -> FALSE
       [] OTHER -> FALSE
=============================================================================
