--------------------------- MODULE OperatorProofs ---------------------------
(***************************************************************************)
(* Proofs about the operators of Typechecker, IrTyping and Overloads, for  *)
(* all types: what the typechecker accepts outside the known divergences   *)
(* is compiled to a value of the type it computed.                         *)
(***************************************************************************)
EXTENDS Typechecker, IrTyping, OverloadsProofs
-----------------------------------------------------------------------------
(***************************************************************************)
(* The IR types of the types of values.                                    *)
(***************************************************************************)
\* toIrType, in terms of TrueUnderlying.
LEMMA IrTypes ==
  ASSUME NEW t
  PROVE  /\ Head(TrueUnderlying[t]) # "Liste" => toIrType(t) = TrueUnderlying[t]
         /\ Head(TrueUnderlying[t]) = "Liste"
              => toIrType(t) = IF Head(TrueUnderlying[Tail(TrueUnderlying[t])]) = "Liste"
                                 THEN NoIrType
                                 ELSE ListOf(TrueUnderlying[Tail(TrueUnderlying[t])])
  BY Zenon DEF toIrType

\* Types that Equal holds of are compiled alike.
LEMMA EqualTypesCompileAlike ==
  ASSUME NEW t \in DDPType, NEW s \in DDPType, Underlying[t] = Underlying[s]
  PROVE  TrueUnderlying[t] = TrueUnderlying[s] /\ toIrType(t) = toIrType(s)
<1>1. TrueUnderlying[t] = TrueUnderlying[s]
  <2>1. IsTypeDef(t) <=> IsTypeDef(s)
    BY Zenon DEF IsTypeDef, Outermost, GetUnderlying
  <2> QED
    BY Zenon, <2>1, TrueUnderlyingDef
<1> QED
  BY Zenon, <1>1, IrTypes

\* No word stands for two things.
LEMMA Words ==
  /\ "Liste" \notin Scalars /\ "Alias" \notin Scalars /\ "nichts" \notin Scalars
  /\ "T" \notin Scalars /\ "panic" \notin Scalars
  /\ "Liste" \notin TypeDefs /\ "nichts" \notin TypeDefs /\ "T" \notin TypeDefs
  /\ Scalars \cap TypeDefs = {}
  /\ Basic \subseteq Scalars /\ Structs \subseteq Scalars
  /\ Basic \cap Structs = {}
  BY Zenon, NamesAssumption DEF Scalars, Basic

\* A scalar is compiled to the IR type of that name.
LEMMA IrTypeOfScalar ==
  ASSUME NEW t \in ValueTypes, Outermost(t) \in Scalars
  PROVE  /\ Underlying[t] = <<Outermost(t)>> /\ TrueUnderlying[t] = <<Outermost(t)>>
         /\ toIrType(t) = <<Outermost(t)>> /\ t \in Storable
<1>1. Underlying[t] = <<Outermost(t)>>
  BY Zenon, UnderlyingOfValueType, Words
<1>2. ~ IsTypeDef(t)
  BY Zenon, Words DEF IsTypeDef
<1>3. TrueUnderlying[t] = <<Outermost(t)>>
  BY Zenon, <1>1, <1>2, ValueTypeCases, TrueUnderlyingDef
<1>4. Head(<<Outermost(t)>>) = Outermost(t)
  BY Zenon, ScalarsAreValueTypes
<1>5. toIrType(t) = <<Outermost(t)>>
  BY Zenon, <1>3, <1>4, Words, IrTypes
<1>6. Outermost(t) # "panic"
  BY Zenon, Words
<1>7. <<Outermost(t)>> # <<"panic">>
  BY Zenon, <1>6
<1> QED
  BY Zenon, <1>1, <1>3, <1>5, <1>7 DEF Storable, NoIrType

\* What an IR type looks like: a scalar or a list of a scalar.
IrForm(ir) ==
  \/ Head(ir) \in Scalars /\ ir = <<Head(ir)>>
  \/ /\ Head(ir) = "Liste" /\ Head(Tail(ir)) \in Scalars
     /\ Tail(ir) = <<Head(Tail(ir))>> /\ ir = ListOf(Tail(ir))

\* toIrType leaves a scalar or a list of one, and takes a list of a type to one of its IR type.
LEMMA IrTypeForms ==
  ASSUME NEW t \in Storable
  PROVE  /\ IrForm(toIrType(t))
         /\ Head(toIrType(t)) = Head(TrueUnderlying[t])
         /\ Head(toIrType(t)) \in Scalars => toIrType(t) = TrueUnderlying[t]
         /\ Head(toIrType(t)) = "Liste" =>
              /\ Tail(TrueUnderlying[t]) \in Storable
              /\ Tail(toIrType(t)) = toIrType(Tail(TrueUnderlying[t]))
<1> DEFINE u == TrueUnderlying[t]
<1>1. t \in ValueTypes /\ toIrType(t) # NoIrType
  BY Zenon DEF Storable
<1>2. \/ Head(u) \in Scalars /\ u = <<Head(u)>>
      \/ Head(u) = "Liste" /\ Tail(u) \in ValueTypes
  BY Zenon, <1>1, TrueUnderlyingOfValueType
<1>3. CASE Head(u) \in Scalars /\ u = <<Head(u)>>
  <2>1. toIrType(t) = u
    BY Zenon, <1>3, Words, IrTypes
  <2> HIDE DEF u
  <2> QED
    BY Zenon, <1>3, <2>1, Words DEF IrForm, u
<1>4. CASE Head(u) = "Liste" /\ Tail(u) \in ValueTypes
  <2> DEFINE e == TrueUnderlying[Tail(u)]
  <2>1. Head(e) # "Liste" /\ toIrType(t) = ListOf(e)
    BY Zenon, <1>1, <1>4, IrTypes
  <2>2. e \in ValueTypes /\ Head(e) \in Scalars /\ e = <<Head(e)>>
    <3> HIDE DEF u
    <3> QED BY Zenon, <1>4, <2>1, TrueUnderlyingOfValueType
  <2>3. toIrType(Tail(u)) = e
    <3> HIDE DEF u
    <3> QED BY Zenon, <2>1, IrTypes DEF e
  <2>4. Head(ListOf(e)) = "Liste" /\ Tail(ListOf(e)) = e
    <3> HIDE DEF e
    <3> QED BY Zenon, <2>2, ValueTypeCases, TypeSequences
  <2>5. e # NoIrType
    <3>1. Head(e) # "panic"
      BY Zenon, <2>2, Words
    <3>2. <<Head(e)>> # <<"panic">>
      BY Zenon, <3>1
    <3> QED
      BY Zenon, <2>2, <3>2 DEF NoIrType
  <2>6. Tail(u) \in Storable
    BY Zenon, <1>4, <2>3, <2>5 DEF Storable
  <2>7. IrForm(ListOf(e))
    <3> HIDE DEF e
    <3> QED BY Zenon, <2>2, <2>4 DEF IrForm
  <2> HIDE DEF e, u
  <2> QED
    BY Zenon, <1>4, <2>1, <2>3, <2>4, <2>6, <2>7, Words DEF u
<1> QED
  BY Zenon, <1>2, <1>3, <1>4

\* A list is compiled to the list of what its elements are compiled to.
LEMMA IrTypeOfList ==
  ASSUME NEW t \in Storable, IsList(t)
  PROVE  /\ GetListElementType(t) = Tail(Underlying[t])
         /\ Tail(Underlying[t]) \in Storable
         /\ Underlying[t] = ListOf(Tail(Underlying[t]))
         /\ Underlying[Tail(Underlying[t])] = Tail(Underlying[t])
         /\ Head(toIrType(t)) = "Liste"
         /\ Tail(toIrType(t)) = toIrType(Tail(Underlying[t]))
         /\ toIrType(t) = ListOf(toIrType(Tail(Underlying[t])))
         /\ Head(toIrType(Tail(Underlying[t]))) \in Scalars
<1>1. t \in ValueTypes /\ t \in DDPType
  BY Zenon, ValueTypeCases DEF Storable
<1>2. Outermost(t) = "Liste" /\ ~ IsTypeDef(t)
  BY Zenon, Words DEF IsList, IsTypeDef
<1>3. TrueUnderlying[t] = Underlying[t]
  BY Zenon, <1>1, <1>2, TrueUnderlyingDef
<1>4. Underlying[t] # << >> /\ Head(Underlying[t]) = "Liste"
  BY Zenon, <1>1, <1>2, UnderlyingOfValueType, ValueTypeCases
<1>5. Head(toIrType(t)) = "Liste"
  BY Zenon, <1>3, <1>4, IrTypeForms
<1>6. /\ Tail(Underlying[t]) \in Storable
      /\ Tail(toIrType(t)) = toIrType(Tail(Underlying[t]))
  BY Zenon, <1>3, <1>5, IrTypeForms
<1>7. /\ Head(Tail(toIrType(t))) \in Scalars
      /\ toIrType(t) = ListOf(Tail(toIrType(t)))
  BY Zenon, <1>5, IrTypeForms, Words DEF IrForm
<1>8. /\ Underlying[t] = ListOf(Tail(Underlying[t]))
      /\ Underlying[Tail(Underlying[t])] = Tail(Underlying[t])
  BY Zenon, <1>1, <1>4, UnderlyingOfElement
<1>9. GetListElementType(t) = Tail(Underlying[t])
  BY Zenon DEF GetListElementType, GetUnderlying
<1> QED
  BY Zenon, <1>5, <1>6, <1>7, <1>8, <1>9

\* A value of a type definition is compiled like a value of the type it is made of.
LEMMA IrTypeOfTypeDef ==
  ASSUME NEW t \in Storable, IsTypeDef(t)
  PROVE  /\ DefinedAs(t) \in Storable /\ DefinedAs(t) = Tail(Underlying[t])
         /\ toIrType(t) = toIrType(DefinedAs(t))
         /\ Underlying[t] # << >> /\ Head(Underlying[t]) \in TypeDefs
<1>1. t \in ValueTypes /\ t \in DDPType
  BY Zenon, ValueTypeCases DEF Storable
<1>2. DefinedAs(t) = Tail(Underlying[t])
  BY Zenon DEF DefinedAs, GetUnderlying
<1>3. Outermost(t) \in TypeDefs
  BY Zenon DEF IsTypeDef
<1>4. DefinedAs(t) \in ValueTypes /\ Head(Underlying[t]) \in TypeDefs
  BY Zenon, <1>1, <1>2, <1>3, UnderlyingOfValueType, Words
<1>5. TrueUnderlying[t] = TrueUnderlying[DefinedAs(t)]
  BY Zenon, <1>1, <1>2, TrueUnderlyingDef
<1>6. toIrType(t) = toIrType(DefinedAs(t))
  BY Zenon, <1>5, IrTypes
<1>7. Underlying[t] # << >>
  BY Zenon, <1>1, UnderlyingOfValueType, ValueTypeCases
<1> QED
  BY Zenon, <1>2, <1>4, <1>6, <1>7 DEF Storable

\* A list of values that are not lists can be stored.
LEMMA ListsAreStorable ==
  ASSUME NEW e \in Storable, Head(toIrType(e)) # "Liste"
  PROVE  /\ ListOf(e) \in Storable /\ toIrType(ListOf(e)) = ListOf(toIrType(e))
         /\ ListOf(toIrType(e)) # NoIrType
<1>1. e \in ValueTypes /\ e \in DDPType
  BY Zenon, ValueTypeCases DEF Storable
<1>2. ListOf(e) \in ValueTypes /\ ListOf(e) \in DDPType
  BY Zenon, <1>1, ListsAreValueTypes, ValueTypeCases
<1> DEFINE v == Underlying[e]
<1>3. v \in DDPType /\ Underlying[ListOf(e)] = ListOf(v) /\ Underlying[v] = v
  BY Zenon, <1>1, UnderlyingOfList, UnderlyingFacts
<1> HIDE DEF v
<1>4. ListOf(v) # << >> /\ Head(ListOf(v)) = "Liste" /\ Tail(ListOf(v)) = v
  BY Zenon, <1>3, TypeSequences
<1>5. ~ IsTypeDef(ListOf(e))
  BY Zenon, <1>3, <1>4, Words DEF IsTypeDef, Outermost, GetUnderlying
<1>6. TrueUnderlying[ListOf(e)] = ListOf(v)
  BY Zenon, <1>2, <1>3, <1>5, TrueUnderlyingDef
<1>7. TrueUnderlying[v] = TrueUnderlying[e] /\ toIrType(v) = toIrType(e)
  BY Zenon, <1>1, <1>3, EqualTypesCompileAlike DEF v
<1>8. Head(TrueUnderlying[e]) # "Liste" /\ toIrType(e) = TrueUnderlying[e]
  BY Zenon, IrTypeForms, Words DEF IrForm
<1>9. toIrType(ListOf(e)) = ListOf(toIrType(e))
  BY Zenon, <1>4, <1>6, <1>7, <1>8, IrTypes
<1>10. toIrType(e) \in DDPType
  BY Zenon, <1>1, <1>8, TrueUnderlyingOfValueType, ValueTypeCases
<1>11. ListOf(toIrType(e)) # NoIrType
  <2>1. Head(ListOf(toIrType(e))) = "Liste"
    BY Zenon, <1>10, TypeSequences
  <2>2. Head(<<"panic">>) = "panic"
    OBVIOUS
  <2> QED
    BY Zenon, <2>1, <2>2 DEF NoIrType
<1> QED
  BY Zenon, <1>2, <1>9, <1>11 DEF Storable
-----------------------------------------------------------------------------
(***************************************************************************)
(* What the typechecker accepts, the code generator compiles to a value of *)
(* the type it was given.                                                  *)
(***************************************************************************)
BasicTypes == {ZAHL, KOMMAZAHL, BYTE, WAHRHEITSWERT, BUCHSTABE, TEXT, VARIABLE_}

\* The basic types are different, and none of them is a list.
LEMMA DistinctTypes ==
  /\ ZAHL \notin {KOMMAZAHL, BYTE, WAHRHEITSWERT, BUCHSTABE, TEXT, VARIABLE_, Void}
  /\ KOMMAZAHL \notin {BYTE, WAHRHEITSWERT, BUCHSTABE, TEXT, VARIABLE_, Void}
  /\ BYTE \notin {WAHRHEITSWERT, BUCHSTABE, TEXT, VARIABLE_, Void}
  /\ WAHRHEITSWERT \notin {BUCHSTABE, TEXT, VARIABLE_, Void}
  /\ BUCHSTABE \notin {TEXT, VARIABLE_, Void}
  /\ TEXT \notin {VARIABLE_, Void}
  /\ VARIABLE_ # Void
  /\ \A b \in BasicTypes : Head(b) \in Basic /\ b = <<Head(b)>> /\ Head(b) # "Liste"
<1> USE DEF ZAHL, KOMMAZAHL, BYTE, WAHRHEITSWERT, BUCHSTABE, TEXT, VARIABLE_, Void
<1>1. \A b \in BasicTypes : Head(b) \in Basic /\ b = <<Head(b)>> /\ Head(b) # "Liste"
  BY DEF BasicTypes, Basic
<1> QED
  BY Zenon, <1>1

\* Aliases apart, a type of values is a basic type if that is what it is compiled to and no
\* type definition is around it; it is never Void or a type parameter.
LEMMA BasicValues ==
  ASSUME NEW t \in Storable
  PROVE  /\ \A c \in BasicTypes : Underlying[t] = c <=> toIrType(t) = c /\ ~ IsTypeDef(t)
         /\ ~ IsTypeDef(t) /\ ~ IsList(t) => /\ toIrType(t) = Underlying[t]
                                             /\ Head(toIrType(t)) \in Scalars
         /\ IsList(t) => ~ IsTypeDef(t) /\ Underlying[t] \notin BasicTypes
         /\ Underlying[t] # Void /\ Underlying[t] # <<"T">> /\ toIrType(t) # Void
         /\ t \in DDPType /\ t \in ValueTypes
<1>1. t \in ValueTypes /\ t \in DDPType
  BY Zenon, ValueTypeCases DEF Storable
<1>2. \/ Outermost(t) \in Scalars /\ Underlying[t] = <<Outermost(t)>>
      \/ Outermost(t) \in {"Liste"} \cup TypeDefs
  BY Zenon, <1>1, UnderlyingOfValueType
<1>3. Head(Underlying[t]) = Outermost(t)
  BY Zenon, <1>1, UnderlyingOfValueType
<1>4. IsList(t) => ~ IsTypeDef(t)
  BY Zenon, Words DEF IsList, IsTypeDef
<1>5. ~ IsTypeDef(t) /\ ~ IsList(t) => /\ toIrType(t) = Underlying[t]
                                       /\ Head(toIrType(t)) \in Scalars
  BY Zenon, <1>1, <1>2, <1>3, IrTypeOfScalar DEF IsTypeDef, IsList
<1>6. IsList(t) => Head(toIrType(t)) = "Liste"
  BY Zenon, IrTypeOfList
<1>7. \A c \in BasicTypes : Head(c) # "Liste" /\ Head(c) \notin TypeDefs
  BY Zenon, DistinctTypes, Words
<1>8. IsList(t) => Underlying[t] \notin BasicTypes
  BY Zenon, <1>3, <1>7 DEF IsList
<1>9. ASSUME NEW c \in BasicTypes
      PROVE  Underlying[t] = c <=> toIrType(t) = c /\ ~ IsTypeDef(t)
  <2>1. ASSUME Underlying[t] = c PROVE toIrType(t) = c /\ ~ IsTypeDef(t)
    BY Zenon, <1>3, <1>5, <1>7, <1>8, <2>1 DEF IsTypeDef
  <2>2. ASSUME toIrType(t) = c, ~ IsTypeDef(t) PROVE Underlying[t] = c
    BY Zenon, <1>5, <1>6, <1>7, <2>2
  <2> QED
    BY Zenon, <2>1, <2>2
<1>10. Head(Void) = "nichts" /\ Head(<<"T">>) = "T"
  BY DEF Void
<1>11. Underlying[t] # Void /\ Underlying[t] # <<"T">>
  BY Zenon, <1>2, <1>3, <1>10, Words
<1>12. toIrType(t) # Void
  BY <1>10, IrTypeForms, Words DEF IrForm
<1> QED
  BY Zenon, <1>1, <1>4, <1>5, <1>8, <1>9, <1>11, <1>12

\* The basic types are types of values.
LEMMA BasicTypesAreStorable ==
  ASSUME NEW c \in BasicTypes
  PROVE  /\ c \in Storable /\ Underlying[c] = c /\ toIrType(c) = c /\ TrueUnderlying[c] = c
         /\ ~ IsTypeDef(c) /\ ~ IsList(c)
<1>1. Head(c) \in Scalars /\ c = <<Head(c)>> /\ Head(c) # "Liste"
  BY Zenon, DistinctTypes, Words
<1>2. c \in ValueTypes /\ Underlying[c] = c
  BY Zenon, <1>1, ScalarsAreValueTypes
<1>3. Outermost(c) = Head(c)
  BY Zenon, <1>2, UnderlyingOfValueType
<1> QED
  BY Zenon, <1>1, <1>2, <1>3, IrTypeOfScalar, Words DEF IsTypeDef, IsList

\* Every conversion between numbers reads Bytes as unsigned and Zahlen as signed.
LEMMA Conversions ==
  /\ \A n \in {ZAHL, KOMMAZAHL, BYTE} :
       /\ floatOrByteAsInt(n) \subseteq Faithful
       /\ intOrByteAsFloat(n) \subseteq Faithful
       /\ intOrFloatAsByte(n) \subseteq Faithful
       /\ \A m \in {ZAHL, KOMMAZAHL, BYTE} : numericCast(n, m) \subseteq Faithful
  /\ Numeric = {ZAHL, KOMMAZAHL, BYTE}
<1>1. ASSUME NEW n \in {ZAHL, KOMMAZAHL, BYTE}
      PROVE  floatOrByteAsInt(n) \subseteq Faithful
  BY <1>1, DistinctTypes, Zenon DEF floatOrByteAsInt, Faithful
<1>2. ASSUME NEW n \in {ZAHL, KOMMAZAHL, BYTE}
      PROVE  intOrByteAsFloat(n) \subseteq Faithful
  BY <1>2, DistinctTypes, Zenon DEF intOrByteAsFloat, Faithful
<1>3. ASSUME NEW n \in {ZAHL, KOMMAZAHL, BYTE}
      PROVE  intOrFloatAsByte(n) \subseteq Faithful
  BY <1>3, DistinctTypes, Zenon DEF intOrFloatAsByte, Faithful
<1>4. ASSUME NEW n \in {ZAHL, KOMMAZAHL, BYTE}, NEW m \in {ZAHL, KOMMAZAHL, BYTE}
      PROVE  numericCast(n, m) \subseteq Faithful
  BY <1>1, <1>2, <1>3, <1>4, DistinctTypes, Zenon DEF numericCast
<1>5. Numeric = {ZAHL, KOMMAZAHL, BYTE}
  BY Zenon DEF Numeric
<1> QED
  BY <1>1, <1>2, <1>3, <1>4, <1>5, Zenon

\* The compilation neither fails nor emits ill-typed instructions or wrong conversions.
Right(o) == ~ o.err /\ o.wf /\ o.rep = o.typ /\ o.conv \subseteq Faithful

\* The outcome o of compiling an expression is right for the type t it was given.
Agrees(o, t) == Right(o) /\ t \in Storable /\ o.typ = toIrType(t)

\* A value of the right type, made by faithful conversions, is a right outcome.
LEMMA RightOutcomes ==
  ASSUME NEW t \in Storable, NEW ir, ir = toIrType(t)
  PROVE  /\ Agrees(Value(ir), t)
         /\ \A conv : conv \subseteq Faithful => Agrees(Converted(ir, conv), t)
         /\ \A wf : wf => Agrees(Outcome(ir, ir, wf, {}), t)
<1>1. {} \subseteq Faithful
  BY Zenon
<1>2. \A wf, conv : wf /\ conv \subseteq Faithful => Agrees(Outcome(ir, ir, wf, conv), t)
  BY Zenon DEF Agrees, Right, Outcome
<1> QED
  BY <1>1, <1>2, Zenon DEF Value, Converted

\* What KnownDivergence leaves out of the operations on one operand.
LEMMA UnaryDivergences ==
  ASSUME NEW op, NEW ts, NEW a, 1 \in DOMAIN ts, ts[1] = a, ~ KnownDivergence(op, ts)
  PROVE  /\ op \in {"UN_ABS", "UN_NEGATE", "REPEAT"} => Underlying[a] # BYTE
         /\ op = "LIST" => ~ IsList(TrueUnderlying[Underlying[a]])
         /\ op = "TEXT_REF" => ~ IsTypeDef(Underlying[a])
<1> DEFINE u == [i \in DOMAIN ts |-> GetUnderlying(ts[i])]
<1>1. u[1] = Underlying[a]
  BY Zenon DEF GetUnderlying
<1>2. /\ op \in {"UN_ABS", "UN_NEGATE", "REPEAT"} => ~ (u[1] = BYTE)
      /\ op = "LIST" => ~ IsList(TrueUnderlying[u[1]])
      /\ op = "TEXT_REF" => ~ IsTypeDef(u[1])
  BY Zenon DEF KnownDivergence
<1> HIDE DEF u
<1> QED
  BY <1>1, <1>2, Zenon

\* What it leaves out of the operations on two operands.
LEMMA BinaryDivergences ==
  ASSUME NEW op, NEW ts, NEW a, NEW b, DOMAIN ts = 1..2, ts[1] = a, ts[2] = b,
         ~ KnownDivergence(op, ts)
  PROVE  /\ op \in {"BIN_PLUS", "BIN_MINUS", "BIN_MULT", "BIN_LEFT_SHIFT", "BIN_RIGHT_SHIFT"}
              => {Underlying[a], Underlying[b]} # {ZAHL, BYTE}
         /\ op \in {"BIN_LOGIC_AND", "BIN_LOGIC_OR", "BIN_LOGIC_XOR"}
              => BYTE \notin {Underlying[a], Underlying[b]}
         /\ op = "BIN_DIV" => ~ (Underlying[a] = BYTE /\ Underlying[b] = KOMMAZAHL)
         /\ op = "BIN_CONCAT"
              => \A e \in {Underlying[a], Underlying[b]} :
                   ~ (IsTypeDef(e) /\ (TrueUnderlying[e] = TEXT \/ IsList(TrueUnderlying[e])))
         /\ op = "CAST_OP"
              => /\ ~ (IsAny(Underlying[a]) /\ TrueUnderlying[Underlying[b]] = BYTE)
                 /\ ~ (IsTypeDef(Underlying[a]) /\ IsAny(Underlying[b]))
                 /\ ~ (IsList(TrueUnderlying[Underlying[a]]) /\ IsList(TrueUnderlying[Underlying[b]]))
         /\ op = "RETURN" => ~ (IsTypeDef(Underlying[a]) /\ IsAny(Underlying[b]))
         /\ op = "FIELD" => ~ (IsNumeric(Underlying[a]) /\ Underlying[a] # Underlying[b])
<1> DEFINE u == [i \in DOMAIN ts |-> GetUnderlying(ts[i])]
           two == {u[i] : i \in DOMAIN u}
<1>1. u[1] = Underlying[a] /\ u[2] = Underlying[b]
  BY DEF GetUnderlying
<1>2. two = {Underlying[a], Underlying[b]}
  <2>1. DOMAIN u = {1, 2}
    OBVIOUS
  <2> HIDE DEF u
  <2> QED
    BY Zenon, <1>1, <2>1
<1>3. /\ op \in {"BIN_PLUS", "BIN_MINUS", "BIN_MULT", "BIN_LEFT_SHIFT", "BIN_RIGHT_SHIFT"}
           => ~ (two = {ZAHL, BYTE})
      /\ op \in {"BIN_LOGIC_AND", "BIN_LOGIC_OR", "BIN_LOGIC_XOR"} => ~ (BYTE \in two)
  BY Zenon DEF KnownDivergence
<1>4. op = "BIN_DIV" => ~ (u[1] = BYTE /\ u[2] = KOMMAZAHL)
  BY Zenon DEF KnownDivergence
<1>5. op = "BIN_CONCAT"
        => ~ \E e \in two : IsTypeDef(e) /\ (TrueUnderlying[e] = TEXT \/ IsList(TrueUnderlying[e]))
  BY Zenon DEF KnownDivergence
<1>6. op = "CAST_OP" => /\ ~ (IsAny(u[1]) /\ TrueUnderlying[u[2]] = BYTE)
                        /\ ~ (IsTypeDef(u[1]) /\ IsAny(u[2]))
                        /\ ~ (IsList(TrueUnderlying[u[1]]) /\ IsList(TrueUnderlying[u[2]]))
  BY Zenon DEF KnownDivergence
<1>7. /\ op = "RETURN" => ~ (IsTypeDef(u[1]) /\ IsAny(u[2]))
      /\ op = "FIELD" => ~ (IsNumeric(u[1]) /\ u[1] # u[2])
  BY Zenon DEF KnownDivergence
<1> HIDE DEF u, two
<1> QED
  BY <1>1, <1>2, <1>3, <1>4, <1>5, <1>6, <1>7, Zenon

\* What it leaves out of counting loops.
LEMMA ForDivergences ==
  ASSUME NEW ts, NEW a, NEW b, NEW c, DOMAIN ts = 1..3, ts[1] = a, ts[2] = b, ts[3] = c,
         ~ KnownDivergence("FOR", ts)
  PROVE  /\ Underlying[a] = ZAHL => Underlying[b] = ZAHL /\ Underlying[c] = ZAHL
         /\ Underlying[a] = KOMMAZAHL => Underlying[b] = KOMMAZAHL /\ Underlying[c] = KOMMAZAHL
<1> DEFINE u == [i \in DOMAIN ts |-> GetUnderlying(ts[i])]
<1>1. u[1] = Underlying[a] /\ u[2] = Underlying[b] /\ u[3] = Underlying[c] /\ DOMAIN u = {1, 2, 3}
  BY DEF GetUnderlying
<1>2. ZAHL # KOMMAZAHL
  BY Zenon, DistinctTypes
<1>3. /\ u[1] = ZAHL => ~ (u[2] # ZAHL \/ u[3] # ZAHL)
      /\ u[1] = KOMMAZAHL => ~ ({u[i] : i \in DOMAIN u} # {KOMMAZAHL})
  BY <1>2, Zenon DEF KnownDivergence
<1> HIDE DEF u
<1> QED
  BY Zenon, <1>1, <1>3

\* Taking the aliases off a type changes no answer about it; whether the IR type is a list
\* or a basic type is told by TrueUnderlying.
LEMMA UnderlyingViews ==
  ASSUME NEW t \in Storable
  PROVE  /\ IsTypeDef(Underlying[t]) <=> IsTypeDef(t)
         /\ IsAny(Underlying[t]) <=> IsAny(t)
         /\ IsNumeric(Underlying[t]) <=> IsNumeric(t)
         /\ TrueUnderlying[Underlying[t]] = TrueUnderlying[t]
         /\ IsList(TrueUnderlying[t]) <=> Head(toIrType(t)) = "Liste"
         /\ \A c \in BasicTypes : TrueUnderlying[t] = c <=> toIrType(t) = c
<1>1. t \in ValueTypes /\ t \in DDPType
  BY Zenon, BasicValues
<1>2. Underlying[t] \in DDPType /\ Underlying[Underlying[t]] = Underlying[t]
  BY Zenon, <1>1, UnderlyingFacts
<1>3. TrueUnderlying[Underlying[t]] = TrueUnderlying[t]
  BY Zenon, <1>1, <1>2, EqualTypesCompileAlike
<1>4. /\ TrueUnderlying[t] \in ValueTypes
      /\ Underlying[TrueUnderlying[t]] = TrueUnderlying[t]
  BY Zenon, <1>1, TrueUnderlyingOfValueType
<1>5. TrueUnderlying[t] # << >>
  BY Zenon, <1>4, ValueTypeCases
<1>6. IsList(TrueUnderlying[t]) <=> Head(TrueUnderlying[t]) = "Liste"
  BY Zenon, <1>4, <1>5 DEF IsList, Outermost, GetUnderlying
<1>7. IsList(TrueUnderlying[t]) <=> Head(toIrType(t)) = "Liste"
  BY Zenon, <1>6, IrTypeForms
<1>8. \A c \in BasicTypes : Head(c) \in Scalars
  BY Zenon, DistinctTypes, Words
<1>9. \A c \in BasicTypes : TrueUnderlying[t] = c <=> toIrType(t) = c
  BY Zenon, <1>8, IrTypeForms, Words
<1> QED
  BY Zenon, <1>2, <1>3, <1>7, <1>9 DEF IsTypeDef, IsAny, IsNumeric, Outermost, GetUnderlying

\* What the tests of the typechecker say about the IR type of an operand.
LEMMA Tests ==
  ASSUME NEW t \in Storable
  PROVE  /\ IsNumeric(t) => /\ toIrType(t) = Underlying[t]
                            /\ Underlying[t] \in {ZAHL, KOMMAZAHL, BYTE}
         /\ Integral(t) => toIrType(t) = Underlying[t] /\ Underlying[t] \in {ZAHL, BYTE}
         /\ isOneOf(t, {WAHRHEITSWERT})
              => toIrType(t) = WAHRHEITSWERT /\ Underlying[t] = WAHRHEITSWERT
         /\ isOneOf(t, {TEXT, BUCHSTABE})
              => toIrType(t) = Underlying[t] /\ Underlying[t] \in {TEXT, BUCHSTABE}
         /\ Indexable(t) => \/ IsList(t) /\ IsIrList(toIrType(t))
                            \/ /\ ~ IsList(t) /\ Underlying[t] = TEXT /\ toIrType(t) = TEXT
                               /\ ~ IsIrList(TEXT)
         /\ \A s \in Storable : Equal(t, s) => toIrType(t) = toIrType(s)
         /\ \A c \in BasicTypes : Equal(t, c) <=> Underlying[t] = c
<1>1. \A c \in BasicTypes : Equal(t, c) <=> Underlying[t] = c
  BY BasicTypesAreStorable, Zenon DEF Equal, GetUnderlying
<1>2. \A c \in BasicTypes : Underlying[t] = c => toIrType(t) = c
  BY Zenon, BasicValues
<1> USE DEF BasicTypes
<1>3. IsNumeric(t) => Underlying[t] \in {ZAHL, KOMMAZAHL, BYTE}
  BY Zenon DEF IsNumeric, GetUnderlying
<1>4. Integral(t) => Underlying[t] \in {ZAHL, BYTE}
  BY <1>1, Zenon DEF Integral, isOneOf
<1>5. isOneOf(t, {WAHRHEITSWERT}) => Underlying[t] = WAHRHEITSWERT
  BY <1>1, Zenon DEF isOneOf
<1>6. isOneOf(t, {TEXT, BUCHSTABE}) => Underlying[t] \in {TEXT, BUCHSTABE}
  BY <1>1, Zenon DEF isOneOf
<1>7. Indexable(t) => IsList(t) \/ Underlying[t] = TEXT
  BY <1>1, Zenon DEF Indexable
<1>8. IsList(t) => Head(toIrType(t)) = "Liste" /\ Underlying[t] # TEXT
  BY Zenon, IrTypeOfList, BasicValues
<1>9. Head(TEXT) # "Liste"
  BY Zenon, DistinctTypes
<1>10. Indexable(t) => \/ IsList(t) /\ IsIrList(toIrType(t))
                       \/ /\ ~ IsList(t) /\ Underlying[t] = TEXT /\ toIrType(t) = TEXT
                          /\ ~ IsIrList(TEXT)
  BY <1>2, <1>7, <1>8, <1>9, Zenon DEF IsIrList
<1>11. \A s \in Storable : Equal(t, s) => toIrType(t) = toIrType(s)
  BY Zenon, BasicValues, EqualTypesCompileAlike DEF Equal, GetUnderlying
<1> QED
  BY <1>1, <1>2, <1>3, <1>4, <1>5, <1>6, <1>10, <1>11, Zenon

\* The fields of the typechecker's answers.
LEMMA Answers ==
  ASSUME NEW accepted, NEW t
  PROVE  Typed(accepted, t).ok = accepted /\ Typed(accepted, t).typ = t
  BY Zenon DEF Typed

\* VisitUnaryExpr.
LEMMA UnaryAgrees ==
  ASSUME NEW op \in UnaryOps, NEW t \in Storable, TC_VisitUnaryExpr(op, t).ok,
         op \in {"UN_ABS", "UN_NEGATE"} => Underlying[t] # BYTE
  PROVE  Agrees(CG_VisitUnaryExpr(op, toIrType(t)), TC_VisitUnaryExpr(op, t).typ)
<1> DEFINE ir == toIrType(t)
<1> USE DEF BasicTypes
<1>1. CASE op \in {"UN_ABS", "UN_NEGATE"}
  <2>1. TC_VisitUnaryExpr(op, t)
          = Typed(IsNumeric(t), IF Equal(t, BYTE) THEN ZAHL ELSE t)
    BY <1>1, Zenon DEF TC_VisitUnaryExpr
  <2>2. IsNumeric(t) /\ TC_VisitUnaryExpr(op, t).typ = IF Equal(t, BYTE) THEN ZAHL ELSE t
    BY <2>1, Answers
  <2>3. ir \in {ZAHL, KOMMAZAHL} /\ Underlying[t] \in {ZAHL, KOMMAZAHL}
    BY Zenon, <1>1, <2>2, Tests
  <2>4. TC_VisitUnaryExpr(op, t).typ = t
    BY Zenon, <2>2, <2>3, Tests, DistinctTypes
  <2>5. CG_VisitUnaryExpr(op, ir) = Value(ir)
    <3>1. op = "UN_ABS" => CG_VisitUnaryExpr(op, ir) = VisitAbs(ir)
      BY Zenon DEF CG_VisitUnaryExpr
    <3>2. op = "UN_NEGATE" => CG_VisitUnaryExpr(op, ir) = VisitNegate(ir)
      BY Zenon DEF CG_VisitUnaryExpr
    <3>3. VisitAbs(ir) = Value(ir) /\ VisitNegate(ir) = Value(ir)
      BY <2>3, Conversions, Zenon DEF VisitAbs, VisitNegate
    <3> QED
      BY Zenon, <1>1, <3>1, <3>2, <3>3
  <2> QED
    BY Zenon, <2>4, <2>5, RightOutcomes
<1>2. CASE op = "UN_NOT"
  <2>1. TC_VisitUnaryExpr(op, t) = Typed(isOneOf(t, {WAHRHEITSWERT}), WAHRHEITSWERT)
    BY <1>2, Zenon DEF TC_VisitUnaryExpr
  <2>2. ir = WAHRHEITSWERT /\ TC_VisitUnaryExpr(op, t).typ = WAHRHEITSWERT
    BY <2>1, Answers, Tests
  <2>3. CG_VisitUnaryExpr(op, ir) = Outcome(WAHRHEITSWERT, WAHRHEITSWERT, TRUE, {})
    BY <1>2, <2>2, Zenon DEF CG_VisitUnaryExpr
  <2>4. WAHRHEITSWERT \in Storable /\ toIrType(WAHRHEITSWERT) = WAHRHEITSWERT
    BY Zenon, BasicTypesAreStorable DEF BasicTypes
  <2> QED
    BY Zenon, <2>2, <2>3, <2>4, RightOutcomes
<1>3. CASE op = "UN_LOGIC_NOT"
  <2>1. TC_VisitUnaryExpr(op, t) = Typed(Integral(t), t)
    BY <1>3, Zenon DEF TC_VisitUnaryExpr
  <2>2. TC_VisitUnaryExpr(op, t).typ = t
    BY <2>1, Answers
  <2>3. CG_VisitUnaryExpr(op, ir) = Value(ir)
    BY <1>3, Zenon DEF CG_VisitUnaryExpr
  <2> QED
    BY Zenon, <2>2, <2>3, RightOutcomes
<1>4. CASE op = "UN_LEN"
  <2>1. TC_VisitUnaryExpr(op, t) = Typed(Indexable(t), ZAHL)
    BY <1>4, Zenon DEF TC_VisitUnaryExpr
  <2>2. Indexable(t) /\ TC_VisitUnaryExpr(op, t).typ = ZAHL
    BY <2>1, Answers
  <2>3. ir = TEXT \/ IsIrList(ir)
    BY Zenon, <2>2, Tests
  <2>4. CG_VisitUnaryExpr(op, ir) = Value(ZAHL)
    <3>1. CG_VisitUnaryExpr(op, ir)
            = IF ir = TEXT \/ IsIrList(ir) THEN Value(ZAHL) ELSE Failed
      BY <1>4, Zenon DEF CG_VisitUnaryExpr
    <3> QED
      BY <2>3, <3>1, Zenon
  <2> QED
    BY Zenon, <2>2, <2>4, RightOutcomes, BasicTypesAreStorable
<1> QED
  BY Zenon, <1>1, <1>2, <1>3, <1>4 DEF UnaryOps

\* Plus, minus, times.
LEMMA ArithmeticAgrees ==
  ASSUME NEW l \in Storable, NEW r \in Storable, TypeOfArithmetic(l, r).ok,
         {Underlying[l], Underlying[r]} # {ZAHL, BYTE}
  PROVE  Agrees(VisitArithmetic(toIrType(l), toIrType(r)), TypeOfArithmetic(l, r).typ)
<1> DEFINE u == Underlying[l]
           v == Underlying[r]
           typ == TypeOfArithmetic(l, r).typ
<1> USE DEF BasicTypes
<1>1. IsNumeric(l) /\ IsNumeric(r)
  BY Zenon, Answers DEF TypeOfArithmetic
<1>2. /\ toIrType(l) = u /\ toIrType(r) = v
      /\ u \in {ZAHL, KOMMAZAHL, BYTE} /\ v \in {ZAHL, KOMMAZAHL, BYTE}
  BY Zenon, <1>1, Tests
<1>3. /\ Equal(l, ZAHL) <=> u = ZAHL
      /\ Equal(l, BYTE) <=> u = BYTE
      /\ Equal(l, KOMMAZAHL) <=> u = KOMMAZAHL
      /\ Equal(r, ZAHL) <=> v = ZAHL
      /\ Equal(r, BYTE) <=> v = BYTE
      /\ Equal(r, KOMMAZAHL) <=> v = KOMMAZAHL
  BY Zenon, Tests
<1>4. typ = CASE Equal(l, ZAHL) /\ Equal(r, ZAHL) -> ZAHL
              [] Equal(l, BYTE) /\ Equal(r, BYTE) -> BYTE
              [] Equal(l, KOMMAZAHL) \/ Equal(r, KOMMAZAHL) -> KOMMAZAHL
              [] OTHER -> BYTE
  BY Zenon DEF TypeOfArithmetic, Typed
<1> HIDE DEF u, v, typ
<1>5. u = v \/ u = KOMMAZAHL \/ v = KOMMAZAHL
  BY Zenon, <1>2 DEF u, v
<1>6. CASE u = KOMMAZAHL \/ v = KOMMAZAHL
  <2>1. typ = KOMMAZAHL
    BY <1>3, <1>4, <1>6, DistinctTypes, Zenon
  <2>2. VisitArithmetic(u, v) = Converted(KOMMAZAHL, intOrByteAsFloat(u) \cup intOrByteAsFloat(v))
    BY <1>2, <1>6, Conversions, DistinctTypes, Zenon DEF VisitArithmetic
  <2>3. intOrByteAsFloat(u) \cup intOrByteAsFloat(v) \subseteq Faithful
    BY Zenon, <1>2, Conversions
  <2> QED
    BY <1>2, <2>1, <2>2, <2>3, RightOutcomes, BasicTypesAreStorable DEF typ
<1>7. CASE u = v /\ u \in {ZAHL, BYTE}
  <2>1. typ = u
    BY <1>3, <1>4, <1>7, DistinctTypes, Zenon
  <2>2. ZAHL # BYTE /\ u # KOMMAZAHL
    BY Zenon, <1>7, DistinctTypes
  <2>3. {u, u} # {ZAHL, BYTE}
    BY Zenon, <2>2
  <2>4. VisitArithmetic(u, u) = Value(u)
    BY <1>7, <2>2, <2>3, Conversions, Zenon DEF VisitArithmetic
  <2> QED
    BY <1>2, <1>7, <2>1, <2>4, RightOutcomes, BasicTypesAreStorable DEF typ
<1> QED
  BY Zenon, <1>2, <1>5, <1>6, <1>7

\* Division, powers, logarithms.
LEMMA RealArithmeticAgrees ==
  ASSUME NEW l \in Storable, NEW r \in Storable, IsNumeric(l), IsNumeric(r)
  PROVE  /\ ~ (Underlying[l] = BYTE /\ Underlying[r] = KOMMAZAHL)
              => Agrees(VisitDiv(toIrType(l), toIrType(r)), KOMMAZAHL)
         /\ Agrees(VisitPowLog(toIrType(l), toIrType(r)), KOMMAZAHL)
<1> DEFINE u == Underlying[l]
           v == Underlying[r]
<1> USE DEF BasicTypes
<1>1. /\ toIrType(l) = u /\ toIrType(r) = v
      /\ u \in {ZAHL, KOMMAZAHL, BYTE} /\ v \in {ZAHL, KOMMAZAHL, BYTE}
  BY Zenon, Tests
<1> HIDE DEF u, v
<1> DEFINE conv == intOrByteAsFloat(u) \cup intOrByteAsFloat(v)
<1>2. conv \subseteq Faithful /\ intOrByteAsFloat(v) \cup intOrByteAsFloat(u) = conv
  BY Zenon, <1>1, Conversions
<1>3. VisitPowLog(u, v) = Converted(KOMMAZAHL, conv)
  BY <1>1, Conversions, Zenon DEF VisitPowLog
<1>4. ~ (u = BYTE /\ v = KOMMAZAHL) => VisitDiv(u, v) = Converted(KOMMAZAHL, conv)
  BY <1>1, <1>2, Conversions, Zenon DEF VisitDiv
<1> HIDE DEF conv
<1> QED
  BY <1>1, <1>2, <1>3, <1>4, RightOutcomes, BasicTypesAreStorable DEF u, v

\* Comparisons.
LEMMA ComparisonAgrees ==
  ASSUME NEW l \in Storable, NEW r \in Storable, IsNumeric(l), IsNumeric(r)
  PROVE  Agrees(VisitCompare(toIrType(l), toIrType(r)), WAHRHEITSWERT)
<1> DEFINE u == Underlying[l]
           v == Underlying[r]
<1> USE DEF BasicTypes
<1>1. /\ toIrType(l) = u /\ toIrType(r) = v
      /\ u \in {ZAHL, KOMMAZAHL, BYTE} /\ v \in {ZAHL, KOMMAZAHL, BYTE}
  BY Zenon, Tests
<1> HIDE DEF u, v
<1>2. /\ <<KOMMAZAHL, KOMMAZAHL, "ordered">> \in Faithful
      /\ <<BYTE, BYTE, "unsigned">> \in Faithful /\ <<ZAHL, ZAHL, "signed">> \in Faithful
  BY Zenon DEF Faithful
<1>3. \E conv : conv \subseteq Faithful /\ VisitCompare(u, v) = Converted(WAHRHEITSWERT, conv)
  <2>1. CASE KOMMAZAHL \in {u, v}
    <3>1. VisitCompare(u, v)
            = Converted(WAHRHEITSWERT, intOrByteAsFloat(u) \cup intOrByteAsFloat(v)
                                       \cup {<<KOMMAZAHL, KOMMAZAHL, "ordered">>})
      BY <2>1, DistinctTypes, Zenon DEF VisitCompare
    <3> QED
      BY Zenon, <1>1, <1>2, <3>1, Conversions
  <2>2. CASE u = BYTE /\ v = BYTE
    <3>1. VisitCompare(u, v) = Converted(WAHRHEITSWERT, {<<BYTE, BYTE, "unsigned">>})
      BY <2>2, DistinctTypes, Zenon DEF VisitCompare
    <3> QED
      BY Zenon, <1>2, <3>1
  <2>3. CASE KOMMAZAHL \notin {u, v} /\ ~ (u = BYTE /\ v = BYTE)
    <3>1. VisitCompare(u, v)
            = Converted(WAHRHEITSWERT, floatOrByteAsInt(u) \cup floatOrByteAsInt(v)
                                       \cup {<<ZAHL, ZAHL, "signed">>})
      BY <2>3, DistinctTypes, Zenon DEF VisitCompare
    <3> QED
      BY Zenon, <1>1, <1>2, <3>1, Conversions
  <2> QED
    BY Zenon, <2>1, <2>2, <2>3
<1> QED
  BY Zenon, <1>1, <1>3, RightOutcomes, BasicTypesAreStorable DEF u, v

\* Remainders, bitwise operators and shifts.
LEMMA IntegralAgrees ==
  ASSUME NEW l \in Storable, NEW r \in Storable, Integral(l), Integral(r)
  PROVE  /\ Agrees(VisitMod(toIrType(l), toIrType(r)), TypeOfIntegral(l, r).typ)
         /\ BYTE \notin {Underlying[l], Underlying[r]}
              => Agrees(VisitLogic(toIrType(l), toIrType(r)), TypeOfIntegral(l, r).typ)
         /\ {Underlying[l], Underlying[r]} # {ZAHL, BYTE}
              => Agrees(VisitShift(toIrType(l), toIrType(r)), l)
<1> DEFINE u == Underlying[l]
           v == Underlying[r]
           typ == TypeOfIntegral(l, r).typ
<1> USE DEF BasicTypes
<1>1. /\ toIrType(l) = u /\ toIrType(r) = v
      /\ u \in {ZAHL, BYTE} /\ v \in {ZAHL, BYTE}
  BY Zenon, Tests
<1>2. typ = IF u = ZAHL \/ v = ZAHL THEN ZAHL ELSE BYTE
  <2>1. typ = IF isOneOf(ZAHL, {l, r}) THEN ZAHL ELSE BYTE
    BY Zenon, Answers DEF TypeOfIntegral
  <2>2. Equal(ZAHL, l) <=> u = ZAHL
    BY Zenon, BasicTypesAreStorable DEF Equal, GetUnderlying
  <2>3. Equal(ZAHL, r) <=> v = ZAHL
    BY Zenon, BasicTypesAreStorable DEF Equal, GetUnderlying
  <2>4. isOneOf(ZAHL, {l, r}) <=> u = ZAHL \/ v = ZAHL
    BY <2>2, <2>3, Zenon DEF isOneOf
  <2> QED
    BY <2>1, <2>4, Zenon
<1> HIDE DEF u, v, typ
<1>3. /\ <<BYTE, BYTE, "unsigned">> \in Faithful /\ <<ZAHL, ZAHL, "signed">> \in Faithful
  BY Zenon DEF Faithful
<1>4. Agrees(VisitMod(u, v), typ)
  <2>1. CASE u = BYTE /\ v = BYTE
    <3>1. VisitMod(u, v) = Converted(BYTE, {<<BYTE, BYTE, "unsigned">>})
      BY <2>1, Zenon DEF VisitMod
    <3>2. typ = BYTE
      BY Zenon, <1>2, <2>1, DistinctTypes
    <3> QED
      BY Zenon, <1>3, <3>1, <3>2, RightOutcomes, BasicTypesAreStorable
  <2>2. CASE ~ (u = BYTE /\ v = BYTE)
    <3> DEFINE conv == {<<ZAHL, ZAHL, "signed">>} \cup floatOrByteAsInt(u) \cup floatOrByteAsInt(v)
    <3>1. VisitMod(u, v) = Converted(ZAHL, conv)
      BY <2>2, Zenon DEF VisitMod
    <3>2. typ = ZAHL
      BY Zenon, <1>1, <1>2, <2>2
    <3>3. conv \subseteq Faithful
      BY Zenon, <1>1, <1>3, Conversions
    <3> HIDE DEF conv
    <3> QED
      BY Zenon, <3>1, <3>2, <3>3, RightOutcomes, BasicTypesAreStorable
  <2> QED
    BY Zenon, <2>1, <2>2
<1>5. BYTE \notin {u, v} => Agrees(VisitLogic(u, v), typ)
  <2> SUFFICES ASSUME u = ZAHL, v = ZAHL PROVE Agrees(VisitLogic(u, v), typ)
    BY Zenon, <1>1
  <2>1. VisitLogic(u, v) = Outcome(ZAHL, ZAHL, TRUE, {})
    BY Zenon DEF VisitLogic
  <2> QED
    BY Zenon, <1>2, <2>1, RightOutcomes, BasicTypesAreStorable
<1>6. {u, v} # {ZAHL, BYTE} => Agrees(VisitShift(u, v), l)
  <2> SUFFICES ASSUME u = v PROVE Agrees(VisitShift(u, v), l)
    BY Zenon, <1>1
  <2>1. VisitShift(u, v) = Outcome(u, u, TRUE, {})
    BY Zenon DEF VisitShift
  <2> QED
    BY Zenon, <1>1, <2>1, RightOutcomes
<1> QED
  BY Zenon, <1>1, <1>4, <1>5, <1>6 DEF u, v, typ

\* Elements and slices of texts and lists.
LEMMA IndexAgrees ==
  ASSUME NEW l \in Storable, NEW r \in Storable, Indexable(l), Integral(r)
  PROVE  /\ Agrees(VisitIndex(toIrType(l), toIrType(r)),
                   IF IsList(l) THEN GetListElementType(l) ELSE BUCHSTABE)
         /\ Agrees(VisitSliceFromTo(toIrType(l), toIrType(r)), IF IsList(l) THEN l ELSE TEXT)
<1> DEFINE il == toIrType(l)
           ir == toIrType(r)
<1> USE DEF BasicTypes
<1>1. floatOrByteAsInt(ir) \subseteq Faithful
  BY Zenon, Tests, Conversions
<1>2. CASE IsList(l)
  <2>1. IsIrList(il) /\ il # TEXT
    BY Zenon, <1>2, IrTypeOfList, DistinctTypes DEF IsIrList
  <2>2. GetListElementType(l) \in Storable /\ Tail(il) = toIrType(GetListElementType(l))
    BY Zenon, <1>2, IrTypeOfList
  <2> HIDE DEF il, ir
  <2>3. VisitIndex(il, ir) = Converted(Tail(il), floatOrByteAsInt(ir))
    BY <2>1, Zenon DEF VisitIndex
  <2>4. VisitSliceFromTo(il, ir) = Converted(il, floatOrByteAsInt(ir))
    BY <2>1, Zenon DEF VisitSliceFromTo
  <2> QED
    BY Zenon, <1>1, <1>2, <2>2, <2>3, <2>4, RightOutcomes DEF il, ir
<1>3. CASE ~ IsList(l)
  <2>1. il = TEXT /\ ~ IsIrList(il)
    BY Zenon, <1>3, Tests
  <2> HIDE DEF il, ir
  <2>2. VisitIndex(il, ir) = Converted(BUCHSTABE, floatOrByteAsInt(ir))
    BY <2>1, Zenon DEF VisitIndex
  <2>3. VisitSliceFromTo(il, ir) = Converted(TEXT, floatOrByteAsInt(ir))
    BY <2>1, Zenon DEF VisitSliceFromTo
  <2> QED
    BY Zenon, <1>1, <1>3, <2>2, <2>3, RightOutcomes, BasicTypesAreStorable DEF il, ir
<1> QED
  BY Zenon, <1>2, <1>3

\* Concatenation of texts, characters, lists and elements.
LEMMA ConcatAgrees ==
  ASSUME NEW l \in Storable, NEW r \in Storable, TypeOfConcat(l, r).ok,
         IsTypeDef(l) => toIrType(l) # TEXT /\ Head(toIrType(l)) # "Liste",
         IsTypeDef(r) => toIrType(r) # TEXT /\ Head(toIrType(r)) # "Liste"
  PROVE  Agrees(VisitConcat(toIrType(l), toIrType(r)), TypeOfConcat(l, r).typ)
<1> DEFINE il == toIrType(l)
           ir == toIrType(r)
           typ == TypeOfConcat(l, r).typ
           texts == ~ IsList(l) /\ ~ IsList(r) /\ (Equal(l, TEXT) \/ Equal(r, TEXT))
<1> USE DEF BasicTypes
<1>1. texts <=> ~ IsList(l) /\ ~ IsList(r) /\ (Underlying[l] = TEXT \/ Underlying[r] = TEXT)
  BY Zenon, Tests
<1>2. /\ IsIrList(il) <=> IsList(l)
      /\ IsIrList(ir) <=> IsList(r)
  BY Zenon, BasicValues, IrTypeOfList, Words DEF IsIrList
<1>3. /\ Underlying[l] = TEXT <=> il = TEXT
      /\ Underlying[r] = TEXT <=> ir = TEXT
  BY Zenon, BasicValues
<1>4. CASE texts
  <2>1. /\ typ = TEXT /\ isOneOf(l, {TEXT, BUCHSTABE})
        /\ isOneOf(r, {TEXT, BUCHSTABE})
    <3>1. TypeOfConcat(l, r)
            = Typed(\A t \in {l, r} : isOneOf(t, {TEXT, BUCHSTABE}), TEXT)
      BY <1>4, Zenon DEF TypeOfConcat
    <3>2. \A t \in {l, r} : isOneOf(t, {TEXT, BUCHSTABE})
      BY Zenon, <3>1, Answers
    <3> QED
      BY Zenon, <3>1, <3>2, Answers
  <2>2. il \in {TEXT, BUCHSTABE} /\ ir \in {TEXT, BUCHSTABE}
    BY Zenon, <2>1, Tests
  <2>3. ~ IsIrList(il) /\ ~ IsIrList(ir) /\ TEXT \in {il, ir}
    BY Zenon, <1>1, <1>2, <1>3, <1>4
  <2>4. {il, ir} \subseteq {TEXT, BUCHSTABE}
    BY Zenon, <2>2
  <2> HIDE DEF il, ir
  <2>5. VisitConcat(il, ir) = Outcome(TEXT, TEXT, {il, ir} \subseteq {TEXT, BUCHSTABE}, {})
    BY <2>3, Zenon DEF VisitConcat
  <2> QED
    BY Zenon, <2>1, <2>4, <2>5, RightOutcomes, BasicTypesAreStorable DEF il, ir
<1>5. CASE ~ texts
  <2> DEFINE el == GetListElementType(l)
             er == GetListElementType(r)
  <2>1. typ = ListOf(el) /\ Equal(el, er)
    <3>1. TypeOfConcat(l, r) = Typed(Equal(GetListElementType(l), GetListElementType(r)),
                                     ListOf(GetListElementType(l)))
      BY <1>5, Zenon DEF TypeOfConcat
    <3>2. Equal(GetListElementType(l), GetListElementType(r)) /\ typ = ListOf(GetListElementType(l))
      BY <3>1, Answers
    <3> QED
      BY Zenon, <3>2
  <2>2. el \in Storable /\ er \in Storable
    BY Zenon, IrTypeOfList DEF GetListElementType
  <2>3. toIrType(el) = toIrType(er)
    BY Zenon, <2>1, <2>2, BasicValues, EqualTypesCompileAlike DEF Equal, GetUnderlying
  <2>4. /\ IsList(l) => il = ListOf(toIrType(el)) /\ Tail(il) = toIrType(el)
        /\ ~ IsList(l) => el = l
        /\ IsList(r) => ir = ListOf(toIrType(er)) /\ Tail(ir) = toIrType(er)
        /\ ~ IsList(r) => er = r
    BY Zenon, IrTypeOfList DEF GetListElementType
  <2>5. Head(toIrType(el)) # "Liste"
    <3>1. IsList(l) => Head(toIrType(el)) \in Scalars
      BY Zenon, IrTypeOfList
    <3>2. ~ IsList(l) => el = l /\ ~ IsIrList(il)
      BY Zenon, <1>2, <2>4
    <3> QED
      BY Zenon, <3>1, <3>2, Words DEF IsIrList
  <2>6. typ \in Storable /\ toIrType(typ) = ListOf(toIrType(el))
    BY Zenon, <2>1, <2>2, <2>5, ListsAreStorable
  <2>7. ~ IsList(l) /\ ~ IsList(r) => TEXT \notin {il, ir}
    BY Zenon, <1>1, <1>3, <1>5
  <2> HIDE DEF il, ir, el, er, typ
  <2>8. IsIrList(il) => VisitConcat(il, ir) = Outcome(il, il, ir \in {il, Tail(il)}, {})
    BY Zenon DEF VisitConcat
  <2>9. ~ IsIrList(il) /\ IsIrList(ir)
          => VisitConcat(il, ir) = Outcome(ir, ir, il = Tail(ir), {})
    BY Zenon DEF VisitConcat
  <2>10. ~ IsIrList(il) /\ ~ IsIrList(ir) /\ TEXT \notin {il, ir}
          => VisitConcat(il, ir) = Outcome(ListOf(il), ListOf(il), il = ir, {})
    BY Zenon DEF VisitConcat
  <2>11. il = toIrType(l) /\ ir = toIrType(r)
    BY Zenon DEF il, ir
  <2>12. CASE IsList(l)
    <3>1. ir \in {il, Tail(il)}
      BY Zenon, <2>3, <2>4, <2>11, <2>12
    <3> QED
      BY Zenon, <1>2, <2>4, <2>6, <2>8, <2>11, <2>12, <3>1, RightOutcomes DEF typ
  <2>13. CASE ~ IsList(l) /\ IsList(r)
    <3>1. il = Tail(ir) /\ ir = ListOf(toIrType(el))
      BY Zenon, <2>3, <2>4, <2>11, <2>13
    <3> QED
      BY Zenon, <1>2, <2>6, <2>9, <2>11, <2>13, <3>1, RightOutcomes DEF typ
  <2>14. CASE ~ IsList(l) /\ ~ IsList(r)
    <3>1. il = ir /\ il = toIrType(el)
      BY Zenon, <2>3, <2>4, <2>11, <2>14
    <3> QED
      BY Zenon, <1>2, <2>6, <2>7, <2>10, <2>11, <2>14, <3>1, RightOutcomes DEF typ
  <2> QED
    BY Zenon, <2>12, <2>13, <2>14
<1> QED
  BY Zenon, <1>4, <1>5

\* VisitBinaryExpr.
LEMMA BinaryAgrees ==
  ASSUME NEW op \in BinaryOps, NEW l \in Storable, NEW r \in Storable,
         NEW ts, DOMAIN ts = 1..2, ts[1] = l, ts[2] = r,
         TC_VisitBinaryExpr(op, l, r).ok, ~ KnownDivergence(op, ts)
  PROVE  Agrees(CG_VisitBinaryExpr(op, toIrType(l), toIrType(r)), TC_VisitBinaryExpr(op, l, r).typ)
<1> DEFINE il == toIrType(l)
           ir == toIrType(r)
           tc == TC_VisitBinaryExpr(op, l, r)
           cg == CG_VisitBinaryExpr(op, il, ir)
<1> USE DEF BasicTypes
<1>1. CASE op = "BIN_CONCAT"
  <2>1. tc = TypeOfConcat(l, r) /\ cg = VisitConcat(il, ir)
    BY <1>1, Zenon DEF TC_VisitBinaryExpr, CG_VisitBinaryExpr
  <2>2. \A e \in {Underlying[l], Underlying[r]} :
          ~ (IsTypeDef(e) /\ (TrueUnderlying[e] = TEXT \/ IsList(TrueUnderlying[e])))
    BY <1>1, BinaryDivergences
  <2>3. /\ IsTypeDef(l) => il # TEXT /\ Head(il) # "Liste"
        /\ IsTypeDef(r) => ir # TEXT /\ Head(ir) # "Liste"
    BY <2>2, UnderlyingViews
  <2> QED
    BY Zenon, <2>1, <2>3, ConcatAgrees
<1>2. CASE op \in {"BIN_PLUS", "BIN_MINUS", "BIN_MULT"}
  <2>1. tc = TypeOfArithmetic(l, r) /\ cg = VisitArithmetic(il, ir)
    BY <1>2, Zenon DEF TC_VisitBinaryExpr, CG_VisitBinaryExpr
  <2>2. {Underlying[l], Underlying[r]} # {ZAHL, BYTE}
    BY <1>2, BinaryDivergences
  <2> QED
    BY Zenon, <2>1, <2>2, ArithmeticAgrees
<1>3. CASE op = "BIN_INDEX"
  <2>1. /\ tc = Typed(Indexable(l) /\ Integral(r),
                      IF IsList(l) THEN GetListElementType(l) ELSE BUCHSTABE)
        /\ cg = VisitIndex(il, ir)
    BY <1>3, Zenon DEF TC_VisitBinaryExpr, CG_VisitBinaryExpr
  <2>2. Indexable(l) /\ Integral(r) /\ tc.typ = IF IsList(l) THEN GetListElementType(l) ELSE BUCHSTABE
    <3>1. Indexable(l) /\ Integral(r)
      BY <2>1, Answers, Zenon
    <3>2. tc.typ = IF IsList(l) THEN GetListElementType(l) ELSE BUCHSTABE
      BY <2>1, Answers
    <3> QED
      BY Zenon, <3>1, <3>2
  <2> QED
    BY Zenon, <2>1, <2>2, IndexAgrees
<1>4. CASE op \in {"BIN_SLICE_FROM", "BIN_SLICE_TO"}
  <2>1. /\ tc = Typed(Indexable(l) /\ Integral(r), IF IsList(l) THEN l ELSE TEXT)
        /\ cg = VisitSliceFromTo(il, ir)
    BY <1>4, Zenon DEF TC_VisitBinaryExpr, CG_VisitBinaryExpr
  <2>2. Indexable(l) /\ Integral(r) /\ tc.typ = IF IsList(l) THEN l ELSE TEXT
    <3>1. Indexable(l) /\ Integral(r)
      BY <2>1, Answers, Zenon
    <3>2. tc.typ = IF IsList(l) THEN l ELSE TEXT
      BY <2>1, Answers
    <3> QED
      BY Zenon, <3>1, <3>2
  <2> QED
    BY Zenon, <2>1, <2>2, IndexAgrees
<1>5. CASE op \in {"BIN_DIV", "BIN_POW", "BIN_LOG"}
  <2>1. /\ tc = Typed(IsNumeric(l) /\ IsNumeric(r), KOMMAZAHL)
        /\ cg = IF op = "BIN_DIV" THEN VisitDiv(il, ir) ELSE VisitPowLog(il, ir)
    BY <1>5, Zenon DEF TC_VisitBinaryExpr, CG_VisitBinaryExpr
  <2>2. IsNumeric(l) /\ IsNumeric(r) /\ tc.typ = KOMMAZAHL
    <3>1. IsNumeric(l) /\ IsNumeric(r)
      BY <2>1, Answers, Zenon
    <3>2. tc.typ = KOMMAZAHL
      BY <2>1, Answers
    <3> QED
      BY Zenon, <3>1, <3>2
  <2>3. op = "BIN_DIV" => ~ (Underlying[l] = BYTE /\ Underlying[r] = KOMMAZAHL)
    BY BinaryDivergences
  <2> QED
    BY Zenon, <2>1, <2>2, <2>3, RealArithmeticAgrees
<1>6. CASE op \in {"BIN_MOD", "BIN_LOGIC_AND", "BIN_LOGIC_OR", "BIN_LOGIC_XOR"}
  <2>1. /\ tc = TypeOfIntegral(l, r)
        /\ cg = IF op = "BIN_MOD" THEN VisitMod(il, ir) ELSE VisitLogic(il, ir)
    BY <1>6, Zenon DEF TC_VisitBinaryExpr, CG_VisitBinaryExpr
  <2>2. Integral(l) /\ Integral(r)
    BY Zenon, <2>1, Answers DEF TypeOfIntegral
  <2>3. op # "BIN_MOD" => BYTE \notin {Underlying[l], Underlying[r]}
    BY <1>6, BinaryDivergences
  <2> QED
    BY <2>1, <2>2, <2>3, IntegralAgrees
<1>7. CASE op \in {"BIN_AND", "BIN_OR", "BIN_XOR"}
  <2> DEFINE accepted == \A t \in {l, r} : isOneOf(t, {WAHRHEITSWERT})
  <2>1. /\ tc = Typed(accepted, WAHRHEITSWERT)
        /\ cg = Outcome(WAHRHEITSWERT, il, il = ir, {})
    BY <1>7, Zenon DEF TC_VisitBinaryExpr, CG_VisitBinaryExpr
  <2>2. accepted
    <3> HIDE DEF accepted
    <3> QED BY <2>1, Answers
  <2>3. tc.typ = WAHRHEITSWERT
    BY <2>1 DEF Typed
  <2>4. il = WAHRHEITSWERT /\ ir = WAHRHEITSWERT
    BY Zenon, <2>2, Tests
  <2> HIDE DEF tc, cg, il, ir
  <2>5. Agrees(cg, tc.typ)
    BY Zenon, <2>1, <2>3, <2>4, RightOutcomes, BasicTypesAreStorable
  <2> QED
    BY Zenon, <2>5 DEF tc, cg, il, ir
<1>8. CASE op \in {"BIN_LEFT_SHIFT", "BIN_RIGHT_SHIFT"}
  <2>1. tc = Typed(Integral(l) /\ Integral(r), l) /\ cg = VisitShift(il, ir)
    BY <1>8, Zenon DEF TC_VisitBinaryExpr, CG_VisitBinaryExpr
  <2>2. Integral(l) /\ Integral(r) /\ tc.typ = l
    <3>1. Integral(l) /\ Integral(r)
      BY <2>1, Answers, Zenon
    <3>2. tc.typ = l
      BY <2>1, Answers
    <3> QED
      BY Zenon, <3>1, <3>2
  <2>3. {Underlying[l], Underlying[r]} # {ZAHL, BYTE}
    BY <1>8, BinaryDivergences
  <2> QED
    BY <2>1, <2>2, <2>3, IntegralAgrees
<1>9. CASE op \in {"BIN_EQUAL", "BIN_UNEQUAL"}
  <2>1. tc = Typed(Equal(l, r), WAHRHEITSWERT) /\ cg = VisitEqual(il, ir)
    BY <1>9, Zenon DEF TC_VisitBinaryExpr, CG_VisitBinaryExpr
  <2>2. Equal(l, r) /\ tc.typ = WAHRHEITSWERT
    BY <2>1, Answers
  <2>3. il = ir
    BY Zenon, <2>2, Tests
  <2> HIDE DEF tc, cg, il, ir
  <2>4. cg = Outcome(WAHRHEITSWERT, WAHRHEITSWERT, il = ir, {})
    BY <2>1, Zenon DEF VisitEqual
  <2>5. Agrees(cg, tc.typ)
    BY Zenon, <2>2, <2>3, <2>4, RightOutcomes, BasicTypesAreStorable
  <2> QED
    BY Zenon, <2>5 DEF tc, cg, il, ir
<1>10. CASE op \in {"BIN_GREATER", "BIN_LESS", "BIN_GREATER_EQ", "BIN_LESS_EQ"}
  <2>1. /\ tc = Typed(IsNumeric(l) /\ IsNumeric(r), WAHRHEITSWERT)
        /\ cg = VisitCompare(il, ir)
    BY <1>10, Zenon DEF TC_VisitBinaryExpr, CG_VisitBinaryExpr
  <2>2. IsNumeric(l) /\ IsNumeric(r) /\ tc.typ = WAHRHEITSWERT
    <3>1. IsNumeric(l) /\ IsNumeric(r)
      BY <2>1, Answers, Zenon
    <3>2. tc.typ = WAHRHEITSWERT
      BY <2>1, Answers
    <3> QED
      BY Zenon, <3>1, <3>2
  <2> QED
    BY Zenon, <2>1, <2>2, ComparisonAgrees
<1> QED
  BY Zenon, <1>1, <1>2, <1>3, <1>4, <1>5, <1>6, <1>7, <1>8, <1>9, <1>10 DEF BinaryOps

\* VisitTernaryExpr.
LEMMA TernaryAgrees ==
  ASSUME NEW op \in TernaryOps, NEW l \in Storable, NEW m \in Storable, NEW r \in Storable,
         TC_VisitTernaryExpr(op, l, m, r).ok
  PROVE  Agrees(CG_VisitTernaryExpr(op, toIrType(l), toIrType(m), toIrType(r)),
                TC_VisitTernaryExpr(op, l, m, r).typ)
<1> DEFINE il == toIrType(l)
           im == toIrType(m)
           ir == toIrType(r)
           tc == TC_VisitTernaryExpr(op, l, m, r)
           cg == CG_VisitTernaryExpr(op, il, im, ir)
<1> USE DEF BasicTypes
<1>1. CASE op = "TER_SLICE"
  <2>1. /\ tc = Typed(Indexable(l) /\ Integral(m) /\ Integral(r),
                      IF IsList(l) THEN l ELSE TEXT)
        /\ cg = IF il = TEXT \/ IsIrList(il)
                  THEN Converted(il, floatOrByteAsInt(im) \cup floatOrByteAsInt(ir))
                  ELSE Failed
    BY <1>1, Zenon DEF TC_VisitTernaryExpr, CG_VisitTernaryExpr
  <2>2. Indexable(l) /\ Integral(m) /\ Integral(r)
    BY <2>1, Answers, Zenon
  <2>3. tc.typ = IF IsList(l) THEN l ELSE TEXT
    BY <2>1, Answers
  <2>4. floatOrByteAsInt(im) \cup floatOrByteAsInt(ir) \subseteq Faithful
    BY Zenon, <2>2, Tests, Conversions
  <2>5. (il = TEXT \/ IsIrList(il)) /\ tc.typ \in Storable /\ il = toIrType(tc.typ)
    BY Zenon, <2>2, <2>3, Tests, BasicTypesAreStorable
  <2> HIDE DEF tc, cg, il, im, ir
  <2>6. Agrees(cg, tc.typ)
    BY Zenon, <2>1, <2>4, <2>5, RightOutcomes
  <2> QED
    BY Zenon, <2>6 DEF tc, cg, il, im, ir
<1>2. CASE op = "TER_BETWEEN"
  <2> DEFINE three == {il, im, ir}
             asFloats == UNION {intOrByteAsFloat(t) : t \in three}
             asInts == UNION {floatOrByteAsInt(t) : t \in three}
  <2>1. /\ tc = Typed(\A t \in {l, m, r} : IsNumeric(t), WAHRHEITSWERT)
        /\ cg = CASE KOMMAZAHL \in three ->
                       Converted(WAHRHEITSWERT, {<<KOMMAZAHL, KOMMAZAHL, "ordered">>} \cup asFloats)
                  [] three = {BYTE} -> Converted(WAHRHEITSWERT, {<<BYTE, BYTE, "unsigned">>})
                  [] OTHER -> Converted(WAHRHEITSWERT, {<<ZAHL, ZAHL, "signed">>} \cup asInts)
    BY <1>2, Zenon DEF TC_VisitTernaryExpr, CG_VisitTernaryExpr
  <2>2. \A t \in {l, m, r} : IsNumeric(t)
    BY <2>1, Answers, Zenon
  <2>3. tc.typ = WAHRHEITSWERT
    BY <2>1 DEF Typed
  <2>4. three \subseteq {ZAHL, KOMMAZAHL, BYTE}
    BY Zenon, <2>2, Tests
  <2> HIDE DEF tc, cg, three
  <2>5. asFloats \subseteq Faithful /\ asInts \subseteq Faithful
    BY <2>4, Conversions, Zenon
  <2>6. /\ <<KOMMAZAHL, KOMMAZAHL, "ordered">> \in Faithful
        /\ <<BYTE, BYTE, "unsigned">> \in Faithful /\ <<ZAHL, ZAHL, "signed">> \in Faithful
    BY Zenon DEF Faithful
  <2> HIDE DEF asFloats, asInts
  <2>7. \/ cg = Converted(WAHRHEITSWERT, {<<KOMMAZAHL, KOMMAZAHL, "ordered">>} \cup asFloats)
        \/ cg = Converted(WAHRHEITSWERT, {<<BYTE, BYTE, "unsigned">>})
        \/ cg = Converted(WAHRHEITSWERT, {<<ZAHL, ZAHL, "signed">>} \cup asInts)
    <3>1. three = {BYTE} => KOMMAZAHL \notin three
      BY Zenon, DistinctTypes
    <3>2. CASE KOMMAZAHL \in three
      BY <2>1, <3>1, <3>2, Zenon
    <3>3. CASE three = {BYTE}
      BY <2>1, <3>1, <3>3, Zenon
    <3>4. CASE KOMMAZAHL \notin three /\ three # {BYTE}
      BY <2>1, <3>4, Zenon
    <3> QED
      BY Zenon, <3>2, <3>3, <3>4
  <2>8. \E conv : conv \subseteq Faithful /\ cg = Converted(WAHRHEITSWERT, conv)
    BY Zenon, <2>5, <2>6, <2>7
  <2>9. Agrees(cg, tc.typ)
    BY <2>3, <2>8, RightOutcomes, BasicTypesAreStorable
  <2> QED
    BY Zenon, <2>9 DEF tc, cg
<1>3. CASE op = "TER_FALLS"
  <2>1. /\ tc = Typed(Equal(l, r) /\ isOneOf(m, {WAHRHEITSWERT}), l)
        /\ cg = Outcome(il, il, il = ir /\ im = WAHRHEITSWERT, {})
    BY <1>3, Zenon DEF TC_VisitTernaryExpr, CG_VisitTernaryExpr
  <2>2. Equal(l, r) /\ isOneOf(m, {WAHRHEITSWERT})
    BY <2>1, Answers, Zenon
  <2>3. tc.typ = l
    BY Zenon, <2>1, Answers
  <2>4. il = ir /\ im = WAHRHEITSWERT
    BY Zenon, <2>2, Tests
  <2> HIDE DEF tc, cg, il, im, ir
  <2>5. il = toIrType(l)
    BY Zenon DEF il
  <2>6. Agrees(cg, tc.typ)
    BY Zenon, <2>1, <2>3, <2>4, <2>5, RightOutcomes
  <2> QED
    BY Zenon, <2>6 DEF tc, cg, il, im, ir
<1> QED
  BY Zenon, <1>1, <1>2, <1>3 DEF TernaryOps

\* A cast is compiled according to the IR type of its target.
LEMMA CastCases ==
  ASSUME NEW t \in Storable, NEW l
  PROVE  LET ir == toIrType(t)
             cg == CG_VisitCastExpr(l, t)
         IN /\ Head(ir) = "Liste" => cg = CastToList(l, ir)
            /\ ir = ZAHL => cg = CastToZahl(l)
            /\ ir = KOMMAZAHL => cg = CastToKommazahl(l)
            /\ ir = BYTE => cg = CastToByte(l)
            /\ ir = WAHRHEITSWERT => cg = CastToWahrheitswert(l)
            /\ ir = BUCHSTABE => cg = CastToBuchstabe(l)
            /\ ir = TEXT => cg = CastToText(l)
            /\ ir = VARIABLE_ => cg = Value(VARIABLE_)
            /\ Head(ir) # "Liste" /\ ir \notin BasicTypes
                 => cg = Outcome(ir, IF l = VARIABLE_ THEN ir ELSE l, TRUE, {})
<1> DEFINE ir == toIrType(t)
           u == TrueUnderlying[t]
           cg == CG_VisitCastExpr(l, t)
<1> USE DEF BasicTypes
<1>1. Head(ir) = Head(u) /\ \A c \in BasicTypes : u = c <=> ir = c
  BY Zenon, IrTypeForms, UnderlyingViews
<1>2. \A c \in BasicTypes : Head(c) # "Liste"
  BY Zenon, DistinctTypes
<1>3. cg = CASE Head(u) = "Liste"   -> CastToList(l, ir)
             [] u = ZAHL            -> CastToZahl(l)
             [] u = KOMMAZAHL       -> CastToKommazahl(l)
             [] u = BYTE            -> CastToByte(l)
             [] u = WAHRHEITSWERT   -> CastToWahrheitswert(l)
             [] u = BUCHSTABE       -> CastToBuchstabe(l)
             [] u = TEXT            -> CastToText(l)
             [] u = VARIABLE_       -> Value(VARIABLE_)
             [] OTHER -> Outcome(ir, IF l = VARIABLE_ THEN ir ELSE l, TRUE, {})
  BY Zenon DEF CG_VisitCastExpr
<1> HIDE DEF cg, ir, u
<1>4. Head(u) = "Liste" => cg = CastToList(l, ir)
  BY <1>2, <1>3, Zenon
<1>5. u = ZAHL => cg = CastToZahl(l)
  BY <1>2, <1>3, DistinctTypes, Zenon
<1>6. u = KOMMAZAHL => cg = CastToKommazahl(l)
  BY <1>2, <1>3, DistinctTypes, Zenon
<1>7. u = BYTE => cg = CastToByte(l)
  BY <1>2, <1>3, DistinctTypes, Zenon
<1>8. u = WAHRHEITSWERT => cg = CastToWahrheitswert(l)
  BY <1>2, <1>3, DistinctTypes, Zenon
<1>9. u = BUCHSTABE => cg = CastToBuchstabe(l)
  BY <1>2, <1>3, DistinctTypes, Zenon
<1>10. u = TEXT => cg = CastToText(l)
  BY <1>2, <1>3, DistinctTypes, Zenon
<1>11. u = VARIABLE_ => cg = Value(VARIABLE_)
  BY <1>2, <1>3, DistinctTypes, Zenon
<1>12. Head(u) # "Liste" /\ u \notin BasicTypes
         => cg = Outcome(ir, IF l = VARIABLE_ THEN ir ELSE l, TRUE, {})
  BY <1>3, Zenon
<1>13. u \in BasicTypes <=> ir \in BasicTypes
  BY Zenon, <1>1
<1> QED
  BY <1>1, <1>4, <1>5, <1>6, <1>7, <1>8, <1>9, <1>10, <1>11, <1>12, <1>13, Zenon DEF cg, ir

\* The conversions of primitive values.
LEMMA PrimitiveCasts ==
  /\ \A l \in {ZAHL, KOMMAZAHL, BYTE, WAHRHEITSWERT, BUCHSTABE, TEXT, VARIABLE_} :
       Agrees(CastToZahl(l), ZAHL)
  /\ \A l \in {ZAHL, KOMMAZAHL, BYTE, TEXT, VARIABLE_} : Agrees(CastToKommazahl(l), KOMMAZAHL)
  /\ \A l \in {ZAHL, KOMMAZAHL, BYTE} : Agrees(CastToByte(l), BYTE)
  /\ \A l \in {ZAHL, BYTE, WAHRHEITSWERT, VARIABLE_} : Agrees(CastToWahrheitswert(l), WAHRHEITSWERT)
  /\ \A l \in {ZAHL, BYTE, BUCHSTABE, VARIABLE_} : Agrees(CastToBuchstabe(l), BUCHSTABE)
  /\ \A l \in {ZAHL, KOMMAZAHL, BYTE, WAHRHEITSWERT, BUCHSTABE, TEXT, VARIABLE_} :
       Agrees(CastToText(l), TEXT)
<1> USE DEF BasicTypes
<1>1. /\ <<WAHRHEITSWERT, ZAHL, "ZExt">> \in Faithful /\ <<BUCHSTABE, ZAHL, "SExt">> \in Faithful
      /\ <<ZAHL, BUCHSTABE, "Trunc">> \in Faithful /\ <<BYTE, BUCHSTABE, "ZExt">> \in Faithful
  BY Zenon DEF Faithful
<1>2. \A c \in BasicTypes : /\ Agrees(Value(c), c)
                            /\ \A conv : conv \subseteq Faithful => Agrees(Converted(c, conv), c)
  BY Zenon, RightOutcomes, BasicTypesAreStorable
<1>3. ASSUME NEW l \in {ZAHL, KOMMAZAHL, BYTE, WAHRHEITSWERT, BUCHSTABE, TEXT, VARIABLE_}
      PROVE  Agrees(CastToZahl(l), ZAHL)
  <2>1. \/ l \in {ZAHL, KOMMAZAHL, BYTE} /\ CastToZahl(l) = Converted(ZAHL, numericCast(l, ZAHL))
        \/ CastToZahl(l) = Converted(ZAHL, {<<WAHRHEITSWERT, ZAHL, "ZExt">>})
        \/ CastToZahl(l) = Converted(ZAHL, {<<BUCHSTABE, ZAHL, "SExt">>})
        \/ CastToZahl(l) = Value(ZAHL)
    BY <1>3, DistinctTypes, Conversions, Zenon DEF CastToZahl
  <2> QED
    BY Zenon, <1>1, <1>2, <2>1, Conversions
<1>4. ASSUME NEW l \in {ZAHL, KOMMAZAHL, BYTE, TEXT, VARIABLE_}
      PROVE  Agrees(CastToKommazahl(l), KOMMAZAHL)
  <2>1. \/ /\ l \in {ZAHL, KOMMAZAHL, BYTE}
           /\ CastToKommazahl(l) = Converted(KOMMAZAHL, numericCast(l, KOMMAZAHL))
        \/ CastToKommazahl(l) = Value(KOMMAZAHL)
    BY <1>4, DistinctTypes, Conversions, Zenon DEF CastToKommazahl
  <2> QED
    BY Zenon, <1>2, <2>1, Conversions
<1>5. ASSUME NEW l \in {ZAHL, KOMMAZAHL, BYTE}
      PROVE  Agrees(CastToByte(l), BYTE)
  <2>1. CastToByte(l) = Converted(BYTE, numericCast(l, BYTE))
    BY <1>5, DistinctTypes, Conversions, Zenon DEF CastToByte
  <2> QED
    BY Zenon, <1>2, <2>1, Conversions
<1>6. ASSUME NEW l \in {ZAHL, BYTE, WAHRHEITSWERT, VARIABLE_}
      PROVE  Agrees(CastToWahrheitswert(l), WAHRHEITSWERT)
  <2>1. CastToWahrheitswert(l) = Value(WAHRHEITSWERT)
    BY <1>6, Zenon DEF CastToWahrheitswert
  <2> QED
    BY Zenon, <1>2, <2>1
<1>7. ASSUME NEW l \in {ZAHL, BYTE, BUCHSTABE, VARIABLE_}
      PROVE  Agrees(CastToBuchstabe(l), BUCHSTABE)
  <2>1. \/ CastToBuchstabe(l) = Converted(BUCHSTABE, {<<ZAHL, BUCHSTABE, "Trunc">>})
        \/ CastToBuchstabe(l) = Converted(BUCHSTABE, {<<BYTE, BUCHSTABE, "ZExt">>})
        \/ CastToBuchstabe(l) = Value(BUCHSTABE)
    BY <1>7, DistinctTypes, Zenon DEF CastToBuchstabe
  <2> QED
    BY Zenon, <1>1, <1>2, <2>1
<1>8. ASSUME NEW l \in {ZAHL, KOMMAZAHL, BYTE, WAHRHEITSWERT, BUCHSTABE, TEXT, VARIABLE_}
      PROVE  Agrees(CastToText(l), TEXT)
  <2>1. CastToText(l) = Value(TEXT)
    BY <1>8, Zenon DEF CastToText
  <2> QED
    BY Zenon, <1>2, <2>1
<1> QED
  BY <1>3, <1>4, <1>5, <1>6, <1>7, <1>8, Zenon

\* Types that are compiled alike have the same right outcomes.
LEMMA AgreesAlike ==
  ASSUME NEW o, NEW s, NEW t \in Storable, toIrType(t) = toIrType(s), Agrees(o, s)
  PROVE  Agrees(o, t)
  BY Zenon DEF Agrees

\* A cast between types that are compiled alike.
LEMMA SameTypeCast ==
  ASSUME NEW t \in Storable, Head(toIrType(t)) # "Liste"
  PROVE  Agrees(CG_VisitCastExpr(toIrType(t), t), t)
<1> DEFINE ir == toIrType(t)
           cg == CG_VisitCastExpr(ir, t)
<1> USE DEF BasicTypes
<1>1. CASE ir \in BasicTypes \ {VARIABLE_}
  <2>1. ir \in Storable /\ toIrType(ir) = ir
    BY Zenon, <1>1, BasicTypesAreStorable
  <2>2. Agrees(cg, ir)
    <3>1. \/ ir = ZAHL /\ cg = CastToZahl(ZAHL)
          \/ ir = KOMMAZAHL /\ cg = CastToKommazahl(KOMMAZAHL)
          \/ ir = BYTE /\ cg = CastToByte(BYTE)
          \/ ir = WAHRHEITSWERT /\ cg = CastToWahrheitswert(WAHRHEITSWERT)
          \/ ir = BUCHSTABE /\ cg = CastToBuchstabe(BUCHSTABE)
          \/ ir = TEXT /\ cg = CastToText(TEXT)
      <4>1. /\ ir = ZAHL => cg = CastToZahl(ir)
            /\ ir = KOMMAZAHL => cg = CastToKommazahl(ir)
            /\ ir = BYTE => cg = CastToByte(ir)
            /\ ir = WAHRHEITSWERT => cg = CastToWahrheitswert(ir)
            /\ ir = BUCHSTABE => cg = CastToBuchstabe(ir)
            /\ ir = TEXT => cg = CastToText(ir)
        BY CastCases, Zenon
      <4> HIDE DEF ir, cg
      <4> QED
        BY Zenon, <1>1, <4>1
    <3> HIDE DEF ir, cg
    <3> QED
      BY Zenon, <3>1, PrimitiveCasts
  <2> QED
    BY Zenon, <2>1, <2>2, AgreesAlike
<1>2. CASE ir = VARIABLE_
  <2>1. cg = Value(VARIABLE_)
    BY Zenon, <1>2, CastCases
  <2> QED
    BY Zenon, <1>2, <2>1, RightOutcomes
<1>3. CASE ir \notin BasicTypes
  <2>1. cg = Outcome(ir, ir, TRUE, {})
    BY Zenon, <1>3, CastCases
  <2> QED
    BY Zenon, <2>1, RightOutcomes
<1> QED
  BY Zenon, <1>1, <1>2, <1>3

\* Taking a value out of a Variable.
LEMMA CastFromVariable ==
  ASSUME NEW t \in Storable, toIrType(t) # BYTE
  PROVE  Agrees(CG_VisitCastExpr(VARIABLE_, t), t)
<1> DEFINE ir == toIrType(t)
           cg == CG_VisitCastExpr(VARIABLE_, t)
<1> USE DEF BasicTypes
<1>1. CASE ir \in {ZAHL, KOMMAZAHL, WAHRHEITSWERT, BUCHSTABE, TEXT}
  <2>1. ir \in Storable /\ toIrType(ir) = ir
    BY Zenon, <1>1, BasicTypesAreStorable
  <2>2. Agrees(cg, ir)
    <3>1. \/ ir = ZAHL /\ cg = CastToZahl(VARIABLE_)
          \/ ir = KOMMAZAHL /\ cg = CastToKommazahl(VARIABLE_)
          \/ ir = WAHRHEITSWERT /\ cg = CastToWahrheitswert(VARIABLE_)
          \/ ir = BUCHSTABE /\ cg = CastToBuchstabe(VARIABLE_)
          \/ ir = TEXT /\ cg = CastToText(VARIABLE_)
      BY Zenon, <1>1, CastCases
    <3> HIDE DEF ir, cg
    <3> QED
      BY Zenon, <3>1, PrimitiveCasts
  <2> QED
    BY Zenon, <2>1, <2>2, AgreesAlike
<1>2. CASE ir = VARIABLE_
  <2>1. cg = Value(VARIABLE_)
    BY Zenon, <1>2, CastCases
  <2> QED
    BY Zenon, <1>2, <2>1, RightOutcomes
<1>3. CASE Head(ir) = "Liste"
  <2>1. cg = CastToList(VARIABLE_, ir)
    BY Zenon, <1>3, CastCases
  <2>2. ir # NoIrType /\ ~ IsIrList(VARIABLE_)
    BY Zenon, DistinctTypes DEF Storable, IsIrList
  <2>3. cg = Value(ir)
    BY <2>1, <2>2, Zenon DEF CastToList
  <2> QED
    BY Zenon, <2>3, RightOutcomes
<1>4. CASE Head(ir) # "Liste" /\ ir \notin BasicTypes
  <2>1. cg = Outcome(ir, ir, TRUE, {})
    BY Zenon, <1>4, CastCases
  <2> QED
    BY Zenon, <2>1, RightOutcomes
<1> QED
  BY Zenon, <1>1, <1>2, <1>3, <1>4

\* VisitCastExpr.
LEMMA CastAgrees ==
  ASSUME NEW l \in Storable, NEW t \in Storable, TC_VisitCastExpr(l, t).ok,
         ~ (IsAny(l) /\ toIrType(t) = BYTE),
         ~ (Head(toIrType(l)) = "Liste" /\ Head(toIrType(t)) = "Liste")
  PROVE  Agrees(CG_VisitCastExpr(toIrType(l), t), t)
<1> DEFINE il == toIrType(l)
           ir == toIrType(t)
           cg == CG_VisitCastExpr(il, t)
<1> USE DEF BasicTypes
<1>1. l \in DDPType /\ t \in DDPType
  BY Zenon, BasicValues
<1>2. /\ IsAny(l) <=> Underlying[l] = VARIABLE_
      /\ IsAny(t) <=> Underlying[t] = VARIABLE_
  BY Zenon DEF IsAny, GetUnderlying
<1>3. \/ IsAny(l) \/ IsAny(t)
      \/ /\ IsTypeDef(t) /\ IsTypeDef(l)
         /\ Equal(DefinedAs(l), t) \/ Equal(DefinedAs(t), l)
      \/ IsTypeDef(t) /\ Equal(l, DefinedAs(t))
      \/ IsTypeDef(l) /\ Equal(t, DefinedAs(l))
      \/ /\ ~ IsTypeDef(t) /\ ~ IsTypeDef(l)
         /\ \/ IsList(t) /\ isOneOf(l, {GetListElementType(t)})
            \/ IsPrimitive(t) /\ isOneOf(l, PrimitiveCastFrom(GetUnderlying(t)))
  BY Answers, Zenon DEF TC_VisitCastExpr
<1>4. CASE IsAny(l)
  <2>1. il = VARIABLE_
    BY Zenon, <1>2, <1>4, BasicValues
  <2> QED
    BY Zenon, <1>4, <2>1, CastFromVariable
<1>5. CASE IsAny(t)
  <2>1. ir = VARIABLE_
    BY Zenon, <1>2, <1>5, BasicValues
  <2>2. cg = Value(VARIABLE_)
    BY Zenon, <2>1, CastCases
  <2> QED
    BY Zenon, <2>1, <2>2, RightOutcomes
<1>6. CASE \/ /\ IsTypeDef(t) /\ IsTypeDef(l)
              /\ Equal(DefinedAs(l), t) \/ Equal(DefinedAs(t), l)
           \/ IsTypeDef(t) /\ Equal(l, DefinedAs(t))
           \/ IsTypeDef(l) /\ Equal(t, DefinedAs(l))
  <2>1. /\ IsTypeDef(l) => /\ DefinedAs(l) \in DDPType
                           /\ toIrType(l) = toIrType(DefinedAs(l))
        /\ IsTypeDef(t) => /\ DefinedAs(t) \in DDPType
                           /\ toIrType(t) = toIrType(DefinedAs(t))
    BY Zenon, IrTypeOfTypeDef, BasicValues
  <2>2. il = ir
    BY Zenon, <1>1, <1>6, <2>1, EqualTypesCompileAlike DEF Equal, GetUnderlying
  <2> QED
    BY Zenon, <2>2, SameTypeCast
<1>7. CASE IsList(t) /\ isOneOf(l, {GetListElementType(t)}) /\ ~ IsAny(l)
  <2> DEFINE e == Tail(Underlying[t])
  <2>1. e \in Storable /\ GetListElementType(t) = e /\ ir = ListOf(toIrType(e)) /\ Head(ir) = "Liste"
        /\ Head(toIrType(e)) \in Scalars
    BY Zenon, <1>7, IrTypeOfList
  <2>2. Equal(l, GetListElementType(t))
    BY <1>7, Zenon DEF isOneOf
  <2>3. Equal(l, e)
    BY Zenon, <2>1, <2>2
  <2>4. il = toIrType(e)
    BY Zenon, <2>1, <2>3, Tests
  <2>5. cg = CastToList(il, ir) /\ ir # NoIrType /\ ~ IsIrList(il)
    BY Zenon, <2>1, <2>4, CastCases, Words DEF IsIrList, Storable
  <2>6. cg = Value(ir) \/ cg = Outcome(ir, ListOf(il), TRUE, {})
    BY <2>5, Zenon DEF CastToList
  <2> QED
    BY Zenon, <2>1, <2>4, <2>6, RightOutcomes
<1>8. CASE IsPrimitive(t) /\ isOneOf(l, PrimitiveCastFrom(GetUnderlying(t)))
  <2> DEFINE v == Underlying[t]
  <2>1. v \in {ZAHL, KOMMAZAHL, BYTE, WAHRHEITSWERT, BUCHSTABE, TEXT}
    BY Zenon, <1>8 DEF IsPrimitive, GetUnderlying
  <2>2. ir = v /\ v \in Storable /\ toIrType(v) = v
    BY Zenon, <2>1, BasicValues, BasicTypesAreStorable
  <2>3. isOneOf(l, PrimitiveCastFrom(v))
    BY Zenon, <1>8 DEF GetUnderlying
  <2>4. PICK c \in PrimitiveCastFrom(v) : Equal(l, c)
    BY <2>3, Zenon DEF isOneOf
  <2> HIDE DEF v
  <2>5. /\ v \in {ZAHL, TEXT} => c \in {ZAHL, KOMMAZAHL, BYTE, WAHRHEITSWERT, BUCHSTABE, TEXT}
        /\ v = KOMMAZAHL => c \in {TEXT, ZAHL, KOMMAZAHL, BYTE}
        /\ v = BYTE => c \in {ZAHL, KOMMAZAHL, BYTE}
        /\ v = WAHRHEITSWERT => c \in {ZAHL, WAHRHEITSWERT, BYTE}
        /\ v = BUCHSTABE => c \in {ZAHL, BUCHSTABE, BYTE}
    BY <2>1, <2>4, DistinctTypes, Zenon DEF PrimitiveCastFrom
  <2>6. c \in BasicTypes
    BY Zenon, <2>1, <2>5
  <2>7. il = c
    BY <2>4, <2>6, Tests, BasicValues
  <2>8. \/ v = ZAHL /\ cg = CastToZahl(c)
        \/ v = KOMMAZAHL /\ cg = CastToKommazahl(c)
        \/ v = BYTE /\ cg = CastToByte(c)
        \/ v = WAHRHEITSWERT /\ cg = CastToWahrheitswert(c)
        \/ v = BUCHSTABE /\ cg = CastToBuchstabe(c)
        \/ v = TEXT /\ cg = CastToText(c)
    BY Zenon, <2>1, <2>2, <2>7, CastCases
  <2> HIDE DEF cg, il, ir
  <2>9. Agrees(cg, v)
    BY Zenon, <2>5, <2>8, PrimitiveCasts
  <2> QED
    BY Zenon, <2>2, <2>9, AgreesAlike DEF cg, il, ir
<1> QED
  BY Zenon, <1>3, <1>4, <1>5, <1>6, <1>7, <1>8

\* VisitListLit: the elements of a list literal or the value that is repeated.
LEMMA ListLitAgrees ==
  ASSUME NEW n \in 1..2, NEW ts, NEW irs, DOMAIN ts = 1..n, DOMAIN irs = 1..n,
         \A i \in 1..n : ts[i] \in Storable /\ irs[i] = toIrType(ts[i]),
         TC_VisitListLit(ts).ok, Head(toIrType(ts[1])) # "Liste"
  PROVE  Agrees(CG_VisitListLit(ts[1], irs), ListOf(ts[1]))
<1>1. \A i \in DOMAIN ts : Equal(ts[1], ts[i])
  BY Answers, Zenon DEF TC_VisitListLit
<1>2. 1 \in 1..n /\ ts[1] \in Storable
  OBVIOUS
<1>3. \A i \in DOMAIN irs : irs[i] = toIrType(ts[1])
  BY <1>1, <1>2, Tests
<1>4. /\ ListOf(ts[1]) \in Storable /\ toIrType(ListOf(ts[1])) # NoIrType
  BY Zenon, <1>2, ListsAreStorable
<1> DEFINE ir == toIrType(ListOf(ts[1]))
<1>5. CG_VisitListLit(ts[1], irs)
        = Outcome(ir, ir, \A i \in DOMAIN irs : irs[i] = toIrType(ts[1]), {})
  BY <1>4, Zenon DEF CG_VisitListLit
<1> QED
  BY Zenon, <1>3, <1>4, <1>5, RightOutcomes

\* What a value may be stored into: a variable of its type, a Variable, or, if both are
\* numbers, a variable of another type of numbers.
LEMMA StorableValues ==
  ASSUME NEW t \in Storable, NEW v \in Storable
  PROVE  /\ TC_VisitVarDecl(t, v).ok \/ TC_VisitAssignStmt(t, v).ok
              => \/ toIrType(t) \in {VARIABLE_, toIrType(v)}
                 \/ IsNumeric(t) /\ IsNumeric(v)
         /\ TC_VisitStructLiteral(t, v).ok \/ TC_VisitReturnStmt(t, v).ok
              => toIrType(t) \in {VARIABLE_, toIrType(v)}
         /\ Equal(t, v) => toIrType(t) = toIrType(v)
<1> USE DEF BasicTypes
<1>1. Equal(t, v) \/ Equal(v, t) => toIrType(t) = toIrType(v)
  BY Zenon, Tests
<1>2. Equal(t, VARIABLE_) => toIrType(t) = VARIABLE_
  BY Zenon, Tests, BasicValues
<1>3. ~ IsGeneric(t)
  BY Zenon, BasicValues DEF IsGeneric, GetUnderlying
<1>4. TC_VisitVarDecl(t, v).ok => \/ Equal(v, t) \/ Equal(t, VARIABLE_)
                                  \/ IsNumeric(t) /\ IsNumeric(v)
  BY <1>3, Answers, Zenon DEF TC_VisitVarDecl
<1>5. TC_VisitAssignStmt(t, v).ok => \/ Equal(t, v) \/ Equal(t, VARIABLE_)
                                     \/ IsNumeric(t) /\ IsNumeric(v)
  BY Answers, Zenon DEF TC_VisitAssignStmt
<1>6. TC_VisitStructLiteral(t, v).ok => Equal(v, t)
  BY Answers DEF TC_VisitStructLiteral
<1>7. TC_VisitReturnStmt(t, v).ok => Equal(t, v) \/ Equal(t, VARIABLE_)
  BY Answers, Zenon DEF TC_VisitReturnStmt
<1>8. IsNumeric(t) /\ IsNumeric(v) => IsNumeric(t) /\ IsNumeric(v)
  BY Zenon
<1>9. Equal(t, v) => Equal(t, v)
  BY Zenon
<1> QED
  BY <1>1, <1>2, <1>4, <1>5, <1>6, <1>7, <1>8, <1>9, Zenon

\* VisitVarDecl, VisitAssignStmt, VisitReturnStmt and the fields of a Kombination: the value
\* is stored as the type of the variable.
LEMMA StoresAreRight ==
  ASSUME NEW t \in Storable, NEW v \in Storable
  PROVE  LET loc == toIrType(t)
             ir == toIrType(v)
         IN /\ TC_VisitVarDecl(t, v).ok => Right(CG_VisitVarDecl(t, v, ir))
            /\ TC_VisitAssignStmt(t, v).ok => Right(CG_VisitAssignStmt(t, loc, v, ir))
            /\ TC_VisitReturnStmt(t, v).ok => Right(CG_VisitReturnStmt(t, ir))
            /\ TC_VisitStructLiteral(t, v).ok => Right(evaluateStructLiteral(t, ir))
            /\ TC_VisitVarDecl(t, v).ok /\ ~ (IsNumeric(t) /\ Underlying[t] # Underlying[v])
                 => Right(evaluateStructLiteral(t, ir))
<1> DEFINE loc == toIrType(t)
           ir == toIrType(v)
<1>1. \A wf : wf => Right(Outcome(loc, loc, wf, {}))
  BY Zenon, RightOutcomes DEF Agrees
<1>2. \A conv : conv \subseteq Faithful => Right(Converted(loc, conv))
  BY Zenon, RightOutcomes DEF Agrees
<1>3. IsNumeric(t) /\ IsNumeric(v) => numericCast(ir, loc) \subseteq Faithful
  BY Zenon, Tests, Conversions
<1>4. loc # NoIrType
  BY Zenon DEF Storable
<1>5. IsNumeric(t) /\ IsNumeric(v) => CG_VisitVarDecl(t, v, ir) = Converted(loc, numericCast(ir, loc))
  BY <1>4, Zenon DEF CG_VisitVarDecl
<1>6. ~ (IsNumeric(t) /\ IsNumeric(v))
        => CG_VisitVarDecl(t, v, ir) = Outcome(loc, loc, loc \in {VARIABLE_, ir}, {})
  BY <1>4, Zenon DEF CG_VisitVarDecl
<1>7. IsNumeric(t) /\ IsNumeric(v)
        => CG_VisitAssignStmt(t, loc, v, ir) = Converted(loc, numericCast(ir, loc))
  BY Zenon DEF CG_VisitAssignStmt
<1>8. ~ (IsNumeric(t) /\ IsNumeric(v))
        => CG_VisitAssignStmt(t, loc, v, ir) = Outcome(loc, loc, loc \in {VARIABLE_, ir}, {})
  BY Zenon DEF CG_VisitAssignStmt
<1>9. /\ CG_VisitReturnStmt(t, ir) = Outcome(loc, loc, loc \in {VARIABLE_, ir}, {})
      /\ evaluateStructLiteral(t, ir) = Outcome(loc, loc, loc \in {VARIABLE_, ir}, {})
  BY Zenon DEF CG_VisitReturnStmt, evaluateStructLiteral
<1>10. ~ (IsNumeric(t) /\ Underlying[t] # Underlying[v]) /\ IsNumeric(t) => loc = ir
  BY Zenon, BasicValues, EqualTypesCompileAlike
<1>11. /\ TC_VisitVarDecl(t, v).ok \/ TC_VisitAssignStmt(t, v).ok
              => \/ loc \in {VARIABLE_, ir}
                 \/ IsNumeric(t) /\ IsNumeric(v)
       /\ TC_VisitStructLiteral(t, v).ok \/ TC_VisitReturnStmt(t, v).ok
              => loc \in {VARIABLE_, ir}
  BY Zenon, StorableValues
<1> HIDE DEF loc, ir
<1>12. TC_VisitVarDecl(t, v).ok => Right(CG_VisitVarDecl(t, v, ir))
  BY Zenon, <1>1, <1>2, <1>3, <1>5, <1>6, <1>11
<1>13. TC_VisitAssignStmt(t, v).ok => Right(CG_VisitAssignStmt(t, loc, v, ir))
  BY Zenon, <1>1, <1>2, <1>3, <1>7, <1>8, <1>11
<1>14. loc \in {VARIABLE_, ir} => /\ Right(CG_VisitReturnStmt(t, ir))
                                  /\ Right(evaluateStructLiteral(t, ir))
  BY Zenon, <1>1, <1>9
<1> QED
  BY <1>10, <1>11, <1>12, <1>13, <1>14, Zenon DEF loc, ir

\* Loops.
LEMMA LoopsAreRight ==
  /\ \A t \in Storable : TC_VisitRepeat(t).ok /\ Underlying[t] # BYTE => Right(CG_VisitRepeat(toIrType(t)))
  /\ \A i, t, s \in Storable :
       /\ TC_VisitForStmt(i, t, s).ok
       /\ Underlying[i] = ZAHL => Underlying[t] = ZAHL /\ Underlying[s] = ZAHL
       /\ Underlying[i] = KOMMAZAHL => {Underlying[i], Underlying[t], Underlying[s]} = {KOMMAZAHL}
       => Right(CG_VisitForStmt(toIrType(i), toIrType(t), toIrType(s)))
  /\ \A e, t \in Storable : TC_VisitForRangeStmt(e, t).ok
       => Right(CG_VisitForRangeStmt(toIrType(e), toIrType(t)))
<1> USE DEF BasicTypes
<1>1. \A ir, wf, conv : wf /\ conv \subseteq Faithful => Right(Outcome(ir, ir, wf, conv))
  BY Zenon DEF Right, Outcome
<1>2. \A ir, wf : wf => Right(Outcome(ir, ir, wf, {}))
  BY Zenon, <1>1
<1>3. ASSUME NEW t \in Storable, TC_VisitRepeat(t).ok, Underlying[t] # BYTE
      PROVE  Right(CG_VisitRepeat(toIrType(t)))
  <2>1. Integral(t)
    BY <1>3, Answers DEF TC_VisitRepeat
  <2>2. toIrType(t) = ZAHL
    BY Zenon, <1>3, <2>1, Tests
  <2> QED
    BY Zenon, <1>2, <2>2 DEF CG_VisitRepeat
<1>4. ASSUME NEW i \in Storable, NEW t \in Storable, NEW s \in Storable,
             TC_VisitForStmt(i, t, s).ok,
             Underlying[i] = ZAHL => Underlying[t] = ZAHL /\ Underlying[s] = ZAHL,
             Underlying[i] = KOMMAZAHL => {Underlying[i], Underlying[t], Underlying[s]} = {KOMMAZAHL}
      PROVE  Right(CG_VisitForStmt(toIrType(i), toIrType(t), toIrType(s)))
  <2> DEFINE ii == toIrType(i)
             it == toIrType(t)
             is == toIrType(s)
  <2>1. \A x \in {i, t, s} : IsNumeric(x)
    BY <1>4, Answers, Zenon DEF TC_VisitForStmt
  <2>2. /\ ii = Underlying[i] /\ it = Underlying[t] /\ is = Underlying[s]
        /\ ii \in {ZAHL, KOMMAZAHL, BYTE} /\ it \in {ZAHL, KOMMAZAHL, BYTE}
        /\ is \in {ZAHL, KOMMAZAHL, BYTE}
    BY Zenon, <2>1, Tests
  <2>3. /\ ii = ZAHL => it = ZAHL /\ is = ZAHL
        /\ ii = KOMMAZAHL => it = KOMMAZAHL /\ is = KOMMAZAHL
    BY Zenon, <1>4, <2>2
  <2> HIDE DEF ii, it, is
  <2>4. /\ floatOrByteAsInt(is) \subseteq Faithful /\ floatOrByteAsInt(it) \subseteq Faithful
        /\ intOrByteAsFloat(is) \subseteq Faithful
    BY Zenon, <2>2, Conversions
  <2>5. <<ZAHL, ZAHL, "signed">> \in Faithful
    BY Zenon DEF Faithful
  <2> DEFINE conv == (IF ii = KOMMAZAHL THEN intOrByteAsFloat(is) ELSE floatOrByteAsInt(is))
                     \cup (IF ii = ZAHL THEN {<<is, is, "signed">>} ELSE {})
                     \cup (IF ii = BYTE THEN floatOrByteAsInt(it) ELSE {})
             wf == CASE ii = BYTE      -> TRUE
                     [] ii = KOMMAZAHL -> it = KOMMAZAHL /\ is = KOMMAZAHL
                     [] OTHER          -> it = ZAHL /\ is # KOMMAZAHL
  <2>6. CG_VisitForStmt(ii, it, is) = Outcome(Void, Void, wf, conv)
    BY Zenon DEF CG_VisitForStmt
  <2>7. conv \subseteq Faithful
    BY Zenon, <2>3, <2>4, <2>5
  <2>8. wf
    BY <2>2, <2>3, DistinctTypes, Zenon
  <2> HIDE DEF conv, wf
  <2> QED
    BY Zenon, <1>1, <2>6, <2>7, <2>8 DEF ii, it, is
<1>5. ASSUME NEW e \in Storable, NEW t \in Storable, TC_VisitForRangeStmt(e, t).ok
      PROVE  Right(CG_VisitForRangeStmt(toIrType(e), toIrType(t)))
  <2>1. IF IsList(t) THEN Equal(e, GetListElementType(t))
                     ELSE Equal(t, TEXT) /\ Equal(e, BUCHSTABE)
    BY Zenon, <1>5 DEF TC_VisitForRangeStmt, Typed
  <2>2. CASE IsList(t)
    <3>1. Equal(e, GetListElementType(t))
      BY Zenon, <2>1, <2>2
    <3>2. toIrType(t) # TEXT
      BY Zenon, <2>2, IrTypeOfList, DistinctTypes
    <3>3. GetListElementType(t) \in Storable /\ Tail(toIrType(t)) = toIrType(GetListElementType(t))
      BY Zenon, <2>2, IrTypeOfList
    <3>4. toIrType(e) = Tail(toIrType(t))
      BY Zenon, <3>1, <3>3, Tests
    <3> QED
      BY Zenon, <1>2, <3>2, <3>4 DEF CG_VisitForRangeStmt
  <2>3. CASE ~ IsList(t)
    <3>1. Equal(t, TEXT) /\ Equal(e, BUCHSTABE)
      BY Zenon, <2>1, <2>3
    <3>2. toIrType(e) = BUCHSTABE /\ toIrType(t) = TEXT
      BY Zenon, <3>1, Tests, BasicValues
    <3> QED
      BY Zenon, <1>2, <3>2 DEF CG_VisitForRangeStmt
  <2> QED
    BY Zenon, <2>2, <2>3
<1> QED
  BY <1>3, <1>4, <1>5, Zenon
-----------------------------------------------------------------------------
(***************************************************************************)
(* Overloads with type parameters: what the parameter is bound to.         *)
(***************************************************************************)
\* The last constructor of a type of values, also without its aliases, is no list.
LEMMA LastConstructor ==
  ASSUME NEW t \in ValueTypes
  PROVE  /\ Underlying[t] \in DDPType /\ Underlying[t] # << >> /\ Underlying[t] \in ValueTypes
         /\ Underlying[t][Len(Underlying[t])] \in Scalars
<1>1. Underlying[t] \in ValueTypes
  BY Zenon, UnderlyingOfValueType
<1> QED
  BY Zenon, <1>1 DEF ValueTypes, Scalars

\* What is left of an argument when n lists are taken off it is a type of values.
LEMMA RestIsStorable ==
  ASSUME NEW a \in Storable, NEW n \in Nat,
         \A i \in 1..n : i <= Len(Underlying[a]) /\ Underlying[a][i] = "Liste"
  PROVE  SubSeq(Underlying[a], n + 1, Len(Underlying[a])) \in Storable
<1> DEFINE A == Underlying[a]
<1>1. a \in ValueTypes /\ a \in DDPType
  BY Zenon, BasicValues
<1>2. A \in DDPType /\ A # << >> /\ A \in ValueTypes /\ Underlying[A] = A
  BY Zenon, <1>1, LastConstructor, UnderlyingFacts
<1>3. A \in Storable
  <2>1. toIrType(A) = toIrType(a)
    BY Zenon, <1>1, <1>2, EqualTypesCompileAlike
  <2> QED
    BY Zenon, <1>2, <2>1 DEF Storable
<1>4. Len(A) \in Nat /\ Head(A) = A[1]
  BY <1>2 DEF DDPType
<1>5. CASE n = 0
  <2>1. SubSeq(A, 1, Len(A)) = A
    BY <1>2 DEF DDPType
  <2>2. n + 1 = 1
    BY <1>5
  <2> HIDE DEF A
  <2> QED
    BY Zenon, <1>3, <2>1, <2>2 DEF A
<1>6. CASE n > 0
  <2>1. 1 \in 1..n
    BY <1>6
  <2>2. A[1] = "Liste"
    BY Zenon, <2>1
  <2>3. IsList(a)
    BY Zenon, <1>2, <1>4, <2>2 DEF IsList, Outermost, GetUnderlying
  <2>4. Tail(A) \in Storable /\ Head(toIrType(Tail(A))) \in Scalars /\ Underlying[Tail(A)] = Tail(A)
    BY Zenon, <2>3, IrTypeOfList
  <2>5. CASE n = 1
    <3>1. SubSeq(A, 2, Len(A)) = Tail(A)
      BY <1>2 DEF DDPType
    <3>2. n + 1 = 2
      BY <2>5
    <3> HIDE DEF A
    <3> QED
      BY Zenon, <2>4, <3>1, <3>2 DEF A
  <2>6. CASE n > 1
    <3>1. 2 \in 1..n
      BY <2>6
    <3>2. A[2] = "Liste" /\ 2 <= Len(A)
      BY Zenon, <3>1
    <3>3. Tail(A) \in DDPType /\ Tail(A) # << >>
      BY Zenon, <2>4, BasicValues, ValueTypeCases
    <3>4. Tail(A)[1] = A[2] /\ Head(Tail(A)) = Tail(A)[1]
      <4> HIDE DEF A
      <4> QED BY <1>2, <3>2, <3>3 DEF DDPType
    <3>5. IsList(Tail(A))
      BY Zenon, <2>4, <3>2, <3>3, <3>4 DEF IsList, Outermost, GetUnderlying
    <3>6. Head(toIrType(Tail(A))) = "Liste"
      BY Zenon, <2>4, <3>5, IrTypeOfList
    <3> QED
      BY Zenon, <2>4, <3>6, Words
  <2> QED
    BY <1>6, <2>5, <2>6
<1> QED
  BY <1>5, <1>6

\* UnifyGenericType returns a type, and a type parameter that occurs in the parameter is bound
\* afterwards, to a type of values, if the result is the argument's type.
LEMMA UnifyBinds ==
  ASSUME NEW a \in Storable, NEW p \in Storable \cup GenericTypes,
         NEW b \in Storable \cup {Void}
  PROVE  LET r == UnifyGenericType(a, p, b)
         IN /\ r.typ \in DDPType /\ r.bound \in Storable \cup {Void}
            /\ b # Void => r.bound # Void
            /\ p \in GenericTypes /\ Equal(r.typ, a) => r.bound # Void
<1> DEFINE A == Underlying[a]
           P == Underlying[p]
           n == ListDepth(A, P)
           rest == SubSeq(A, n + 1, Len(A))
           gen == SubSeq(P, n + 1, Len(P))
           now == IF IsGeneric(gen) /\ b = Void THEN rest ELSE b
           r == UnifyGenericType(a, p, b)
<1>1. a \in ValueTypes /\ A \in DDPType
  BY Zenon, BasicValues, UnderlyingFacts
<1>2. P \in DDPType /\ P # << >> /\ P[Len(P)] # "Liste"
  <2>1. CASE p \in Storable
    BY Zenon, <2>1, BasicValues, LastConstructor, Words
  <2>2. CASE p \in GenericTypes
    BY Zenon, <2>2, UnderlyingOfGenericType DEF ListsAroundT
  <2> QED
    BY Zenon, <2>1, <2>2
<1>3. /\ n \in 0..(Len(P) - 1)
      /\ \A i \in 1..n : i <= Len(A) /\ A[i] = "Liste" /\ P[i] = "Liste"
  <2> HIDE DEF A, P
  <2> QED BY Zenon, <1>1, <1>2, ListDepthFacts
<1>4. r = IF Head(gen) = "Liste" THEN [typ |-> Void, bound |-> b]
          ELSE [typ   |-> SubSeq(P, 1, n) \o (IF IsGeneric(gen) THEN now ELSE gen),
                bound |-> now]
  BY Zenon DEF UnifyGenericType, UnifyAt, GetUnderlying
<1>5. Len(P) \in Nat /\ n \in Nat
  BY <1>2, <1>3 DEF DDPType
<1>6. rest \in Storable
  <2> HIDE DEF n
  <2> QED BY Zenon, <1>3, <1>5, RestIsStorable
<1>7. Void \in DDPType /\ Underlying[Void] = Void
  <2>1. Void \in DDPType /\ Void # << >> /\ Head(Void) = "nichts"
    BY DEF Void, DDPType, Constructors
  <2> QED
    BY Zenon, <2>1, UnderlyingSteps
<1>8. \A t \in Storable : t \in DDPType /\ t # Void /\ Underlying[t] # Void
  BY Zenon, <1>7, BasicValues
<1>9. gen \in DDPType /\ SubSeq(P, 1, n) \in DDPType
  <2> HIDE DEF n, P
  <2> QED BY <1>2, <1>3, <1>5 DEF DDPType
<1>10. now \in Storable \cup {Void} /\ now \in DDPType
  <2> HIDE DEF rest, gen
  <2> QED BY Zenon, <1>6, <1>7, <1>8
<1>11. \A x \in DDPType, y \in DDPType : x \o y \in DDPType
  BY DEF DDPType
<1>12. ASSUME p \in GenericTypes, Head(gen) # "Liste"
       PROVE  IsGeneric(gen)
  <2>1. ListsAroundT(P)
    BY Zenon, <1>12, UnderlyingOfGenericType
  <2> HIDE DEF P, n
  <2>2. n + 1 \in 1..Len(P) /\ Head(gen) = P[n + 1]
    BY <1>2, <1>3, <1>5 DEF DDPType
  <2>3. n + 1 = Len(P)
    <3>1. n + 1 \notin 1..(Len(P) - 1)
      BY Zenon, <1>12, <2>1, <2>2 DEF ListsAroundT
    <3> QED
      BY <1>5, <2>2, <3>1
  <2>4. gen = <<P[Len(P)]>>
    <3>1. Len(P) \in 1..Len(P) /\ P \in Seq(Constructors)
      BY Zenon, <1>2, <1>5, <2>2, <2>3 DEF DDPType
    <3>2. ASSUME NEW k \in 1..Len(P)
          PROVE  SubSeq(P, k, k) = <<P[k]>>
      <4>1. SubSeq(P, k, k) \in Seq(Constructors) /\ Len(SubSeq(P, k, k)) = 1
        BY <3>1
      <4>2. SubSeq(P, k, k)[1] = P[k]
        BY <3>1
      <4>3. \A q \in Seq(Constructors) : Len(q) = 1 => q = <<q[1]>>
        OBVIOUS
      <4> QED
        BY <4>1, <4>2, <4>3, Zenon
    <3> QED
      BY Zenon, <2>3, <3>1, <3>2
  <2>5. gen = <<"T">>
    BY Zenon, <2>1, <2>4 DEF ListsAroundT
  <2> HIDE DEF gen
  <2>6. gen # << >> /\ Head(gen) = "T"
    BY <2>5
  <2>7. Underlying[gen] = gen
    BY Zenon, <1>9, <2>6, UnderlyingSteps
  <2> QED
    BY Zenon, <2>5, <2>7 DEF IsGeneric, GetUnderlying
<1> HIDE DEF A, P, n, rest, gen, now, r
<1>13. CASE Head(gen) = "Liste"
  <2>1. r.typ = Void /\ r.bound = b
    BY Zenon, <1>4, <1>13
  <2>2. ~ Equal(r.typ, a)
    BY Zenon, <1>7, <1>8, <2>1 DEF Equal, GetUnderlying
  <2> QED
    BY Zenon, <1>7, <2>1, <2>2 DEF r
<1>14. CASE Head(gen) # "Liste"
  <2>1. r.typ = SubSeq(P, 1, n) \o (IF IsGeneric(gen) THEN now ELSE gen) /\ r.bound = now
    BY Zenon, <1>4, <1>14
  <2>2. r.typ \in DDPType
    BY Zenon, <1>9, <1>10, <1>11, <2>1
  <2>3. b # Void => now # Void
    BY Zenon DEF now
  <2>4. p \in GenericTypes => now # Void
    BY Zenon, <1>6, <1>8, <1>12, <1>14 DEF now
  <2> QED
    BY Zenon, <1>10, <2>1, <2>2, <2>3, <2>4 DEF r
<1> QED
  BY Zenon, <1>13, <1>14

\* Unified returns the types of all parameters, and the return type it leads to is a type of
\* values if the operands match.
LEMMA UnifiedParameters ==
  ASSUME NEW d, NEW n \in 1..3, NEW R, NEW operands \in Seq(R),
         d.params \in Seq([typ : Storable \cup GenericTypes, ref : BOOLEAN]),
         \/ d.ret \in Storable
         \/ d.ret = <<"T">> /\ \E i \in DOMAIN d.params : d.params[i].typ \in GenericTypes,
         Len(operands) = n, Len(d.params) = n,
         \A i \in 1..n : operands[i].t \in Storable,
         ParamsMatch(d, operands, Unified(d, operands).typs)
  PROVE  LET u == Unified(d, operands)
         IN /\ Len(u.typs) = n /\ DOMAIN u.typs = 1..n
            /\ \A i \in 1..n : u.typs[i] \in DDPType
            /\ ReturnType(d, u.bound) \in Storable
<1> DEFINE P(i) == d.params[i].typ
           u == Unified(d, operands)
<1>1. /\ DOMAIN d.params = 1..n
      /\ \A i \in 1..n : P(i) \in Storable \cup GenericTypes
      /\ \/ d.ret \in Storable
         \/ d.ret = <<"T">> /\ \E i \in 1..n : P(i) \in GenericTypes
  <2>1. /\ d.params \in Seq([typ : Storable \cup GenericTypes, ref : BOOLEAN])
        /\ \/ d.ret \in Storable
           \/ d.ret = <<"T">> /\ \E i \in DOMAIN d.params : d.params[i].typ \in GenericTypes
    BY Zenon
  <2> DEFINE params == d.params
             Params == [typ : Storable \cup GenericTypes, ref : BOOLEAN]
  <2>2. DOMAIN d.params = 1..n /\ \A i \in 1..n : P(i) \in Storable \cup GenericTypes
    <3>1. params \in Seq(Params) /\ Len(params) = n
      BY Zenon, <2>1
    <3>2. DOMAIN params = 1..n /\ \A i \in 1..n : params[i] \in Params
      <4> HIDE DEF params, Params
      <4> QED BY <3>1
    <3>3. \A p \in Params : p.typ \in Storable \cup GenericTypes
      BY Zenon
    <3> QED
      BY Zenon, <3>2, <3>3
  <2> QED
    BY <2>1, <2>2, Zenon
<1>2. \A i \in 1..n : Equal(u.typs[i], operands[i].t)
  BY DEF ParamsMatch
<1>3. \A t \in Storable : ~ IsGeneric(t)
  BY Zenon, BasicValues DEF IsGeneric, GetUnderlying
<1>4. CASE ~ IsGenericDecl(d)
  <2>1. u.typs = [i \in DOMAIN operands |-> P(i)]
    BY <1>4, Zenon DEF Unified
  <2>2. u.typs = [i \in 1..n |-> P(i)]
    BY <2>1
  <2>3. \A i \in 1..n : P(i) \in DDPType
    BY Zenon, <1>1, BasicValues, GenericTypeCases
  <2>4. Len(u.typs) = n /\ DOMAIN u.typs = 1..n
    <3>1. [i \in 1..n |-> P(i)] \in Seq(DDPType) /\ Len([i \in 1..n |-> P(i)]) = n
      BY <2>3
    <3> HIDE DEF u
    <3> QED BY Zenon, <2>2, <3>1
  <2>5. \A i \in 1..n : u.typs[i] = P(i)
    <3> HIDE DEF u
    <3> QED BY Zenon, <2>2
  <2>6. \A i \in 1..n : P(i) \notin GenericTypes
    <3> SUFFICES ASSUME NEW i \in 1..n, P(i) \in GenericTypes PROVE FALSE
      BY Zenon
    <3>1. Underlying[P(i)] = Underlying[operands[i].t]
      BY Zenon, <1>2, <2>5 DEF Equal, GetUnderlying
    <3>2. Underlying[P(i)][Len(Underlying[P(i)])] = "T"
      BY Zenon, UnderlyingOfGenericType DEF ListsAroundT
    <3>3. Underlying[operands[i].t][Len(Underlying[operands[i].t])] \in Scalars
      BY Zenon, BasicValues, LastConstructor
    <3> QED
      BY Zenon, <3>1, <3>2, <3>3, Words
  <2>7. d.ret \in Storable
    BY Zenon, <1>1, <2>6
  <2> HIDE DEF u
  <2> QED
    BY Zenon, <1>3, <2>3, <2>4, <2>5, <2>7 DEF ReturnType, u
<1>5. CASE IsGenericDecl(d)
  <2> DEFINE After(r, i) == LET v == UnifyGenericType(operands[i].t, P(i), r.bound)
                            IN [typs |-> Append(r.typs, v.typ), bound |-> v.bound]
             r0 == [typs |-> << >>, bound |-> Void]
             r1 == After(r0, 1)
             r2 == After(r1, 2)
             r3 == After(r2, 3)
             up == CHOOSE f : f = [i \in 0..n |-> IF i = 0 THEN r0 ELSE After(f[i - 1], i)]
  <2>1. u = up[n]
    BY <1>5, Zenon DEF Unified
  <2> HIDE DEF After, r0
  <2>2. up = [i \in 0..n |-> IF i = 0 THEN r0 ELSE After(up[i - 1], i)]
    <3> DEFINE g == [i \in 0..n |-> IF i = 0 THEN r0 ELSE IF i = 1 THEN r1 ELSE IF i = 2 THEN r2 ELSE r3]
    <3>1. ASSUME NEW i \in 0..n
          PROVE  g[i] = IF i = 0 THEN r0 ELSE After(g[i - 1], i)
      BY <3>1
    <3>2. g = [i \in 0..n |-> IF i = 0 THEN r0 ELSE After(g[i - 1], i)]
      BY Zenon, <3>1
    <3> HIDE DEF g
    <3> QED
      BY Zenon, <3>2
  <2> HIDE DEF up
  <2> DEFINE Inv(i) == /\ up[i].typs \in Seq(DDPType) /\ Len(up[i].typs) = i
                       /\ up[i].bound \in Storable \cup {Void}
                       /\ \A j \in 1..i : /\ P(j) \in GenericTypes
                                          /\ Equal(up[i].typs[j], operands[j].t)
                                          => up[i].bound # Void
  <2>3. Inv(0)
    <3>1. up[0] = [typs |-> << >>, bound |-> Void]
      BY <2>2 DEF r0
    <3> QED
      BY <3>1
  <2>4. ASSUME NEW i \in 1..n, Inv(i - 1)
        PROVE  Inv(i)
    <3> DEFINE q == up[i - 1]
               v == UnifyGenericType(operands[i].t, P(i), q.bound)
    <3>1. up[i] = [typs |-> Append(q.typs, v.typ), bound |-> v.bound]
      <4>1. up[i] = After(q, i)
        BY <2>2
      <4> QED
        BY <4>1, Zenon DEF After
    <3>2. q.bound \in Storable \cup {Void} /\ q.typs \in Seq(DDPType) /\ Len(q.typs) = i - 1
      BY Zenon, <2>4
    <3>3. /\ v.typ \in DDPType /\ v.bound \in Storable \cup {Void}
          /\ q.bound # Void => v.bound # Void
          /\ P(i) \in GenericTypes /\ Equal(v.typ, operands[i].t) => v.bound # Void
      <4> HIDE DEF q
      <4> QED BY Zenon, <1>1, <3>2, UnifyBinds
    <3>4. \A j \in 1..(i - 1) : /\ P(j) \in GenericTypes
                                /\ Equal(q.typs[j], operands[j].t)
                                => q.bound # Void
      BY Zenon, <2>4
    <3> HIDE DEF q, v
    <3>5. up[i].typs = Append(q.typs, v.typ) /\ up[i].bound = v.bound
      BY <3>1
    <3>6. /\ up[i].typs \in Seq(DDPType) /\ Len(up[i].typs) = i
          /\ up[i].typs[i] = v.typ /\ \A j \in 1..(i - 1) : up[i].typs[j] = q.typs[j]
      BY <3>2, <3>3, <3>5
    <3>7. ASSUME NEW j \in 1..i, P(j) \in GenericTypes, Equal(up[i].typs[j], operands[j].t)
          PROVE  up[i].bound # Void
      <4>1. CASE j = i
        BY Zenon, <3>3, <3>5, <3>6, <3>7, <4>1
      <4>2. CASE j \in 1..(i - 1)
        BY Zenon, <3>3, <3>4, <3>5, <3>6, <3>7, <4>2
      <4> QED
        BY <4>1, <4>2
    <3> QED
      BY Zenon, <3>3, <3>5, <3>6, <3>7
  <2> HIDE DEF Inv
  <2>5. Inv(n)
    <3>1. Inv(1)
      <4>1. 1 \in 1..n /\ 1 - 1 = 0
        OBVIOUS
      <4> QED
        BY Zenon, <2>3, <2>4, <4>1
    <3>2. n >= 2 => Inv(2)
      <4>1. n >= 2 => 2 \in 1..n /\ 2 - 1 = 1
        OBVIOUS
      <4> QED
        BY Zenon, <2>4, <3>1, <4>1
    <3>3. n = 3 => Inv(3)
      <4>1. n = 3 => 3 \in 1..n /\ 3 - 1 = 2 /\ n >= 2
        OBVIOUS
      <4> QED
        BY Zenon, <2>4, <3>2, <4>1
    <3>4. n = 1 \/ n = 2 \/ n = 3
      OBVIOUS
    <3> QED
      BY <3>1, <3>2, <3>3, <3>4
  <2>6. /\ u.typs \in Seq(DDPType) /\ Len(u.typs) = n
        /\ u.bound \in Storable \cup {Void}
        /\ \A j \in 1..n : P(j) \in GenericTypes /\ Equal(u.typs[j], operands[j].t) => u.bound # Void
    BY Zenon, <2>1, <2>5 DEF Inv
  <2> HIDE DEF u
  <2>7. DOMAIN u.typs = 1..n /\ \A i \in 1..n : u.typs[i] \in DDPType
    BY <2>6
  <2>8. ReturnType(d, u.bound) \in Storable
    <3>1. CASE d.ret \in Storable
      BY Zenon, <1>3, <3>1 DEF ReturnType
    <3>2. CASE d.ret \notin Storable
      <4>1. u.bound # Void
        BY Zenon, <1>1, <1>2, <2>6, <3>2
      <4>2. IsGeneric(d.ret)
        <5>1. <<"T">> \in DDPType /\ <<"T">> # << >> /\ Head(<<"T">>) = "T"
          BY DEF DDPType, Constructors
        <5>2. Underlying[<<"T">>] = <<"T">>
          BY Zenon, <5>1, UnderlyingSteps
        <5> QED
          BY Zenon, <1>1, <3>2, <5>2 DEF IsGeneric, GetUnderlying
      <4> QED
        BY Zenon, <2>6, <4>1, <4>2 DEF ReturnType
    <3> QED
      BY Zenon, <3>1, <3>2
  <2> QED
    BY Zenon, <2>6, <2>7, <2>8 DEF u
<1> QED
  BY Zenon, <1>4, <1>5
=============================================================================
