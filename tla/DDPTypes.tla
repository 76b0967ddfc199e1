------------------------------ MODULE DDPTypes ------------------------------
(***************************************************************************)
(* The types of DDP (src/ddptypes) and what is asked of them.  A type is   *)
(* the sequence of its constructors from the outside in: "Liste", "Alias"  *)
(* (Wir nennen ... auch ...), a type definition (Wir definieren ... als    *)
(* ...) and, last, a basic type, a Kombination or a type parameter "T".    *)
(* Two type definitions are told apart by their names.                     *)
(***************************************************************************)
EXTENDS Naturals, Sequences

CONSTANTS TypeDefs,   \* the names of the type definitions
          Structs     \* the names of the Kombinationen

Basic == {"Zahl", "Kommazahl", "Byte", "Wahrheitswert", "Buchstabe", "Text", "Variable"}

\* Names of types are told apart from each other and from the words used here.
ASSUME NamesAssumption ==
  /\ TypeDefs \cap Structs = {}
  /\ (TypeDefs \cup Structs) \cap (Basic \cup {"Liste", "Alias", "nichts", "T", "panic"}) = {}

Constructors == Basic \cup {"Liste", "Alias", "nichts", "T"} \cup TypeDefs \cup Structs

DDPType == Seq(Constructors)

ZAHL == <<"Zahl">>

KOMMAZAHL == <<"Kommazahl">>

BYTE == <<"Byte">>

WAHRHEITSWERT == <<"Wahrheitswert">>

BUCHSTABE == <<"Buchstabe">>

TEXT == <<"Text">>

VARIABLE_ == <<"Variable">>

Void == <<"nichts">>

ListOf(t) == <<"Liste">> \o t

\* The types of values: constructors around a basic type or a Kombination.
ValueTypes ==
  {t \in DDPType : /\ t # << >> /\ t[Len(t)] \in Basic \cup Structs
                   /\ \A i \in 1..(Len(t) - 1) : t[i] \in {"Liste", "Alias"} \cup TypeDefs}

\* A type parameter and lists of it.
GenericTypes ==
  {t \in DDPType : /\ t # << >> /\ t[Len(t)] = "T"
                   /\ \A i \in 1..(Len(t) - 1) : t[i] \in {"Liste", "Alias"}}

\* Aliases are looked through, also inside lists, up to a type definition.
Underlying[t \in DDPType] ==
  IF t = << >> \/ Head(t) \notin {"Alias", "Liste"} THEN t
  ELSE IF Head(t) = "Alias" THEN Underlying[Tail(t)] ELSE ListOf(Underlying[Tail(t)])

GetUnderlying(t) == Underlying[t]

Equal(t1, t2) == GetUnderlying(t1) = GetUnderlying(t2)

\* the outermost constructor (no type is << >>)
Outermost(t) == IF GetUnderlying(t) = << >> THEN "nichts" ELSE Head(GetUnderlying(t))

IsList(t) == Outermost(t) = "Liste"

IsStruct(t) == Outermost(t) \in Structs

IsTypeDef(t) == Outermost(t) \in TypeDefs

IsAny(t) == GetUnderlying(t) = VARIABLE_

IsVoid(t) == GetUnderlying(t) = Void

IsGeneric(t) == GetUnderlying(t) = <<"T">>

IsPrimitive(t) ==
  GetUnderlying(t) \in {ZAHL, KOMMAZAHL, BYTE, WAHRHEITSWERT, BUCHSTABE, TEXT}

IsNumeric(t) == GetUnderlying(t) \in {ZAHL, KOMMAZAHL, BYTE}

\* The type a type definition is made of (TypeDef.Underlying).
DefinedAs(t) == Tail(GetUnderlying(t))

GetListElementType(t) == IF IsList(t) THEN Tail(GetUnderlying(t)) ELSE t

GetNestedListElementType[t \in DDPType] ==
  IF IsList(t) THEN GetNestedListElementType[Tail(GetUnderlying(t))] ELSE t

TrueUnderlying[t \in DDPType] ==
  IF IsTypeDef(t) THEN TrueUnderlying[DefinedAs(t)] ELSE GetUnderlying(t)

CastDeeplyNestedGenerics(t) == IsGeneric(GetNestedListElementType[t])

(***************************************************************************)
(* UnifyGenericType: common list constructors are taken off; then the      *)
(* parameter is either the type parameter, which is bound to what is left  *)
(* of the argument unless it is bound already, or an ordinary type.  The   *)
(* result is the parameter's type with the binding put in, and the         *)
(* binding; Void stands for nil.                                           *)
(***************************************************************************)
ListDepth(arg, param) ==
  CHOOSE n \in 0..Len(param) :
    /\ \A i \in 1..n : i <= Len(arg) /\ arg[i] = "Liste" /\ param[i] = "Liste"
    /\ n + 1 > Len(arg) \/ arg[n + 1] # "Liste" \/ param[n + 1] # "Liste"

UnifyAt(arg, param, n, bound) ==
  LET rest == SubSeq(arg, n + 1, Len(arg))
      gen  == SubSeq(param, n + 1, Len(param))
      now  == IF IsGeneric(gen) /\ bound = Void THEN rest ELSE bound
  IN IF Head(gen) = "Liste" THEN [typ |-> Void, bound |-> bound]
     ELSE [typ   |-> SubSeq(param, 1, n) \o (IF IsGeneric(gen) THEN now ELSE gen),
           bound |-> now]

UnifyGenericType(arg, param, bound) ==
  UnifyAt(GetUnderlying(arg), GetUnderlying(param),
          ListDepth(GetUnderlying(arg), GetUnderlying(param)), bound)
=============================================================================
