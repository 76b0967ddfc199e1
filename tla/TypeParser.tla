----------------------------- MODULE TypeParser -----------------------------
(***************************************************************************)
(* type_parsing.go.  A parsed type is [p, t, ref]; t is << >> for nil.     *)
(***************************************************************************)
EXTENDS ParserState, TLC

Singular == [ZAHL |-> ZAHL, KOMMAZAHL |-> KOMMAZAHL, BYTE |-> BYTE, BUCHSTABE |-> BUCHSTABE,
             WAHRHEITSWERT |-> WAHRHEITSWERT, TEXT |-> TEXT] @@ ("VARIABLE" :> VARIABLE_)

Plural == [ZAHLEN |-> ZAHL, KOMMAZAHLEN |-> KOMMAZAHL, BUCHSTABEN |-> BUCHSTABE,
           VARIABLEN |-> VARIABLE_]

TypeTokens == DOMAIN Singular \cup DOMAIN Plural \cup {"IDENTIFIER", "LPAREN"}

Parsed(p, t, isRef) == [p |-> p, t |-> t, ref |-> isRef]

NoType(p) == Parsed(err(p, "SYN_EXPECTED_TYPENAME"), << >>, FALSE)

\* tokenTypeToType panics for any other token
tokenTypeToType(p, tok, isList, isRef) ==
  IF Type(tok) \notin DOMAIN Singular
    THEN Parsed([p EXCEPT !.crashed = TRUE], << >>, FALSE)
    ELSE Parsed(p, IF isList THEN ListOf(Singular[Type(tok)]) ELSE Singular[Type(tok)], isRef)

NamedType(p, n) == IF LookupType(p, n) THEN Lookup(p, n).t ELSE <<"T">>

\* the case BUCHSTABEN after einen or jeden
IsAccusative(p) == Type(previous(p)) = "BUCHSTABEN" /\ Type(peekN(p, -2)) \in {"EINEN", "JEDEN"}

(***************************************************************************)
(* One element of A-B-C, whose first token is previous(p).                 *)
(***************************************************************************)
SimpleElement(p, generic) ==
  LET w == Type(previous(p))
  IN CASE w \in {"ZAHL", "KOMMAZAHL", "BUCHSTABE", "VARIABLE"} -> Parsed(p, Singular[w], FALSE)
       [] w \in {"BYTE", "WAHRHEITSWERT", "TEXT"} ->
            IF check(p, {"LISTE"}) THEN Parsed(advance(p), ListOf(Singular[w]), FALSE)
            ELSE Parsed(p, Singular[w], FALSE)
       [] IsAccusative(p) -> Parsed(p, BUCHSTABE, FALSE)
       [] w \in DOMAIN Plural /\ ~ IsAccusative(p) ->
            Parsed(consumeSeq(p, <<"LISTE">>), ListOf(Plural[w]), FALSE)
       [] w = "IDENTIFIER" /\ (LookupType(p, previous(p).w) \/ generic) ->
            IF check(p, {"LISTE"}) THEN Parsed(advance(p), ListOf(NamedType(p, previous(p).w)), FALSE)
            ELSE Parsed(p, NamedType(p, previous(p).w), FALSE)
       [] OTHER -> NoType(p)

\* after LISTEN: without REFERENZ the next token is skipped
ListReference(p) ==
  IF check(p, {"REFERENZ"}) THEN advance(p) ELSE advance(consumeSeq(p, <<"REFERENZ">>))

NamedReference(p, t) ==
  CASE check(p, {"LISTE"})    -> Parsed(advance(p), ListOf(t), FALSE)
    [] check(p, {"LISTEN"})   -> Parsed(ListReference(advance(p)), ListOf(t), TRUE)
    [] check(p, {"REFERENZ"}) -> Parsed(advance(p), t, TRUE)
    [] OTHER                  -> Parsed(p, t, FALSE)

WordReferenceOneOff(p, t) ==
  IF check(p, {"LISTEN"})
    THEN LET q == ListReference(advance(p)) IN tokenTypeToType(q, peekN(q, -2), TRUE, TRUE)
    ELSE NamedReference(p, t)

\* with LISTEN the token of the element type is looked up behind the current one
WordReference(p, t) ==
  IF check(p, {"LISTEN"})
    THEN LET q == ListReference(advance(p)) IN tokenTypeToType(q, peekN(q, -3), TRUE, TRUE)
    ELSE NamedReference(p, t)

PluralReference(p, t) ==
  CASE check(p, {"LISTE"})  -> Parsed(advance(p), ListOf(t), FALSE)
    [] check(p, {"LISTEN"}) -> Parsed(consumeSeq(advance(p), <<"REFERENZ">>), ListOf(t), TRUE)
    [] OTHER                -> Parsed(consumeSeq(p, <<"REFERENZ">>), t, TRUE)

ReferenceElement(p, generic) ==
  LET w == Type(previous(p))
  IN CASE w \in {"BYTE", "WAHRHEITSWERT", "TEXT"} -> WordReference(p, Singular[w])
       [] w \in DOMAIN Plural -> PluralReference(p, Plural[w])
       [] w = "IDENTIFIER" /\ (LookupType(p, previous(p).w) \/ generic) ->
            NamedReference(p, NamedType(p, previous(p).w))
       [] OTHER -> SimpleElement(p, generic)

\* the list constructors are taken off the last type, which must be generic; a generic
\* Kombination has one type parameter here
Instantiated(p, types, isRef) ==
  LET main == GetNestedListElementType[WithoutAlias(p, types[Len(types)])]
  IN CASE types = << >>  -> Parsed(p, << >>, FALSE)
       [] Len(types) = 1 -> Parsed(p, types[1], isRef)
       [] Len(types) > 1 /\ LookupType(p, Head(main)) /\ Lookup(p, Head(main)).k = "generic" ->
            Parsed(IF Len(types) = 2 THEN p ELSE err(p, "TYP_COULD_NOT_INSTANTIATE_GENERIC"),
                   types[Len(types)], isRef)
       [] OTHER -> Parsed(err(p, "SEM_CANNOT_INSTANTIATE_NON_GENERIC_TYPE"), main, isRef)

RECURSIVE parseAnyType(_, _, _), TypeElement(_, _, _), TypeRest(_, _, _, _)

TypeElement(p, generic, allowRef) ==
  CASE Type(previous(p)) = "LPAREN" ->
         LET r == parseAnyType(p, generic, FALSE)
         IN Parsed(consumeAny(r.p, {"RPAREN"}), r.t, FALSE)
    [] Type(previous(p)) # "LPAREN" /\ allowRef -> ReferenceElement(p, generic)
    [] OTHER -> SimpleElement(p, generic)

\* a reference ends the type: the hyphen after it is an error and stays
TypeRest(r, types, generic, allowRef) ==
  LET all == IF r.t = << >> THEN types ELSE Append(types, r.t)
  IN CASE ~ check(r.p, {"NEGATE"}) -> Instantiated(r.p, all, r.ref)
       [] check(r.p, {"NEGATE"}) /\ r.ref ->
            Instantiated(err(r.p, "TYP_REFERENCE_TYPE_PARAM"), all, TRUE)
       [] OTHER -> TypeRest(TypeElement(consumeAny(advance(r.p), TypeTokens), generic, allowRef),
                            all, generic, allowRef)

parseAnyType(p, generic, allowRef) ==
  IF ~ check(p, TypeTokens) THEN NoType(p)
  ELSE TypeRest(TypeElement(advance(p), generic, allowRef), << >>, generic, allowRef)

parseType(p, generic) == parseAnyType(p, generic, FALSE)

parseReferenceType(p, generic) == parseAnyType(p, generic, TRUE)

(***************************************************************************)
(* nichts, or an article and a type whose type parameters are those of the *)
(* function (params).                                                      *)
(***************************************************************************)
ReturnTypeOf(article, r, params) ==
  CASE r.t = << >> -> r
    [] r.t # << >> /\ CastDeeplyNestedGenerics(r.t) /\ ~ params ->
         Parsed(err(r.p, "TYP_WRONG_RETURN_TYPE"), << >>, FALSE)
    [] r.t # << >> /\ ~ (CastDeeplyNestedGenerics(r.t) /\ ~ params)
         /\ ~ MatchesGender(r.p, r.t, {genderFromArticle2Akkusativ(article)}) ->
         Parsed(err(r.p, "SYN_GENDER_MISMATCH"), r.t, FALSE)
    [] OTHER -> r

parseReturnType(p, params) ==
  IF check(p, {"NICHTS"}) THEN Parsed(advance(p), Void, FALSE)
  ELSE LET q == consumeAny(p, {"EINEN", "EINE", "EIN"})
       IN ReturnTypeOf(Type(previous(q)), parseType(q, TRUE), params)
=============================================================================
