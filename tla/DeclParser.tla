----------------------------- MODULE DeclParser -----------------------------
(***************************************************************************)
(* declarations.go, the instantiation of generic functions (alias.go) and  *)
(* the loop of parse (parser.go).                                          *)
(***************************************************************************)
EXTENDS StmtParser

CONSTANT OperatorArity   \* the number of operands of the operators that can be overloaded

BadDecl == <<"BadDecl">>

Name(n, gender, isPublic) == <<"Name", n, gender, IF isPublic THEN "public" ELSE "private">>

IsPublic(name) == name[4] = "public"

\* a function: parameters [n, t, ref], return type, whether it has a body, is extern or is defined
\* later, the tokens of a generic body with the colon before it, and the types it was instantiated with
Func(params, ret, kind, visible, generic, body) ==
  [params |-> params, ret |-> ret, kind |-> kind, vis |-> visible, defined |-> kind # "later", generic |-> generic, body |-> body,
   inst |-> {}, own |-> TRUE]
-----------------------------------------------------------------------------
(***************************************************************************)
(* Variables and constants.                                                *)
(***************************************************************************)
matchExternSichtbar(p, isPublic) ==
  CASE isPublic /\ check(p, {"COMMA"}) -> consumeSeq(consumeSeq(advance(p), <<"EXTERN">>), <<"SICHTBARE">>)
    [] check(p, {"EXTERN"})            -> consumeSeq(advance(p), <<"SICHTBARE">>)
    [] OTHER                           -> p

DeclaredType(r, article, isField) ==
  CASE r.t = << >> -> err(r.p, "SYN_EXPECTED_TYPENAME")
    [] r.t # << >> /\ ~ MatchesGender(r.p, r.t, {genderFromArticle(article, isField)}) ->
         err(r.p, "SYN_GENDER_MISMATCH")
    [] OTHER -> r.p

\* a list may be given as a count and a value
InitValue(p, t) ==
  IF IsList(WithoutAlias(p, t)) THEN <<Lvl(0), [k |-> "listCount", named |-> LookupType(p, peekN(p, -2).w)]>>
  ELSE <<AssignRhs(FALSE)>>

IsExternVisible(p, isPublic) == check(p, {"EXTERN"}) \/ (isPublic /\ check(p, {"COMMA"}))

DeclName(p, t, linkage, isPublic) == <<Name(previous(p).w, linkage, isPublic), <<"type">> \o t>>

\* p is after the name
VarInit(p, t, linkage, isPublic, isField, rest) ==
  \/ /\ ~ isField
     /\ Do(consumeSeq(p, <<"IST">>), InitValue(p, t) \o <<Expect(<<"DOT">>), Build("VarDecl", 3)>> \o rest,
           nodes \o DeclName(p, t, linkage, isPublic))
  \/ /\ isField /\ check(p, {"MIT"})
     /\ Do(consumeAny(advance(p), {"STANDARDWERT"}), InitValue(p, t) \o <<Build("VarDecl", 3)>> \o rest,
           nodes \o DeclName(p, t, linkage, isPublic))
  \/ /\ isField /\ ~ check(p, {"MIT"})
     /\ Do(p, <<Build("VarDecl", 3)>> \o rest, nodes \o DeclName(p, t, linkage, isPublic) \o <<<<"NoInit">>>>)

varDeclaration(p, article, isPublic, isField, isGeneric, rest) ==
  \E r \in {parseType(matchExternSichtbar(p, isPublic), isGeneric)} :
    \E q \in {DeclaredType(r, article, isField)} :
      IF check(q, {"IDENTIFIER"})
        THEN VarInit(advance(q), r.t, IF IsExternVisible(p, isPublic) THEN "extern" ELSE "none", isPublic, isField, rest)
        ELSE Push(consumeSeq(q, <<"IDENTIFIER">>), rest, BadDecl)

ListCount ==
  /\ Todo("listCount")
  /\ IF check(parser, {"COUNT_MAL"}) THEN Do(advance(parser), <<Lvl(0), [k |-> "countedList", named |-> Top.named]>>, nodes)
     ELSE Do(parser, << >>, nodes)

\* an alias or a type parameter is not a ListType: the type assertion panics
CountedList ==
  /\ Todo("countedList")
  /\ Do([parser EXCEPT !.crashed = Top.named], << >>, Node("ListCount", 2))

ExpectLiterals(p, es) ==
  IF \A i \in DOMAIN es : IsLiteral(es[i]) THEN p ELSE err(p, "SYN_EXPECTED_LITERAL")

constDeclaration(p, article, isPublic) ==
  \E q \in {consumeSeq(IF article = "DIE" THEN p ELSE err(p, "SYN_GENDER_MISMATCH"), <<"KONSTANTE">>)} :
    IF check(q, {"IDENTIFIER"})
      THEN Do(consumeSeq(advance(q), <<"IST">>), <<Lvl(0), Item("constCount")>>,
              Append(nodes, Name(peek(q).w, "none", isPublic)))
      ELSE Push(consumeSeq(q, <<"IDENTIFIER">>), << >>, BadDecl)

\* whether it is a constant depends on the first expression
ConstCount ==
  /\ Todo("constCount")
  /\ \E p \in {ExpectLiterals(parser, <<LastNode>>)} :
       IF check(p, {"COUNT_MAL"})
         THEN Do(advance(p), <<Lvl(0), Item("constValue"), [k |-> "constEnd", lit |-> IsLiteral(LastNode)]>>, nodes)
         ELSE Do(p, <<[k |-> "constEnd", lit |-> IsLiteral(LastNode)]>>, nodes)

ConstValue ==
  /\ Todo("constValue")
  /\ Do(ExpectLiterals(parser, <<LastNode>>), << >>, Append(Below(2), <<"ListCount">> \o LastNodes(2)))

ConstEnd ==
  /\ Todo("constEnd")
  /\ \E p \in {IF LastNode[1] = "ListLit" THEN ExpectLiterals(parser, Tail(LastNode)) ELSE parser} :
       Do(consumeSeq(p, <<"DOT">>), << >>,
          Append(Below(2), IF Top.lit THEN <<"ConstDecl">> \o LastNodes(2) ELSE BadDecl))
-----------------------------------------------------------------------------
(***************************************************************************)
(* Aliases in the text of a declaration.                                   *)
(***************************************************************************)
AliasWords(w) == IF w \in DOMAIN AliasOf THEN AliasOf[w] ELSE [pos |-> << >>, neg |-> << >>]

\* the same words, and parameters of the same types
SameAlias(words, params, a) ==
  /\ Len(words) = Len(a.words)
  /\ \A i \in DOMAIN words :
       IF words[i] \in DOMAIN ParamWords
         THEN a.words[i] \in DOMAIN ParamWords /\ params[words[i]] = a.params[a.words[i]]
         ELSE words[i] = a.words[i]

aliasExists(p, words, params) == \E a \in p.aliases : SameAlias(words, params, a)

ParamsIn(words) == SelectSeq(words, LAMBDA w : w \in DOMAIN ParamWords)

ParamNames(params) == {params[i].n : i \in {j \in DOMAIN params : params[j].t # << >>}}

\* each parameter exactly once
validateFunctionAlias(words, params) ==
  /\ Len(ParamsIn(words)) = Len(params)
  /\ {ParamWords[w] : w \in Range(ParamsIn(words))} = ParamNames(params)
  /\ \A i, j \in DOMAIN ParamsIn(words) : i # j => ParamsIn(words)[i] # ParamsIn(words)[j]

\* each field at most once, every type parameter is determined
validateStructAlias(words, fields) ==
  /\ \A w \in Range(ParamsIn(words)) : \E i \in DOMAIN fields : fields[i].n = ParamWords[w]
  /\ \A i, j \in DOMAIN ParamsIn(words) : i # j => ParamsIn(words)[i] # ParamsIn(words)[j]
  /\ \A i \in DOMAIN fields : CastDeeplyNestedGenerics(fields[i].t) =>
       \/ fields[CHOOSE j \in 1..i : /\ CastDeeplyNestedGenerics(fields[j].t)
                                     /\ \A l \in 1..(j - 1) : ~ CastDeeplyNestedGenerics(fields[l].t)].init
       \/ \E w \in Range(ParamsIn(words)), j \in DOMAIN fields :
            ParamWords[w] = fields[j].n /\ CastDeeplyNestedGenerics(fields[j].t)

ParamTypes(words, params) ==
  [w \in Range(ParamsIn(words)) |->
     LET i == CHOOSE j \in DOMAIN params : params[j].n = ParamWords[w]
     IN [t |-> params[i].t, ref |-> params[i].ref]]

NewAlias(words, decl, kind, negated, params) ==
  [words |-> words, decl |-> decl, kind |-> kind, negated |-> negated, params |-> ParamTypes(words, params)]

\* h.new collects the aliases of the declaration, which are inserted later
ScanAndValidate(h, words, valid, kind, negated) ==
  IF words # << >> /\ valid /\ ~ aliasExists(h.p, words, ParamTypes(words, h.params))
    THEN [h EXCEPT !.new = @ \cup {NewAlias(words, h.name, kind, negated, h.params)}]
    ELSE [h EXCEPT !.p = err(@, "SEM_MALFORMED_ALIAS")]

\* an alias with a negation marker stands for two
FunctionAlias(h, w) ==
  IF w.neg = << >> THEN ScanAndValidate(h, w.pos, validateFunctionAlias(w.pos, h.params), "FuncCall", FALSE)
  ELSE IF h.p.isCurrentFunctionBool
    THEN ScanAndValidate(ScanAndValidate(h, w.neg, validateFunctionAlias(w.neg, h.params), "FuncCall", TRUE),
                         w.pos, validateFunctionAlias(w.pos, h.params), "FuncCall", FALSE)
    ELSE [h EXCEPT !.p = err(@, "SEM_ALIAS_BAD_ARGS")]

StructAlias(h, w) == ScanAndValidate(h, w.pos, validateStructAlias(w.pos, h.params), "StructLiteral", FALSE)

RECURSIVE RawAliases(_, _, _)

\* the texts after the first; a comma between the aliases of a struct needs no indentation
RawAliases(p, raw, isStruct) ==
  LET q == advance(p)
      more == \/ check(p, {"COMMA"}) /\ (isStruct \/ (peek(q).ind > 0 /\ ~ atEnd(q)))
              \/ check(p, {"ODER"}) /\ peek(q).ind > 0 /\ ~ atEnd(q)
  IN CASE ~ check(p, {"COMMA", "ODER"}) -> [p |-> p, raw |-> raw]
       [] check(p, {"COMMA", "ODER"}) /\ ~ more -> [p |-> q, raw |-> raw]
       [] OTHER -> RawAliases(consumeSeq(q, <<"STRING">>),
                              IF check(q, {"STRING"}) THEN Append(raw, peek(q).w) ELSE raw, isStruct)

FirstAlias(p) == IF Type(previous(p)) = "STRING" THEN <<previous(p).w>> ELSE << >>

Must(h, s) == [h EXCEPT !.p = consumeSeq(@, s), !.ok = @ /\ matchSeq(h.p, s)]

Fail(h) == [h EXCEPT !.p = err(@, "perr"), !.ok = FALSE]

CollectAliases(h, r) == FoldLeft(LAMBDA g, w : FunctionAlias(g, AliasWords(w)), [h EXCEPT !.p = r.p], r.raw)

RawFunctionAliases(h) == CollectAliases(h, RawAliases(h.p, FirstAlias(h.p), FALSE))

parseFunctionAliases(h) ==
  RawFunctionAliases(Must(h, <<"UND", "KANN", "SO", "BENUTZT", "WERDEN", "COLON", "STRING">>))

CollectStructAliases(h, r) == FoldLeft(LAMBDA g, w : StructAlias(g, AliasWords(w)), [h EXCEPT !.p = r.p], r.raw)

RawStructAliases(h, p) == CollectStructAliases(h, RawAliases(p, FirstAlias(p), TRUE))

parseStructAliases(h) ==
  RawStructAliases(h, consumeSeq(h.p, <<"UND", "ERSTELLEN", "SIE", "SO", "COLON", "STRING">>))
-----------------------------------------------------------------------------
(***************************************************************************)
(* The header of a function: a record h with the parser p, whether it is   *)
(* valid (ok) and what was parsed.                                         *)
(***************************************************************************)
Header(p, name, generic) ==
  [p |-> p, ok |-> TRUE, name |-> name, gen |-> generic, params |-> << >>, ret |-> << >>, vis |-> FALSE,
   kind |-> "later", from |-> 0, to |-> 0, op |-> "none", new |-> {}]

Param(n) == [n |-> n, t |-> << >>, ref |-> FALSE]

\* a parameter may shadow variables only
paramNameAllowed(p, n) == Visible(p, n) # {} => Lookup(p, n).k \in {"var", "const"}

\* the first parameter is kept although its name is not allowed
FirstParam(h) ==
  [IF paramNameAllowed(h.p, previous(h.p).w) THEN h ELSE Fail(h) EXCEPT !.params = <<Param(previous(h.p).w)>>]

AddParamName(h) ==
  IF \/ \E i \in DOMAIN h.params : h.params[i].n = previous(h.p).w
     \/ ~ paramNameAllowed(h.p, previous(h.p).w)
    THEN Fail(h)
    ELSE [h EXCEPT !.params = Append(@, Param(previous(h.p).w))]

LastParamName(h) ==
  AddParamName(IF matchSeq(h.p, <<"UND", "IDENTIFIER">>) THEN [h EXCEPT !.p = skip(@, 2)]
               ELSE Fail([h EXCEPT !.p = consumeSeq(@, <<"UND", "IDENTIFIER">>)]))

RECURSIVE MoreParamNames(_)

MoreParamNames(h) ==
  CASE ~ check(h.p, {"COMMA"}) -> LastParamName(h)
    [] matchSeq(h.p, <<"COMMA", "IDENTIFIER">>) -> MoreParamNames(AddParamName([h EXCEPT !.p = skip(@, 2)]))
    [] OTHER -> LastParamName([h EXCEPT !.p = consumeSeq(@, <<"COMMA", "IDENTIFIER">>)])

OtherParamNames(h) ==
  IF check(h.p, {"UND"}) THEN AddParamName(Must([h EXCEPT !.p = advance(@)], <<"IDENTIFIER">>))
  ELSE MoreParamNames(h)

\* types without a parameter are dropped
WithParamType(h, r, i) ==
  [h EXCEPT !.p = r.p, !.ok = @ /\ r.t # << >>,
            !.params = IF i \in DOMAIN @ THEN [@ EXCEPT ![i].t = r.t, ![i].ref = r.ref] ELSE @]

AddType(h, i) == WithParamType(h, parseReferenceType(h.p, h.gen), i)

RECURSIVE MoreParamTypes(_, _)

MoreParamTypes(h, i) ==
  IF check(h.p, {"COMMA"}) /\ Type(peekN(h.p, 1)) # "GIBT"
    THEN MoreParamTypes(AddType([h EXCEPT !.p = advance(@)], i), i + 1)
    ELSE AddType([h EXCEPT !.p = consumeSeq(IF check(@, {"COMMA"}) THEN advance(@) ELSE @, <<"UND">>)], i)

OtherParamTypes(h) ==
  IF check(h.p, {"UND"}) THEN AddType([h EXCEPT !.p = advance(@)], 2) ELSE MoreParamTypes(h, 2)

\* that there are fewer types than names goes unnoticed: a parameter with a name is never the default value
ParamEnd(h) == [h EXCEPT !.p = consumeSeq(@, <<"COMMA">>)]

SomeTypes(h, single) ==
  ParamEnd(IF single THEN AddType(Must(h, <<"VOM", "TYP">>), 1)
           ELSE OtherParamTypes(AddType(Must(h, <<"VOM", "TYP">>), 1)))

SomeParams(h, single) ==
  IF single THEN SomeTypes(FirstParam(Must(h, <<"IDENTIFIER">>)), TRUE)
  ELSE SomeTypes(OtherParamNames(FirstParam(Must(h, <<"IDENTIFIER">>))), FALSE)

\* h.p is after mit
parseFunctionParameters(h) ==
  CASE matchSeq(h.p, <<"DEN", "PARAMETERN">>) -> SomeParams([h EXCEPT !.p = skip(@, 2)], FALSE)
    [] matchSeq(h.p, <<"DEM", "PARAMETER">>)  -> SomeParams([h EXCEPT !.p = skip(@, 2)], TRUE)
    [] OTHER                                  -> SomeParams(Fail(h), TRUE)

HasGenerics(h) == \E i \in DOMAIN h.params : h.params[i].t # << >> /\ CastDeeplyNestedGenerics(h.params[i].t)

WithParams(h) ==
  IF check(h.p, {"MIT"}) THEN parseFunctionParameters([h EXCEPT !.p = advance(@)]) ELSE h

WithReturnNoBool(h, r) ==
  Must([h EXCEPT !.p = r.p, !.ok = @ /\ r.t # << >>, !.ret = r.t], <<"ZURUECK", "COMMA">>)

WithReturn(h, r) ==
  Must([h EXCEPT !.p = [r.p EXCEPT !.isCurrentFunctionBool = (WithoutAlias(r.p, r.t) = WAHRHEITSWERT)], !.ok = @ /\ r.t # << >>,
                 !.ret = r.t], <<"ZURUECK", "COMMA">>)

ReturnPart(h) == WithReturn(h, parseReturnType(h.p, HasGenerics(h)))

ReturnOf(h) == ReturnPart(Must(IF h.gen /\ ~ HasGenerics(h) THEN Fail(h) ELSE h, <<"GIBT">>))

ExternVisible(h) ==
  IF matchSeq(h.p, <<"IST", "EXTERN", "SICHTBAR", "COMMA">>)
    THEN IF h.gen THEN Fail([h EXCEPT !.p = skip(@, 4), !.vis = TRUE]) ELSE [h EXCEPT !.p = skip(@, 4), !.vis = TRUE]
    ELSE h

\* the position after the tokens that are indented further than the colon
BodyEnd(p) ==
  Min({i \in p.cur..Len(p.toks) : p.toks[i].ind <= previous(p).ind} \cup {Len(p.toks) + 1})

SkipBody(h) ==
  [h EXCEPT !.kind = "body", !.from = h.p.cur, !.to = BodyEnd(h.p), !.p = [@ EXCEPT !.cur = BodyEnd(h.p)]]

\* generic parameters of an extern function are lists or references
BadGeneric(h) ==
  \/ \E i \in DOMAIN h.params :
       h.params[i].t # << >> /\ ~ IsList(h.params[i].t) /\ ~ h.params[i].ref /\ CastDeeplyNestedGenerics(h.params[i].t)
  \/ h.ret # << >> /\ ~ IsList(h.ret) /\ CastDeeplyNestedGenerics(h.ret)

BadExtern(h) == h.vis \/ Type(peekN(h.p, -2)) # "STRING" \/ (h.gen /\ BadGeneric(h))

ExternFile(h) == IF BadExtern(h) THEN Fail(h) ELSE h

FunctionKind(h) ==
  CASE check(h.p, {"MACHT"}) -> SkipBody(Must([h EXCEPT !.p = advance(@)], <<"COLON">>))
    [] check(h.p, {"WIRD"}) ->
         LET g == Must([h EXCEPT !.p = advance(@)], <<"SPAETER", "DEFINIERT">>) IN IF h.gen THEN Fail(g) ELSE g
    [] OTHER -> ExternFile(Must([h EXCEPT !.kind = "extern"], <<"IST", "IN", "STRING", "DEFINIERT">>))

\* h.p is after the operator and its dot
OverloadedOperator(h, w) ==
  IF w \in DOMAIN OperatorArity
    THEN [h EXCEPT !.op = w,
                   !.p = IF Len(h.params) = OperatorArity[w] /\ h.ret # Void THEN @ ELSE err(@, "SEM_BAD_OPERATOR_PARAMS")]
    ELSE [h EXCEPT !.p = err(@, "SYN_INVALID_OPERATOR")]

parseOperatorOverloading(h) ==
  LET g == Must(h, <<"DEN", "STRING", "OPERATOR", "DOT">>) IN OverloadedOperator(g, peekN(g.p, -3).w)

HowCalled(h) ==
  IF matchSeq(h.p, <<"UND", "UEBERLAEDT">>) THEN parseOperatorOverloading([h EXCEPT !.p = skip(@, 2)])
  ELSE parseFunctionAliases(h)

MustBeGlobal(h) == IF IsGlobalScope(h.p) THEN h ELSE Fail(h)

FuncHeader(h) == MustBeGlobal(HowCalled(FunctionKind(ExternVisible(ReturnOf(WithParams(h))))))
-----------------------------------------------------------------------------
(***************************************************************************)
(* Function declarations and definitions.                                  *)
(***************************************************************************)
BodySymbols(p, params) ==
  {Var(params[i].n, params[i].t) : i \in {j \in DOMAIN params : paramNameAllowed(p, params[j].n)}}

\* the names of functions keep their first declaration
InsertFunc(p, n, f) ==
  IF Declared(p, n) THEN p
  ELSE [InsertDecl(p, Symbol(n, "func", f.ret, "none")) EXCEPT !.funcs = (n :> f) @@ @]

parseFunctionBody(p, n, params, ret, rest) ==
  Do([p EXCEPT !.currentFunction = n], <<Block(BodySymbols(p, params)), [k |-> "bodyEnd", ret |-> ret]>> \o rest, nodes)

ensureReturnStatementPresent(p, ret, body) ==
  IF ret = Void \/ (Len(body) > 1 /\ body[Len(body)][1] \in {"ReturnStmt", "TodoStmt"}) THEN p
  ELSE err(p, "SEM_MISSING_RETURN")

FunctionBodyEnd ==
  /\ Todo("bodyEnd")
  /\ Do([ensureReturnStatementPresent(parser, Top.ret, LastNode) EXCEPT !.currentFunction = "none"], << >>, nodes)

Overload(h) == <<h.op, [i \in DOMAIN h.params |-> h.params[i].t]>>

insertOperatorOverload(p, h) ==
  CASE h.op = "none"              -> p
    [] Overload(h) \in p.overloads -> err(p, "SEM_OVERLOAD_ALREADY_DEFINED")
    [] OTHER                      -> [p EXCEPT !.overloads = @ \cup {Overload(h)}]

FunctionEnd ==
  /\ Todo("functionEnd")
  /\ Do([insertOperatorOverload(parser, Top.h) EXCEPT !.cur = Top.h.p.cur], << >>,
        IF Top.h.kind = "body" /\ ~ Top.h.gen
          THEN Append(Below(1), <<"FuncDecl", <<Top.h.name>>, LastNode>>)
          ELSE Append(nodes, <<"FuncDecl", <<Top.h.name>>>>))

\* the body is parsed after the aliases, which enables recursion
FunctionBody(h) ==
  \E p \in {InsertFunc([h.p EXCEPT !.aliases = @ \cup h.new], h.name,
                       Func(h.params, h.ret, h.kind, h.vis, h.gen,
                            IF h.gen /\ h.kind = "body" THEN SubSeq(h.p.toks, h.from - 1, h.to - 1) ELSE << >>))} :
    IF h.kind = "body" /\ ~ h.gen
      THEN parseFunctionBody([p EXCEPT !.cur = h.from], h.name, h.params, h.ret, <<[k |-> "functionEnd", h |-> h]>>)
      ELSE Do(p, <<[k |-> "functionEnd", h |-> h]>>, nodes)

MayBeDefined(p, n) ==
  Visible(p, n) # {} /\ Lookup(p, n).k = "func" /\ p.funcs[n].own /\ ~ p.funcs[n].defined /\ IsGlobalScope(p)

\* p is after macht
funcDefinition(p, n) ==
  IF MayBeDefined(p, n)
    THEN parseFunctionBody(consumeSeq(p, <<"COLON">>), n, p.funcs[n].params, p.funcs[n].ret, <<[k |-> "defined", n |-> n]>>)
    ELSE Push(err(p, "SEM_NAME_UNDEFINED"), << >>, None)

DefinitionEnd ==
  Todo("defined") /\ Do(parser, << >>, Append(Below(1), <<"FuncDef", <<Top.n>>, LastNode>>))

UnusedName(p, n) == IF Visible(p, n) = {} THEN p ELSE err(p, "SEM_NAME_ALREADY_DEFINED")

funcDeclaration(p, isGeneric) ==
  \/ ~ check(p, {"IDENTIFIER"}) /\ Push(consumeSeq(p, <<"IDENTIFIER">>), << >>, BadDecl)
  \/ matchSeq(p, <<"IDENTIFIER", "MACHT">>) /\ funcDefinition(skip(p, 2), peek(p).w)
  \/ /\ check(p, {"IDENTIFIER"}) /\ Type(peekN(p, 1)) # "MACHT"
     /\ \E h \in {FuncHeader(Header(UnusedName(advance(p), peek(p).w), peek(p).w, isGeneric))} :
          IF h.ok THEN FunctionBody(h) ELSE Push(h.p, << >>, BadDecl)
-----------------------------------------------------------------------------
(***************************************************************************)
(* The instantiation of a generic function parses the tokens of its body   *)
(* with a parser of its own.  It is recorded before, which ends recursion, *)
(* and removed again when there were errors.                               *)
(***************************************************************************)
Instantiated_(f, i, types) == IF i \in DOMAIN types THEN types[i] ELSE f.params[i].t

InstantiatedSymbols(p, f, types) ==
  {Var(f.params[i].n, Instantiated_(f, i, types)) : i \in {j \in DOMAIN f.params : paramNameAllowed(p, f.params[j].n)}}
    \cup {Symbol("T", "type", types[i], "instantiated") : i \in {Min(DOMAIN types)}}

InstantiatedReturn(f, types) == IF f.ret = <<"T">> THEN types[Min(DOMAIN types)] ELSE f.ret

DeclParser_(p, n, types) ==
  LET f == p.funcs[n]
  IN [p EXCEPT !.toks = f.body, !.cur = 2, !.panicMode = FALSE, !.errored = FALSE,
               !.saved = "unset", !.faulty = FALSE, !.scopes = <<Head(@)>>, !.LoopDepth = 0, !.currentFunction = n,
               !.isCurrentFunctionBool = (WithoutAlias(p, InstantiatedReturn(f, types)) = WAHRHEITSWERT), !.argErr = FALSE,
               !.funcs[n].inst = @ \cup {types}]

InstantiateGenericFunction ==
  /\ Todo("instantiate")
  /\ \E f \in {parser.funcs[Top.fn]} :
       \/ Top.types \in f.inst /\ Do(parser, << >>, nodes)
       \/ /\ Top.types \notin f.inst /\ f.body = << >>
          /\ Do([parser EXCEPT !.funcs[Top.fn].inst = @ \cup {Top.types}], << >>, nodes)
       \/ /\ Top.types \notin f.inst /\ f.body # << >>
          /\ Do(DeclParser_(parser, Top.fn, Top.types),
                <<Block(InstantiatedSymbols(parser, f, Top.types)), [k |-> "bodyEnd", ret |-> f.ret],
                  [k |-> "instantiated", fn |-> Top.fn, types |-> Top.types, outer |-> parser]>>, nodes)

\* the tokens of the body are kept, in place
InstantiationEnd ==
  /\ Todo("instantiated")
  /\ \E p \in {[Top.outer EXCEPT !.crashed = parser.crashed, !.funcs = [parser.funcs EXCEPT ![Top.fn].body = parser.toks],
                                 !.argErr = @ \/ parser.errored]} :
       Do(IF parser.errored THEN [p EXCEPT !.funcs[Top.fn].inst = @ \ {Top.types}] ELSE p, << >>, Below(1))
-----------------------------------------------------------------------------
(***************************************************************************)
(* Types.                                                                  *)
(***************************************************************************)
ParsedGender(p) == genderFromArticle2Akkusativ(Type(previous(p)))

parseGender(p) == consumeAny(p, {"EINEN", "EINE", "EIN"})

\* p is after wir nennen die
structDeclaration(p, indent) ==
  LET isPublic == "OEFFENTLICHE" \in {Type(peek(p)), Type(peekN(p, 1))}
      isGeneric == "GENERISCHE" \in {Type(peek(p)), Type(peekN(p, 1))}
      flags == (IF isPublic THEN 1 ELSE 0) + (IF isGeneric THEN 1 ELSE 0)
  IN Do(consumeSeq(skip(p, flags), <<"KOMBINATION", "AUS">>),
        <<[k |-> "structFields", ind |-> indent + 1, pub |-> isPublic, gen |-> isGeneric, base |-> Len(nodes)]>>, nodes)

\* the article of a field
FieldStart(p) == consumeAny(p, {"DER", "DEM"})

StructField ==
  /\ Todo("structFields")
  /\ peek(parser).ind >= Top.ind /\ ~ atEnd(parser)
  /\ \E p \in {FieldStart(parser)} :
       varDeclaration(IF check(p, {"OEFFENTLICHEN"}) THEN advance(p) ELSE p, Type(previous(p)),
                      check(p, {"OEFFENTLICHEN"}), TRUE, Top.gen, <<Item("fieldEnd"), Top>>)

FieldEnd ==
  /\ Todo("fieldEnd")
  /\ Do(IF check(parser, {"COMMA"}) THEN advance(parser) ELSE advance(err(parser, "SYN_UNEXPECTED_TOKEN")), << >>, nodes)

Field(d) == [n |-> d[2][2], t |-> Tail(d[3]), ref |-> FALSE, init |-> d[4] # <<"NoInit">>]

Fields(ds) ==
  LET good == SelectSeq(ds, LAMBDA d : d[1] = "VarDecl" /\ Len(d[3]) > 1) IN [i \in DOMAIN good |-> Field(good[i])] @@ << >>

StructHeader(p, name, fields) == [Header(p, name, FALSE) EXCEPT !.params = fields]

StructName(p, n, generic, fields) ==
  IF \/ LookupType(p, n)
     \/ generic /\ \A i \in DOMAIN fields : ~ CastDeeplyNestedGenerics(fields[i].t)
    THEN err(p, "SEM_NAME_ALREADY_DEFINED") ELSE p

StructAliases(h) ==
  IF check(h.p, {"COMMA"}) THEN parseStructAliases([h EXCEPT !.p = advance(@)])
  ELSE [h EXCEPT !.p = consumeAny(@, {"DOT"})]

StructEnd ==
  /\ Todo("structFields")
  /\ ~ (peek(parser).ind >= Top.ind /\ ~ atEnd(parser))
  /\ \E p \in {parseGender(parser)}, ds \in {LastNodes(Len(nodes) - Top.base)} :
       IF ~ check(p, {"IDENTIFIER"})
         THEN Do(consumeSeq(p, <<"IDENTIFIER">>), << >>, Append(SubSeq(nodes, 1, Top.base), BadDecl))
         ELSE \E h \in {StructAliases(StructHeader(StructName(advance(p), peek(p).w, Top.gen, Fields(ds)),
                                                   peek(p).w, Fields(ds)))} :
                Do([h.p EXCEPT !.aliases = @ \cup h.new], << >>,
                   Append(SubSeq(nodes, 1, Top.base), <<"StructDecl", Name(h.name, ParsedGender(p), Top.pub)>> \o ds))

Opened(p) == IF check(p, {"OEFFENTLICH"}) THEN advance(p) ELSE p

Article(p) == consumeAny(p, {"EIN", "EINE", "EINEN"})

\* q is after the new name's article, r after the underlying type
typeAliasDecl(p) ==
  \E r \in {parseType(Article(consumeSeq(p, <<"NENNEN">>)), FALSE)} :
    \E q \in {parseGender(consumeSeq(Opened(r.p), <<"AUCH">>))} :
      \E s \in {consumeSeq(q, <<"IDENTIFIER">>)} :
        Push(consumeSeq(s, <<"DOT">>), << >>,
             <<"TypeAliasDecl", Name(previous(s).w, ParsedGender(q), check(r.p, {"OEFFENTLICH"})), <<"type">> \o r.t>>)

typeDefDecl(p) ==
  \E q \in {parseGender(p)} :
    \E s \in {consumeSeq(q, <<"IDENTIFIER">>)} :
      \E r \in {parseType(Article(consumeSeq(Opened(s), <<"ALS">>)), FALSE)} :
        Push(consumeSeq(IF WithoutAlias(r.p, r.t) = VARIABLE_ THEN err(r.p, "SEM_BAD_TYPEDEF") ELSE r.p, <<"DOT">>), << >>,
             <<"TypeDefDecl", Name(previous(s).w, ParsedGender(q), check(s, {"OEFFENTLICH"})), <<"type">> \o r.t>>)

(***************************************************************************)
(* Der Alias ... steht fuer die Funktion ...  The token before is the word *)
(* Alias and not the article.  No node is returned.                        *)
(***************************************************************************)
AliasHeader(p, text, n) ==
  FunctionAlias([Header(p, n, FALSE) EXCEPT !.params = p.funcs[n].params], [pos |-> AliasWords(text).pos, neg |-> << >>])

AddAlias(h, q, ind) ==
  IF ind > 0 THEN err(q, "SEM_ALIAS_MUST_BE_GLOBAL") ELSE [q EXCEPT !.aliases = @ \cup h.new]

\* a type is not a function: the type assertion panics
AliasTarget(p, text, n, ind) ==
  CASE Visible(p, n) = {} -> err(p, "SEM_NAME_UNDEFINED")
    [] Visible(p, n) # {} /\ Lookup(p, n).k \in {"var", "const"} -> err(p, "SEM_BAD_NAME_CONTEXT")
    [] Visible(p, n) # {} /\ Lookup(p, n).k \in TypeKinds -> [p EXCEPT !.crashed = TRUE]
    [] OTHER -> LET h == AliasHeader(p, text, n) IN AddAlias(h, consumeSeq(h.p, <<"DOT">>), ind)

IsFunc(p, n) == Visible(p, n) # {} /\ Lookup(p, n).k = "func"

AliasText(p, text, ind) ==
  \E q \in {consumeSeq(p, <<"STEHT", "FUER", "DIE", "FUNKTION", "IDENTIFIER">>)} :
    Push(AliasTarget(q, text, previous(q).w, ind), << >>, IF ind > 0 /\ IsFunc(q, previous(q).w) THEN BadStmt ELSE None)

BeginsWithArticle(p) == IF Type(peekN(p, -1)) = "DER" THEN p ELSE err(p, "SYN_GENDER_MISMATCH")

aliasDecl(p) ==
  \E q \in {consumeSeq(BeginsWithArticle(p), <<"STRING">>)} : AliasText(q, previous(q).w, peekN(p, -1).ind)
-----------------------------------------------------------------------------
(***************************************************************************)
(* Declarations and the loop of parse.                                     *)
(***************************************************************************)
Declares(p, article, isPublic) ==
  LET w == Type(peek(p))
  IN \/ w = "ALIAS" /\ aliasDecl(advance(p))
     \/ w = "GENERISCHE" /\ funcDeclaration(consumeAny(advance(p), {"FUNKTION"}), TRUE)
     \/ w = "FUNKTION" /\ funcDeclaration(advance(p), FALSE)
     \/ w = "KONSTANTE" /\ constDeclaration(p, article, isPublic)
     \/ w \notin {"ALIAS", "GENERISCHE", "FUNKTION", "KONSTANTE"} /\ varDeclaration(p, article, isPublic, FALSE, FALSE, << >>)

declaration ==
  /\ Todo("declaration")
  /\ \/ /\ check(parser, {"DER", "DIE", "DAS"})
        /\ IF Type(peekN(parser, 1)) = "OEFFENTLICHE" THEN Declares(skip(parser, 2), Type(peek(parser)), TRUE)
           ELSE Declares(advance(parser), Type(peek(parser)), FALSE)
     \/ matchSeq(parser, <<"WIR", "NENNEN", "DIE">>) /\ structDeclaration(skip(parser, 3), peek(parser).ind)
     \/ matchSeq(parser, <<"WIR", "DEFINIEREN">>) /\ typeDefDecl(skip(parser, 2))
     \/ /\ check(parser, {"WIR"}) /\ Type(peekN(parser, 1)) # "DEFINIEREN"
        /\ ~ matchSeq(parser, <<"WIR", "NENNEN", "DIE">>) /\ typeAliasDecl(advance(parser))
     \/ ~ check(parser, {"DER", "DIE", "DAS", "WIR"}) /\ Do(parser, <<Item("statement")>>, nodes)

\* a name is declared once in a scope, public things and types in the global one
DeclareName(p, s, resolved, mustBeGlobal) ==
  InsertDecl(IF resolved /\ ~ Declared(p, s.n) /\ (mustBeGlobal => IsGlobalScope(p)) THEN p ELSE resolverErr(p), s)

FieldsResolve(p, fields) ==
  \A i \in DOMAIN fields : fields[i][1] = "VarDecl" => fields[i][4][1] = "NoInit" \/ Resolves(p, fields[i][4])

ResolveNode(p, s) ==
  CASE s[1] = "VarDecl" -> DeclareName(p, Var(s[2][2], Tail(s[3])), Resolves(p, s[4]), IsPublic(s[2]))
    [] s[1] = "ConstDecl" ->
         DeclareName(p, Symbol(s[2][2], "const", EvaluateSilent(p, s[3]), "none"), Resolves(p, s[3]), IsPublic(s[2]))
    [] s[1] = "StructDecl" ->
         DeclareName(p, Symbol(s[2][2], "type", <<s[2][2]>>, s[2][3]), FieldsResolve(p, SubSeq(s, 3, Len(s))), TRUE)
    [] s[1] = "TypeAliasDecl" -> DeclareName(p, TypeAlias(s[2][2], WithoutAlias(p, Tail(s[3])), s[2][3]), TRUE, TRUE)
    [] s[1] = "TypeDefDecl" -> DeclareName(p, Symbol(s[2][2], "type", <<s[2][2]>>, s[2][3]), TRUE, TRUE)
    [] s[1] = "FuncDef" -> [p EXCEPT !.funcs[s[2][1]].defined = TRUE]
    [] OTHER -> ResolveStmt(p, s)

\* bad nodes make the module faulty
checkStatement(p, s) == IF HasBad(s) THEN [ResolveNode(p, s) EXCEPT !.faulty = TRUE] ELSE ResolveNode(p, s)

checkedDeclaration ==
  /\ Todo("check")
  /\ \E p \in {IF LastNode = None THEN parser ELSE checkStatement(parser, LastNode)} :
       Do(IF p.panicMode THEN synchronize(p) ELSE p, << >>, nodes)

\* functions that were only declared
validateForwardDecls(p) ==
  IF \E n \in DOMAIN p.funcs : p.funcs[n].own /\ ~ p.funcs[n].defined /\ ~ p.funcs[n].generic
    THEN [err(p, "SEM_FORWARD_DECL_WITHOUT_DEF") EXCEPT !.panicMode = FALSE] ELSE p

parse ==
  /\ Todo("module")
  /\ IF ~ atEnd(parser) THEN Do(parser, Checked \o <<Top>>, nodes)
     ELSE \E p \in {validateForwardDecls(parser)} :
            Do([p EXCEPT !.faulty = p.errored], << >>, SelectSeq(nodes, LAMBDA s : s # None))

DeclStep ==
  \/ StmtStep \/ ListCount \/ CountedList \/ ConstCount \/ ConstValue \/ ConstEnd \/ FunctionBodyEnd \/ FunctionEnd
  \/ DefinitionEnd \/ InstantiateGenericFunction \/ InstantiationEnd \/ StructField \/ FieldEnd \/ StructEnd
  \/ declaration \/ checkedDeclaration \/ parse
=============================================================================
