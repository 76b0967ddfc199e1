----------------------------- MODULE ExprParser -----------------------------
(***************************************************************************)
(* expressions.go, and the call of a function by its alias (alias.go) with *)
(* arguments that fit its parameters.  The call stack of the recursive     *)
(* descent is explicit: todo holds what is left to do, nodes the AST nodes *)
(* that were returned.  The parsing functions from ifExpression (0) down   *)
(* to primary (19) are levels; Lvl(n) calls one of them, Loop(n) is its    *)
(* loop over the operators that follow the first operand.                  *)
(***************************************************************************)
EXTENDS TypeParser, SequencesExt

VARIABLES parser, todo, nodes

exprVars == <<parser, todo, nodes>>

BadExpr == <<"BadExpr">>

Item(k) == [k |-> k]

Expect(s) == [k |-> "consumeSeq", s |-> s]

OneOf(types) == [k |-> "consumeAny", s |-> types]

Lvl(n) == [k |-> "level", n |-> n]

Loop(n) == [k |-> "loop", n |-> n]

\* replaces the last n nodes by one
Build(op, n) == [k |-> "build", op |-> op, n |-> n]

Assign(isInFieldAccess) == [k |-> "assigneable", inField |-> isInFieldAccess]

unary == 12

negate == 13

power == 14

primary == 19

\* the loops of levels m down to n, innermost first
Loops(m, n) == [i \in 1..(m - n + 1) |-> Loop(m + 1 - i)]

PowerLoops == Loops(18, power)
-----------------------------------------------------------------------------
(***************************************************************************)
(* The operators that a level looks for: the tokens that name it and what  *)
(* is parsed after them.  ist is not repeated when an operand ended in it. *)
(***************************************************************************)
Op(w, rest) == [w |-> w, rest |-> rest]

Simple(w, op, n) == {Op(w, <<Lvl(n), Build(op, 2)>>)}

ifExpression ==
  {Op(<<"COMMA", "FALLS">>,
      <<Lvl(0), Expect(<<"COMMA", "ANSONSTEN">>), Lvl(0), Build("TER_FALLS", 3)>>)}

boolOR == Simple(<<"ODER">>, "BIN_OR", 3)

boolAND == Simple(<<"UND">>, "BIN_AND", 4)

bitwiseOR == Simple(<<"LOGISCH", "ODER">>, "BIN_LOGIC_OR", 5)

bitwiseXOR == Simple(<<"LOGISCH", "KONTRA">>, "BIN_LOGIC_XOR", 6)

bitwiseAND == Simple(<<"LOGISCH", "UND">>, "BIN_LOGIC_AND", 7)

TypeCheckOp(word) == Op(<<word>>, <<[k |-> "typeCheck", w |-> word], Item("ist")>>)

equality ==
  {Op(<<"GLEICH">>, <<Lvl(8), Build("BIN_EQUAL", 2), Item("ist")>>),
   Op(<<"UNGLEICH">>, <<Lvl(8), Build("BIN_UNEQUAL", 2), Item("ist")>>)}
    \cup {TypeCheckOp(w) : w \in {"EIN", "EINE", "KEIN", "KEINE"}}

OrEqual == [BIN_GREATER |-> "BIN_GREATER_EQ", BIN_LESS |-> "BIN_LESS_EQ"]

CompareOp(word, op) ==
  Op(<<word>>, <<Expect(<<"ALS">>), [k |-> "compare", op |-> op], Item("ist")>>)

comparison ==
  {CompareOp("GROESSER", "BIN_GREATER"), CompareOp("KLEINER", "BIN_LESS"),
   Op(<<"ZWISCHEN">>, <<Lvl(9), Expect(<<"UND">>), Lvl(9), Build("TER_BETWEEN", 3), Item("ist")>>)}

bitShift == {Op(<<"UM">>, <<Lvl(10), Expect(<<"BIT", "NACH">>), Item("direction")>>)}

termRightAssociative ==
  Simple(<<"PLUS">>, "BIN_PLUS", 10) \cup Simple(<<"MINUS">>, "BIN_MINUS", 10)
    \cup {Op(<<"VERKETTET">>, <<Expect(<<"MIT">>), Lvl(10), Build("BIN_CONCAT", 2)>>)}

term ==
  Simple(<<"PLUS">>, "BIN_PLUS", 11) \cup Simple(<<"MINUS">>, "BIN_MINUS", 11)
    \cup {Op(<<"VERKETTET">>, <<Expect(<<"MIT">>), Lvl(11), Build("BIN_CONCAT", 2)>>)}

factor ==
  Simple(<<"MAL">>, "BIN_MULT", unary) \cup Simple(<<"DURCH">>, "BIN_DIV", unary)
    \cup Simple(<<"MODULO">>, "BIN_MOD", unary)

slicing ==
  {Op(<<"IM">>, <<Expect(<<"BEREICH", "VON">>), Lvl(0), Expect(<<"BIS">>), Lvl(16), Build("TER_SLICE", 3)>>),
   Op(<<"BIS", "ZUM">>, <<Lvl(0), Build("BIN_SLICE_TO", 2), Expect(<<"DOT", "ELEMENT">>)>>),
   Op(<<"AB">>, <<Expect(<<"DEM">>), Lvl(0), Build("BIN_SLICE_FROM", 2), Expect(<<"DOT", "ELEMENT">>)>>)}

indexing == {Op(<<"AN">>, <<Expect(<<"DER", "STELLE">>), Lvl(17), Build("BIN_INDEX", 2)>>)}

field_access == Simple(<<"VON">>, "BIN_FIELD_ACCESS", 17)

type_cast == {Op(<<"ALS">>, <<Item("cast")>>)}

Operators ==
  (0 :> ifExpression @@ 2 :> boolOR @@ 3 :> boolAND @@ 4 :> bitwiseOR @@ 5 :> bitwiseXOR
   @@ 6 :> bitwiseAND @@ 7 :> equality @@ 8 :> comparison @@ 9 :> bitShift @@ 10 :> term
   @@ 11 :> factor @@ power :> Simple(<<"HOCH">>, "BIN_POW", unary) @@ 15 :> slicing
   @@ 16 :> indexing @@ 17 :> field_access @@ 18 :> type_cast)

Found(p, n) == {o \in Operators[n] : Type(peek(p)) = o.w[1] /\ matchSeq(p, o.w)}

\* what may follow an article or logisch at the start of a unary operator
AfterArticle == [DIE |-> {"GROESSE", "LAENGE"}, DER |-> {"GROESSE", "LAENGE", "BETRAG", "STANDARDWERT"},
                 DEN |-> {"BETRAG", "STANDARDWERT"}, DEM |-> {"BETRAG", "STANDARDWERT"},
                 LOGISCH |-> {"NICHT"}]

NeedsArticle == {"BETRAG", "GROESSE", "LAENGE", "STANDARDWERT"}

Literals == {"INT", "FLOAT", "TRUE", "FALSE", "CHAR", "STRING"}
-----------------------------------------------------------------------------
(***************************************************************************)
(* Aliases: [words, decl, kind, negated, params].  A word of ParamWords    *)
(* stands for a parameter; params gives its type and whether it is passed  *)
(* by reference.                                                           *)
(***************************************************************************)
CONSTANT ParamWords   \* from the words that stand for parameters to their names

RECURSIVE ClosingParen(_, _, _)

\* the position after the parenthesis that closes the depth open ones
ClosingParen(p, i, depth) ==
  CASE depth = 0 -> i
    [] depth > 0 /\ i > Len(p.toks) -> 0
    [] OTHER -> ClosingParen(p, i + 1, CASE Type(p.toks[i]) = "LPAREN" -> depth + 1
                                         [] Type(p.toks[i]) = "RPAREN" -> depth - 1
                                         [] OTHER                      -> depth)

\* the position after an argument: a token, one with a sign, or a parenthesis
\* that does not end the tokens; 0 for none
ArgEnd(p, i, w) ==
  CASE w \in Literals \cup {"IDENTIFIER"} -> i + 1
    [] w = "NEGATE" -> IF Type(At(p, i + 1)) \in {"INT", "FLOAT", "IDENTIFIER"} THEN i + 2 ELSE 0
    [] w = "LPAREN" -> IF ClosingParen(p, i + 1, 1) > Len(p.toks) THEN 0 ELSE ClosingParen(p, i + 1, 1)
    [] OTHER -> 0

RECURSIVE AliasEnds(_, _, _)

\* the positions after the words of an alias read from i on, up to the first that differs
AliasEnds(p, i, words) ==
  CASE words = << >> -> << >>
    [] words # << >> /\ Head(words) \in DOMAIN ParamWords ->
         IF ArgEnd(p, i, Type(At(p, i))) = 0 THEN << >>
         ELSE <<ArgEnd(p, i, Type(At(p, i)))>> \o AliasEnds(p, ArgEnd(p, i, Type(At(p, i))), Tail(words))
    [] OTHER -> IF At(p, i).w = Head(words) THEN <<i + 1>> \o AliasEnds(p, i + 1, Tail(words))
                ELSE << >>

matchedAliases(p) ==
  {a \in p.aliases : Len(AliasEnds(p, p.cur, a.words)) = Len(a.words)}

References(a) == {w \in DOMAIN a.params : a.params[w].ref}

Generics(a) == {w \in DOMAIN a.params : IsGeneric(a.params[w].t)}

\* more tokens first, then fewer generic parameters, then more references
AliasLess(a, b) ==
  \/ Len(a.words) > Len(b.words)
  \/ /\ Len(a.words) = Len(b.words)
     /\ \/ Cardinality(Generics(a)) < Cardinality(Generics(b))
        \/ /\ Cardinality(Generics(a)) = Cardinality(Generics(b))
           /\ Cardinality(References(a)) > Cardinality(References(b))

\* sort.Slice leaves equal ones in any order
sortAliases(as) ==
  {s \in SetToSeqs(as) : \A i, j \in DOMAIN s : i < j => ~ AliasLess(s[j], s[i])}

Argument(from, end, isReference) == [k |-> "argument", from |-> from, end |-> end, ref |-> isReference]

\* the arguments of alias a, whose words end at ends
Arguments(p, a, ends) ==
  LET at == [i \in DOMAIN ends |->
               IF a.words[i] \notin DOMAIN ParamWords THEN << >>
               ELSE <<Argument(IF i = 1 THEN p.cur ELSE ends[i - 1], ends[i], a.params[a.words[i]].ref)>>]
  IN FlattenSeq(at)

\* the parameters of an alias in the order of its words
AliasParams(a) == SelectSeq(a.words, LAMBDA w : w \in DOMAIN ParamWords)

LiteralType == [INT |-> ZAHL, FLOAT |-> KOMMAZAHL, TRUE |-> WAHRHEITSWERT, FALSE |-> WAHRHEITSWERT,
                CHAR |-> BUCHSTABE, STRING |-> TEXT]

Conditions == {"BIN_OR", "BIN_AND", "BIN_XOR", "BIN_EQUAL", "BIN_UNEQUAL", "BIN_LESS", "BIN_LESS_EQ",
               "BIN_GREATER", "BIN_GREATER_EQ", "TER_BETWEEN", "TypeCheck", "UN_NOT"}

RECURSIVE EvaluateSilent(_, _)

\* the type of a well-typed expression over numbers, texts and conditions
EvaluateSilent(p, e) ==
  CASE Head(e) = "Ident" -> IF Visible(p, e[2]) # {} /\ Lookup(p, e[2]).k \in {"var", "const"} THEN Lookup(p, e[2]).t
                            ELSE Void
    [] Head(e) = "Lit" -> LiteralType[e[2]]
    [] Head(e) = "FuncCall" -> p.funcs[e[2][1]].ret
    [] Head(e) = "StructLiteral" -> e[2]
    [] Head(e) \in {"CastExpr", "CastAssigneable"} -> Tail(e[3])
    [] Head(e) \in Conditions -> WAHRHEITSWERT
    [] Head(e) \in {"Grouping", "UN_NEGATE", "BIN_PLUS", "BIN_MINUS", "BIN_MULT", "BIN_CONCAT", "TER_FALLS"} ->
         EvaluateSilent(p, e[2])
    [] OTHER -> ZAHL

FitsParam(p, e, param) ==
  /\ IsGeneric(param.t) \/ WithoutAlias(p, EvaluateSilent(p, e)) = WithoutAlias(p, param.t)
  /\ ~ (param.ref /\ WithoutAlias(p, param.t) = BUCHSTABE
        /\ Head(e) = "Indexing" /\ WithoutAlias(p, EvaluateSilent(p, e[2])) = TEXT)

FitsAlias(p, a, args) == \A i \in DOMAIN args : FitsParam(p, args[i], a.params[AliasParams(a)[i]])

IsGenericFunc(p, a) == a.kind = "FuncCall" /\ p.funcs[a.decl].generic

InstantiationTypes(p, a, args) ==
  [i \in {j \in DOMAIN args : AliasParams(a)[j] \in Generics(a)} |-> EvaluateSilent(p, args[i])]

callOrLiteralFromAlias(a, args) ==
  LET call == <<a.kind, <<a.decl>>>> \o args
  IN IF a.negated THEN <<"UN_NOT", call>> ELSE call
-----------------------------------------------------------------------------
Todo(k) == todo # << >> /\ Head(todo).k = k

Top == Head(todo)

\* items are done next, then what was left; nothing after a panic
Do(p, items, ns) ==
  /\ parser' = p
  /\ todo' = IF p.crashed THEN << >> ELSE items \o Tail(todo)
  /\ nodes' = ns

Push(p, items, e) == Do(p, items, Append(nodes, e))

LastNodes(n) == SubSeq(nodes, Len(nodes) - n + 1, Len(nodes))

Below(n) == SubSeq(nodes, 1, Len(nodes) - n)

Node(op, n) == Append(Below(n), <<op>> \o LastNodes(n))

ConsumeSeq == Todo("consumeSeq") /\ Do(consumeSeq(parser, Top.s), << >>, nodes)

ConsumeAny == Todo("consumeAny") /\ Do(consumeAny(parser, Top.s), << >>, nodes)

BuildNode == Todo("build") /\ Do(parser, << >>, Node(Top.op, Top.n))

AtLevel(n) == Todo("level") /\ Top.n = n

Uncalled == matchedAliases(parser) = {}

\* the level is not a call, or no alias could be called
NotCalled(n) == (AtLevel(n) /\ Uncalled) \/ (Todo("uncalled") /\ Top.n = n)

\* most levels begin with the level below
Operand ==
  /\ Todo("level")
  /\ \/ Top.n = 0 /\ Do(parser, <<Lvl(1), Loop(0)>>, nodes)
     \/ Top.n \in 2..11 /\ Do(parser, <<Lvl(unary)>> \o Loops(11, Top.n), nodes)
     \/ Top.n \in 15..18 /\ Do(parser, <<Lvl(primary)>> \o Loops(18, Top.n), nodes)

boolXOR ==
  /\ AtLevel(1)
  /\ IF check(parser, {"ENTWEDER"})
       THEN Do(advance(parser), <<Lvl(2), Expect(<<"COMMA", "ODER">>), Lvl(2), Build("BIN_XOR", 2)>>, nodes)
       ELSE Do(parser, <<Lvl(2)>>, nodes)

\* the loops that find no operator return; the next one applies the one it finds
Stays(t) == t.k # "loop" \/ Found(parser, t.n) # {}

NoOperator ==
  /\ Todo("loop") /\ ~ Stays(Top)
  /\ todo' = SubSeq(todo, SelectInSeq(todo, Stays), Len(todo))
  /\ UNCHANGED <<parser, nodes>>

ApplyOperator ==
  /\ Todo("loop")
  /\ \E o \in Found(parser, Top.n) : Do(skip(parser, Len(o.w)), o.rest \o <<Top>>, nodes)

IstAfterOperand ==
  /\ Todo("ist")
  /\ Do(CASE Type(previous(parser)) # "IST" -> consumeSeq(parser, <<"IST">>)
          [] Type(previous(parser)) = "IST" /\ check(parser, {"IST"}) -> advance(parser)
          [] OTHER -> parser, << >>, nodes)

CheckedType(r, word) ==
  IF r.t # << >> /\ (word \in {"EIN", "KEIN"} <=> Gender(r.p, r.t) = "FEMININ")
    THEN err(r.p, "SYN_GENDER_MISMATCH") ELSE r.p

TypeCheckNode(word, t) ==
  LET e == <<"TypeCheck", nodes[Len(nodes)], <<"type">> \o t>>
  IN IF word \in {"KEIN", "KEINE"} THEN <<"UN_NOT", e>> ELSE e

typeCheck ==
  /\ Todo("typeCheck")
  /\ \E r \in {parseType(parser, FALSE)} :
       Do(CheckedType(r, Top.w), << >>, Append(Below(1), TypeCheckNode(Top.w, r.t)))

compare ==
  /\ Todo("compare")
  /\ IF check(parser, {"COMMA"})
       THEN Do(consumeSeq(advance(parser), <<"ODER">>), <<Lvl(9), Build(OrEqual[Top.op], 2)>>, nodes)
       ELSE Do(parser, <<Lvl(9), Build(Top.op, 2)>>, nodes)

\* without a direction bitShift returns
direction ==
  /\ Todo("direction")
  /\ IF check(parser, {"LINKS", "RECHTS"})
       THEN Do(advance(parser), <<Build(IF check(parser, {"LINKS"}) THEN "BIN_LEFT_SHIFT" ELSE "BIN_RIGHT_SHIFT", 2),
                                  Expect(<<"VERSCHOBEN">>)>>, nodes)
       ELSE /\ parser' = err(parser, "SYN_UNEXPECTED_TOKEN")
            /\ todo' = SubSeq(todo, 3, Len(todo))
            /\ nodes' = Append(Below(2), BadExpr)

cast ==
  /\ Todo("cast")
  /\ \E r \in {parseType(parser, FALSE)} :
       Do(r.p, << >>, Append(Below(1), <<"CastExpr", nodes[Len(nodes)], <<"type">> \o r.t>>))

(***************************************************************************)
(* A function call comes before every operator.  The matching aliases are  *)
(* tried in order until the arguments of one fit and have no errors; first *)
(* is the one that was tried first.                                        *)
(***************************************************************************)
Candidate(as, first, start, n) == [k |-> "candidate", as |-> as, first |-> first, cur |-> start, n |-> n]

alias ==
  /\ Todo("level") /\ Top.n \in {unary, primary}
  /\ ~ Uncalled
  /\ \E as \in sortAliases(matchedAliases(parser)) : Do(parser, <<Candidate(as, << >>, parser.cur, Top.n)>>, nodes)

\* a reference is a name, maybe in parentheses
ReferenceRefused(p, args) ==
  \E i \in DOMAIN args : args[i].ref /\ Type(At(p, args[i].from)) \notin {"IDENTIFIER", "LPAREN"}

AfterCandidateSame(c, best) == Candidate(c.as, best, c.cur, c.n)

AfterCandidate(c, best) == Candidate(Tail(c.as), best, c.cur, c.n)

\* the next alias, or the first one although it does not fit; no generic one is called then
NextCandidate(c, tried, ns) ==
  LET best == IF c.first = << >> THEN tried ELSE c.first
      p == [parser EXCEPT !.argErr = FALSE]
  IN \/ /\ Len(c.as) > 1
        /\ Do([p EXCEPT !.cur = c.cur], <<AfterCandidate(c, best)>>, ns)
     \/ /\ Len(c.as) = 1 /\ IsGenericFunc(p, best.a)
        /\ Do([err(p, "SEM_ERROR_INSTANTIATING_GENERIC_FUNCTION") EXCEPT !.cur = c.cur],
              <<[k |-> "uncalled", n |-> c.n]>>, ns)
     \/ /\ Len(c.as) = 1 /\ ~ IsGenericFunc(p, best.a)
        /\ Do([IF best.errs THEN report(p) ELSE p EXCEPT !.cur = best.end],
              IF c.n = unary THEN PowerLoops ELSE << >>,
              Append(ns, callOrLiteralFromAlias(best.a, best.args)))

Tried(a, args, end, errs) == [a |-> a, args |-> args, end |-> end, errs |-> errs]

tryAlias ==
  /\ Todo("candidate")
  /\ \E a \in {Top.as[1]} :
       \E ends \in {AliasEnds(parser, Top.cur, a.words)} :
         \E args \in {Arguments([parser EXCEPT !.cur = Top.cur], a, ends)} :
           IF ReferenceRefused(parser, args)
             THEN NextCandidate(Top, Tried(a, [i \in DOMAIN args |-> <<"Ident", "?">>], ends[Len(ends)], FALSE), nodes)
             ELSE Do([parser EXCEPT !.cur = ends[Len(ends)]], args \o <<[k |-> "called", c |-> Top, inst |-> FALSE]>>, nodes)

\* an argument is parsed by a parser of its own
ArgParser(p, from, end) ==
  [p EXCEPT !.toks = SubSeq(p.toks, from, end - 1), !.cur = 1, !.panicMode = FALSE,
            !.errored = FALSE, !.saved = "unset", !.argErr = FALSE]

parseArgument ==
  /\ Todo("argument")
  /\ \E q \in {ArgParser(parser, Top.from, Top.end)} :
       Do(IF Top.ref \/ Type(peek(q)) = "LPAREN" THEN advance(q) ELSE q,
          CASE Top.ref -> <<Assign(FALSE), [k |-> "argumentEnd", outer |-> parser]>>
            [] ~ Top.ref /\ Type(peek(q)) = "LPAREN" ->
                 <<Lvl(0), Expect(<<"RPAREN">>), Build("Grouping", 1), [k |-> "argumentEnd", outer |-> parser]>>
            [] OTHER -> <<Lvl(0), [k |-> "argumentEnd", outer |-> parser]>>, nodes)

\* what the parsers share: the functions and their instantiations
argumentEnd ==
  /\ Todo("argumentEnd")
  /\ Do([Top.outer EXCEPT !.crashed = parser.crashed, !.funcs = parser.funcs, !.argErr = @ \/ parser.errored],
        << >>, nodes)

\* a generic function is instantiated before it is called
checkAlias ==
  /\ Todo("called")
  /\ \E a \in {Top.c.as[1]} :
       \E args \in {LastNodes(Len(AliasParams(a)))} :
         \E fits \in {FitsAlias(parser, a, args)} :
           \/ /\ fits /\ IsGenericFunc(parser, a) /\ ~ Top.inst
              /\ Do(parser, <<[k |-> "instantiate", fn |-> a.decl, types |-> InstantiationTypes(parser, a, args)],
                              [Top EXCEPT !.inst = TRUE]>>, nodes)
           \/ /\ fits /\ (IsGenericFunc(parser, a) => Top.inst) /\ ~ parser.argErr
              /\ Do(parser, IF Top.c.n = unary THEN PowerLoops ELSE << >>,
                    Append(Below(Len(args)), callOrLiteralFromAlias(a, args)))
           \/ /\ IF fits THEN (IsGenericFunc(parser, a) => Top.inst) /\ parser.argErr ELSE TRUE
              /\ NextCandidate(Top.c, Tried(a, args, parser.cur, parser.argErr), Below(Len(args)))

TypeOp(q, r) ==
  IF r.t = << >> \/ MatchesGender(r.p, r.t, genderFromArticle2Dativ(Type(previous(q)))) THEN r.p
  ELSE err(r.p, "SYN_GENDER_MISMATCH")

\* previous(p) is the word of the operator
UnaryOperator(p, w) ==
  \/ /\ w \in {"GROESSE", "STANDARDWERT"}
     /\ \E q \in {consumeAny(consumeSeq(p, <<"VON">>), {"EINEM", "EINER"})} :
          \E r \in {parseType(q, FALSE)} : Push(TypeOp(q, r), PowerLoops, <<w, <<"type">> \o r.t>>)
  \/ w \in {"BETRAG", "LAENGE"} /\ Do(consumeSeq(p, <<"VON">>), <<Lvl(unary), Build(w, 1)>>, nodes)
  \/ /\ w = "NICHT"
     /\ Do(p, <<Lvl(unary), Build(IF Type(peekN(p, -2)) = "LOGISCH" THEN "UN_LOGIC_NOT" ELSE "UN_NOT", 1)>>, nodes)

\* an article that does not belong to an operator is left to power
Unary ==
  /\ NotCalled(unary)
  /\ \/ /\ check(parser, DOMAIN AfterArticle)
        /\ IF Type(peekN(parser, 1)) \in AfterArticle[Type(peek(parser))]
             THEN UnaryOperator(skip(parser, 2), Type(peekN(parser, 1)))
             ELSE Do(parser, <<Lvl(negate)>>, nodes)
     \/ check(parser, {"NICHT"}) /\ UnaryOperator(advance(parser), "NICHT")
     \/ /\ check(parser, NeedsArticle)
        /\ UnaryOperator(err(advance(parser), "SYN_UNEXPECTED_TOKEN"), Type(peek(parser)))
     \/ ~ check(parser, DOMAIN AfterArticle \cup NeedsArticle \cup {"NICHT"}) /\ Do(parser, <<Lvl(negate)>>, nodes)

Negate ==
  /\ AtLevel(negate)
  /\ IF check(parser, {"NEGATE"}) THEN Do(advance(parser), <<Lvl(negate), Build("UN_NEGATE", 1)>>, nodes)
     ELSE Do(parser, <<Lvl(power)>>, nodes)

\* der Logarithmus von ... zur Basis ..., die ... . Wurzel von ...
Power ==
  /\ AtLevel(power)
  /\ \/ ~ check(parser, {"DIE", "DER"}) /\ Do(parser, <<Lvl(primary)>> \o PowerLoops, nodes)
     \/ /\ check(parser, {"DIE", "DER"}) /\ Type(peekN(parser, 1)) = "LOGARITHMUS"
        /\ Do(skip(parser, 2), <<Expect(<<"VON">>), Lvl(0), Expect(<<"ZUR", "BASIS">>), Lvl(unary),
                                 Build("BIN_LOG", 2)>> \o PowerLoops, nodes)
     \/ /\ check(parser, {"DIE", "DER"}) /\ Type(peekN(parser, 1)) # "LOGARITHMUS"
        /\ Do(advance(parser), <<Lvl(unary), Expect(<<"DOT", "WURZEL">>), Expect(<<"VON">>), Lvl(unary),
                                 Build("BIN_ROOT", 2)>> \o PowerLoops, nodes)

Literal(p) ==
  IF previous(p).w \in {"INT!", "STRING!"} THEN err(p, "SYN_MALFORMED_LITERAL") ELSE p

EmptyList(r) ==
  IF IsList(WithoutAlias(r.p, r.t)) THEN r.p ELSE err(r.p, "SYN_EXPECTED_TYPENAME")

\* the token is consumed although no expression begins with it
NoExpression == Push(err(advance(parser), "SYN_UNEXPECTED_TOKEN"), << >>, BadExpr)

Primary ==
  /\ NotCalled(primary)
  /\ LET w == Type(peek(parser))
         p == advance(parser)
     IN \/ w \in Literals /\ Push(Literal(p), << >>, <<"Lit", w>>)
        \/ w = "LPAREN" /\ Do(p, <<Lvl(0), Expect(<<"RPAREN">>), Build("Grouping", 1)>>, nodes)
        \/ w = "IDENTIFIER" /\ Push(p, << >>, <<"Ident", previous(p).w>>)
        \/ /\ w \in {"EINE", "EINER"} /\ (check(p, {"LEERE"}) \/ (w = "EINER" /\ check(p, {"LEEREN"})))
           /\ \E r \in {parseType(advance(p), FALSE)} : Push(EmptyList(r), << >>, <<"ListLit">>)
        \/ /\ w \in {"EINE", "EINER"} /\ ~ (check(p, {"LEERE"}) \/ (w = "EINER" /\ check(p, {"LEEREN"})))
           /\ Do(consumeSeq(p, <<"LISTE", "COMMA", "DIE", "AUS">>),
                 <<Lvl(0), [k |-> "values", n |-> 1]>>, nodes)
        \/ /\ w \notin Literals \cup {"LPAREN", "IDENTIFIER", "EINE", "EINER"}
           /\ NoExpression

ListValues ==
  /\ Todo("values")
  /\ IF check(parser, {"COMMA"})
       THEN Do(advance(parser), <<Lvl(0), [Top EXCEPT !.n = @ + 1]>>, nodes)
       ELSE Do(consumeSeq(parser, <<"BESTEHT">>), <<Build("ListLit", Top.n)>>, nodes)
-----------------------------------------------------------------------------
(***************************************************************************)
(* A name with casts, fields and indices that can be assigned.             *)
(***************************************************************************)
IsConstant(p, n) == Visible(p, n) # {} /\ Lookup(p, n).k # "var"

NameOf(p) == IF Type(previous(p)) = "LPAREN" THEN consumeSeq(p, <<"IDENTIFIER">>) ELSE p

assigneable ==
  /\ Todo("assigneable")
  /\ \E p \in {NameOf(parser)} :
       Push(IF IsConstant(p, previous(p).w) THEN err(p, "SEM_CONSTANT_IS_NOT_ASSIGNABLE") ELSE p,
            <<Item("casts"), [k |-> "fields", f |-> <<"Ident", previous(p).w>>]>>
              \o (IF Top.inField THEN << >> ELSE <<Item("indices")>>)
              \o (IF Type(previous(parser)) = "LPAREN" THEN <<Expect(<<"RPAREN">>)>> ELSE << >>),
            <<"Ident", previous(p).w>>)

AssigneableCasts ==
  /\ Todo("casts")
  /\ \/ ~ check(parser, {"ALS"}) /\ Do(parser, << >>, nodes)
     \/ /\ check(parser, {"ALS"})
        /\ \E r \in {parseType(advance(parser), FALSE)} :
             Do(r.p, <<Top>>, Append(Below(1), <<"CastAssigneable", nodes[Len(nodes)], <<"type">> \o r.t>>))

\* only the name of the field is kept, a cast before von is dropped
AssigneableFields ==
  /\ Todo("fields")
  /\ \/ ~ check(parser, {"VON"}) /\ Do(parser, << >>, nodes)
     \/ /\ check(parser, {"VON"})
        /\ Do(IF Type(peekN(parser, 1)) = "IDENTIFIER" THEN skip(parser, 2)
              ELSE consumeSeq(advance(parser), <<"LPAREN">>),
              <<Assign(Type(peekN(parser, 1)) = "IDENTIFIER"), Build("FieldAccess", 2), Top>>,
              Append(Below(1), Top.f))

AssigneableIndices ==
  /\ Todo("indices")
  /\ IF check(parser, {"AN"})
       THEN Do(consumeSeq(advance(parser), <<"DER", "STELLE">>),
               <<Lvl(unary), Build("Indexing", 2), Item("moreIndices")>>, nodes)
       ELSE Do(parser, << >>, nodes)

MoreIndices ==
  /\ Todo("moreIndices")
  /\ IF check(parser, {"COMMA"}) THEN Do(advance(parser), <<Item("indices")>>, nodes)
     ELSE Do(parser, << >>, nodes)

ExprStep ==
  \/ ConsumeSeq \/ ConsumeAny \/ BuildNode \/ Operand \/ boolXOR \/ NoOperator \/ ApplyOperator
  \/ IstAfterOperand \/ typeCheck \/ compare \/ direction \/ cast \/ alias \/ tryAlias \/ parseArgument
  \/ argumentEnd \/ checkAlias \/ Unary \/ Negate \/ Power \/ Primary \/ ListValues \/ assigneable
  \/ AssigneableCasts \/ AssigneableFields \/ AssigneableIndices \/ MoreIndices
=============================================================================
