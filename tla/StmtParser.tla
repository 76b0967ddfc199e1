----------------------------- MODULE StmtParser -----------------------------
(***************************************************************************)
(* statements.go, the resolver (resolver.go) and what checkedDeclaration   *)
(* and synchronize of parser.go do around every statement.  Programs are   *)
(* taken to be well typed: of the typechecker only the errors that depend  *)
(* on the state of the parser are modelled.                                *)
(***************************************************************************)
EXTENDS ExprParser

BadStmt == <<"BadStmt">>

LastNode == nodes[Len(nodes)]

Checked == <<Item("declaration"), Item("check")>>

Block(symbols) == [k |-> "block", s |-> symbols]

AssignRhs(withComma) == [k |-> "assignRhs", comma |-> withComma]

Var(n, t) == Symbol(n, "var", t, "none")
-----------------------------------------------------------------------------
(***************************************************************************)
(* The resolver: whether the names in a node are declared.                 *)
(***************************************************************************)
IsVar(p, n) == Visible(p, n) # {} /\ Lookup(p, n).k \in {"var", "const"}

RECURSIVE Resolves(_, _)

Resolves(p, e) ==
  CASE Head(e) = "Ident" -> IsVar(p, e[2])
    [] Head(e) \in {"Lit", "type", "BadExpr"} -> TRUE
    [] Head(e) = "BIN_FIELD_ACCESS" -> Head(e[2]) = "Ident" /\ Resolves(p, e[3])
    [] Head(e) = "FieldAccess" -> Resolves(p, e[3])
    [] Head(e) \in {"FuncCall", "StructLiteral"} -> \A i \in 3..Len(e) : Resolves(p, e[i])
    [] OTHER -> \A i \in 2..Len(e) : Resolves(p, e[i])

\* a constant can not be assigned; casts and fields of a name are visited like expressions
ResolvesVar(p, e) ==
  IF Head(e) = "Ident" THEN IsVar(p, e[2]) /\ Lookup(p, e[2]).k = "var" ELSE Resolves(p, e)

RECURSIVE HasBad(_)

HasBad(e) == \/ Head(e) \in {"BadExpr", "BadStmt", "BadDecl"}
             \/ /\ Head(e) \notin {"Ident", "Lit", "type", "Name", "Var"}
                /\ \E i \in 2..Len(e) : e[i] # None /\ HasBad(e[i])

\* the scope of a counting loop: its variable and what its body declares
ForSymbols(s) ==
  {Var(s[2][2], ZAHL)}
    \cup {Var(s[6][i][2][2], ZAHL) : i \in {j \in 2..Len(s[6]) : s[6][j] # None /\ Head(s[6][j]) \in {"VarDecl", "ConstDecl"}}}

RECURSIVE ResolvesStmt(_, _)

\* bodies were resolved when they were parsed
ResolvesStmt(p, s) ==
  CASE Head(s) = "AssignStmt" -> ResolvesVar(p, s[2]) /\ Resolves(p, s[3])
    [] Head(s) = "Speichere" -> Resolves(p, s[2]) /\ ResolvesVar(p, s[3])
    [] Head(s) \in {"ExprStmt", "RepeatStmt"} -> Resolves(p, s[2])
    [] Head(s) = "IfStmt" ->
         Resolves(p, s[2]) /\ (Len(s) = 4 /\ Head(s[4]) = "IfStmt" => ResolvesStmt(p, s[4]))
    [] Head(s) = "WhileStmt" -> Resolves(p, s[2])
    [] Head(s) \in {"DoWhile", "Wiederhole"} -> Resolves(p, s[3])
    [] Head(s) = "ForStmt" ->
         \E q \in {newScope(p, ForSymbols(s))} :
           Resolves(q, s[3]) /\ Resolves(q, s[4]) /\ Resolves(q, s[5])
    [] Head(s) = "ForRangeStmt" -> Resolves(p, s[3])
    [] Head(s) = "BreakContinueStmt" -> p.LoopDepth > 0
    [] Head(s) = "ReturnStmt" -> Len(s) = 3 => Resolves(p, s[3])
    [] OTHER -> TRUE

resolverErr(p) == [err(p, "SEM") EXCEPT !.faulty = TRUE]

ResolveStmt(p, s) ==
  IF ResolvesStmt(p, s) THEN p ELSE resolverErr(p)

\* the positions where parsing can go on after an error
StatementStart(p, i) ==
  LET w == Type(At(p, i)) next == Type(At(p, i + 1))
  IN \/ Type(At(p, i - 1)) = "DOT"
     \/ w = "DIE" /\ next \in {"ZAHL", "KOMMAZAHL", "ZAHLEN", "KOMMAZAHLEN", "BUCHSTABEN", "TEXT",
                               "WAHRHEITSWERT", "FUNKTION"}
     \/ w = "DER" /\ next \in {"WAHRHEITSWERT", "TEXT", "BUCHSTABE", "ALIAS"}
     \/ w \in {"WENN", "FUER", "GIB", "VERLASSE", "SOLANGE", "COLON", "MACHE", "DANN", "WIEDERHOLE"}

synchronize(p) ==
  [p EXCEPT !.panicMode = FALSE,
            !.cur = Min({i \in @..Len(p.toks) : StatementStart(p, i)} \cup {Len(p.toks) + 1})]
-----------------------------------------------------------------------------
IsLiteral(e) == Head(e) \in {"Lit", "ListLit"}

AssigneableType(p, e) ==
  CASE Head(e) = "Ident" -> IF IsVar(p, e[2]) THEN WithoutAlias(p, Lookup(p, e[2]).t) ELSE Void
    [] Head(e) = "CastAssigneable" -> WithoutAlias(p, Tail(e[3]))
    [] OTHER -> ZAHL

assignRhs ==
  /\ Todo("assignRhs")
  /\ IF check(parser, {"TRUE", "FALSE"}) /\ Type(peekN(parser, 1)) = "COMMA" /\ Type(peekN(parser, 2)) = "WENN"
       THEN Do(skip(parser, 3),
               <<Lvl(0), Build(IF check(parser, {"FALSE"}) THEN "falsch_wenn" ELSE "wahr_wenn", 1)>>
                 \o (IF Top.comma THEN <<Expect(<<"COMMA">>)>> ELSE << >>), nodes)
       ELSE Do(parser, <<Lvl(0)>>, nodes)

\* only a Wahrheitswert is assigned an expression with ist
ExpectLiteral ==
  /\ Todo("literal")
  /\ Do(IF IsLiteral(LastNode) \/ AssigneableType(parser, nodes[Len(nodes) - 1]) = WAHRHEITSWERT THEN parser
        ELSE err(parser, "SYN_EXPECTED_LITERAL"), << >>, nodes)

\* without a dot a count may follow; its errors are kept back
finishStatement ==
  /\ Todo("finish")
  /\ \/ check(parser, {"DOT"}) /\ Do(advance(parser), << >>, nodes)
     \/ ~ check(parser, {"DOT"}) /\ parser.panicMode /\ Do(parser, << >>, nodes)
     \/ /\ ~ check(parser, {"DOT"}) /\ ~ parser.panicMode
        /\ Do([parser EXCEPT !.saved = "none"], <<Lvl(0), [k |-> "count", cur |-> parser.cur]>>, nodes)

CountedSilently(p, stmt) ==
  LET r == advance(ResolveStmt(p, stmt))
  IN consumeSeq([r EXCEPT !.toks[r.cur - 1].w = "WIEDERHOLE"], <<"DOT">>)

\* the token of the count becomes a WIEDERHOLE
Counted(p, stmt) ==
  LET q == ResolveStmt(p, stmt)
      r == advance(IF parser.saved = "error" THEN err(q, "saved") ELSE q)
  IN consumeSeq([r EXCEPT !.toks[r.cur - 1].w = "WIEDERHOLE"], <<"DOT">>)

finishCount ==
  /\ Todo("count")
  /\ \E p \in {[parser EXCEPT !.saved = "unset", !.panicMode = FALSE]} :
       IF Type(peek(p)) = "COUNT_MAL"
         THEN Do(Counted(p, nodes[Len(nodes) - 1]), << >>,
                 Append(Below(2), <<"RepeatStmt", LastNode, nodes[Len(nodes) - 1]>>))
         ELSE Do(consumeSeq([p EXCEPT !.cur = Top.cur], <<"DOT">>), << >>, Below(1))

assignLiteral ==
  Do(advance(parser), <<Assign(FALSE), Expect(<<"IST">>), AssignRhs(FALSE), Item("literal"),
                        Build("AssignStmt", 2), Item("finish")>>, nodes)

assignNoLiteral ==
  Do(advance(parser), <<Lvl(0), Expect(<<"IN">>), OneOf({"IDENTIFIER", "LPAREN"}), Assign(FALSE),
                        Build("Speichere", 2), Item("finish")>>, nodes)

CompoundOperator == [ERHOEHE |-> "BIN_PLUS", VERRINGERE |-> "BIN_MINUS", VERVIELFACHE |-> "BIN_MULT",
                     TEILE |-> "BIN_DIV", VERSCHIEBE |-> "BIN_SHIFT", NEGIERE |-> "UN_NEGATE"]

compoundAssignement ==
  LET w == Type(peek(parser))
      op == [k |-> "compound", op |-> CompoundOperator[w]]
      preposition == IF w = "TEILE" THEN <<"DURCH">> ELSE <<"UM">>
  IN Do(consumeAny(advance(parser), {"IDENTIFIER", "LPAREN"}),
        <<Assign(FALSE)>>
          \o CASE w = "NEGIERE"    -> <<Expect(<<"DOT">>), op>>
               [] w = "VERSCHIEBE" -> <<Expect(<<"UM">>), Lvl(0), Expect(<<"BIT", "NACH">>),
                                        OneOf({"LINKS", "RECHTS"}), op, Expect(<<"DOT">>)>>
               [] OTHER            -> <<Expect(preposition), Lvl(0), op, Expect(<<"DOT">>)>>, nodes)

\* x := op x, or x := x op operand
CompoundNode ==
  /\ Todo("compound")
  /\ Do(parser, << >>,
        CASE Top.op = "UN_NEGATE" ->
               Append(Below(1), <<"AssignStmt", LastNode,
                                  <<IF AssigneableType(parser, LastNode) = WAHRHEITSWERT THEN "UN_NOT"
                                    ELSE "UN_NEGATE", LastNode>>>>)
          [] OTHER ->
               Append(Below(2), <<"AssignStmt", nodes[Len(nodes) - 1],
                                  <<CASE Top.op # "BIN_SHIFT" -> Top.op
                                      [] Top.op = "BIN_SHIFT" /\ Type(previous(parser)) = "RECHTS" -> "BIN_RIGHT_SHIFT"
                                      [] OTHER -> "BIN_LEFT_SHIFT",
                                    nodes[Len(nodes) - 1], LastNode>>>>))
-----------------------------------------------------------------------------
(***************************************************************************)
(* Blocks: the statements that are indented further than the colon.        *)
(***************************************************************************)
blockStatement ==
  /\ Todo("block")
  /\ Do(newScope(IF peek(parser).ln <= previous(parser).ln THEN err(parser, "SYN_UNEXPECTED_TOKEN") ELSE parser,
                 Top.s),
        <<[k |-> "statements", indent |-> previous(parser).ind + 1, base |-> Len(nodes)]>>, nodes)

BlockStatements ==
  /\ Todo("statements")
  /\ IF peek(parser).ind >= Top.indent /\ ~ atEnd(parser)
       THEN Do(parser, Checked \o <<Top>>, nodes)
       ELSE Do(exitScope(parser), << >>,
               Append(SubSeq(nodes, 1, Top.base),
                      <<"BlockStmt">> \o SelectSeq(LastNodes(Len(nodes) - Top.base), LAMBDA s : s # None)))

\* a single statement in a scope of its own; the code makes it a BlockStmt, too.  nil has no range
SingleEnd ==
  /\ Todo("single")
  /\ Do(IF LastNode = None THEN [parser EXCEPT !.crashed = TRUE] ELSE exitScope(parser), << >>,
        Append(Below(1), <<"Single", LastNode>>))

\* p is after the colon or at the statement
Body(p, withColon, symbols, rest) ==
  IF withColon THEN Do(consumeSeq(p, <<"COLON">>), <<Block(symbols)>> \o rest, nodes)
  ELSE Do(newScope(p, symbols), Checked \o <<Item("single")>> \o rest, nodes)

IfItems(indent) == <<Lvl(0), Expect(<<"COMMA">>), [k |-> "then", ind |-> indent]>>

ifStatement == Do(advance(parser), IfItems(peek(parser).ind), nodes)

thenStatement ==
  /\ Todo("then")
  /\ \E else \in {[k |-> "else", ind |-> Top.ind]} :
       IF check(parser, {"DANN"}) THEN Body(advance(parser), TRUE, {}, <<else>>)
       ELSE Body(IF check(parser, {"COLON"}) THEN err(parser, "SYN_UNEXPECTED_TOKEN") ELSE parser,
                 FALSE, {}, <<else>>)

\* sonst and wenn aber belong to a wenn of their indentation
elseStatement ==
  /\ Todo("else")
  /\ \/ /\ check(parser, {"SONST"}) /\ peek(parser).ind = Top.ind
        /\ Body(advance(parser), Type(peekN(parser, 1)) = "COLON", {}, <<Build("IfStmt", 3)>>)
     \/ /\ check(parser, {"WENN"}) /\ peek(parser).ind = Top.ind /\ Type(peekN(parser, 1)) = "ABER"
        /\ Do(skip(parser, 2), IfItems(peekN(parser, 1).ind) \o <<Build("IfStmt", 3)>>, nodes)
     \/ /\ ~ (check(parser, {"SONST"}) /\ peek(parser).ind = Top.ind)
        /\ ~ (check(parser, {"WENN"}) /\ peek(parser).ind = Top.ind /\ Type(peekN(parser, 1)) = "ABER")
        /\ Do(parser, <<Build("IfStmt", 2)>>, nodes)

EnterLoop(p) == [p EXCEPT !.LoopDepth = @ + 1]

LoopEndKept == Todo("loopEnd") /\ Do(parser, << >>, nodes)

LoopEnd == Todo("loopEnd") /\ Do([parser EXCEPT !.LoopDepth = @ - 1], << >>, nodes)

whileStatement ==
  Do(advance(parser), <<Lvl(0), Expect(<<"COMMA">>), [k |-> "body", s |-> {}], Build("WhileStmt", 2)>>, nodes)

\* with mache the body is a block
LoopBody ==
  /\ Todo("body")
  /\ IF check(parser, {"MACHE"}) THEN Body(EnterLoop(advance(parser)), TRUE, Top.s, <<Item("loopEnd")>>)
     ELSE Body(EnterLoop(parser), FALSE, Top.s, <<Item("loopEnd")>>)

doWhileStmt ==
  Do(EnterLoop(consumeSeq(advance(parser), <<"COLON">>)),
     <<Block({}), Item("loopEnd"), Expect(<<"SOLANGE">>), Lvl(0), Expect(<<"DOT">>), Build("DoWhile", 2)>>, nodes)

repeatStmt ==
  Do(EnterLoop(consumeSeq(advance(parser), <<"COLON">>)),
     <<Block({}), Item("loopEnd"), Lvl(0), Expect(<<"COUNT_MAL", "DOT">>), Build("Wiederhole", 2)>>, nodes)

\* q is after the pronoun, r after the type
ForName(q, r) ==
  consumeSeq(IF r.t = << >> \/ MatchesGender(r.p, r.t, {genderFromForPronoun(Type(previous(q)))}) THEN r.p
             ELSE err(r.p, "SYN_GENDER_MISMATCH"), <<"IDENTIFIER">>)

IndexName(p) == IF check(p, {"MIT"}) THEN consumeSeq(advance(p), <<"INDEX", "IDENTIFIER">>) ELSE advance(p)

ForHeader(p, t) ==
  LET name == previous(p).w
      node == <<"Var", name, t>>
      index == IndexName(p)
  IN \/ /\ check(p, {"VON"})
        /\ Push(advance(p), <<Lvl(0), Expect(<<"BIS">>), Lvl(0), Item("step"), Expect(<<"COMMA">>),
                              [k |-> "body", s |-> {Var(name, t)}], Build("ForStmt", 5)>>, node)
     \/ /\ check(p, {"IN"})
        /\ Push(index, <<Lvl(0), Expect(<<"COMMA">>), [k |-> "body", s |-> {Var(name, t)}],
                         Build("ForRangeStmt", 3)>>, node)
     \/ /\ check(p, {"MIT"})
        /\ Push(consumeAny(index, {"IN"}),
                <<Lvl(0), Expect(<<"COMMA">>),
                  [k |-> "body", s |-> {Var(name, t)} \cup (IF previous(index).w = name THEN {} ELSE {Var(previous(index).w, ZAHL)})],
                  Build("ForRangeStmt", 3)>>, Append(node, previous(index).w))
     \/ ~ check(p, {"VON", "IN", "MIT"}) /\ Push(err(p, "SYN_UNEXPECTED_TOKEN"), << >>, BadStmt)

forStatement ==
  \E q \in {consumeAny(advance(parser), {"JEDE", "JEDEN", "JEDES"})} :
    \E r \in {parseType(q, FALSE)} : ForHeader(ForName(q, r), r.t)

StepSize ==
  /\ Todo("step")
  /\ IF check(parser, {"MIT"}) THEN Do(consumeSeq(advance(parser), <<"SCHRITTGROESSE">>), <<Lvl(0)>>, nodes)
     ELSE Push(parser, << >>, <<"Lit", "default">>)
-----------------------------------------------------------------------------
returnStatement ==
  Do(advance(parser), <<IF parser.isCurrentFunctionBool THEN AssignRhs(TRUE) ELSE Lvl(0),
                        Expect(<<"ZURUECK", "DOT">>), Item("return")>>, nodes)

InFunctionUnchecked(p) == p

InFunction(p) == IF p.currentFunction = "none" THEN err(p, "SEM_GLOBAL_RETURN") ELSE p

ReturnEnd ==
  /\ Todo("return")
  /\ Do(InFunction(parser), << >>, Append(Below(1), <<"ReturnStmt", <<parser.currentFunction>>, LastNode>>))

LeaveFunction(p) == InFunction(consumeSeq(p, <<"FUNKTION", "DOT">>))

voidReturnOrBreak ==
  \E p \in {consumeSeq(advance(parser), <<"DIE">>)} :
    IF check(p, {"SCHLEIFE"})
      THEN Push(consumeSeq(advance(p), <<"DOT">>), << >>, <<"BreakContinueStmt", <<"VERLASSE">>>>)
      ELSE Push(LeaveFunction(p), << >>, <<"ReturnStmt", <<p.currentFunction>>>>)

continueStatement ==
  Push(consumeSeq(advance(parser), <<"MIT", "DER", "SCHLEIFE", "FORT", "DOT">>), << >>,
       <<"BreakContinueStmt", <<"FAHRE">>>>)

RECURSIVE ImportedNames(_, _)

Named(p, names) == [p |-> p, names |-> names]

\* the name that ends a list of symbols is kept when it is there
LastName(p, s, names) ==
  Named(consumeSeq(p, s), IF matchSeq(p, s) THEN Append(names, <<peekN(p, Len(s) - 1).w>>) ELSE names)

ImportedNames(p, names) ==
  CASE ~ check(p, {"COMMA"}) -> LastName(p, <<"UND", "IDENTIFIER">>, names)
    [] OTHER -> LET r == LastName(p, <<"COMMA", "IDENTIFIER">>, names) IN ImportedNames(r.p, r.names)

\* p is after the first symbol.  After und, the token before counts as the second one in any case
ImportSymbols(p, first) ==
  CASE Type(peek(p)) = "AUS" -> Named(p, <<first>>)
    [] check(p, {"UND"}) ->
         LET q == consumeSeq(advance(p), <<"IDENTIFIER">>) IN Named(q, <<first, <<previous(q).w>>>>)
    [] OTHER -> ImportedNames(p, <<first>>)

\* the file name, without which there is no statement
ImportFile(p, mode, names) ==
  IF check(p, {"STRING"}) THEN Push(consumeSeq(advance(p), <<"EIN", "DOT">>), << >>, <<"ImportStmt", mode>> \o names)
  ELSE Push(consumeSeq(p, <<"STRING">>), << >>, BadStmt)

importStatement ==
  \E p \in {advance(parser)} :
    \/ check(p, {"STRING"}) /\ ImportFile(p, <<"module">>, << >>)
    \/ /\ check(p, {"IDENTIFIER"})
       /\ \E r \in {ImportSymbols(advance(p), <<peek(p).w>>)} :
            ImportFile(consumeSeq(r.p, <<"AUS">>), <<"symbols">>, r.names)
    \/ check(p, {"ALLE"}) /\ ImportFile(consumeSeq(advance(p), <<"MODULE", "AUS">>), <<"directory">>, << >>)
    \/ /\ check(p, {"REKURSIV"})
       /\ ImportFile(consumeSeq(consumeSeq(advance(p), <<"ALLE">>), <<"MODULE", "AUS">>), <<"recursive">>, << >>)
    \/ ~ check(p, {"STRING", "IDENTIFIER", "ALLE", "REKURSIV"}) /\ Push(err(p, "SYN_UNEXPECTED_TOKEN"), << >>, BadStmt)

IsAssignment == check(parser, {"IDENTIFIER"}) /\ Type(peekN(parser, 1)) \in {"IST", "AN"}

statement ==
  /\ Todo("statement")
  /\ \/ IsAssignment /\ assignLiteral
     \/ check(parser, {"BINDE"}) /\ importStatement
     \/ check(parser, DOMAIN CompoundOperator) /\ compoundAssignement
     \/ check(parser, {"SPEICHERE"}) /\ assignNoLiteral
     \/ check(parser, {"WENN"}) /\ ifStatement
     \/ check(parser, {"SOLANGE"}) /\ whileStatement
     \/ check(parser, {"MACHE"}) /\ doWhileStmt
     \/ check(parser, {"WIEDERHOLE"}) /\ repeatStmt
     \/ check(parser, {"FUER"}) /\ forStatement
     \/ check(parser, {"GIB"}) /\ returnStatement
     \/ check(parser, {"VERLASSE"}) /\ voidReturnOrBreak
     \/ check(parser, {"FAHRE"}) /\ continueStatement
     \/ check(parser, {"COLON"}) /\ Do(advance(parser), <<Block({})>>, nodes)
     \/ check(parser, {"ELIPSIS"}) /\ Push(advance(parser), << >>, <<"TodoStmt">>)
     \/ /\ ~ IsAssignment
        /\ ~ check(parser, DOMAIN CompoundOperator \cup
                     {"BINDE", "SPEICHERE", "WENN", "SOLANGE", "MACHE", "WIEDERHOLE", "FUER", "GIB", "VERLASSE",
                      "FAHRE", "COLON", "ELIPSIS"})
        /\ Do(parser, <<Lvl(0), Build("ExprStmt", 1), Item("finish")>>, nodes)

StmtStep ==
  \/ ExprStep \/ assignRhs \/ ExpectLiteral \/ finishStatement \/ finishCount \/ CompoundNode \/ blockStatement
  \/ BlockStatements \/ SingleEnd \/ thenStatement \/ elseStatement \/ LoopEnd \/ LoopBody \/ StepSize
  \/ ReturnEnd \/ statement
=============================================================================
