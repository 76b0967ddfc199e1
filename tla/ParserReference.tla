-------------------------- MODULE ParserReference --------------------------
(***************************************************************************)
(* What the parser is compared with: the text of an AST, by a table of the *)
(* forms of expressions and statements with their precedence, and the      *)
(* static rules that an accepted program obeys, by a walk over the AST.    *)
(***************************************************************************)
EXTENDS DeclParser

\* level of the node, levels of its children, and the words around them
Form(level, children, words) == [lvl |-> level, at |-> children, words |-> words]

Infix(level, right, word) == Form(level, <<level, right>>, <<<< >>, <<word>>, << >>>>)

Comparing(words) == Form(8, <<8, 9>>, <<<< >>, words, <<"IST">>>>)

Prefix(words) == Form(unary, <<unary>>, <<words, << >>>>)

Forms ==
  [TER_FALLS |-> Form(0, <<1, 0, 0>>, <<<< >>, <<"COMMA", "FALLS">>, <<"COMMA", "ANSONSTEN">>, << >>>>),
   BIN_XOR |-> Form(1, <<2, 2>>, <<<<"ENTWEDER">>, <<"COMMA", "ODER">>, << >>>>),
   BIN_OR |-> Infix(2, 3, "ODER"), BIN_AND |-> Infix(3, 4, "UND"),
   BIN_LOGIC_OR |-> Form(4, <<4, 5>>, <<<< >>, <<"LOGISCH", "ODER">>, << >>>>),
   BIN_LOGIC_XOR |-> Form(5, <<5, 6>>, <<<< >>, <<"LOGISCH", "KONTRA">>, << >>>>),
   BIN_LOGIC_AND |-> Form(6, <<6, 7>>, <<<< >>, <<"LOGISCH", "UND">>, << >>>>),
   BIN_EQUAL |-> Form(7, <<7, 8>>, <<<< >>, <<"GLEICH">>, <<"IST">>>>),
   BIN_UNEQUAL |-> Form(7, <<7, 8>>, <<<< >>, <<"UNGLEICH">>, <<"IST">>>>),
   BIN_GREATER |-> Comparing(<<"GROESSER", "ALS">>),
   BIN_LESS |-> Comparing(<<"KLEINER", "ALS">>),
   BIN_LESS_EQ |-> Comparing(<<"KLEINER", "ALS", "COMMA", "ODER">>),
   BIN_GREATER_EQ |-> Comparing(<<"GROESSER", "ALS", "COMMA", "ODER">>),
   TER_BETWEEN |-> Form(8, <<8, 9, 9>>, <<<< >>, <<"ZWISCHEN">>, <<"UND">>, <<"IST">>>>),
   BIN_LEFT_SHIFT |-> Form(9, <<9, 10>>, <<<< >>, <<"UM">>, <<"BIT", "NACH", "LINKS", "VERSCHOBEN">>>>),
   BIN_RIGHT_SHIFT |-> Form(9, <<9, 10>>, <<<< >>, <<"UM">>, <<"BIT", "NACH", "RECHTS", "VERSCHOBEN">>>>),
   BIN_PLUS |-> Infix(10, 11, "PLUS"), BIN_MINUS |-> Infix(10, 11, "MINUS"),
   BIN_CONCAT |-> Form(10, <<10, 11>>, <<<< >>, <<"VERKETTET", "MIT">>, << >>>>),
   BIN_MULT |-> Infix(11, unary, "MAL"), BIN_DIV |-> Infix(11, unary, "DURCH"), BIN_MOD |-> Infix(11, unary, "MODULO"),
   UN_NOT |-> Prefix(<<"NICHT">>), UN_LOGIC_NOT |-> Prefix(<<"LOGISCH", "NICHT">>),
   BETRAG |-> Prefix(<<"DER", "BETRAG", "VON">>), LAENGE |-> Prefix(<<"DIE", "LAENGE", "VON">>),
   UN_NEGATE |-> Form(negate, <<negate>>, <<<<"NEGATE">>, << >>>>),
   BIN_POW |-> Form(power, <<15, unary>>, <<<< >>, <<"HOCH">>, << >>>>),
   BIN_LOG |-> Form(power, <<0, unary>>, <<<<"DER", "LOGARITHMUS", "VON">>, <<"ZUR", "BASIS">>, << >>>>),
   BIN_ROOT |-> Form(power, <<unary, unary>>, <<<<"DIE">>, <<"DOT", "WURZEL", "VON">>, << >>>>),
   TER_SLICE |-> Form(15, <<15, 0, 16>>, <<<< >>, <<"IM", "BEREICH", "VON">>, <<"BIS">>, << >>>>),
   BIN_SLICE_TO |-> Form(15, <<15, 0>>, <<<< >>, <<"BIS", "ZUM">>, <<"DOT", "ELEMENT">>>>),
   BIN_SLICE_FROM |-> Form(15, <<15, 0>>, <<<< >>, <<"AB", "DEM">>, <<"DOT", "ELEMENT">>>>),
   BIN_INDEX |-> Form(16, <<16, 17>>, <<<< >>, <<"AN", "DER", "STELLE">>, << >>>>),
   BIN_FIELD_ACCESS |-> Form(17, <<18, 17>>, <<<< >>, <<"VON">>, << >>>>),
   Grouping |-> Form(primary, <<0>>, <<<<"LPAREN">>, <<"RPAREN">>>>),
   Indexing |-> Form(0, <<0, unary>>, <<<< >>, <<"AN", "DER", "STELLE">>, << >>>>),
   FieldAccess |-> Form(0, <<0, 0>>, <<<< >>, <<"VON">>, << >>>>),
   falsch_wenn |-> Form(0, <<0>>, <<<<"FALSE", "COMMA", "WENN">>, << >>>>),
   wahr_wenn |-> Form(0, <<0>>, <<<<"TRUE", "COMMA", "WENN">>, << >>>>),
   ListCount |-> Form(0, <<0, 0>>, <<<< >>, <<"COUNT_MAL">>, << >>>>)]

TypeWord ==
  [Zahl |-> "ZAHL", Kommazahl |-> "KOMMAZAHL", Byte |-> "BYTE", Buchstabe |-> "BUCHSTABE",
   Wahrheitswert |-> "WAHRHEITSWERT", Text |-> "TEXT", Variable |-> "VARIABLE"]

PluralWord ==
  [Zahl |-> <<"ZAHLEN">>, Kommazahl |-> <<"KOMMAZAHLEN">>, Buchstabe |-> <<"BUCHSTABEN">>, Variable |-> <<"VARIABLEN">>]

NameOfType(t) == IF t[1] \in DOMAIN TypeWord THEN TypeWord[t[1]] ELSE t[1]

PluralOf(t) == IF t[1] \in DOMAIN PluralWord THEN PluralWord[t[1]] ELSE <<NameOfType(t)>>

PrintType(t) == IF t[1] # "Liste" THEN <<NameOfType(t)>> ELSE PluralOf(Tail(t)) \o <<"LISTE">>

PrintReference(t) == (IF t[1] = "Liste" THEN PluralOf(Tail(t)) \o <<"LISTEN">> ELSE PluralOf(t)) \o <<"REFERENZ">>

Neuter(gender, masculine, feminine, neuter) ==
  CASE gender = "MASKULIN" -> masculine [] gender = "FEMININ" -> feminine [] OTHER -> neuter

Nominative(p, t) == Neuter(Gender(p, t), "DER", "DIE", "DAS")

Accusative(gender) == Neuter(gender, "EINEN", "EINE", "EIN")

RECURSIVE PrintExpr(_, _), PrintChildren(_, _, _), PrintWords(_, _, _)

PrintChildren(p, words, es) ==
  IF es = << >> THEN Head(words)
  ELSE Head(words) \o PrintExpr(p, Head(es)) \o PrintChildren(p, Tail(words), Tail(es))

\* the words of an alias with the arguments in their places
PrintWords(p, words, args) ==
  CASE words = << >> -> << >>
    [] words # << >> /\ words[1] \in DOMAIN ParamWords -> PrintExpr(p, Head(args)) \o PrintWords(p, Tail(words), Tail(args))
    [] OTHER -> <<Head(words)>> \o PrintWords(p, Tail(words), args)

AliasesOf(p, decl, negated) == {a \in p.aliases : a.decl = decl /\ a.negated = negated}

PrintCall(p, e, negated) ==
  PrintWords(p, (CHOOSE a \in AliasesOf(p, e[2][1], negated) : TRUE).words, SubSeq(e, 3, Len(e)))

PrintExpr(p, e) ==
  CASE e[1] \in {"Ident", "Lit"} -> IF e[2] = "default" THEN << >> ELSE <<e[2]>>
    [] e[1] = "UN_NOT" /\ e[2][1] = "TypeCheck" ->
         PrintExpr(p, e[2][2]) \o <<Neuter(Gender(p, Tail(e[2][3])), "KEIN", "KEINE", "KEIN")>>
           \o PrintType(Tail(e[2][3])) \o <<"IST">>
    [] e[1] = "UN_NOT" /\ e[2][1] = "FuncCall" -> PrintCall(p, e[2], TRUE)
    [] e[1] = "UN_NOT" /\ e[2][1] \notin {"TypeCheck", "FuncCall"} -> PrintChildren(p, Forms["UN_NOT"].words, Tail(e))
    [] e[1] = "TypeCheck" ->
         PrintExpr(p, e[2]) \o <<Neuter(Gender(p, Tail(e[3])), "EIN", "EINE", "EIN")>> \o PrintType(Tail(e[3])) \o <<"IST">>
    [] e[1] \in {"CastExpr", "CastAssigneable"} -> PrintExpr(p, e[2]) \o <<"ALS">> \o PrintType(Tail(e[3]))
    [] e[1] \in {"GROESSE", "STANDARDWERT"} ->
         <<IF e[1] = "GROESSE" THEN "DIE" ELSE "DER", e[1], "VON",
           Neuter(Gender(p, Tail(e[2])), "EINEM", "EINER", "EINEM")>> \o PrintType(Tail(e[2]))
    [] e[1] \in {"FuncCall", "StructLiteral"} -> PrintCall(p, e, FALSE)
    [] e[1] = "ListLit" ->
         IF Len(e) = 1 THEN <<"EINE", "LEERE", "ZAHLEN", "LISTE">>
         ELSE <<"EINE", "LISTE", "COMMA", "DIE", "AUS">>
                \o PrintChildren(p, <<<< >>>> \o [i \in 1..(Len(e) - 2) |-> <<"COMMA">>] \o <<<<"BESTEHT">>>>, Tail(e))
    [] OTHER -> PrintChildren(p, Forms[e[1]].words, Tail(e))
-----------------------------------------------------------------------------
(***************************************************************************)
(* A program is a sequence of lines [ind, w].                              *)
(***************************************************************************)
Line(indent, words) == [ind |-> indent, w |-> words]

\* the lines follow on the line of the words
Join(indent, words, lines) ==
  IF lines = << >> THEN <<Line(indent, words)>> ELSE <<Line(indent, words \o lines[1].w)>> \o Tail(lines)

CompoundWord ==
  [BIN_PLUS |-> <<"ERHOEHE", "UM">>, BIN_MINUS |-> <<"VERRINGERE", "UM">>, BIN_MULT |-> <<"VERVIELFACHE", "UM">>,
   BIN_DIV |-> <<"TEILE", "DURCH">>]

ShiftWord == [BIN_LEFT_SHIFT |-> "LINKS", BIN_RIGHT_SHIFT |-> "RECHTS"]

IsCompound(s) == s[3][1] \in DOMAIN CompoundWord \cup DOMAIN ShiftWord \cup {"UN_NOT", "UN_NEGATE"} /\ s[3][2] = s[2]

PrintAssign(p, x, e) ==
  CASE ~ IsCompound(<<"AssignStmt", x, e>>) -> PrintExpr(p, x) \o <<"IST">> \o PrintExpr(p, e)
    [] IsCompound(<<"AssignStmt", x, e>>) /\ e[1] \in DOMAIN CompoundWord ->
         <<CompoundWord[e[1]][1]>> \o PrintExpr(p, x) \o <<CompoundWord[e[1]][2]>> \o PrintExpr(p, e[3])
    [] IsCompound(<<"AssignStmt", x, e>>) /\ e[1] \in DOMAIN ShiftWord ->
         <<"VERSCHIEBE">> \o PrintExpr(p, x) \o <<"UM">> \o PrintExpr(p, e[3]) \o <<"BIT", "NACH", ShiftWord[e[1]]>>
    [] OTHER -> <<"NEGIERE">> \o PrintExpr(p, x)

\* the text of a statement without its dot
PrintSimple(p, s) ==
  CASE s[1] = "AssignStmt" -> PrintAssign(p, s[2], s[3])
    [] s[1] = "Speichere"  -> <<"SPEICHERE">> \o PrintExpr(p, s[2]) \o <<"IN">> \o PrintExpr(p, s[3])
    [] s[1] = "ExprStmt"   -> PrintExpr(p, s[2])

Article_(name, article) == IF IsPublic(name) THEN <<article, "OEFFENTLICHE">> ELSE <<article>>

Linkage(name) ==
  CASE name[3] # "extern" -> << >>
    [] name[3] = "extern" /\ IsPublic(name) -> <<"COMMA", "EXTERN", "SICHTBARE">>
    [] OTHER -> <<"EXTERN", "SICHTBARE">>

ForWord(p, t) == Neuter(Gender(p, t), "JEDEN", "JEDE", "JEDES")

Step(p, e) == IF e = <<"Lit", "default">> THEN << >> ELSE <<"MIT", "SCHRITTGROESSE">> \o PrintExpr(p, e)

PrintParams(names, types) ==
  CASE Len(names) = 1 -> <<"MIT", "DEM", "PARAMETER", names[1], "VOM", "TYP">> \o types[1] \o <<"COMMA">>
    [] Len(names) = 2 -> <<"MIT", "DEN", "PARAMETERN", names[1], "UND", names[2], "VOM", "TYP">>
                           \o types[1] \o <<"UND">> \o types[2] \o <<"COMMA">>
    [] Len(names) = 3 -> <<"MIT", "DEN", "PARAMETERN", names[1], "COMMA", names[2], "UND", names[3], "VOM", "TYP">>
                           \o types[1] \o <<"COMMA">> \o types[2] \o <<"UND">> \o types[3] \o <<"COMMA">>
    [] OTHER -> << >>

PrintReturn(p, t) == IF t = Void THEN <<"NICHTS">> ELSE <<Accusative(Gender(p, t))>> \o PrintType(t)

PrintHeader(p, n, f) ==
  <<"DIE">> \o (IF f.generic THEN <<"GENERISCHE">> ELSE << >>) \o <<"FUNKTION", n>>
    \o PrintParams([i \in DOMAIN f.params |-> f.params[i].n],
                   [i \in DOMAIN f.params |-> IF f.params[i].ref THEN PrintReference(f.params[i].t)
                                              ELSE PrintType(f.params[i].t)])
    \o <<"GIBT">> \o PrintReturn(p, f.ret) \o <<"ZURUECK", "COMMA">>
    \o (IF f.vis THEN <<"IST", "EXTERN", "SICHTBAR", "COMMA">> ELSE << >>)
    \o CASE f.kind = "body"   -> <<"MACHT", "COLON">>
          [] f.kind = "later"  -> <<"WIRD", "SPAETER", "DEFINIERT">>
          [] f.kind = "extern" -> <<"IST", "IN", "STRING", "DEFINIERT">>

\* the texts of the aliases, or the operator
TextsOf(p, n) == {w \in DOMAIN AliasOf : \E a \in AliasesOf(p, n, FALSE) : a.words = AliasOf[w].pos}

AliasLines(p, n, indent) ==
  IF TextsOf(p, n) = {}
    THEN <<Line(indent, <<"UND", "UEBERLAEDT", "DEN", (CHOOSE o \in p.overloads : TRUE)[1], "OPERATOR", "DOT">>)>>
    ELSE <<Line(indent, <<"UND", "KANN", "SO", "BENUTZT", "WERDEN", "COLON">>),
           Line(indent + 1, <<CHOOSE w \in TextsOf(p, n) : TRUE>>)>>

FieldLine(p, d, indent) ==
  Line(indent, (IF IsPublic(d[2]) THEN <<Neuter(Gender(p, Tail(d[3])), "DEM", "DER", "DEM"), "OEFFENTLICHEN">>
                ELSE <<Neuter(Gender(p, Tail(d[3])), "DEM", "DER", "DEM")>>)
                 \o PrintType(Tail(d[3])) \o <<d[2][2]>>
                 \o (IF d[4] = <<"NoInit">> THEN << >> ELSE <<"MIT", "STANDARDWERT">> \o PrintExpr(p, d[4])) \o <<"COMMA">>)

Imported(mode, names) ==
  CASE mode = "module"    -> << >>
    [] mode = "directory" -> <<"ALLE", "MODULE", "AUS">>
    [] mode = "recursive" -> <<"REKURSIV", "ALLE", "MODULE", "AUS">>
    [] mode = "symbols"   ->
         FlattenSeq([i \in DOMAIN names |-> (CASE i = 1 -> << >> [] i > 1 /\ i = Len(names) -> <<"UND">> [] OTHER -> <<"COMMA">>) \o names[i]])
           \o <<"AUS">>

RECURSIVE Lines(_, _, _), BodyLines(_, _, _, _)

\* a block below the words and a colon, or a single statement on their line
BodyLines(p, indent, words, body) ==
  IF body[1] = "Single" THEN Join(indent, words, Lines(p, body[2], indent))
  ELSE <<Line(indent, words \o <<"COLON">>)>>
         \o FlattenSeq([i \in 1..(Len(body) - 1) |-> Lines(p, body[i + 1], indent + 1)])

Optional(body, word) == IF body[1] = "Single" THEN << >> ELSE <<word>>

ElseLines(p, indent, s) ==
  CASE Len(s) = 3 -> << >>
    [] Len(s) = 4 /\ s[4][1] = "IfStmt" ->
         LET lines == Lines(p, s[4], indent) IN <<Line(indent, <<"WENN", "ABER">> \o Tail(lines[1].w))>> \o Tail(lines)
    [] OTHER -> BodyLines(p, indent, <<"SONST">>, s[4])

Lines(p, s, indent) ==
  CASE s[1] \in {"AssignStmt", "Speichere", "ExprStmt"} -> <<Line(indent, PrintSimple(p, s) \o <<"DOT">>)>>
    [] s[1] = "RepeatStmt" -> <<Line(indent, PrintSimple(p, s[3]) \o PrintExpr(p, s[2]) \o <<"COUNT_MAL", "DOT">>)>>
    [] s[1] = "IfStmt" ->
         BodyLines(p, indent, <<"WENN">> \o PrintExpr(p, s[2]) \o <<"COMMA">> \o Optional(s[3], "DANN"), s[3])
           \o ElseLines(p, indent, s)
    [] s[1] = "WhileStmt" ->
         BodyLines(p, indent, <<"SOLANGE">> \o PrintExpr(p, s[2]) \o <<"COMMA">> \o Optional(s[3], "MACHE"), s[3])
    [] s[1] = "DoWhile" ->
         BodyLines(p, indent, <<"MACHE">>, s[2]) \o <<Line(indent, <<"SOLANGE">> \o PrintExpr(p, s[3]) \o <<"DOT">>)>>
    [] s[1] = "Wiederhole" ->
         BodyLines(p, indent, <<"WIEDERHOLE">>, s[2]) \o <<Line(indent, PrintExpr(p, s[3]) \o <<"COUNT_MAL", "DOT">>)>>
    [] s[1] = "ForStmt" ->
         BodyLines(p, indent, <<"FUER", ForWord(p, s[2][3])>> \o PrintType(s[2][3]) \o <<s[2][2], "VON">> \o PrintExpr(p, s[3])
                                \o <<"BIS">> \o PrintExpr(p, s[4]) \o Step(p, s[5]) \o <<"COMMA">> \o Optional(s[6], "MACHE"), s[6])
    [] s[1] = "ForRangeStmt" ->
         BodyLines(p, indent, <<"FUER", ForWord(p, s[2][3])>> \o PrintType(s[2][3]) \o <<s[2][2]>>
                                \o (IF Len(s[2]) = 4 THEN <<"MIT", "INDEX", s[2][4]>> ELSE << >>)
                                \o <<"IN">> \o PrintExpr(p, s[3]) \o <<"COMMA">> \o Optional(s[4], "MACHE"), s[4])
    [] s[1] = "BlockStmt" -> BodyLines(p, indent, << >>, s)
    [] s[1] = "BreakContinueStmt" ->
         <<Line(indent, IF s[2][1] = "VERLASSE" THEN <<"VERLASSE", "DIE", "SCHLEIFE", "DOT">>
                        ELSE <<"FAHRE", "MIT", "DER", "SCHLEIFE", "FORT", "DOT">>)>>
    [] s[1] = "ReturnStmt" ->
         <<Line(indent, CASE Len(s) = 2 -> <<"VERLASSE", "DIE", "FUNKTION", "DOT">>
                          [] Len(s) = 3 /\ s[3][1] \in {"wahr_wenn", "falsch_wenn"} ->
                               <<"GIB">> \o PrintExpr(p, s[3]) \o <<"COMMA", "ZURUECK", "DOT">>
                          [] OTHER -> <<"GIB">> \o PrintExpr(p, s[3]) \o <<"ZURUECK", "DOT">>)>>
    [] s[1] = "TodoStmt" -> <<Line(indent, <<"ELIPSIS">>)>>
    [] s[1] = "ImportStmt" -> <<Line(indent, <<"BINDE">> \o Imported(s[2][1], SubSeq(s, 3, Len(s))) \o <<"STRING", "EIN", "DOT">>)>>
    [] s[1] = "VarDecl" ->
         <<Line(indent, Article_(s[2], Nominative(p, Tail(s[3]))) \o Linkage(s[2]) \o PrintType(Tail(s[3])) \o <<s[2][2], "IST">>
                          \o PrintExpr(p, s[4]) \o <<"DOT">>)>>
    [] s[1] = "ConstDecl" ->
         <<Line(indent, Article_(s[2], "DIE") \o <<"KONSTANTE", s[2][2], "IST">> \o PrintExpr(p, s[3]) \o <<"DOT">>)>>
    [] s[1] = "FuncDecl" ->
         (IF Len(s) = 3 THEN BodyLines(p, indent, SubSeq(PrintHeader(p, s[2][1], p.funcs[s[2][1]]), 1,
                                                         Len(PrintHeader(p, s[2][1], p.funcs[s[2][1]])) - 1), s[3])
          ELSE <<Line(indent, PrintHeader(p, s[2][1], p.funcs[s[2][1]]))>>
                 \o [i \in 1..(Len(p.funcs[s[2][1]].body) - 1) |->
                       Line(p.funcs[s[2][1]].body[i + 1].ind, <<p.funcs[s[2][1]].body[i + 1].w>>)])
           \o AliasLines(p, s[2][1], indent)
    [] s[1] = "FuncDef" -> BodyLines(p, indent, <<"DIE", "FUNKTION", s[2][1], "MACHT">>, s[3])
    [] s[1] = "StructDecl" ->
         <<Line(indent, <<"WIR", "NENNEN", "DIE">> \o (IF IsPublic(s[2]) THEN <<"OEFFENTLICHE">> ELSE << >>)
                          \o <<"KOMBINATION", "AUS">>)>>
           \o [i \in 1..(Len(s) - 2) |-> FieldLine(p, s[i + 2], indent + 1)]
           \o (IF TextsOf(p, s[2][2]) = {} THEN <<Line(indent, <<Accusative(s[2][3]), s[2][2], "DOT">>)>>
               ELSE <<Line(indent, <<Accusative(s[2][3]), s[2][2], "COMMA", "UND", "ERSTELLEN", "SIE", "SO", "COLON">>),
                      Line(indent + 1, <<CHOOSE w \in TextsOf(p, s[2][2]) : TRUE>>)>>)
    [] s[1] = "TypeAliasDecl" ->
         <<Line(indent, <<"WIR", "NENNEN", "EINE">> \o PrintType(Tail(s[3])) \o (IF IsPublic(s[2]) THEN <<"OEFFENTLICH">> ELSE << >>)
                          \o <<"AUCH", Accusative(s[2][3]), s[2][2], "DOT">>)>>
    [] s[1] = "TypeDefDecl" ->
         <<Line(indent, <<"WIR", "DEFINIEREN", Accusative(s[2][3]), s[2][2]>> \o (IF IsPublic(s[2]) THEN <<"OEFFENTLICH">> ELSE << >>)
                          \o <<"ALS", "EINE">> \o PrintType(Tail(s[3])) \o <<"DOT">>)>>

PrintProgram(p, stmts) == FlattenSeq([i \in DOMAIN stmts |-> Lines(p, stmts[i], 0)])

\* the words with their indentation
TokensOf(lines) ==
  FlattenSeq([i \in DOMAIN lines |-> [j \in DOMAIN lines[i].w |-> [w |-> lines[i].w[j], ind |-> lines[i].ind, ln |-> i]] @@ << >>])

\* which article is used makes no difference
Canonical(w) ==
  CASE w \in {"DER", "DIE", "DAS", "DEN", "DEM"} -> "DER"
    [] w \in {"EIN", "EINE", "EINEN", "EINER", "EINEM"} -> "EIN"
    [] OTHER -> w

\* the blocks around a token: what is indented further than the end of a line that opens one
Depth(toks, i) ==
  Cardinality({j \in 1..(i - 1) : /\ toks[j].w \in {"COLON", "AUS"} /\ toks[j + 1].ln > toks[j].ln
                                  /\ \A l \in (j + 1)..i : toks[l].ind > toks[j].ind})

CanonicalTokens(toks) == [i \in DOMAIN toks |-> <<Canonical(toks[i].w), Depth(toks, i)>>] @@ << >>

RECURSIVE Normal(_)

\* one ist ends several comparisons, the comma before extern is optional, and a name may be in parentheses
Normal(ws) ==
  CASE Len(ws) < 2 -> ws
    [] Len(ws) >= 2 /\ <<ws[1][1], ws[2][1]>> \in {<<"IST", "IST">>, <<"COMMA", "EXTERN">>} -> Normal(Tail(ws))
    [] Len(ws) >= 3 /\ ws[1][1] = "LPAREN" /\ ws[2][1] \in Names /\ ws[3][1] = "RPAREN" -> <<ws[2]>> \o Normal(SubSeq(ws, 4, Len(ws)))
    [] OTHER -> <<ws[1]>> \o Normal(Tail(ws))

SameText(toks1, toks2) == Normal(CanonicalTokens(toks1)) = Normal(CanonicalTokens(toks2))

LevelOf(e) ==
  CASE e[1] = "UN_NOT" /\ e[2][1] = "FuncCall" -> primary
    [] e[1] = "TypeCheck" \/ (e[1] = "UN_NOT" /\ e[2][1] = "TypeCheck") -> 7
    [] e[1] = "CastExpr" -> 18
    [] e[1] \in DOMAIN Forms /\ ~ (e[1] = "UN_NOT" /\ e[2][1] \in {"FuncCall", "TypeCheck"}) -> Forms[e[1]].lvl
    [] OTHER -> primary

RECURSIVE Precedes(_)

\* no operand binds weaker than its place allows
Precedes(e) ==
  CASE e[1] \in {"Ident", "Lit", "type", "Name", "Var", "NoInit"} -> TRUE
    [] e[1] = "AssignStmt" /\ IsCompound(e) -> \A i \in 2..Len(e[3]) : Precedes(e[3][i])
    [] e[1] = "UN_NOT" /\ e[2][1] \in {"FuncCall", "TypeCheck"} -> Precedes(e[2])
    [] e[1] = "TypeCheck" -> LevelOf(e[2]) >= 7 /\ Precedes(e[2])
    [] e[1] = "CastExpr" -> LevelOf(e[2]) >= 18 /\ Precedes(e[2])
    [] OTHER -> \A i \in 2..Len(e) :
                  Precedes(e[i]) /\ (e[1] \in DOMAIN Forms => LevelOf(e[i]) >= Forms[e[1]].at[i - 1])
-----------------------------------------------------------------------------
(***************************************************************************)
(* The rules that an accepted program obeys.  An environment holds the     *)
(* variables of the enclosing scopes and of the current one, the functions *)
(* declared so far, the function and whether there is a loop.              *)
(***************************************************************************)
Env == [outer |-> {}, vars |-> {}, funcs |-> {}, fn |-> "none", loop |-> FALSE]

Inner(env, names) == [env EXCEPT !.outer = @ \cup env.vars, !.vars = names]

RECURSIVE ObeysExpr(_, _)

ObeysExpr(env, e) ==
  CASE e[1] = "Ident" -> e[2] \in env.outer \cup env.vars
    [] e[1] \in {"Lit", "type", "NoInit"} -> TRUE
    [] e[1] \in {"BadExpr", "BadStmt", "BadDecl"} -> FALSE
    [] e[1] \in {"BIN_FIELD_ACCESS", "FieldAccess"} -> ObeysExpr(env, e[3])
    [] e[1] \in {"FuncCall", "StructLiteral"} -> e[2][1] \in env.funcs /\ \A i \in 3..Len(e) : ObeysExpr(env, e[i])
    [] OTHER -> \A i \in 2..Len(e) : ObeysExpr(env, e[i])

DeclaredVar(s) == IF s[1] \in {"VarDecl", "ConstDecl"} THEN {s[2][2]} ELSE {}

DeclaredFunc(s) == CASE s[1] = "FuncDecl" -> {s[2][1]} [] s[1] = "StructDecl" -> {s[2][2]} [] OTHER -> {}

ParamNamesOf(p, n) == {p.funcs[n].params[i].n : i \in DOMAIN p.funcs[n].params}

RECURSIVE Obeys(_, _, _), ObeyAll(_, _, _)

ObeyAll(p, env, ss) ==
  ss # << >> => /\ Obeys(p, env, Head(ss))
                /\ DeclaredVar(Head(ss)) \cap env.vars = {}
                /\ ObeyAll(p, [env EXCEPT !.vars = @ \cup DeclaredVar(Head(ss)), !.funcs = @ \cup DeclaredFunc(Head(ss))], Tail(ss))

Obeys(p, env, s) ==
  CASE s[1] \in {"BlockStmt", "Single"} -> ObeyAll(p, Inner(env, {}), Tail(s))
    [] s[1] \in {"WhileStmt"} -> ObeysExpr(env, s[2]) /\ Obeys(p, [env EXCEPT !.loop = TRUE], s[3])
    [] s[1] \in {"DoWhile", "Wiederhole"} -> ObeysExpr(env, s[3]) /\ Obeys(p, [env EXCEPT !.loop = TRUE], s[2])
    [] s[1] \in {"ForStmt", "ForRangeStmt"} ->
         /\ \A i \in 3..(Len(s) - 1) : ObeysExpr(Inner(env, {s[2][2]}), s[i])
         /\ ObeyAll(p, [Inner(env, {s[2][i] : i \in {2, 4} \cap DOMAIN s[2]}) EXCEPT !.loop = TRUE], Tail(s[Len(s)]))
    [] s[1] = "IfStmt" -> ObeysExpr(env, s[2]) /\ \A i \in 3..Len(s) : Obeys(p, env, s[i])
    [] s[1] = "RepeatStmt" -> ObeysExpr(env, s[2]) /\ Obeys(p, env, s[3])
    [] s[1] = "BreakContinueStmt" -> env.loop
    [] s[1] = "ReturnStmt" ->
         env.fn # "none" /\ s[2] = <<env.fn>> /\ (Len(s) = 2 <=> p.funcs[env.fn].ret = Void) /\ (Len(s) = 3 => ObeysExpr(env, s[3]))
    [] s[1] \in {"FuncDecl", "FuncDef"} ->
         env.fn = "none" /\ (Len(s) = 3 => ObeyAll(p, [Inner(env, ParamNamesOf(p, s[2][1])) EXCEPT
                                                        !.fn = s[2][1], !.loop = FALSE, !.funcs = @ \cup {s[2][1]}], Tail(s[3])))
    [] s[1] = "VarDecl" -> ObeysExpr(env, s[4])
    [] s[1] = "ConstDecl" -> ObeysExpr(env, s[3])
    [] s[1] \in {"StructDecl", "TypeAliasDecl", "TypeDefDecl", "TodoStmt", "ImportStmt"} -> TRUE
    [] OTHER -> ObeysExpr(env, s)
=============================================================================
