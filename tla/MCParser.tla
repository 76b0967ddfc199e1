------------------------------ MODULE MCParser ------------------------------
(***************************************************************************)
(* Parser for TLC: programs of declarations and statements, whole, with    *)
(* one token lost, doubled or renamed, and cut off after every token; and  *)
(* every pair of operators.  The last part are programs that the parser    *)
(* does not treat as it should.                                            *)
(***************************************************************************)
EXTENDS Parser

MCNames == {"x", "y", "b", "i", "j", "l", "f", "g", "s", "T", "S", "A", "D", "n"}

\* a Kombination may have any name but the one of the type parameter
MCStructs == MCNames \ {"T"}

MCAliasOf == ("\"f\"" :> [pos |-> <<"f", "<x>">>, neg |-> << >>])
          @@ ("\"g\"" :> [pos |-> <<"g", "<x>", "<y>">>, neg |-> << >>])
          @@ ("\"n\"" :> [pos |-> <<"<x>", "n">>, neg |-> <<"<x>", "NICHT", "n">>])
          @@ ("\"t\"" :> [pos |-> <<"f", "<x>", "<y>", "<b>">>, neg |-> << >>])
          @@ ("\"plus\"" :> [pos |-> <<"PLUS">>, neg |-> << >>])
          @@ ("\"s\"" :> [pos |-> <<"s", "<x>">>, neg |-> << >>])

MCParamWords == ("<x>" :> "x") @@ ("<y>" :> "y") @@ ("<b>" :> "b")

MCOperatorArity == ("\"plus\"" :> 2)

L(indent, words) == [ind |-> indent, w |-> words]

Assignments ==
  <<L(0, <<"DIE", "ZAHL", "x", "IST", "INT", "DOT">>),
    L(0, <<"DER", "WAHRHEITSWERT", "b", "IST", "TRUE", "COMMA", "WENN", "x", "GROESSER", "ALS", "INT", "IST", "DOT">>),
    L(0, <<"x", "IST", "INT", "DOT">>),
    L(0, <<"b", "IST", "b", "ODER", "x", "GLEICH", "INT", "IST", "DOT">>),
    L(0, <<"SPEICHERE", "x", "PLUS", "INT", "MAL", "x", "IN", "x", "DOT">>)>>

Compounds ==
  <<L(0, <<"DIE", "ZAHL", "x", "IST", "INT", "DOT">>),
    L(0, <<"ERHOEHE", "x", "UM", "INT", "DOT">>),
    L(0, <<"TEILE", "x", "DURCH", "INT", "DOT">>),
    L(0, <<"VERSCHIEBE", "x", "UM", "INT", "BIT", "NACH", "LINKS", "DOT">>),
    L(0, <<"NEGIERE", "x", "DOT">>)>>

Branches ==
  <<L(0, <<"DIE", "ZAHL", "x", "IST", "INT", "DOT">>),
    L(0, <<"WENN", "x", "KLEINER", "ALS", "COMMA", "ODER", "INT", "IST", "COMMA", "DANN", "COLON">>),
    L(1, <<"x", "IST", "INT", "DOT">>),
    L(1, <<"ERHOEHE", "x", "UM", "INT", "DOT">>),
    L(0, <<"WENN", "ABER", "x", "GLEICH", "INT", "IST", "COMMA", "x", "IST", "INT", "DOT">>),
    L(0, <<"SONST", "COLON">>),
    L(1, <<"NEGIERE", "x", "DOT">>)>>

Functions ==
  <<L(0, <<"DIE", "FUNKTION", "f", "MIT", "DEM", "PARAMETER", "x", "VOM", "TYP", "ZAHL", "COMMA", "GIBT", "EINE", "ZAHL", "ZURUECK", "COMMA", "MACHT", "COLON">>),
    L(1, <<"GIB", "x", "PLUS", "INT", "ZURUECK", "DOT">>),
    L(0, <<"UND", "KANN", "SO", "BENUTZT", "WERDEN", "COLON">>),
    L(1, <<"\"f\"">>),
    L(0, <<"DIE", "ZAHL", "y", "IST", "f", "LPAREN", "f", "INT", "RPAREN", "MAL", "INT", "DOT">>)>>

Loops_ ==
  <<L(0, <<"DIE", "ZAHL", "x", "IST", "INT", "DOT">>),
    L(0, <<"SOLANGE", "x", "GLEICH", "INT", "IST", "COMMA", "MACHE", "COLON">>),
    L(1, <<"VERLASSE", "DIE", "SCHLEIFE", "DOT">>),
    L(0, <<"FUER", "JEDE", "ZAHL", "i", "VON", "INT", "BIS", "x", "MIT", "SCHRITTGROESSE", "INT", "COMMA", "MACHE", "COLON">>),
    L(1, <<"SPEICHERE", "i", "IN", "x", "INT", "COUNT_MAL", "DOT">>),
    L(1, <<"FAHRE", "MIT", "DER", "SCHLEIFE", "FORT", "DOT">>)>>

MoreLoops ==
  <<L(0, <<"DIE", "ZAHLEN", "LISTE", "l", "IST", "EINE", "LISTE", "COMMA", "DIE", "AUS", "INT", "COMMA", "INT", "BESTEHT", "DOT">>),
    L(0, <<"FUER", "JEDE", "ZAHL", "i", "MIT", "INDEX", "j", "IN", "l", "COMMA", "SPEICHERE", "i", "IN", "l", "AN", "DER", "STELLE", "j", "DOT">>),
    L(0, <<"MACHE", "COLON">>),
    L(1, <<"ELIPSIS">>),
    L(1, <<"COLON">>),
    L(2, <<"l", "AN", "DER", "STELLE", "INT", "IST", "INT", "DOT">>),
    L(0, <<"SOLANGE", "l", "GLEICH", "l", "IST", "DOT">>),
    L(0, <<"WIEDERHOLE", "COLON">>),
    L(1, <<"ELIPSIS">>),
    L(0, <<"INT", "COUNT_MAL", "DOT">>)>>

ForwardDeclared ==
  <<L(0, <<"DIE", "FUNKTION", "g", "MIT", "DEN", "PARAMETERN", "x", "UND", "y", "VOM", "TYP", "ZAHLEN", "REFERENZ", "UND", "TEXT", "COMMA",
           "GIBT", "NICHTS", "ZURUECK", "COMMA", "WIRD", "SPAETER", "DEFINIERT">>),
    L(0, <<"UND", "KANN", "SO", "BENUTZT", "WERDEN", "COLON">>),
    L(1, <<"\"g\"">>),
    L(0, <<"DIE", "ZAHL", "x", "IST", "INT", "DOT">>),
    L(0, <<"g", "x", "STRING", "DOT">>),
    L(0, <<"DIE", "FUNKTION", "g", "MACHT", "COLON">>),
    L(1, <<"VERLASSE", "DIE", "FUNKTION", "DOT">>)>>

Negated ==
  <<L(0, <<"DIE", "FUNKTION", "n", "MIT", "DEM", "PARAMETER", "x", "VOM", "TYP", "ZAHL", "COMMA", "GIBT", "EINEN", "WAHRHEITSWERT", "ZURUECK",
           "COMMA", "MACHT", "COLON">>),
    L(1, <<"GIB", "TRUE", "COMMA", "WENN", "x", "GLEICH", "INT", "IST", "COMMA", "ZURUECK", "DOT">>),
    L(0, <<"UND", "KANN", "SO", "BENUTZT", "WERDEN", "COLON">>),
    L(1, <<"\"n\"">>),
    L(0, <<"WENN", "INT", "NICHT", "n", "COMMA", "ELIPSIS">>)>>

Generic ==
  <<L(0, <<"DIE", "GENERISCHE", "FUNKTION", "f", "MIT", "DEM", "PARAMETER", "x", "VOM", "TYP", "T", "COMMA", "GIBT", "EINEN", "T", "ZURUECK",
           "COMMA", "MACHT", "COLON">>),
    L(1, <<"DER", "T", "y", "IST", "x", "DOT">>),
    L(1, <<"GIB", "y", "ZURUECK", "DOT">>),
    L(0, <<"UND", "KANN", "SO", "BENUTZT", "WERDEN", "COLON">>),
    L(1, <<"\"f\"">>),
    L(0, <<"DIE", "ZAHL", "x", "IST", "f", "INT", "DOT">>),
    L(0, <<"DER", "TEXT", "s", "IST", "f", "STRING", "DOT">>),
    L(0, <<"DER", "WAHRHEITSWERT", "b", "IST", "f", "TRUE", "DOT">>)>>

StructTypes ==
  <<L(0, <<"WIR", "NENNEN", "DIE", "OEFFENTLICHE", "KOMBINATION", "AUS">>),
    L(1, <<"DER", "ZAHL", "x", "COMMA">>),
    L(1, <<"DEM", "OEFFENTLICHEN", "TEXT", "y", "MIT", "STANDARDWERT", "STRING", "COMMA">>),
    L(0, <<"EINEN", "S", "COMMA", "UND", "ERSTELLEN", "SIE", "SO", "COLON">>),
    L(1, <<"\"s\"">>),
    L(0, <<"DER", "OEFFENTLICHE", "COMMA", "EXTERN", "SICHTBARE", "S", "b", "IST", "s", "INT", "DOT">>),
    L(0, <<"SPEICHERE", "x", "VON", "b", "PLUS", "INT", "IN", "x", "VON", "b", "DOT">>)>>

TypeNames ==
  <<L(0, <<"WIR", "NENNEN", "EINE", "ZAHL", "AUCH", "EINEN", "A", "DOT">>),
    L(0, <<"WIR", "DEFINIEREN", "EIN", "D", "OEFFENTLICH", "ALS", "EINE", "ZAHL", "DOT">>),
    L(0, <<"WIR", "NENNEN", "EINE", "ZAHLEN", "LISTE", "AUCH", "EINE", "S", "DOT">>),
    L(0, <<"DER", "A", "x", "IST", "INT", "DOT">>),
    L(0, <<"DIE", "S", "l", "IST", "EINE", "LISTE", "COMMA", "DIE", "AUS", "x", "BESTEHT", "DOT">>),
    L(0, <<"DAS", "D", "y", "IST", "x", "ALS", "D", "DOT">>),
    L(0, <<"SPEICHERE", "INT", "IN", "y", "ALS", "ZAHL", "DOT">>)>>

Constants ==
  <<L(0, <<"DIE", "KONSTANTE", "x", "IST", "INT", "DOT">>),
    L(0, <<"DIE", "OEFFENTLICHE", "KONSTANTE", "l", "IST", "INT", "COUNT_MAL", "INT", "DOT">>),
    L(0, <<"DIE", "ZAHLEN", "LISTE", "b", "IST", "INT", "COUNT_MAL", "x", "DOT">>),
    L(0, <<"DIE", "KONSTANTE", "y", "IST", "EINE", "LISTE", "COMMA", "DIE", "AUS", "INT", "COMMA", "INT", "BESTEHT", "DOT">>)>>

Imports ==
  <<L(0, <<"BINDE", "STRING", "EIN", "DOT">>),
    L(0, <<"BINDE", "x", "AUS", "STRING", "EIN", "DOT">>),
    L(0, <<"BINDE", "x", "UND", "y", "AUS", "STRING", "EIN", "DOT">>),
    L(0, <<"BINDE", "x", "COMMA", "y", "UND", "b", "AUS", "STRING", "EIN", "DOT">>),
    L(0, <<"BINDE", "REKURSIV", "ALLE", "MODULE", "AUS", "STRING", "EIN", "DOT">>),
    L(0, <<"BINDE", "ALLE", "MODULE", "AUS", "STRING", "EIN", "DOT">>)>>

Overloading ==
  <<L(0, <<"DIE", "FUNKTION", "g", "MIT", "DEN", "PARAMETERN", "x", "UND", "y", "VOM", "TYP", "ZAHL", "UND", "TEXT", "LISTEN", "REFERENZ", "COMMA",
           "GIBT", "EINE", "ZAHL", "ZURUECK", "COMMA", "IST", "IN", "STRING", "DEFINIERT">>),
    L(0, <<"UND", "UEBERLAEDT", "DEN", "\"plus\"", "OPERATOR", "DOT">>),
    L(0, <<"DIE", "FUNKTION", "f", "MIT", "DEN", "PARAMETERN", "x", "COMMA", "y", "UND", "b", "VOM", "TYP", "ZAHL", "COMMA", "ZAHL", "UND", "ZAHL",
           "COMMA", "GIBT", "NICHTS", "ZURUECK", "COMMA", "IST", "EXTERN", "SICHTBAR", "COMMA", "MACHT", "COLON">>),
    L(1, <<"VERLASSE", "DIE", "FUNKTION", "DOT">>),
    L(0, <<"UND", "KANN", "SO", "BENUTZT", "WERDEN", "COLON">>),
    L(1, <<"\"t\"">>)>>

AliasTwice ==
  <<L(0, <<"DIE", "FUNKTION", "f", "MIT", "DEM", "PARAMETER", "x", "VOM", "TYP", "ZAHL", "COMMA", "GIBT", "NICHTS", "ZURUECK", "COMMA",
           "IST", "IN", "STRING", "DEFINIERT">>),
    L(0, <<"UND", "KANN", "SO", "BENUTZT", "WERDEN", "COLON">>),
    L(1, <<"\"f\"">>),
    L(0, <<"DIE", "FUNKTION", "g", "MIT", "DEM", "PARAMETER", "x", "VOM", "TYP", "TEXT", "COMMA", "GIBT", "NICHTS", "ZURUECK", "COMMA",
           "IST", "IN", "STRING", "DEFINIERT">>),
    L(0, <<"UND", "KANN", "SO", "BENUTZT", "WERDEN", "COLON">>),
    L(1, <<"\"f\"">>),
    L(0, <<"f", "INT", "DOT">>),
    L(0, <<"f", "STRING", "DOT">>)>>

Unaries ==
  <<L(0, <<"DIE", "ZAHL", "x", "IST", "DIE", "GROESSE", "VON", "EINER", "ZAHL", "PLUS", "DER", "STANDARDWERT", "VON", "EINER", "ZAHL", "DOT">>),
    L(0, <<"DIE", "ZAHLEN", "LISTE", "l", "IST", "EINE", "LEERE", "ZAHLEN", "LISTE", "DOT">>),
    L(0, <<"WENN", "x", "EINE", "ZAHL", "IST", "UND", "x", "KEIN", "TEXT", "IST", "COMMA", "x", "ALS", "TEXT", "ALS", "ZAHL", "DOT">>),
    L(0, <<"NEGIERE", "LPAREN", "x", "RPAREN", "DOT">>)>>

Bases == <<Assignments, Compounds, Branches, Functions, Loops_, MoreLoops, ForwardDeclared, Negated, Generic, StructTypes, TypeNames, Constants,
           Imports, Overloading, AliasTwice, Unaries>>

\* well-formed statements in the wrong place, and a count with an error of its own
Start == L(0, <<"DIE", "ZAHL", "x", "IST", "INT", "DOT">>)

Wrong ==
  {<<L(0, <<"GIB", "INT", "ZURUECK", "DOT">>)>>,
   <<L(0, <<"VERLASSE", "DIE", "SCHLEIFE", "DOT">>)>>,
   <<Start, L(0, <<"DIE", "ZAHL", "x", "IST", "INT", "DOT">>)>>,
   <<Start, L(0, <<"SPEICHERE", "x", "IN", "x", "SONST", "COUNT_MAL", "DOT">>)>>,
   <<Start, L(0, <<"FUER", "JEDE", "ZAHL", "i", "VON", "INT", "BIS", "x", "COMMA", "SPEICHERE", "i", "IN", "x", "DOT">>),
     L(0, <<"SPEICHERE", "i", "IN", "x", "DOT">>)>>}
-----------------------------------------------------------------------------
Delete(s, i) == SubSeq(s, 1, i - 1) \o SubSeq(s, i + 1, Len(s))

Twice(s, i) == SubSeq(s, 1, i) \o SubSeq(s, i, Len(s))

\* another name; T is the only name of a type parameter
Renamed(s, i, w) == [s EXCEPT ![i].w = w]

Program(toks, intact) == [toks |-> toks, intact |-> intact]

Damaged(s) ==
  {Program(Delete(s, i), FALSE) : i \in DOMAIN s} \cup {Program(Twice(s, i), FALSE) : i \in DOMAIN s}
    \cup {Program(SubSeq(s, 1, i), FALSE) : i \in DOMAIN s \ {Len(s)}}
    \cup {Program(Renamed(s, i, "j"), FALSE) : i \in {k \in DOMAIN s : s[k].w \in MCNames \ {"T"}}}

Statements ==
  UNION {{Program(TokensOf(Bases[i]), TRUE)} \cup Damaged(TokensOf(Bases[i])) : i \in DOMAIN Bases}
    \cup {Program(TokensOf(lines), FALSE) : lines \in Wrong}
-----------------------------------------------------------------------------
\* every operator with every operator as one of its operands, in parentheses where it binds weaker
MCOperators ==
  {"TER_FALLS", "BIN_XOR", "BIN_OR", "BIN_AND", "BIN_LOGIC_OR", "BIN_LOGIC_XOR", "BIN_LOGIC_AND", "BIN_EQUAL", "BIN_LESS_EQ", "TER_BETWEEN",
   "BIN_LEFT_SHIFT", "BIN_PLUS", "BIN_MULT", "UN_NOT", "BETRAG", "UN_NEGATE", "BIN_POW", "BIN_LOG", "BIN_ROOT", "TER_SLICE", "BIN_SLICE_TO",
   "BIN_INDEX"}

Expr(op) == <<op>> \o [i \in DOMAIN Forms[op].at |-> <<"Lit", "INT">>]

Parenthesised(op, i, inner) == IF LevelOf(Expr(inner)) < Forms[op].at[i] THEN <<"Grouping", Expr(inner)>> ELSE Expr(inner)

Nested(op, i, e) ==
  <<L(0, <<"DIE", "ZAHL", "x", "IST", "INT", "DOT">>),
    L(0, <<"SPEICHERE">> \o PrintExpr(<< >>, [Expr(op) EXCEPT ![i + 1] = e]) \o <<"IN", "x", "DOT">>)>>

Places == UNION {{<<op, i>> : i \in DOMAIN Forms[op].at} : op \in MCOperators}

Expressions ==
  {Program(TokensOf(Nested(place[1], place[2], Parenthesised(place[1], place[2], inner))), TRUE) : place \in Places, inner \in MCOperators}

Unparenthesised ==
  {Program(TokensOf(Nested(place[1], place[2], Expr(inner))), FALSE) : place \in Places, inner \in MCOperators}

MCPrograms == Statements \cup Expressions \cup Unparenthesised
-----------------------------------------------------------------------------
Same(lines, intact) == {Program(TokensOf(lines), intact)}

\* examples/Rechner/TokenLeser.ddp:7
MCAliasDeclaration ==
  Same(<<L(0, <<"DIE", "FUNKTION", "f", "MIT", "DEM", "PARAMETER", "x", "VOM", "TYP", "ZAHL", "COMMA", "GIBT", "NICHTS", "ZURUECK", "COMMA",
                "MACHT", "COLON">>),
         L(1, <<"ELIPSIS">>),
         L(0, <<"UND", "KANN", "SO", "BENUTZT", "WERDEN", "COLON">>),
         L(1, <<"\"f\"">>),
         L(0, <<"DER", "ALIAS", "\"s\"", "STEHT", "FUER", "DIE", "FUNKTION", "f", "DOT">>),
         L(0, <<"s", "INT", "DOT">>)>>, TRUE)

\* a generic function with a count in its body, for two types
MCCountInGeneric ==
  Same(<<L(0, <<"DIE", "GENERISCHE", "FUNKTION", "f", "MIT", "DEM", "PARAMETER", "x", "VOM", "TYP", "T", "COMMA", "GIBT", "EINEN", "T", "ZURUECK",
                "COMMA", "MACHT", "COLON">>),
         L(1, <<"DER", "T", "y", "IST", "x", "DOT">>),
         L(1, <<"SPEICHERE", "x", "IN", "y", "INT", "COUNT_MAL", "DOT">>),
         L(1, <<"GIB", "y", "ZURUECK", "DOT">>),
         L(0, <<"UND", "KANN", "SO", "BENUTZT", "WERDEN", "COLON">>),
         L(1, <<"\"f\"">>),
         L(0, <<"DIE", "ZAHL", "x", "IST", "f", "INT", "DOT">>),
         L(0, <<"DER", "TEXT", "s", "IST", "f", "STRING", "DOT">>)>>, TRUE)

\* a function that returns a Wahrheitswert, declared first and defined after another function
MCForwardBool ==
  Same(<<L(0, <<"DIE", "FUNKTION", "n", "MIT", "DEM", "PARAMETER", "x", "VOM", "TYP", "ZAHL", "COMMA", "GIBT", "EINEN", "WAHRHEITSWERT", "ZURUECK",
                "COMMA", "WIRD", "SPAETER", "DEFINIERT">>),
         L(0, <<"UND", "KANN", "SO", "BENUTZT", "WERDEN", "COLON">>),
         L(1, <<"\"n\"">>),
         L(0, <<"DIE", "FUNKTION", "f", "MIT", "DEM", "PARAMETER", "x", "VOM", "TYP", "ZAHL", "COMMA", "GIBT", "NICHTS", "ZURUECK", "COMMA",
                "MACHT", "COLON">>),
         L(1, <<"ELIPSIS">>),
         L(0, <<"UND", "KANN", "SO", "BENUTZT", "WERDEN", "COLON">>),
         L(1, <<"\"f\"">>),
         L(0, <<"DIE", "FUNKTION", "n", "MACHT", "COLON">>),
         L(1, <<"GIB", "TRUE", "COMMA", "WENN", "x", "GLEICH", "INT", "IST", "COMMA", "ZURUECK", "DOT">>)>>, TRUE)

\* a list of a type alias, given as a count and a value
MCCountOfAlias ==
  Same(<<L(0, <<"WIR", "NENNEN", "EINE", "ZAHLEN", "LISTE", "AUCH", "EINE", "S", "DOT">>),
         L(0, <<"DIE", "S", "l", "IST", "INT", "COUNT_MAL", "INT", "DOT">>)>>, TRUE)

\* an alias for a type
MCAliasOfType ==
  Same(<<L(0, <<"WIR", "NENNEN", "EINE", "ZAHL", "AUCH", "EINE", "S", "DOT">>),
         L(0, <<"DER", "ALIAS", "\"s\"", "STEHT", "FUER", "DIE", "FUNKTION", "S", "DOT">>)>>, FALSE)

\* the definition of a function that was declared before, as the only statement of a wenn
MCDefinitionInBranch ==
  Same(<<L(0, <<"DIE", "FUNKTION", "g", "MIT", "DEM", "PARAMETER", "x", "VOM", "TYP", "ZAHL", "COMMA", "GIBT", "NICHTS", "ZURUECK", "COMMA",
                "WIRD", "SPAETER", "DEFINIERT">>),
         L(0, <<"UND", "KANN", "SO", "BENUTZT", "WERDEN", "COLON">>),
         L(1, <<"\"f\"">>),
         L(0, <<"WENN", "TRUE", "COMMA", "DIE", "FUNKTION", "g", "MACHT", "COLON">>),
         L(1, <<"ELIPSIS">>)>>, FALSE)
=============================================================================
