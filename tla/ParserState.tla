---------------------------- MODULE ParserState ----------------------------
(***************************************************************************)
(* The state of the parser and its access to the tokens (parser.go,        *)
(* tokens.go).  A token is [w, ind, ln]: a word, the indentation and the   *)
(* line; the type of a token is its word, except for names.  The end of    *)
(* the tokens stands for EOF.  An AST node is a sequence that starts with  *)
(* the kind of node; None is nil.                                          *)
(***************************************************************************)
EXTENDS DDPTypes, FiniteSetsExt

CONSTANTS Names,    \* the words that are names
          AliasOf   \* the words in the string of an alias, [pos, neg], and without its negation marker

None == << >>

\* "INT!" is a number that is too large, "STRING!" a text with a bad escape
Type(tok) == CASE tok.w \in Names   -> "IDENTIFIER"
               [] tok.w = "INT!"    -> "INT"
               [] tok.w = "STRING!" -> "STRING"
               [] tok.w \in DOMAIN AliasOf -> "STRING"
               [] OTHER             -> tok.w

EOF == [w |-> "EOF", ind |-> 0, ln |-> 0]

\* the state before the first token; aliases are those of imported modules.
\* saved is what the error handler of expressionOrErr keeps while it is set;
\* faulty is the flag the resolver sets, which parse overwrites in the end;
\* argErr: an argument of the alias that is tried has errors; source is what was given,
\* [toks, intact], and whether it is a correct program
newParser(source, symbols, imported, functions) ==
  [source |-> source, toks |-> source.toks, cur |-> 1, panicMode |-> FALSE, errored |-> FALSE, saved |-> "unset",
   faulty |-> FALSE, scopes |-> <<symbols>>, LoopDepth |-> 0, currentFunction |-> "none",
   isCurrentFunctionBool |-> FALSE, aliases |-> imported,
   funcs |-> functions, overloads |-> {}, argErr |-> FALSE, crashed |-> FALSE]

At(p, i) == IF i \in DOMAIN p.toks THEN p.toks[i] ELSE EOF

peek(p) == At(p, p.cur)

peekN(p, n) == At(p, p.cur + n)

previous(p) == IF p.cur = 1 THEN [EOF EXCEPT !.w = "ILLEGAL"] ELSE At(p, p.cur - 1)

atEnd(p) == p.cur > Len(p.toks)

advance(p) == IF atEnd(p) THEN p ELSE [p EXCEPT !.cur = @ + 1]

decrease(p) == IF p.cur > 1 THEN [p EXCEPT !.cur = @ - 1] ELSE p

\* the error handler
report(p) == IF p.saved = "unset" THEN [p EXCEPT !.errored = TRUE] ELSE [p EXCEPT !.saved = "error"]

\* only the first error is reported until synchronize
err(p, code) == IF p.panicMode THEN p ELSE report([p EXCEPT !.panicMode = TRUE])

check(p, types) == ~ atEnd(p) /\ Type(peek(p)) \in types

\* matchAny and matchSeq: the test; the caller advances
matchSeq(p, s) == \A i \in DOMAIN s : Type(peekN(p, i - 1)) = s[i]

skip(p, n) == [p EXCEPT !.cur = Min({@ + n, Len(p.toks) + 1})]

\* what is expected is consumed up to the first token that differs
consumeSeq(p, s) ==
  LET fits == {n \in 0..Len(s) : \A i \in 1..n : Type(peekN(p, i - 1)) = s[i]}
  IN IF Len(s) \in fits THEN skip(p, Len(s))
     ELSE err(skip(p, Max(fits)), "SYN_UNEXPECTED_TOKEN")

consumeAny(p, types) ==
  IF check(p, types) THEN advance(p) ELSE err(p, "SYN_UNEXPECTED_TOKEN")
-----------------------------------------------------------------------------
(***************************************************************************)
(* Symbol tables: a sequence of scopes, the innermost last.  A symbol is   *)
(* [n, k, t, g]: name, kind, type and, for a type, its gender.             *)
(***************************************************************************)
Symbol(n, k, t, g) == [n |-> n, k |-> k, t |-> t, g |-> g]

TypeKinds == {"type", "generic"}

Visible(p, n) ==
  {i \in DOMAIN p.scopes : \E s \in p.scopes[i] : s.n = n}

LookupIn(scopes, n) == CHOOSE s \in scopes : s.n = n

Lookup(p, n) == LookupIn(p.scopes[Max(Visible(p, n))], n)

LookupType(p, n) == Visible(p, n) # {} /\ Lookup(p, n).k \in TypeKinds

\* a type alias is a type of its own name that knows what it stands for
TypeAlias(n, t, g) == [n |-> n, k |-> "type", t |-> <<n>>, g |-> g, is |-> t]

IsTypeAlias(p, n) == LookupType(p, n) /\ "is" \in DOMAIN Lookup(p, n)

\* GetUnderlying, where an alias is known by its name
WithoutAlias(p, t) ==
  IF t # << >> /\ IsTypeAlias(p, t[Len(t)]) THEN SubSeq(t, 1, Len(t) - 1) \o Lookup(p, t[Len(t)]).is ELSE t

newScope(p, symbols) == [p EXCEPT !.scopes = Append(@, symbols)]

exitScope(p) == [p EXCEPT !.scopes = SubSeq(@, 1, Len(@) - 1)]

Declared(p, n) == \E s \in p.scopes[Len(p.scopes)] : s.n = n

\* a name that exists in the scope keeps its declaration
InsertDecl(p, s) ==
  IF Declared(p, s.n) THEN p ELSE [p EXCEPT !.scopes[Len(p.scopes)] = @ \cup {s}]

IsGlobalScope(p) == Len(p.scopes) = 1
-----------------------------------------------------------------------------
Gender(p, t) ==
  CASE Head(t) \in {"Zahl", "Kommazahl", "Variable", "Liste"}       -> "FEMININ"
    [] Head(t) \in {"Byte", "Wahrheitswert", "Buchstabe", "Text", "T"} -> "MASKULIN"
    [] OTHER                                                        -> Lookup(p, Head(t)).g

\* a type parameter matches every gender, also when it stands for a type; p is after the type
MatchesGender(p, t, genders) ==
  \/ IsGeneric(t)
  \/ LookupType(p, previous(p).w) /\ Lookup(p, previous(p).w).g = "instantiated"
  \/ Gender(p, t) \in genders

genderFromArticle(article, isField) ==
  CASE isField /\ article = "DEM"   -> "MASKULIN"
    [] isField /\ article = "DER"   -> "FEMININ"
    [] ~ isField /\ article = "DER" -> "MASKULIN"
    [] ~ isField /\ article = "DIE" -> "FEMININ"
    [] ~ isField /\ article = "DAS" -> "NEUTRUM"
    [] OTHER                        -> "INVALID"

genderFromForPronoun(pronoun) ==
  CASE pronoun = "JEDEN" -> "MASKULIN"
    [] pronoun = "JEDE"  -> "FEMININ"
    [] pronoun = "JEDES" -> "NEUTRUM"
    [] OTHER             -> "INVALID"

genderFromArticle2Akkusativ(article) ==
  CASE article = "EINEN" -> "MASKULIN"
    [] article = "EINE"  -> "FEMININ"
    [] article = "EIN"   -> "NEUTRUM"
    [] OTHER             -> "INVALID"

genderFromArticle2Dativ(article) ==
  CASE article = "EINEM" -> {"MASKULIN", "NEUTRUM"}
    [] article = "EINER" -> {"FEMININ"}
    [] OTHER             -> {"INVALID"}
=============================================================================
