------------------------------- MODULE Parser -------------------------------
(***************************************************************************)
(* The parser run on the tokens of a module.                               *)
(***************************************************************************)
EXTENDS ParserReference

CONSTANT Programs   \* records [toks, intact]

vars == exprVars

Init ==
  /\ \E program \in Programs : parser = newParser(program, {}, {}, << >>)
  /\ todo = <<Item("module")>>
  /\ nodes = << >>

Done == todo = << >> /\ UNCHANGED vars

Next == DeclStep \/ Done

Spec == Init /\ [][Next]_vars

\* the parser runs until nothing is left to do
FairSpec == Spec /\ (<>[](todo = << >>) \/ []<><<TRUE>>_vars)
-----------------------------------------------------------------------------
Ended == todo = << >>

Accepted == Ended /\ ~ parser.errored /\ ~ parser.crashed

\* A program that follows the grammar and the rules for names is accepted: neither the
\* lookahead of the type and expression parsers, nor the candidates that checkAlias
\* gives up, nor the panic mode of an earlier statement reports an error for it.
AcceptsCorrect == Ended /\ parser.source.intact => Accepted

\* The AST of an accepted program, printed again, is exactly the tokens that were given,
\* and its operators nest by the precedence of expressions.go: no token was skipped by
\* matchAny, consumeSeq or synchronize, none was used for two nodes.
Understood ==
  Accepted => /\ SameText(TokensOf(PrintProgram(parser, nodes)), parser.source.toks)
              /\ \A i \in DOMAIN nodes : Precedes(nodes[i])

\* In an accepted AST every name is declared before its use in an open scope and once per
\* scope, breaks and continues are in loops, returns in functions that return something,
\* and functions that do end in a return (resolver.go, ensureReturnStatementPresent).
WellFormed == Accepted => ObeyAll(parser, Env, nodes)

\* The last tokens are those of a reference to a list, without the word REFERENZ.
EndsInListen(toks) ==
  /\ Len(toks) > 1 /\ Type(toks[Len(toks)]) = "LISTEN"
  /\ Type(toks[Len(toks) - 1]) \in {"BYTE", "WAHRHEITSWERT", "TEXT"}

\* The parser does not panic on a nil type, a nil statement or a token behind the end,
\* also after errors and on programs that end in the middle, except right after LISTEN
\* (panic handlers of error.go; README, Findings, has this and three other programs).
NoCrash == parser.crashed => EndsInListen(parser.source.toks)

\* Whatever advance, decrease and the loops do, p.cur stays on a token or just behind the
\* last one.  No path leaves a loop or scope it did not enter, and when parse returns,
\* also after errors, every loop, scope and function that was entered was left:
\* p.LoopDepth, p.resolver.CurrentTable and p.currentFunction are as before.
Balanced ==
  /\ parser.cur \in 1..(Len(parser.toks) + 1)
  /\ parser.LoopDepth \in Nat
  /\ Len(parser.scopes) > 0
  /\ Ended /\ ~ parser.crashed => parser.LoopDepth = 0 /\ Len(parser.scopes) = 1 /\ parser.currentFunction = "none"

\* No BadExpr, BadStmt or BadDecl is part of an accepted AST: the errors that
\* expressionOrErr collects and that panicMode suppresses belong to one that is reported.
ErrorsReported == Accepted => \A i \in DOMAIN nodes : ~ HasBad(nodes[i])

\* parse returns: every turn of the loops of parse, blockStatement and synchronize, and
\* every try of the next alias candidate, gets closer to the end of the tokens.
Ends == <>(todo = << >>)
=============================================================================
