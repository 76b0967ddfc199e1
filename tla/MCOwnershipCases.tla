-------------------------- MODULE MCOwnershipCases --------------------------
(***************************************************************************)
(* Programs on which the emitted code does not keep the ownership rules    *)
(* that the comments of the compiler and of the runtime state.  Each is    *)
(* the smallest program of its kind; Case selects one of them.             *)
(***************************************************************************)
EXTENDS DDPAst, Machine, TLC

CONSTANTS Case, optimizationLevel

C == INSTANCE CodeGen

(* Für jede Zahl i von (die Länge von "a") bis 3: fahre fort. *)
ForContinue == {Main(<<For("i", LenOf(Lit), Prim, Prim, Block(<<Continue>>))>>)}

(* Für jeden Text e in l: Gib e zurück. *)
gSig == Sig("g", <<Value("l", TRUE)>>, TRUE)
ForRangeReturn == {
  Fun(gSig, <<ForRange("e", TRUE, Id("l"), Block(<<Return(Id("e"))>>)), Return(Lit)>>),
  Main(<<Var("x", Call(gSig, <<ListOf(<<Lit>>)>>))>>)}

(* A block in a block that ends with a return statement. *)
BlockReturn == {
  Fun(gSig, <<Block(<<Var("v", Lit), Block(<<Return(Id("v"))>>)>>), Return(Lit)>>),
  Main(<<Var("x", Call(gSig, <<ListOf(<<Lit>>)>>))>>)}

(* Solange (die Länge von "a") größer als 0 ist: ... *)
WhileCondition == {Main(<<While(LenOf(Lit), Block(<< >>))>>)}

(* Mache: verlasse die Schleife. Solange (die Länge von "a") ... *)
DoWhileBreak == {Main(<<DoWhile(LenOf(Lit), Block(<<Break>>))>>)}

(* Speichere x in x. *)
SelfAssign == {Main(<<Var("x", Lit), Assign("x", Id("x"))>>)}

(* h(r, p): Speichere "b" in r. Speichere p in r.  Called with h(x, x). *)
hSig == Sig("h", <<Ref("r"), Value("p", TRUE)>>, FALSE)
ConstAlias == {
  Fun(hSig, <<Assign("r", Lit), Assign("r", Id("p"))>>),
  Main(<<Var("x", Lit), Expr(Call(hSig, <<Id("x"), Id("x")>>))>>)}

(* 1, falls wahr, ansonsten die Länge von "a" *)
FallsPrimitive == {Main(<<Var("n", Falls(Prim, Prim, LenOf(Lit)))>>)}

Cases == [ForContinue |-> ForContinue, ForRangeReturn |-> ForRangeReturn,
          BlockReturn |-> BlockReturn, WhileCondition |-> WhileCondition,
          DoWhileBreak |-> DoWhileBreak, SelfAssign |-> SelfAssign,
          ConstAlias |-> ConstAlias, FallsPrimitive |-> FallsPrimitive]

AllCode == <<C!compile(Cases[Case], optimizationLevel)>>
MCCode == AllCode
MCMaxBranch(p) == 2
=============================================================================
