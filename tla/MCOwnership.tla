---------------------------- MODULE MCOwnership ----------------------------
(***************************************************************************)
(* Expressions: every expression over texts and lists of nesting depth two *)
(* as initial value, assigned value, argument, operand and result.         *)
(*                                                                         *)
(* Control flow: every way of leaving a block, a branch or a loop, alone   *)
(* and inside a second loop, while variables and temporaries are alive in  *)
(* each of the scopes that are left.                                       *)
(***************************************************************************)
EXTENDS DDPAst, Machine, TLC

idSig == Sig("id", <<Value("p", TRUE)>>, TRUE)
catSig == Sig("cat", <<Value("p", FALSE), Value("q", TRUE)>>, TRUE)
setSig == Sig("set", <<Ref("r"), Value("p", TRUE)>>, FALSE)
extSig == Extern("ext", <<Value("p", FALSE), Number("n")>>, TRUE)

Helpers == {
  Fun(idSig, <<Return(Id("p"))>>),
  Fun(catSig, <<Assign("p", Cat(Id("p"), Id("q"), "l")), Return(Id("p"))>>),
  Fun(setSig, <<Assign("r", Cat(Id("p"), Lit, "l"))>>)}

(* The values of F on a sequence, and on the pairs of two sequences. *)
Each(F(_), A) == [i \in DOMAIN A |-> F(A[i])]
Each2(F(_, _), A, B) ==
  [i \in 1 .. Len(A) * Len(B) |-> F(A[(i - 1) \div Len(B) + 1], B[((i - 1) % Len(B)) + 1])]

(* t and u are texts, l is a list of texts, k a Kombination, a a Variable  *)
(* that holds a text                                                       *)
Texts0 == <<Lit, EmptyLit, Id("t")>>
Lists0 == <<ListOf(<< >>), ListOf(<<Lit, Id("u")>>), Id("l")>>

Texts1 == Texts0
  \o Each2(LAMBDA a, b : Cat(a, b, "l"), Texts0, <<Lit, Id("u")>>)
  \o Each(LAMBDA a : Cat(Prim, a, "r"), Texts0)
  \o Each(ElementOf, Lists0)
  \o Each2(LAMBDA a, b : Falls(a, Prim, b), Texts0, Texts0)
  \o Each(SliceOf, Texts0) \o <<IndexOf("l"), FieldOf("k"), FromAny(Id("a")), DefaultOf>>
  \o Each(LAMBDA a : FromAny(ToAny(a)), Texts0) \o <<FromAny(Falls(Id("a"), Prim, ToAny(Id("t"))))>>
  \o Each(LAMBDA a : Call(idSig, <<a>>), Texts0) \o Each(LAMBDA a : Call(extSig, <<a, Prim>>), Texts0)
  \o Each(LAMBDA a : Call(catSig, <<a, a>>), Texts0)

Lists1 == Lists0
  \o Each(LAMBDA a : ListOf(<<a>>), Texts1) \o Each(TimesOf, Texts0)
  \o Each2(LAMBDA a, b : Cat(a, b, "l"), Lists0, <<Lit, Id("l")>>)
  \o Each(LAMBDA a : Cat(Id("t"), a, "r"), Lists0)
  \o Each2(LAMBDA a, b : Falls(a, LenOf(Lit), b), Lists0, Lists0)

Texts2 == Texts1
  \o Each(ElementOf, Lists1)
  \o Each(LAMBDA a : Cat(a, Call(idSig, <<Lit>>), "l"), Texts1)
  \o Each(LAMBDA a : Falls(Call(idSig, <<a>>), And(Prim, LenOf(Cat(Lit, Id("t"), "l"))), Id("u")), Texts1)
  \o Each(LAMBDA a : Call(catSig, <<a, Lit>>), Texts1)
  \o Each(LAMBDA a : Call(extSig, <<a, Binary(a, Lit)>>), Texts1)

Start == <<Var("t", Lit), Var("u", EmptyLit), Var("l", ListOf(<<Lit>>)),
           Var("k", ListOf(<<Prim, Lit>>)), Var("a", ToAny(Lit))>>

Uses(e) ==
  <<Var("x", e), Expr(Call(setSig, <<Id("t"), e>>)), Assign("x", Cat(e, Id("x"), "l")),
    AssignElem("l", Id("x")), Expr(Cat(Id("k"), ListOf(<<Prim, Lit>>), "none"))>>

C == INSTANCE CodeGen

(* @@ makes TLC compile a program only once. *)
Compiled(e, level) == C!compile(Helpers \cup {Main(Start \o Uses(e))}, level) @@ << >>
-----------------------------------------------------------------------------
fSig == Sig("f", <<Value("p", FALSE), Ref("r"), Value("c", TRUE)>>, TRUE)

(* Temporaries in the scope of the statement, and a condition with one. *)
Temp == Expr(Call(idSig, <<Cat(Lit, Id("c"), "l")>>))
Cond == LenOf(Cat(Id("v"), Lit, "l"))

Jumps == {Break, Continue, Return(Id("v"))}
Leaves == Jumps \cup {Return(Cat(Id("p"), Lit, "l")),
           Assign("r", Id("c")), Assign("p", Call(idSig, <<Id("v")>>))}

Branch(s) == Block(<<Var("w", Lit), s>>)
Ifs(s) == {If(Cond, Branch(s), None), If(Prim, Branch(s), Block(<<Assign("v", Id("c"))>>)),
           If(Prim, Branch(Temp), Branch(s))}
Body(s) == Block(<<Var("z", Lit), Temp, s, Expr(LenOf(Id("z")))>>)

(* A loop whose header has no temporaries that live until the loop ends;   *)
(* in ForRange they are those of the expression it claims.                 *)
Loops(b) == {
  While(LenOf(Id("v")), b), DoWhile(Prim, b), Repeat(LenOf(Cat(Lit, Lit, "l")), b),
  For("i", Prim, Prim, LenOf(Id("v")), b),
  ForRange("e", TRUE, ListOf(<<Lit, Id("p")>>), b), ForRange("e", TRUE, Id("l"), b),
  ForRange("e", FALSE, Cat(Id("c"), Prim, "l"), b)}

OneLoop == UNION {Loops(Body(s)) : s \in UNION {Ifs(j) : j \in Leaves}}
  \cup {Repeat(Prim, Temp), Repeat(Prim, Assign("v", Cat(Id("v"), Lit, "l")))}

TwoLoops ==
  UNION {Loops(Block(<<inner, If(Prim, Branch(Break), None), Temp>>)) :
           inner \in UNION {Loops(Body(If(Prim, Branch(j), None))) : j \in Jumps}}

NoLoop == {If(Cond, Branch(Return(Id("c"))), Block(<<Var("w", Id("p")), Return(Id("w"))>>)),
           If(Cond, Branch(Return(Id("p"))), If(Cond, Branch(Return(Lit)), None)),
           Block(<<Var("w", Id("p")), If(Prim, Branch(Return(Id("w"))), None), Assign("r", Id("w"))>>)}

f(s) == Fun(fSig, <<Var("v", Lit), Var("l", ListOf(<<Lit>>)), Temp, s, Return(Id("v"))>>)
id == Fun(idSig, <<Return(Id("p"))>>)
main == Main(<<Var("x", Lit), Var("y", Lit),
               Assign("y", Call(fSig, <<Id("x"), Id("x"), Id("y")>>)), Expr(LenOf(Id("x")))>>)

Flows == NoLoop \cup OneLoop \cup TwoLoops
CompiledFlow(s, level) == C!compile({main, id, f(s)}, level) @@ << >>

(* Every program for the optimization levels 1 and 2. *)
Programs == ({"expr"} \X ((1 .. Len(Texts2)) \X {1, 2})) \cup ({"flow"} \X (Flows \X {1, 2}))
AllCode ==
  [p \in Programs |-> IF p[1] = "expr" THEN Compiled(Texts2[p[2][1]], p[2][2]) ELSE CompiledFlow(p[2][1], p[2][2])] @@ << >>
MCCode == AllCode

(* A break out of a branch in two loops takes three branches. *)
MCMaxBranch(p) == IF p[1] = "expr" THEN 2 ELSE 3
=============================================================================
