---------------------------- MODULE TypingProofs ----------------------------
(***************************************************************************)
(* Proofs about Typing, for all types, fields and overloads that satisfy   *)
(* the assumptions of DDPTypes, Overloads and Typing.  The overload that   *)
(* is chosen is the best one (OverloadsAreBest).  Where the known          *)
(* divergences are left out (Agreed), the code generator agrees with the   *)
(* typechecker: OperatorProofs has the lemmas about each operator, and the *)
(* invariant SoundInv carries them to all programs.                        *)
(***************************************************************************)
EXTENDS Typing, OperatorProofs
-----------------------------------------------------------------------------
(***************************************************************************)
(* The choice of an overload.                                              *)
(***************************************************************************)
\* A step declares an overload, pushes an operand, applies an operation or calls an overload.
LEMMA StepKinds ==
  Step => \/ \E d \in OverloadDecls : DeclareOverload(d)
          \/ \E e : Push(e)
          \/ \E n, es, o : Yield(n, es, o)
          \/ \E op \in Ops : \E n, t : VisitOverloaded(op, n, t)
<1> USE DEF Ops
<1>1. \A t : VisitIdent(t) => \E e : Push(e)
  BY Zenon DEF VisitIdent
<1>2. \A op, t : VisitTypeOpExpr(op, t) => \E e : Push(e)
  BY Zenon DEF VisitTypeOpExpr
<1>3. \A op : VisitUnaryExpr(op) => \E n, es, o : Yield(n, es, o)
  BY Zenon DEF VisitUnaryExpr
<1>4. \A op : VisitBinaryExpr(op) => \E n, es, o : Yield(n, es, o)
  BY Zenon DEF VisitBinaryExpr
<1>5. \A op : VisitTernaryExpr(op) => \E n, es, o : Yield(n, es, o)
  BY Zenon DEF VisitTernaryExpr
<1>6. \A f : VisitFieldAccess(f) => \E n, es, o : Yield(n, es, o)
  BY Zenon DEF VisitFieldAccess
<1>7. \A t : VisitCastExpr(t) \/ VisitCastAssigneable(t) \/ VisitTypeCheck(t)
             => \E n, es, o : Yield(n, es, o)
  BY Zenon DEF VisitCastExpr, VisitCastAssigneable, VisitTypeCheck
<1>8. \A n : VisitListLit(n) => \E k, es, o : Yield(k, es, o)
  BY Zenon DEF VisitListLit
<1>9. \A s, f, given : VisitStructLiteral(s, f, given) => \E n, es, o : Yield(n, es, o)
  BY Zenon DEF VisitStructLiteral
<1>10. \A t : VisitVarDecl(t) \/ VisitReturnStmt(t) \/ VisitForRangeStmt(t)
              => \E n, es, o : Yield(n, es, o)
  BY Zenon DEF VisitVarDecl, VisitReturnStmt, VisitForRangeStmt
<1>11. VisitAssignStmt \/ VisitWhileStmt \/ VisitForStmt => \E n, es, o : Yield(n, es, o)
  BY Zenon DEF VisitAssignStmt, VisitWhileStmt, VisitForStmt
<1>12. \A t, ref : VisitFuncCall(t, ref) => \E n, es, o : Yield(n, es, o)
  BY Zenon DEF VisitFuncCall
<1> QED
  BY <1>1, <1>2, <1>3, <1>4, <1>5, <1>6, <1>7, <1>8, <1>9, <1>10, <1>11, <1>12, Zenon DEF Step

\* The overloads of every operator, as parser.go keeps them.
OverloadsInv ==
  /\ operators \in [Ops -> Seq(OverloadDecls)]
  /\ \A op \in Ops : Sorted(operators[op])
  /\ \A k \in DOMAIN latest.choice : latest.choice[k].op \in Ops
  /\ BestOverload

\* Every insertion of parser.go keeps the overloads sorted, and every search finds the best.
LEMMA OverloadsInvariance == Spec => []OverloadsInv
<1>1. Init => OverloadsInv
  <2> SUFFICES ASSUME Init PROVE OverloadsInv
    BY Zenon
  <2>1. operators = [op \in Ops |-> << >>] /\ latest.choice = << >>
    BY Zenon DEF Init, Compiled
  <2>2. operators \in [Ops -> Seq(OverloadDecls)] /\ \A op \in Ops : Sorted(operators[op])
    BY <2>1 DEF Sorted
  <2>3. DOMAIN latest.choice = {}
    BY <2>1
  <2> QED
    BY Zenon, <2>2, <2>3 DEF OverloadsInv, BestOverload
<1>2. OverloadsInv /\ [Next]_vars => OverloadsInv'
  <2> SUFFICES ASSUME OverloadsInv, [Next]_vars PROVE OverloadsInv'
    BY Zenon
  <2>1. CASE UNCHANGED vars
    BY Zenon, <2>1 DEF vars, OverloadsInv, BestOverload
  <2>2. ASSUME operators' = operators, latest'.choice = << >>
        PROVE  OverloadsInv'
    <3>1. DOMAIN latest'.choice = {}
      BY <2>2
    <3> QED
      BY Zenon, <2>2, <3>1 DEF OverloadsInv, BestOverload
  <2>3. ASSUME NEW d \in OverloadDecls, DeclareOverload(d)
        PROVE  OverloadsInv'
    <3>1. /\ operators' = [operators EXCEPT ![d.op] = insertOperatorOverload(d.op, operators[d.op], d)]
          /\ latest'.choice = << >>
      BY <2>3, Zenon DEF DeclareOverload, Compiled
    <3>2. d.op \in Ops
      BY Zenon, DeclsAssumption
    <3>3. /\ insertOperatorOverload(d.op, operators[d.op], d) \in Seq(OverloadDecls)
          /\ Sorted(insertOperatorOverload(d.op, operators[d.op], d))
      BY Zenon, <3>2, InsertKeepsSorted DEF OverloadsInv
    <3>4. DOMAIN latest'.choice = {}
      BY <3>1
    <3>5. operators' \in [Ops -> Seq(OverloadDecls)] /\ \A op \in Ops : Sorted(operators'[op])
      BY Zenon, <3>1, <3>2, <3>3 DEF OverloadsInv
    <3> QED
      BY Zenon, <3>4, <3>5 DEF OverloadsInv, BestOverload
  <2>4. ASSUME NEW e, Push(e)
        PROVE  OverloadsInv'
    <3>1. operators' = operators /\ latest'.choice = << >>
      BY <2>4, Zenon DEF Push, Compiled
    <3> QED
      BY Zenon, <2>2, <3>1
  <2>5. ASSUME NEW n, NEW es, NEW o, Yield(n, es, o)
        PROVE  OverloadsInv'
    <3>1. operators' = operators /\ latest'.choice = << >>
      BY <2>5, Zenon DEF Yield, Compiled
    <3> QED
      BY Zenon, <2>2, <3>1
  <2>6. ASSUME NEW op \in Ops, NEW n, NEW t, VisitOverloaded(op, n, t)
        PROVE  OverloadsInv'
    <3> DEFINE c(i) == [op |-> op, operands |-> Operands(n), target |-> Target(op, t), i |-> i]
    <3>a. PICK inst \in BOOLEAN : \E i :
            /\ i = findOverload(operators[op], Operands(n), Target(op, t), inst) /\ i # 0
            /\ OverloadedExpr(op, n, t, i, operators[op][i])
      BY <2>6, Zenon DEF VisitOverloaded, Overload
    <3>1. PICK i :
            /\ i = findOverload(operators[op], Operands(n), Target(op, t), inst) /\ i # 0
            /\ OverloadedExpr(op, n, t, i, operators[op][i])
      BY Zenon, <3>a
    <3>2. operators' = operators /\ latest'.choice = <<c(i)>>
      BY <3>1, Zenon DEF OverloadedExpr, Compiled
    <3>3. operators[op] \in Seq(OverloadDecls) /\ Sorted(operators[op])
      BY Zenon DEF OverloadsInv
    <3>4. /\ i \in DOMAIN operators[op]
          /\ \A j \in DOMAIN operators[op] :
               Matches(operators[op][j], Operands(n), Target(op, t)) => i <= j
      BY Zenon, <3>1, <3>3, FindReturnsFirst
    <3>5. \A j \in DOMAIN operators[op] :
            Matches(operators[op][j], Operands(n), Target(op, t)) =>
              Compare(operators[op][i], operators[op][j]) <= 0
      BY Zenon, <3>3, <3>4 DEF Sorted
    <3>6. DOMAIN latest'.choice = {1} /\ latest'.choice[1] = c(i)
      BY <3>2
    <3>7. /\ c(i).op = op /\ c(i).operands = Operands(n) /\ c(i).target = Target(op, t)
          /\ c(i).i = i
      BY Zenon
    <3> HIDE DEF c
    <3>8. ASSUME NEW k \in DOMAIN latest'.choice
          PROVE  /\ latest'.choice[k].op = op /\ latest'.choice[k].operands = Operands(n)
                 /\ latest'.choice[k].target = Target(op, t) /\ latest'.choice[k].i = i
      BY Zenon, <3>6, <3>7
    <3>9. BestOverload'
      BY <3>2, <3>5, <3>8, Zenon DEF BestOverload
    <3> QED
      BY Zenon, <3>2, <3>8, <3>9 DEF OverloadsInv
  <2>7. CASE Next
    <3>1. Step
      BY Zenon, <2>7 DEF Next
    <3> QED
      BY <2>3, <2>4, <2>5, <2>6, <3>1, StepKinds, Zenon
  <2> QED
    BY Zenon, <2>1, <2>7
<1> QED
  BY <1>1, <1>2, PTL DEF Spec

\* findOverload may stop at the first generic overload: whatever overloads a program declares,
\* in whatever order, the one it returns is the best one that matches.
THEOREM OverloadsAreBest == Spec => []BestOverload
<1>1. OverloadsInv => BestOverload
  BY Zenon DEF OverloadsInv
<1> QED
  BY <1>1, OverloadsInvariance, PTL
-----------------------------------------------------------------------------
(***************************************************************************)
(* Type soundness.  Every entry of the stack has a type of values, the IR  *)
(* type belongs to it, a reference leads to storage of that type or to a   *)
(* character of a text, and the value in a Variable has its vtable.        *)
(***************************************************************************)
IrTypeSet == {<<b>> : b \in Scalars} \cup {ListOf(<<b>>) : b \in Scalars}

Entries == [t : Storable, ir : IrTypeSet, asg : {"ref", "expr", "no"}, loc : IrTypeSet \cup {Void},
            of : Storable \cup {Void}, tag : DDPType]

GoodEntries ==
  {e \in Entries : /\ e.ir = toIrType(e.t)
                   /\ e.asg = "ref" => e.loc = e.ir \/ (e.loc = Void /\ e.ir = BUCHSTABE)
                   /\ e.of # Void => e.tag = VTable(e.of)}

StackInv == stack \in Seq(GoodEntries)

LatestInv == ~ latest.err /\ latest.wf /\ latest.conv \subseteq Faithful

DeclsInv ==
  /\ operators \in [Ops -> Seq(OverloadDecls)]
  /\ \A op \in Ops : \A i \in DOMAIN operators[op] : operators[op][i].op = op

SoundInv == StackInv /\ LatestInv /\ DeclsInv

\* toIrType and the vtables stay among the types.
LEMMA IrTypesOfEntries ==
  ASSUME NEW t \in Storable
  PROVE  /\ toIrType(t) \in IrTypeSet /\ toIrType(t) \in DDPType
         /\ VTable(t) \in DDPType /\ t \in DDPType
         /\ ~ IsTypeDef(t) => VTable(t) = toIrType(t)
<1> DEFINE ir == toIrType(t)
<1>1. IrForm(ir) /\ t \in DDPType
  BY Zenon, IrTypeForms, BasicValues
<1> HIDE DEF ir
<1>2. ir \in IrTypeSet
  <2>1. CASE Head(ir) \in Scalars /\ ir = <<Head(ir)>>
    BY Zenon, <2>1 DEF IrTypeSet
  <2>2. CASE Head(Tail(ir)) \in Scalars /\ Tail(ir) = <<Head(Tail(ir))>> /\ ir = ListOf(Tail(ir))
    BY <2>2, Zenon DEF IrTypeSet
  <2> QED
    BY Zenon, <1>1, <2>1, <2>2 DEF IrForm
<1>3. \A b \in Scalars : <<b>> \in DDPType /\ ListOf(<<b>>) \in DDPType
  BY Zenon, ScalarsAreValueTypes, TypeSequences
<1>4. ir \in DDPType
  BY Zenon, <1>2, <1>3 DEF IrTypeSet
<1>5. VTable(t) = IF IsTypeDef(t) THEN Underlying[t] ELSE ir
  BY Zenon DEF VTable, GetUnderlying, ir
<1>6. Underlying[t] \in DDPType
  BY Zenon, <1>1, UnderlyingFacts
<1> QED
  BY Zenon, <1>1, <1>2, <1>4, <1>5, <1>6 DEF ir

\* What the invariant says of one entry.
LEMMA EntryFacts ==
  ASSUME NEW e \in GoodEntries
  PROVE  /\ e.t \in Storable /\ e.ir = toIrType(e.t) /\ e.ir \in IrTypeSet
         /\ e.asg \in {"ref", "expr", "no"} /\ e.loc \in IrTypeSet \cup {Void}
         /\ e.of \in Storable \cup {Void} /\ e.tag \in DDPType
         /\ e.asg = "ref" => e.loc = e.ir \/ (e.loc = Void /\ e.ir = BUCHSTABE)
         /\ e.of # Void => e.tag = VTable(e.of)
<1>1. e \in Entries /\ e.ir = toIrType(e.t)
  BY Zenon DEF GoodEntries
<1>2. /\ e.asg = "ref" => e.loc = e.ir \/ (e.loc = Void /\ e.ir = BUCHSTABE)
      /\ e.of # Void => e.tag = VTable(e.of)
  BY Zenon DEF GoodEntries
<1>3. /\ e.t \in Storable /\ e.ir \in IrTypeSet
      /\ e.asg \in {"ref", "expr", "no"} /\ e.loc \in IrTypeSet \cup {Void}
      /\ e.of \in Storable \cup {Void} /\ e.tag \in DDPType
  BY <1>1, Zenon DEF Entries
<1> QED
  BY <1>1, <1>2, <1>3, Zenon

\* The entries that the visitors push.
LEMMA EntriesAreGood ==
  ASSUME NEW t \in Storable
  PROVE  /\ \A asg \in {"ref", "expr", "no"}, loc \in IrTypeSet \cup {Void} :
              (asg = "ref" => loc = toIrType(t) \/ (loc = Void /\ toIrType(t) = BUCHSTABE))
                => Entry(t, toIrType(t), asg, loc) \in GoodEntries
         /\ Temp(t, toIrType(t)) \in GoodEntries
         /\ NewVar(t) \in GoodEntries
<1> DEFINE ir == toIrType(t)
<1>1. ir \in IrTypeSet
  BY Zenon, IrTypesOfEntries
<1>2. Void \in DDPType
  BY DEF Void, DDPType, Constructors
<1> HIDE DEF ir
<1>3. ASSUME NEW asg \in {"ref", "expr", "no"}, NEW loc \in IrTypeSet \cup {Void},
             asg = "ref" => loc = ir \/ (loc = Void /\ ir = BUCHSTABE)
      PROVE  Entry(t, ir, asg, loc) \in GoodEntries
  <2> DEFINE e == Entry(t, ir, asg, loc)
  <2>1. /\ e.t = t /\ e.ir = ir /\ e.asg = asg /\ e.loc = loc /\ e.of = Void /\ e.tag = Void
    BY Zenon DEF Entry
  <2>2. e \in Entries
    BY <1>1, <1>2, Zenon DEF Entry, Entries
  <2> HIDE DEF e
  <2>3. e \in GoodEntries
    BY Zenon, <1>3, <2>1, <2>2 DEF GoodEntries, ir
  <2> QED
    BY Zenon, <2>3 DEF e
<1>4. Temp(t, ir) \in GoodEntries
  BY <1>3, Zenon DEF Temp
<1>5. NewVar(t) \in GoodEntries
  BY <1>1, <1>3, Zenon DEF NewVar, ir
<1> QED
  BY Zenon, <1>3, <1>4, <1>5 DEF ir

\* A value packed into a Variable together with its vtable.
LEMMA PackedIsGood ==
  ASSUME NEW e \in GoodEntries, NEW of \in Storable \cup {Void}, NEW tag \in DDPType,
         of # Void => tag = VTable(of)
  PROVE  Packed(e, of, tag) \in GoodEntries
<1> DEFINE p == Packed(e, of, tag)
<1>1. e \in Entries
  BY Zenon DEF GoodEntries
<1>2. /\ p.t = e.t /\ p.ir = e.ir /\ p.asg = e.asg /\ p.loc = e.loc /\ p.of = of /\ p.tag = tag
      /\ p \in Entries
  BY <1>1, Zenon DEF Packed, Entries
<1> HIDE DEF p
<1>3. p \in GoodEntries
  BY Zenon, <1>2, EntryFacts DEF GoodEntries
<1> QED
  BY Zenon, <1>3 DEF p

\* The operands on the stack.
LEMMA OperandFacts ==
  ASSUME StackInv, NEW n \in 1..3, Len(stack) >= n
  PROVE  /\ Below(n) \in Seq(GoodEntries)
         /\ DOMAIN T(n) = 1..n /\ DOMAIN Ir(n) = 1..n
         /\ \A i \in 1..n : /\ Args(n)[i] = Top(n + 1 - i) /\ Args(n)[i] \in GoodEntries
                            /\ T(n)[i] = Args(n)[i].t /\ Ir(n)[i] = Args(n)[i].ir
<1> DEFINE k == Len(stack)
<1>1. stack \in Seq(GoodEntries) /\ k \in Nat /\ k >= n
  BY DEF StackInv
<1> HIDE DEF k
<1>2. Below(n) \in Seq(GoodEntries)
  BY <1>1 DEF Below, k
<1>3. ASSUME NEW i \in 1..n
      PROVE  Args(n)[i] = stack[k + i - n]
  <2> DEFINE m == k + 1 - n
  <2>1. m \in 1..k /\ i \in 1..(k - m + 1) /\ m + i - 1 = k + i - n
    BY <1>1
  <2>2. Args(n) = SubSeq(stack, m, k) /\ k = Len(stack)
    BY DEF Args, k
  <2> HIDE DEF m
  <2>3. m \in 1..(k + 1) /\ k \in (m - 1)..k /\ m \in Int
    BY <1>1, <2>1
  <2>4. SubSeq(stack, m, k)[i] = stack[m + i - 1]
    BY <1>1, <2>1, <2>2, <2>3, SMTT(30)
  <2> QED
    BY <2>1, <2>2, <2>4, Zenon
<1>4. ASSUME NEW i \in 1..n
      PROVE  Args(n)[i] = Top(n + 1 - i) /\ Args(n)[i] \in GoodEntries
  <2>1. k + 1 - (n + 1 - i) = k + i - n /\ k + i - n \in 1..k
    BY <1>1
  <2> QED
    BY <1>1, <1>3, <2>1 DEF Top, k
<1> QED
  BY Zenon, <1>2, <1>4 DEF T, Ir

\* What is left of a right outcome in latest.
LEMMA LatestOutcome ==
  ASSUME NEW o, Right(o)
  PROVE  LET c == Compiled(o) IN ~ c.err /\ c.wf /\ c.conv \subseteq Faithful
<1> DEFINE c == Compiled(o)
<1>1. c.err = o.err /\ c.wf = (o.wf /\ o.rep = o.typ) /\ c.conv = o.conv
  BY Zenon DEF Compiled
<1> QED
  BY <1>1, Zenon DEF Right

\* A new operand keeps the invariant.
LEMMA PushSound ==
  ASSUME SoundInv, NEW e \in GoodEntries, Push(e)
  PROVE  SoundInv'
<1>1. Right(Value(e.ir))
  BY Zenon, EntryFacts, RightOutcomes DEF Agrees
<1>2. stack' \in Seq(GoodEntries)
  BY DEF Push, SoundInv, StackInv
<1>3. latest' = Compiled(Value(e.ir)) /\ operators' = operators
  BY Zenon DEF Push
<1>4. ~ latest'.err /\ latest'.wf /\ latest'.conv \subseteq Faithful
  BY Zenon, <1>1, <1>3, LatestOutcome
<1> QED
  BY Zenon, <1>2, <1>3, <1>4 DEF SoundInv, StackInv, LatestInv, DeclsInv

\* An operation that is compiled right and leaves good entries keeps the invariant.
LEMMA YieldSound ==
  ASSUME SoundInv, NEW n \in 1..3, Len(stack) >= n, NEW entries \in Seq(GoodEntries),
         NEW o, Right(o), Yield(n, entries, o)
  PROVE  SoundInv'
<1>1. Below(n) \in Seq(GoodEntries)
  BY Zenon, OperandFacts DEF SoundInv
<1>2. stack' \in Seq(GoodEntries)
  BY <1>1 DEF Yield
<1>3. latest' = Compiled(o) /\ operators' = operators
  BY Zenon DEF Yield
<1>4. ~ latest'.err /\ latest'.wf /\ latest'.conv \subseteq Faithful
  BY Zenon, <1>3, LatestOutcome
<1> QED
  BY Zenon, <1>2, <1>3, <1>4 DEF SoundInv, StackInv, LatestInv, DeclsInv

\* The operands of an operation, with their types.
LEMMA Tops ==
  ASSUME SoundInv, NEW n \in 1..3, Len(stack) >= n
  PROVE  /\ \A i \in 1..n : /\ Top(i) \in GoodEntries /\ Top(i).t \in Storable
                            /\ Top(i).ir = toIrType(Top(i).t)
         /\ DOMAIN T(n) = 1..n /\ DOMAIN Ir(n) = 1..n
         /\ \A i \in 1..n : T(n)[i] = Top(n + 1 - i).t /\ Ir(n)[i] = Top(n + 1 - i).ir
         /\ n = 1 => T(1)[1] = Top(1).t /\ Args(1)[1] = Top(1)
         /\ n = 2 => T(2)[1] = Top(2).t /\ T(2)[2] = Top(1).t
         /\ n = 3 => T(3)[1] = Top(3).t /\ T(3)[2] = Top(2).t /\ T(3)[3] = Top(1).t
<1>1. /\ DOMAIN T(n) = 1..n /\ DOMAIN Ir(n) = 1..n
      /\ \A i \in 1..n : /\ Args(n)[i] = Top(n + 1 - i) /\ Args(n)[i] \in GoodEntries
                         /\ T(n)[i] = Args(n)[i].t /\ Ir(n)[i] = Args(n)[i].ir
  BY Zenon, OperandFacts DEF SoundInv
<1>2. ASSUME NEW i \in 1..n
      PROVE  Top(i) \in GoodEntries
  <2>1. n + 1 - i \in 1..n /\ n + 1 - (n + 1 - i) = i
    OBVIOUS
  <2> QED
    BY Zenon, <1>1, <2>1
<1>3. \A i \in 1..n : T(n)[i] = Top(n + 1 - i).t /\ Ir(n)[i] = Top(n + 1 - i).ir
  BY Zenon, <1>1
<1>4. n = 1 => T(1)[1] = Top(1).t /\ Args(1)[1] = Top(1)
  BY <1>1
<1>5. n = 2 => T(2)[1] = Top(2).t /\ T(2)[2] = Top(1).t
  BY <1>3
<1>6. n = 3 => T(3)[1] = Top(3).t /\ T(3)[2] = Top(2).t /\ T(3)[3] = Top(1).t
  BY <1>3
<1> QED
  BY Zenon, <1>1, <1>2, <1>3, <1>4, <1>5, <1>6, EntryFacts

\* The last operand.
LEMMA LastTop ==
  ASSUME SoundInv, Len(stack) >= 1
  PROVE  /\ Top(1) \in GoodEntries /\ Top(1).t \in Storable /\ Top(1).ir = toIrType(Top(1).t)
         /\ DOMAIN T(1) = 1..1 /\ T(1)[1] = Top(1).t
  BY Tops

\* VisitIdent.
LEMMA IdentSound ==
  ASSUME SoundInv, NEW t \in Types, VisitIdent(t)
  PROVE  SoundInv'
<1>1. t \in Storable
  BY Zenon, TypesAssumption
<1>2. NewVar(t) \in GoodEntries
  BY Zenon, <1>1, EntriesAreGood
<1> QED
  BY Zenon, <1>2, PushSound DEF VisitIdent

\* VisitTypeOpExpr.
LEMMA TypeOpSound ==
  ASSUME SoundInv, NEW op \in {"TYPE_SIZE", "TYPE_DEFAULT"}, NEW t \in Types, VisitTypeOpExpr(op, t)
  PROVE  SoundInv'
<1> DEFINE s == TC_VisitTypeOpExpr(op, t).typ
<1>1. s = IF op = "TYPE_SIZE" THEN ZAHL ELSE t
  BY Zenon, Answers DEF TC_VisitTypeOpExpr
<1>2. s \in Storable
  BY Zenon, <1>1, TypesAssumption, BasicTypesAreStorable DEF BasicTypes
<1>3. Push(Temp(s, toIrType(s)))
  BY Zenon DEF VisitTypeOpExpr
<1> HIDE DEF s
<1>4. Temp(s, toIrType(s)) \in GoodEntries
  BY Zenon, <1>2, EntriesAreGood
<1> QED
  BY Zenon, <1>3, <1>4, PushSound

\* The operation leaves a temporary of a type that agrees with what is compiled.
LEMMA TemporarySound ==
  ASSUME SoundInv, NEW n \in 1..3, Len(stack) >= n, NEW t, NEW o, Agrees(o, t),
         Yield(n, <<Temp(t, o.typ)>>, o)
  PROVE  SoundInv'
<1>1. t \in Storable /\ o.typ = toIrType(t) /\ Right(o)
  BY Zenon DEF Agrees
<1>2. Temp(t, o.typ) \in GoodEntries
  BY Zenon, <1>1, EntriesAreGood
<1>3. <<Temp(t, o.typ)>> \in Seq(GoodEntries)
  BY <1>2
<1> QED
  BY Zenon, <1>1, <1>3, YieldSound

\* VisitUnaryExpr.
LEMMA UnarySound ==
  ASSUME Agreed, SoundInv, NEW op \in UnaryOps, VisitUnaryExpr(op)
  PROVE  SoundInv'
<1> DEFINE l == Top(1).t
           tc == TC_VisitUnaryExpr(op, l)
           cg == CG_VisitUnaryExpr(op, Top(1).ir)
<1>1. Len(stack) >= 1 /\ tc.ok /\ ~ KnownDivergence(op, T(1)) /\ Yield(1, <<Temp(tc.typ, cg.typ)>>, cg)
  BY Zenon DEF VisitUnaryExpr, Compilable
<1>2. l \in Storable /\ Top(1).ir = toIrType(l) /\ DOMAIN T(1) = 1..1 /\ T(1)[1] = l
  BY Zenon, <1>1, LastTop
<1>3. op \in {"UN_ABS", "UN_NEGATE"} => Underlying[l] # BYTE
  BY <1>1, <1>2, UnaryDivergences
<1>4. Agrees(cg, tc.typ)
  BY Zenon, <1>1, <1>2, <1>3, UnaryAgrees
<1> HIDE DEF cg, tc
<1> QED
  BY <1>1, <1>4, TemporarySound

\* The element of an indexed variable: its location is one of the element's type, or it
\* is a character of a text.
LEMMA ElementIsGood ==
  ASSUME NEW e \in GoodEntries, Indexable(e.t), e.asg # "no"
  PROVE  LET s == IF IsList(e.t) THEN GetListElementType(e.t) ELSE BUCHSTABE
         IN Entry(s, toIrType(s), e.asg, ElementLoc(e)) \in GoodEntries
<1> DEFINE s == IF IsList(e.t) THEN GetListElementType(e.t) ELSE BUCHSTABE
           loc == ElementLoc(e)
<1>1. /\ e.t \in Storable /\ e.ir = toIrType(e.t) /\ e.asg \in {"ref", "expr", "no"}
      /\ e.loc \in IrTypeSet \cup {Void}
      /\ e.asg = "ref" => e.loc = e.ir \/ (e.loc = Void /\ e.ir = BUCHSTABE)
  BY Zenon, EntryFacts
<1>2. \/ IsList(e.t) /\ IsIrList(e.ir)
      \/ ~ IsList(e.t) /\ e.ir = TEXT /\ ~ IsIrList(TEXT)
  BY <1>1, Tests
<1>3. BUCHSTABE \in Storable /\ toIrType(BUCHSTABE) = BUCHSTABE /\ BUCHSTABE # TEXT
  BY Zenon, BasicTypesAreStorable, DistinctTypes DEF BasicTypes
<1>4. ~ IsIrList(BUCHSTABE)
  BY DEF BUCHSTABE, IsIrList
<1>5. IsList(e.t) => /\ s \in Storable /\ Tail(e.ir) = toIrType(s)
  BY Zenon, <1>1, IrTypeOfList
<1>6. s \in Storable
  BY Zenon, <1>3, <1>5
<1>7. loc = IF e.loc # Void /\ IsIrList(e.loc) THEN Tail(e.loc) ELSE Void
  BY Zenon DEF ElementLoc
<1>8. loc \in IrTypeSet \cup {Void}
  <2>1. CASE e.loc # Void /\ IsIrList(e.loc)
    <3>1. e.loc \in IrTypeSet
      BY Zenon, <1>1, <2>1
    <3>2. ASSUME NEW b \in Scalars, e.loc = <<b>>
          PROVE  FALSE
      BY Zenon, <2>1, <3>2, ScalarsAreValueTypes, Words DEF IsIrList
    <3>3. PICK b \in Scalars : e.loc = ListOf(<<b>>)
      BY Zenon, <3>1, <3>2 DEF IrTypeSet
    <3>4. Tail(e.loc) = <<b>>
      BY Zenon, <3>3, ScalarsAreValueTypes, TypeSequences
    <3> QED
      BY Zenon, <1>7, <2>1, <3>4 DEF IrTypeSet
  <2> QED
    BY Zenon, <1>7, <2>1
<1>9. e.asg = "ref" => loc = toIrType(s) \/ (loc = Void /\ toIrType(s) = BUCHSTABE)
  <2> SUFFICES ASSUME e.asg = "ref"
               PROVE  loc = toIrType(s) \/ (loc = Void /\ toIrType(s) = BUCHSTABE)
    BY Zenon
  <2>1. e.loc = e.ir
    BY Zenon, <1>1, <1>2, <1>3, <1>4
  <2>2. CASE IsList(e.t)
    <3>1. IsIrList(e.loc) /\ e.loc # Void
      BY Zenon, <1>1, <1>2, <2>1, <2>2, BasicValues
    <3> QED
      BY Zenon, <1>5, <1>7, <2>1, <2>2, <3>1
  <2>3. CASE ~ IsList(e.t)
    BY Zenon, <1>2, <1>3, <1>7, <2>1, <2>3
  <2> QED
    BY Zenon, <2>2, <2>3
<1> HIDE DEF s, loc
<1>10. Entry(s, toIrType(s), e.asg, loc) \in GoodEntries
  BY Zenon, <1>1, <1>6, <1>8, <1>9, EntriesAreGood
<1> QED
  BY Zenon, <1>10 DEF s, loc

\* VisitBinaryExpr.
LEMMA BinarySound ==
  ASSUME Agreed, SoundInv, NEW op \in BinaryOps, VisitBinaryExpr(op)
  PROVE  SoundInv'
<1> DEFINE l == Top(2).t
           r == Top(1).t
           tc == TC_VisitBinaryExpr(op, l, r)
           cg == CG_VisitBinaryExpr(op, Top(2).ir, Top(1).ir)
           entries == <<BinaryEntry(op, tc.typ, cg.typ)>>
<1>1. /\ Len(stack) >= 2 /\ tc.ok /\ ~ KnownDivergence(op, T(2))
      /\ Yield(2, entries, cg)
  BY Zenon DEF VisitBinaryExpr, Compilable
<1>2. /\ l \in Storable /\ Top(2).ir = toIrType(l) /\ r \in Storable /\ Top(1).ir = toIrType(r)
      /\ Top(2) \in GoodEntries
      /\ DOMAIN T(2) = 1..2 /\ T(2)[1] = l /\ T(2)[2] = r
  BY <1>1, Tops
<1>3. Agrees(cg, tc.typ)
  BY Zenon, <1>1, <1>2, BinaryAgrees
<1>4. BinaryEntry(op, tc.typ, cg.typ) \in GoodEntries
  <2>1. CASE op = "BIN_INDEX" /\ Top(2).asg # "no"
    <3>1. tc = Typed(Indexable(l) /\ Integral(r),
                     IF IsList(l) THEN GetListElementType(l) ELSE BUCHSTABE)
      BY <2>1, Zenon DEF TC_VisitBinaryExpr
    <3>2. Indexable(l)
      BY <1>1, <3>1, Answers, Zenon
    <3> HIDE DEF tc, cg
    <3>3. tc.typ = IF IsList(l) THEN GetListElementType(l) ELSE BUCHSTABE
      BY <3>1, Zenon DEF Typed
    <3>4. tc.typ = IF IsList(l) THEN GetListElementType(l) ELSE BUCHSTABE
      BY Zenon, <3>3
    <3>5. Entry(tc.typ, toIrType(tc.typ), Top(2).asg, ElementLoc(Top(2))) \in GoodEntries
      BY Zenon, <1>2, <2>1, <3>2, <3>4, ElementIsGood
    <3>6. BinaryEntry(op, tc.typ, cg.typ) = Entry(tc.typ, cg.typ, Top(2).asg, ElementLoc(Top(2)))
      BY <2>1, Zenon DEF BinaryEntry
    <3> QED
      BY Zenon, <1>3, <3>5, <3>6 DEF Agrees
  <2>2. CASE ~ (op = "BIN_INDEX" /\ Top(2).asg # "no")
    <3>1. BinaryEntry(op, tc.typ, cg.typ) = Temp(tc.typ, cg.typ)
      BY <2>2, Zenon DEF BinaryEntry
    <3> HIDE DEF tc, cg
    <3> QED
      BY Zenon, <1>3, <3>1, EntriesAreGood DEF Agrees
  <2> QED
    BY Zenon, <2>1, <2>2
<1> HIDE DEF tc, cg
<1>5. entries \in Seq(GoodEntries)
  BY <1>4
<1>6. Right(cg)
  BY Zenon, <1>3 DEF Agrees
<1> HIDE DEF entries
<1> QED
  BY <1>1, <1>5, <1>6, YieldSound

\* VisitTernaryExpr.
LEMMA TernarySound ==
  ASSUME Agreed, SoundInv, NEW op \in TernaryOps, VisitTernaryExpr(op)
  PROVE  SoundInv'
<1> DEFINE l == Top(3).t
           m == Top(2).t
           r == Top(1).t
           tc == TC_VisitTernaryExpr(op, l, m, r)
           cg == CG_VisitTernaryExpr(op, Top(3).ir, Top(2).ir, Top(1).ir)
<1>1. Len(stack) >= 3 /\ tc.ok /\ Yield(3, <<Temp(tc.typ, cg.typ)>>, cg)
  BY Zenon DEF VisitTernaryExpr, Compilable
<1>2. /\ l \in Storable /\ Top(3).ir = toIrType(l) /\ m \in Storable /\ Top(2).ir = toIrType(m)
      /\ r \in Storable /\ Top(1).ir = toIrType(r)
  BY <1>1, Tops
<1>3. Agrees(cg, tc.typ)
  BY Zenon, <1>1, <1>2, TernaryAgrees
<1> HIDE DEF tc, cg
<1> QED
  BY <1>1, <1>3, TemporarySound

\* VisitFieldAccess.
LEMMA FieldSound ==
  ASSUME SoundInv, NEW field, VisitFieldAccess(field)
  PROVE  SoundInv'
<1> DEFINE l == Top(1).t
           tc == checkFieldAccess(field, l)
           s == Head(Underlying[l])
           loc == IF Top(1).asg = "no" THEN Void ELSE toIrType(tc.typ)
           entries == <<Entry(tc.typ, toIrType(tc.typ), Top(1).asg, loc)>>
<1>1. /\ Len(stack) >= 1 /\ IsStruct(l) /\ tc.ok
      /\ Yield(1, entries, Value(toIrType(tc.typ)))
  BY Zenon DEF VisitFieldAccess
<1>2. l \in Storable /\ Top(1) \in GoodEntries
  BY Zenon, <1>1, LastTop
<1>3. s \in Structs
  BY Zenon, <1>1, <1>2, UnderlyingOfValueType, BasicValues DEF IsStruct
<1>4. tc.typ \in Storable
  <2>1. tc = IF IsStruct(l) /\ field \in DOMAIN FieldTypes[Head(GetUnderlying(l))]
               THEN Typed(TRUE, FieldTypes[Head(GetUnderlying(l))][field])
               ELSE Typed(FALSE, Void)
    BY Zenon DEF checkFieldAccess
  <2>2. GetUnderlying(l) = Underlying[l]
    BY Zenon DEF GetUnderlying
  <2>3. CASE field \in DOMAIN FieldTypes[s] /\ IsStruct(l)
    <3>1. tc = Typed(TRUE, FieldTypes[s][field])
      BY <2>1, <2>2, <2>3, Zenon
    <3> HIDE DEF tc
    <3>2. tc.typ = FieldTypes[s][field]
      BY <3>1, Zenon DEF Typed
    <3> QED
      BY Zenon, <1>3, <2>3, <3>2, TypesAssumption
  <2>4. CASE ~ (field \in DOMAIN FieldTypes[s] /\ IsStruct(l))
    <3>1. tc = Typed(FALSE, Void)
      BY <2>1, <2>2, <2>4, Zenon
    <3> QED
      BY <1>1, <3>1, Answers, Zenon
  <2> QED
    BY Zenon, <2>3, <2>4
<1> HIDE DEF tc
<1>5. loc \in IrTypeSet \cup {Void} /\ (Top(1).asg = "ref" => loc = toIrType(tc.typ))
  BY Zenon, <1>4, IrTypesOfEntries
<1> HIDE DEF loc
<1>6. Entry(tc.typ, toIrType(tc.typ), Top(1).asg, loc) \in GoodEntries
  BY Zenon, <1>2, <1>4, <1>5, EntriesAreGood, EntryFacts
<1>7. entries \in Seq(GoodEntries)
  BY <1>6
<1>8. Right(Value(toIrType(tc.typ)))
  BY Zenon, <1>4, RightOutcomes DEF Agrees
<1> HIDE DEF entries
<1> QED
  BY <1>1, <1>7, <1>8, YieldSound

\* What KnownDivergence leaves of the casts.
LEMMA CastDivergences ==
  ASSUME NEW l \in Storable, NEW t \in Storable, ~ KnownDivergence("CAST_OP", <<l, t>>)
  PROVE  /\ ~ (IsAny(l) /\ toIrType(t) = BYTE)
         /\ ~ (IsTypeDef(l) /\ IsAny(t))
         /\ ~ (Head(toIrType(l)) = "Liste" /\ Head(toIrType(t)) = "Liste")
<1> DEFINE ts == <<l, t>>
<1>1. DOMAIN ts = 1..2 /\ ts[1] = l /\ ts[2] = t
  OBVIOUS
<1> HIDE DEF ts
<1>2. ~ KnownDivergence("CAST_OP", ts)
  BY Zenon DEF ts
<1>3. /\ ~ (IsAny(Underlying[l]) /\ TrueUnderlying[Underlying[t]] = BYTE)
      /\ ~ (IsTypeDef(Underlying[l]) /\ IsAny(Underlying[t]))
      /\ ~ (IsList(TrueUnderlying[Underlying[l]]) /\ IsList(TrueUnderlying[Underlying[t]]))
  BY <1>1, <1>2, BinaryDivergences
<1>4. BYTE \in BasicTypes
  BY Zenon DEF BasicTypes
<1> QED
  BY Zenon, <1>3, <1>4, UnderlyingViews

\* VisitCastExpr.
LEMMA CastSound ==
  ASSUME Agreed, SoundInv, NEW t \in Types, VisitCastExpr(t)
  PROVE  SoundInv'
<1> DEFINE l == Top(1).t
           cg == CG_VisitCastExpr(Top(1).ir, t)
           asg == IF Top(1).asg = "no" THEN "no" ELSE "expr"
           e == Entry(t, cg.typ, asg, Top(1).loc)
           entries == <<CastEntry(t, cg)>>
<1>1. /\ Len(stack) >= 1 /\ TC_VisitCastExpr(l, t).ok /\ ~ KnownDivergence("CAST_OP", <<l, t>>)
      /\ Yield(1, entries, cg)
  BY Zenon DEF VisitCastExpr, Compilable
<1>2. l \in Storable /\ Top(1).ir = toIrType(l) /\ Top(1) \in GoodEntries /\ t \in Storable
  BY Zenon, <1>1, LastTop, TypesAssumption
<1>3. /\ ~ (IsAny(l) /\ toIrType(t) = BYTE)
      /\ ~ (IsTypeDef(l) /\ IsAny(t))
      /\ ~ (Head(toIrType(l)) = "Liste" /\ Head(toIrType(t)) = "Liste")
  BY Zenon, <1>1, <1>2, CastDivergences
<1>4. Agrees(cg, t)
  BY Zenon, <1>1, <1>2, <1>3, CastAgrees
<1>5. CastEntry(t, cg) = IF ~ IsAny(t) THEN e
                         ELSE IF IsAny(l) THEN Packed(e, Top(1).of, Top(1).tag)
                         ELSE Packed(e, l, Top(1).ir)
  BY Zenon DEF CastEntry
<1> HIDE DEF cg
<1>6. e \in GoodEntries
  <2>1. asg \in {"expr", "no"} /\ Top(1).loc \in IrTypeSet \cup {Void} /\ cg.typ = toIrType(t)
    BY Zenon, <1>2, <1>4, EntryFacts DEF Agrees
  <2> HIDE DEF asg
  <2> QED
    BY Zenon, <1>2, <2>1, EntriesAreGood
<1> HIDE DEF e
<1>7. CastEntry(t, cg) \in GoodEntries
  <2>1. CASE ~ IsAny(t)
    BY Zenon, <1>5, <1>6, <2>1
  <2>2. CASE IsAny(t) /\ IsAny(l)
    BY <1>2, <1>5, <1>6, <2>2, EntryFacts, PackedIsGood
  <2>3. CASE IsAny(t) /\ ~ IsAny(l)
    <3>1. VTable(l) = Top(1).ir /\ Top(1).ir \in DDPType
      BY Zenon, <1>2, <1>3, <2>3, IrTypesOfEntries
    <3> QED
      BY Zenon, <1>2, <1>5, <1>6, <2>3, <3>1, PackedIsGood
  <2> QED
    BY Zenon, <2>1, <2>2, <2>3
<1>8. entries \in Seq(GoodEntries)
  BY <1>7
<1> HIDE DEF entries
<1> QED
  BY <1>1, <1>4, <1>8, YieldSound DEF Agrees

\* A cast among the targets of an assignment.
LEMMA CastAssigneableSound ==
  ASSUME Agreed, SoundInv, NEW t \in Types, VisitCastAssigneable(t)
  PROVE  SoundInv'
<1> DEFINE l == Top(1).t
           cg == CG_VisitCastExpr(Top(1).ir, t)
           e == [Top(1) EXCEPT !.t = t]
           entries == <<e>>
<1>1. /\ Len(stack) >= 1 /\ Equal(TrueUnderlying[l], TrueUnderlying[t])
      /\ ~ KnownDivergence("CAST_OP", <<l, t>>) /\ Yield(1, entries, cg)
  BY Zenon DEF VisitCastAssigneable, Compilable
<1>2. l \in Storable /\ Top(1).ir = toIrType(l) /\ Top(1) \in GoodEntries /\ t \in Storable
  BY Zenon, <1>1, LastTop, TypesAssumption
<1>3. TrueUnderlying[l] = TrueUnderlying[t]
  BY Zenon, <1>1, <1>2, BasicValues, TrueUnderlyingOfValueType DEF Equal, GetUnderlying
<1>4. toIrType(l) = toIrType(t)
  BY Zenon, <1>3, IrTypes
<1>5. Head(toIrType(t)) # "Liste"
  BY Zenon, <1>1, <1>2, <1>4, CastDivergences
<1>6. Right(cg)
  BY <1>2, <1>4, <1>5, SameTypeCast DEF Agrees
<1> HIDE DEF cg
<1>7. /\ e.t = t /\ e.ir = Top(1).ir /\ e.asg = Top(1).asg /\ e.loc = Top(1).loc /\ e.of = Top(1).of
      /\ e.tag = Top(1).tag /\ e \in Entries
  <2>1. Top(1) \in Entries
    BY Zenon, <1>2 DEF GoodEntries
  <2> QED
    BY <1>2, <2>1, Zenon DEF Entries
<1> HIDE DEF e
<1>8. e \in GoodEntries
  BY Zenon, <1>2, <1>4, <1>7, EntryFacts DEF GoodEntries
<1>9. entries \in Seq(GoodEntries)
  BY <1>8
<1> HIDE DEF entries
<1> QED
  BY <1>1, <1>6, <1>9, YieldSound

\* VisitTypeCheck.
LEMMA TypeCheckSound ==
  ASSUME SoundInv, NEW t \in Types, VisitTypeCheck(t)
  PROVE  SoundInv'
<1> DEFINE entries == <<Temp(WAHRHEITSWERT, WAHRHEITSWERT)>>
<1>1. Len(stack) >= 1 /\ Yield(1, entries, Value(WAHRHEITSWERT))
  BY Zenon DEF VisitTypeCheck
<1>2. WAHRHEITSWERT \in Storable /\ toIrType(WAHRHEITSWERT) = WAHRHEITSWERT
  BY Zenon, BasicTypesAreStorable DEF BasicTypes
<1>3. Right(Value(WAHRHEITSWERT))
  BY Zenon, <1>2, RightOutcomes DEF Agrees
<1>4. Temp(WAHRHEITSWERT, WAHRHEITSWERT) \in GoodEntries
  BY Zenon, <1>2, EntriesAreGood
<1>5. entries \in Seq(GoodEntries)
  BY <1>4
<1> HIDE DEF entries
<1> QED
  BY <1>1, <1>3, <1>5, YieldSound

\* VisitListLit.
LEMMA ListLitSound ==
  ASSUME Agreed, SoundInv, NEW n \in 1..2, VisitListLit(n)
  PROVE  SoundInv'
<1> DEFINE cg == CG_VisitListLit(T(n)[1], Ir(n))
<1>1. /\ Len(stack) >= n /\ TC_VisitListLit(T(n)).ok /\ ~ KnownDivergence("LIST", T(n))
      /\ Yield(n, <<Temp(ListOf(T(n)[1]), cg.typ)>>, cg)
  BY Zenon DEF VisitListLit, Compilable
<1>2. n \in 1..3
  OBVIOUS
<1>3. /\ DOMAIN T(n) = 1..n /\ DOMAIN Ir(n) = 1..n
      /\ \A i \in 1..n : T(n)[i] \in Storable /\ Ir(n)[i] = toIrType(T(n)[i])
  <2>1. ASSUME NEW i \in 1..n
        PROVE  n + 1 - i \in 1..n
    OBVIOUS
  <2> QED
    BY <1>1, <1>2, <2>1, Tops
<1>4. Head(toIrType(T(n)[1])) # "Liste"
  <2>1. ~ IsList(TrueUnderlying[Underlying[T(n)[1]]])
    BY <1>1, <1>2, <1>3, UnaryDivergences
  <2>2. T(n)[1] \in Storable
    BY <1>3
  <2> QED
    BY Zenon, <2>1, <2>2, UnderlyingViews
<1>5. Agrees(cg, ListOf(T(n)[1]))
  BY Zenon, <1>1, <1>3, <1>4, ListLitAgrees
<1> HIDE DEF cg
<1> QED
  BY Zenon, <1>1, <1>2, <1>5, TemporarySound

\* What a declaration or an assignment leaves in a variable.
LEMMA StoredIsGood ==
  ASSUME NEW e \in GoodEntries, NEW t, Top(1) \in GoodEntries
  PROVE  Stored(e, t) \in GoodEntries
<1>1. /\ Top(1).t \in Storable /\ VTable(Top(1).t) \in DDPType
      /\ Top(1).of \in Storable \cup {Void} /\ Top(1).tag \in DDPType
      /\ Top(1).of # Void => Top(1).tag = VTable(Top(1).of)
  BY EntryFacts, IrTypesOfEntries
<1>2. CASE IsAny(t) /\ ~ IsAny(Top(1).t)
  BY <1>1, <1>2, PackedIsGood DEF Stored
<1>3. CASE ~ (IsAny(t) /\ ~ IsAny(Top(1).t))
  BY Zenon, <1>1, <1>3, PackedIsGood DEF Stored
<1> QED
  BY Zenon, <1>2, <1>3

\* VisitStructLiteral and evaluateStructLiteral.
LEMMA StructLiteralSound ==
  ASSUME Agreed, SoundInv, NEW s \in DOMAIN FieldTypes, NEW f \in DOMAIN FieldTypes[s],
         NEW given \in BOOLEAN, VisitStructLiteral(s, f, given)
  PROVE  SoundInv'
<1> DEFINE t == FieldTypes[s][f]
           v == Top(1).t
           cg == evaluateStructLiteral(t, Top(1).ir)
           ts == <<t, v>>
           entries == <<Temp(<<s>>, <<s>>)>>
<1>1. /\ Len(stack) >= 1
      /\ given => TC_VisitStructLiteral(t, v).ok
      /\ ~ given => TC_VisitVarDecl(t, v).ok /\ ~ KnownDivergence("FIELD", ts)
      /\ Yield(1, entries, cg)
  BY Zenon DEF VisitStructLiteral, Compilable
<1>2. DOMAIN ts = 1..2 /\ ts[1] = t /\ ts[2] = v
  OBVIOUS
<1>3. v \in Storable /\ Top(1).ir = toIrType(v) /\ t \in Storable /\ s \in Structs
  BY Zenon, <1>1, LastTop, TypesAssumption
<1> HIDE DEF t, ts
<1>4. ~ given => ~ (IsNumeric(t) /\ Underlying[t] # Underlying[v])
  <2>1. ~ given => ~ (IsNumeric(Underlying[t]) /\ Underlying[t] # Underlying[v])
    BY <1>1, <1>2, BinaryDivergences
  <2> QED
    BY Zenon, <1>3, <2>1, UnderlyingViews
<1>5. Right(cg)
  BY Zenon, <1>1, <1>3, <1>4, StoresAreRight
<1> HIDE DEF cg
<1>6. <<s>> \in Storable /\ toIrType(<<s>>) = <<s>>
  <2>1. s \in Scalars
    BY Zenon, <1>3, Words
  <2>2. <<s>> \in ValueTypes /\ Underlying[<<s>>] = <<s>> /\ <<s>> # << >> /\ Head(<<s>>) = s
    BY Zenon, <2>1, ScalarsAreValueTypes
  <2>3. Outermost(<<s>>) = s
    BY Zenon, <2>2 DEF Outermost, GetUnderlying
  <2> QED
    BY Zenon, <2>1, <2>2, <2>3, IrTypeOfScalar
<1>7. Temp(<<s>>, <<s>>) \in GoodEntries
  BY Zenon, <1>6, EntriesAreGood
<1>8. entries \in Seq(GoodEntries)
  BY <1>7
<1> HIDE DEF entries
<1> QED
  BY <1>1, <1>5, <1>8, YieldSound

\* VisitVarDecl.
LEMMA VarDeclSound ==
  ASSUME SoundInv, NEW t \in Types, VisitVarDecl(t)
  PROVE  SoundInv'
<1> DEFINE cg == CG_VisitVarDecl(t, Top(1).t, Top(1).ir)
           entries == <<Stored(NewVar(t), t)>>
<1>1. Len(stack) >= 1 /\ TC_VisitVarDecl(t, Top(1).t).ok /\ Yield(1, entries, cg)
  BY Zenon DEF VisitVarDecl
<1>2. /\ Top(1).t \in Storable /\ Top(1).ir = toIrType(Top(1).t) /\ Top(1) \in GoodEntries
      /\ t \in Storable
  BY Zenon, <1>1, LastTop, TypesAssumption
<1>3. Right(cg)
  BY Zenon, <1>1, <1>2, StoresAreRight
<1>4. Stored(NewVar(t), t) \in GoodEntries
  BY <1>2, EntriesAreGood, StoredIsGood
<1>5. entries \in Seq(GoodEntries)
  BY <1>4
<1> HIDE DEF entries, cg
<1> QED
  BY <1>1, <1>3, <1>5, YieldSound

\* VisitAssignStmt.
LEMMA AssignSound ==
  ASSUME SoundInv, VisitAssignStmt
  PROVE  SoundInv'
<1> DEFINE t == Top(2).t
           v == Top(1).t
           loc == IF Top(2).loc = Void THEN BUCHSTABE ELSE Top(2).loc
           cg == CG_VisitAssignStmt(t, loc, v, Top(1).ir)
           entries == <<Stored(Top(2), t)>>
<1>1. /\ Len(stack) >= 2 /\ Top(2).asg = "ref" /\ TC_VisitAssignStmt(t, v).ok
      /\ Yield(2, entries, cg)
  BY Zenon DEF VisitAssignStmt
<1>2. /\ v \in Storable /\ Top(1).ir = toIrType(v) /\ Top(1) \in GoodEntries
      /\ t \in Storable /\ Top(2).ir = toIrType(t) /\ Top(2) \in GoodEntries
  BY <1>1, Tops
<1>3. loc = toIrType(t)
  <2>1. Top(2).loc = Top(2).ir \/ (Top(2).loc = Void /\ Top(2).ir = BUCHSTABE)
    BY Zenon, <1>1, <1>2, EntryFacts
  <2>2. toIrType(t) # Void
    BY Zenon, <1>2, BasicValues
  <2> QED
    BY Zenon, <1>2, <2>1, <2>2
<1> HIDE DEF loc
<1>4. Right(cg)
  BY Zenon, <1>1, <1>2, <1>3, StoresAreRight
<1>5. Stored(Top(2), t) \in GoodEntries
  BY Zenon, <1>2, StoredIsGood
<1>6. entries \in Seq(GoodEntries)
  BY <1>5
<1> HIDE DEF entries, cg
<1> QED
  BY <1>1, <1>4, <1>6, YieldSound

\* An argument of a call: a reference leads to storage of the parameter's type.
LEMMA FuncCallSound ==
  ASSUME Agreed, SoundInv, NEW t \in Types, NEW ref \in BOOLEAN, VisitFuncCall(t, ref)
  PROVE  SoundInv'
<1> DEFINE l == Top(1).t
           x == IF ref THEN Top(1).loc ELSE Top(1).ir
           cg == evaluateAssignableOrReference(x, toIrType(t))
           entries == << >>
<1>1. /\ Len(stack) >= 1 /\ Equal(l, t)
      /\ ref => Top(1).asg = "ref" /\ ~ (Top(1).loc = Void /\ Equal(t, BUCHSTABE))
      /\ ref /\ Top(1).loc = Void => ~ KnownDivergence("TEXT_REF", T(1))
      /\ Yield(1, entries, cg)
  BY Zenon DEF VisitFuncCall, Compilable
<1>2. /\ l \in Storable /\ Top(1).ir = toIrType(l) /\ Top(1) \in GoodEntries
      /\ t \in Storable /\ DOMAIN T(1) = 1..1 /\ T(1)[1] = l
  BY Zenon, <1>1, LastTop, TypesAssumption
<1>3. toIrType(l) = toIrType(t) /\ toIrType(t) # Void
  BY Zenon, <1>1, <1>2, BasicValues, StorableValues
<1>4. ASSUME ref, Top(1).loc = Void, Top(1).ir = BUCHSTABE
      PROVE  FALSE
  <2>1. ~ IsTypeDef(l)
    <3>1. ~ IsTypeDef(Underlying[l])
      BY <1>1, <1>2, <1>4, UnaryDivergences
    <3> QED
      BY Zenon, <1>2, <3>1, UnderlyingViews
  <2>2. BUCHSTABE \in BasicTypes
    BY Zenon DEF BasicTypes
  <2>3. Underlying[l] = BUCHSTABE /\ Underlying[BUCHSTABE] = BUCHSTABE
    BY <1>2, <1>4, <2>1, <2>2, BasicValues, BasicTypesAreStorable
  <2> QED
    BY Zenon, <1>1, <1>4, <2>3 DEF Equal, GetUnderlying
<1>5. x = toIrType(t)
  <2>1. CASE ref
    <3>1. Top(1).loc = Top(1).ir \/ (Top(1).loc = Void /\ Top(1).ir = BUCHSTABE)
      BY Zenon, <1>1, <1>2, <2>1, EntryFacts
    <3> QED
      BY Zenon, <1>2, <1>3, <1>4, <2>1, <3>1
  <2>2. CASE ~ ref
    BY Zenon, <1>2, <1>3, <2>2
  <2> QED
    BY Zenon, <2>1, <2>2
<1> HIDE DEF x
<1>6. Right(cg)
  <2>1. cg = Outcome(Void, Void, TRUE, {})
    BY Zenon, <1>3, <1>5 DEF evaluateAssignableOrReference
  <2>2. Right(Outcome(Void, Void, TRUE, {}))
    BY Zenon DEF Right, Outcome
  <2> QED
    BY Zenon, <2>1, <2>2
<1>7. entries \in Seq(GoodEntries)
  OBVIOUS
<1> HIDE DEF entries, cg
<1> QED
  BY <1>1, <1>6, <1>7, YieldSound

\* VisitReturnStmt.
LEMMA ReturnSound ==
  ASSUME Agreed, SoundInv, NEW t \in Types, VisitReturnStmt(t)
  PROVE  SoundInv'
<1> DEFINE v == Top(1).t
           cg == CG_VisitReturnStmt(t, Top(1).ir)
           ts == <<v, t>>
           e == IF IsAny(t) /\ ~ IsAny(v) THEN Packed(Temp(t, VARIABLE_), v, Top(1).ir)
                ELSE Packed(Temp(t, toIrType(t)), Top(1).of, Top(1).tag)
           entries == <<e>>
<1>1. /\ Len(stack) >= 1 /\ TC_VisitReturnStmt(t, v).ok /\ ~ KnownDivergence("RETURN", ts)
      /\ Yield(1, entries, cg)
  BY Zenon DEF VisitReturnStmt, Compilable
<1>2. DOMAIN ts = 1..2 /\ ts[1] = v /\ ts[2] = t
  OBVIOUS
<1>3. v \in Storable /\ Top(1).ir = toIrType(v) /\ Top(1) \in GoodEntries /\ t \in Storable
  BY Zenon, <1>1, LastTop, TypesAssumption
<1> HIDE DEF ts
<1>4. ~ (IsTypeDef(v) /\ IsAny(t))
  <2>1. ~ (IsTypeDef(Underlying[v]) /\ IsAny(Underlying[t]))
    BY <1>1, <1>2, BinaryDivergences
  <2> QED
    BY Zenon, <1>3, <2>1, UnderlyingViews
<1>5. Right(cg)
  BY Zenon, <1>1, <1>3, StoresAreRight
<1>6. Temp(t, toIrType(t)) \in GoodEntries
  BY Zenon, <1>3, EntriesAreGood
<1>7. e \in GoodEntries
  <2>1. CASE IsAny(t) /\ ~ IsAny(v)
    <3>1. VARIABLE_ \in BasicTypes
      BY Zenon DEF BasicTypes
    <3>2. toIrType(t) = VARIABLE_
      BY Zenon, <1>3, <2>1, <3>1, BasicValues DEF IsAny, GetUnderlying
    <3>3. Top(1).ir = VTable(v) /\ Top(1).ir \in DDPType
      BY Zenon, <1>3, <1>4, <2>1, IrTypesOfEntries
    <3>4. Packed(Temp(t, toIrType(t)), v, Top(1).ir) \in GoodEntries
      BY Zenon, <1>3, <1>6, <3>3, PackedIsGood
    <3> QED
      BY Zenon, <2>1, <3>2, <3>4
  <2>2. CASE ~ (IsAny(t) /\ ~ IsAny(v))
    <3>1. Packed(Temp(t, toIrType(t)), Top(1).of, Top(1).tag) \in GoodEntries
      BY Zenon, <1>3, <1>6, EntryFacts, PackedIsGood
    <3> QED
      BY Zenon, <2>2, <3>1
  <2> QED
    BY Zenon, <2>1, <2>2
<1> HIDE DEF e
<1>8. entries \in Seq(GoodEntries)
  BY <1>7
<1> HIDE DEF entries, cg
<1> QED
  BY <1>1, <1>5, <1>8, YieldSound

\* The loops: VisitWhileStmt, VisitForStmt and VisitForRangeStmt.
LEMMA LoopsSound ==
  ASSUME Agreed, SoundInv
  PROVE  /\ VisitWhileStmt => SoundInv'
         /\ VisitForStmt => SoundInv'
         /\ \A t \in Types : VisitForRangeStmt(t) => SoundInv'
<1> DEFINE none == << >>
<1>1. none \in Seq(GoodEntries)
  OBVIOUS
<1>2. ASSUME VisitWhileStmt
      PROVE  SoundInv'
  <2> DEFINE l == Top(1).t
             cg == CG_VisitRepeat(Top(1).ir)
  <2>1. Len(stack) >= 1 /\ TC_VisitRepeat(l).ok /\ ~ KnownDivergence("REPEAT", T(1)) /\ Yield(1, none, cg)
    BY <1>2, Zenon DEF VisitWhileStmt, Compilable
  <2>2. l \in Storable /\ Top(1).ir = toIrType(l) /\ DOMAIN T(1) = 1..1 /\ T(1)[1] = l
    BY Zenon, <2>1, LastTop
  <2>3. Underlying[l] # BYTE
    BY <2>1, <2>2, UnaryDivergences
  <2>4. Right(cg)
    BY Zenon, <2>1, <2>2, <2>3, LoopsAreRight
  <2> HIDE DEF none, cg
  <2> QED
    BY <1>1, <2>1, <2>4, YieldSound
<1>3. ASSUME VisitForStmt
      PROVE  SoundInv'
  <2> DEFINE i == Top(3).t
             t == Top(2).t
             s == Top(1).t
             cg == CG_VisitForStmt(Top(3).ir, Top(2).ir, Top(1).ir)
  <2>1. /\ Len(stack) >= 3 /\ TC_VisitForStmt(i, t, s).ok /\ ~ KnownDivergence("FOR", T(3))
        /\ Yield(3, none, cg)
    BY <1>3, Zenon DEF VisitForStmt, Compilable
  <2>2. /\ i \in Storable /\ Top(3).ir = toIrType(i) /\ t \in Storable /\ Top(2).ir = toIrType(t)
        /\ s \in Storable /\ Top(1).ir = toIrType(s)
        /\ DOMAIN T(3) = 1..3 /\ T(3)[1] = i /\ T(3)[2] = t /\ T(3)[3] = s
    BY <2>1, Tops
  <2>3. /\ Underlying[i] = ZAHL => Underlying[t] = ZAHL /\ Underlying[s] = ZAHL
        /\ Underlying[i] = KOMMAZAHL => Underlying[t] = KOMMAZAHL /\ Underlying[s] = KOMMAZAHL
    BY <2>1, <2>2, ForDivergences
  <2>4. Underlying[i] = KOMMAZAHL => {Underlying[i], Underlying[t], Underlying[s]} = {KOMMAZAHL}
    BY Zenon, <2>3
  <2>5. Right(CG_VisitForStmt(toIrType(i), toIrType(t), toIrType(s)))
    BY <2>1, <2>2, <2>3, <2>4, LoopsAreRight, Zenon
  <2>6. Right(cg)
    BY <2>2, <2>5, Zenon
  <2> HIDE DEF none, cg
  <2> QED
    BY <1>1, <2>1, <2>6, YieldSound
<1>4. ASSUME NEW e \in Types, VisitForRangeStmt(e)
      PROVE  SoundInv'
  <2> DEFINE l == Top(1).t
             cg == CG_VisitForRangeStmt(toIrType(e), Top(1).ir)
  <2>1. Len(stack) >= 1 /\ TC_VisitForRangeStmt(e, l).ok /\ Yield(1, none, cg)
    BY <1>4, Zenon DEF VisitForRangeStmt
  <2>2. l \in Storable /\ Top(1).ir = toIrType(l) /\ e \in Storable
    BY Zenon, <2>1, LastTop, TypesAssumption
  <2>3. Right(cg)
    BY Zenon, <2>1, <2>2, LoopsAreRight
  <2> HIDE DEF none, cg
  <2> QED
    BY <1>1, <2>1, <2>3, YieldSound
<1> QED
  BY Zenon, <1>2, <1>3, <1>4

\* DeclareOverload: an overload is inserted among those of its operator.
LEMMA DeclareSound ==
  ASSUME SoundInv, NEW d \in OverloadDecls, DeclareOverload(d), \A op \in Ops : Sorted(operators[op])
  PROVE  SoundInv'
<1> DEFINE o == operators[d.op]
           r == insertOperatorOverload(d.op, o, d)
<1>1. d.op \in Ops /\ operators \in [Ops -> Seq(OverloadDecls)]
  BY Zenon, DeclsAssumption DEF SoundInv, DeclsInv
<1>2. o \in Seq(OverloadDecls) /\ \A i \in DOMAIN o : o[i].op = d.op
  BY Zenon, <1>1 DEF SoundInv, DeclsInv
<1>3. operators' = [operators EXCEPT ![d.op] = r]
  BY Zenon DEF DeclareOverload
<1>4. r \in Seq(OverloadDecls)
  BY Zenon, <1>1, <1>2, InsertKeepsSorted
<1>5. \A i \in DOMAIN r : r[i].op = d.op
  <2> DEFINE P == {x \in OverloadDecls : x.op = d.op}
             k == BinarySearchFunc(o, d)
             n == Len(o)
  <2>1. k \in 0..n
    BY <1>1, <1>2, BinarySearchSplits DEF Splits
  <2>2. Insert(o, d) = SubSeq(o, 1, k) \o <<d>> \o SubSeq(o, k + 1, n)
    BY Zenon DEF Insert
  <2>3. r = o \/ r = Insert(o, d)
    BY Zenon DEF insertOperatorOverload
  <2> HIDE DEF k, o
  <2>4. o \in Seq(P)
    BY <1>2
  <2>5. d \in P
    BY Zenon
  <2> HIDE DEF P
  <2>6. <<d>> \in Seq(P) /\ SubSeq(o, 1, k) \in Seq(P) /\ SubSeq(o, k + 1, n) \in Seq(P)
    BY <2>1, <2>4, <2>5
  <2>7. r \in Seq(P)
    <3>1. ASSUME NEW a \in Seq(P), NEW b \in Seq(P), NEW c \in Seq(P)
          PROVE  a \o b \o c \in Seq(P)
      <4>1. a \o b \in Seq(P)
        OBVIOUS
      <4> QED
        BY <4>1
    <3>2. Insert(o, d) \in Seq(P)
      BY <2>2, <2>6, <3>1, Zenon
    <3> QED
      BY <2>3, <2>4, <3>2, Zenon
  <2> HIDE DEF r
  <2>8. \A i \in DOMAIN r : r[i] \in P
    BY <2>7
  <2> QED
    BY Zenon, <2>8 DEF P
<1> HIDE DEF r
<1>6. DeclsInv'
  BY Zenon, <1>1, <1>3, <1>4, <1>5 DEF SoundInv, DeclsInv
<1>7. Right(Value(Void))
  BY Zenon DEF Right, Value, Outcome
<1>8. stack' = stack /\ latest' = Compiled(Value(Void))
  BY Zenon DEF DeclareOverload
<1>9. LatestInv'
  BY Zenon, <1>7, <1>8, LatestOutcome DEF LatestInv
<1> QED
  BY Zenon, <1>6, <1>8, <1>9 DEF SoundInv, StackInv

\* A call of an overload: its references lead to storage of the parameters' types, its values
\* have them, and the call has the return type of the instantiation.
LEMMA OverloadedSound ==
  ASSUME Agreed, SoundInv, NEW op \in Ops, NEW n \in 1..3, n = Arity(op), NEW t,
         VisitOverloaded(op, n, t)
  PROVE  SoundInv'
<1> DEFINE operands == Operands(n)
           o == operators[op]
<1>1. PICK inst \in BOOLEAN : \E i : /\ i = findOverload(o, operands, Target(op, t), inst) /\ i # 0
                                     /\ OverloadedExpr(op, n, t, i, o[i])
  BY Zenon DEF VisitOverloaded, Overload
<1>2. PICK i : /\ i = findOverload(o, operands, Target(op, t), inst) /\ i # 0
               /\ OverloadedExpr(op, n, t, i, o[i])
  BY Zenon, <1>1
<1> DEFINE d == o[i]
           u == Unified(d, operands)
           ret == ReturnType(d, u.bound)
           call == CallOutcome(d, u.typs, ret)
<1>3. Len(stack) >= n
  BY Zenon DEF VisitOverloaded
<1>4. /\ stack' = Below(n) \o <<Temp(ret, toIrType(ret))>>
      /\ \E c : latest' = [Compiled(call) EXCEPT !.choice = c]
      /\ operators' = operators
      /\ (\E k \in DOMAIN d.params : d.params[k].ref /\ Args(n)[k].loc # toIrType(Args(n)[k].t))
           => ~ KnownDivergence("CAST_REF", T(n))
  BY <1>2, Zenon DEF OverloadedExpr, Compilable
<1>5. o \in Seq(OverloadDecls) /\ \A k \in DOMAIN o : o[k].op = op
  BY Zenon DEF SoundInv, DeclsInv
<1>6. i \in DOMAIN o /\ Matches(d, operands, Target(op, t))
  BY Zenon, <1>2, <1>5, FindReturnsFirst
<1>7. d \in OverloadDecls /\ d.op = op
  BY <1>5, <1>6
<1>8. Len(d.params) = n /\ DOMAIN d.params = 1..n
  <2>1. Len(d.params) = Arity(op) /\ d.params \in Seq([typ : Storable \cup GenericTypes, ref : BOOLEAN])
    BY <1>7, DeclsAssumption, OverloadsAssumption, Zenon
  <2> QED
    BY <2>1
<1>9. ParamsMatch(d, operands, u.typs)
  BY <1>6, Zenon DEF Matches
<1>10. /\ Below(n) \in Seq(GoodEntries) /\ DOMAIN T(n) = 1..n
       /\ \A k \in 1..n : /\ Args(n)[k] \in GoodEntries /\ Args(n)[k].t \in Storable
                          /\ Args(n)[k].ir = toIrType(Args(n)[k].t)
  BY Zenon, <1>3, OperandFacts, EntryFacts DEF SoundInv
<1>11. /\ DOMAIN operands = 1..n /\ Len(operands) = n
       /\ operands \in Seq({operands[k] : k \in 1..n})
       /\ \A k \in 1..n : operands[k].t = Args(n)[k].t
  <2>1. \A k \in 1..n : operands[k] = [t |-> Args(n)[k].t, asg |-> Args(n)[k].asg # "no"]
    BY Zenon DEF Operands
  <2>2. ASSUME NEW k \in 1..n
        PROVE  operands[k].t = Args(n)[k].t
    <3> DEFINE r == [t |-> Args(n)[k].t, asg |-> Args(n)[k].asg # "no"]
    <3>1. r.t = Args(n)[k].t
      BY Zenon
    <3>2. operands[k] = r
      BY Zenon, <2>1
    <3> HIDE DEF r, operands
    <3> QED
      BY Zenon, <3>1, <3>2
  <2>3. /\ DOMAIN operands = 1..n /\ Len(operands) = n
        /\ operands \in Seq({operands[k] : k \in 1..n})
    BY DEF Operands
  <2> QED
    BY Zenon, <2>2, <2>3
<1> HIDE DEF operands, o, d
<1>12. /\ Len(u.typs) = n /\ DOMAIN u.typs = 1..n
       /\ \A k \in 1..n : u.typs[k] \in DDPType
       /\ ret \in Storable
  <2>1. /\ d.params \in Seq([typ : Storable \cup GenericTypes, ref : BOOLEAN])
        /\ \/ d.ret \in Storable
           \/ d.ret = <<"T">> /\ \E k \in DOMAIN d.params : d.params[k].typ \in GenericTypes
    BY <1>7, OverloadsAssumption, Zenon
  <2>2. \A k \in 1..n : operands[k].t \in Storable
    BY Zenon, <1>10, <1>11
  <2> QED
    BY <1>8, <1>9, <1>11, <2>1, <2>2, UnifiedParameters
<1> HIDE DEF u
<1>13. \A k \in 1..n : Equal(u.typs[k], Args(n)[k].t)
  BY Zenon, <1>9, <1>11 DEF ParamsMatch
<1>14. \A k \in 1..n : toIrType(u.typs[k]) = toIrType(Args(n)[k].t)
  BY Zenon, <1>10, <1>12, <1>13, EqualTypesCompileAlike, BasicValues DEF Equal, GetUnderlying
<1>15. \A k \in 1..n : d.params[k].ref => Args(n)[k].loc = toIrType(Args(n)[k].t)
  <2> DEFINE ts == T(n)
  <2> HIDE DEF ts
  <2>1. KnownDivergence("CAST_REF", ts)
    BY Zenon DEF KnownDivergence
  <2> QED
    BY <1>4, <1>8, <2>1, Zenon DEF ts
<1>16. \A k \in 1..n : d.params[k].ref => Args(n)[k].loc # Void
  BY <1>10, <1>15, BasicValues
<1>17. Right(call)
  <2> DEFINE fits == \A k \in DOMAIN u.typs :
                       IF d.params[k].ref THEN Args(Len(u.typs))[k].loc = toIrType(u.typs[k])
                       ELSE Args(Len(u.typs))[k].ir = toIrType(u.typs[k])
             bad == {k \in DOMAIN d.params : d.params[k].ref /\ Args(Len(u.typs))[k].loc = Void}
             ir == toIrType(ret)
  <2>1. fits
    BY Zenon, <1>10, <1>12, <1>14, <1>15
  <2>2. bad = {}
    BY Zenon, <1>8, <1>12, <1>16
  <2>3. call = IF bad # {} THEN Failed ELSE Outcome(ir, ir, fits, {})
    BY Zenon DEF CallOutcome
  <2> HIDE DEF fits, bad, ret, call
  <2>4. call = Outcome(ir, ir, fits, {})
    BY <2>2, <2>3, Zenon
  <2>5. Agrees(Outcome(ir, ir, fits, {}), ret)
    BY Zenon, <1>12, <2>1, RightOutcomes
  <2> QED
    BY Zenon, <2>4, <2>5 DEF Agrees
<1> HIDE DEF call, ret
<1>18. Temp(ret, toIrType(ret)) \in GoodEntries
  BY Zenon, <1>12, EntriesAreGood
<1>19. stack' \in Seq(GoodEntries)
  <2> DEFINE e == Temp(ret, toIrType(ret))
  <2> HIDE DEF e
  <2>1. e \in GoodEntries /\ stack' = Below(n) \o <<e>>
    BY Zenon, <1>4, <1>18 DEF e
  <2> QED
    BY <1>10, <2>1
<1>20. latest'.err = Compiled(call).err /\ latest'.wf = Compiled(call).wf /\ latest'.conv = Compiled(call).conv
  BY <1>4, Zenon DEF Compiled
<1>21. LatestInv'
  BY Zenon, <1>17, <1>20, LatestOutcome DEF LatestInv
<1> QED
  BY Zenon, <1>4, <1>19, <1>21 DEF SoundInv, StackInv, DeclsInv

\* The invariant holds before anything is compiled.
LEMMA InitSound == Init => SoundInv
<1> SUFFICES ASSUME Init PROVE SoundInv
  BY Zenon
<1>1. Right(Value(Void))
  BY Zenon DEF Right, Value, Outcome
<1>2. LatestInv
  BY Zenon, <1>1, LatestOutcome DEF Init, LatestInv
<1>3. StackInv
  BY DEF Init, StackInv
<1>4. DeclsInv
  BY DEF Init, DeclsInv
<1> QED
  BY Zenon, <1>2, <1>3, <1>4 DEF SoundInv

\* Every visitor keeps the typechecker and the code generator in agreement.
LEMMA StepSound ==
  ASSUME Agreed, SoundInv, OverloadsInv, Step
  PROVE  SoundInv'
<1>1. CASE \E d \in OverloadDecls : DeclareOverload(d)
  BY Zenon, <1>1, DeclareSound DEF OverloadsInv
<1>2. CASE \E t \in Types : VisitIdent(t)
  BY Zenon, <1>2, IdentSound
<1>3. CASE \E op \in {"TYPE_SIZE", "TYPE_DEFAULT"}, t \in Types : VisitTypeOpExpr(op, t)
  BY Zenon, <1>3, TypeOpSound
<1>4. CASE \E op \in UnaryOps : VisitUnaryExpr(op)
  BY Zenon, <1>4, UnarySound
<1>5. CASE \E op \in UnaryOps : VisitOverloaded(op, 1, Void)
  <2>1. PICK op \in UnaryOps : VisitOverloaded(op, 1, Void)
    BY Zenon, <1>5
  <2>2. op \in Ops /\ Arity(op) = 1
    BY Zenon DEF Ops, Arity, UnaryOps, BinaryOps, TernaryOps
  <2> QED
    BY <2>1, <2>2, OverloadedSound
<1>6. CASE \E op \in BinaryOps : VisitBinaryExpr(op)
  BY Zenon, <1>6, BinarySound
<1>7. CASE \E op \in BinaryOps : VisitOverloaded(op, 2, Void)
  <2>1. PICK op \in BinaryOps : VisitOverloaded(op, 2, Void)
    BY Zenon, <1>7
  <2>2. op \in Ops /\ Arity(op) = 2
    BY Zenon DEF Ops, Arity
  <2> QED
    BY <2>1, <2>2, OverloadedSound
<1>8. CASE \E op \in TernaryOps : VisitTernaryExpr(op)
  BY Zenon, <1>8, TernarySound
<1>9. CASE \E t \in Types : VisitOverloaded("CAST_OP", 1, t)
  <2>1. PICK t \in Types : VisitOverloaded("CAST_OP", 1, t)
    BY Zenon, <1>9
  <2>2. "CAST_OP" \in Ops /\ Arity("CAST_OP") = 1
    BY Zenon DEF Ops, Arity, BinaryOps, TernaryOps
  <2> QED
    BY <2>1, <2>2, OverloadedSound
<1>10. CASE \E s \in DOMAIN FieldTypes : \E f \in DOMAIN FieldTypes[s] : VisitFieldAccess(f)
  BY Zenon, <1>10, FieldSound
<1>11. CASE \E t \in Types : VisitCastExpr(t)
  BY Zenon, <1>11, CastSound
<1>12. CASE \E t \in Types : VisitCastAssigneable(t)
  BY Zenon, <1>12, CastAssigneableSound
<1>13. CASE \E t \in Types : VisitTypeCheck(t)
  BY Zenon, <1>13, TypeCheckSound
<1>14. CASE \E n \in 1..2 : VisitListLit(n)
  BY Zenon, <1>14, ListLitSound
<1>15. CASE \E s \in DOMAIN FieldTypes : \E f \in DOMAIN FieldTypes[s], given \in BOOLEAN :
              VisitStructLiteral(s, f, given)
  BY Zenon, <1>15, StructLiteralSound
<1>16. CASE \E t \in Types : VisitVarDecl(t)
  BY Zenon, <1>16, VarDeclSound
<1>17. CASE VisitAssignStmt
  BY Zenon, <1>17, AssignSound
<1>18. CASE \E t \in Types, ref \in BOOLEAN : VisitFuncCall(t, ref)
  BY Zenon, <1>18, FuncCallSound
<1>19. CASE \E t \in Types : VisitReturnStmt(t)
  BY Zenon, <1>19, ReturnSound
<1>20. CASE VisitWhileStmt \/ VisitForStmt \/ \E t \in Types : VisitForRangeStmt(t)
  BY Zenon, <1>20, LoopsSound
<1> QED
  BY <1>1, <1>2, <1>3, <1>4, <1>5, <1>6, <1>7, <1>8, <1>9, <1>10, <1>11, <1>12, <1>13, <1>14,
     <1>15, <1>16, <1>17, <1>18, <1>19, <1>20, Zenon DEF Step

\* The agreement is kept in every program, where the divergences of the README are left out.
LEMMA SoundInvariance ==
  ASSUME Agreed
  PROVE  Spec => []SoundInv
<1>1. Init => SoundInv
  BY Zenon, InitSound
<1>2. SoundInv /\ OverloadsInv /\ [Next]_vars => SoundInv'
  <2> SUFFICES ASSUME SoundInv, OverloadsInv, [Next]_vars
               PROVE  SoundInv'
    BY Zenon
  <2>1. CASE UNCHANGED vars
    BY Zenon, <2>1 DEF vars, SoundInv, StackInv, LatestInv, DeclsInv
  <2>2. CASE Next
    BY Zenon, <2>2, StepSound DEF Next
  <2> QED
    BY Zenon, <2>1, <2>2
<1> QED
  BY <1>1, <1>2, OverloadsInvariance, PTL DEF Spec

\* Whatever types, Kombinationen and overloads a program declares, and however deep its
\* expressions: what typechecker.go accepts never ends the compilation in compiler.go.
THEOREM AcceptedIsCompiled ==
  ASSUME Agreed
  PROVE  Spec => []NoInternalError
<1>1. SoundInv => NoInternalError
  BY Zenon DEF SoundInv, LatestInv, NoInternalError
<1> QED
  BY <1>1, SoundInvariance, PTL

\* The IR type that compiler.go records for an operand is the one of the type typechecker.go
\* evaluated.
THEOREM TypesAlwaysAgree ==
  ASSUME Agreed
  PROVE  Spec => []TypesAgree
<1>1. SoundInv => TypesAgree
  <2> SUFFICES ASSUME SoundInv, NEW i \in DOMAIN stack
               PROVE  stack[i].ir = toIrType(stack[i].t)
    BY Zenon DEF TypesAgree
  <2>1. stack[i] \in GoodEntries
    BY DEF SoundInv, StackInv
  <2> QED
    BY Zenon, <2>1, EntryFacts
<1> QED
  BY <1>1, SoundInvariance, PTL

\* Every value compiler.go leaves has the type recorded for it, and all operands of an emitted
\* instruction or call have one type.
THEOREM IrIsWellTyped ==
  ASSUME Agreed
  PROVE  Spec => []WellTypedIr
<1>1. SoundInv => WellTypedIr
  BY Zenon DEF SoundInv, LatestInv, WellTypedIr
<1> QED
  BY <1>1, SoundInvariance, PTL

\* Every conversion the code generator emits reads Bytes as unsigned and Zahlen as signed.
THEOREM ConversionsAreFaithful ==
  ASSUME Agreed
  PROVE  Spec => []NumbersKeepTheirValue
<1>1. SoundInv => NumbersKeepTheirValue
  BY Zenon DEF SoundInv, LatestInv, NumbersKeepTheirValue
<1> QED
  BY <1>1, SoundInvariance, PTL

\* The vtable a value was packed with by castNonAnyToAny is the one a cast back compares with.
THEOREM VariablesKeepTheirType ==
  ASSUME Agreed
  PROVE  Spec => []VariablesRememberType
<1>1. SoundInv => VariablesRememberType
  <2> SUFFICES ASSUME SoundInv, NEW i \in DOMAIN stack, stack[i].of # Void
               PROVE  stack[i].tag = VTable(stack[i].of)
    BY Zenon DEF VariablesRememberType
  <2>1. stack[i] \in GoodEntries
    BY DEF SoundInv, StackInv
  <2> QED
    BY Zenon, <2>1, EntryFacts
<1> QED
  BY <1>1, SoundInvariance, PTL
=============================================================================
