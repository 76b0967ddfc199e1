------------------------------ MODULE CodeGen ------------------------------
(***************************************************************************)
(* The ownership side of the code generator, src/src/compiler/compiler.go  *)
(* with scope.go: which free, copy and move instructions the visitor emits *)
(* into which basic block for a function of the DDP AST.  Types are        *)
(* abstracted to "non-primitive" (Text, Liste, Kombination, Variable: the  *)
(* value owns memory) and primitive.  The compiler's state is the record   *)
(* c: the blocks of c.cf, the current block c.cbb, the chain of scopes     *)
(* with c.cfscp first and c.scp last, and the result of the last           *)
(* expression.  A stack slot (alloca) is a positive number; -1 is the      *)
(* return parameter of the function, -1 - i its i-th parameter.            *)
(*                                                                         *)
(* llir keeps the terminator of a block apart from its instructions: an    *)
(* instruction emitted after NewBr or NewRet still runs before the jump.   *)
(***************************************************************************)
EXTENDS Integers, Sequences, SequencesExt

(* Instructions: d is the slot written, s the slot read. *)
Ins(o, d, s) == [op |-> o, d |-> d, s |-> s, f |-> "", args |-> << >>]
Free(s)         == Ins("free", 0, s)       \* typ.FreeFunc()
Copy(d, s)      == Ins("copy", d, s)       \* typ.DeepCopyFunc()
Move(d, s)      == Ins("move", d, s)       \* NewLoad, NewStore
Alloc(d)        == Ins("alloc", d, 0)      \* fromConstantsIrFun and the like
Default(d)      == Ins("default", d, 0)    \* store of DefaultValue()
Use(s)          == Ins("use", 0, s)        \* a runtime call that reads s
Absorb(s)       == Ins("absorb", 0, s)     \* store into an element or field
Concat(d, s)    == Ins("concat", d, s)     \* s is claimed for d or freed
Alias(d, s)     == Ins("alias", d, s)      \* an incoming value of a phi
CallFn(f, d, a) == [Ins(IF f.extern THEN "extern" ELSE "call", d, 0) EXCEPT !.f = f.name, !.args = a]

NoTerm == [op |-> "none", b1 |-> 0, b2 |-> 0]
NoBlock == [ins |-> << >>, term |-> NoTerm]

Emits(c, is) == [c EXCEPT !.blocks[c.cbb].ins = @ \o is]
Emit(c, i) == Emits(c, <<i>>)

NewBr(c, b) == [c EXCEPT !.blocks[c.cbb].term = [op |-> "br", b1 |-> b, b2 |-> 0]]
NewCondBr(c, b1, b2) ==
  [c EXCEPT !.blocks[c.cbb].term = [op |-> "condbr", b1 |-> b1, b2 |-> b2]]
NewRet(c) == [c EXCEPT !.blocks[c.cbb].term = [op |-> "ret", b1 |-> 0, b2 |-> 0]]
BrIfOpen(c, b) == IF c.blocks[c.cbb].term = NoTerm THEN NewBr(c, b) ELSE c

NewBlocks(c, n) == [c EXCEPT !.blocks = @ \o [i \in 1 .. n |-> NoBlock]]
At(c, b) == [c EXCEPT !.cbb = b]
Last1(c) == Len(c.blocks) + 1

(* NewAlloca: the new slot is c.n + 1. *)
NewAlloca(c) == [c EXCEPT !.n = @ + 1]

-----------------------------------------------------------------------------
(* scope.go *)

EmptyScope == [vars |-> << >>, temps |-> << >>]

newScope(c) == [c EXCEPT !.scps = Append(@, EmptyScope)]
Depth(c) == Len(c.scps)
dropScope(c) == [c EXCEPT !.scps = Front(@)]

addVarTo(c, x, slot, box, isRef, prot) ==
  [c EXCEPT !.scps[Depth(c)].vars =
     Append(@, [name |-> x, slot |-> slot, box |-> box, isRef |-> isRef, prot |-> prot])]
addVar(c, x, slot, box, isRef) == addVarTo(c, x, slot, box, isRef, FALSE)
addProtected(c, x, slot, box) == addVarTo(c, x, slot, box, FALSE, TRUE)

(* The innermost declaration of x. *)
lookupVar(c, x) ==
  LET d == CHOOSE d \in 1 .. Depth(c) :
             /\ \E i \in DOMAIN c.scps[d].vars : c.scps[d].vars[i].name = x
             /\ \A e \in d + 1 .. Depth(c) :
                  \A i \in DOMAIN c.scps[e].vars : c.scps[e].vars[i].name # x
  IN  SelectSeq(c.scps[d].vars, LAMBDA v : v.name = x)[1]

addTemporary(c, slot) ==
  [c EXCEPT !.scps[Depth(c)].temps = Append(@, [slot |-> slot, prot |-> FALSE])]

(* The last temporary of the current scope with this slot, 0 if none. *)
FindTemporary(c, slot) ==
  SelectLastInSeq(c.scps[Depth(c)].temps, LAMBDA t : t.slot = slot)

(* The panics of scope.go and of llir end the compilation. *)
Panic(c) == [c EXCEPT !.ok = FALSE]
IfOk(c, result) == IF c.ok THEN result ELSE c

claimTemporary(c, slot) ==
  LET i == FindTemporary(c, slot)
  IN  IF i = 0 THEN Panic(c)
      ELSE [c EXCEPT !.scps[Depth(c)].temps = RemoveAt(@, i)]

setProtected(c, slot, b) ==
  LET i == FindTemporary(c, slot)
  IN  IF i = 0 THEN Panic(c)
      ELSE [c EXCEPT !.scps[Depth(c)].temps[i].prot = b]
protectTemporary(c, slot) == setProtected(c, slot, TRUE)
unprotectTemporary(c, slot) == setProtected(c, slot, FALSE)

-----------------------------------------------------------------------------
(* Leaving scopes: compiler.go, freeNonPrimitive to exitFuncScope *)

freeNonPrimitive(c, slot, box) == IF box THEN Emit(c, Free(slot)) ELSE c

Frees(vs) == [i \in DOMAIN vs |-> Free(vs[i].slot)]

freeTemporaries(scp, force) ==
  Frees(SelectSeq(scp.temps, LAMBDA t : force \/ ~ t.prot))

(* Mutant: the temporaries of the scope are forgotten. *)
FreesOfVarsOnly(scp) ==
  Frees(SelectSeq(scp.vars, LAMBDA v : v.box /\ ~ v.isRef /\ ~ v.prot))
(* Mutant: protected variables are freed, too. *)
FreesOfExitProtected(scp) ==
  Frees(SelectSeq(scp.vars, LAMBDA v : v.box /\ ~ v.isRef)) \o freeTemporaries(scp, FALSE)
FreesOfExit(scp) ==
  Frees(SelectSeq(scp.vars, LAMBDA v : v.box /\ ~ v.isRef /\ ~ v.prot))
    \o freeTemporaries(scp, FALSE)

exitScope(c) == dropScope(Emits(c, FreesOfExit(c.scps[Depth(c)])))

(* Parameters that the annotator found constant are not freed at -O2, they *)
(* still belong to the caller.                                             *)
FreesOfFuncExit(c) ==
  Frees(SelectSeq(c.scps[1].vars,
          LAMBDA v : v.box /\ ~ v.isRef /\ ~ (v.name \in c.const /\ c.optimizationLevel >= 2)))
    \o freeTemporaries(c.scps[1], TRUE)

FreesOfReturn(scp) ==
  Frees(SelectSeq(scp.vars, LAMBDA v : v.box /\ ~ v.isRef))
    \o freeTemporaries(scp, TRUE)

(* The scopes from the innermost to scope d. *)
FromInnermost(c, d) == Reverse(SubSeq(c.scps, d, Depth(c)))

exitScopeReturn(c) ==
  LET scps == FromInnermost(c, 2)
  IN  Emits(c, FlattenSeq([i \in DOMAIN scps |-> FreesOfReturn(scps[i])]) \o FreesOfFuncExit(c))

exitNestedScopes(c) ==
  LET scps == FromInnermost(c, c.loop.depth)
  IN  Emits(c, FlattenSeq([i \in DOMAIN scps |-> FreesOfExit(scps[i])]))

-----------------------------------------------------------------------------
(* Expressions: latestReturn, latestReturnType and latestIsTemp are c.ret, *)
(* c.box and c.isTemp.  A primitive result leaves isTemp as it was.        *)

RECURSIVE evaluate(_, _)

Result(c, slot, isTemp) == [c EXCEPT !.ret = slot, !.box = TRUE, !.isTemp = isTemp]
Primitive(c) == [c EXCEPT !.ret = 0, !.box = FALSE]

(* Mutant: the new value is not added to the scope. *)
NewTemporaryUntracked(c, slot) == Result(c, slot, TRUE)
NewTemporary(c, slot) == Result(addTemporary(c, slot), slot, TRUE)

(* What happens to the latest result: it is stored into dest, or into an   *)
(* element, a field or the value of an any, or it is read.                 *)
claimOrCopy(c, dest) ==
  IF ~ c.box THEN c
  ELSE IF c.isTemp THEN Emit(claimTemporary(c, c.ret), Move(dest, c.ret))
  ELSE Emit(c, Copy(dest, c.ret))

claimOrCopyInto(c) ==
  IF ~ c.box THEN c
  ELSE IF c.isTemp THEN Emit(claimTemporary(c, c.ret), Absorb(c.ret))
  ELSE Emit(c, Use(c.ret))

UseIf(c, slot, box) == IF box THEN Emit(c, Use(slot)) ELSE c
UseResult(c) == UseIf(c, c.ret, c.box)

VisitIdent(c, e) ==
  LET v == lookupVar(c, e.x)
  IN  IF v.box THEN Result(c, v.slot, FALSE)
      ELSE [Primitive(c) EXCEPT !.isTemp = FALSE]

(* The container of a list, a struct or an any is allocated first, then it *)
(* takes the elements over.                                                *)
Container(c) == Emit(NewAlloca(c), Alloc(c.n + 1))

(* A new value, or an empty one, in a slot of its own. *)
NewValue(c) == NewTemporary(Container(c), c.n + 1)
NewDefault(c) == NewTemporary(Emit(NewAlloca(c), Default(c.n + 1)), c.n + 1)

VisitStringLit(c, e) == IF e.empty THEN NewDefault(c) ELSE NewValue(c)

RECURSIVE storeElements(_, _)
storeElements(c, es) ==
  IF es = << >> THEN c
  ELSE storeElements(claimOrCopyInto(evaluate(c, Head(es))), Tail(es))

VisitListLit(c, e) == NewTemporary(storeElements(Container(c), e.es), c.n + 1)

(* A list of one value several times: each element is a deep copy. *)
VisitListCount(c, e) == NewTemporary(UseResult(evaluate(Container(c), e.e)), c.n + 1)

(* UN_LEN and the other operators that read a value and yield a primitive. *)
VisitUnaryExpr(c, e) == Primitive(UseResult(evaluate(c, e.e)))

(* BIN_AND; BIN_OR is the same with the two branches swapped.  The right   *)
(* operand has a scope of its own.                                         *)
AndRhs(c, rhs) ==
  LET trueBlock == Last1(c)
      leaveBlock == trueBlock + 1
      c1 == At(NewCondBr(NewBlocks(c, 2), trueBlock, leaveBlock), trueBlock)
  IN  Primitive(At(NewBr(exitScope(evaluate(newScope(c1), rhs)), leaveBlock), leaveBlock))
VisitAnd(c, e) == AndRhs(evaluate(c, e.l), e.r)

(* BIN_FIELD_ACCESS and BIN_INDEX with a non-primitive field or element:   *)
(* of a variable it is a pointer into the container, of a temporary it is  *)
(* moved (field) or copied (element) out of it.                            *)
ElementOfResult(c) == IF c.isTemp THEN NewValue(c) ELSE Result(c, c.ret, FALSE)
VisitElement(c, e) == ElementOfResult(UseResult(evaluate(c, e.e)))

(* BIN_CONCAT: claims says whether the concat function of the operand      *)
(* types uses the buffer of "l", of "r" or of none of its arguments.       *)
ConcatWith(c, claimed, other) ==
  LET result == c.n + 1
      dest == c.n + 2
      c1 == UseIf([c EXCEPT !.n = dest], other.ret, other.box)
  IN  NewTemporary(
        Emits(c1, IF claimed.isTemp THEN <<Concat(result, claimed.ret)>>
                  ELSE <<Copy(dest, claimed.ret), Concat(result, dest)>>), result)
ConcatResults(c, lhs, claims) ==
  CASE claims = "l"    -> ConcatWith(c, lhs, c)
    [] claims = "r"    -> ConcatWith(c, c, lhs)
    [] claims = "none" -> NewValue(UseResult(UseIf(c, lhs.ret, lhs.box)))
ConcatRhs(lhs, e) == ConcatResults(evaluate(lhs, e.r), lhs, e.claims)
VisitConcat(c, e) == ConcatRhs(evaluate(c, e.l), e)

(* Arithmetic and comparisons: both operands are read, the result is       *)
(* primitive.                                                              *)
BinaryRhs(lhs, rhs) == Primitive(UseIf(UseResult(evaluate(lhs, rhs)), lhs.ret, lhs.box))
VisitBinaryExpr(c, e) == BinaryRhs(evaluate(c, e.l), e.r)

(* BIN_SLICE_FROM, BIN_SLICE_TO and TER_SLICE *)
VisitSlice(c, e) == NewValue(UseResult(evaluate(c, e.e)))

(* VisitIndexing: an element of a variable, by pointer. *)
VisitIndexing(c, e) == UseResult(Result(c, lookupVar(c, e.x).slot, FALSE))

(* VisitFieldAccess: a copy of the field of a variable. *)
VisitFieldAccess(c, e) == NewValue(Emit(c, Use(lookupVar(c, e.x).slot)))

(* Casts to Variable (castNonAnyToAny) and to a list of one element. *)
IntoContainer(c) == NewTemporary(claimOrCopyInto(Container(c)), c.n + 1)
castNonAnyToAny(c, e) == IntoContainer(evaluate(c, e.e))

(* VisitCastExpr, nonPrimitiveAnyCast: the value leaves its Variable; the  *)
(* temporary Variable is claimed, so that only the value is freed.         *)
OutOfAny(c) == NewTemporary(claimOrCopy(NewAlloca(c), c.n + 1), c.n + 1)
nonPrimitiveAnyCast(c, e) == OutOfAny(evaluate(c, e.e))

(* VisitTypeOpExpr, TYPE_DEFAULT of a text or list *)
VisitTypeOpExpr(c, e) == NewDefault(c)

(* TER_FALLS: one branch of the conditional expression in a scope of its   *)
(* own; a temporary result is claimed before the scope is left.            *)
ClaimResult(c) == IF c.isTemp /\ c.box THEN claimTemporary(c, c.ret) ELSE c
FallsBranch(c, block, e, leaveBlock) ==
  NewBr(exitScope(ClaimResult(evaluate(newScope(At(c, block)), e))), leaveBlock)

(* The phi's incoming value from branch b: an operand that is not          *)
(* temporary is deep copied into dest if the other one is temporary.       *)
Incoming(c, b, phi, dest, copies) ==
  CASE copies /\ ~ b.box   -> Panic(c)
    [] copies /\ b.box     -> Emits(At(c, b.cbb), <<Copy(dest, b.ret), Alias(phi, dest)>>)
    [] ~ copies /\ b.box   -> Emit(At(c, b.cbb), Alias(phi, b.ret))
    [] ~ copies /\ ~ b.box -> c
FallsJoin(r, l, leaveBlock) ==
  LET phi == r.n + 1
      dest == r.n + 2
      c1 == Incoming([r EXCEPT !.n = dest], l, phi, dest, r.isTemp /\ ~ l.isTemp)
      c2 == At(Incoming(c1, r, phi, dest, l.isTemp /\ ~ r.isTemp), leaveBlock)
  IN  IF ~ l.box THEN [c2 EXCEPT !.isTemp = l.isTemp \/ r.isTemp]
      ELSE IF l.isTemp \/ r.isTemp THEN NewTemporary(c2, phi)
      ELSE Result(c2, phi, FALSE)
FallsRhs(lhs, rhs, block, leaveBlock) ==
  FallsJoin(FallsBranch(lhs, block, rhs, leaveBlock), lhs, leaveBlock)
FallsOperands(c, e) ==
  LET b == Last1(c)
  IN  FallsRhs(FallsBranch(NewCondBr(NewBlocks(c, 3), b, b + 1), b, e.l, b + 2), e.r, b + 1, b + 2)
VisitFalls(c, e) == FallsOperands(evaluate(c, e.c), e)

(* The arguments of a call, in the order of the parameters ps.  The slots  *)
(* passed are collected in c.args.                                         *)
AddArg(c, slot) == [c EXCEPT !.args = Append(@, slot)]
passValue(c, f, p) ==
  IF ~ c.box \/ (~ f.extern /\ c.optimizationLevel >= 2 /\ p.isConst)
    THEN AddArg(c, c.ret)
    ELSE AddArg(claimOrCopy(NewAlloca(c), c.n + 1), c.n + 1)

RECURSIVE passArgs(_, _, _, _)
passArgs(c, f, ps, es) ==
  IF ps = << >> THEN c
  ELSE passArgs(IF Head(ps).isRef THEN AddArg(c, lookupVar(c, Head(es).x).slot)
                ELSE passValue(evaluate(c, Head(es)), f, Head(ps)),
                f, Tail(ps), Tail(es))

(* The value parameters of an extern function are freed by the caller. *)
OwnedArgs(f, args) ==
  LET I == SelectSeq([i \in DOMAIN args |-> i], LAMBDA i : ~ f.params[i].isRef /\ args[i] # 0)
  IN  [i \in DOMAIN I |-> Free(args[I[i]])]

CallWith(c, f, ret) ==
  LET c1 == Emit(c, CallFn(f, ret, c.args))
      c2 == IF f.box THEN NewTemporary(c1, ret) ELSE Primitive(c1)
  IN  IfOk(c, IF f.extern THEN Emits(c2, OwnedArgs(f, c.args)) ELSE c2)
VisitFuncCall(c, e) ==
  LET c1 == [c EXCEPT !.n = IF e.fun.box THEN @ + 1 ELSE @, !.args = << >>]
      ret == IF e.fun.box THEN c.n + 1 ELSE 0
  IN  [CallWith(passArgs(c1, e.fun, e.fun.params, e.args), e.fun, ret) EXCEPT !.args = c.args]

evaluate(c, e) ==
  CASE ~ c.ok          -> c
    [] e.k = "ident"   -> VisitIdent(c, e)
    [] e.k = "lit"     -> VisitStringLit(c, e)
    [] e.k = "prim"    -> Primitive(c)
    [] e.k = "list"    -> VisitListLit(c, e)
    [] e.k = "times"   -> VisitListCount(c, e)
    [] e.k = "len"     -> VisitUnaryExpr(c, e)
    [] e.k = "and"     -> VisitAnd(c, e)
    [] e.k = "element" -> VisitElement(c, e)
    [] e.k = "concat"  -> VisitConcat(c, e)
    [] e.k = "falls"   -> VisitFalls(c, e)
    [] e.k = "call"    -> VisitFuncCall(c, e)
    [] e.k = "binary"  -> VisitBinaryExpr(c, e)
    [] e.k = "slice"   -> VisitSlice(c, e)
    [] e.k = "index"   -> VisitIndexing(c, e)
    [] e.k = "field"   -> VisitFieldAccess(c, e)
    [] e.k = "toany"   -> castNonAnyToAny(c, e)
    [] e.k = "fromany" -> nonPrimitiveAnyCast(c, e)
    [] e.k = "default" -> VisitTypeOpExpr(c, e)

-----------------------------------------------------------------------------
(* Statements *)

RECURSIVE visitNode(_, _)

Declare(c, x, slot) == addVar(claimOrCopy(c, slot), x, slot, c.box, FALSE)
VisitVarDecl(c, s) == Declare(evaluate(NewAlloca(c), s.e), s.x, c.n + 1)

(* The old value is freed when the new one is evaluated; with elem the     *)
(* left side is an element or a field of the variable lhs.                 *)
Store(c, lhs, elem) ==
  IF elem THEN claimOrCopyInto(Emit(c, Use(lhs.slot)))
  ELSE claimOrCopy(freeNonPrimitive(c, lhs.slot, lhs.box), lhs.slot)

(* Mutant: the old value is freed before the new one is evaluated. *)
VisitAssignStmtFreeFirst(c, s) ==
  LET lhs == lookupVar(c, s.x)
  IN  claimOrCopy(evaluate(freeNonPrimitive(c, lhs.slot, lhs.box), s.e), lhs.slot)
VisitAssignStmt(c, s) == Store(evaluate(c, s.e), lookupVar(c, s.x), s.elem)

(* The statements of a block: what follows a return statement is dropped. *)
RECURSIVE visitStatements(_, _)
visitStatements(c, ss) ==
  IF ~ c.ok \/ ss = << >> THEN c
  ELSE IF Head(ss).k = "return" THEN visitNode(c, Head(ss))
  ELSE visitStatements(visitNode(c, Head(ss)), Tail(ss))

HasReturn(ss) == \E i \in DOMAIN ss : ss[i].k = "return"

EndBlock(c, wasReturn) == IfOk(c, IF wasReturn THEN dropScope(c) ELSE exitScope(c))
VisitBlockStmt(c, s) == EndBlock(visitStatements(newScope(c), s.ss), HasReturn(s.ss))

(* Leaving the scope of a branch or a loop body; the frees are emitted     *)
(* into the block that has just been closed.                               *)
EndBranch(c, target) == IfOk(c, exitScope(BrIfOpen(c, target)))
IfBranch(c, block, s, leaveBlock) ==
  IF s.k = "none" THEN c
  ELSE EndBranch(visitNode(newScope(At(c, block)), s), leaveBlock)

IfBranches(c, s) ==
  LET thenBlock == Last1(c)
      elseBlock == thenBlock + 1
      leaveBlock == thenBlock + 2
      c1 == NewCondBr(NewBlocks(c, 3), thenBlock, IF s.e.k = "none" THEN leaveBlock ELSE elseBlock)
  IN  At(IfBranch(IfBranch(c1, thenBlock, s.t, leaveBlock), elseBlock, s.e, leaveBlock), leaveBlock)
VisitIfStmt(c, s) == IfBranches(evaluate(c, s.c), s)

Loop(d, leave, continue) == [depth |-> d, leave |-> leave, continue |-> continue]
InLoop(c, l) == [c EXCEPT !.loop = l]

(* The blocks of a while or repeat loop: b is the block of the condition,  *)
(* then come body, breakLeave, leaveBlock and trueLeave.                   *)
LoopBody(c, b, s, first) ==
  LET c1 == newScope(At(NewBr(NewBlocks(c, 5), first), b + 1))
  IN  At(EndBranch(visitNode(InLoop(c1, Loop(Depth(c) + 1, b + 2, b)), s.body), b), b)
EndLoop(c, b, outer) ==
  LET c1 == NewBr(At(NewCondBr(c, b + 1, b + 3), b + 3), b + 4)
  IN  InLoop(At(NewBr(At(c1, b + 2), b + 4), b + 4), outer)

(* SOLANGE and MACHE: the condition is compiled after the body, in the     *)
(* scope around the loop.                                                  *)
VisitWhileStmt(c, s) ==
  LET b == Last1(c)
  IN  EndLoop(evaluate(LoopBody(c, b, s, IF s.k = "while" THEN b ELSE b + 1), s.c), b, c.loop)

(* WIEDERHOLE: the count is evaluated once, before the loop. *)
RepeatLoop(c, s) ==
  LET b == Last1(c)
  IN  EndLoop(LoopBody(c, b, s, b), b, c.loop)
VisitRepeatStmt(c, s) == RepeatLoop(evaluate(c, s.c), s)

(* The blocks of a counting loop: b is the block of the condition, then    *)
(* come incrementBlock, forBody, breakLeave, loopDown, loopUp, leaveBlock  *)
(* and trueLeave.  The counter is primitive; s.init, s.step and s.to may   *)
(* create temporaries.  s.to is compiled twice, for counting up and down.  *)
ForCondition(c, b, block, to) == NewCondBr(evaluate(At(c, block), to), b + 2, b + 6)
EndFor(c, b, s, outer) ==
  LET c1 == NewBr(At(BrIfOpen(c, b + 1), b + 1), b)
      c2 == NewCondBr(At(c1, b), b + 4, b + 5)
      c3 == ForCondition(ForCondition(c2, b, b + 5, s.to), b, b + 4, s.to)
      c4 == NewBr(exitScope(At(c3, b + 6)), b + 7)
  IN  IfOk(c, InLoop(At(NewBr(At(c4, b + 3), b + 7), b + 7), outer))
ForBody(c, b, s, outer) ==
  LET c1 == At(NewBr(NewBlocks(c, 8), b), b + 2)
  IN  EndFor(visitNode(InLoop(c1, Loop(Depth(c), b + 3, b + 1)), s.body), b, s, outer)
ForLoop(c, s) == ForBody(c, Last1(c), s, c.loop)
VisitForStmt(c, s) ==
  ForLoop(evaluate(VisitVarDecl(newScope(c), [x |-> s.x, e |-> s.init]), s.step), s)

(* The blocks of a loop over a list or text: b is loopStart, then come     *)
(* condBlock, bodyBlock, incrementBlock, leaveBlock, continueBlock,        *)
(* breakLeave and trueLeave.  in is the slot of the list, in + 1 that of   *)
(* the loop variable; s.box: the loop variable is non-primitive.           *)
RangeSlot(c, in) == protectTemporary(addTemporary(claimOrCopy([c EXCEPT !.n = in + 1], in), in), in)
EndRange(c, b, s, in, outer) ==
  LET c1 == BrIfOpen(freeNonPrimitive(c, in + 1, s.box), b + 3)
      c2 == NewBr(At(c1, b + 3), b + 1)
      c3 == NewBr(exitScope(unprotectTemporary(At(c2, b + 4), in)), b + 7)
      c4 == freeNonPrimitive(Emit(At(c3, b + 6), Free(in)), in + 1, s.box)
  IN  IfOk(c, InLoop(At(NewBr(c4, b + 7), b + 7), outer))
RangeBody(c, b, s, in) ==
  LET c1 == At(NewCondBr(NewBlocks(Emit(c, Use(in)), 8), b + 4, b), b)
      c2 == At(NewBr(addProtected(c1, s.x, in + 1, s.box), b + 1), b + 1)
      c3 == At(NewCondBr(c2, b + 2, b + 4), b + 5)
      c4 == At(NewBr(freeNonPrimitive(c3, in + 1, s.box), b + 3), b + 2)
      c5 == Emit(c4, IF s.box THEN Copy(in + 1, in) ELSE Use(in))
  IN  EndRange(visitNode(InLoop(c5, Loop(Depth(c), b + 6, b + 5)), s.body), b, s, in, c.loop)
RangeLoop(c, s) == RangeBody(RangeSlot(c, c.n + 1), Last1(c), s, c.n + 1)
VisitForRangeStmt(c, s) == RangeLoop(evaluate(newScope(c), s.in), s)

Jump(c, target) == At(NewBlocks(NewBr(c, target), 1), Last1(c))
VisitBreakContinueStmt(c, s) ==
  Jump(exitNestedScopes(c), IF s.k = "break" THEN c.loop.leave ELSE c.loop.continue)

(* The result is stored, the return emitted, and then the frees: they      *)
(* still run before the return.                                            *)
ReturnResult(c) ==
  exitScopeReturn(NewRet(IF c.box THEN claimOrCopy(Emit(c, Move(-1, c.ret)), -1) ELSE c))
VisitReturnStmt(c, s) ==
  IF s.e.k = "none" THEN NewRet(exitScopeReturn(c)) ELSE ReturnResult(evaluate(c, s.e))

visitNode(c, s) ==
  CASE ~ c.ok                          -> c
    [] s.k = "var"                     -> VisitVarDecl(c, s)
    [] s.k = "assign"                  -> VisitAssignStmt(c, s)
    [] s.k = "expr"                    -> evaluate(c, s.e)
    [] s.k = "block"                   -> VisitBlockStmt(c, s)
    [] s.k = "if"                      -> VisitIfStmt(c, s)
    [] s.k \in {"while", "dowhile"}    -> VisitWhileStmt(c, s)
    [] s.k = "repeat"                  -> VisitRepeatStmt(c, s)
    [] s.k = "for"                     -> VisitForStmt(c, s)
    [] s.k = "forrange"                -> VisitForRangeStmt(c, s)
    [] s.k \in {"break", "continue"}   -> VisitBreakContinueStmt(c, s)
    [] s.k = "return"                  -> VisitReturnStmt(c, s)

-----------------------------------------------------------------------------
(* Functions *)

(* A reference parameter names the caller's variable; a value parameter is *)
(* moved into a local variable, the caller has made the copy.              *)
ParamVar(f, i) ==
  LET p == f.params[i]
  IN  [name |-> p.name, slot |-> IF p.isRef THEN -1 - i ELSE i,
       box |-> p.box, isRef |-> p.isRef, prot |-> FALSE]
ParamMoves(f) ==
  LET I == SelectSeq([i \in DOMAIN f.params |-> i], LAMBDA i : f.params[i].box /\ ~ f.params[i].isRef)
  IN  [j \in DOMAIN I |-> Move(I[j], -1 - I[j])]

(* The compiler when it starts with the body of f. *)
StartFunc(f, level) ==
  [optimizationLevel |-> level,
   blocks |-> <<[NoBlock EXCEPT !.ins = ParamMoves(f)]>>,
   cbb    |-> 1,
   n      |-> Len(f.params),
   scps   |-> <<[EmptyScope EXCEPT !.vars = [i \in DOMAIN f.params |-> ParamVar(f, i)]]>>,
   const  |-> {f.params[i].name : i \in {j \in DOMAIN f.params : f.params[j].isConst}},
   loop   |-> Loop(0, 0, 0),
   args   |-> << >>,
   ret    |-> 0, box |-> FALSE, isTemp |-> FALSE,
   ok     |-> TRUE]

(* The body is a modified VisitBlockStmt; exitFuncScope frees the parameters. *)
RetIfOpen(c) == IF c.blocks[c.cbb].term = NoTerm THEN NewRet(c) ELSE c
EndFunc(c, wasReturn) ==
  IfOk(c, IF wasReturn THEN RetIfOpen(c) ELSE Emits(RetIfOpen(c), FreesOfFuncExit(c)))
defineFuncBody(f, level) ==
  EndFunc(EndBlock(visitStatements(newScope(StartFunc(f, level)), f.body), HasReturn(f.body)), HasReturn(f.body))

(* A program: its functions by name, "main" is ddp_main. *)
compile(fs, level) ==
  [g \in {f.name : f \in fs} |-> defineFuncBody(CHOOSE f \in fs : f.name = g, level)]
=============================================================================
