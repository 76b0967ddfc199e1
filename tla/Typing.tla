------------------------------- MODULE Typing -------------------------------
(***************************************************************************)
(* The typechecker and the code generator, side by side, on the same       *)
(* expressions.  stack holds the operands evaluated so far: t is the type  *)
(* the typechecker gave, ir the type the code generator recorded; asg says *)
(* whether the expression is an Assigneable ("ref"), isAssignable makes    *)
(* one of it ("expr") or neither ("no"), and loc is the IR type of the     *)
(* storage such a reference leads to, Void for a character of a text.  For *)
(* a Variable, of is the type of the value in it and tag its vtable.       *)
(* latest is what came of compiling the last expression or statement; only *)
(* what the typechecker accepts is compiled.                               *)
(***************************************************************************)
EXTENDS Overloads, Typechecker, IrTyping, FiniteSets

CONSTANTS Types,          \* types of variables
          MaxOverloads,   \* bound on how many it declares
          OverloadTypes,  \* types of variables in programs with overloads
          ThirdTypes,     \* types of a third operand; at most three are on the stack
          MaxSteps,       \* bound on the operands and operations of one statement
          OverloadSteps,  \* the same in programs with overloads
          Agreed          \* TRUE: leave the operations of KnownDivergence out

VARIABLES operators, stack, latest, steps

vars == <<operators, stack, latest, steps>>

ASSUME TypesAssumption ==
  /\ Types \subseteq Storable
  /\ DOMAIN FieldTypes = Structs
  /\ \A s \in Structs : \A f \in DOMAIN FieldTypes[s] : FieldTypes[s][f] \in Storable

\* a type parameter that is returned is the type of a parameter
ASSUME OverloadsAssumption ==
  \A d \in OverloadDecls :
    /\ d.params \in Seq([typ : Storable \cup GenericTypes, ref : BOOLEAN])
    /\ \/ d.ret \in Storable
       \/ d.ret = <<"T">> /\ \E i \in DOMAIN d.params : d.params[i].typ \in GenericTypes

Entry(t, ir, asg, loc) == [t |-> t, ir |-> ir, asg |-> asg, loc |-> loc,
                           of |-> Void, tag |-> Void]

NewVar(t) == Entry(t, toIrType(t), "ref", toIrType(t))

Temp(t, ir) == Entry(t, ir, "no", Void)

Top(n) == stack[Len(stack) + 1 - n]

Args(n) == SubSeq(stack, Len(stack) + 1 - n, Len(stack))

T(n) == [i \in 1..n |-> Args(n)[i].t]

Ir(n) == [i \in 1..n |-> Args(n)[i].ir]

Below(n) == SubSeq(stack, 1, Len(stack) - n)

\* what is left out of programs in which the two are to agree
Compilable(op, ts) == Agreed => ~ KnownDivergence(op, ts)
-----------------------------------------------------------------------------
Compiled(o) == [err |-> o.err, wf |-> o.wf /\ o.rep = o.typ, conv |-> o.conv, choice |-> << >>]

Init ==
  /\ operators = [op \in Ops |-> << >>]
  /\ stack = << >>
  /\ latest = Compiled(Value(Void))
  /\ steps = 0

Count == steps' = IF stack' = << >> THEN 0 ELSE steps + 1

\* a new operand
Push(entry) ==
  /\ stack' = Append(stack, entry)
  /\ latest' = Compiled(Value(entry.ir))
  /\ Count
  /\ UNCHANGED operators

\* an operation replaces n operands
Yield(n, entries, o) ==
  /\ stack' = Below(n) \o entries
  /\ latest' = Compiled(o)
  /\ Count
  /\ UNCHANGED operators

Declared == {p \in Ops \X (1..MaxOverloads) : p[2] <= Len(operators[p[1]])}

DeclareOverload(d) ==
  /\ stack = << >>
  /\ Cardinality(Declared) < MaxOverloads
  /\ operators' = [operators EXCEPT ![d.op] = insertOperatorOverload(d.op, @, d)]
  /\ latest' = Compiled(Value(Void))
  /\ UNCHANGED <<stack, steps>>

\* a variable, a default value or a size
VisitIdent(t) ==
  /\ Declared # {} => t \in OverloadTypes
  /\ Len(stack) < 2 \/ (Len(stack) = 2 /\ t \in ThirdTypes)
  /\ Push(NewVar(t))

VisitTypeOpExpr(op, t) ==
  LET tc == TC_VisitTypeOpExpr(op, t)
  IN /\ stack = << >>
     /\ Push(Temp(tc.typ, toIrType(tc.typ)))

Target(op, t) == IF op = "CAST_OP" THEN t ELSE Void

\* what the choice of an overload is made from
Operands(n) == [i \in 1..n |-> [t |-> Args(n)[i].t, asg |-> Args(n)[i].asg # "no"]]

Overload(op, n, t, inst) == findOverload(operators[op], Operands(n), Target(op, t), inst)

NotOverloaded(op, n, t) == Overload(op, n, t, FALSE) = 0

\* an overloaded operator is compiled as a call: references, then values
CallOutcome(d, ts, ret) ==
  LET bad == {i \in DOMAIN d.params : d.params[i].ref /\ Args(Len(ts))[i].loc = Void}
      fit(i) == IF d.params[i].ref THEN Args(Len(ts))[i].loc = toIrType(ts[i])
                                   ELSE Args(Len(ts))[i].ir = toIrType(ts[i])
  IN IF bad # {} THEN Failed
     ELSE Outcome(toIrType(ret), toIrType(ret), \A i \in DOMAIN ts : fit(i), {})

OverloadedExpr(op, n, t, i, d) ==
  LET u   == Unified(d, Operands(n))
      ret == ReturnType(d, u.bound)
  IN /\ (\E k \in DOMAIN d.params : d.params[k].ref /\ Args(n)[k].loc # toIrType(Args(n)[k].t))
          => Compilable("CAST_REF", T(n))
     /\ stack' = Below(n) \o <<Temp(ret, toIrType(ret))>>
     /\ latest' = [Compiled(CallOutcome(d, u.typs, ret)) EXCEPT !.choice = <<[op |-> op, operands |-> Operands(n), target |-> Target(op, t), i |-> i]>>]
     /\ Count
     /\ UNCHANGED operators

VisitOverloaded(op, n, t) ==
  /\ Len(stack) >= n
  /\ \E inst \in BOOLEAN :
       \E i \in {Overload(op, n, t, inst)} \ {0} : OverloadedExpr(op, n, t, i, operators[op][i])

VisitUnaryExpr(op) ==
  /\ Len(stack) >= 1
  /\ NotOverloaded(op, 1, Void)
  /\ LET tc == TC_VisitUnaryExpr(op, Top(1).t)
     IN /\ tc.ok /\ Compilable(op, T(1))
        /\ Yield(1, <<Temp(tc.typ, CG_VisitUnaryExpr(op, Top(1).ir).typ)>>,
                 CG_VisitUnaryExpr(op, Top(1).ir))

\* an element of a text has no location of its own
ElementLoc(e) == IF e.loc # Void /\ IsIrList(e.loc) THEN Tail(e.loc) ELSE Void

BinaryEntry(op, t, ir) ==
  IF op = "BIN_INDEX" /\ Top(2).asg # "no" THEN Entry(t, ir, Top(2).asg, ElementLoc(Top(2)))
  ELSE Temp(t, ir)

VisitBinaryExpr(op) ==
  /\ Len(stack) >= 2
  /\ NotOverloaded(op, 2, Void)
  /\ LET tc == TC_VisitBinaryExpr(op, Top(2).t, Top(1).t)
     IN /\ tc.ok /\ Compilable(op, T(2))
        /\ Yield(2, <<BinaryEntry(op, tc.typ, CG_VisitBinaryExpr(op, Top(2).ir, Top(1).ir).typ)>>,
                 CG_VisitBinaryExpr(op, Top(2).ir, Top(1).ir))

VisitFieldAccess(field) ==
  /\ Len(stack) >= 1
  /\ LET tc == checkFieldAccess(field, Top(1).t)
     IN /\ IsStruct(Top(1).t) /\ tc.ok
        /\ Yield(1, <<Entry(tc.typ, toIrType(tc.typ), Top(1).asg,
                            IF Top(1).asg = "no" THEN Void ELSE toIrType(tc.typ))>>,
                 Value(toIrType(tc.typ)))

VisitTernaryExpr(op) ==
  /\ Len(stack) >= 3
  /\ NotOverloaded(op, 3, Void)
  /\ LET tc == TC_VisitTernaryExpr(op, Top(3).t, Top(2).t, Top(1).t)
     IN /\ tc.ok /\ Compilable(op, T(3))
        /\ Yield(3, <<Temp(tc.typ, CG_VisitTernaryExpr(op, Top(3).ir, Top(2).ir, Top(1).ir).typ)>>,
                 CG_VisitTernaryExpr(op, Top(3).ir, Top(2).ir, Top(1).ir))

\* a value packed into a Variable keeps its type in the vtable
Packed(e, of, tag) == [e EXCEPT !.of = of, !.tag = tag]

CastEntry(t, o) ==
  LET e == Entry(t, o.typ, IF Top(1).asg = "no" THEN "no" ELSE "expr", Top(1).loc)
  IN IF ~ IsAny(t) THEN e
     ELSE IF IsAny(Top(1).t) THEN Packed(e, Top(1).of, Top(1).tag)
     ELSE Packed(e, Top(1).t, Top(1).ir)

VisitCastExpr(t) ==
  /\ Len(stack) >= 1
  /\ NotOverloaded("CAST_OP", 1, t)
  /\ TC_VisitCastExpr(Top(1).t, t).ok /\ Compilable("CAST_OP", <<Top(1).t, t>>)
  /\ Yield(1, <<CastEntry(t, CG_VisitCastExpr(Top(1).ir, t))>>, CG_VisitCastExpr(Top(1).ir, t))

\* a cast among the targets of an assignment or the references of a call
VisitCastAssigneable(t) ==
  /\ Len(stack) >= 1 /\ Top(1).asg = "ref"
  /\ Equal(TrueUnderlying[Top(1).t], TrueUnderlying[t])
  /\ Compilable("CAST_OP", <<Top(1).t, t>>)
  /\ Yield(1, <<[Top(1) EXCEPT !.t = t]>>, CG_VisitCastExpr(Top(1).ir, t))

VisitTypeCheck(t) ==
  /\ Len(stack) >= 1 /\ TC_VisitTypeCheck(Top(1).t, t).ok
  /\ Yield(1, <<Temp(WAHRHEITSWERT, WAHRHEITSWERT)>>, Value(WAHRHEITSWERT))

VisitListLit(n) ==
  /\ Len(stack) >= n
  /\ TC_VisitListLit(T(n)).ok /\ Compilable("LIST", T(n))
  /\ Yield(n, <<Temp(ListOf(T(n)[1]), CG_VisitListLit(T(n)[1], Ir(n)).typ)>>,
           CG_VisitListLit(T(n)[1], Ir(n)))

StoredAsUnderlying(e, t) ==
  IF IsAny(t) /\ ~ IsAny(Top(1).t) THEN Packed(e, Top(1).t, Top(1).ir)
  ELSE Packed(e, Top(1).of, Top(1).tag)

Stored(e, t) == IF IsAny(t) /\ ~ IsAny(Top(1).t) THEN Packed(e, Top(1).t, VTable(Top(1).t))
                ELSE Packed(e, Top(1).of, Top(1).tag)

\* the value of a field is an argument or, converted or packed, its default value
VisitStructLiteral(s, field, given) ==
  LET t == FieldTypes[s][field]
  IN /\ Len(stack) >= 1
     /\ IF given THEN TC_VisitStructLiteral(t, Top(1).t).ok ELSE TC_VisitVarDecl(t, Top(1).t).ok
     /\ ~ given => Compilable("FIELD", <<t, Top(1).t>>)
     /\ Yield(1, <<Temp(<<s>>, <<s>>)>>, evaluateStructLiteral(t, Top(1).ir))

VisitVarDecl(t) ==
  /\ Len(stack) >= 1
  /\ TC_VisitVarDecl(t, Top(1).t).ok
  /\ Yield(1, <<Stored(NewVar(t), t)>>, CG_VisitVarDecl(t, Top(1).t, Top(1).ir))

\* the target is a character of a text when it has no location of its own
VisitAssignStmt ==
  /\ Len(stack) >= 2 /\ Top(2).asg = "ref"
  /\ TC_VisitAssignStmt(Top(2).t, Top(1).t).ok
  /\ LET loc == IF Top(2).loc = Void THEN BUCHSTABE ELSE Top(2).loc
     IN Yield(2, <<Stored(Top(2), Top(2).t)>>,
              CG_VisitAssignStmt(Top(2).t, loc, Top(1).t, Top(1).ir))

VisitFuncCall(t, ref) ==
  /\ Len(stack) >= 1 /\ Equal(Top(1).t, t)
  /\ ref => Top(1).asg = "ref" /\ ~ (Top(1).loc = Void /\ Equal(t, BUCHSTABE))
  /\ ref /\ Top(1).loc = Void => Compilable("TEXT_REF", T(1))
  /\ Yield(1, << >>, evaluateAssignableOrReference(IF ref THEN Top(1).loc ELSE Top(1).ir,
                                                         toIrType(t)))

\* the value a call of the function yields
VisitReturnStmt(t) ==
  /\ Len(stack) >= 1
  /\ TC_VisitReturnStmt(t, Top(1).t).ok /\ Compilable("RETURN", <<Top(1).t, t>>)
  /\ Yield(1, <<IF IsAny(t) /\ ~ IsAny(Top(1).t) THEN Packed(Temp(t, VARIABLE_), Top(1).t, Top(1).ir)
                ELSE Packed(Temp(t, toIrType(t)), Top(1).of, Top(1).tag)>>,
           CG_VisitReturnStmt(t, Top(1).ir))

VisitWhileStmt ==
  /\ Len(stack) >= 1
  /\ TC_VisitRepeat(Top(1).t).ok /\ Compilable("REPEAT", T(1))
  /\ Yield(1, << >>, CG_VisitRepeat(Top(1).ir))

VisitForStmt ==
  /\ Len(stack) >= 3
  /\ TC_VisitForStmt(Top(3).t, Top(2).t, Top(1).t).ok /\ Compilable("FOR", T(3))
  /\ Yield(3, << >>, CG_VisitForStmt(Top(3).ir, Top(2).ir, Top(1).ir))

VisitForRangeStmt(element) ==
  /\ Len(stack) >= 1
  /\ TC_VisitForRangeStmt(element, Top(1).t).ok
  /\ Yield(1, << >>, CG_VisitForRangeStmt(toIrType(element), Top(1).ir))

Step ==
  \/ \E d \in OverloadDecls : DeclareOverload(d)
  \/ \E t \in Types : VisitIdent(t)
  \/ \E op \in {"TYPE_SIZE", "TYPE_DEFAULT"}, t \in Types : VisitTypeOpExpr(op, t)
  \/ \E op \in UnaryOps : VisitUnaryExpr(op)
  \/ \E op \in UnaryOps : VisitOverloaded(op, 1, Void)
  \/ \E op \in BinaryOps : VisitBinaryExpr(op)
  \/ \E op \in BinaryOps : VisitOverloaded(op, 2, Void)
  \/ \E op \in TernaryOps : VisitTernaryExpr(op)
  \/ \E t \in Types : VisitOverloaded("CAST_OP", 1, t)
  \/ \E s \in DOMAIN FieldTypes : \E f \in DOMAIN FieldTypes[s] : VisitFieldAccess(f)
  \/ \E t \in Types : VisitCastExpr(t)
  \/ \E t \in Types : VisitCastAssigneable(t)
  \/ \E t \in Types : VisitTypeCheck(t)
  \/ \E n \in 1..2 : VisitListLit(n)
  \/ \E s \in DOMAIN FieldTypes : \E f \in DOMAIN FieldTypes[s], given \in BOOLEAN :
       VisitStructLiteral(s, f, given)
  \/ \E t \in Types : VisitVarDecl(t)
  \/ VisitAssignStmt
  \/ \E t \in Types, ref \in BOOLEAN : VisitFuncCall(t, ref)
  \/ \E t \in Types : VisitReturnStmt(t)
  \/ VisitWhileStmt
  \/ VisitForStmt
  \/ \E t \in Types : VisitForRangeStmt(t)

Next == /\ steps < IF Declared = {} THEN MaxSteps ELSE OverloadSteps
        /\ Step

Spec == Init /\ [][Next]_vars
-----------------------------------------------------------------------------
\* No accepted expression or statement ends the compilation: c.err and the type
\* assertions of the code generator are never reached after the typechecker.
NoInternalError == ~ latest.err

\* The type that VisitBinaryExpr and the other visitors of compiler.go record for an
\* expression (latestReturnType) is the IR type of the one typechecker.go evaluated.
TypesAgree == \A i \in DOMAIN stack : ~ latest.err => stack[i].ir = toIrType(stack[i].t)

\* The IR value that compiler.go leaves in latestReturn has the type recorded for it, and
\* all operands of an emitted instruction or call have one type, also through references.
WellTypedIr == latest.wf

\* numericCast, intOrByteAsFloat, floatOrByteAsInt, VisitCastExpr and the comparisons treat
\* Bytes as unsigned and Zahlen as signed in every conversion.
NumbersKeepTheirValue == latest.conv \subseteq Faithful

\* A value that castNonAnyToAny put into a Variable can be taken out again as its type:
\* the vtable it was packed with is the one a cast to its type compares with.
VariablesRememberType ==
  \A i \in DOMAIN stack : stack[i].of # Void => stack[i].tag = VTable(stack[i].of)

\* findOverload may stop at the first generic overload: generic ones come last, and
\* no overload that matches the operands is better than the one it returns.
BestOverload ==
  \A k \in DOMAIN latest.choice :
    LET c == latest.choice[k]
    IN \A j \in DOMAIN operators[c.op] :
         Matches(operators[c.op][j], c.operands, c.target) =>
           Compare(operators[c.op][c.i], operators[c.op][j]) <= 0
=============================================================================
