--------------------------- MODULE ConstFuncParam ---------------------------
(***************************************************************************)
(* ConstFuncParamAnnotator, src/src/ast/annotators/const_func_param.go:    *)
(* one pass over a module that finds the function parameters which no call *)
(* changes.  With -O2 the compiler passes those by pointer, without a deep *)
(* copy.                                                                   *)
(*                                                                         *)
(* A program is the sequence of the nodes that declare a function or       *)
(* change a variable, in the order the helper visitor meets them:          *)
(*   [k |-> "decl", f, unseen]   a FuncDecl; unseen are the nodes of its   *)
(*                               body if it is an instantiation of a       *)
(*                               generic function, which is visited when   *)
(*                               the generic function is, without body,    *)
(*   [k |-> "def", f]            the FuncDef of a forward declaration,     *)
(*   [k |-> "assign", in, x]     an assignment to x in the body of in,     *)
(*   [k |-> "call", in, f, args] a call of f, args[q] is the variable that *)
(*                               is the argument of q, or is part of it,   *)
(*                               or NoVar,                                 *)
(*   [k |-> "op", in, f, args]   an operator that f overloads, which the   *)
(*                               compiler turns into a call.               *)
(* The parameter p of f is the variable <<f, p>>.                          *)
(***************************************************************************)
EXTENDS Integers, Sequences

CONSTANTS
  Func,       \* functions
  Param,      \* names of parameters
  ExternFunc, \* the functions that are extern
  RefParam,   \* the variables that are reference parameters
  Programs,   \* set of programs
  NoFunc, NoVar

Variable == Func \X Param
Vars(f) == {f} \X Param

(* A node of a body stands between the declaration or definition of its    *)
(* function and the next one: functions are global.                        *)
InBody(p, j) ==
  \E d \in 1 .. j - 1 :
    /\ p[d].k \in {"decl", "def"} /\ p[d].f = p[j].in
    /\ p[j].in \notin ExternFunc
    /\ \A l \in d + 1 .. j - 1 : p[l].k \notin {"decl", "def"}

WellFormed(p) ==
  /\ Len(p) \in Nat /\ DOMAIN p = 1 .. Len(p)
  /\ \A j \in DOMAIN p :
       /\ p[j].k \in {"decl", "def", "assign", "call", "op"}
       /\ p[j].k # "assign" => p[j].f \in Func
       /\ p[j].k \in {"assign", "call", "op"} /\ p[j].in \in Func => InBody(p, j)
       /\ p[j].k = "assign" => p[j].x \in (Vars(p[j].in) \cap Variable) \cup {NoVar}
       /\ p[j].k \in {"call", "op"} =>
            \A q \in Param : p[j].args[q] \in (Vars(p[j].in) \cap Variable) \cup {NoVar}
       /\ p[j].k = "decl" => \A l \in DOMAIN p : p[l].k = "decl" /\ p[l].f = p[j].f => l = j

ASSUME NoNames == NoFunc \notin Func /\ NoVar \notin Variable
ASSUME ProgramsWellFormed == \A p \in Programs : WellFormed(p)

VARIABLES program, pos, currentDecl, currentParams, isConst

vars == <<program, pos, currentDecl, currentParams, isConst>>

(* isConst is the set of the parameters for which the attached             *)
(* ConstFuncParamMeta says true.                                           *)
TypeOK ==
  /\ pos \in 1 .. Len(program) + 1
  /\ currentDecl \in Func \cup {NoFunc}
  /\ \/ currentParams = << >>
     \/ \E f \in Func : currentParams \in [Vars(f) -> BOOLEAN]
  /\ isConst \subseteq Variable

Init ==
  /\ program \in Programs
  /\ pos = 1
  /\ currentDecl = NoFunc
  /\ currentParams = << >>
  /\ isConst = {}

Done == pos > Len(program)
Node == program[pos]
Is(k) == ~ Done /\ Node.k = k
Visited == pos' = pos + 1 /\ UNCHANGED program

(* An extern function may change all of its parameters; those of any other *)
(* function are assumed constant until its body is visited.                *)
VisitFuncDecl ==
  /\ Is("decl")
  /\ IF Node.f \in ExternFunc
       THEN /\ currentDecl' = NoFunc
            /\ isConst' = isConst \ Vars(Node.f)
            /\ UNCHANGED currentParams
       ELSE /\ currentDecl' = Node.f
            /\ currentParams' = [v \in Vars(Node.f) |-> TRUE]
            /\ isConst' = isConst \cup Vars(Node.f)
  /\ Visited

(* doesReferenceVarMutable for the tracked parameters *)
Referenced(xs) == xs \cap DOMAIN currentParams

(* overwriteAttachement with the new values of the tracked parameters *)
Untrack(xs) ==
  /\ currentParams' = [v \in DOMAIN currentParams |-> currentParams[v] /\ v \notin Referenced(xs)]
  /\ isConst' = (isConst \ DOMAIN currentParams)
                  \cup {v \in DOMAIN currentParams : currentParams'[v]}
  /\ UNCHANGED currentDecl

(* Mutant: the test of the attached flag is inverted. *)
ArgsOfConst(n) == {n.args[q] : q \in {p \in Param : <<n.f, p>> \in isConst}}

(* The arguments that the callee may change. *)
ArgsOfMutable(n) == {n.args[q] : q \in {p \in Param : <<n.f, p>> \notin isConst}}

VisitFuncCall ==
  /\ Is("call") /\ currentDecl # NoFunc
  /\ Untrack(ArgsOfMutable(Node))
  /\ Visited

VisitAssignStmt ==
  /\ Is("assign") /\ currentDecl # NoFunc
  /\ Untrack({Node.x})
  /\ Visited

(* The annotator has no VisitFuncDef and no method for operators, of which *)
(* the helper visitor only visits the operands, and ShouldVisit rejects    *)
(* the other nodes while no function is tracked.                           *)
Skip ==
  /\ \/ Is("def") \/ Is("op")
     \/ (Is("call") \/ Is("assign")) /\ currentDecl = NoFunc
  /\ Visited /\ UNCHANGED <<currentDecl, currentParams, isConst>>

Finished == Done /\ UNCHANGED vars

Next == VisitFuncDecl \/ VisitFuncCall \/ VisitAssignStmt \/ Skip \/ Finished

Spec == Init /\ [][Next]_vars

-----------------------------------------------------------------------------
(* What the annotation is about: which parameters can change. *)

(* S contains what the nodes of p change, given that the calls, those of   *)
(* overloaded operators included, change the reference parameters in S and *)
(* those of extern functions.                                              *)
ClosedFor(n, S) ==
  /\ n.k = "assign" => n.x \in S \cup {NoVar}
  /\ n.k \in {"call", "op"} => \A q \in Param :
       (<<n.f, q>> \in RefParam /\ (n.f \in ExternFunc \/ <<n.f, q>> \in S))
         => n.args[q] \in S \cup {NoVar}
Closed(S) ==
  \A j \in DOMAIN program :
    /\ ClosedFor(program[j], S)
    /\ program[j].k = "decl" => \A n \in program[j].unseen : ClosedFor(n, S)

(* The least such set. *)
Mutated == {v \in Variable : \A S \in SUBSET Variable : Closed(S) => v \in S}

(* No parameter that the finished annotation calls constant is changed by  *)
(* an assignment in its function or by a function it is passed to by       *)
(* reference, however many calls away: the compiler relies on this when it *)
(* passes constant parameters without a copy.  Refuted for forward         *)
(* declarations, recursion and overloaded operators (README, Findings).    *)
Sound == Done => isConst \cap Mutated = {}

(* A program in which every function is declared with its body, is not     *)
(* generic, and is called only after its body: no recursion.  No           *)
(* overloaded operator gets a parameter by reference.                      *)
InOrder ==
  \A j \in DOMAIN program :
    LET n == program[j]
    IN  /\ n.k # "def"
        /\ n.k = "decl" => n.unseen = {}
        /\ n.k = "op" => \A q \in Param : <<n.f, q>> \in RefParam => n.args[q] = NoVar
        /\ n.k = "call" => \A l \in j .. Len(program) :
             /\ program[l].k = "decl" => program[l].f # n.f
             /\ program[l].k \in {"call", "op", "assign"} => program[l].in # n.f

(* In a program without forward declarations, generic functions,           *)
(* recursion and parameters passed by reference to an overloaded operator, *)
(* the annotation of const_func_param.go is sound: a parameter it calls    *)
(* constant is not changed through any chain of calls.                     *)
SoundInOrder == InOrder => Sound

(* The annotation of a function only ever loses constant parameters while  *)
(* its body is visited, and that of other functions does not change.       *)
OnlyCurrentShrinks ==
  [][(\E k \in {"call", "assign", "def", "op"} : Is(k)) =>
       /\ isConst' \subseteq isConst
       /\ currentDecl # NoFunc => isConst \ isConst' \subseteq Vars(currentDecl)]_vars
=============================================================================
