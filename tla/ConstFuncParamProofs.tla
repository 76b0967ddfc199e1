------------------------ MODULE ConstFuncParamProofs ------------------------
(***************************************************************************)
(* The annotation of ConstFuncParam is sound for every program without     *)
(* forward declarations, generic functions, recursion and parameters that  *)
(* an overloaded operator gets by reference, for any number of functions,  *)
(* parameters and statements.                                              *)
(***************************************************************************)
EXTENDS ConstFuncParam, TLAPS

(* The tracked parameters are those of currentDecl, and the attached       *)
(* metadata agrees with them.                                              *)
Tracking ==
  currentDecl # NoFunc =>
    /\ DOMAIN currentParams = Vars(currentDecl)
    /\ \A v \in Vars(currentDecl) : currentParams[v] <=> v \in isConst

(* currentDecl is the function of the last declaration visited. *)
LastDecl ==
  \A d \in 1 .. pos - 1 :
    (program[d].k = "decl" /\ \A l \in d + 1 .. pos - 1 : program[l].k # "decl")
      => currentDecl = IF program[d].f \in ExternFunc THEN NoFunc ELSE program[d].f

ExternMutable == \A v \in isConst : v[1] \notin ExternFunc

(* What the node n says about the set C of constant parameters. *)
Respects(n, C) ==
  /\ n.k = "assign" => n.x \notin C
  /\ n.k = "call" => \A q \in Param : <<n.f, q>> \notin C => n.args[q] \notin C

VisitedRespected == \A j \in 1 .. pos - 1 : Respects(program[j], isConst)

IInv ==
  /\ TypeOK
  /\ program \in Programs
  /\ Tracking
  /\ ExternMutable
  /\ LastDecl
  /\ InOrder => VisitedRespected

-----------------------------------------------------------------------------

(* A variable is a parameter of one function. *)
LEMMA VarsOfOne == ASSUME NEW f, NEW g, NEW v \in Vars(f), v \in Vars(g) PROVE f = g /\ v[1] = f
  BY DEF Vars

(* The initial state satisfies the invariant: nothing is annotated yet. *)
LEMMA InitIInv == Init => IInv
  BY ProgramsWellFormed
  DEF Init, IInv, TypeOK, Tracking, ExternMutable, LastDecl, VisitedRespected, WellFormed

(* Where the visitor is, in terms of the well-formed program. *)
LEMMA Position ==
  ASSUME IInv, ~ Done
  PROVE  /\ WellFormed(program) /\ pos \in DOMAIN program /\ pos \in Nat /\ pos >= 1
         /\ Len(program) \in Nat /\ DOMAIN program = 1 .. Len(program)
  BY ProgramsWellFormed DEF IInv, TypeOK, Done, WellFormed

(* A node in the body of a function is visited while the annotator tracks  *)
(* that function, if there are no forward declarations.                    *)
LEMMA TrackedNode ==
  ASSUME IInv, InOrder, Is("call") \/ Is("assign"), Node.in \in Func
  PROVE  currentDecl = Node.in
<1>1. WellFormed(program) /\ pos \in DOMAIN program /\ DOMAIN program = 1 .. Len(program)
  BY Position DEF Is
<1>2. InBody(program, pos)
  BY <1>1 DEF WellFormed, Is, Node
<1>3. PICK d \in 1 .. pos - 1 :
        /\ program[d].k \in {"decl", "def"} /\ program[d].f = program[pos].in
        /\ program[pos].in \notin ExternFunc
        /\ \A l \in d + 1 .. pos - 1 : program[l].k \notin {"decl", "def"}
  BY <1>2 DEF InBody
<1>4. d \in DOMAIN program
  BY <1>1, <1>3
<1>5. program[d].k = "decl"
  BY <1>3, <1>4 DEF InOrder
<1> QED
  BY <1>3, <1>5 DEF IInv, LastDecl, Node

(* What a call or an assignment does to the annotation, xs being the       *)
(* variables it may change: the tracked ones among them are not constant   *)
(* any more, the others keep their annotation.                             *)
LEMMA UntrackEffect ==
  ASSUME IInv, currentDecl # NoFunc, NEW STATE xs, Untrack(xs)
  PROVE  /\ isConst' = isConst \ (xs \cap Vars(currentDecl))
         /\ \A v \in Vars(currentDecl) : currentParams'[v] <=> v \in isConst'
         /\ DOMAIN currentParams' = Vars(currentDecl)
         /\ currentParams' \in [Vars(currentDecl) -> BOOLEAN]
<1>1. /\ DOMAIN currentParams = Vars(currentDecl)
      /\ \A v \in Vars(currentDecl) : currentParams[v] <=> v \in isConst
  BY DEF IInv, Tracking
<1>2. currentParams' = [v \in Vars(currentDecl) |-> currentParams[v] /\ v \notin xs \cap Vars(currentDecl)]
  BY <1>1 DEF Untrack, Referenced
<1>3. isConst' = (isConst \ Vars(currentDecl)) \cup {v \in Vars(currentDecl) : currentParams'[v]}
  BY <1>1 DEF Untrack
<1>4. \A v \in Vars(currentDecl) : currentParams'[v] <=> (v \in isConst /\ v \notin xs)
  BY <1>1, <1>2
<1>5. isConst' = isConst \ (xs \cap Vars(currentDecl))
  BY <1>3, <1>4
<1> QED
  BY <1>2, <1>4, <1>5

(* Visiting a node that is not a declaration preserves LastDecl. *)
LEMMA SameLastDecl ==
  ASSUME IInv, ~ Done, Node.k # "decl", Visited, currentDecl' = currentDecl
  PROVE  LastDecl'
<1>1. pos \in Nat /\ pos' = pos + 1 /\ program' = program
  BY Position DEF Visited
<1>2. SUFFICES ASSUME NEW d \in 1 .. pos, program[d].k = "decl",
                      \A l \in d + 1 .. pos : program[l].k # "decl"
               PROVE  currentDecl = IF program[d].f \in ExternFunc THEN NoFunc ELSE program[d].f
  BY <1>1 DEF LastDecl
<1>3. d \in 1 .. pos - 1
  BY <1>1, <1>2 DEF Node
<1> QED
  BY <1>1, <1>2, <1>3 DEF IInv, LastDecl

(* A call or an assignment whose arguments are xs preserves the invariant, *)
(* if it is respected once they are not constant any more.                 *)
LEMMA UntrackStep ==
  ASSUME IInv, Is("call") \/ Is("assign"), currentDecl # NoFunc,
         NEW STATE xs, Untrack(xs), Visited,
         xs \subseteq (Vars(Node.in) \cap Variable) \cup {NoVar},
         InOrder => Respects(Node, isConst')
  PROVE  IInv'
<1>1. /\ isConst' = isConst \ (xs \cap Vars(currentDecl))
      /\ \A v \in Vars(currentDecl) : currentParams'[v] <=> v \in isConst'
      /\ DOMAIN currentParams' = Vars(currentDecl)
      /\ currentParams' \in [Vars(currentDecl) -> BOOLEAN]
  BY UntrackEffect
<1>2. currentDecl' = currentDecl /\ program' = program /\ pos' = pos + 1
  BY DEF Untrack, Visited
<1>3. ~ Done /\ Node.k \in {"call", "assign"}
  BY DEF Is
<1>4. /\ pos \in DOMAIN program /\ pos \in Nat /\ pos >= 1
      /\ Len(program) \in Nat /\ DOMAIN program = 1 .. Len(program) /\ WellFormed(program)
  BY <1>3, Position
<1>5. currentDecl \in Func
  BY DEF IInv, TypeOK
<1>6. TypeOK'
  BY <1>1, <1>2, <1>4, <1>5 DEF IInv, TypeOK
<1>7. Tracking' /\ ExternMutable' /\ program' \in Programs
  BY <1>1, <1>2 DEF IInv, Tracking, ExternMutable
<1>8. LastDecl'
  BY <1>2, <1>3, SameLastDecl DEF Visited
<1>9. ASSUME InOrder PROVE VisitedRespected'
  <2>1. SUFFICES ASSUME NEW j \in 1 .. pos PROVE Respects(program[j], isConst')
    BY <1>2, <1>4 DEF VisitedRespected
  <2>2. CASE j = pos
    BY <1>9, <2>2 DEF Node
  <2>3. CASE j < pos
    <3>1. j \in 1 .. pos - 1 /\ j \in DOMAIN program
      BY <1>4, <2>3
    <3>2. Respects(program[j], isConst)
      BY <1>9, <3>1 DEF IInv, VisitedRespected
    <3>3. ASSUME program[j].k = "assign" PROVE program[j].x \notin isConst'
      BY <3>2, <3>3, <1>1 DEF Respects
    <3>4. ASSUME program[j].k = "call", NEW q \in Param, <<program[j].f, q>> \notin isConst'
          PROVE  program[j].args[q] \notin isConst'
      (* The callee is not the function that is tracked: none of its nodes *)
      (* come after the call.                                              *)
      <4>1. CASE Node.in \in Func
        <5>1. currentDecl = Node.in
          BY <1>9, <4>1, TrackedNode
        <5>2. program[j].f # currentDecl
          BY <1>3, <1>4, <1>9, <2>3, <3>1, <3>4, <5>1 DEF InOrder, Node
        <5>3. <<program[j].f, q>> \notin Vars(currentDecl)
          BY <5>2, <3>4 DEF Vars
        <5> QED
          BY <1>1, <3>2, <3>4, <5>3 DEF Respects
      <4>2. CASE Node.in \notin Func
        <5>1. xs \cap Vars(currentDecl) = {}
          BY <4>2, <1>5, NoNames DEF Vars, Variable
        <5> QED
          BY <5>1, <1>1, <3>2, <3>4 DEF Respects
      <4> QED
        BY <4>1, <4>2
    <3> QED
      BY <3>3, <3>4 DEF Respects
  <2> QED
    BY <2>2, <2>3, <1>4
<1> QED
  BY <1>6, <1>7, <1>8, <1>9, <1>2 DEF IInv, InOrder

(* A declaration preserves the invariant: the nodes visited so far are     *)
(* neither in the body of the function nor calls of it.                    *)
LEMMA DeclStep ==
  ASSUME IInv, VisitFuncDecl
  PROVE  IInv'
<1>1. /\ pos \in DOMAIN program /\ pos \in Nat /\ pos >= 1 /\ WellFormed(program)
      /\ Len(program) \in Nat /\ DOMAIN program = 1 .. Len(program)
  BY Position DEF VisitFuncDecl, Is
<1>2. program' = program /\ pos' = pos + 1 /\ Node.k = "decl" /\ Node = program[pos]
  BY DEF VisitFuncDecl, Visited, Is, Node
<1>3. Node.f \in Func
  BY <1>1, <1>2 DEF WellFormed
<1>4. /\ currentDecl' = IF Node.f \in ExternFunc THEN NoFunc ELSE Node.f
      /\ isConst' = IF Node.f \in ExternFunc THEN isConst \ Vars(Node.f)
                    ELSE isConst \cup Vars(Node.f)
      /\ currentParams' = IF Node.f \in ExternFunc THEN currentParams
                          ELSE [v \in Vars(Node.f) |-> TRUE]
  BY DEF VisitFuncDecl
<1>5. TypeOK' /\ program' \in Programs
  <2>1. pos' \in 1 .. Len(program') + 1
    BY <1>1, <1>2
  <2>2. currentParams' = << >> \/ \E f \in Func : currentParams' \in [Vars(f) -> BOOLEAN]
    <3>1. CASE Node.f \in ExternFunc
      BY <1>4, <3>1 DEF IInv, TypeOK
    <3>2. CASE Node.f \notin ExternFunc
      BY <1>3, <1>4, <3>2
    <3> QED
      BY <3>1, <3>2
  <2>3. isConst' \subseteq Variable
    BY <1>3, <1>4 DEF IInv, TypeOK, Vars, Variable
  <2> QED
    BY <1>2, <1>3, <1>4, <2>1, <2>2, <2>3 DEF IInv, TypeOK
<1>6. Tracking' /\ ExternMutable'
  BY <1>3, <1>4, NoNames DEF IInv, Tracking, ExternMutable, Vars
<1>7. LastDecl'
  <2>1. SUFFICES ASSUME NEW d \in 1 .. pos, program[d].k = "decl",
                        \A l \in d + 1 .. pos : program[l].k # "decl"
                 PROVE  currentDecl' = IF program[d].f \in ExternFunc THEN NoFunc ELSE program[d].f
    BY <1>1, <1>2 DEF LastDecl
  <2>2. d = pos
    BY <1>1, <1>2, <2>1
  <2> QED
    BY <1>2, <1>4, <2>2
<1>8. ASSUME InOrder PROVE VisitedRespected'
  <2>1. SUFFICES ASSUME NEW j \in 1 .. pos PROVE Respects(program[j], isConst')
    BY <1>1, <1>2 DEF VisitedRespected
  <2>2. CASE j = pos
    BY <1>2, <2>2 DEF Respects
  <2>3. CASE j < pos
    <3>1. j \in 1 .. pos - 1 /\ j \in DOMAIN program
      BY <1>1, <2>3
    <3>2. Respects(program[j], isConst)
      BY <1>8, <3>1 DEF IInv, VisitedRespected
    <3>3. ASSUME program[j].k \in {"assign", "call"}, NEW v,
                 v \in (Vars(program[j].in) \cap Variable) \cup {NoVar}
          PROVE  v \notin Vars(Node.f)
      <4>1. SUFFICES ASSUME v \in Vars(Node.f) PROVE FALSE
        OBVIOUS
      <4>2. v # NoVar
        BY <4>1, <1>3, NoNames DEF Vars, Variable
      <4>3. program[j].in = Node.f
        BY <3>3, <4>1, <4>2, VarsOfOne
      <4>4. InBody(program, j)
        BY <1>1, <1>3, <3>1, <3>3, <4>3 DEF WellFormed
      <4>5. PICK d \in 1 .. j - 1 : program[d].k \in {"decl", "def"} /\ program[d].f = program[j].in
        BY <4>4 DEF InBody
      <4>6. d \in DOMAIN program /\ d < pos
        BY <1>1, <3>1, <4>5
      <4>7. program[d].k = "decl"
        BY <1>8, <4>5, <4>6 DEF InOrder
      <4>8. d = pos
        BY <1>1, <1>2, <4>3, <4>5, <4>6, <4>7 DEF WellFormed
      <4> QED
        BY <4>6, <4>8, <1>1
    <3>4. ASSUME program[j].k = "assign" PROVE program[j].x \notin isConst'
      <4>1. program[j].x \notin Vars(Node.f)
        BY <3>1, <3>3, <3>4, <1>1 DEF WellFormed
      <4> QED
        BY <4>1, <3>2, <3>4, <1>4 DEF Respects
    <3>5. ASSUME program[j].k = "call", NEW q \in Param, <<program[j].f, q>> \notin isConst'
          PROVE  program[j].args[q] \notin isConst'
      <4>1. program[j].args[q] \notin Vars(Node.f)
        BY <3>1, <3>3, <3>5, <1>1 DEF WellFormed
      <4>2. program[j].f # Node.f
        BY <1>1, <1>2, <1>8, <2>3, <3>1, <3>5 DEF InOrder
      <4>3. <<program[j].f, q>> \notin Vars(Node.f)
        BY <4>2 DEF Vars
      <4> QED
        BY <4>1, <4>3, <3>2, <3>5, <1>4 DEF Respects
    <3> QED
      BY <3>4, <3>5 DEF Respects
  <2> QED
    BY <2>2, <2>3, <1>1
<1> QED
  BY <1>2, <1>5, <1>6, <1>7, <1>8 DEF IInv, InOrder

(* Every step of the annotator preserves the invariant. *)
LEMMA NextIInv == IInv /\ [Next]_vars => IInv'
<1> SUFFICES ASSUME IInv, [Next]_vars PROVE IInv'
  OBVIOUS
<1>1. CASE VisitFuncDecl
  BY <1>1, DeclStep
<1>2. CASE VisitFuncCall
  <2>1. WellFormed(program) /\ pos \in DOMAIN program /\ Node = program[pos] /\ Node.k = "call"
    BY <1>2, Position DEF VisitFuncCall, Is, Node
  <2>2. ArgsOfMutable(Node) \subseteq (Vars(Node.in) \cap Variable) \cup {NoVar}
    <3>1. \A q \in Param : Node.args[q] \in (Vars(Node.in) \cap Variable) \cup {NoVar}
      BY <2>1 DEF WellFormed
    <3> QED
      BY <3>1 DEF ArgsOfMutable
  <2>3. /\ Is("call") /\ currentDecl # NoFunc
        /\ Untrack(ArgsOfMutable(Node)) /\ Visited
    BY <1>2 DEF VisitFuncCall
  <2>4. isConst' = isConst \ (ArgsOfMutable(Node) \cap Vars(currentDecl))
    BY <2>3, UntrackEffect
  <2>5. ASSUME InOrder PROVE Respects(Node, isConst')
    <3>1. SUFFICES ASSUME NEW q \in Param, <<Node.f, q>> \notin isConst'
                   PROVE  Node.args[q] \notin isConst'
      BY <2>1 DEF Respects
    <3>2. CASE Node.in \in Func
      <4>1. currentDecl = Node.in
        BY <2>3, <2>5, <3>2, TrackedNode
      <4>2. Node.f # currentDecl
        <5>1. pos \in pos .. Len(program)
          BY <2>3, Position DEF Is
        <5> QED
          BY <2>1, <2>5, <4>1, <5>1 DEF InOrder
      <4>3. <<Node.f, q>> \notin isConst
        BY <2>4, <3>1, <4>2 DEF Vars
      <4>4. Node.args[q] \in ArgsOfMutable(Node)
        BY <4>3 DEF ArgsOfMutable
      <4>5. Node.args[q] \in Vars(currentDecl) \/ Node.args[q] = NoVar
        BY <2>1, <4>1 DEF WellFormed
      <4> QED
        BY <2>4, <4>4, <4>5, NoNames DEF IInv, TypeOK
    <3>3. CASE Node.in \notin Func
      <4>1. Node.args[q] = NoVar
        BY <2>1, <3>3 DEF WellFormed, Vars, Variable
      <4> QED
        BY <2>4, <4>1, NoNames DEF IInv, TypeOK
    <3> QED
      BY <3>2, <3>3
  <2> QED
    BY <2>2, <2>3, <2>5, UntrackStep
<1>3. CASE VisitAssignStmt
  <2>1. WellFormed(program) /\ pos \in DOMAIN program /\ Node = program[pos] /\ Node.k = "assign"
    BY <1>3, Position DEF VisitAssignStmt, Is, Node
  <2>2. {Node.x} \subseteq (Vars(Node.in) \cap Variable) \cup {NoVar}
    BY <2>1 DEF WellFormed
  <2>3. Is("assign") /\ currentDecl # NoFunc /\ Untrack({Node.x}) /\ Visited
    BY <1>3 DEF VisitAssignStmt
  <2>4. isConst' = isConst \ ({Node.x} \cap Vars(currentDecl))
    BY <2>3, UntrackEffect
  <2>5. ASSUME InOrder PROVE Respects(Node, isConst')
    <3>1. CASE Node.in \in Func
      <4>1. currentDecl = Node.in
        BY <2>3, <2>5, <3>1, TrackedNode
      <4> QED
        BY <2>1, <2>2, <2>4, <4>1, NoNames DEF Respects, IInv, TypeOK
    <3>2. CASE Node.in \notin Func
      <4>1. Node.x = NoVar
        BY <2>2, <3>2 DEF Vars, Variable
      <4> QED
        BY <2>1, <2>4, <4>1, NoNames DEF Respects, IInv, TypeOK
    <3> QED
      BY <3>1, <3>2
  <2> QED
    BY <2>2, <2>3, <2>5, UntrackStep
<1>4. CASE Skip
  <2>1. /\ WellFormed(program) /\ pos \in DOMAIN program /\ Node = program[pos]
        /\ pos \in Nat /\ pos >= 1 /\ Len(program) \in Nat /\ DOMAIN program = 1 .. Len(program)
    BY <1>4, Position DEF Skip, Is, Node
  <2>2. /\ ~ Done /\ Node.k \in {"def", "op", "call", "assign"} /\ Visited
        /\ program' = program /\ pos' = pos + 1
        /\ UNCHANGED <<currentDecl, currentParams, isConst>>
    BY <1>4 DEF Skip, Is, Visited
  <2>3. LastDecl'
    BY <2>2, SameLastDecl
  <2>4. TypeOK' /\ Tracking' /\ ExternMutable' /\ program' \in Programs
    BY <2>1, <2>2 DEF IInv, TypeOK, Tracking, ExternMutable
  <2>5. ASSUME InOrder PROVE VisitedRespected'
    <3>1. ASSUME Is("call") \/ Is("assign") PROVE Respects(Node, isConst)
      <4>1. currentDecl = NoFunc
        BY <1>4, <3>1 DEF Skip, Is
      <4>2. Node.in \notin Func
        BY <2>5, <3>1, <4>1, TrackedNode, NoNames
      <4> QED
        BY <2>1, <4>2, NoNames DEF WellFormed, Vars, Variable, Respects, IInv, TypeOK
    <3>2. ASSUME Is("op") PROVE Respects(Node, isConst)
      BY <3>2 DEF Is, Respects
    <3>3. Is("call") \/ Is("assign") \/ Is("op")
      BY <2>1, <2>2, <2>5 DEF InOrder, Is
    <3>4. Respects(Node, isConst)
      BY <3>1, <3>2, <3>3
    <3> QED
      BY <2>1, <2>2, <2>5, <3>4 DEF IInv, VisitedRespected
  <2> QED
    BY <2>2, <2>3, <2>4, <2>5 DEF IInv, InOrder
<1>5. CASE UNCHANGED vars
  BY <1>5 DEF vars, IInv, TypeOK, Tracking, ExternMutable, LastDecl, VisitedRespected, InOrder
<1> QED
  BY <1>1, <1>2, <1>3, <1>4, <1>5 DEF Next, Finished

-----------------------------------------------------------------------------

(* The inductive invariant holds throughout the pass of the annotator. *)
THEOREM Invariance == Spec => []IInv
<1> QED
  BY InitIInv, NextIInv, PTL DEF Spec

(* When the pass is over, the parameters not annotated as constant contain *)
(* everything the program changes.                                         *)
LEMMA IInvSound == IInv => SoundInOrder
<1> SUFFICES ASSUME IInv, InOrder, Done PROVE isConst \cap Mutated = {}
  BY DEF SoundInOrder, Sound
<1> DEFINE S == Variable \ isConst
<1>1. WellFormed(program) /\ Len(program) \in Nat /\ DOMAIN program = 1 .. Len(program)
  BY ProgramsWellFormed DEF IInv, WellFormed
<1>2. pos = Len(program) + 1
  BY <1>1 DEF IInv, TypeOK, Done
<1>3. ASSUME NEW j \in DOMAIN program PROVE ClosedFor(program[j], S)
  <2>1. Respects(program[j], isConst)
    BY <1>1, <1>2 DEF IInv, VisitedRespected
  <2>2. ASSUME program[j].k = "assign" PROVE program[j].x \in S \cup {NoVar}
    BY <1>1, <1>3, <2>1, <2>2 DEF WellFormed, Respects
  <2>3. ASSUME program[j].k = "call", NEW q \in Param,
               program[j].f \in ExternFunc \/ <<program[j].f, q>> \in S
        PROVE  program[j].args[q] \in S \cup {NoVar}
    <3>1. <<program[j].f, q>> \notin isConst
      BY <2>3 DEF IInv, ExternMutable
    <3>2. program[j].args[q] \in Variable \cup {NoVar}
      BY <1>1, <1>3, <2>3 DEF WellFormed
    <3> QED
      BY <2>1, <2>3, <3>1, <3>2 DEF Respects
  <2>4. ASSUME program[j].k = "op", NEW q \in Param, <<program[j].f, q>> \in RefParam
        PROVE  program[j].args[q] \in S \cup {NoVar}
    BY <1>3, <2>4 DEF InOrder
  <2> HIDE DEF S
  <2> QED
    BY <2>2, <2>3, <2>4 DEF ClosedFor
<1>4. Closed(S)
  BY <1>3 DEF Closed, InOrder
<1>5. S \in SUBSET Variable
  OBVIOUS
<1>6. Mutated \subseteq S
  <2> HIDE DEF S
  <2> QED
    BY <1>4, <1>5 DEF Mutated
<1> QED
  BY <1>6

(* ConstFuncParamAnnotator never calls a parameter constant that is        *)
(* changed directly or through a chain of calls, in every program without  *)
(* forward declarations, generic functions, recursion and parameters that  *)
(* an overloaded operator gets by reference.                               *)
THEOREM AnnotationSound == Spec => []SoundInOrder
<1> QED
  BY Invariance, IInvSound, PTL

(* While the body of a function is visited the annotation only loses       *)
(* constant parameters, and only those of this function.                   *)
THEOREM AnnotationShrinks == Spec => OnlyCurrentShrinks
<1>1. ASSUME IInv, [Next]_vars
      PROVE  [(\E k \in {"call", "assign", "def", "op"} : Is(k)) =>
                /\ isConst' \subseteq isConst
                /\ currentDecl # NoFunc => isConst \ isConst' \subseteq Vars(currentDecl)]_vars
  <2> SUFFICES ASSUME NEW k \in {"call", "assign", "def", "op"}, Is(k), Next
               PROVE  /\ isConst' \subseteq isConst
                      /\ currentDecl # NoFunc => isConst \ isConst' \subseteq Vars(currentDecl)
    BY <1>1
  <2>1. CASE VisitFuncCall
    BY <1>1, <2>1, UntrackEffect DEF VisitFuncCall
  <2>2. CASE VisitAssignStmt
    BY <1>1, <2>2, UntrackEffect DEF VisitAssignStmt
  <2>3. CASE Skip
    BY <2>3 DEF Skip
  <2>4. ~ VisitFuncDecl /\ ~ Finished
    BY DEF VisitFuncDecl, Finished, Is
  <2> QED
    BY <2>1, <2>2, <2>3, <2>4 DEF Next
<1> QED
  BY <1>1, Invariance, PTL DEF Spec, OnlyCurrentShrinks
=============================================================================
