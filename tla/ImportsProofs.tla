--------------------------- MODULE ImportsProofs ---------------------------
(***************************************************************************)
(* Proofs about Imports, for all files and all programs whose main file    *)
(* has no import statement in a loop: every module is initialized before   *)
(* it is used (InitializesBeforeUse), and every module that is needed is   *)
(* initialized and disposed of once (InitializesAndDisposesOnce).          *)
(***************************************************************************)
EXTENDS Imports, TLAPS

(* No import statement of the main file is in a loop. *)
NoLoops == \A p \in Programs : \A k \in DOMAIN p[Main].imports : ~ p[Main].imports[k].loop

Statements == [targets : Seq(Files), names : Seq(Names), loop : BOOLEAN]
Parsers == [id : Ids, pos : Nat \ {0}, targets : Seq(Files), got : Seq(Files)]
Blocks == [loop : BOOLEAN, inits : Seq(Files)]
Calls == [id : Files, rest : Seq(Seq(Files))]

ParseTypes ==
    /\ program \in Programs
    /\ predefined \in [Files -> {"absent", "nil", "module"}]
    /\ stack \in Seq(Parsers)
    /\ imports \in [Ids -> Seq(Seq(Files))]
    /\ faulty \subseteq Ids

IterTypes ==
    /\ code \in Seq(Blocks) /\ mods \in Seq(Files)
    /\ frames \in Seq(Calls) /\ visited \subseteq Files

RunTypes ==
    /\ stmt \in Nat /\ turn \in Nat /\ at \in Nat
    /\ inits \in [Files -> Nat] /\ disposals \in [Files -> Nat]

(* The modules that module id imports. *)
Mods(imp, id) == UNION {Range(imp[id][k]) : k \in DOMAIN imp[id]}

(* The files that have been parsed. *)
Done == {f \in Files : predefined[f] = "module"}

(* What has been parsed imports what has been parsed before. *)
GraphInv ==
    /\ \A f \in Done : Mods(imports, f) \subseteq Done
    /\ \A S \in SUBSET Done : S # {} => \E f \in S : Mods(imports, f) \cap S = {}
    /\ \A f \in Files : predefined[f] = "absent" => imports[f] = << >>
    /\ Mods(imports, Root) \subseteq Done

Parsing == pc \in {"import", "resolve"}

(* Each parser but the innermost one waits for the file of the next. *)
StackInv ==
    /\ IF Parsing THEN stack # << >> /\ stack[Len(stack)].id = Root ELSE stack = << >>
    /\ \A k \in 1 .. Len(stack) - 1 : stack[k].id \in Files /\ predefined[stack[k].id] = "nil"
    /\ \A j, k \in DOMAIN stack : stack[j].id = stack[k].id => j = k
    /\ \A k \in DOMAIN stack : Mods(imports, stack[k].id) \subseteq Done /\ Range(stack[k].got) \subseteq Done
    /\ \A k \in 2 .. Len(stack) : stack[k].targets # << >> /\ Head(stack[k].targets) = stack[k - 1].id

(* The first n import statements of a module have led to their targets. *)
Found(prog, imp, id, n) ==
    /\ Len(imp[id]) = n
    /\ \A j \in 1 .. n : imp[id][j] = prog[FileOf(id)].imports[j].targets

FoundAll(prog, imp, id) == Found(prog, imp, id, Len(prog[FileOf(id)].imports))

(* The import statements of module id, and what its n-th one imports. *)
StatementsOf(prog, id) == prog[FileOf(id)].imports
TargetsOf(prog, id, n) == prog[FileOf(id)].imports[n].targets

(* The statements that parser p has left behind. *)
FoundBefore(prog, imp, p) ==
    p.pos <= Len(StatementsOf(prog, p.id)) + 1 /\ Found(prog, imp, p.id, p.pos - 1)

(* The import statement that parser p is at. *)
AtStatement(prog, p) ==
    /\ p.pos <= Len(StatementsOf(prog, p.id))
    /\ p.got \o p.targets = TargetsOf(prog, p.id, p.pos)

(* Without an error nothing is left out. *)
FoundInv ==
    Root \notin faulty =>
        /\ \A f \in Done : FoundAll(program, imports, f)
        /\ \A k \in DOMAIN stack :
            FoundBefore(program, imports, stack[k]) /\ (k > 1 \/ pc = "resolve" => AtStatement(program, stack[k]))
        /\ ~Parsing => FoundAll(program, imports, Root)

NothingCalled ==
    /\ stmt = 1 /\ turn = 0 /\ at = 1
    /\ inits = [f \in Files |-> 0] /\ disposals = [f \in Files |-> 0]

PhaseInv ==
    /\ IF compiled = {}
       THEN /\ pc \in {"import", "resolve", "compile", "errors", "panic"} /\ code = << >>
            /\ pc = "compile" => todo = << Root >>
       ELSE /\ pc \in {"compile", "main", "run", "ended", "errors", "panic"}
            /\ Main \in compiled /\ Root \notin faulty
            /\ pc # "main" => Len(code) = Len(imports[Root])
    /\ pc # "main" => frames = << >> /\ mods = << >>
    /\ frames # << >> \/ mods # << >> => code # << >>
    /\ Len(code) <= Len(imports[Root])
    /\ pc \notin {"run", "ended"} => NothingCalled
    /\ \A j \in DOMAIN code : ~ code[j].loop

(* The modules that the first j statements of code c initialize, and those *)
(* that are initialized before call i of statement j.                      *)
Through(c, j) == UNION {Range(c[l].inits) : l \in 1 .. j}
Before(c, j, i) == Through(c, j - 1) \cup {c[j].inits[h] : h \in 1 .. i - 1}

(* The modules of the last statement that are not initialized yet. *)
Pending == Range(mods) \cup IF frames = << >> THEN {} ELSE {frames[Len(frames)].id}

(* A module is initialized once, after those that it imports. *)
OrderInv ==
    /\ \A j \in DOMAIN code : \A i \in DOMAIN code[j].inits :
        /\ code[j].inits[i] \in Done \ Before(code, j, i)
        /\ Mods(imports, code[j].inits[i]) \subseteq Before(code, j, i)
    /\ \A j \in DOMAIN code :
        Range(imports[Root][j]) \subseteq Through(code, j) \cup IF j = Len(code) THEN Pending ELSE {}

(* The modules that a call of iterateModuleImportsRec has not come to yet. *)
Left(rest) == UNION {Range(rest[j]) : j \in DOMAIN rest}

(* Each call but the innermost one waits for a module that it imports. *)
IterInv ==
    /\ Range(mods) \subseteq Done
    /\ visited \subseteq importedModules \cup {frames[k].id : k \in DOMAIN frames}
    /\ \A k \in DOMAIN frames :
        /\ frames[k].id \in Done
        /\ Left(frames[k].rest) \subseteq Mods(imports, frames[k].id)
        /\ Mods(imports, frames[k].id) \subseteq
            importedModules \cup Left(frames[k].rest) \cup IF k > 1 THEN {frames[k - 1].id} ELSE {}
        /\ k > 1 => frames[k - 1].id \in Mods(imports, frames[k].id)

(* The program has called what is before the place where it is. *)
RunInv ==
    pc \in {"run", "ended"} =>
        /\ stmt \in 1 .. Len(code) + 1 /\ turn \in {0, 1} /\ at >= 1
        /\ turn = 0 => at = 1
        /\ stmt <= Len(code) => at <= Len(code[stmt].inits) + 1 /\ (\A f \in Files : disposals[f] = 0)
        /\ stmt > Len(code) => at = 1
        /\ \A f \in Files : inits[f] = IF f \in Before(code, stmt, at) THEN 1 ELSE 0
        /\ pc = "ended" => stmt > Len(code) /\ \A f \in importedModules : disposals[f] = 1

ParseInv == ParseTypes /\ GraphInv /\ StackInv /\ FoundInv

IInv == ParseInv /\ IterTypes /\ RunTypes /\ PhaseInv /\ OrderInv /\ IterInv /\ RunInv

-----------------------------------------------------------------------------
(***************************************************************************)
(* Sequences.                                                              *)
(***************************************************************************)
(* Goto and the loops replace the first element of a sequence. *)
LEMMA ConsFacts ==
    ASSUME NEW S, NEW x \in S, NEW s \in Seq(S)
    PROVE  /\ << x >> \o s \in Seq(S) /\ << x >> \o s # << >>
           /\ Len(<< x >> \o s) = Len(s) + 1 /\ DOMAIN (<< x >> \o s) = 1 .. Len(s) + 1
           /\ (<< x >> \o s)[1] = x
           /\ \A k \in 2 .. Len(s) + 1 : (<< x >> \o s)[k] = s[k - 1]
           /\ Head(<< x >> \o s) = x
  OBVIOUS

(* The rest of a sequence. *)
LEMMA TailFacts ==
    ASSUME NEW S, NEW s \in Seq(S), s # << >>
    PROVE  /\ Tail(s) \in Seq(S) /\ Len(s) \in Nat /\ Len(s) >= 1
           /\ Len(Tail(s)) = Len(s) - 1 /\ DOMAIN Tail(s) = 1 .. Len(s) - 1
           /\ \A k \in 1 .. Len(s) - 1 : Tail(s)[k] = s[k + 1]
           /\ Head(s) = s[1] /\ s[1] \in S
  OBVIOUS

(* What Goto makes of the stack. *)
LEMMA ReplaceFirst ==
    ASSUME NEW S, NEW s \in Seq(S), s # << >>, NEW x \in S
    PROVE  /\ << x >> \o Tail(s) \in Seq(S) /\ << x >> \o Tail(s) # << >>
           /\ Len(<< x >> \o Tail(s)) = Len(s) /\ DOMAIN (<< x >> \o Tail(s)) = 1 .. Len(s)
           /\ (<< x >> \o Tail(s))[1] = x
           /\ \A k \in 2 .. Len(s) : (<< x >> \o Tail(s))[k] = s[k]
<1>1. /\ Tail(s) \in Seq(S) /\ Len(s) \in Nat /\ Len(s) >= 1 /\ Len(Tail(s)) = Len(s) - 1
      /\ \A k \in 1 .. Len(s) - 1 : Tail(s)[k] = s[k + 1]
  BY Zenon, TailFacts
<1> DEFINE t == Tail(s)
<1>2. t \in Seq(S) /\ Len(t) = Len(s) - 1 /\ \A k \in 1 .. Len(s) - 1 : t[k] = s[k + 1]
  BY Zenon, <1>1
<1> HIDE DEF t
<1>3. /\ << x >> \o t \in Seq(S) /\ << x >> \o t # << >>
      /\ Len(<< x >> \o t) = Len(t) + 1 /\ DOMAIN (<< x >> \o t) = 1 .. Len(t) + 1
      /\ (<< x >> \o t)[1] = x
      /\ \A k \in 2 .. Len(t) + 1 : (<< x >> \o t)[k] = t[k - 1]
  BY <1>2, ConsFacts
<1>4. ASSUME NEW k \in 2 .. Len(s) PROVE (<< x >> \o t)[k] = s[k]
  <2>1. k \in 2 .. Len(t) + 1 /\ k - 1 \in 1 .. Len(s) - 1 /\ (k - 1) + 1 = k
    BY <1>1, <1>2
  <2>2. (<< x >> \o t)[k] = t[k - 1] /\ t[k - 1] = s[(k - 1) + 1]
    BY Zenon, <1>2, <1>3, <2>1
  <2> QED
    BY Zenon, <2>1, <2>2
<1> QED
  BY <1>1, <1>2, <1>3, <1>4 DEF t

(* AppendModule moves a target to the modules it got. *)
LEMMA MoveFirst ==
    ASSUME NEW S, NEW a \in Seq(S), NEW b \in Seq(S), b # << >>
    PROVE  Append(a, Head(b)) \o Tail(b) = a \o b
<1>1. Append(a, Head(b)) \o Tail(b) \in Seq(S) /\ a \o b \in Seq(S)
  OBVIOUS
<1>2. Len(Append(a, Head(b)) \o Tail(b)) = Len(a) + Len(b) /\ Len(a \o b) = Len(a) + Len(b)
  OBVIOUS
<1>3. ASSUME NEW k \in 1 .. Len(a) + Len(b)
      PROVE  (Append(a, Head(b)) \o Tail(b))[k] = (a \o b)[k]
  OBVIOUS
<1> DEFINE u == Append(a, Head(b)) \o Tail(b)
           v == a \o b
<1>4. u \in Seq(S) /\ v \in Seq(S) /\ Len(u) = Len(v) /\ \A k \in 1 .. Len(u) : u[k] = v[k]
  BY Zenon, <1>1, <1>2, <1>3
<1> HIDE DEF u, v
<1>5. u = v
  BY <1>4
<1> QED
  BY Zenon, <1>5 DEF u, v

(* Range of an extended sequence. *)
LEMMA RangeFacts ==
    ASSUME NEW S, NEW s \in Seq(S)
    PROVE  /\ Range(s) \subseteq S
           /\ \A x \in S : Range(Append(s, x)) = Range(s) \cup {x}
           /\ s # << >> => Range(s) = {Head(s)} \cup Range(Tail(s)) /\ Head(s) \in S
           /\ Range(<< >>) = {}
<1>1. Range(s) \subseteq S
  BY DEF Range
<1>2. ASSUME NEW x \in S PROVE Range(Append(s, x)) = Range(s) \cup {x}
  <2> DEFINE t == Append(s, x)
  <2>1. /\ DOMAIN t = DOMAIN s \cup {Len(s) + 1} /\ t[Len(s) + 1] = x
        /\ \A k \in DOMAIN s : t[k] = s[k]
    OBVIOUS
  <2> HIDE DEF t
  <2>2. {t[k] : k \in DOMAIN t} = {s[k] : k \in DOMAIN s} \cup {x}
    BY <2>1
  <2> QED
    BY Zenon, <2>2 DEF Range, t
<1>3. ASSUME s # << >> PROVE Range(s) = {Head(s)} \cup Range(Tail(s)) /\ Head(s) \in S
  <2>1. ASSUME NEW k \in DOMAIN s PROVE s[k] \in {Head(s)} \cup Range(Tail(s))
    <3>1. CASE k = 1
      BY <1>3, <3>1
    <3>2. CASE k # 1
      <4>1. k - 1 \in DOMAIN Tail(s) /\ Tail(s)[k - 1] = s[k]
        BY <1>3, <3>2, TailFacts
      <4> QED
        BY Zenon, <4>1 DEF Range
    <3> QED
      BY Zenon, <3>1, <3>2
  <2>2. ASSUME NEW k \in DOMAIN Tail(s) PROVE Tail(s)[k] \in Range(s)
    <3>1. k + 1 \in DOMAIN s /\ Tail(s)[k] = s[k + 1]
      BY <1>3, TailFacts
    <3> QED
      BY Zenon, <3>1 DEF Range
  <2>3. Head(s) \in Range(s) /\ Head(s) \in S
    BY <1>3, TailFacts DEF Range
  <2>4. Range(s) = {s[k] : k \in DOMAIN s} /\ Range(Tail(s)) = {Tail(s)[k] : k \in DOMAIN Tail(s)}
    BY Zenon DEF Range
  <2> QED
    BY Zenon, <2>1, <2>2, <2>3, <2>4
<1>4. Range(<< >>) = {}
  BY DEF Range
<1> QED
  BY Zenon, <1>1, <1>2, <1>3, <1>4

-----------------------------------------------------------------------------
(***************************************************************************)
(* Parsing.                                                                *)
(***************************************************************************)
(* The files are those of the program. *)
LEMMA FileFacts ==
    ASSUME ParseTypes
    PROVE  /\ Main \in Files /\ Root \notin Files /\ Root \in Ids /\ Files \subseteq Ids
           /\ FileOf(Root) = Main /\ \A f \in Files : FileOf(f) = f
           /\ \A id \in Ids : FileOf(id) \in Files
           /\ \A f \in Files : program[f].imports \in Seq(Statements)
<1>1. Main \in Files /\ Root \notin Files
  BY Zenon, ProgramsAssumption DEF Root
<1>2. \A f \in Files : program[f].imports \in Seq(Statements)
  BY Zenon, ProgramsAssumption DEF ParseTypes, Statements
<1> QED
  BY Zenon, <1>1, <1>2 DEF Ids, FileOf

(* The parser that is active. *)
LEMMA ParserFacts ==
    ASSUME ParseTypes, StackInv, Parsing
    PROVE  /\ stack # << >> /\ Len(stack) \in Nat /\ Len(stack) >= 1 /\ Parser = stack[1]
           /\ DOMAIN stack = 1 .. Len(stack)
           /\ stack[Len(stack)].id = Root
           /\ \A k \in DOMAIN stack : stack[k] \in Parsers /\ stack[k].id \in Ids /\ stack[k].pos \in Nat \ {0}
                /\ stack[k].targets \in Seq(Files) /\ stack[k].got \in Seq(Files)
           /\ Root \in {stack[k].id : k \in DOMAIN stack}
           /\ \A k \in DOMAIN stack : stack[k].id = Root \/ (stack[k].id \in Files /\ predefined[stack[k].id] = "nil")
           /\ \A k \in DOMAIN stack : stack[k].id \notin Done
<1>1. stack # << >> /\ stack[Len(stack)].id = Root
  BY Zenon DEF StackInv
<1>2. Len(stack) \in Nat /\ Len(stack) >= 1 /\ Parser = stack[1] /\ DOMAIN stack = 1 .. Len(stack)
  BY <1>1, TailFacts DEF ParseTypes, Parser
<1>3. ASSUME NEW k \in DOMAIN stack
      PROVE  /\ stack[k] \in Parsers /\ stack[k].id \in Ids /\ stack[k].pos \in Nat \ {0}
             /\ stack[k].targets \in Seq(Files) /\ stack[k].got \in Seq(Files)
  <2>1. stack[k] \in Parsers
    BY DEF ParseTypes
  <2> QED
    BY <2>1, Zenon DEF Parsers
<1>4. Len(stack) \in DOMAIN stack
  BY <1>2
<1>5. ASSUME NEW k \in DOMAIN stack
      PROVE  stack[k].id = Root \/ (stack[k].id \in Files /\ predefined[stack[k].id] = "nil")
  <2>1. CASE k = Len(stack)
    BY Zenon, <1>1, <2>1
  <2>2. CASE k # Len(stack)
    <3>1. k \in 1 .. Len(stack) - 1
      BY <1>2, <2>2
    <3> QED
      BY Zenon, <3>1 DEF StackInv
  <2> QED
    BY Zenon, <2>1, <2>2
<1>6. ASSUME NEW k \in DOMAIN stack PROVE stack[k].id \notin Done
  BY Zenon, <1>5, FileFacts DEF Done
<1> QED
  BY Zenon, <1>1, <1>2, <1>3, <1>4, <1>5, <1>6

(* Report makes the main module faulty. *)
LEMMA ReportFacts ==
    ASSUME ParseTypes, StackInv, Parsing, Report
    PROVE  faulty' \subseteq Ids /\ Root \in faulty'
  BY Zenon, ParserFacts DEF Report, ParseTypes

(* No module is added and none is lost: what changes in the table is that  *)
(* new files are marked.                                                   *)
OnlyMarks ==
    /\ \A f \in Files : predefined[f] # "absent" => predefined'[f] = predefined[f]
    /\ \A f \in Files : predefined[f] = "absent" => predefined'[f] # "module"

(* A step of the innermost parser that leaves the parsed modules alone. *)
LEMMA GotoKeeps ==
    ASSUME ParseInv, Parsing, Parsing', imports' = imports,
           NEW p \in Parsers, p.id = Parser.id, Range(p.got) \subseteq Done,
           Goto(p), OnlyMarks
    PROVE  /\ GraphInv' /\ StackInv' /\ stack' \in Seq(Parsers) /\ Done' = Done
           /\ Len(stack') = Len(stack) /\ DOMAIN stack' = DOMAIN stack
           /\ stack'[1] = p /\ \A k \in 2 .. Len(stack) : stack'[k] = stack[k]
           /\ \A k \in DOMAIN stack : stack'[k].id = stack[k].id
<1>1. ParseTypes /\ GraphInv /\ StackInv
  BY Zenon DEF ParseInv
<1>2. stack \in Seq(Parsers)
  BY Zenon, <1>1 DEF ParseTypes
<1>3. /\ stack # << >> /\ Len(stack) \in Nat /\ Len(stack) >= 1 /\ Parser = stack[1]
      /\ DOMAIN stack = 1 .. Len(stack) /\ stack[Len(stack)].id = Root
  BY Zenon, <1>1, ParserFacts
<1>4. /\ stack' \in Seq(Parsers) /\ stack' # << >> /\ Len(stack') = Len(stack) /\ DOMAIN stack' = DOMAIN stack
      /\ stack'[1] = p /\ \A k \in 2 .. Len(stack) : stack'[k] = stack[k]
  BY <1>2, <1>3, ReplaceFirst DEF Goto
<1>5. \A k \in DOMAIN stack : stack'[k].id = stack[k].id
  <2> SUFFICES ASSUME NEW k \in DOMAIN stack PROVE stack'[k].id = stack[k].id
    BY Zenon
  <2>1. CASE k = 1
    BY Zenon, <1>3, <1>4, <2>1
  <2>2. CASE k # 1
    BY <1>3, <1>4, <2>2
  <2> QED
    BY Zenon, <2>1, <2>2
<1>6. Done' = Done
  BY Zenon, <1>1 DEF Done, ParseTypes, OnlyMarks
<1>7. \A id : Mods(imports', id) = Mods(imports, id)
  BY Zenon DEF Mods
<1>8. GraphInv'
  <2>1. \A f \in Files : predefined'[f] = "absent" => predefined[f] = "absent"
    BY Zenon, <1>1 DEF ParseTypes, OnlyMarks
  <2> QED
    BY Zenon, <1>1, <1>6, <1>7, <2>1 DEF GraphInv
<1>9. StackInv'
  <2>1. stack'[Len(stack')].id = Root
    BY <1>3, <1>4, <1>5
  <2>2. ASSUME NEW k \in 1 .. Len(stack') - 1 PROVE stack'[k].id \in Files /\ predefined'[stack'[k].id] = "nil"
    <3>1. k \in DOMAIN stack /\ k \in 1 .. Len(stack) - 1
      BY <1>3, <1>4
    <3>2. stack[k].id \in Files /\ predefined[stack[k].id] = "nil"
      BY Zenon, <1>1, <3>1 DEF StackInv
    <3> QED
      BY Zenon, <1>5, <3>1, <3>2 DEF OnlyMarks
  <2>3. \A j, k \in DOMAIN stack' : stack'[j].id = stack'[k].id => j = k
    BY Zenon, <1>1, <1>4, <1>5 DEF StackInv
  <2>4. ASSUME NEW k \in DOMAIN stack' PROVE Mods(imports, stack'[k].id) \subseteq Done /\ Range(stack'[k].got) \subseteq Done
    <3>1. Mods(imports, stack'[k].id) \subseteq Done
      BY Zenon, <1>1, <1>4, <1>5 DEF StackInv
    <3>2. CASE k = 1
      BY Zenon, <1>4, <3>1, <3>2
    <3>3. CASE k # 1
      BY <1>1, <1>3, <1>4, <3>1, <3>3 DEF StackInv
    <3> QED
      BY Zenon, <3>2, <3>3
  <2>5. ASSUME NEW k \in 2 .. Len(stack') PROVE stack'[k].targets # << >> /\ Head(stack'[k].targets) = stack'[k - 1].id
    <3>1. k \in 2 .. Len(stack) /\ k - 1 \in DOMAIN stack
      BY <1>3, <1>4
    <3> QED
      BY Zenon, <1>1, <1>4, <1>5, <3>1 DEF StackInv
  <2> QED
    BY Zenon, <1>4, <1>6, <1>7, <2>1, <2>2, <2>3, <2>4, <2>5 DEF StackInv
<1> QED
  BY Zenon, <1>4, <1>5, <1>6, <1>8, <1>9

(* The records the parser steps make. *)
LEMMA ParserRecords ==
    ASSUME NEW p \in Parsers, p.targets # << >>
    PROVE  /\ SkipModule(p) \in Parsers /\ SkipModule(p).id = p.id /\ SkipModule(p).pos = p.pos
           /\ SkipModule(p).got = p.got
           /\ AppendModule(p) \in Parsers /\ AppendModule(p).id = p.id /\ AppendModule(p).pos = p.pos
           /\ AppendModule(p).got = Append(p.got, Head(p.targets))
           /\ AppendModule(p).targets = Tail(p.targets)
           /\ AppendModule(p).got \o AppendModule(p).targets = p.got \o p.targets
           /\ Range(AppendModule(p).got) = Range(p.got) \cup {Head(p.targets)}
           /\ Head(p.targets) \in Files
<1>1. p.id \in Ids /\ p.pos \in Nat \ {0} /\ p.targets \in Seq(Files) /\ p.got \in Seq(Files)
  BY Zenon DEF Parsers
<1>2. Tail(p.targets) \in Seq(Files) /\ Head(p.targets) \in Files
  BY Zenon, <1>1, TailFacts
<1>3. Append(p.got, Head(p.targets)) \in Seq(Files)
  BY <1>1, <1>2
<1>4. /\ SkipModule(p) \in Parsers /\ SkipModule(p).id = p.id /\ SkipModule(p).pos = p.pos
      /\ SkipModule(p).got = p.got
  BY <1>1, <1>2, Zenon DEF SkipModule, Parsers
<1>5. /\ AppendModule(p) \in Parsers /\ AppendModule(p).id = p.id /\ AppendModule(p).pos = p.pos
      /\ AppendModule(p).got = Append(p.got, Head(p.targets))
      /\ AppendModule(p).targets = Tail(p.targets)
  BY <1>1, <1>2, <1>3, Zenon DEF AppendModule, Parsers
<1>6. Append(p.got, Head(p.targets)) \o Tail(p.targets) = p.got \o p.targets
  BY Zenon, <1>1, MoveFirst
<1>7. Range(Append(p.got, Head(p.targets))) = Range(p.got) \cup {Head(p.targets)}
  BY <1>1, <1>2, RangeFacts
<1> QED
  BY Zenon, <1>2, <1>4, <1>5, <1>6, <1>7

(* The innermost parser begins an import statement. *)
LEMMA BeginImportParse ==
    ASSUME ParseInv, BeginImport
    PROVE  ParseInv'
<1>1. ParseTypes /\ GraphInv /\ StackInv /\ FoundInv
  BY Zenon DEF ParseInv
<1>2. /\ Parsing /\ pc' = "resolve" /\ Parsing' /\ Parser.pos <= Len(File.imports)
      /\ program' = program /\ predefined' = predefined /\ imports' = imports /\ faulty' = faulty
  BY Zenon DEF BeginImport, Parsing
<1>3. /\ Parser = stack[1] /\ DOMAIN stack = 1 .. Len(stack) /\ Len(stack) \in Nat /\ Len(stack) >= 1
      /\ Parser.id \in Ids /\ Parser.pos \in Nat \ {0}
  BY <1>1, <1>2, ParserFacts
<1> DEFINE t == Statement.targets
           e == << >>
           p == [id |-> Parser.id, pos |-> Parser.pos, targets |-> t, got |-> e]
<1>4. File.imports[Parser.pos] \in Statements
  BY <1>1, <1>2, <1>3, FileFacts DEF File
<1>5. t \in Seq(Files) /\ e \in Seq(Files) /\ Range(e) = {} /\ e \o t = t
  <2>1. t \in Seq(Files)
    BY <1>4, Zenon DEF Statements, Statement
  <2> QED
    BY <2>1 DEF Range
<1>6. Goto(p)
  BY Zenon DEF BeginImport
<1>7. t = TargetsOf(program, Parser.id, Parser.pos) /\ Parser.pos <= Len(StatementsOf(program, Parser.id))
  BY Zenon, <1>2 DEF Statement, File, TargetsOf, StatementsOf
<1> HIDE DEF t, e
<1>8. p \in Parsers /\ p.id = Parser.id /\ p.pos = Parser.pos /\ p.targets = t /\ p.got = e
  BY <1>3, <1>5, Zenon DEF Parsers
<1> HIDE DEF p
<1>9. /\ GraphInv' /\ StackInv' /\ stack' \in Seq(Parsers) /\ Done' = Done /\ DOMAIN stack' = DOMAIN stack
      /\ stack'[1] = p /\ \A k \in 2 .. Len(stack) : stack'[k] = stack[k]
  BY Zenon, <1>1, <1>2, <1>5, <1>6, <1>8, GotoKeeps DEF OnlyMarks
<1>10. FoundInv'
  <2> SUFFICES ASSUME Root \notin faulty, NEW k \in DOMAIN stack
               PROVE  FoundBefore(program, imports, stack'[k]) /\ AtStatement(program, stack'[k])
    BY Zenon, <1>1, <1>2, <1>9 DEF FoundInv
  <2>1. CASE k = 1
    <3>1. AtStatement(program, p)
      BY Zenon, <1>5, <1>7, <1>8 DEF AtStatement
    <3>2. FoundBefore(program, imports, Parser)
      BY <1>1, <1>3 DEF FoundInv
    <3>3. FoundBefore(program, imports, p)
      BY Zenon, <1>8, <3>2 DEF FoundBefore
    <3> QED
      BY Zenon, <1>9, <2>1, <3>1, <3>3
  <2>2. CASE k # 1
    BY <1>1, <1>3, <1>9, <2>2 DEF FoundInv
  <2> QED
    BY Zenon, <2>1, <2>2
<1> QED
  BY Zenon, <1>1, <1>2, <1>9, <1>10 DEF ParseInv, ParseTypes

(* A file that is known already is used or reported. *)
LEMMA UseKnownParse ==
    ASSUME ParseInv, UseKnown
    PROVE  ParseInv'
<1>1. ParseTypes /\ GraphInv /\ StackInv /\ FoundInv
  BY Zenon DEF ParseInv
<1>2. /\ Parsing /\ pc = "resolve" /\ pc' = "resolve" /\ Parsing' /\ Parser.targets # << >>
      /\ program' = program /\ predefined' = predefined /\ imports' = imports
  BY Zenon DEF UseKnown, Parsing
<1>3. /\ Parser = stack[1] /\ DOMAIN stack = 1 .. Len(stack) /\ Len(stack) \in Nat /\ Len(stack) >= 1
      /\ Parser \in Parsers
  BY <1>1, <1>2, ParserFacts
<1>4. Range(Parser.got) \subseteq Done
  BY <1>1, <1>3 DEF StackInv
<1>5. CASE Circular
  <2> DEFINE p == SkipModule(Parser)
  <2>1. p \in Parsers /\ p.id = Parser.id /\ p.got = Parser.got
    BY Zenon, <1>2, <1>3, ParserRecords
  <2>2. Goto(p)
    BY Zenon, <1>5 DEF Circular
  <2> HIDE DEF p
  <2>3. GraphInv' /\ StackInv' /\ stack' \in Seq(Parsers)
    BY Zenon, <1>1, <1>2, <1>4, <2>1, <2>2, GotoKeeps DEF OnlyMarks
  <2>4. faulty' \subseteq Ids /\ Root \in faulty'
    BY Zenon, <1>1, <1>2, <1>5, ReportFacts DEF Circular
  <2> QED
    BY Zenon, <1>1, <1>2, <2>3, <2>4 DEF ParseInv, ParseTypes, FoundInv
<1>6. CASE predefined[Head(Parser.targets)] = "module" /\ Goto(AppendModule(Parser)) /\ faulty' = faulty
  <2> DEFINE p == AppendModule(Parser)
  <2>1. /\ p \in Parsers /\ p.id = Parser.id /\ p.pos = Parser.pos
        /\ p.got \o p.targets = Parser.got \o Parser.targets
        /\ Range(p.got) = Range(Parser.got) \cup {Head(Parser.targets)} /\ Head(Parser.targets) \in Files
    BY Zenon, <1>2, <1>3, ParserRecords
  <2>2. Goto(p)
    BY Zenon, <1>6
  <2> HIDE DEF p
  <2>3. Range(p.got) \subseteq Done
    BY Zenon, <1>4, <1>6, <2>1 DEF Done
  <2>4. /\ GraphInv' /\ StackInv' /\ stack' \in Seq(Parsers) /\ Done' = Done /\ DOMAIN stack' = DOMAIN stack
        /\ stack'[1] = p /\ \A k \in 2 .. Len(stack) : stack'[k] = stack[k]
    BY Zenon, <1>1, <1>2, <2>1, <2>2, <2>3, GotoKeeps DEF OnlyMarks
  <2>5. FoundInv'
    <3> SUFFICES ASSUME Root \notin faulty, NEW k \in DOMAIN stack
                 PROVE  FoundBefore(program, imports, stack'[k]) /\ AtStatement(program, stack'[k])
      BY Zenon, <1>1, <1>2, <1>6, <2>4 DEF FoundInv
    <3>1. CASE k = 1
      <4>1. FoundBefore(program, imports, Parser) /\ AtStatement(program, Parser)
        BY <1>1, <1>2, <1>3 DEF FoundInv
      <4>2. FoundBefore(program, imports, p) /\ AtStatement(program, p)
        BY Zenon, <2>1, <4>1 DEF FoundBefore, AtStatement
      <4> QED
        BY Zenon, <2>4, <3>1, <4>2
    <3>2. CASE k # 1
      BY <1>1, <1>3, <2>4, <3>2 DEF FoundInv
    <3> QED
      BY Zenon, <3>1, <3>2
  <2> QED
    BY Zenon, <1>1, <1>2, <1>6, <2>4, <2>5 DEF ParseInv, ParseTypes
<1> QED
  BY Zenon, <1>5, <1>6 DEF UseKnown

(* An error that is met while a module is parsed makes the main module     *)
(* faulty.                                                                 *)
LEMMA ChangedFacts ==
    ASSUME ParseTypes, StackInv, Parsing, NEW m, Changed(m)
    PROVE  faulty' \subseteq Ids /\ (Root \notin faulty' => faulty' = faulty)
<1>1. CASE m.err
  BY Zenon, <1>1, ReportFacts DEF Changed
<1>2. CASE ~m.err
  BY Zenon, <1>2 DEF Changed, ParseTypes
<1> QED
  BY Zenon, <1>1, <1>2

(* A new file is parsed, or reported if it is missing. *)
LEMMA ParseNewParse ==
    ASSUME ParseInv, ParseNew
    PROVE  ParseInv'
<1>1. ParseTypes /\ GraphInv /\ StackInv /\ FoundInv
  BY Zenon DEF ParseInv
<1> DEFINE f == Head(Parser.targets)
<1>2. /\ Parsing /\ pc = "resolve" /\ Parser.targets # << >> /\ Parsing'
      /\ predefined[f] = "absent" /\ predefined' = [predefined EXCEPT ![f] = "nil"]
      /\ program' = program /\ imports' = imports
  BY Zenon DEF ParseNew, Parsing, Marked
<1>3. /\ stack # << >> /\ Parser = stack[1] /\ DOMAIN stack = 1 .. Len(stack) /\ Len(stack) \in Nat /\ Len(stack) >= 1
      /\ Parser \in Parsers /\ stack[Len(stack)].id = Root
  BY <1>1, <1>2, ParserFacts
<1>4. f \in Files /\ f # Root
  BY Zenon, <1>1, <1>2, <1>3, ParserRecords, FileFacts
<1>5. CASE Report /\ Goto(SkipModule(Parser))
  <2> DEFINE p == SkipModule(Parser)
  <2>1. p \in Parsers /\ p.id = Parser.id /\ p.got = Parser.got
    BY Zenon, <1>2, <1>3, ParserRecords
  <2>2. Goto(p)
    BY Zenon, <1>5
  <2>3. Range(Parser.got) \subseteq Done
    BY <1>1, <1>3 DEF StackInv
  <2> HIDE DEF p, f
  <2>4. OnlyMarks
    BY Zenon, <1>1, <1>2, <1>4 DEF ParseTypes, OnlyMarks
  <2>5. GraphInv' /\ StackInv' /\ stack' \in Seq(Parsers)
    BY Zenon, <1>1, <1>2, <2>1, <2>2, <2>3, <2>4, GotoKeeps
  <2>6. faulty' \subseteq Ids /\ Root \in faulty'
    BY Zenon, <1>1, <1>2, <1>5, ReportFacts
  <2>7. predefined' \in [Files -> {"absent", "nil", "module"}]
    BY Zenon, <1>1, <1>2 DEF ParseTypes
  <2> QED
    BY Zenon, <1>1, <1>2, <2>5, <2>6, <2>7 DEF ParseInv, ParseTypes, FoundInv
<1>6. CASE stack' = << NewParser(f) >> \o stack /\ pc' = "import" /\ faulty' = faulty
  <2> DEFINE e == << >>
             p == [id |-> f, pos |-> 1, targets |-> e, got |-> e]
  <2>1. e \in Seq(Files) /\ Range(e) = {}
    BY DEF Range
  <2>2. stack' = << p >> \o stack
    BY Zenon, <1>6 DEF NewParser
  <2>3. Len(e) = 0
    BY Zenon
  <2> HIDE DEF e
  <2>4. f \in Ids /\ 1 \in Nat \ {0}
    BY <1>4 DEF Ids
  <2>5. p \in Parsers /\ p.id = f /\ p.pos = 1 /\ p.got = e
    BY <2>1, <2>4, Zenon DEF Parsers
  <2>6. f = Head(stack[1].targets) /\ stack[1].targets # << >>
    BY Zenon, <1>2, <1>3
  <2> HIDE DEF p, f
  <2>7. stack \in Seq(Parsers)
    BY Zenon, <1>1 DEF ParseTypes
  <2>8. /\ stack' \in Seq(Parsers) /\ stack' # << >> /\ Len(stack') = Len(stack) + 1
        /\ DOMAIN stack' = 1 .. Len(stack) + 1
        /\ stack'[1] = p /\ \A k \in 2 .. Len(stack) + 1 : stack'[k] = stack[k - 1]
    BY <2>2, <2>5, <2>7, ConsFacts
  <2>9. /\ \A g \in Files : g # f => predefined'[g] = predefined[g]
        /\ predefined'[f] = "nil" /\ predefined' \in [Files -> {"absent", "nil", "module"}]
    BY Zenon, <1>1, <1>2, <1>4 DEF ParseTypes
  <2>10. Done' = Done
    BY Zenon, <1>2, <1>4, <2>9 DEF Done
  <2>11. \A id : Mods(imports', id) = Mods(imports, id)
    BY Zenon, <1>2 DEF Mods
  <2>12. imports[f] = << >>
    BY Zenon, <1>1, <1>2, <1>4 DEF GraphInv
  <2>13. Mods(imports, f) = {}
    BY <2>12 DEF Mods
  <2>14. GraphInv'
    BY Zenon, <1>1, <1>2, <1>4, <2>9, <2>10, <2>11 DEF GraphInv
  <2>15. \A k \in DOMAIN stack : stack[k].id # f
    BY Zenon, <1>1, <1>2, <1>4, ParserFacts
  <2>16. ASSUME NEW k \in DOMAIN stack' PROVE k = 1 \/ (k - 1 \in DOMAIN stack /\ stack'[k] = stack[k - 1] /\ k \in 2 .. Len(stack) + 1)
    BY <1>3, <2>8
  <2>17. StackInv'
    <3>1. stack'[Len(stack')].id = Root
      <4>1. Len(stack) + 1 \in DOMAIN stack' /\ (Len(stack) + 1) - 1 = Len(stack) /\ Len(stack) + 1 # 1
        BY <1>3, <2>8
      <4> QED
        BY Zenon, <1>3, <2>8, <2>16, <4>1
    <3>2. ASSUME NEW k \in 1 .. Len(stack') - 1 PROVE stack'[k].id \in Files /\ predefined'[stack'[k].id] = "nil"
      <4>1. CASE k = 1
        BY Zenon, <1>4, <2>5, <2>8, <2>9, <4>1
      <4>2. CASE k # 1
        <5>1. k - 1 \in 1 .. Len(stack) - 1 /\ k \in DOMAIN stack'
          BY <1>3, <2>8, <4>2
        <5>2. stack[k - 1].id \in Files /\ predefined[stack[k - 1].id] = "nil"
          BY Zenon, <1>1, <5>1 DEF StackInv
        <5>3. stack'[k] = stack[k - 1] /\ k - 1 \in DOMAIN stack
          BY Zenon, <2>16, <4>2, <5>1
        <5> QED
          BY Zenon, <2>9, <2>15, <5>2, <5>3
      <4> QED
        BY Zenon, <4>1, <4>2
    <3>3. ASSUME NEW j \in DOMAIN stack', NEW k \in DOMAIN stack', stack'[j].id = stack'[k].id
          PROVE  j = k
      <4>1. CASE j = 1 /\ k = 1
        BY Zenon, <4>1
      <4>2. CASE j # 1 /\ k = 1
        BY Zenon, <2>5, <2>8, <2>15, <2>16, <3>3, <4>2
      <4>3. CASE j = 1 /\ k # 1
        BY Zenon, <2>5, <2>8, <2>15, <2>16, <3>3, <4>3
      <4>4. CASE j # 1 /\ k # 1
        <5>1. j - 1 \in DOMAIN stack /\ k - 1 \in DOMAIN stack /\ stack[j - 1].id = stack[k - 1].id
          BY Zenon, <2>16, <3>3, <4>4
        <5>2. j - 1 = k - 1
          BY Zenon, <1>1, <5>1 DEF StackInv
        <5> QED
          BY <1>3, <2>8, <5>2
      <4> QED
        BY Zenon, <4>1, <4>2, <4>3, <4>4
    <3>4. ASSUME NEW k \in DOMAIN stack' PROVE Mods(imports, stack'[k].id) \subseteq Done /\ Range(stack'[k].got) \subseteq Done
      <4>1. CASE k = 1
        BY Zenon, <2>1, <2>5, <2>8, <2>13, <4>1
      <4>2. CASE k # 1
        <5>1. stack'[k] = stack[k - 1] /\ k - 1 \in DOMAIN stack
          BY Zenon, <2>16, <4>2
        <5> QED
          BY Zenon, <1>1, <5>1 DEF StackInv
      <4> QED
        BY Zenon, <4>1, <4>2
    <3>5. ASSUME NEW k \in 2 .. Len(stack') PROVE stack'[k].targets # << >> /\ Head(stack'[k].targets) = stack'[k - 1].id
      <4>1. k \in DOMAIN stack' /\ k # 1 /\ stack'[k] = stack[k - 1]
        BY <1>3, <2>8
      <4>2. CASE k = 2
        BY <2>5, <2>6, <2>8, <4>1, <4>2
      <4>3. CASE k # 2
        <5>1. k - 1 \in 2 .. Len(stack) /\ k - 1 \in DOMAIN stack' /\ k - 1 # 1
          BY <1>3, <2>8, <4>3
        <5>2. stack'[k - 1] = stack[(k - 1) - 1]
          BY Zenon, <2>16, <5>1
        <5>3. stack[k - 1].targets # << >> /\ Head(stack[k - 1].targets) = stack[(k - 1) - 1].id
          BY Zenon, <1>1, <5>1 DEF StackInv
        <5> QED
          BY Zenon, <4>1, <5>2, <5>3
      <4> QED
        BY Zenon, <4>2, <4>3
    <3> QED
      BY Zenon, <1>2, <2>8, <2>10, <2>11, <3>1, <3>2, <3>3, <3>4, <3>5 DEF StackInv
  <2>18. FoundInv'
    <3> SUFFICES ASSUME Root \notin faulty, NEW k \in DOMAIN stack'
                 PROVE  FoundBefore(program, imports, stack'[k]) /\ (k > 1 => AtStatement(program, stack'[k]))
      BY Zenon, <1>1, <1>2, <1>6, <2>10 DEF FoundInv
    <3>1. CASE k = 1
      <4>1. program[FileOf(f)].imports \in Seq(Statements)
        BY Zenon, <1>1, <1>4, FileFacts
      <4>2. Found(program, imports, f, 0)
        BY <2>12 DEF Found
      <4>3. FoundBefore(program, imports, p)
        BY <2>5, <4>1, <4>2 DEF FoundBefore, StatementsOf
      <4> QED
        BY <2>8, <3>1, <4>3
    <3>2. CASE k # 1
      BY Zenon, <1>1, <1>2, <2>16, <3>2 DEF FoundInv
    <3> QED
      BY Zenon, <3>1, <3>2
  <2> QED
    BY Zenon, <1>1, <1>2, <1>6, <2>8, <2>9, <2>14, <2>17, <2>18 DEF ParseInv, ParseTypes
<1>7. \/ Report /\ Goto(SkipModule(Parser))
      \/ stack' = << NewParser(f) >> \o stack /\ pc' = "import" /\ faulty' = faulty
  BY Zenon DEF ParseNew
<1> QED
  BY Zenon, <1>5, <1>6, <1>7

(* The modules that a statement got become imports of its module. *)
LEMMA FinishImportParse ==
    ASSUME ParseInv, FinishImport
    PROVE  ParseInv'
<1>1. ParseTypes /\ GraphInv /\ StackInv /\ FoundInv
  BY Zenon DEF ParseInv
<1> DEFINE id == Parser.id
           got == Parser.got
           e == << >>
           p == [id |-> id, pos |-> Parser.pos + 1, targets |-> e, got |-> e]
<1>2. /\ Parsing /\ pc = "resolve" /\ pc' = "import" /\ Parser.targets = << >> /\ Parsing'
      /\ program' = program /\ predefined' = predefined
      /\ imports' = [imports EXCEPT ![id] = Append(@, got)]
      /\ stack' = << p >> \o Tail(stack)
  BY Zenon DEF FinishImport, Parsing, Goto
<1>3. faulty' \subseteq Ids /\ (Root \notin faulty' => faulty' = faulty)
  BY Zenon, <1>1, <1>2, ChangedFacts DEF FinishImport
<1>4. /\ stack # << >> /\ Parser = stack[1] /\ DOMAIN stack = 1 .. Len(stack) /\ Len(stack) \in Nat /\ Len(stack) >= 1
      /\ id \in Ids /\ Parser.pos \in Nat \ {0} /\ got \in Seq(Files)
      /\ stack[Len(stack)].id = Root /\ id \notin Done
      /\ id = Root \/ (id \in Files /\ predefined[id] = "nil")
  BY <1>1, <1>2, ParserFacts
<1>5. Range(got) \subseteq Done
  BY <1>1, <1>4 DEF StackInv
<1>6. e \in Seq(Files) /\ Range(e) = {} /\ Parser.targets = e
  BY <1>2 DEF Range
<1> HIDE DEF e, got
<1>7. p \in Parsers /\ p.id = id /\ p.pos = Parser.pos + 1 /\ p.got = e
  <2>1. Parser.pos + 1 \in Nat \ {0}
    BY <1>4
  <2> QED
    BY <1>4, <1>6, <2>1, Zenon DEF Parsers
<1> HIDE DEF p
<1>8. stack \in Seq(Parsers) /\ imports[id] \in Seq(Seq(Files))
  BY Zenon, <1>1, <1>4 DEF ParseTypes
<1> HIDE DEF id
<1>9. /\ stack' \in Seq(Parsers) /\ stack' # << >> /\ Len(stack') = Len(stack) /\ DOMAIN stack' = DOMAIN stack
      /\ stack'[1] = p /\ \A k \in 2 .. Len(stack) : stack'[k] = stack[k]
  BY <1>2, <1>4, <1>7, <1>8, ReplaceFirst
<1>10. \A k \in DOMAIN stack : stack'[k].id = stack[k].id
  BY <1>4, <1>7, <1>9 DEF id
<1>11. /\ imports' \in [Ids -> Seq(Seq(Files))]
       /\ imports'[id] = Append(imports[id], got) /\ \A x \in Ids : x # id => imports'[x] = imports[x]
  BY <1>1, <1>2, <1>4, <1>8 DEF ParseTypes
<1>12. Done' = Done /\ Done \subseteq Ids
  BY Zenon, <1>2 DEF Done, Ids
<1>13. \A x \in Ids : x # id => Mods(imports', x) = Mods(imports, x)
  BY Zenon, <1>11 DEF Mods
<1>14. Mods(imports', id) = Mods(imports, id) \cup Range(got)
  <2> DEFINE s == imports[id]
             t == Append(s, got)
  <2>1. /\ DOMAIN t = DOMAIN s \cup {Len(s) + 1} /\ t[Len(s) + 1] = got
        /\ \A k \in DOMAIN s : t[k] = s[k]
    BY <1>4, <1>8
  <2>2. Mods(imports', id) = UNION {Range(t[k]) : k \in DOMAIN t}
    BY Zenon, <1>11 DEF Mods
  <2>3. Mods(imports, id) = UNION {Range(s[k]) : k \in DOMAIN s}
    BY Zenon DEF Mods
  <2> HIDE DEF s, t
  <2> QED
    BY <2>1, <2>2, <2>3
<1>15. \A x \in Ids : Mods(imports, x) \subseteq Done => Mods(imports', x) \subseteq Done
  BY <1>5, <1>13, <1>14, Zenon
<1>16. GraphInv'
  <2>1. \A f \in Done : Mods(imports', f) = Mods(imports, f)
    BY Zenon, <1>4, <1>12, <1>13
  <2>2. \A f \in Files : predefined'[f] = "absent" => imports'[f] = << >>
    <3> SUFFICES ASSUME NEW f \in Files, predefined[f] = "absent" PROVE imports'[f] = << >>
      BY Zenon, <1>2
    <3>1. f # id /\ f \in Ids
      BY Zenon, <1>1, <1>4, FileFacts
    <3> QED
      BY Zenon, <1>1, <1>11, <3>1 DEF GraphInv
  <2>3. Mods(imports', Root) \subseteq Done
    BY Zenon, <1>1, <1>15, FileFacts DEF GraphInv
  <2>4. \A S \in SUBSET Done : S # {} => \E f \in S : Mods(imports', f) \cap S = {}
    <3> SUFFICES ASSUME NEW S \in SUBSET Done, S # {} PROVE \E f \in S : Mods(imports', f) \cap S = {}
      BY Zenon
    <3>1. PICK f \in S : Mods(imports, f) \cap S = {}
      BY Zenon, <1>1 DEF GraphInv
    <3> QED
      BY Zenon, <2>1, <3>1
  <2> QED
    BY Zenon, <1>1, <1>12, <2>1, <2>2, <2>3, <2>4 DEF GraphInv
<1>17. StackInv'
  <2>1. stack'[Len(stack')].id = Root
    BY <1>4, <1>9, <1>10
  <2>2. ASSUME NEW k \in 1 .. Len(stack') - 1 PROVE stack'[k].id \in Files /\ predefined'[stack'[k].id] = "nil"
    <3>1. k \in DOMAIN stack /\ k \in 1 .. Len(stack) - 1
      BY <1>4, <1>9
    <3> QED
      BY Zenon, <1>1, <1>2, <1>10, <3>1 DEF StackInv
  <2>3. \A j, k \in DOMAIN stack' : stack'[j].id = stack'[k].id => j = k
    BY Zenon, <1>1, <1>9, <1>10 DEF StackInv
  <2>4. ASSUME NEW k \in DOMAIN stack' PROVE Mods(imports', stack'[k].id) \subseteq Done /\ Range(stack'[k].got) \subseteq Done
    <3>1. Mods(imports, stack[k].id) \subseteq Done /\ stack[k].id \in Ids /\ stack'[k].id = stack[k].id
      BY Zenon, <1>1, <1>2, <1>9, <1>10, ParserFacts DEF StackInv
    <3>2. Mods(imports', stack'[k].id) \subseteq Done
      BY Zenon, <1>15, <3>1
    <3>3. CASE k = 1
      BY Zenon, <1>6, <1>7, <1>9, <3>2, <3>3
    <3>4. CASE k # 1
      BY <1>1, <1>4, <1>9, <3>2, <3>4 DEF StackInv
    <3> QED
      BY Zenon, <3>3, <3>4
  <2>5. ASSUME NEW k \in 2 .. Len(stack') PROVE stack'[k].targets # << >> /\ Head(stack'[k].targets) = stack'[k - 1].id
    <3>1. k \in 2 .. Len(stack) /\ k - 1 \in DOMAIN stack
      BY <1>4, <1>9
    <3> QED
      BY Zenon, <1>1, <1>9, <1>10, <3>1 DEF StackInv
  <2> QED
    BY Zenon, <1>2, <1>9, <1>12, <2>1, <2>2, <2>3, <2>4, <2>5 DEF StackInv
<1>18. FoundInv'
  <2> SUFFICES ASSUME Root \notin faulty'
               PROVE  /\ \A f \in Done : FoundAll(program, imports', f)
                      /\ \A k \in DOMAIN stack :
                            /\ FoundBefore(program, imports', stack'[k])
                            /\ k > 1 => AtStatement(program, stack'[k])
    BY Zenon, <1>2, <1>9, <1>12 DEF FoundInv
  <2>1. Root \notin faulty
    BY Zenon, <1>3
  <2>2. ASSUME NEW x \in Ids, x # id, NEW n
        PROVE  Found(program, imports, x, n) => Found(program, imports', x, n)
    <3>1. imports'[x] = imports[x]
      BY Zenon, <1>11, <2>2
    <3> QED
      BY <3>1, Zenon DEF Found
  <2>3. ASSUME NEW f \in Done PROVE FoundAll(program, imports', f)
    BY Zenon, <1>1, <1>4, <1>12, <2>1, <2>2 DEF FoundInv, FoundAll
  <2>4. ASSUME NEW k \in DOMAIN stack
        PROVE  FoundBefore(program, imports', stack'[k]) /\ (k > 1 => AtStatement(program, stack'[k]))
    <3>1. CASE k = 1
      <4>1. FoundBefore(program, imports, Parser) /\ AtStatement(program, Parser)
        BY <1>1, <1>2, <1>4, <2>1 DEF FoundInv
      <4> DEFINE n == Parser.pos - 1
                 file == program[FileOf(id)].imports
      <4>2. n \in Nat /\ n + 1 = Parser.pos /\ (Parser.pos + 1) - 1 = n + 1
        BY <1>4
      <4>3. Len(imports[id]) = n /\ \A j \in 1 .. n : imports[id][j] = file[j].targets
        BY Zenon, <4>1 DEF FoundBefore, Found, id
      <4>4. n + 1 <= Len(file) /\ got = file[n + 1].targets
        <5>1. Parser.pos <= Len(file) /\ got \o e = file[Parser.pos].targets
          <6>1. Parser.pos <= Len(StatementsOf(program, id)) /\ got \o Parser.targets = TargetsOf(program, id, Parser.pos)
            BY Zenon, <4>1 DEF AtStatement, id, got
          <6> QED
            BY Zenon, <1>6, <6>1 DEF StatementsOf, TargetsOf
        <5>2. got \o e = got
          BY <1>4, <1>6 DEF e
        <5> QED
          BY Zenon, <4>2, <5>1, <5>2
      <4>5. file \in Seq(Statements)
        BY Zenon, <1>1, <1>4, FileFacts
      <4> HIDE DEF n, file
      <4>6. Len(imports'[id]) = n + 1 /\ \A j \in 1 .. n + 1 : imports'[id][j] = file[j].targets
        BY <1>4, <1>8, <1>11, <4>2, <4>3, <4>4
      <4>7. Found(program, imports', id, n + 1) /\ n + 2 <= Len(file) + 1
        BY <4>2, <4>4, <4>5, <4>6 DEF Found, file
      <4>8. FoundBefore(program, imports', p)
        BY <1>7, <4>2, <4>5, <4>7 DEF FoundBefore, StatementsOf, file
      <4> QED
        BY <1>9, <3>1, <4>8
    <3>2. CASE k # 1
      <4>1. stack'[k] = stack[k] /\ stack[k].id \in Ids /\ stack[k].id # id /\ k > 1
        <5>1. stack[k].id \in Ids /\ stack[1].id = id /\ 1 \in DOMAIN stack
          BY <1>1, <1>2, <1>4, ParserFacts DEF id
        <5>2. stack[k].id # stack[1].id
          BY <1>1, <3>2, <5>1, Zenon DEF StackInv
        <5>3. k \in 2 .. Len(stack) /\ k > 1
          BY <1>4, <3>2
        <5> QED
          BY Zenon, <1>9, <5>1, <5>2, <5>3
      <4>2. FoundBefore(program, imports, stack[k]) /\ AtStatement(program, stack[k])
        BY Zenon, <1>1, <2>1, <4>1 DEF FoundInv
      <4> QED
        BY Zenon, <2>2, <4>1, <4>2 DEF FoundBefore
    <3> QED
      BY Zenon, <3>1, <3>2
  <2> QED
    BY Zenon, <2>3, <2>4
<1> QED
  BY Zenon, <1>1, <1>2, <1>3, <1>9, <1>11, <1>16, <1>17, <1>18 DEF ParseInv, ParseTypes

(* What is left of the stack when a parser returns to the one that called  *)
(* it.                                                                     *)
LEMMA PopFacts ==
    ASSUME NEW S, NEW s \in Seq(S), Len(s) > 1, NEW x \in S
    PROVE  /\ << x >> \o Tail(Tail(s)) \in Seq(S) /\ << x >> \o Tail(Tail(s)) # << >>
           /\ Len(<< x >> \o Tail(Tail(s))) = Len(s) - 1 /\ DOMAIN (<< x >> \o Tail(Tail(s))) = 1 .. Len(s) - 1
           /\ (<< x >> \o Tail(Tail(s)))[1] = x
           /\ \A k \in 2 .. Len(s) - 1 : (<< x >> \o Tail(Tail(s)))[k] = s[k + 1]
<1> DEFINE t == Tail(s)
<1>1. /\ t \in Seq(S) /\ t # << >> /\ Len(s) \in Nat /\ Len(t) = Len(s) - 1
      /\ \A k \in 1 .. Len(s) - 1 : t[k] = s[k + 1]
  BY TailFacts
<1> HIDE DEF t
<1>2. /\ << x >> \o Tail(t) \in Seq(S) /\ << x >> \o Tail(t) # << >>
      /\ Len(<< x >> \o Tail(t)) = Len(t) /\ DOMAIN (<< x >> \o Tail(t)) = 1 .. Len(t)
      /\ (<< x >> \o Tail(t))[1] = x
      /\ \A k \in 2 .. Len(t) : (<< x >> \o Tail(t))[k] = t[k]
  BY <1>1, ReplaceFirst
<1>3. ASSUME NEW k \in 2 .. Len(s) - 1 PROVE (<< x >> \o Tail(t))[k] = s[k + 1]
  <2>1. k \in 2 .. Len(t) /\ k \in 1 .. Len(s) - 1
    BY <1>1
  <2> QED
    BY Zenon, <1>1, <1>2, <2>1
<1> QED
  BY Zenon, <1>1, <1>2, <1>3 DEF t

(* A module is complete. *)
LEMMA EndModuleParse ==
    ASSUME ParseInv, EndModule
    PROVE  ParseInv'
<1>1. ParseTypes /\ GraphInv /\ StackInv /\ FoundInv
  BY Zenon DEF ParseInv
<1> DEFINE id == Parser.id
           q == AppendModule(stack[2])
<1>2. /\ Parsing /\ pc = "import" /\ Parser.pos > Len(program[FileOf(id)].imports)
      /\ program' = program /\ imports' = imports
  BY Zenon DEF EndModule, Parsing, File
<1>3. faulty' \subseteq Ids /\ (Root \notin faulty' => faulty' = faulty)
  BY Zenon, <1>1, <1>2, ChangedFacts DEF EndModule
<1>4. /\ stack # << >> /\ Parser = stack[1] /\ DOMAIN stack = 1 .. Len(stack) /\ Len(stack) \in Nat /\ Len(stack) >= 1
      /\ id \in Ids /\ Parser.pos \in Nat \ {0} /\ stack[Len(stack)].id = Root /\ id \notin Done /\ stack[1].id = id
  BY <1>1, <1>2, ParserFacts
<1>5. stack \in Seq(Parsers) /\ program[FileOf(id)].imports \in Seq(Statements)
  BY Zenon, <1>1, <1>4, FileFacts DEF ParseTypes
<1>6. Root \notin faulty' => FoundAll(program, imports, id)
  <2> SUFFICES ASSUME Root \notin faulty' PROVE FoundAll(program, imports, id)
    BY Zenon
  <2>1. Root \notin faulty
    BY Zenon, <1>3
  <2>2. FoundBefore(program, imports, Parser)
    BY <1>1, <1>4, <2>1 DEF FoundInv
  <2> DEFINE n == Len(program[FileOf(id)].imports)
  <2>3. Parser.pos <= n + 1 /\ Found(program, imports, id, Parser.pos - 1)
    BY Zenon, <2>2 DEF FoundBefore, StatementsOf
  <2>4. n \in Nat /\ Parser.pos > n
    BY <1>2, <1>5
  <2> HIDE DEF n
  <2>5. Parser.pos - 1 = n
    BY <1>4, <2>3, <2>4
  <2> QED
    BY Zenon, <2>3, <2>5 DEF FoundAll, n
<1>7. \A x : Mods(imports', x) = Mods(imports, x)
  BY Zenon, <1>2
<1>8. CASE /\ Len(stack) > 1 /\ predefined' = [predefined EXCEPT ![id] = "module"]
           /\ stack' = << q >> \o Tail(Tail(stack)) /\ pc' = "resolve"
  <2>1. /\ 1 \in 1 .. Len(stack) - 1 /\ 2 \in 2 .. Len(stack) /\ 2 \in DOMAIN stack /\ 2 - 1 = 1
    BY <1>4, <1>8
  <2>2. id \in Files /\ predefined[id] = "nil" /\ id # Root
    BY Zenon, <1>1, <1>4, <2>1, FileFacts DEF StackInv
  <2>3. stack[2] \in Parsers /\ stack[2].targets # << >> /\ Head(stack[2].targets) = id
    BY Zenon, <1>1, <1>2, <1>4, <2>1, ParserFacts DEF StackInv
  <2>4. /\ q \in Parsers /\ q.id = stack[2].id /\ q.pos = stack[2].pos
        /\ q.got \o q.targets = stack[2].got \o stack[2].targets
        /\ Range(q.got) = Range(stack[2].got) \cup {id}
    BY Zenon, <2>3, ParserRecords
  <2> HIDE DEF q
  <2>5. /\ stack' \in Seq(Parsers) /\ stack' # << >> /\ Len(stack') = Len(stack) - 1
        /\ DOMAIN stack' = 1 .. Len(stack) - 1
        /\ stack'[1] = q /\ \A k \in 2 .. Len(stack) - 1 : stack'[k] = stack[k + 1]
    BY <1>5, <1>8, <2>4, PopFacts
  <2>6. \A k \in DOMAIN stack' : k + 1 \in DOMAIN stack /\ k + 1 \in 2 .. Len(stack) /\ stack'[k].id = stack[k + 1].id
    <3> SUFFICES ASSUME NEW k \in DOMAIN stack'
                 PROVE  k + 1 \in DOMAIN stack /\ k + 1 \in 2 .. Len(stack) /\ stack'[k].id = stack[k + 1].id
      BY Zenon
    <3>1. k + 1 \in DOMAIN stack /\ k + 1 \in 2 .. Len(stack)
      BY <1>4, <2>5
    <3>2. CASE k = 1
      BY <2>4, <2>5, <3>1, <3>2
    <3>3. CASE k # 1
      BY <1>4, <2>5, <3>1, <3>3
    <3> QED
      BY Zenon, <3>2, <3>3
  <2> HIDE DEF id
  <2>7. /\ predefined' \in [Files -> {"absent", "nil", "module"}] /\ predefined'[id] = "module"
        /\ \A f \in Files : f # id => predefined'[f] = predefined[f]
    BY Zenon, <1>1, <1>8, <2>2 DEF ParseTypes
  <2>8. Done' = Done \cup {id} /\ Done \subseteq Files
    BY Zenon, <2>2, <2>7 DEF Done
  <2>9. Mods(imports, id) \subseteq Done
    BY <1>1, <1>4 DEF StackInv
  <2>10. GraphInv'
    <3>1. \A f \in Done \cup {id} : Mods(imports, f) \subseteq Done
      BY Zenon, <1>1, <2>9 DEF GraphInv
    <3>2. ASSUME NEW S \in SUBSET (Done \cup {id}), S # {} PROVE \E f \in S : Mods(imports, f) \cap S = {}
      <4>1. CASE S \ {id} = {}
        <5>1. S = {id}
          BY Zenon, <3>2, <4>1
        <5> QED
          BY Zenon, <1>4, <2>9, <5>1
      <4>2. CASE S \ {id} # {}
        <5>1. S \ {id} \in SUBSET Done
          BY Zenon, <3>2
        <5>2. PICK f \in S \ {id} : Mods(imports, f) \cap (S \ {id}) = {}
          BY Zenon, <1>1, <4>2, <5>1 DEF GraphInv
        <5>3. id \notin Mods(imports, f)
          BY Zenon, <1>4, <3>1, <5>1, <5>2
        <5> QED
          BY Zenon, <5>2, <5>3
      <4> QED
        BY Zenon, <4>1, <4>2
    <3>3. \A f \in Files : predefined'[f] = "absent" => imports[f] = << >>
      BY Zenon, <1>1, <2>7 DEF GraphInv
    <3>4. Mods(imports, Root) \subseteq Done
      BY Zenon, <1>1 DEF GraphInv
    <3> QED
      BY Zenon, <1>2, <1>7, <2>8, <3>1, <3>2, <3>3, <3>4 DEF GraphInv
  <2>11. StackInv'
    <3>1. stack'[Len(stack')].id = Root
      BY <1>4, <1>8, <2>5, <2>6
    <3>2. ASSUME NEW k \in 1 .. Len(stack') - 1 PROVE stack'[k].id \in Files /\ predefined'[stack'[k].id] = "nil"
      <4>1. k \in DOMAIN stack' /\ k + 1 \in 1 .. Len(stack) - 1 /\ k + 1 # 1 /\ 1 \in DOMAIN stack
        BY <1>4, <2>5
      <4>2. stack[k + 1].id \in Files /\ predefined[stack[k + 1].id] = "nil" /\ stack[k + 1].id # id
        BY Zenon, <1>1, <1>4, <2>6, <4>1 DEF StackInv
      <4> QED
        BY Zenon, <2>6, <2>7, <4>1, <4>2
    <3>3. ASSUME NEW j \in DOMAIN stack', NEW k \in DOMAIN stack', stack'[j].id = stack'[k].id PROVE j = k
      <4>1. j + 1 = k + 1
        BY Zenon, <1>1, <2>6, <3>3 DEF StackInv
      <4> QED
        BY <2>5, <4>1
    <3>4. ASSUME NEW k \in DOMAIN stack' PROVE Mods(imports, stack'[k].id) \subseteq Done /\ Range(stack'[k].got) \subseteq Done \cup {id}
      <4>1. Mods(imports, stack'[k].id) \subseteq Done /\ Range(stack[k + 1].got) \subseteq Done
        BY Zenon, <1>1, <2>6 DEF StackInv
      <4>2. CASE k = 1
        BY <2>4, <2>5, <4>1, <4>2
      <4>3. CASE k # 1
        <5>1. stack'[k] = stack[k + 1]
          BY <1>4, <2>5, <4>3
        <5> QED
          BY Zenon, <4>1, <5>1
      <4> QED
        BY Zenon, <4>2, <4>3
    <3>5. ASSUME NEW k \in 2 .. Len(stack') PROVE stack'[k].targets # << >> /\ Head(stack'[k].targets) = stack'[k - 1].id
      <4>1. /\ k \in 2 .. Len(stack) - 1 /\ k + 1 \in 2 .. Len(stack) /\ (k + 1) - 1 = k
            /\ k - 1 \in DOMAIN stack' /\ (k - 1) + 1 = k
        BY <1>4, <2>5
      <4>2. stack'[k] = stack[k + 1] /\ stack'[k - 1].id = stack[k].id
        BY Zenon, <2>5, <2>6, <4>1
      <4>3. stack[k + 1].targets # << >> /\ Head(stack[k + 1].targets) = stack[(k + 1) - 1].id
        BY Zenon, <1>1, <4>1 DEF StackInv
      <4> QED
        BY Zenon, <4>1, <4>2, <4>3
    <3>6. Parsing'
      BY Zenon, <1>8 DEF Parsing
    <3> QED
      BY Zenon, <1>7, <2>5, <2>8, <3>1, <3>2, <3>3, <3>4, <3>5, <3>6 DEF StackInv
  <2>12. FoundInv'
    <3> SUFFICES ASSUME Root \notin faulty'
                 PROVE  /\ \A f \in Done \cup {id} : FoundAll(program, imports, f)
                        /\ \A k \in DOMAIN stack' :
                            FoundBefore(program, imports, stack'[k]) /\ AtStatement(program, stack'[k])
      <4>1. Parsing'
        BY Zenon, <1>8 DEF Parsing
      <4> QED
        BY Zenon, <1>2, <2>8, <4>1 DEF FoundInv
    <3>1. Root \notin faulty
      BY Zenon, <1>3
    <3>2. \A f \in Done \cup {id} : FoundAll(program, imports, f)
      BY Zenon, <1>1, <1>6, <3>1 DEF FoundInv
    <3>3. ASSUME NEW k \in DOMAIN stack'
          PROVE  FoundBefore(program, imports, stack'[k]) /\ AtStatement(program, stack'[k])
      <4>1. k + 1 > 1
        BY <2>5
      <4>2. FoundBefore(program, imports, stack[k + 1]) /\ AtStatement(program, stack[k + 1])
        BY Zenon, <1>1, <2>6, <3>1, <4>1 DEF FoundInv
      <4>3. CASE k = 1
        <5>1. FoundBefore(program, imports, stack[2]) /\ AtStatement(program, stack[2])
          BY <4>2, <4>3
        <5>2. FoundBefore(program, imports, q) /\ AtStatement(program, q)
          BY Zenon, <2>4, <5>1 DEF FoundBefore, AtStatement
        <5> QED
          BY Zenon, <2>5, <4>3, <5>2
      <4>4. CASE k # 1
        <5>1. stack'[k] = stack[k + 1]
          BY <1>4, <2>5, <4>4
        <5> QED
          BY Zenon, <4>2, <5>1
      <4> QED
        BY Zenon, <4>3, <4>4
    <3> QED
      BY Zenon, <3>2, <3>3
  <2> QED
    BY Zenon, <1>1, <1>2, <1>3, <2>5, <2>7, <2>10, <2>11, <2>12 DEF ParseInv, ParseTypes
<1>9. CASE Len(stack) = 1 /\ stack' = << >> /\ pc' = "compile" /\ predefined' = predefined
  <2>1. id = Root /\ ~Parsing'
    BY Zenon, <1>4, <1>9 DEF Parsing
  <2>2. Done' = Done /\ DOMAIN stack' = {} /\ stack' \in Seq(Parsers) /\ Len(stack') = 0
    BY <1>9 DEF Done
  <2>3. GraphInv'
    BY Zenon, <1>1, <1>2, <1>7, <1>9, <2>2 DEF GraphInv
  <2>4. StackInv'
    BY <1>9, <2>1, <2>2 DEF StackInv
  <2>5. FoundInv'
    BY Zenon, <1>1, <1>2, <1>3, <1>6, <2>1, <2>2 DEF FoundInv
  <2> QED
    BY Zenon, <1>1, <1>2, <1>3, <1>9, <2>2, <2>3, <2>4, <2>5 DEF ParseInv, ParseTypes
<1> QED
  BY Zenon, <1>8, <1>9 DEF EndModule

(* Parsing ends before anything is compiled. *)
LEMMA ParseStep ==
    ASSUME IInv, Parse
    PROVE  IInv'
<1>1. /\ ParseInv /\ ParseTypes /\ IterTypes /\ RunTypes /\ PhaseInv /\ OrderInv /\ IterInv /\ RunInv
  BY Zenon DEF IInv, ParseInv
<1>2. ParseInv'
  BY Zenon, <1>1, BeginImportParse, ParseNewParse, UseKnownParse, FinishImportParse, EndModuleParse DEF Parse
<1>3. /\ pc \in {"import", "resolve"} /\ compiled' = compiled
      /\ code' = code /\ mods' = mods /\ frames' = frames /\ visited' = visited
      /\ stmt' = stmt /\ turn' = turn /\ at' = at /\ inits' = inits /\ disposals' = disposals
      /\ pc' \in {"import", "resolve", "compile"} /\ (pc' = "compile" => todo' = << Root >>)
  BY Zenon DEF Parse, BeginImport, ParseNew, UseKnown, FinishImport, EndModule, compiling, iterating, running
<1>4. compiled = {} /\ code = << >> /\ mods = << >> /\ frames = << >> /\ NothingCalled
  BY Zenon, <1>1, <1>3 DEF PhaseInv
<1>5. DOMAIN code = {} /\ Len(code) = 0 /\ DOMAIN frames = {} /\ Range(mods) = {}
  BY <1>4 DEF Range
<1>6. Len(imports'[Root]) >= 0
  <2>1. imports'[Root] \in Seq(Seq(Files))
    BY Zenon, <1>2 DEF ParseInv, ParseTypes, Ids
  <2> QED
    BY <2>1
<1>7. PhaseInv'
  BY Zenon, <1>3, <1>4, <1>5, <1>6 DEF PhaseInv, NothingCalled
<1>8. IterTypes' /\ RunTypes'
  BY Zenon, <1>1, <1>3 DEF IterTypes, RunTypes
<1>9. OrderInv'
  BY Zenon, <1>3, <1>5 DEF OrderInv
<1>10. IterInv'
  <2>1. visited = {}
    BY Zenon, <1>1, <1>5 DEF IterInv, importedModules
  <2> QED
    BY Zenon, <1>3, <1>5, <2>1 DEF IterInv
<1>11. RunInv'
  BY Zenon, <1>3 DEF RunInv
<1> QED
  BY Zenon, <1>2, <1>7, <1>8, <1>9, <1>10, <1>11 DEF IInv

-----------------------------------------------------------------------------
(***************************************************************************)
(* Compiling.                                                              *)
(***************************************************************************)
(* The compiler and the program leave what has been parsed alone. *)
LEMMA ParsedStays ==
    ASSUME ParseInv, ~Parsing, ~Parsing', UNCHANGED << program, parsing >>
    PROVE  ParseInv' /\ imports' = imports /\ faulty' = faulty /\ Done' = Done
<1>1. program' = program /\ predefined' = predefined /\ stack' = stack /\ imports' = imports /\ faulty' = faulty
  BY Zenon DEF parsing
<1>2. Done' = Done
  BY Zenon, <1>1 DEF Done
<1>3. stack = << >> /\ DOMAIN stack = {}
  BY DEF ParseInv, StackInv
<1>4. ParseTypes' /\ GraphInv'
  BY Zenon, <1>1, <1>2 DEF ParseInv, ParseTypes, GraphInv
<1>5. StackInv'
  BY Zenon, <1>1, <1>2, <1>3 DEF ParseInv, StackInv
<1>6. FoundInv'
  BY Zenon, <1>1, <1>2, <1>3 DEF ParseInv, FoundInv
<1> QED
  BY Zenon, <1>1, <1>2, <1>4, <1>5, <1>6 DEF ParseInv

(* compileWithImportsRec and the end of compilation. *)
LEMMA CompileStep ==
    ASSUME IInv, CompileModule \/ StartProgram
    PROVE  IInv'
<1>1. /\ ParseInv /\ ParseTypes /\ IterTypes /\ RunTypes /\ PhaseInv /\ OrderInv /\ IterInv /\ RunInv
  BY Zenon DEF IInv, ParseInv
<1>2. /\ pc = "compile" /\ UNCHANGED << program, parsing >> /\ code' = code /\ mods' = mods
      /\ frames' = frames /\ visited' = visited
      /\ stmt' = stmt /\ turn' = turn /\ at' = at /\ inits' = inits /\ disposals' = disposals
      /\ pc' \in {"compile", "main", "errors", "panic", "run"}
  BY Zenon DEF CompileModule, StartProgram, compiling, iterating, running
<1>3. ~Parsing /\ ~Parsing'
  BY Zenon, <1>2 DEF Parsing
<1>4. ParseInv' /\ imports' = imports /\ faulty' = faulty /\ Done' = Done
  BY Zenon, <1>1, <1>2, <1>3, ParsedStays
<1>5. IterTypes' /\ RunTypes' /\ OrderInv' /\ IterInv'
  <2>1. importedModules' = importedModules /\ Pending' = Pending
    BY Zenon, <1>2 DEF importedModules, Pending
  <2> QED
    BY Zenon, <1>1, <1>2, <1>4, <2>1 DEF IterTypes, RunTypes, OrderInv, IterInv
<1>6. frames = << >> /\ mods = << >> /\ NothingCalled /\ NothingCalled'
  BY Zenon, <1>1, <1>2 DEF PhaseInv, NothingCalled
<1>7. CASE StartProgram
  <2>1. todo = << >> /\ pc' = "run" /\ compiled' = compiled
    BY Zenon, <1>7 DEF StartProgram, compiling
  <2>2. compiled # {}
    BY Zenon, <1>1, <1>2, <2>1 DEF PhaseInv
  <2>3. PhaseInv'
    BY Zenon, <1>1, <1>2, <1>4, <2>1, <2>2 DEF PhaseInv
  <2>4. Before(code, 1, 1) = {}
    BY DEF Before, Through
  <2>5. Len(code) \in Nat /\ \A j \in 1 .. Len(code) : Len(code[j].inits) \in Nat
    BY <1>1 DEF IterTypes, Blocks
  <2>6. RunInv'
    BY <1>2, <1>6, <2>1, <2>4, <2>5 DEF RunInv, NothingCalled
  <2> QED
    BY Zenon, <1>4, <1>5, <2>3, <2>6 DEF IInv
<1>8. CASE CompileModule
  <2>1. RunInv'
    BY Zenon, <1>8 DEF CompileModule, RunInv
  <2> DEFINE id == Head(todo)
  <2>2. \/ pc' \in {"errors", "panic"} /\ compiled' = compiled
        \/ FileOf(id) \in compiled /\ compiled' = compiled /\ pc' = pc
        \/ /\ id \notin faulty /\ FileOf(id) \notin compiled /\ compiled' = compiled \cup {FileOf(id)}
           /\ pc' = IF id = Root THEN "main" ELSE pc
    BY Zenon, <1>8 DEF CompileModule
  <2>3. compiled = {} => id = Root
    BY <1>1, <1>2 DEF PhaseInv
  <2> HIDE DEF id
  <2>4. FileOf(Root) = Main
    BY Zenon, <1>1, FileFacts
  <2>5. PhaseInv'
    BY Zenon, <1>1, <1>2, <1>4, <1>6, <2>2, <2>3, <2>4 DEF PhaseInv
  <2> QED
    BY Zenon, <1>4, <1>5, <2>1, <2>5 DEF IInv
<1> QED
  BY Zenon, <1>7, <1>8

(* The calls of module_init before a place in the code. *)
LEMMA BeforeFacts ==
    ASSUME NEW c \in Seq(Blocks)
    PROVE  /\ Len(c) \in Nat /\ DOMAIN c = 1 .. Len(c)
           /\ \A j \in DOMAIN c : /\ c[j].loop \in BOOLEAN /\ c[j].inits \in Seq(Files)
                                  /\ Len(c[j].inits) \in Nat /\ DOMAIN c[j].inits = 1 .. Len(c[j].inits)
           /\ \A j \in DOMAIN c : Before(c, j, Len(c[j].inits) + 1) = Through(c, j)
           /\ \A j \in DOMAIN c : \A i \in DOMAIN c[j].inits : Before(c, j, i + 1) = Before(c, j, i) \cup {c[j].inits[i]}
           /\ \A j \in DOMAIN c : \A i \in DOMAIN c[j].inits : Before(c, j, i) \subseteq Through(c, j)
           /\ \A i, j \in Nat : i <= j => Through(c, i) \subseteq Through(c, j)
           /\ \A j \in Nat : Before(c, j + 1, 1) = Through(c, j)
<1>1. Len(c) \in Nat /\ DOMAIN c = 1 .. Len(c)
  OBVIOUS
<1>2. ASSUME NEW j \in DOMAIN c
      PROVE  /\ c[j].loop \in BOOLEAN /\ c[j].inits \in Seq(Files)
             /\ Len(c[j].inits) \in Nat /\ DOMAIN c[j].inits = 1 .. Len(c[j].inits)
  <2>1. c[j] \in Blocks
    OBVIOUS
  <2>2. c[j].loop \in BOOLEAN /\ c[j].inits \in Seq(Files)
    BY <2>1, Zenon DEF Blocks
  <2> QED
    BY <2>2
<1>3. ASSUME NEW j \in DOMAIN c
      PROVE  /\ Before(c, j, Len(c[j].inits) + 1) = Through(c, j)
             /\ \A i \in DOMAIN c[j].inits : Before(c, j, i + 1) = Before(c, j, i) \cup {c[j].inits[i]}
             /\ \A i \in DOMAIN c[j].inits : Before(c, j, i) \subseteq Through(c, j)
  <2> DEFINE s == c[j].inits
  <2>1. Len(s) \in Nat /\ DOMAIN s = 1 .. Len(s) /\ j \in Nat /\ j >= 1
    BY <1>1, <1>2
  <2> HIDE DEF s
  <2>2. ASSUME NEW i \in DOMAIN s PROVE {s[h] : h \in 1 .. (i + 1) - 1} = {s[h] : h \in 1 .. i - 1} \cup {s[i]}
    <3>1. 1 .. (i + 1) - 1 = 1 .. i - 1 \cup {i}
      BY <2>1
    <3> QED
      BY Zenon, <3>1
  <2>3. {s[h] : h \in 1 .. (Len(s) + 1) - 1} = Range(s)
    <3>1. 1 .. (Len(s) + 1) - 1 = DOMAIN s
      BY <2>1
    <3> QED
      BY Zenon, <3>1 DEF Range
  <2>4. Through(c, j) = Through(c, j - 1) \cup Range(s)
    <3>1. 1 .. j = 1 .. j - 1 \cup {j}
      BY <2>1
    <3> QED
      BY Zenon, <3>1 DEF Through, s
  <2>5. ASSUME NEW i \in DOMAIN s PROVE {s[h] : h \in 1 .. i - 1} \subseteq Range(s)
    <3>1. 1 .. i - 1 \subseteq DOMAIN s
      BY <2>1
    <3> QED
      BY Zenon, <3>1 DEF Range
  <2> QED
    BY Zenon, <2>2, <2>3, <2>4, <2>5 DEF Before, s
<1>4. \A i, j \in Nat : i <= j => Through(c, i) \subseteq Through(c, j)
  BY DEF Through
<1>5. ASSUME NEW j \in Nat PROVE Before(c, j + 1, 1) = Through(c, j)
  <2>1. (j + 1) - 1 = j /\ 1 .. 1 - 1 = {}
    OBVIOUS
  <2> QED
    BY Zenon, <2>1 DEF Before
<1> QED
  BY Zenon, <1>1, <1>2, <1>3, <1>4, <1>5

(* importedModules are those that the code initializes. *)
LEMMA ImportedModules ==
    ASSUME IterTypes, ParseTypes, OrderInv
    PROVE  importedModules = Through(code, Len(code)) /\ importedModules \subseteq Done
<1>1. code \in Seq(Blocks)
  BY Zenon DEF IterTypes
<1>2. importedModules = Through(code, Len(code))
  BY Zenon, <1>1, BeforeFacts DEF importedModules, Through
<1>3. ASSUME NEW j \in DOMAIN code PROVE Range(code[j].inits) \subseteq Done
  <2>1. \A i \in DOMAIN code[j].inits : code[j].inits[i] \in Done
    BY Zenon DEF OrderInv
  <2> QED
    BY Zenon, <2>1 DEF Range
<1> QED
  BY Zenon, <1>2, <1>3 DEF importedModules

(* The calls of iterateModuleImportsRec. *)
LEMMA FrameFacts ==
    ASSUME IterTypes
    PROVE  /\ Len(frames) \in Nat /\ DOMAIN frames = 1 .. Len(frames)
           /\ \A k \in DOMAIN frames : frames[k].id \in Files /\ frames[k].rest \in Seq(Seq(Files)) /\ frames[k] \in Calls
           /\ frames # << >> => Head(frames) = frames[1] /\ 1 \in DOMAIN frames /\ Len(frames) >= 1
<1>1. frames \in Seq(Calls)
  BY Zenon DEF IterTypes
<1>2. ASSUME NEW k \in DOMAIN frames
      PROVE  frames[k].id \in Files /\ frames[k].rest \in Seq(Seq(Files)) /\ frames[k] \in Calls
  <2>1. frames[k] \in Calls
    BY <1>1
  <2> QED
    BY <2>1, Zenon DEF Calls
<1> QED
  BY <1>1, <1>2

(* What is left of the imports of a module. *)
LEMMA LeftFacts ==
    /\ Left(<< >>) = {}
    /\ \A x \in Seq(Files), t \in Seq(Seq(Files)) : Left(<< x >> \o t) = Range(x) \cup Left(t)
    /\ \A r \in Seq(Seq(Files)) : r # << >> => Left(r) = Range(Head(r)) \cup Left(Tail(r))
<1>1. Left(<< >>) = {}
  BY DEF Left
<1>2. ASSUME NEW x \in Seq(Files), NEW t \in Seq(Seq(Files)) PROVE Left(<< x >> \o t) = Range(x) \cup Left(t)
  <2> DEFINE u == << x >> \o t
  <2>1. /\ DOMAIN u = 1 .. Len(t) + 1 /\ u[1] = x /\ \A k \in 2 .. Len(t) + 1 : u[k] = t[k - 1]
        /\ Len(t) \in Nat /\ DOMAIN t = 1 .. Len(t)
    BY ConsFacts
  <2> HIDE DEF u
  <2>2. ASSUME NEW k \in DOMAIN u PROVE Range(u[k]) \subseteq Range(x) \cup Left(t)
    <3>1. CASE k = 1
      BY Zenon, <2>1, <3>1
    <3>2. CASE k # 1
      <4>1. k - 1 \in DOMAIN t /\ u[k] = t[k - 1]
        BY <2>1, <3>2
      <4> QED
        BY Zenon, <4>1 DEF Left
    <3> QED
      BY Zenon, <3>1, <3>2
  <2>3. Range(x) \subseteq Left(u)
    <3>1. 1 \in DOMAIN u
      BY <2>1
    <3> QED
      BY Zenon, <2>1, <3>1 DEF Left
  <2>4. ASSUME NEW k \in DOMAIN t PROVE Range(t[k]) \subseteq Left(u)
    <3>1. k + 1 \in DOMAIN u /\ u[k + 1] = t[k]
      <4>1. k + 1 \in 2 .. Len(t) + 1 /\ k + 1 \in 1 .. Len(t) + 1 /\ (k + 1) - 1 = k
        BY <2>1
      <4> QED
        BY Zenon, <2>1, <4>1
    <3> QED
      BY Zenon, <3>1 DEF Left
  <2>5. Left(u) = Range(x) \cup Left(t)
    BY Zenon, <2>2, <2>3, <2>4 DEF Left
  <2> QED
    BY Zenon, <2>5 DEF u
<1>3. ASSUME NEW r \in Seq(Seq(Files)), r # << >> PROVE Left(r) = Range(Head(r)) \cup Left(Tail(r))
  <2>1. r = << Head(r) >> \o Tail(r) /\ Head(r) \in Seq(Files) /\ Tail(r) \in Seq(Seq(Files))
    BY <1>3
  <2> QED
    BY Zenon, <1>2, <2>1
<1> QED
  BY Zenon, <1>1, <1>2, <1>3

(* The next import statement of the main module. *)
LEMMA VisitImportStep ==
    ASSUME NoLoops, IInv, VisitImportStmt
    PROVE  IInv'
<1>1. /\ ParseInv /\ ParseTypes /\ IterTypes /\ RunTypes /\ PhaseInv /\ OrderInv /\ IterInv /\ RunInv
  BY Zenon DEF IInv, ParseInv
<1>2. /\ pc = "main" /\ frames = << >> /\ mods = << >> /\ UNCHANGED << program, parsing >>
      /\ compiled' = compiled /\ frames' = frames /\ visited' = visited
      /\ stmt' = stmt /\ turn' = turn /\ at' = at /\ inits' = inits /\ disposals' = disposals
      /\ pc' \in {"compile", "main"}
  BY Zenon DEF VisitImportStmt, running
<1>3. ~Parsing /\ ~Parsing'
  BY Zenon, <1>2 DEF Parsing
<1>4. ParseInv' /\ imports' = imports /\ faulty' = faulty /\ Done' = Done
  BY Zenon, <1>1, <1>2, <1>3, ParsedStays
<1>5. RunTypes' /\ RunInv' /\ NothingCalled /\ NothingCalled'
  BY Zenon, <1>1, <1>2 DEF RunTypes, RunInv, PhaseInv, NothingCalled
<1>6. compiled # {} /\ Main \in compiled /\ Root \notin faulty
  BY Zenon, <1>1, <1>2 DEF PhaseInv
<1>7. /\ code \in Seq(Blocks) /\ Len(code) \in Nat /\ DOMAIN code = 1 .. Len(code)
      /\ \A j \in DOMAIN code : code[j].inits \in Seq(Files)
  BY Zenon, <1>1, BeforeFacts DEF IterTypes
<1>8. Pending = {} /\ Range(mods) = {} /\ DOMAIN frames = {}
  BY <1>2 DEF Pending, Range
<1>9. imports[Root] \in Seq(Seq(Files)) /\ Len(imports[Root]) \in Nat
  <2>1. imports[Root] \in Seq(Seq(Files))
    BY Zenon, <1>1, FileFacts DEF ParseTypes
  <2> QED
    BY <2>1
<1>10. CASE Len(code) = Len(imports[Root]) /\ pc' = "compile" /\ code' = code /\ mods' = mods
  <2>1. importedModules' = importedModules /\ Pending' = Pending
    BY Zenon, <1>2, <1>10 DEF importedModules, Pending
  <2>2. IterTypes'
    BY Zenon, <1>1, <1>2, <1>10 DEF IterTypes
  <2>3. OrderInv'
    BY Zenon, <1>1, <1>4, <1>10, <2>1 DEF OrderInv
  <2>4. IterInv'
    <3>1. mods' = mods /\ frames' = frames /\ visited' = visited
      BY Zenon, <1>2, <1>10
    <3>2. visited \subseteq importedModules \cup {frames[k].id : k \in DOMAIN frames}
      BY Zenon, <1>1 DEF IterInv
    <3> QED
      BY Zenon, <1>8, <2>1, <3>1, <3>2 DEF IterInv
  <2>5. PhaseInv'
    BY Zenon, <1>1, <1>2, <1>4, <1>5, <1>6, <1>10 DEF PhaseInv
  <2> QED
    BY Zenon, <1>4, <1>5, <2>2, <2>3, <2>4, <2>5 DEF IInv
<1> DEFINE n == Len(code) + 1
           l == program[Main].imports[n].loop
           e == << >>
           b == [loop |-> l, inits |-> e]
<1>11. CASE n <= Len(imports[Root]) /\ code' = Append(code, b) /\ mods' = imports[Root][n] /\ pc' = pc
  <2>1. n \in 1 .. Len(imports[Root]) /\ n \in Nat /\ n >= 1
    BY <1>7, <1>9, <1>11
  <2>2. l \in BOOLEAN /\ ~l
    <3>1. FoundAll(program, imports, Root)
      BY Zenon, <1>1, <1>3, <1>6 DEF ParseInv, FoundInv
    <3>2. Len(imports[Root]) = Len(program[Main].imports)
      BY Zenon, <1>1, <3>1, FileFacts DEF FoundAll, Found
    <3>3. program[Main].imports \in Seq(Statements) /\ program \in Programs
      BY Zenon, <1>1, FileFacts DEF ParseTypes
    <3>4. n \in DOMAIN program[Main].imports
      BY <2>1, <3>2, <3>3
    <3>5. program[Main].imports[n] \in Statements
      BY <3>3, <3>4
    <3>6. program[Main].imports[n].loop \in BOOLEAN
      BY <3>5, Zenon DEF Statements
    <3> QED
      BY Zenon, <3>3, <3>4, <3>6 DEF NoLoops
  <2> HIDE DEF l
  <2>3. e \in Seq(Files) /\ Range(e) = {} /\ DOMAIN e = {}
    BY DEF Range
  <2> HIDE DEF e
  <2>4. b \in Blocks /\ b.loop = l /\ b.inits = e
    BY <2>2, <2>3, Zenon DEF Blocks
  <2> HIDE DEF b
  <2>5. /\ code' \in Seq(Blocks) /\ Len(code') = n /\ DOMAIN code' = 1 .. n /\ code'[n] = b
        /\ \A j \in 1 .. Len(code) : code'[j] = code[j]
    BY <1>7, <1>11, <2>4
  <2>6. n = Len(code) + 1 /\ 1 .. n = 1 .. Len(code) \cup {n} /\ n \notin 1 .. Len(code)
    BY <1>7
  <2> HIDE DEF n
  <2>7. mods' \in Seq(Files) /\ Range(mods') \subseteq Done /\ Range(mods') = Range(imports[Root][n])
    <3>1. imports[Root][n] \in Seq(Files)
      BY <1>9, <2>1
    <3>2. Range(imports[Root][n]) \subseteq Mods(imports, Root)
      BY <1>9, <2>1 DEF Mods
    <3>3. Mods(imports, Root) \subseteq Done
      BY Zenon, <1>1 DEF ParseInv, GraphInv
    <3> QED
      BY Zenon, <1>11, <3>1, <3>2, <3>3
  <2>8. \A j \in 0 .. Len(code) : Through(code', j) = Through(code, j)
    BY <2>5 DEF Through
  <2>9. \A j \in DOMAIN code : \A i : Before(code', j, i) = Before(code, j, i)
    <3> SUFFICES ASSUME NEW j \in DOMAIN code, NEW i PROVE Before(code', j, i) = Before(code, j, i)
      BY Zenon
    <3>1. j - 1 \in 0 .. Len(code) /\ code'[j] = code[j]
      BY <1>7, <2>5
    <3> QED
      BY Zenon, <2>8, <3>1 DEF Before
  <2>10. OrderInv'
    <3>1. ASSUME NEW j \in DOMAIN code', NEW i \in DOMAIN code'[j].inits
          PROVE  /\ code'[j].inits[i] \in Done \ Before(code', j, i)
                 /\ Mods(imports, code'[j].inits[i]) \subseteq Before(code', j, i)
      <4>1. j \in DOMAIN code /\ code'[j] = code[j]
        BY Zenon, <1>7, <2>3, <2>4, <2>5, <2>6, <3>1
      <4> QED
        BY Zenon, <1>1, <2>9, <3>1, <4>1 DEF OrderInv
    <3>2. ASSUME NEW j \in DOMAIN code'
          PROVE  Range(imports[Root][j]) \subseteq Through(code', j) \cup IF j = n THEN Range(mods') ELSE {}
      <4>1. CASE j = n
        BY Zenon, <2>7, <4>1
      <4>2. CASE j # n
        <5>1. j \in DOMAIN code /\ j \in 0 .. Len(code)
          BY <1>7, <2>5, <2>6, <4>2
        <5> QED
          BY Zenon, <1>1, <1>8, <2>8, <5>1 DEF OrderInv
      <4> QED
        BY Zenon, <4>1, <4>2
    <3>3. Pending' = Range(mods')
      BY Zenon, <1>2 DEF Pending
    <3> QED
      BY Zenon, <1>4, <2>5, <3>1, <3>2, <3>3 DEF OrderInv
  <2>11. importedModules' = importedModules
    BY Zenon, <1>7, <2>3, <2>4, <2>5, <2>6 DEF importedModules
  <2>12. IterInv'
    BY <1>1, <1>2, <1>4, <1>8, <2>7, <2>11 DEF IterInv
  <2>13. IterTypes'
    BY Zenon, <1>1, <1>2, <2>5, <2>7 DEF IterTypes
  <2>14. PhaseInv'
    <3>1. \A j \in DOMAIN code' : ~ code'[j].loop
      BY <1>1, <1>7, <2>2, <2>4, <2>5, <2>6 DEF PhaseInv
    <3>2. code' # << >> /\ Len(code') <= Len(imports[Root])
      BY <1>9, <2>1, <2>5
    <3> QED
      BY Zenon, <1>2, <1>4, <1>5, <1>6, <1>11, <3>1, <3>2 DEF PhaseInv
  <2> QED
    BY Zenon, <1>4, <1>5, <2>10, <2>12, <2>13, <2>14 DEF IInv
<1> QED
  BY Zenon, <1>10, <1>11 DEF VisitImportStmt

(* What the steps of iterateModuleImportsRec leave alone before it comes   *)
(* to a call of fun.                                                       *)
aside == << program, parsing, pc, todo, compiled, code, running >>

(* A step of iterateModuleImportsRec before it comes to a call of fun. *)
LEMMA FramesStep ==
    ASSUME IInv, pc = "main", code # << >>, IterTypes', IterInv', Pending' = Pending, UNCHANGED aside
    PROVE  IInv'
<1>1. /\ ParseInv /\ RunTypes /\ PhaseInv /\ OrderInv /\ RunInv
  BY Zenon DEF IInv
<1>2. /\ pc' = pc /\ compiled' = compiled /\ code' = code
      /\ stmt' = stmt /\ turn' = turn /\ at' = at /\ inits' = inits /\ disposals' = disposals
  BY Zenon DEF aside, running
<1>3. ~Parsing /\ ~Parsing' /\ UNCHANGED << program, parsing >>
  BY Zenon, <1>2 DEF Parsing, aside
<1>4. ParseInv' /\ imports' = imports /\ faulty' = faulty /\ Done' = Done
  BY Zenon, <1>1, <1>3, ParsedStays
<1>5. RunTypes' /\ RunInv'
  BY Zenon, <1>1, <1>2 DEF RunTypes, RunInv
<1>6. PhaseInv'
  BY Zenon, <1>1, <1>2, <1>4 DEF PhaseInv, NothingCalled
<1>7. OrderInv'
  BY Zenon, <1>1, <1>2, <1>4 DEF OrderInv
<1> QED
  BY Zenon, <1>4, <1>5, <1>6, <1>7 DEF IInv

(* The records of the calls. *)
LEMMA CallFacts ==
    /\ \A f, r : [id |-> f, rest |-> r].id = f /\ [id |-> f, rest |-> r].rest = r
    /\ \A f \in Files, r \in Seq(Seq(Files)) : [id |-> f, rest |-> r] \in Calls
  BY Zenon DEF Calls

(* A module of an import statement. *)
LEMMA IterateModuleStep ==
    ASSUME IInv, IterateModuleImports
    PROVE  IInv'
<1>1. /\ ParseInv /\ ParseTypes /\ IterTypes /\ PhaseInv /\ IterInv
  BY Zenon DEF IInv, ParseInv
<1> DEFINE f == Head(mods)
           c == [id |-> f, rest |-> imports[f]]
<1>2. /\ pc = "main" /\ frames = << >> /\ mods # << >>
      /\ frames' = << c >> /\ visited' = {f} /\ mods' = Tail(mods) /\ code' = code
      /\ UNCHANGED << program, parsing, pc, todo, compiled, code, running >>
  BY Zenon DEF IterateModuleImports, CallRec
<1>3. code # << >> /\ code \in Seq(Blocks) /\ mods \in Seq(Files)
  BY Zenon, <1>1, <1>2 DEF PhaseInv, IterTypes
<1>4. f \in Files /\ mods' \in Seq(Files) /\ Range(mods) = {f} \cup Range(mods') /\ f \in Done
  BY <1>1, <1>2, <1>3, RangeFacts DEF IterInv
<1>5. imports[f] \in Seq(Seq(Files))
  BY Zenon, <1>1, <1>4, FileFacts DEF ParseTypes
<1>6. c \in Calls /\ c.id = f /\ c.rest = imports[f]
  BY Zenon, <1>4, <1>5, CallFacts
<1>7. Left(imports[f]) = Mods(imports, f)
  BY Zenon DEF Left, Mods
<1>8. imports' = imports /\ Done' = Done /\ importedModules' = importedModules
  BY Zenon, <1>2 DEF Done, importedModules, parsing
<1> HIDE DEF c, f
<1>9. frames' \in Seq(Calls) /\ Len(frames') = 1 /\ frames'[1] = c /\ DOMAIN frames' = {1} /\ frames' # << >>
  BY <1>2, <1>6
<1>10. IterTypes'
  BY Zenon, <1>2, <1>3, <1>4, <1>9 DEF IterTypes
<1>11. IterInv'
  <2>1. Range(mods') \subseteq Done
    BY Zenon, <1>1, <1>4 DEF IterInv
  <2>2. visited' \subseteq {frames'[k].id : k \in DOMAIN frames'}
    BY Zenon, <1>2, <1>6, <1>9
  <2> QED
    BY <1>4, <1>6, <1>7, <1>8, <1>9, <2>1, <2>2 DEF IterInv
<1>12. Pending' = Pending
  BY Zenon, <1>2, <1>4, <1>6, <1>9 DEF Pending
<1> QED
  BY Zenon, <1>2, <1>3, <1>10, <1>11, <1>12, FramesStep DEF aside

(* Calls that wait for each other do not wait for themselves: a module     *)
(* that is imported by the innermost one is not among them.                *)
LEMMA NoCycle ==
    ASSUME ParseInv, IterTypes, IterInv, frames # << >>, NEW f, f \in Mods(imports, frames[1].id)
    PROVE  \A k \in DOMAIN frames : frames[k].id # f
<1> SUFFICES ASSUME NEW k \in DOMAIN frames, frames[k].id = f PROVE FALSE
  BY Zenon
<1>1. Len(frames) \in Nat /\ DOMAIN frames = 1 .. Len(frames) /\ 1 \in DOMAIN frames /\ k \in Nat /\ k >= 1
  BY FrameFacts
<1> DEFINE S == {frames[j].id : j \in 1 .. k}
<1>2. S \in SUBSET Done /\ f \in S
  BY <1>1 DEF IterInv
<1>3. PICK g \in S : Mods(imports, g) \cap S = {}
  BY Zenon, <1>2 DEF ParseInv, GraphInv
<1>4. PICK j \in 1 .. k : g = frames[j].id
  BY Zenon
<1>5. CASE j = 1
  BY Zenon, <1>2, <1>3, <1>4, <1>5
<1>6. CASE j # 1
  <2>1. j \in DOMAIN frames /\ j > 1 /\ j - 1 \in 1 .. k
    BY <1>1, <1>6
  <2>2. frames[j - 1].id \in Mods(imports, g)
    BY Zenon, <1>4, <2>1 DEF IterInv
  <2>3. frames[j - 1].id \in S
    BY Zenon, <2>1
  <2> QED
    BY Zenon, <1>3, <2>2, <2>3
<1> QED
  BY Zenon, <1>5, <1>6

(* The innermost call waits for no other. *)
LEMMA InnermostCall ==
    ASSUME IterTypes, IterInv, frames # << >>
    PROVE  /\ frames[1].id \in Done
           /\ Left(frames[1].rest) \subseteq Mods(imports, frames[1].id)
           /\ Mods(imports, frames[1].id) \subseteq importedModules \cup Left(frames[1].rest)
<1>1. 1 \in DOMAIN frames
  BY Zenon, FrameFacts
<1>2. /\ frames[1].id \in Done
      /\ Left(frames[1].rest) \subseteq Mods(imports, frames[1].id)
      /\ Mods(imports, frames[1].id) \subseteq
            importedModules \cup Left(frames[1].rest) \cup IF 1 > 1 THEN {frames[1 - 1].id} ELSE {}
  BY <1>1, Zenon DEF IterInv
<1>3. ~(1 > 1)
  OBVIOUS
<1> QED
  BY Zenon, <1>2, <1>3

(* The innermost call goes on with the modules in r, the others wait; no   *)
(* module is lost between what is initialized and what is left.            *)
After(r) == << [id |-> frames[1].id, rest |-> r] >> \o Tail(frames)
NoneLost(r) ==
    Left(r) \subseteq Left(frames[1].rest) /\ Mods(imports, frames[1].id) \subseteq importedModules \cup Left(r)

(* The innermost call goes on with the modules in r. *)
LEMMA RestStep ==
    ASSUME IInv, pc = "main", frames # << >>, NEW r \in Seq(Seq(Files)), NoneLost(r),
           frames' = After(r), visited' = visited, mods' = mods, UNCHANGED aside
    PROVE  IInv'
<1>1. IterTypes /\ PhaseInv /\ IterInv
  BY Zenon DEF IInv
<1>2. frames \in Seq(Calls) /\ code # << >>
  BY Zenon, <1>1 DEF IterTypes, PhaseInv
<1>3. Len(frames) \in Nat /\ DOMAIN frames = 1 .. Len(frames) /\ 1 \in DOMAIN frames /\ Len(frames) >= 1 /\ frames[1].id \in Files
  BY Zenon, <1>1, FrameFacts
<1> DEFINE c == [id |-> frames[1].id, rest |-> r]
<1>4. c \in Calls /\ c.id = frames[1].id /\ c.rest = r
  BY Zenon, <1>3, CallFacts
<1> HIDE DEF c
<1>5. frames' = << c >> \o Tail(frames)
  BY Zenon DEF c, After
<1>6. /\ frames' \in Seq(Calls) /\ frames' # << >> /\ Len(frames') = Len(frames) /\ DOMAIN frames' = DOMAIN frames
      /\ frames'[1] = c /\ \A k \in 2 .. Len(frames) : frames'[k] = frames[k]
  BY <1>2, <1>3, <1>4, <1>5, ReplaceFirst
<1>7. \A k \in DOMAIN frames : frames'[k].id = frames[k].id
  <2> SUFFICES ASSUME NEW k \in DOMAIN frames PROVE frames'[k].id = frames[k].id
    BY Zenon
  <2>1. CASE k = 1
    BY Zenon, <1>4, <1>6, <2>1
  <2>2. CASE k # 1
    BY <1>3, <1>6, <2>2
  <2> QED
    BY Zenon, <2>1, <2>2
<1>8. imports' = imports /\ Done' = Done /\ importedModules' = importedModules
  BY Zenon DEF Done, importedModules, parsing, aside
<1>9. IterTypes'
  BY Zenon, <1>1, <1>6 DEF IterTypes, aside
<1>10. Pending' = Pending
  <2>1. frames'[Len(frames')].id = frames[Len(frames)].id
    BY <1>3, <1>6, <1>7
  <2> QED
    BY Zenon, <1>6, <2>1 DEF Pending
<1>11. IterInv'
  <2>1. visited \subseteq importedModules \cup {frames'[k].id : k \in DOMAIN frames'}
    BY <1>1, <1>6, <1>7 DEF IterInv
  <2>2. ASSUME NEW k \in DOMAIN frames'
        PROVE  /\ frames'[k].id \in Done
               /\ Left(frames'[k].rest) \subseteq Mods(imports, frames'[k].id)
               /\ Mods(imports, frames'[k].id) \subseteq
                    importedModules \cup Left(frames'[k].rest) \cup IF k > 1 THEN {frames'[k - 1].id} ELSE {}
               /\ k > 1 => frames'[k - 1].id \in Mods(imports, frames'[k].id)
    <3>1. CASE k = 1
      <4>1. /\ frames[1].id \in Done
            /\ Left(frames[1].rest) \subseteq Mods(imports, frames[1].id)
        BY Zenon, <1>1, InnermostCall
      <4>2. frames'[k] = c /\ ~(k > 1) /\ Left(r) \subseteq Left(frames[1].rest)
        BY <1>6, <3>1 DEF NoneLost
      <4> QED
        BY Zenon, <1>4, <4>1, <4>2 DEF NoneLost
    <3>2. CASE k # 1
      <4>1. frames'[k] = frames[k] /\ k > 1 /\ k - 1 \in DOMAIN frames
        BY <1>3, <1>6, <3>2
      <4>2. frames'[k - 1].id = frames[k - 1].id
        BY Zenon, <1>7, <4>1
      <4> QED
        BY Zenon, <1>1, <1>6, <4>1, <4>2 DEF IterInv
    <3> QED
      BY Zenon, <3>1, <3>2
  <2> QED
    BY Zenon, <1>1, <1>8, <2>1, <2>2 DEF IterInv
<1> QED
  BY Zenon, <1>2, <1>9, <1>10, <1>11, FramesStep

(* The innermost call comes to a module and has those in r after it. *)
Comes(mod, r) == Left(frames[1].rest) = {mod} \cup Left(r)
Called(mod, r) == << CallRec(mod) >> \o After(r)

(* The innermost call comes to a module that has not been visited. *)
LEMMA CallStep ==
    ASSUME IInv, pc = "main", frames # << >>, NEW r \in Seq(Seq(Files)), NEW mod \in Files,
           Comes(mod, r), frames' = Called(mod, r),
           visited' = visited \cup {mod}, mods' = mods, UNCHANGED aside
    PROVE  IInv'
<1>1. ParseInv /\ ParseTypes /\ IterTypes /\ PhaseInv /\ IterInv
  BY Zenon DEF IInv, ParseInv
<1>2. frames \in Seq(Calls) /\ code # << >>
  BY Zenon, <1>1 DEF IterTypes, PhaseInv
<1>3. Len(frames) \in Nat /\ DOMAIN frames = 1 .. Len(frames) /\ 1 \in DOMAIN frames /\ Len(frames) >= 1 /\ frames[1].id \in Files
  BY Zenon, <1>1, FrameFacts
<1> DEFINE c == [id |-> frames[1].id, rest |-> r]
           a == After(r)
           d == CallRec(mod)
<1>4. c \in Calls /\ c.id = frames[1].id /\ c.rest = r
  BY Zenon, <1>3, CallFacts
<1>5. imports[mod] \in Seq(Seq(Files))
  BY Zenon, <1>1, FileFacts DEF ParseTypes
<1>6. d \in Calls /\ d.id = mod /\ d.rest = imports[mod]
  BY Zenon, <1>5, CallFacts DEF CallRec
<1>7. Left(imports[mod]) = Mods(imports, mod)
  BY Zenon DEF Left, Mods
<1>8. frames' = << d >> \o a
  BY Zenon DEF Called
<1>a. a = << c >> \o Tail(frames)
  BY Zenon DEF After
<1> HIDE DEF a, c, d
<1>9. a \in Seq(Calls) /\ Len(a) = Len(frames) /\ a[1] = c /\ \A k \in 2 .. Len(frames) : a[k] = frames[k]
  BY <1>2, <1>4, <1>a, ReplaceFirst
<1>10. /\ frames' \in Seq(Calls) /\ frames' # << >> /\ Len(frames') = Len(frames) + 1 /\ DOMAIN frames' = 1 .. Len(frames) + 1
       /\ frames'[1] = d /\ \A k \in 2 .. Len(frames) + 1 : frames'[k] = a[k - 1]
  <2>1. /\ << d >> \o a \in Seq(Calls) /\ << d >> \o a # << >> /\ Len(<< d >> \o a) = Len(a) + 1
        /\ DOMAIN (<< d >> \o a) = 1 .. Len(a) + 1
        /\ (<< d >> \o a)[1] = d /\ \A k \in 2 .. Len(a) + 1 : (<< d >> \o a)[k] = a[k - 1]
    BY <1>6, <1>9, ConsFacts
  <2> QED
    BY Zenon, <1>8, <1>9, <2>1
<1>11. /\ frames'[2] = c
       /\ \A k \in 3 .. Len(frames) + 1 : frames'[k] = frames[k - 1]
       /\ \A k \in 2 .. Len(frames) + 1 : frames'[k].id = frames[k - 1].id
  <2>1. frames'[2] = c
    BY <1>3, <1>9, <1>10
  <2>2. \A k \in 3 .. Len(frames) + 1 : frames'[k] = frames[k - 1]
    BY <1>3, <1>9, <1>10
  <2>3. ASSUME NEW k \in 2 .. Len(frames) + 1 PROVE frames'[k].id = frames[k - 1].id
    <3>1. CASE k = 2
      BY <1>4, <2>1, <3>1
    <3>2. CASE k # 2
      BY <1>3, <2>2, <3>2
    <3> QED
      BY Zenon, <3>1, <3>2
  <2> QED
    BY Zenon, <2>1, <2>2, <2>3
<1>12. imports' = imports /\ Done' = Done /\ importedModules' = importedModules
  BY Zenon DEF Done, importedModules, parsing, aside
<1>13. IterTypes'
  BY Zenon, <1>1, <1>10 DEF IterTypes, aside
<1>14. Pending' = Pending
  <2>1. frames'[Len(frames')].id = frames[Len(frames)].id
    BY <1>3, <1>10, <1>11
  <2> QED
    BY Zenon, <1>10, <2>1 DEF Pending
<1>15. IterInv'
  <2>1. mod \in Mods(imports, frames[1].id) /\ mod \in Done
    <3>1. frames[1].id \in Done /\ mod \in Mods(imports, frames[1].id)
      BY Zenon, <1>1, InnermostCall DEF Comes
    <3> QED
      BY Zenon, <1>1, <3>1 DEF ParseInv, GraphInv
  <2>2. visited \cup {mod} \subseteq importedModules \cup {frames'[k].id : k \in DOMAIN frames'}
    <3>1. \A k \in DOMAIN frames : frames[k].id \in {frames'[j].id : j \in DOMAIN frames'}
      <4> SUFFICES ASSUME NEW k \in DOMAIN frames PROVE frames[k].id \in {frames'[j].id : j \in DOMAIN frames'}
        BY Zenon
      <4>1. k + 1 \in DOMAIN frames' /\ k + 1 \in 2 .. Len(frames) + 1 /\ (k + 1) - 1 = k
        BY <1>3, <1>10
      <4> QED
        BY Zenon, <1>11, <4>1
    <3>2. mod \in {frames'[j].id : j \in DOMAIN frames'}
      BY <1>3, <1>6, <1>10
    <3>3. visited \subseteq importedModules \cup {frames[k].id : k \in DOMAIN frames}
      BY Zenon, <1>1 DEF IterInv
    <3> DEFINE now == {frames'[j].id : j \in DOMAIN frames'}
    <3>4. (\A k \in DOMAIN frames : frames[k].id \in now) /\ mod \in now
      BY Zenon, <3>1, <3>2
    <3> HIDE DEF now
    <3>5. visited \cup {mod} \subseteq importedModules \cup now
      BY Zenon, <3>3, <3>4
    <3> QED
      BY Zenon, <3>5 DEF now
  <2>3. ASSUME NEW k \in DOMAIN frames'
        PROVE  /\ frames'[k].id \in Done
               /\ Left(frames'[k].rest) \subseteq Mods(imports, frames'[k].id)
               /\ Mods(imports, frames'[k].id) \subseteq
                    importedModules \cup Left(frames'[k].rest) \cup IF k > 1 THEN {frames'[k - 1].id} ELSE {}
               /\ k > 1 => frames'[k - 1].id \in Mods(imports, frames'[k].id)
    <3>1. CASE k = 1
      BY <1>6, <1>7, <1>10, <2>1, <3>1
    <3>2. CASE k = 2
      <4>1. frames'[k - 1].id = mod /\ frames'[k] = c /\ k > 1
        BY <1>6, <1>10, <1>11, <3>2
      <4>2. /\ frames[1].id \in Done
            /\ Left(frames[1].rest) \subseteq Mods(imports, frames[1].id)
            /\ Mods(imports, frames[1].id) \subseteq importedModules \cup Left(frames[1].rest)
        BY Zenon, <1>1, InnermostCall
      <4> QED
        BY Zenon, <1>4, <2>1, <4>1, <4>2 DEF Comes
    <3>3. CASE k > 2
      <4> DEFINE j == k - 1
      <4>1. /\ j \in DOMAIN frames /\ j > 1 /\ k \in 3 .. Len(frames) + 1 /\ k - 1 \in 2 .. Len(frames) + 1 /\ k > 1
            /\ k - 1 = j
        BY <1>3, <1>10, <3>3
      <4>2. frames'[k] = frames[j] /\ frames'[j].id = frames[j - 1].id
        BY Zenon, <1>11, <4>1
      <4> HIDE DEF j
      <4>3. /\ frames[j].id \in Done
            /\ Left(frames[j].rest) \subseteq Mods(imports, frames[j].id)
            /\ Mods(imports, frames[j].id) \subseteq importedModules \cup Left(frames[j].rest) \cup {frames[j - 1].id}
            /\ frames[j - 1].id \in Mods(imports, frames[j].id)
        BY Zenon, <1>1, <4>1 DEF IterInv
      <4> QED
        BY Zenon, <4>1, <4>2, <4>3
    <3>4. k = 1 \/ k = 2 \/ k > 2
      BY <1>3, <1>10
    <3> QED
      BY Zenon, <3>1, <3>2, <3>3, <3>4
  <2> QED
    BY Zenon, <1>1, <1>12, <2>2, <2>3 DEF IterInv
<1> QED
  BY Zenon, <1>2, <1>13, <1>14, <1>15, FramesStep

(* The loops over the imports of a module. *)
LEMMA IterateImportStep ==
    ASSUME IInv, IterateImport
    PROVE  IInv'
<1>1. ParseInv /\ IterTypes /\ IterInv
  BY Zenon DEF IInv
<1> DEFINE rest == frames[1].rest
           mod == Head(Head(rest))
           r == << Tail(Head(rest)) >> \o Tail(rest)
<1>2. pc = "main" /\ frames # << >> /\ Head(frames) = frames[1] /\ 1 \in DOMAIN frames
  BY Zenon, <1>1, FrameFacts DEF IterateImport
<1>3. rest # << >> /\ mods' = mods /\ UNCHANGED aside
  BY Zenon, <1>2 DEF IterateImport, aside
<1>4. Head(rest) = << >> => visited' = visited /\ frames' = After(Tail(rest))
  BY Zenon, <1>2 DEF IterateImport, After
<1>5. Head(rest) # << >> => /\ visited' = visited \cup {mod}
                           /\ frames' = IF mod \in visited THEN After(r) ELSE Called(mod, r)
  BY Zenon, <1>2 DEF IterateImport, After, Called
<1>6. rest \in Seq(Seq(Files))
  BY Zenon, <1>1, <1>2, FrameFacts
<1>7. Left(rest) \subseteq Mods(imports, frames[1].id) /\ Mods(imports, frames[1].id) \subseteq importedModules \cup Left(rest)
  BY Zenon, <1>1, <1>2, InnermostCall
<1>8. \A q : Left(q) \subseteq Left(rest) /\ Left(rest) \subseteq importedModules \cup Left(q) => NoneLost(q)
  BY Zenon, <1>7 DEF NoneLost
<1>9. \A m, q : Left(rest) = {m} \cup Left(q) => Comes(m, q)
  BY Zenon DEF Comes
<1> HIDE DEF rest
<1>10. Head(rest) \in Seq(Files) /\ Tail(rest) \in Seq(Seq(Files)) /\ Left(rest) = Range(Head(rest)) \cup Left(Tail(rest))
  <2>1. Head(rest) \in Seq(Files) /\ Tail(rest) \in Seq(Seq(Files))
    BY <1>3, <1>6
  <2> QED
    BY Zenon, <1>3, <1>6, <2>1, LeftFacts
<1>11. CASE Head(rest) = << >>
  <2>1. NoneLost(Tail(rest))
    BY Zenon, <1>8, <1>10, <1>11, RangeFacts
  <2> QED
    BY Zenon, <1>2, <1>3, <1>4, <1>10, <1>11, <2>1, RestStep
<1>12. CASE Head(rest) # << >>
  <2>1. mod \in Files /\ Tail(Head(rest)) \in Seq(Files) /\ Range(Head(rest)) = {mod} \cup Range(Tail(Head(rest)))
    BY Zenon, <1>10, <1>12, RangeFacts, TailFacts
  <2>2. r \in Seq(Seq(Files)) /\ Left(r) = Range(Tail(Head(rest))) \cup Left(Tail(rest))
    BY Zenon, <1>10, <2>1, LeftFacts, ConsFacts
  <2>3. Left(rest) = {mod} \cup Left(r)
    BY Zenon, <1>10, <2>1, <2>2
  <2> HIDE DEF mod, r
  <2>4. CASE mod \in visited
    <3>1. \A k \in DOMAIN frames : frames[k].id # mod
      BY Zenon, <1>1, <1>2, <1>7, <2>3, NoCycle
    <3>2. mod \in importedModules
      BY Zenon, <1>1, <2>4, <3>1 DEF IterInv
    <3>3. NoneLost(r)
      BY Zenon, <1>8, <2>3, <3>2
    <3>4. visited' = visited /\ frames' = After(r)
      BY Zenon, <1>5, <1>12, <2>4
    <3> QED
      BY Zenon, <1>2, <1>3, <2>2, <3>3, <3>4, RestStep
  <2>5. CASE mod \notin visited
    <3>1. visited' = visited \cup {mod} /\ frames' = Called(mod, r)
      BY Zenon, <1>5, <1>12, <2>5
    <3>2. Comes(mod, r)
      BY Zenon, <1>9, <2>3
    <3> QED
      BY Zenon, <1>2, <1>3, <2>1, <2>2, <3>1, <3>2, CallStep
  <2> QED
    BY Zenon, <2>4, <2>5
<1> QED
  BY Zenon, <1>11, <1>12

(* fun(module): the module is initialized unless it is already. *)
LEMMA IterateEndStep ==
    ASSUME IInv, IterateEnd
    PROVE  IInv'
<1>1. /\ ParseInv /\ ParseTypes /\ IterTypes /\ RunTypes /\ PhaseInv /\ OrderInv /\ IterInv /\ RunInv
  BY Zenon DEF IInv, ParseInv
<1> DEFINE id == frames[1].id
           n == Len(code)
           b == [loop |-> code[n].loop, inits |-> InitOnce(id)]
           old == code[n].inits
<1>2. /\ pc = "main" /\ frames # << >> /\ UNCHANGED << program, parsing >>
      /\ frames[1].rest = << >>
      /\ code' = [code EXCEPT ![n] = b] /\ frames' = Tail(frames)
      /\ pc' = pc /\ compiled' = compiled /\ mods' = mods /\ visited' = visited
      /\ stmt' = stmt /\ turn' = turn /\ at' = at /\ inits' = inits /\ disposals' = disposals
  BY Zenon, <1>1, FrameFacts DEF IterateEnd, running
<1>3. ~Parsing /\ ~Parsing'
  BY Zenon, <1>2 DEF Parsing
<1>4. ParseInv' /\ imports' = imports /\ faulty' = faulty /\ Done' = Done
  BY Zenon, <1>1, <1>2, <1>3, ParsedStays
<1>5. RunTypes' /\ RunInv' /\ NothingCalled /\ NothingCalled'
  BY Zenon, <1>1, <1>2 DEF RunTypes, RunInv, PhaseInv, NothingCalled
<1>6. /\ code \in Seq(Blocks) /\ n \in Nat /\ DOMAIN code = 1 .. n
      /\ \A j \in DOMAIN code : /\ code[j].inits \in Seq(Files) /\ code[j].loop \in BOOLEAN
                                /\ Len(code[j].inits) \in Nat /\ DOMAIN code[j].inits = 1 .. Len(code[j].inits)
  BY Zenon, <1>1, BeforeFacts DEF IterTypes
<1>7. code # << >> /\ n >= 1 /\ n \in DOMAIN code
  <2>1. code # << >>
    BY Zenon, <1>1, <1>2 DEF PhaseInv
  <2> QED
    BY <1>6, <2>1
<1>8. id \in Done /\ id \in Files /\ Mods(imports, id) \subseteq importedModules
  <2>1. id \in Done /\ Mods(imports, id) \subseteq importedModules \cup Left(frames[1].rest)
    BY Zenon, <1>1, <1>2, InnermostCall
  <2> QED
    BY Zenon, <1>2, <2>1, LeftFacts DEF Done
<1>9. importedModules = Through(code, n) /\ importedModules = Before(code, n, Len(old) + 1)
  BY Zenon, <1>1, <1>6, <1>7, ImportedModules, BeforeFacts
<1>10. /\ old \in Seq(Files) /\ Len(old) \in Nat /\ DOMAIN old = 1 .. Len(old)
       /\ Len(old) + 1 \in 1 .. Len(old) + 1
  BY <1>6, <1>7
<1>11. /\ InitOnce(id) \in Seq(Files) /\ b \in Blocks /\ b.loop = code[n].loop /\ b.inits = InitOnce(id)
  <2>1. InitOnce(id) \in Seq(Files)
    BY <1>8, <1>10 DEF InitOnce
  <2> QED
    BY <1>6, <1>7, <2>1, Zenon DEF Blocks
<1> DEFINE new == InitOnce(id)
<1>12. /\ id \in importedModules => new = old
       /\ id \notin importedModules => new = Append(old, id)
  BY Zenon DEF InitOnce
<1> HIDE DEF b, new
<1>13. /\ code' \in Seq(Blocks) /\ Len(code') = n /\ DOMAIN code' = 1 .. n /\ code'[n] = b
       /\ \A j \in 1 .. n - 1 : code'[j] = code[j]
  <2>1. code' \in Seq(Blocks) /\ Len(code') = n /\ DOMAIN code' = 1 .. n
    BY <1>2, <1>6, <1>7, <1>11
  <2>2. code'[n] = b /\ \A j \in DOMAIN code : j # n => code'[j] = code[j]
    BY Zenon, <1>2, <1>6, <1>7
  <2> QED
    BY <1>6, <2>1, <2>2
<1>14. code'[n].inits = new /\ code'[n].loop = code[n].loop
  BY Zenon, <1>11, <1>13 DEF new
<1> HIDE DEF n, old, id
<1>15. /\ new \in Seq(Files) /\ Range(new) \cup importedModules = importedModules \cup {id}
       /\ Len(new) >= Len(old) /\ \A i \in 1 .. Len(old) : new[i] = old[i]
       /\ \A i \in DOMAIN new : i \in DOMAIN old \/ (i = Len(old) + 1 /\ new[i] = id /\ id \notin importedModules)
       /\ Range(old) \subseteq Range(new)
  <2>1. Range(old) \subseteq importedModules
    BY Zenon, <1>7 DEF importedModules, old
  <2>2. CASE id \in importedModules
    <3>1. new = old
      BY Zenon, <1>12, <2>2
    <3> QED
      BY <1>10, <2>1, <2>2, <3>1
  <2>3. CASE id \notin importedModules
    <3>1. new = Append(old, id)
      BY Zenon, <1>12, <2>3
    <3>2. Range(new) = Range(old) \cup {id}
      BY <1>8, <1>10, <3>1, RangeFacts
    <3>3. /\ new \in Seq(Files) /\ Len(new) = Len(old) + 1 /\ DOMAIN new = 1 .. Len(old) + 1
          /\ new[Len(old) + 1] = id /\ \A i \in 1 .. Len(old) : new[i] = old[i]
      BY <1>8, <1>10, <3>1
    <3>4. \A i \in DOMAIN new : i \in DOMAIN old \/ i = Len(old) + 1
      BY <1>10, <3>3
    <3>5. Len(new) >= Len(old) /\ Range(old) \subseteq Range(new)
      BY <1>10, <3>2, <3>3
    <3>6. Range(new) \cup importedModules = importedModules \cup {id}
      BY Zenon, <2>1, <3>2
    <3> QED
      BY Zenon, <2>3, <3>3, <3>4, <3>5, <3>6
  <2> QED
    BY Zenon, <2>2, <2>3
<1>16. \A j \in 0 .. n - 1 : Through(code', j) = Through(code, j)
  BY <1>13 DEF Through
<1>17. Through(code', n) = importedModules \cup {id} /\ importedModules' = importedModules \cup {id}
  <2>1. 1 .. n = 1 .. n - 1 \cup {n} /\ n - 1 \in 0 .. n - 1
    BY <1>6, <1>7 DEF n
  <2>2. Through(code', n) = Through(code', n - 1) \cup Range(new)
    BY Zenon, <1>14, <2>1 DEF Through
  <2>3. Through(code, n) = Through(code, n - 1) \cup Range(old)
    BY Zenon, <2>1 DEF Through, old
  <2>4. importedModules' = Through(code', n)
    BY Zenon, <1>13 DEF Through, importedModules
  <2>5. Through(code', n - 1) = Through(code, n - 1)
    BY Zenon, <1>16, <2>1
  <2>6. Through(code', n) = importedModules \cup {id}
    BY Zenon, <1>9, <1>15, <2>2, <2>3, <2>5
  <2> QED
    BY Zenon, <2>4, <2>6
<1>18. \A j \in 1 .. n - 1 : \A i : Before(code', j, i) = Before(code, j, i)
  <2> SUFFICES ASSUME NEW j \in 1 .. n - 1, NEW i PROVE Before(code', j, i) = Before(code, j, i)
    BY Zenon
  <2>1. j - 1 \in 0 .. n - 1 /\ code'[j] = code[j]
    BY <1>6, <1>13 DEF n
  <2> QED
    BY Zenon, <1>16, <2>1 DEF Before
<1>19. \A i \in 1 .. Len(old) + 1 : Before(code', n, i) = Before(code, n, i)
  <2> SUFFICES ASSUME NEW i \in 1 .. Len(old) + 1 PROVE Before(code', n, i) = Before(code, n, i)
    BY Zenon
  <2>1. n - 1 \in 0 .. n - 1 /\ 1 .. i - 1 \subseteq 1 .. Len(old)
    BY <1>6, <1>7, <1>10 DEF n
  <2>2. {new[h] : h \in 1 .. i - 1} = {old[h] : h \in 1 .. i - 1}
    BY Zenon, <1>15, <2>1
  <2> QED
    BY Zenon, <1>14, <1>16, <2>1, <2>2 DEF Before, old
<1>20. ASSUME NEW j \in DOMAIN code', NEW i \in DOMAIN code'[j].inits
       PROVE  /\ code'[j].inits[i] \in Done \ Before(code', j, i)
              /\ Mods(imports, code'[j].inits[i]) \subseteq Before(code', j, i)
  <2>1. CASE j # n
    <3>1. j \in 1 .. n - 1 /\ j \in DOMAIN code /\ code'[j] = code[j]
      BY <1>6, <1>13, <2>1 DEF n
    <3> QED
      BY Zenon, <1>1, <1>18, <1>20, <3>1 DEF OrderInv
  <2>2. CASE j = n
    <3>1. i \in DOMAIN new /\ code'[j].inits[i] = new[i]
      BY Zenon, <1>14, <1>20, <2>2
    <3>2. CASE i \in DOMAIN old
      <4>1. new[i] = old[i] /\ i \in 1 .. Len(old) + 1
        BY <1>10, <1>15, <3>2
      <4>2. old[i] \in Done \ Before(code, n, i) /\ Mods(imports, old[i]) \subseteq Before(code, n, i)
        BY Zenon, <1>1, <1>7, <3>2 DEF OrderInv, old
      <4> QED
        BY Zenon, <1>19, <2>2, <3>1, <4>1, <4>2
    <3>3. CASE i = Len(old) + 1 /\ new[i] = id /\ id \notin importedModules
      <4>1. i \in 1 .. Len(old) + 1
        BY Zenon, <1>10, <3>3
      <4>2. Before(code', n, i) = importedModules
        BY Zenon, <1>9, <1>19, <3>3, <4>1
      <4> QED
        BY Zenon, <1>8, <2>2, <3>1, <3>3, <4>2
    <3> QED
      BY Zenon, <1>15, <3>1, <3>2, <3>3
  <2> QED
    BY Zenon, <2>1, <2>2
<1>21. /\ frames' \in Seq(Calls) /\ Len(frames) \in Nat /\ Len(frames) >= 1 /\ Len(frames') = Len(frames) - 1
       /\ DOMAIN frames' = 1 .. Len(frames) - 1 /\ DOMAIN frames = 1 .. Len(frames)
       /\ \A k \in 1 .. Len(frames) - 1 : frames'[k] = frames[k + 1]
  <2>1. frames \in Seq(Calls)
    BY Zenon, <1>1 DEF IterTypes
  <2> QED
    BY <1>2, <2>1, TailFacts
<1>22. Pending \subseteq Pending' \cup {id}
  <2>1. CASE Len(frames) = 1
    BY Zenon, <1>2, <2>1 DEF Pending, id
  <2>2. CASE Len(frames) # 1
    <3>1. Len(frames) - 1 \in 1 .. Len(frames) - 1 /\ (Len(frames) - 1) + 1 = Len(frames)
      BY <1>21, <2>2
    <3>2. frames'[Len(frames')] = frames[Len(frames)] /\ frames' # << >>
      BY <1>21, <2>2, <3>1
    <3> QED
      BY Zenon, <1>2, <3>2 DEF Pending
  <2> QED
    BY Zenon, <2>1, <2>2
<1>23. ASSUME NEW j \in DOMAIN code'
       PROVE  Range(imports[Root][j]) \subseteq Through(code', j) \cup IF j = n THEN Pending' ELSE {}
  <2>1. CASE j # n
    <3>1. j \in 0 .. n - 1 /\ j \in DOMAIN code
      BY <1>6, <1>13, <2>1 DEF n
    <3> QED
      BY Zenon, <1>1, <1>16, <2>1, <3>1 DEF OrderInv, n
  <2>2. CASE j = n
    <3>1. Range(imports[Root][n]) \subseteq Through(code, n) \cup Pending
      BY Zenon, <1>1, <1>7 DEF OrderInv, n
    <3> QED
      BY Zenon, <1>9, <1>17, <1>22, <2>2, <3>1
  <2> QED
    BY Zenon, <2>1, <2>2
<1>24. OrderInv'
  BY Zenon, <1>4, <1>13, <1>20, <1>23 DEF OrderInv
<1>25. IterInv'
  <2>1. ASSUME NEW k \in DOMAIN frames PROVE frames[k].id \in {id} \cup {frames'[j].id : j \in DOMAIN frames'}
    <3>1. CASE k = 1
      BY Zenon, <3>1 DEF id
    <3>2. CASE k # 1
      <4>1. k - 1 \in DOMAIN frames' /\ (k - 1) + 1 = k
        BY <1>21, <3>2
      <4> QED
        BY Zenon, <1>21, <4>1
    <3> QED
      BY Zenon, <3>1, <3>2
  <2>2. visited \subseteq importedModules \cup {id} \cup {frames'[j].id : j \in DOMAIN frames'}
    <3> DEFINE now == {frames'[j].id : j \in DOMAIN frames'}
    <3>1. \A k \in DOMAIN frames : frames[k].id \in {id} \cup now
      BY Zenon, <2>1
    <3> HIDE DEF now
    <3>2. visited \subseteq importedModules \cup {id} \cup now
      BY Zenon, <1>1, <3>1 DEF IterInv
    <3> QED
      BY Zenon, <3>2 DEF now
  <2>3. ASSUME NEW k \in DOMAIN frames'
        PROVE  /\ frames'[k].id \in Done
               /\ Left(frames'[k].rest) \subseteq Mods(imports, frames'[k].id)
               /\ Mods(imports, frames'[k].id) \subseteq
                    importedModules \cup {id} \cup Left(frames'[k].rest) \cup IF k > 1 THEN {frames'[k - 1].id} ELSE {}
               /\ k > 1 => frames'[k - 1].id \in Mods(imports, frames'[k].id)
    <3>1. k + 1 \in DOMAIN frames /\ k + 1 > 1 /\ frames'[k] = frames[k + 1] /\ (k + 1) - 1 = k
      BY <1>21
    <3>2. /\ frames[k + 1].id \in Done
          /\ Left(frames[k + 1].rest) \subseteq Mods(imports, frames[k + 1].id)
          /\ Mods(imports, frames[k + 1].id) \subseteq
                importedModules \cup Left(frames[k + 1].rest) \cup {frames[(k + 1) - 1].id}
          /\ frames[(k + 1) - 1].id \in Mods(imports, frames[k + 1].id)
      BY Zenon, <1>1, <3>1 DEF IterInv
    <3>3. CASE k = 1
      BY <3>1, <3>2, <3>3 DEF id
    <3>4. CASE k > 1
      <4>1. frames'[k - 1] = frames[k]
        <5>1. k - 1 \in 1 .. Len(frames) - 1 /\ (k - 1) + 1 = k
          BY <1>21, <3>4
        <5> QED
          BY Zenon, <1>21, <5>1
      <4> QED
        BY Zenon, <3>1, <3>2, <3>4, <4>1
    <3>5. k = 1 \/ k > 1
      BY <1>21
    <3> QED
      BY Zenon, <3>3, <3>4, <3>5
  <2> QED
    BY Zenon, <1>1, <1>2, <1>4, <1>17, <2>2, <2>3 DEF IterInv
<1>26. IterTypes'
  BY Zenon, <1>1, <1>2, <1>13, <1>21 DEF IterTypes
<1>27. PhaseInv'
  <2>1. \A j \in DOMAIN code' : ~ code'[j].loop
    <3> SUFFICES ASSUME NEW j \in DOMAIN code' PROVE ~ code'[j].loop
      BY Zenon
    <3>1. j \in DOMAIN code /\ (j # n => j \in 1 .. n - 1)
      BY <1>6, <1>13 DEF n
    <3> QED
      BY Zenon, <1>1, <1>13, <1>14, <3>1 DEF PhaseInv
  <2>2. code' # << >> /\ Len(code') <= Len(imports[Root])
    BY <1>1, <1>7, <1>13 DEF PhaseInv, n
  <2>3. compiled # {}
    BY Zenon, <1>1, <1>2 DEF PhaseInv
  <2> QED
    BY Zenon, <1>1, <1>2, <1>4, <1>5, <2>1, <2>2, <2>3 DEF PhaseInv
<1> QED
  BY Zenon, <1>4, <1>5, <1>24, <1>25, <1>26, <1>27 DEF IInv

-----------------------------------------------------------------------------
(***************************************************************************)
(* The program.                                                            *)
(***************************************************************************)
(* A step of the program: only RunInv is about it. *)
LEMMA RunStep ==
    ASSUME IInv, pc = "run", pc' \in {"run", "ended"}, RunTypes', RunInv',
           UNCHANGED << program, parsing, compiling >>
    PROVE  IInv'
<1>1. /\ ParseInv /\ IterTypes /\ PhaseInv /\ OrderInv /\ IterInv
  BY Zenon DEF IInv
<1>2. /\ compiled' = compiled /\ code' = code /\ mods' = mods /\ frames' = frames /\ visited' = visited
  BY Zenon DEF compiling, iterating
<1>3. ~Parsing /\ ~Parsing'
  BY Zenon DEF Parsing
<1>4. ParseInv' /\ imports' = imports /\ faulty' = faulty /\ Done' = Done
  BY Zenon, <1>1, <1>3, ParsedStays
<1>5. importedModules' = importedModules /\ Pending' = Pending
  BY Zenon, <1>2 DEF importedModules, Pending
<1>6. IterTypes' /\ OrderInv' /\ IterInv'
  BY Zenon, <1>1, <1>2, <1>4, <1>5 DEF IterTypes, OrderInv, IterInv
<1>7. PhaseInv'
  BY Zenon, <1>1, <1>2, <1>4 DEF PhaseInv
<1> QED
  BY Zenon, <1>4, <1>6, <1>7 DEF IInv

(* An import statement is reached or left. *)
LEMMA EnterImportStep ==
    ASSUME IInv, EnterImport
    PROVE  IInv'
<1>1. IterTypes /\ RunTypes /\ PhaseInv /\ RunInv
  BY Zenon DEF IInv
<1>2. /\ pc = "run" /\ pc' = pc /\ stmt <= Len(code) /\ ~InCalls /\ UNCHANGED << program, parsing, compiling >>
      /\ code' = code /\ inits' = inits /\ disposals' = disposals
  BY Zenon DEF EnterImport, compiling, iterating
<1>3. /\ code \in Seq(Blocks) /\ Len(code) \in Nat /\ DOMAIN code = 1 .. Len(code)
      /\ \A j \in DOMAIN code : Len(code[j].inits) \in Nat /\ DOMAIN code[j].inits = 1 .. Len(code[j].inits)
  BY Zenon, <1>1, BeforeFacts DEF IterTypes
<1>4. /\ stmt \in 1 .. Len(code) + 1 /\ turn \in {0, 1} /\ at \in Nat /\ at >= 1 /\ (turn = 0 => at = 1)
      /\ at <= Len(code[stmt].inits) + 1 /\ \A f \in Files : disposals[f] = 0
      /\ \A f \in Files : inits[f] = IF f \in Before(code, stmt, at) THEN 1 ELSE 0
  BY Zenon, <1>1, <1>2 DEF RunInv, RunTypes
<1>5. stmt \in DOMAIN code /\ ~ code[stmt].loop /\ stmt \in Nat
  BY <1>1, <1>2, <1>3, <1>4 DEF PhaseInv
<1>6. Len(code[stmt].inits) \in Nat
  BY Zenon, <1>3, <1>5
<1>7. CASE turn < 1 /\ turn' = turn + 1 /\ at' = 1 /\ stmt' = stmt
  <2>1. turn = 0 /\ turn' = 1 /\ at = 1
    BY <1>4, <1>7
  <2>2. RunTypes' /\ RunInv'
    BY Zenon, <1>1, <1>2, <1>4, <1>6, <1>7, <2>1 DEF RunTypes, RunInv
  <2> QED
    BY Zenon, <1>2, <2>2, RunStep
<1>8. CASE turn = 1 /\ stmt' = stmt + 1 /\ turn' = 0 /\ at' = 1
  <2>1. at = Len(code[stmt].inits) + 1
    BY <1>2, <1>4, <1>6, <1>8 DEF InCalls
  <2>2. Before(code, stmt + 1, 1) = Before(code, stmt, at)
    BY Zenon, <1>3, <1>5, <2>1, BeforeFacts
  <2>3. stmt + 1 \in 1 .. Len(code) + 1 /\ stmt + 1 \in Nat
    BY <1>2, <1>3, <1>5
  <2>4. stmt + 1 <= Len(code) => Len(code[stmt + 1].inits) \in Nat
    BY <1>3, <2>3
  <2>5. RunTypes' /\ RunInv'
    BY <1>1, <1>2, <1>4, <1>8, <2>2, <2>3, <2>4 DEF RunTypes, RunInv
  <2> QED
    BY Zenon, <1>2, <2>5, RunStep
<1> QED
  BY Zenon, <1>5, <1>7, <1>8 DEF EnterImport

(* A module_init function is called. *)
LEMMA CallInitStep ==
    ASSUME IInv, CallInit
    PROVE  IInv'
<1>1. IterTypes /\ RunTypes /\ OrderInv /\ RunInv
  BY Zenon DEF IInv
<1> DEFINE m == code[stmt].inits[at]
<1>2. /\ pc = "run" /\ pc' = pc /\ InCalls /\ UNCHANGED << program, parsing, compiling >>
      /\ inits' = [inits EXCEPT ![m] = @ + 1] /\ at' = at + 1
      /\ code' = code /\ stmt' = stmt /\ turn' = turn /\ disposals' = disposals
  BY Zenon DEF CallInit, compiling, iterating
<1>3. /\ code \in Seq(Blocks) /\ Len(code) \in Nat /\ DOMAIN code = 1 .. Len(code)
      /\ \A j \in DOMAIN code : Len(code[j].inits) \in Nat /\ DOMAIN code[j].inits = 1 .. Len(code[j].inits)
  BY Zenon, <1>1, BeforeFacts DEF IterTypes
<1>4. /\ stmt \in 1 .. Len(code) + 1 /\ turn \in {0, 1} /\ at \in Nat /\ at >= 1
      /\ stmt <= Len(code) /\ turn > 0 /\ at <= Len(code[stmt].inits)
      /\ \A f \in Files : disposals[f] = 0
      /\ \A f \in Files : inits[f] = IF f \in Before(code, stmt, at) THEN 1 ELSE 0
  BY Zenon, <1>1, <1>2 DEF RunInv, RunTypes, InCalls
<1>5. stmt \in DOMAIN code /\ turn = 1
  BY <1>3, <1>4
<1>6. at \in DOMAIN code[stmt].inits /\ Len(code[stmt].inits) \in Nat
  BY <1>3, <1>4, <1>5
<1>7. m \in Files /\ m \notin Before(code, stmt, at)
  BY Zenon, <1>1, <1>5, <1>6 DEF OrderInv, Done
<1>8. Before(code, stmt, at + 1) = Before(code, stmt, at) \cup {m}
  <2>1. \A j \in DOMAIN code : \A i \in DOMAIN code[j].inits :
            Before(code, j, i + 1) = Before(code, j, i) \cup {code[j].inits[i]}
    BY Zenon, <1>3, BeforeFacts
  <2> QED
    BY Zenon, <1>5, <1>6, <2>1
<1> HIDE DEF m
<1>9. /\ inits' \in [Files -> Nat]
      /\ \A f \in Files : inits'[f] = IF f \in Before(code, stmt, at + 1) THEN 1 ELSE 0
  <2>1. inits \in [Files -> Nat]
    BY Zenon, <1>1 DEF RunTypes
  <2>2. inits[m] = 0
    BY Zenon, <1>4, <1>7
  <2> QED
    BY <1>2, <1>4, <1>7, <1>8, <2>1, <2>2
<1>10. RunTypes' /\ RunInv'
  BY <1>1, <1>2, <1>4, <1>5, <1>6, <1>9 DEF RunTypes, RunInv
<1> QED
  BY Zenon, <1>2, <1>10, RunStep

(* A module_dispose function is called, or the program ends. *)
LEMMA CallDisposeStep ==
    ASSUME IInv, CallDispose
    PROVE  IInv'
<1>1. ParseTypes /\ IterTypes /\ RunTypes /\ OrderInv /\ RunInv
  BY Zenon DEF IInv, ParseInv
<1>2. /\ pc = "run" /\ stmt > Len(code) /\ UNCHANGED << program, parsing, compiling >>
      /\ code' = code /\ stmt' = stmt /\ turn' = turn /\ at' = at /\ inits' = inits
  BY Zenon DEF CallDispose, compiling, iterating
<1>3. importedModules \subseteq Files /\ importedModules' = importedModules
  BY Zenon, <1>1, <1>2, ImportedModules DEF Done, importedModules
<1>4. Len(code) \in Nat
  BY Zenon, <1>1, BeforeFacts DEF IterTypes
<1>5. CASE pc' = pc /\ \E id \in importedModules : disposals[id] = 0 /\ disposals' = [disposals EXCEPT ![id] = 1]
  <2>1. PICK id \in importedModules : disposals' = [disposals EXCEPT ![id] = 1]
    BY Zenon, <1>5
  <2>2. RunTypes'
    BY Zenon, <1>1, <1>2, <1>3, <2>1 DEF RunTypes
  <2>3. RunInv'
    BY <1>1, <1>2, <1>4, <1>5 DEF RunInv, RunTypes
  <2> QED
    BY Zenon, <1>2, <1>5, <2>2, <2>3, RunStep
<1>6. CASE pc' = "ended" /\ disposals' = disposals /\ \A id \in importedModules : disposals[id] = 1
  <2>1. RunTypes' /\ RunInv'
    BY Zenon, <1>1, <1>2, <1>3, <1>4, <1>6 DEF RunTypes, RunInv
  <2> QED
    BY Zenon, <1>2, <1>6, <2>1, RunStep
<1> QED
  BY Zenon, <1>5, <1>6 DEF CallDispose

-----------------------------------------------------------------------------
(***************************************************************************)
(* The theorems.                                                           *)
(***************************************************************************)
(* Nothing has been parsed at the beginning. *)
LEMMA IInvInit ==
    ASSUME Init
    PROVE  IInv
<1> DEFINE e == << >>
           p == [id |-> Root, pos |-> 1, targets |-> e, got |-> e]
<1>1. /\ program \in Programs /\ predefined = [f \in Files |-> "absent"] /\ stack = << p >>
      /\ imports = [id \in Ids |-> e] /\ faulty = {} /\ pc = "import"
      /\ compiled = {} /\ code = << >> /\ mods = << >> /\ frames = << >> /\ visited = {}
      /\ NothingCalled
  BY Zenon DEF Init, NewParser, NothingCalled
<1>2. e \in Seq(Files) /\ e \in Seq(Seq(Files)) /\ Range(e) = {} /\ DOMAIN e = {} /\ Len(e) = 0 /\ e = << >>
  BY DEF Range
<1> HIDE DEF e
<1>3. Root \in Ids /\ Main \in Files /\ Root \notin Files
  BY Zenon, ProgramsAssumption DEF Ids, Root
<1>4. p \in Parsers /\ p.id = Root /\ p.pos = 1 /\ p.got = e
  <2>1. 1 \in Nat \ {0}
    OBVIOUS
  <2> QED
    BY <1>2, <1>3, <2>1, Zenon DEF Parsers
<1> HIDE DEF p
<1>5. stack \in Seq(Parsers) /\ Len(stack) = 1 /\ DOMAIN stack = {1} /\ stack[1] = p /\ stack # << >>
  BY <1>1, <1>4
<1>6. ParseTypes
  BY Zenon, <1>1, <1>2, <1>5 DEF ParseTypes
<1>7. Done = {} /\ \A id \in Ids : Mods(imports, id) = {}
  BY Zenon, <1>1, <1>2 DEF Done, Mods
<1>8. GraphInv
  BY Zenon, <1>1, <1>2, <1>3, <1>7 DEF GraphInv, Ids
<1>9. StackInv
  BY <1>1, <1>2, <1>3, <1>4, <1>5, <1>7 DEF StackInv, Parsing
<1>10. FoundInv
  <2>1. FoundBefore(program, imports, p)
    <3>1. program[FileOf(Root)].imports \in Seq(Statements)
      BY Zenon, <1>3, <1>6, FileFacts
    <3>2. Found(program, imports, Root, 0)
      BY <1>1, <1>2, <1>3 DEF Found
    <3> QED
      BY <1>4, <3>1, <3>2 DEF FoundBefore, StatementsOf
  <2> QED
    BY <1>1, <1>5, <1>7, <2>1 DEF FoundInv, Parsing
<1>11. IterTypes /\ RunTypes
  BY <1>1 DEF IterTypes, RunTypes, NothingCalled
<1>12. PhaseInv
  BY <1>1, <1>2, <1>3 DEF PhaseInv
<1>13. OrderInv /\ IterInv /\ RunInv
  <2>1. DOMAIN code = {} /\ DOMAIN frames = {} /\ Range(mods) = {}
    BY <1>1 DEF Range
  <2> QED
    BY Zenon, <1>1, <2>1 DEF OrderInv, IterInv, RunInv
<1> QED
  BY Zenon, <1>6, <1>8, <1>9, <1>10, <1>11, <1>12, <1>13 DEF IInv, ParseInv

(* Steps that leave everything alone. *)
LEMMA Stutters ==
    ASSUME IInv, UNCHANGED vars
    PROVE  IInv'
<1>1. /\ program' = program /\ predefined' = predefined /\ stack' = stack /\ imports' = imports /\ faulty' = faulty
      /\ pc' = pc /\ todo' = todo /\ compiled' = compiled
      /\ code' = code /\ mods' = mods /\ frames' = frames /\ visited' = visited
      /\ stmt' = stmt /\ turn' = turn /\ at' = at /\ inits' = inits /\ disposals' = disposals
  BY Zenon DEF vars, parsing, compiling, iterating, running
<1>2. Done' = Done /\ importedModules' = importedModules /\ Pending' = Pending /\ (Parsing' <=> Parsing)
  BY Zenon, <1>1 DEF Done, importedModules, Pending, Parsing
<1>3. ParseInv'
  BY Zenon, <1>1, <1>2 DEF IInv, ParseInv, ParseTypes, GraphInv, StackInv, FoundInv
<1>4. IterTypes' /\ RunTypes' /\ PhaseInv'
  BY Zenon, <1>1 DEF IInv, IterTypes, RunTypes, PhaseInv, NothingCalled
<1>5. OrderInv'
  BY Zenon, <1>1, <1>2 DEF IInv, OrderInv
<1>6. IterInv'
  BY Zenon, <1>1, <1>2 DEF IInv, IterInv
<1>7. RunInv'
  BY Zenon, <1>1, <1>2 DEF IInv, RunInv
<1> QED
  BY Zenon, <1>3, <1>4, <1>5, <1>6, <1>7 DEF IInv

(* In programs without an import statement in a loop of the main file, a   *)
(* module is parsed after those that it imports, and the code initializes  *)
(* it once and after them.                                                 *)
THEOREM OrderIsInvariant ==
    ASSUME NoLoops
    PROVE  Spec => []IInv
<1>1. Init => IInv
  BY Zenon, IInvInit
<1>2. IInv /\ [Next]_vars => IInv'
  <2> SUFFICES ASSUME IInv, [Next]_vars PROVE IInv'
    BY Zenon
  <2>1. CASE UNCHANGED vars
    BY Zenon, <2>1, Stutters
  <2>2. CASE Next
    BY Zenon, <2>2, ParseStep, CompileStep, VisitImportStep, IterateModuleStep, IterateImportStep, IterateEndStep,
       EnterImportStep, CallInitStep, CallDisposeStep DEF Next, Iterate
  <2> QED
    BY Zenon, <2>1, <2>2
<1> QED
  BY <1>1, <1>2, PTL DEF Spec

(* When a module_init function runs, and after an import statement of the  *)
(* main program, all imported modules are initialized and none has been    *)
(* disposed of.                                                            *)
THEOREM InitializesBeforeUse ==
    ASSUME NoLoops
    PROVE  Spec => []InitializedBeforeUse
<1>1. IInv => InitializedBeforeUse
  <2> SUFFICES ASSUME IInv, pc = "run" PROVE InitializedBeforeUse
    BY Zenon DEF InitializedBeforeUse
  <2>1. ParseInv /\ ParseTypes /\ IterTypes /\ RunTypes /\ PhaseInv /\ OrderInv /\ RunInv
    BY Zenon DEF IInv, ParseInv
  <2>2. /\ code \in Seq(Blocks) /\ Len(code) \in Nat /\ DOMAIN code = 1 .. Len(code)
        /\ \A j \in DOMAIN code : Len(code[j].inits) \in Nat /\ DOMAIN code[j].inits = 1 .. Len(code[j].inits)
    BY Zenon, <2>1, BeforeFacts DEF IterTypes
  <2>3. /\ stmt \in 1 .. Len(code) + 1 /\ at \in Nat /\ at >= 1
        /\ stmt <= Len(code) => \A f \in Files : disposals[f] = 0
        /\ \A f \in Files : inits[f] = IF f \in Before(code, stmt, at) THEN 1 ELSE 0
    BY Zenon, <2>1 DEF RunInv, RunTypes
  <2>4. \A f \in Files : f \in Before(code, stmt, at) => inits[f] > 0
    BY <2>3
  <2>5. ASSUME InCalls, NEW id \in Imported(code[stmt].inits[at]) PROVE inits[id] > 0 /\ disposals[id] = 0
    <3>1. stmt \in DOMAIN code /\ stmt <= Len(code)
      BY <2>2, <2>3, <2>5 DEF InCalls
    <3>2. at \in DOMAIN code[stmt].inits
      BY <2>2, <2>3, <2>5, <3>1 DEF InCalls
    <3>3. /\ code[stmt].inits[at] \in Done
          /\ Mods(imports, code[stmt].inits[at]) \subseteq Before(code, stmt, at)
      BY Zenon, <2>1, <3>1, <3>2 DEF OrderInv
    <3>4. id \in Mods(imports, code[stmt].inits[at])
      BY Zenon, <2>5 DEF Imported, Mods
    <3>5. id \in Files
      BY Zenon, <2>1, <3>3, <3>4 DEF ParseInv, GraphInv, Done
    <3> QED
      BY Zenon, <2>3, <2>4, <3>1, <3>3, <3>4, <3>5
  <2>6. ASSUME NEW k \in 1 .. stmt - 1, NEW id \in Range(imports[Root][k]) PROVE inits[id] > 0
    <3>1. k \in DOMAIN code /\ k \in Nat /\ stmt - 1 \in Nat /\ k <= stmt - 1
      BY <2>2, <2>3
    <3>2. Pending = {}
      BY <2>1 DEF PhaseInv, Pending, Range
    <3>3. id \in Through(code, k)
      BY Zenon, <2>1, <2>6, <3>1, <3>2 DEF OrderInv
    <3>4. id \in Before(code, stmt, at)
      BY Zenon, <2>2, <3>1, <3>3, BeforeFacts DEF Before
    <3>5. Through(code, k) \subseteq importedModules
      BY <2>2, <3>1 DEF Through, importedModules
    <3>6. id \in Files
      BY Zenon, <2>1, <3>3, <3>5, ImportedModules DEF Done
    <3> QED
      BY Zenon, <2>4, <3>4, <3>6
  <2> QED
    BY Zenon, <2>5, <2>6 DEF InitializedBeforeUse
<1> QED
  BY <1>1, OrderIsInvariant, PTL

(* At the end of the program every module that the main file needs, itself *)
(* or through another one, has been initialized once and disposed of once. *)
THEOREM InitializesAndDisposesOnce ==
    ASSUME NoLoops
    PROVE  Spec => []InitAndDisposeOnce
<1>1. IInv => InitAndDisposeOnce
  <2> SUFFICES ASSUME IInv, pc = "ended", NEW f \in Needed \ {Main} PROVE inits[f] = 1 /\ disposals[f] = 1
    BY Zenon DEF InitAndDisposeOnce
  <2>1. ParseInv /\ ParseTypes /\ IterTypes /\ RunTypes /\ PhaseInv /\ OrderInv /\ RunInv
    BY Zenon DEF IInv, ParseInv
  <2>2. /\ code \in Seq(Blocks) /\ Len(code) \in Nat /\ DOMAIN code = 1 .. Len(code)
        /\ \A j \in DOMAIN code : Len(code[j].inits) \in Nat /\ DOMAIN code[j].inits = 1 .. Len(code[j].inits)
    BY Zenon, <2>1, BeforeFacts DEF IterTypes
  <2>3. Root \notin faulty /\ ~Parsing /\ Len(code) = Len(imports[Root]) /\ Pending = {}
    BY <2>1 DEF PhaseInv, Parsing, Pending, Range
  <2>4. /\ Main \in Files /\ Root \notin Files /\ FileOf(Root) = Main /\ Root \in Ids /\ Files \subseteq Ids
        /\ \A g \in Files : FileOf(g) = g
        /\ \A g \in Files : program[g].imports \in Seq(Statements)
    BY Zenon, <2>1, FileFacts
  <2>5. importedModules \subseteq Done /\ importedModules = Through(code, Len(code)) /\ Done \subseteq Files
    BY Zenon, <2>1, ImportedModules DEF Done
  <2>6. FoundAll(program, imports, Root) /\ \A g \in Done : FoundAll(program, imports, g)
    BY Zenon, <2>1, <2>3 DEF ParseInv, FoundInv
  <2>7. ASSUME NEW id \in Ids, FoundAll(program, imports, id), FileOf(id) \in Files
        PROVE  Targets(FileOf(id)) = Mods(imports, id)
    <3> DEFINE s == program[FileOf(id)].imports
               t == imports[id]
    <3>1. s \in Seq(Statements) /\ t \in Seq(Seq(Files))
      BY Zenon, <2>1, <2>4, <2>7 DEF ParseTypes
    <3>2. Len(t) = Len(s) /\ \A j \in 1 .. Len(s) : t[j] = s[j].targets
      BY Zenon, <2>7 DEF FoundAll, Found
    <3>3. Targets(FileOf(id)) = UNION {Range(s[k].targets) : k \in DOMAIN s}
      BY Zenon DEF Targets
    <3>4. Mods(imports, id) = UNION {Range(t[k]) : k \in DOMAIN t}
      BY Zenon DEF Mods
    <3> HIDE DEF s, t
    <3>5. DOMAIN s = 1 .. Len(s) /\ DOMAIN t = DOMAIN s
      BY <3>1, <3>2
    <3> QED
      BY Zenon, <3>2, <3>3, <3>4, <3>5
  <2>8. Targets(Main) \subseteq importedModules
    <3>1. Targets(Main) = Mods(imports, Root)
      BY Zenon, <2>4, <2>6, <2>7
    <3>2. imports[Root] \in Seq(Seq(Files))
      BY Zenon, <2>1, <2>4 DEF ParseTypes
    <3>3. ASSUME NEW k \in DOMAIN imports[Root] PROVE Range(imports[Root][k]) \subseteq importedModules
      <4>1. k \in DOMAIN code
        BY <2>2, <2>3, <3>2
      <4>2. Range(imports[Root][k]) \subseteq Through(code, k)
        BY Zenon, <2>1, <2>3, <4>1 DEF OrderInv
      <4> QED
        BY <2>2, <4>1, <4>2 DEF Through, importedModules
    <3> QED
      BY Zenon, <3>1, <3>3 DEF Mods
  <2>9. ASSUME NEW g \in importedModules PROVE Targets(g) \subseteq importedModules
    <3>1. g \in Done /\ g \in Files /\ g \in Ids
      BY Zenon, <2>4, <2>5
    <3>2. Targets(g) = Mods(imports, g)
      BY Zenon, <2>4, <2>6, <2>7, <3>1
    <3>3. PICK j \in DOMAIN code : g \in Range(code[j].inits)
      BY Zenon DEF importedModules
    <3>4. PICK i \in DOMAIN code[j].inits : g = code[j].inits[i]
      BY Zenon, <3>3 DEF Range
    <3>5. Mods(imports, g) \subseteq Before(code, j, i) /\ Before(code, j, i) \subseteq Through(code, j)
      BY Zenon, <2>1, <2>2, <3>4, BeforeFacts DEF OrderInv
    <3>6. Through(code, j) \subseteq importedModules
      <4>1. 1 .. j \subseteq DOMAIN code
        BY <2>2
      <4> QED
        BY Zenon, <4>1 DEF Through, importedModules
    <3> QED
      BY Zenon, <3>2, <3>5, <3>6
  <2> DEFINE R == {Main} \cup importedModules
  <2>10. R \in SUBSET Files /\ Closed(R)
    BY Zenon, <2>4, <2>5, <2>8, <2>9 DEF Closed
  <2>11. f \in importedModules /\ f \in Files
    BY Zenon, <2>5, <2>10 DEF Needed, Reachable
  <2>12. /\ stmt = Len(code) + 1 /\ at = 1
         /\ \A g \in Files : inits[g] = IF g \in Before(code, stmt, at) THEN 1 ELSE 0
         /\ \A g \in importedModules : disposals[g] = 1
    BY <2>1, <2>2 DEF RunInv
  <2>13. Before(code, stmt, at) = importedModules
    BY Zenon, <2>2, <2>5, <2>12, BeforeFacts
  <2> QED
    BY Zenon, <2>11, <2>12, <2>13
<1> QED
  BY <1>1, OrderIsInvariant, PTL

=============================================================================
