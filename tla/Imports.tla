------------------------------- MODULE Imports -------------------------------
(***************************************************************************)
(* A program of several modules: the parser resolves the imports of a file *)
(* while it parses it (resolveModuleImport, one parser per file on the     *)
(* stack), the compiler compiles every module once and decides in which    *)
(* order the main program calls the module_init functions, and the program *)
(* runs them and, at its end, the module_dispose functions.                *)
(*                                                                         *)
(* A file is a sequence of import statements followed by its public        *)
(* declarations, which all refer to everything that is imported.           *)
(***************************************************************************)
EXTENDS Naturals, Sequences, Functions, TLC

CONSTANTS Files, Main,   \* files, and the one that is compiled
          Missing,       \* files that cannot be read
          Programs,      \* what is in the files: [Files -> [imports, decls]]
          Names,         \* names of declarations
          MaxTurns,      \* bound: turns of a loop around an import statement
          Nil            \* no declaration, and the default value of a node of the trie

ASSUME ProgramsAssumption ==
    /\ Main \in Files /\ "root" \notin Files
    /\ \A p \in Programs : \A f \in Files :
        p[f].imports \in Seq([targets : Seq(Files), names : Seq(Names), loop : BOOLEAN])

(* The module parsed first.  It is not in predefinedModules: its file may  *)
(* be parsed again when a module imports it.                               *)
Root == "root"

Ids == Files \cup {Root}

FileOf(id) == IF id = Root THEN Main ELSE id

VARIABLES program,
          predefined,   \* predefinedModules: [Files -> {"absent", "nil", "module"}]
          stack,        \* the parsers, innermost first: [id, pos, targets, got]
          modules,      \* [Ids -> [names, aliases, err]]: what is declared
          imports,      \* [Ids -> Seq(Seq(Files))]: the modules of the import statements
          faulty,       \* the modules with Ast.Faulty
          pc,           \* where the compiler or the program is, or how it ended
          todo,         \* modules that compileWithImportsRec is still called with
          compiled,     \* compiledMods
          code,         \* the import statements in ddp_main: [loop, inits]
          mods,         \* modules of the statement that are left to be iterated over
          frames,       \* the calls of iterateModuleImportsRec, innermost first: [id, rest]
          visited,
          stmt, turn, at,      \* the running program: import statement, turn, next call of it
          inits, disposals     \* [Files -> Nat]: calls of the module's functions

parsing == << predefined, stack, modules, imports, faulty >>
iterating == << code, mods, frames, visited >>
compiling == << todo, compiled, iterating >>
running == << stmt, turn, at, inits, disposals >>
vars == << program, parsing, pc, compiling, running >>

(* The elements of the sequences in s, one sequence after the other, and   *)
(* what the elements of s make of base, from the first one on.             *)
FlattenSeq(s) ==
    LET flat[k \in 0 .. Len(s)] == IF k = 0 THEN << >> ELSE flat[k - 1] \o s[k] IN flat[Len(s)]
FoldLeft(op(_, _), base, s) ==
    LET fold[k \in 0 .. Len(s)] == IF k = 0 THEN base ELSE op(fold[k - 1], s[k]) IN fold[Len(s)]

NewTrie == [nodes |-> {<< >>}, value |-> << >>]

NewModule == [names |-> << >>, aliases |-> NewTrie, err |-> FALSE]

NewParser(id) == [id |-> id, pos |-> 1, targets |-> << >>, got |-> << >>]

Init ==
    /\ program \in Programs
    /\ predefined = [f \in Files |-> "absent"]
    /\ stack = << NewParser(Root) >>
    /\ modules = [id \in Ids |-> NewModule]
    /\ imports = [id \in Ids |-> << >>] /\ faulty = {}
    /\ pc = "import"
    /\ todo = << >> /\ compiled = {} /\ code = << >>
    /\ mods = << >> /\ frames = << >> /\ visited = {}
    /\ stmt = 1 /\ turn = 0 /\ at = 1
    /\ inits = [f \in Files |-> 0] /\ disposals = [f \in Files |-> 0]

(***************************************************************************)
(* Parsing.                                                                *)
(***************************************************************************)
Parser == Head(stack)
File == program[FileOf(Parser.id)]
Statement == File.imports[Parser.pos]

(* The error handler of a parser calls the one of the parser that imports  *)
(* its file: an error makes all of them faulty.                            *)
Report == faulty' = faulty \cup {stack[k].id : k \in DOMAIN stack}

Goto(p) == stack' = << p >> \o Tail(stack)

(* resolveModuleImport: the files of the statement. *)
BeginImport ==
    /\ pc = "import" /\ Parser.pos <= Len(File.imports)
    /\ Goto([id |-> Parser.id, pos |-> Parser.pos, targets |-> Statement.targets, got |-> << >>])
    /\ pc' = "resolve"
    /\ UNCHANGED << program, predefined, modules, imports, faulty, compiling, running >>

(* "already add the name to the map to not import it infinetly" *)
Marked(f) == [predefined EXCEPT ![f] = "nil"]

(* What becomes of p after a file without and with a module. *)
SkipModule(p) == [id |-> p.id, pos |-> p.pos, targets |-> Tail(p.targets), got |-> p.got]
AppendModule(p) ==
    [id |-> p.id, pos |-> p.pos, targets |-> Tail(p.targets), got |-> Append(p.got, Head(p.targets))]

(* resolveSingleModule of a new file: a parser of its own for it; the mark *)
(* stays when it cannot be read.                                           *)
ParseNew ==
    /\ pc = "resolve" /\ Parser.targets # << >>
    /\ \E f \in {Head(Parser.targets)} :
        /\ predefined[f] = "absent"
        /\ predefined' = Marked(f)
        /\ \/ /\ f \in Missing
              /\ Report
              /\ Goto(SkipModule(Parser))
              /\ UNCHANGED pc
           \/ /\ f \notin Missing
              /\ stack' = << NewParser(f) >> \o stack
              /\ pc' = "import"
              /\ UNCHANGED faulty
    /\ UNCHANGED << program, modules, imports, compiling, running >>

(* Mutant: the error does not end resolveSingleModule. *)
CircularAgain == Report /\ Goto(Parser)

Circular == Report /\ Goto(SkipModule(Parser))

UseKnown ==
    /\ pc = "resolve" /\ Parser.targets # << >>
    /\ \/ predefined[Head(Parser.targets)] = "nil" /\ Circular
       \/ predefined[Head(Parser.targets)] = "module" /\ Goto(AppendModule(Parser)) /\ UNCHANGED faulty
    /\ UNCHANGED << program, predefined, modules, imports, pc, compiling, running >>

(* The declarations an import statement asks for, in the modules it got. *)
IterateImportedDecls(s, got) ==
    IF s.names = << >> THEN FlattenSeq([k \in DOMAIN got |-> program[got[k]].decls])
    ELSE [k \in DOMAIN s.names |->
            LET found == IF Len(got) = 1 THEN SelectSeq(program[got[1]].decls, LAMBDA d : d.name = s.names[k]) ELSE << >>
            IN  IF found = << >> THEN Nil ELSE found[1]]

(* The trie of aliases (alias_trie/trie.go): a node for every prefix of an *)
(* inserted key, with a value where a key ends.  Keys are sequences of     *)
(* tokens; the ordered map of a node's children is modelled by OrderedMap. *)
TrieInsert(t, key, value) ==
    [nodes |-> t.nodes \cup {SubSeq(key, 1, k) : k \in 0 .. Len(key)}, value |-> (key :> value) @@ t.value]

(* The value of a node without one is the default value. *)
TrieContains(t, key) ==
    << key \in t.nodes, IF key \in DOMAIN t.value THEN t.value[key] ELSE Nil >>

(* Mutant: a node without a value counts. *)
NodeExists(t, key) == TrieContains(t, key)[1]

aliasExists(t, key) == TrieContains(t, key)[1] /\ TrieContains(t, key)[2] # Nil

(* addAliases; << >> is a declaration without an alias. *)
addAlias(m, d) ==
    IF d.alias = << >> THEN m
    ELSE IF aliasExists(m.aliases, d.alias) THEN [m EXCEPT !.err = TRUE]
    ELSE [m EXCEPT !.aliases = TrieInsert(@, d.alias, d.name)]

(* The resolver's InsertDecl. *)
insertDecl(m, d) ==
    IF d = Nil \/ d.name \in DOMAIN m.names THEN [m EXCEPT !.err = TRUE]
    ELSE [m EXCEPT !.names = (d.name :> d) @@ @]

(* First all aliases of declarations whose names are new, then all names. *)
Declared(m, decls) ==
    FoldLeft(insertDecl, FoldLeft(addAlias, m, SelectSeq(decls, LAMBDA d : d # Nil /\ d.name \notin DOMAIN m.names)), decls)

(* The declarations of a file itself. *)
DeclaredOneByOne(m, decls) == FoldLeft(LAMBDA n, d : Declared(n, << d >>), m, decls)

(* In a loop the names have a scope of their own, the aliases have not. *)
DeclaredIn(loop, m, decls) ==
    IF ~loop THEN Declared(m, decls)
    ELSE [Declared([m EXCEPT !.names = << >>], SelectSeq(decls, LAMBDA d : d = Nil \/ d.name \notin DOMAIN m.names))
            EXCEPT !.names = m.names]

(* m is what became of the module that is parsed. *)
Changed(m) ==
    /\ modules' = [modules EXCEPT ![Parser.id] = m]
    /\ IF m.err THEN Report ELSE UNCHANGED faulty

FinishImport ==
    /\ pc = "resolve" /\ Parser.targets = << >>
    /\ imports' = [imports EXCEPT ![Parser.id] = Append(@, Parser.got)]
    /\ Changed(IF Parser.got = << >> THEN modules[Parser.id]
               ELSE DeclaredIn(Statement.loop, modules[Parser.id], IterateImportedDecls(Statement, Parser.got)))
    /\ Goto([id |-> Parser.id, pos |-> Parser.pos + 1, targets |-> << >>, got |-> << >>])
    /\ pc' = "import"
    /\ UNCHANGED << program, predefined, compiling, running >>

(* The rest of the file; then Parse returns to the parser that called it,  *)
(* or Compile goes on.                                                     *)
EndModule ==
    /\ pc = "import" /\ Parser.pos > Len(File.imports)
    /\ Changed(DeclaredOneByOne(modules[Parser.id], File.decls))
    /\ \/ /\ Len(stack) > 1
          /\ predefined' = [predefined EXCEPT ![Parser.id] = "module"]
          /\ stack' = << AppendModule(stack[2]) >> \o Tail(Tail(stack))
          /\ pc' = "resolve" /\ UNCHANGED todo
       \/ /\ Len(stack) = 1
          /\ stack' = << >>
          /\ pc' = "compile" /\ todo' = << Root >> /\ UNCHANGED predefined
    /\ UNCHANGED << program, imports, compiled, iterating, running >>

Parse == BeginImport \/ ParseNew \/ UseKnown \/ FinishImport \/ EndModule

(***************************************************************************)
(* Compiling: compileWithImportsRec and, in the main module, the calls of  *)
(* module_init that VisitImportStmt puts where the import statements are.  *)
(***************************************************************************)
NoModule(got) == got = << >>

(* One call of compileWithImportsRec.  Those for the imports come next.    *)
CompileModule ==
    /\ pc = "compile" /\ todo # << >>
    /\ \E id \in {Head(todo)} :
        \/ /\ id \in faulty
           /\ pc' = "errors" /\ UNCHANGED << todo, compiled >>
        \/ /\ id \notin faulty /\ FileOf(id) \in compiled
           /\ todo' = Tail(todo) /\ UNCHANGED << pc, compiled >>
        \/ /\ id \notin faulty /\ FileOf(id) \notin compiled
           /\ \E k \in DOMAIN imports[id] : NoModule(imports[id][k])
           /\ pc' = "panic" /\ UNCHANGED << todo, compiled >>
        \/ /\ id \notin faulty /\ FileOf(id) \notin compiled
           /\ \A k \in DOMAIN imports[id] : ~NoModule(imports[id][k])
           /\ compiled' = compiled \cup {FileOf(id)}
           /\ todo' = FlattenSeq(imports[id]) \o Tail(todo)
           /\ pc' = IF id = Root THEN "main" ELSE pc
    /\ UNCHANGED << program, parsing, iterating, running >>

(* VisitImportStmt of the next statement in ddp_main. *)
VisitImportStmt ==
    /\ pc = "main" /\ frames = << >> /\ mods = << >>
    /\ \/ \E k \in {Len(code) + 1} :
            /\ k <= Len(imports[Root])
            /\ code' = Append(code, [loop |-> program[Main].imports[k].loop, inits |-> << >>])
            /\ mods' = imports[Root][k]
            /\ UNCHANGED pc
       \/ /\ Len(code) = Len(imports[Root])
          /\ pc' = "compile" /\ UNCHANGED << code, mods >>
    /\ UNCHANGED << program, parsing, todo, compiled, frames, visited, running >>

(* Mutant: the modules that a module imports are left to itself. *)
CallAlone(id) == [id |-> id, rest |-> << >>]

CallRec(id) == [id |-> id, rest |-> imports[id]]

(* IterateModuleImports of the next module, with an empty map. *)
IterateModuleImports ==
    /\ pc = "main" /\ frames = << >> /\ mods # << >>
    /\ frames' = << CallRec(Head(mods)) >>
    /\ visited' = {Head(mods)}
    /\ mods' = Tail(mods)
    /\ UNCHANGED << program, parsing, pc, todo, compiled, code, running >>

(* The loops of iterateModuleImportsRec over the imports, and over the     *)
(* modules of each.                                                        *)
IterateImport ==
    /\ pc = "main" /\ frames # << >>
    /\ \E f \in {Head(frames)} :
        /\ f.rest # << >>
        /\ \/ /\ Head(f.rest) = << >>
              /\ frames' = << [id |-> f.id, rest |-> Tail(f.rest)] >> \o Tail(frames)
              /\ UNCHANGED visited
           \/ /\ Head(f.rest) # << >>
              /\ \E mod \in {Head(Head(f.rest))},
                    after \in {<< [id |-> f.id, rest |-> << Tail(Head(f.rest)) >> \o Tail(f.rest)] >> \o Tail(frames)} :
                    /\ frames' = IF mod \in visited THEN after ELSE << CallRec(mod) >> \o after
                    /\ visited' = visited \cup {mod}
    /\ UNCHANGED << program, parsing, pc, todo, compiled, code, mods, running >>

importedModules == UNION {Range(code[k].inits) : k \in DOMAIN code}

(* Mutant: modules that other statements import, too, are initialized by   *)
(* each of them.                                                           *)
InitAgain(id) == Append(code[Len(code)].inits, id)

(* "only call the module init func once per module" *)
InitOnce(id) ==
    IF id \in importedModules THEN code[Len(code)].inits ELSE Append(code[Len(code)].inits, id)

(* fun(module), at the end of iterateModuleImportsRec. *)
IterateEnd ==
    /\ pc = "main" /\ frames # << >> /\ Head(frames).rest = << >>
    /\ code' = [code EXCEPT ![Len(code)] = [loop |-> @.loop, inits |-> InitOnce(Head(frames).id)]]
    /\ frames' = Tail(frames)
    /\ UNCHANGED << program, parsing, pc, todo, compiled, mods, visited, running >>

Iterate == IterateModuleImports \/ IterateImport \/ IterateEnd

StartProgram ==
    /\ pc = "compile" /\ todo = << >>
    /\ pc' = "run"
    /\ UNCHANGED << program, parsing, compiling, running >>

(***************************************************************************)
(* The program.                                                            *)
(***************************************************************************)
(* The calls of the import statement that have been reached. *)
InCalls == stmt <= Len(code) /\ turn > 0 /\ at <= Len(code[stmt].inits)

(* An import statement in a loop is reached several times or never. *)
EnterImport ==
    /\ pc = "run" /\ stmt <= Len(code) /\ ~InCalls
    /\ \/ /\ turn < IF code[stmt].loop THEN MaxTurns ELSE 1
          /\ turn' = turn + 1 /\ at' = 1 /\ UNCHANGED stmt
       \/ /\ code[stmt].loop \/ turn = 1
          /\ stmt' = stmt + 1 /\ turn' = 0 /\ at' = 1
    /\ UNCHANGED << program, parsing, pc, compiling, inits, disposals >>

CallInit ==
    /\ pc = "run" /\ InCalls
    /\ inits' = [inits EXCEPT ![code[stmt].inits[at]] = @ + 1]
    /\ at' = at + 1
    /\ UNCHANGED << program, parsing, pc, compiling, stmt, turn, disposals >>

(* The dispose calls are in the order of a Go map, which is any order. *)
CallDispose ==
    /\ pc = "run" /\ stmt > Len(code)
    /\ \/ /\ \E id \in importedModules :
                disposals[id] = 0 /\ disposals' = [disposals EXCEPT ![id] = 1]
          /\ UNCHANGED pc
       \/ /\ \A id \in importedModules : disposals[id] = 1
          /\ pc' = "ended" /\ UNCHANGED disposals
    /\ UNCHANGED << program, parsing, compiling, stmt, turn, at, inits >>

Next ==
    \/ Parse
    \/ CompileModule \/ VisitImportStmt \/ Iterate \/ StartProgram
    \/ EnterImport \/ CallInit \/ CallDispose

Spec == Init /\ [][Next]_vars

(* The compiler and the program are sequential and are not stopped. *)
FairSpec == Spec /\ WF_vars(Next)

(***************************************************************************)
(* Properties.                                                             *)
(***************************************************************************)
Targets(f) == UNION {Range(program[f].imports[k].targets) : k \in DOMAIN program[f].imports}

Closed(S) == \A f \in S \ Missing : Targets(f) \subseteq S

(* The files that those in S import, directly or not, and those in S. *)
Reachable(S) ==
    LET closed == {R \in SUBSET Files : Closed(R)} IN {f \in Files : \A R \in closed : S \subseteq R => f \in R}

Needed == Reachable({Main})

(* Everything that is declared in file f or by its import statements. *)
AllDecls(f) ==
    FlattenSeq([k \in DOMAIN program[f].imports |->
        IterateImportedDecls(program[f].imports[k], program[f].imports[k].targets)]) \o program[f].decls

(* What a program of several modules has to satisfy. *)
Correct ==
    /\ Needed \cap Missing = {}
    /\ \A f \in Needed : f \notin Reachable(Targets(f))
    /\ \A f \in Needed : \E all \in {AllDecls(f)} :
        /\ Nil \notin Range(all)
        /\ \A i, j \in DOMAIN all : i # j =>
            all[i].name # all[j].name /\ (all[i].alias # all[j].alias \/ all[i].alias = << >>)

(* resolveModuleImport and the resolver find an error in a program exactly *)
(* when a file is missing, files import each other, a name is not there,   *)
(* or a module would have two declarations of one name or alias; wherever  *)
(* in the graph of modules that is and however a module is reached, the    *)
(* main module is then faulty and nothing is compiled.  VisitImportStmt    *)
(* meets an import without a module, which makes the compiler panic, only  *)
(* where a directory without modules is imported.                          *)
AcceptsCorrect ==
    /\ pc = "compile" /\ compiled = {} => (Root \in faulty <=> ~Correct)
    /\ pc \in {"run", "ended"} => Correct /\ compiled = Needed
    /\ pc = "panic" => \E f \in Needed : \E k \in DOMAIN program[f].imports : program[f].imports[k].targets = << >>

(* "the errors in the ddp-code were already reported by the                *)
(* parser/typechecker/resolver": the compiler does not panic.  Refuted     *)
(* (README, Findings).                                                     *)
NoPanic == pc # "panic"

Imported(id) == UNION {Range(imports[id][k]) : k \in DOMAIN imports[id]}

(* When a module_init function runs, and after an import statement of the  *)
(* main program, the global variables of all imported modules are          *)
(* initialized and none has been disposed of.                              *)
InitializedBeforeUse ==
    pc = "run" =>
        /\ InCalls => \A id \in Imported(code[stmt].inits[at]) : inits[id] > 0 /\ disposals[id] = 0
        /\ \A k \in 1 .. stmt - 1 : \A id \in Range(imports[Root][k]) : inits[id] > 0

(* "only call the module init func once per module and also initialize the *)
(* modules that this module imports": at the end of the program every      *)
(* module has been initialized once and disposed of once.                  *)
InitAndDisposeOnce ==
    pc = "ended" => \A f \in Needed \ {Main} : inits[f] = 1 /\ disposals[f] = 1

(* Compilation and program end: imports that go round in circles do not    *)
(* keep the parser busy.                                                   *)
Ends == <>(pc \in {"errors", "panic", "ended"})

(* "Zwei Module dürfen sich nicht gegenseitig einbinden": that is reported *)
(* only of files that do.  Refuted (README, Findings).                     *)
CircularMeansCycle ==
    [][UseKnown /\ predefined[Head(Parser.targets)] = "nil" =>
        Head(Parser.targets) \in Reachable(Targets(Head(Parser.targets)) \ Missing)]_vars
=============================================================================
