# Specifications of the DDP compiler

TLA+ models of parts of Kompilierer, the compiler of the German programming
language DDP: which parts, how they correspond to the source, what TLC checks on
small instances, and what TLAPS proves for every instance.

## 1. The system

| Part | Source | What it does |
|---|---|---|
| scanner, tokens | `src/scanner`, `src/token` | text to tokens; strict, alias and normal modes; indentation |
| parser | `src/parser` | recursive descent with panic mode; function calls are found by *alias* |
| alias trie, ordered map | `src/parser/alias_trie`, `src/parser/ordered_map` | aliases by their tokens; children in a sorted slice |
| resolver, typechecker | `src/parser/resolver`, `src/parser/typechecker` | symbol tables, types, run on each node as it is parsed |
| AST, visitors | `src/ast` | nodes, symbol tables, modules and their import order, metadata |
| annotators | `src/ast/annotators` | passes over a parsed module; the only one finds constant parameters |
| code generator | `src/compiler` | AST to LLVM IR; scopes, temporaries, ownership of values |
| runtime | `lib/runtime` | deep copies, frees, concatenation, UTF-8, program start |
| standard library | `lib/stdlib` | C functions behind the Duden modules: lists, running programs |
| driver, update, setup | `cmd` | builds, links, runs programs; updates an installation |

Paths are relative to the repository. A program is parsed module by module; an
import statement parses the imported file in the middle of the importing one,
and each module is parsed once. Resolver and typechecker run on each statement
when it is parsed. The parser inserts the aliases of every
function and struct into a trie whose nodes keep their children in an *ordered
map*. A parsed module is annotated: the *constant parameter annotator* attaches to
each function which of its parameters no call can change. The *code generator*
walks the AST. DDP has no garbage collector and no reference counts: a value of
a non-primitive type (Text, Liste, Kombination, Variable) owns its memory, and
the compiler decides where it is copied, moved and freed. With `-O2` parameters
that are annotated as constant are passed without a copy, so the annotator and
the code generator have to agree on who owns them. Typechecker and code
generator each compute the type of every expression. The runtime works on the
memory of texts, the code emitted for each list type on that of lists, and the
standard library on both. `ddp_main` calls the init function of every imported
module at its import and the dispose functions at the end. `kddp update` replaces
its own binary and lets the new one replace the libraries.

The compiler is sequential; concurrency is met where a DDP program runs another
program (`exec.c`) and where `kddp update` starts its successor. What is hard to
test otherwise are long sequences of calls, the order in which things are
visited, recovery from errors at every position, and the combinations of
constructs that decide who frees a value.

## 2. Modules

| Module | Models |
|---|---|
| `MapADT` | what a map promises: Set, Get, Delete, each in one step |
| `OrderedMap` | `ordered_map.go`; Set, Get, Delete, one iteration of `binarySearch` per step; what it assumes of the comparison functions |
| `AliasToken` | `tokenEqual` and `tokenLess` of `parser/util.go` |
| `ConstFuncParam` | `const_func_param.go` and the order in which `helper_visitor.go` calls it |
| `DDPTypes` | `ddptypes`: the types, their predicates, generic unification |
| `Typechecker`, `Overloads` | types of expressions and statements; insertion and choice of operator overloads |
| `IrTyping` | the IR type and the conversions `compiler.go` emits for the same nodes |
| `Typing` | the two side by side on a stack of operands |
| `ParserState` | tokens, scopes, errors, panic mode: the state of a parser |
| `TypeParser`, `ExprParser`, `StmtParser`, `DeclParser` | `type_parsing.go`; `expressions.go`, `alias.go`; `statements.go`, `resolver.go`; `declarations.go`, `parser.go` |
| `ParserReference` | the reference: the text of an AST and the static rules it obeys |
| `Parser` | the parser run on a program, and its properties |
| `Imports` | `resolveModuleImport`, `trie.go`, `compileWithImports`, `IterateModuleImports`, the calls of init and dispose functions |
| `DDPAst` | the AST nodes that `CodeGen` compiles |
| `CodeGen` | `compiler.go`, `scope.go`: the emitted instructions that concern ownership |
| `Machine` | a compiled program while it runs: stack slots and the memory they own |
| `Utf8` | `utf8.c` |
| `RuntimeMemory` | `ddp_reallocate` over a heap of blocks with sizes; any other access sets `ok` to FALSE |
| `TextADT`, `RuntimeText` | texts as sequences of characters; `operators.c` and `ddptypes.c` on bytes |
| `ListADT`, `RuntimeList` | lists as sequences; the functions of `list_types.go` and `lists.c` on arrays |
| `SubProcess` | `exec.c`, both systems, and the program it runs |
| `Update` | `update_cmd.go`, `archive_reader.go`: the command and its subprocess |
| `OrderedMapProofs`, `ConstFuncParamProofs`, `UpdateProofs`, `SubProcessProofs`, `ImportsProofs`, `TypingProofs` | theorems |
| `OverloadsProofs`, `OperatorProofs` | what `TypingProofs` rests on: lemmas about the functions of `ddptypes` and the slice of overloads, and about each operator of `Typechecker` and `IrTyping` |
| `MC...` | instances for TLC; `SubProcess` and its configuration need none |

**OrderedMap.** `data` is the slice, with a record for each key and its value;
`low` and `high` are the locals of `binarySearch` (indices of pairs where the code
has slice indices). A method is entered by `Call`, the `Probe...` actions are the
branches of the loop body, and the last action is what the method does with the
result. `SetNew` is the linear scan of `Set` as one step: the insert position is
the first entry with a greater key. `eq` and `less` are parameters, as in Go.

**ConstFuncParam.** A program is the sequence of nodes the annotator reacts to.
One action per visitor method; `Skip` is `ShouldVisit` and the missing
`VisitFuncDef`. `isConst` holds the attached metadata. `Mutated` is the
reference: the least set of parameters closed under assignments and reference
passing, where an operator with an overload is a call of its function, as the code
generator compiles it. The annotator only visits the operands of such an operator
(`Skip`). It also withdraws the flag of a variable passed by value to a parameter that is
not constant; this is conservative.

**CodeGen and Machine.** `CodeGen` is the visitor as a recursive operator on a
record `c`, the compiler's state: blocks, current block, chain of scopes with
variables and temporaries, and `latestReturn`, `latestReturnType` and
`latestIsTemp`. It yields, for every function, its blocks of free, copy, move
and similar instructions. The terminator of a block is kept apart from its
instructions, as in llir: what is emitted after `NewRet` still runs before the
return, which the compiler relies on in `VisitReturnStmt`. A failing
`claimTemporary` (a panic in Go) sets `ok` to FALSE. `Machine` runs the result: a
slot is undefined, empty, or holds the number of the memory it owns. A free does
not reset the value, a copy onto itself does nothing, and concatenation takes the
buffer of one operand over, all as in the runtime. Conditions are not modelled:
a branch takes either way.

**Typing.** `stack` holds, for each operand, the type the typechecker gives it and
the IR type and location the code generator has for it. An action is one visitor
pair: both compute their result from the operands, and `latest` records whether
the code generator ended with an internal error, whether the IR value has the
representation of its type, and which conversion was emitted. Only nodes that
the typechecker accepts are compiled. Overloads are declared before. A type is the
sequence of its constructors; the names of type definitions and Kombinationen are
constants, and `GetUnderlying`, `TrueUnderlying`, `GetNestedListElementType` and
the unification of type parameters are recursive functions over types, as in the code.

**Parser.** The recursive descent is a machine: `todo` is the stack of what is
left to do (the Go call stack), `nodes` the values returned so far, `parser` the
fields of the Go struct. One step is one item: a parsing function up to its
next call. Backtracking (`expressionOrErr`, the candidates of an alias, generic
instantiation with its own parser) is a saved parser on the stack. A token is a
word; the words of a name, a literal and a type differ, their text does not matter.
A nil dereference or a failing type assertion sets `crashed`. A type alias is known by its
name; `WithoutAlias` is `GetUnderlying`. The resolver is
called where `checkStatement` calls it. Types other than those of names are not
checked by this model: that is `Typing`.

**Imports.** A file is its import statements and its public declarations, each with
a name and at most one alias. `stack` holds the parsers that are active,
`predefined` the table of modules with nil for a file that is being parsed or
failed. After the main file, `CompileModule` and `StartProgram` follow
`compileWithImports`, and then the program runs `ddp_main`: import statements
call init functions in the order of `IterateModuleImports`, the end calls the
dispose functions in any order, as the range over a Go map does.

**RuntimeText and RuntimeList.** `slots` are the structs of a program's variables.
`Call` is one operation of the compiled program with all runtime calls it makes,
`Continue` takes the answer. `call` is the label of the last operation, by which
the refinement compares operation and answer with those of the abstract
specification; `texts` and `lists` are the contents read back from memory. A failing
bounds check is a Laufzeitfehler, after which nothing runs. `Renumbered` gives
blocks of lists the first free addresses, which are not observable. `Narrowing` and
`Pairs` switch on the two operations of findings below; `InvalidIsError` selects what
`ListADT` promises of a deletion with an invalid index, see the findings as well.

**SubProcess.** Parent and child step independently; a pipe is a bounded buffer with
the set of processes that hold each end. The child is a script of reads and
writes that is chosen at the start, or a missing program; on Linux a signal can end it at any
step. Every system call whose result the code tests can fail: the pipes, making a handle inheritable,
fork, write and wait. On Windows the parent reads before it waits, on Linux it waits first.

**Update.** The disk is a state for every file. Each step of the command and of the
subprocess is one action that succeeds or fails, `Kill` and `KillSub` end either
process between steps, and a killed extraction or download leaves a partial
file. The user can start the command again at any time it does not run.

## 3. Runs

| Run | Result | Shows |
|---|---|---|
| `ordered_map` | pass | keys with distinct type names: the search is correct, the slice implements `MapADT`, calls return |
| `const_func_param` | pass | `SoundInOrder`: no parameter annotated constant is changed |
| `ownership` | pass | expressions of depth two in every use, jumps out of branches and one or two loops, at -O1 and -O2 |
| `typing` | pass | typechecker and code generator agree outside `KnownDivergence`; the best overload is chosen |
| `parser` | pass | statements, declarations and types, intact, cut off and damaged, and all pairs of operators |
| `imports` | pass | graphs of imports among four files and a missing one |
| `runtime_text` | pass | every sequence of calls on three texts; implements `TextADT` |
| `runtime_list` | pass | every sequence of statements on two lists; implements `ListADT` |
| `subprocess` | pass | every interleaving of a call of a program with that program, on Linux and on Windows |
| `update` | pass | failures, kills and repeated runs of `kddp update` |
| `for_continue` | violation of `FreesOwned` | see findings |
| `parser_count` | violation of `AcceptsCorrect` | see findings |

**What is checked.**

* *Ownership.* `FreesOwned`: nothing is freed twice or before it is initialised.
  `ReadsLive`: nothing is read after it is freed. `NoLeak`: memory that is not freed has
  an owner on the stack, so nothing is left at the end. `NoPanic`: the compiler
  claims only temporaries of the current scope.
* *Typing.* `NoInternalError`: what the typechecker accepts is compiled without an
  internal error. `TypesAgree`, `WellTypedIr`: both sides compute the same type, and
  operands have the IR type the instruction needs. `NumbersKeepTheirValue`: no
  conversion takes an unsigned Byte for a signed number. `VariablesRememberType`: a value
  taken out of a Variable has the vtable it was stored with. `BestOverload`:
  `findOverload`, which stops at the first match, returns one no other is better than.
* *Parser.* `AcceptsCorrect` (intact programs have no errors), `Understood` (an
  accepted AST prints to the given tokens, nested by precedence), `WellFormed` (an
  accepted AST obeys the scoping rules), `ErrorsReported` (no bad node without an error),
  `Balanced` (scopes, loop depth and current function are restored on all paths),
  `NoCrash` (no panic, but for the one at the end of the tokens in the findings), `Ends`. For whole expressions `Understood` compares with
  `ParserReference`, which has a table of forms instead of parsing functions.
* *Imports.* `AcceptsCorrect`: exactly the correct programs are compiled, where
  correct is stated on the graph of files. `InitializedBeforeUse`,
  `InitAndDisposeOnce` and `Ends`.
* *Texts and lists.* `MemorySafe`: no access outside a block or through a freed
  pointer. `OwnedOnce`: every block and element has one owner, and the owner of an array
  knows its size. `CapIsExact`: what concatenation and comparison rely on.
  `ImplementsTexts`, `ImplementsLists`: the contents and answers are those of sequences.
* *Programs run by programs.* `OutputComplete`, `NothingLeft` (a call that succeeds, and one on
  Windows whose pipes can be inherited, leaves no descriptor and no child), `ErrorsOnly` (-1 means
  that the program was not started, did not get its input, was not waited for or was ended by a
  signal), `MemorySafe`, and `ReturnsIfFits`: the call returns whenever what the child writes
  fits where nobody reads.
* *Update.* `SuccessMeansInstalled`, `LibraryFollowsBinary`, `CommandEnds`.

**Bounds.**

* `ordered_map`: six keys, one for each branch of `tokenLess` and for both flags of a
  parameter, two of them literals of one type, two values; the search takes up to three probes.
* `const_func_param`: two functions with two parameters and an extern one, one
  statement in `f`, up to two in `g`, each a call, an overloaded operator or an assignment;
  chains of calls have length two.
* `ownership`: `MaxBranch(p)` bounds how often the first target of a conditional
  branch is taken in program `p`, 2 for expressions and 3 for control flow, so a loop
  body runs again after an iteration that did not leave it.
* `typing`: 13 types, with aliases and definitions of types, a list and a struct; up to
  `MaxSteps` = 4 operations in a statement, `MaxOverloads` = 3 of 7 overloads in any order.
* `parser`: 16 programs that use every production, each with every token deleted, doubled,
  and every name replaced, and each cut off after every token; five programs with statements in the wrong place; 22 operators
  with each other one as each operand, with and without parentheses. Names of type parameters are not damaged.
* `imports`: `MaxTurns` = 2 iterations of a loop around an import; the main file has up to two import
  statements (a file, a directory, one name, a missing file, an empty directory), the others up to one.
* `runtime_text`: characters of one, two and three bytes; `MaxLen` = 3 characters in
  all texts together, `MaxBlocks` = 5; indices from 0 to one past the bound.
* `runtime_list`: `MaxLen` = 4 elements, literals of up to `MaxLiteral` = 2; the
  initial capacity is 2 instead of 8 (`BaseCapacity`), so four elements pass through
  every case of both growth rules. Element values only differ by name, hence the symmetry.
* `subprocess`: pipes and the read buffer hold two bytes, the child makes up to
  `MaxScript` = 5 reads and writes, the input has up to `MaxInput` = 3 bytes: less
  than, exactly and more than a pipe holds.
* `update`: one library file that the release no longer has, one added to the Duden,
  the three compiled ones, three versions.

**Inputs the passing runs leave out.** Each is a finding or described there.

* `ownership`: a header or condition of a loop with temporaries that outlive an
  iteration; a return directly in the body of a loop over a list; a block in a block that
  ends in a return; an assignment of a variable to itself; a constant parameter aliased
  with a reference that is assigned; a conditional expression over primitive values
  one of whose operands leaves `latestIsTemp` changed.
* `const_func_param`: parameters that an overloaded operator gets by reference, next to forward
  declarations, generic functions and recursion (`InOrder`).
* `typing`: the operations of `KnownDivergence`, while `Agreed` is TRUE.
* `parser`: counted statements in generic functions, alias declarations, a function
  definition as a branch, a negation before an operand that is also the end of
  a negated alias, which has two readings; a list of an aliased type given as a count and a value, an alias
  for a type, a forward declared function that returns a Wahrheitswert conditionally; a generic function
  that calls itself with other types.
* `imports`: import statements in a loop, while `Nested` is FALSE.
* `runtime_text`: replacements that shorten the bytes, while `Narrowing` is FALSE;
  invalid code points and NUL characters; texts of length zero that own memory, which no operation here makes.
* `runtime_list`: concatenations of two elements that own memory, while `Pairs` is
  FALSE; a negative count in a literal.
* `runtime_list` compares deletions with an invalid index with what the code does, while
  `InvalidIsError` is FALSE.
* `subprocess`: exit code 127; on Windows a text for the output that is not empty,
  while `WindowsReuse` is FALSE.

**Fairness.** `CallReturns`: weak fairness of the steps inside a method, sequential Go
code that nothing can block; none about whether a method is called. `Ends` of the
parser: it either stops or goes on taking steps, which is what a running process does.
`Ends` of imports: weak fairness of the next step, likewise. `ReturnsIfFits`: both
processes are scheduled; a blocked one is not enabled. The child is a finite
script: programs that do not end are left out. A system call that fails is a step of the
parent like any other, but `wait` need not fail and no signal need come. `CommandEnds`: both processes go on unless killed; nobody
has to start the command, and being killed is never required.

**Deadlock** is checked where a stop would be a fault: in `Machine` a block without
a terminator, in the parser an item no action handles. It is off where the
system stops for good: after a Laufzeitfehler, when a call has returned, when
a program has ended, when the operands of a statement are used up. There the liveness properties
say that it does not stop earlier.

## 4. Proofs

`OrderedMapProofs`, for every set of keys, every number of entries and every
comparison that is a strict total order with `eq` as equality
(`EqAssumption`, `LessAssumption`, `NoValueAssumption`; TLC evaluates them in `ordered_map`). The inductive
invariant is `TypeOK /\ Sorted /\ Window /\ SearchCorrect`. `Sorted` alone is not
inductive: that an insertion does not duplicate a key needs the answer of the
search, and that answer needs `Window`, the loop invariant that all keys left of
the window are smaller and all right of it greater. `Refinement` shows that the
steps of a search stutter in `MapADT` and the last step of each call is the
abstract one.

`ConstFuncParamProofs`, for every set of functions, parameters and well formed
programs. The invariant has four parts besides types: the tracked parameters are
those of `currentDecl` and agree with the metadata; `currentDecl` is the last function
declared; extern functions have no constant parameter; and, in programs in order, every visited node respects
the current flags (`VisitedRespected`). The last one is kept because a flag is only
withdrawn from the function being visited, and no visited call names it, which is
where forward declarations and recursion break the argument. An overloaded operator withdraws
no flag, so programs in order pass it no parameter by reference. At the end
the complement of `isConst` is closed in the sense of `Closed`, so it contains
the least closed set: `AnnotationSound`. `AnnotationShrinks` follows from the same
invariant.

`UpdateProofs`, for every set of library files, every release and every two versions
(`FilesAssumption`, `VersionsAssumption`; TLC evaluates them in `update`). The
invariant is `TypeOK /\ OneUpdate /\ LibraryFollowsBinary /\ (~err => Progress) /\ Reported`.
`SuccessMeansInstalled` alone says nothing about the steps before the message:
`Progress` states what the disk holds at each step of the subprocess as long as no
error was recorded, so that at its end, without an error, everything is installed.
`Reported` keeps the message true afterwards: the binary is then the new one, no
version is newer than itself (`NotNewerThanItself`), and so no second replacement
begins (`OneUpdate`). One lemma each for the command, the subprocess and the
interruptions. The results are `Success`, `BinaryFirst` and `TypeCorrect`.

`SubProcessProofs`, for every size of pipes, read buffer, script and input
(`SizesAssumption`; TLC evaluates it in `subprocess`), every interleaving of parent and
child, and both systems. `NothingIsLeft` and `OnlyErrorsAreReported` need `EndsInv`: who
holds which end of which pipe at each step of `execute_process`. It is needed because
`NothingLeft` speaks of the return only, while the ends are closed by both processes at
different times. On Linux it also says that the child is not reaped before `wait` returns. `ReadsAreSafe` and `OutputIsComplete` need `IInv`, which adds three
parts: `Owned` (the allocated blocks are exactly those of the two texts, each with its
size in `cap`), `Fresh` (on Windows a text to be read has no pointer), and
`Collected`, where what the child wrote is at each step: in the pipe, partly in the text, or,
followed by the zero byte, in the text alone. They assume `~WindowsReuse`, and
`OnlyErrorsAreReported` that no program exits with 127; the findings show that without these
assumptions the properties fail. Only memory for the two texts and the block that
replaces one is assumed (`MaxBlocks >= 3`).

`ImportsProofs`, for all files and everything they can import (`ProgramsAssumption`; TLC evaluates
it in `imports`), where no import statement of the main file is in a loop (`NoLoops`; the findings
show that `InitAndDisposeOnce` fails otherwise). The results are `InitializesBeforeUse` and
`InitializesAndDisposesOnce`. Both speak of the running program, but why they hold was decided
by the parser: a file gets into `predefined` only after all its imports, so the graph
of parsed modules has no cycles (`GraphInv`: every set of modules has one that
imports none of the set), whatever errors there are. `StackInv` says that each parser waits for the file of the
next one, `FoundInv` that without an error no target of an import statement is
lost. `IterInv` is the invariant of the depth-first search: each call waits for a module that it
imports, and what it has passed is initialized. A module that was visited but is not
initialized would be one of the waiting calls, which would make a cycle (`NoCycle`). It keeps `OrderInv`:
a module comes once and after its imports, in the order of all statements together. `RunInv`
counts the calls up to the place where the program is. At the end the initialized modules are
closed under imports, so they contain all that the main file needs.

`TypingProofs`, for every set of type definitions and Kombinationen, all types of fields
and variables, every set of overloads and expressions of every depth
(`NamesAssumption`, `TypesAssumption`, `DeclsAssumption`, `OverloadsAssumption`; TLC evaluates
them in `typing`): a type soundness theorem for the translation to IR.

* `OverloadsAreBest`: `BestOverload`. The invariant `OverloadsInv` says that the slice of every
  operator is sorted by fewer generic and then more reference parameters. It is kept by
  `InsertKeepsSorted` of `OverloadsProofs`, which rests on what the binary search returns
  (`BinarySearchSplits`); in a sorted slice the first match, which `findOverload` returns,
  is a best one (`FindReturnsFirst`).
* `AcceptedIsCompiled`, `TypesAlwaysAgree`, `IrIsWellTyped`, `ConversionsAreFaithful` and
  `VariablesKeepTheirType`, while the operations of `KnownDivergence` are left out
  (`Agreed`). First, in `OperatorProofs`, for each operator, that typechecker and code generator agree on it
  whenever their operands agree (`UnaryAgrees`, `BinaryAgrees`, `TernaryAgrees`,
  `CastAgrees`, `StoresAreRight`, `LoopsAreRight`, ...); then one lemma per action shows that it
  keeps `SoundInv`. No property alone is inductive: that the next operation is compiled
  without an error needs that the IR type of each operand is that of its type, that a
  reference leads to storage of this type, and that a Variable has the vtable of what is
  in it (`StackInv`), and that overloads are those declared for the operator
  (`DeclsInv`), since their result type is an operand of the next one. `UnifyBinds` shows that a type parameter
  that is returned has been bound to a type that a variable can have.

`OverloadsProofs`: the functions of `ddptypes` follow a type through aliases, definitions and
lists. That their recursive definitions have a solution is proved by building one from
those for shorter types (`RecursiveFunction`), and what they compute by a shortest
counterexample (`LeastNumber`, `MeasureInduction`). `GetUnderlying` never returns an
alias, not even as the element type of a list, and leaves its own results alone (`UnderlyingFacts`,
`UnderlyingOfElement`); `TrueUnderlying` also removes the definitions around a type
(`TrueUnderlyingOfValueType`); `ListDepthFacts` is the number of lists by which a type parameter is matched.

The type invariants of the modules with proofs are part of their inductive
invariants and proved with them; so are `Sorted` and `OnlyCurrentShrinks`.

Only model-checked: the liveness properties (`CallReturns`, `Ends`, `ReturnsIfFits`,
`CommandEnds`), because fairness is out of the prover's reach; the modules with recursive
operators, `CodeGen` with `Machine` running its output, and the parser; what programs `Imports` accepts (`AcceptsCorrect`), because
declarations are entered by folds over sequences of them; and
`RuntimeText` and `RuntimeList`, whose operations are folds over bytes and elements: what
those compute needs induction over data, for which the provers have no direct support, and is compared with
sequences on small instances instead.

## 5. Findings

The two runs with violations:

* `for_continue`: continue in a counting loop frees the temporaries of the loop
  header, which the end of the loop frees again.
* `parser_count`: `finishStatement` changes the token `Mal` in the array that all
  instantiations of a generic function share; the second instantiation of one
  with a counted statement is rejected.

The others are reproduced by changing the configuration named; each TLC run then
ends in a counterexample within seconds to a minute. The property named is to be
the only one checked.

*Ownership* (`MCCaseForContinue.cfg`; set `Case`, and for `ConstAlias` `optimizationLevel` = 2)

* `"BlockReturn"`, `FreesOwned`: a return in a nested block; the outer block frees its
  variables again, in the block of the return.
* `"WhileCondition"`, `NoLeak`: temporaries of a loop condition are freed once, after
  the loop, but created in each iteration.
* `"SelfAssign"`, `FreesOwned`: `Speichere x in x` frees the value and keeps it.
* `"ConstAlias"`, `ReadsLive`: at -O2 a constant parameter is read after the variable
  it was passed from was assigned through a reference.
* `"FallsPrimitive"`, `NoPanic`: a conditional expression over primitive values makes
  the compiler dereference a missing deep copy function.
* `"ForRangeReturn"`, `FreesOwned`: a return in the body of a loop over a list; the
  loop variable is freed by the return and by the loop.
* `"DoWhileBreak"`, `FreesOwned`: leaving a loop before its condition was evaluated frees
  the condition's temporary, which does not exist.

*Annotator and map*

* `MCConstFuncParam.cfg`, `Sound`: parameters of a function that is forward
  declared, generic or recursive can be annotated constant although they change, and so can
  parameters passed by reference to the function of an overloaded operator: it is compiled as a call
  (`compiler.go:942`), but the annotator sees only its operands (`helper_visitor.go:336`).
* `MCOrderedMap.cfg`, `Key <- MCSameName`, `LessAssumption`: `tokenEqual` compares parameter
  types, `tokenLess` only their names, so that the order is not total. With types of one
  name from three modules the search misses a key that is stored, and `Set` stores it twice:
  without the assumption TLC finds `WithoutDuplicate` violated.

*Typing* (`MCTyping.cfg`, `Agreed` = FALSE; `TypesAgree`, `WellTypedIr`, `NumbersKeepTheirValue`,
`VariablesRememberType` and `NoInternalError` each fail). The cases, all in `KnownDivergence`:

* the absolute value and the negation of a Byte, sums, differences and products of a
  Zahl and a Byte, shifts of mixed widths, logical operators on a Byte and
  `WIEDERHOLE` with a Byte: the code generator keeps or mixes widths where the
  typechecker announces a Zahl ("unsigned to signed cast", `typechecker.go:318`);
* a Byte divided by a Kommazahl is converted as a signed number;
* concatenation of texts or lists of a defined type, casts between a list and a type defined as
  one, and a list of lists end in an internal error;
* a Variable cast to a Byte is read as a Zahl; an explicit cast or a return of a value
  of a defined type as Variable loses that type;
* a counting loop over mixed numeric types, a field whose default value has
  another numeric type, and reference parameters of overloads and
  characters of a text of a defined type: the value is used with the representation of another type.

*Parser* (`MCParserCount.cfg`, set `Programs`)

* `<- MCAliasDeclaration`, `AcceptsCorrect`: `aliasDecl` takes the token `Alias` for the
  article, so every declaration of an additional alias is an error
  (`declarations.go:1236`); `examples/Rechner/TokenLeser.ddp:7` contains one.
* `<- MCDefinitionInBranch`, `NoCrash`: `ifStatement` uses the nil statement of a branch that is
  the definition of a function that was not declared there (`statements.go:331`).
* `<- MCCountOfAlias`, `NoCrash`: the variable has the alias of a list type and a count and a value.
  `IsList` sees through the alias, the type assertion after it does not (`declarations.go:215`, `:223`).
  It is the same for a type parameter that stands for a list.
* `<- MCAliasOfType`, `NoCrash`: an additional alias for a name that is a type and not a function
  (`declarations.go:1253`).
* `NoCrash` itself leaves out the programs of `EndsInListen`: after `Byte`, `Wahrheitswert` or
  `Text` and `Listen` at the end of the tokens a missing `Referenz` is reported and the token that is
  looked up two places before is not that of a type (`type_parsing.go:183`), so that
  `tokenTypeToType` panics (`type_parsing.go:34`). With `NoCrash == ~parser.crashed` the run `parser` has
  such a program.
* `<- MCForwardBool`, `AcceptsCorrect`: `isCurrentFunctionBool` is set by the last declaration, not by
  a definition (`declarations.go:571`), so `Gib wahr, wenn ..., zurück` is rejected in the definition
  of a function when another one was declared since.

Read in the source while modelling, without a property of their own: an error at the end of a function
declaration makes `synchronize` skip the following statement; `VisitForStmt` resolves the
header of a loop in the scope of its body; `sortAliases` calls `sort.Slice` under a comment
that says the order is stable; the comment at `declarations.go:366` asks for as many
parameter names as types, which is not checked.

*Imports* (`MCImports.cfg`)

* `NoPanic`: importing a directory without modules is no error, and the code generator
  panics on it (`compiler.go:2252`).
* `Nested` = TRUE, `InitAndDisposeOnce`: an import statement in a loop calls the init
  function in every turn; the comment at `compiler.go:2278` says "only call the module init func
  once per module".
* `CircularMeansCycle`: a missing file that is imported twice is reported the second
  time as a circular import (`parser.go:278`).

*Runtime* (`MCRuntimeText.cfg`, `MCRuntimeList.cfg`)

* `Narrowing` = TRUE, `CapIsExact`: replacing a character by one of fewer bytes keeps `cap`; a
  later concatenation appends behind the zero byte, although the comment at
  `operators.c:145` says "append str2 and overwrite str1's null-terminator".
  `ImplementsTexts` fails as well.
* `Pairs` = TRUE, `OwnedOnce`: the concatenation of two elements that own memory stores both
  copies in the first cell (`list_types.go:764`).
* `InvalidIsError` = TRUE, `ImplementsLists`: `Lösche_Element` and `Lösche_Bereich` document a runtime
  error for an invalid index (`Duden/Listen.ddp:112` and `:123`); the function below both clamps the
  indices to the list, and does nothing to an empty one (`lists.c:73`, `:83`).

*Running programs* (`MCSubProcess.cfg`)

* `Returns`: on Linux the call never returns when the program writes more than a pipe
  holds, because the parent waits before it reads (`exec.c:274`).
* `ExitCodes` = {0, 127}, `ErrorsOnly`: a program that exits with 127 is reported as not
  started.
* `WindowsReuse` = TRUE, `MemorySafe`: `read_pipe` of Windows frees the text for the output
  and then reallocates the freed pointer.
* In the model as in the code: on Linux the child also reads the zero byte of the
  input; a program that does not read its input can end the DDP program by SIGPIPE. On Linux
  descriptors stay open after a failing fork, write or wait and after a missing program; on
  Windows those of a pipe that was created but could not be made inheritable
  (`exec.c:27`). This is why `NothingLeft` is restricted.
* In the model as in the code: on Linux a program that a signal ended yields -1 without a message
  (`exec.c:296`), which is otherwise returned with one.

*Update* (`MCUpdate.cfg`)

* `UpToDateMeansInstalled`: after an update that failed behind the replacement of the
  binary, the next run reports "DDP ist auf dem neusten Stand" and does not repair
  the libraries.
* `Versions <- MCMajorVersions`, `NoDowngrade`: versions are compared number by number, not in
  order, so 1.9.0 is newer than 2.0.0.

## 6. Not modelled

* What is not freed when a runtime error ends the process.
* Elements and fields in `Machine`: a container owns what was stored into it. Elements of
  lists have memory of their own in `RuntimeList`.
* Global variables in `CodeGen`; `Imports` has the calls of init and dispose functions.
* The visibility checks of the typechecker, calls with several parameters and more than
  one type parameter, generic structs, two modules with generic functions (the
  cache at `alias.go:443` is appended under one module and read under another).
* In `Imports`: paths, operator overloads and types of imported modules. The main file is
  not in the table of modules and can be parsed a second time; this is modelled.
* The scanner: a table from characters to tokens. The parser model starts from
  tokens and their indentation.
* Functions on Variablen in the runtime, formatting and parsing of numbers, program
  start, and the rest of the standard library: wrappers of C library calls.
* LLVM, the linker, the driver's other commands and the setup program: calls of external
  programs without state of their own.

## 7. Plan

1. `Search` and `Copy` of the alias trie over `MapADT`, with a refinement to a set of
   token sequences, proved.
2. Two modules with generic functions: the cache of instantiations and its key.
3. Global variables in `CodeGen`; a proof that leaving scopes frees each variable once,
   over an abstract chain of scopes.
4. Ownership proofs for `RuntimeText`: `OwnedOnce` for any number of texts.
5. The indentation and alias modes of the scanner.
