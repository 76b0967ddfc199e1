----------------------------- MODULE SubProcess -----------------------------
(***************************************************************************)
(* Programm_Ausfuehren (exec.c): a DDP program starts another program,     *)
(* writes its standard input and collects what it prints.  The two run     *)
(* concurrently, connected by pipes that hold PipeSize bytes.              *)
(*                                                                         *)
(* Linux writes the input, waits for the child and then reads the output;  *)
(* Windows writes the input, reads the output and then waits.              *)
(***************************************************************************)
EXTENDS RuntimeMemory

CONSTANTS PipeSize,      \* bytes a pipe holds
          BUFF_SIZE,     \* bytes read at a time
          MaxScript,     \* bound: reads and writes of the child
          MaxInput,      \* bound: bytes of the StandardEingabe
          ExitCodes,     \* with which the child may exit
          WindowsReuse   \* whether Windows gets a StandardAusgabe that is not empty

\* There is memory for the two texts and for the block that replaces one.
ASSUME SizesAssumption ==
    /\ PipeSize \in Nat /\ BUFF_SIZE \in Nat \ {0} /\ MaxScript \in Nat /\ MaxInput \in Nat
    /\ WindowsReuse \in BOOLEAN
    /\ MaxBlocks \in Nat /\ MaxBlocks >= 3

(* Bytes: the zero byte at the end of a text, input, output, error output. *)
NUL == 0
INP == 1
OUT == 2
ERR == 3

Pipes == {"stdin", "stdout", "stderr"}

NOT_FOUND == 127
SIGNALED == 256   \* no exit code: a signal ended the child

VARIABLES os, need_stderr,   \* which execute_process, and whether it has two outputs
          uninheritable,     \* the pipe for which SetHandleInformation fails, if any
          child,             \* [state, missing, todo, code, got, out, err]: what the child is to do and has done
          pipe,              \* [Pipes -> [buf, rd, wr]]: bytes, and who holds which end open
          pc, fd,            \* the next step of execute_process, the pipe it reads
          input, ret,        \* what it still has to write, its result
          mem, texts         \* the StandardAusgabe and StandardFehlerAusgabe as ddpstrings

config == << os, need_stderr, uninheritable >>
vars == << config, child, pipe, pc, fd, input, ret, mem, texts >>

(* Where the child's output of each kind goes, and into which text. *)
Target(b) == IF b = ERR /\ need_stderr THEN "stderr" ELSE "stdout"
TextFor(p) == IF p = "stderr" THEN "err" ELSE "out"
ErrOutput == IF need_stderr THEN "err" ELSE "out"

Needed == IF need_stderr THEN Pipes ELSE Pipes \ {"stderr"}

Scripts == UNION {[1 .. n -> {INP, OUT, ERR}] : n \in 0 .. MaxScript}

Closed == [buf |-> << >>, rd |-> {}, wr |-> {}]
EmptyText == [str |-> NULL, cap |-> 0]

(* The StandardEingabe of n bytes: write gets the whole array, WriteFile   *)
(* the bytes before the zero byte.                                         *)
Eingabe(n) == [k \in 1 .. n |-> INP] \o IF os = "linux" /\ n > 0 THEN << NUL >> ELSE << >>

(* Both texts are empty, or hold the output of an earlier call. *)
Init ==
    /\ os \in {"linux", "windows"}
    /\ need_stderr \in BOOLEAN
    /\ uninheritable \in {"none"} \cup (IF os = "windows" THEN Needed ELSE {})
    /\ \E script \in Scripts, code \in ExitCodes, missing \in BOOLEAN :
        child = [state |-> "none", missing |-> missing, todo |-> script, code |-> code, got |-> << >>, out |-> << >>, err |-> << >>]
    /\ pipe = [p \in Pipes |-> Closed]
    /\ pc = "pipes" /\ fd = "stdout" /\ ret = 0
    /\ \E n \in 0 .. MaxInput : input = Eingabe(n)
    /\ \/ mem = NoMemory /\ texts = [t \in {"out", "err"} |-> EmptyText]
       \/ /\ os = "linux" \/ WindowsReuse
          /\ mem = [NoMemory EXCEPT !.heap[1] = << OUT, NUL >>]
          /\ texts = [out |-> [str |-> 1, cap |-> 2], err |-> EmptyText]

(***************************************************************************)
(* The parent: execute_process.                                            *)
(***************************************************************************)
Close(p, end, who) == [p EXCEPT ![end] = @ \ {who}]

CloseAll(ps, who) == [p \in Pipes |-> IF p \in ps THEN Close(Close(pipe[p], "rd", who), "wr", who) ELSE pipe[p]]

Return(code) == pc' = "returned" /\ ret' = code

(* One of the pipes cannot be opened: those before it are closed again. *)
PipeFails ==
    /\ pc = "pipes"
    /\ Return(-1)
    /\ UNCHANGED << child, pipe, input, mem, texts, fd >>

Opened == [buf |-> << >>, rd |-> {"parent"}, wr |-> {"parent"}]

(* create_pipe of Windows opens a pipe and cannot have its end inherited:  *)
(* the pipes before it are closed, this one is not.                        *)
InheritFails ==
    /\ pc = "pipes" /\ uninheritable \in Needed
    /\ pipe' = [pipe EXCEPT ![uninheritable] = Opened]
    /\ Return(-1)
    /\ UNCHANGED << child, input, mem, texts, fd >>

OpenPipes ==
    /\ pc = "pipes" /\ uninheritable = "none"
    /\ pipe' = [p \in Pipes |-> IF p \in Needed THEN Opened ELSE Closed]
    /\ pc' = "fork"
    /\ UNCHANGED << child, input, ret, mem, texts, fd >>

(* Windows finds out here that there is no such program; only Windows      *)
(* closes the pipes.                                                       *)
ForkFails ==
    /\ pc = "fork"
    /\ Return(-1)
    /\ pipe' = IF os = "windows" THEN CloseAll(Pipes, "parent") ELSE pipe
    /\ UNCHANGED << child, input, mem, texts, fd >>

(* The child inherits every end on Linux, the ones it uses on Windows. *)
Inherit(p) ==
    IF os = "linux" THEN [pipe[p] EXCEPT !.rd = @ \cup {"child"}, !.wr = @ \cup {"child"}]
    ELSE IF p = "stdin" THEN [pipe[p] EXCEPT !.rd = @ \cup {"child"}]
    ELSE [pipe[p] EXCEPT !.wr = @ \cup {"child"}]

Fork ==
    /\ pc = "fork"
    /\ os = "windows" => ~child.missing
    /\ pipe' = [p \in Pipes |-> IF p \in Needed THEN Inherit(p) ELSE pipe[p]]
    /\ child' = [child EXCEPT !.state = IF os = "linux" THEN "forked" ELSE "running"]
    /\ pc' = "close"
    /\ UNCHANGED << input, ret, mem, texts, fd >>

(* Mutant: the write ends of the outputs stay open. *)
OwnEndsRead == [pipe EXCEPT !["stdin"] = Close(@, "rd", "parent")]

(* "you NEED to close these, or it will not work" *)
OwnEnds == [p \in Pipes |-> Close(pipe[p], IF p = "stdin" THEN "rd" ELSE "wr", "parent")]

CloseEnds ==
    /\ pc = "close"
    /\ pipe' = OwnEnds
    /\ pc' = "write"
    /\ UNCHANGED << child, input, ret, mem, texts, fd >>

(* write and WriteFile block while the pipe is full. *)
Write ==
    /\ pc = "write" /\ input # << >>
    /\ pipe["stdin"].rd # {} /\ Len(pipe["stdin"].buf) < PipeSize
    /\ pipe' = [pipe EXCEPT !["stdin"].buf = Append(@, Head(input))]
    /\ input' = Tail(input)
    /\ UNCHANGED << child, pc, ret, mem, texts, fd >>

(* Nobody reads any more.  Linux ends the DDP program with SIGPIPE, which  *)
(* nothing handles; Windows ends the child and closes everything.          *)
WriteFails ==
    /\ pc = "write" /\ input # << >>
    /\ pipe["stdin"].rd = {}
    /\ \/ os = "linux" /\ pc' = "killed" /\ UNCHANGED << ret, child >>
       \/ os = "windows" /\ Return(-1) /\ child' = [child EXCEPT !.state = "reaped"]
    /\ pipe' = CloseAll(Pipes, "parent")
    /\ UNCHANGED << input, mem, texts, fd >>

CloseInput ==
    /\ pc = "write" /\ input = << >>
    /\ pipe' = [pipe EXCEPT !["stdin"] = Close(@, "wr", "parent")]
    /\ pc' = IF os = "linux" THEN "wait" ELSE "read"
    /\ UNCHANGED << child, input, ret, mem, texts, fd >>

(* Mutant: the freed pointer stays in the struct on Linux, too. *)
StartReadKeepingPointer(t) ==
    /\ mem' = DDP_FREE_ARRAY(mem, texts[t].str, texts[t].cap)
    /\ texts' = [texts EXCEPT ![t].cap = 0]

(* read_pipe frees the old text before the first read.  Windows leaves the *)
(* pointer in the struct.                                                  *)
StartRead(t) ==
    /\ mem' = DDP_FREE_ARRAY(mem, texts[t].str, texts[t].cap)
    /\ texts' = [texts EXCEPT ![t] = IF os = "linux" THEN EmptyText ELSE [@ EXCEPT !.cap = 0]]

(* The step after the two reads. *)
AfterReads == IF os = "linux" THEN "exit" ELSE "wait"

(* Mutant: every program that fails counts as not started. *)
NotFoundNonZero == os = "linux" /\ child.code # 0

NotFound == os = "linux" /\ child.code = NOT_FOUND

Wait ==
    /\ pc = "wait" /\ child.state = "exited"
    /\ child' = [child EXCEPT !.state = "reaped"]
    /\ \/ /\ os = "linux"
          /\ pc' = "read" /\ fd' = IF NotFound /\ need_stderr THEN "stderr" ELSE "stdout"
          /\ UNCHANGED ret
       \/ os = "windows" /\ Return(child.code) /\ UNCHANGED fd
    /\ UNCHANGED << pipe, input, mem, texts >>

(* Linux returns with the outputs' pipes open. *)
WaitFails ==
    /\ pc = "wait" /\ os = "linux"
    /\ Return(-1)
    /\ UNCHANGED << child, pipe, input, mem, texts, fd >>

BeginRead ==
    /\ pc = "read"
    /\ StartRead(TextFor(fd))
    /\ pc' = "reading"
    /\ UNCHANGED << child, pipe, fd, input, ret >>

(* The bytes go behind the ones read before. *)
AppendBytes(t, bytes) ==
    LET r == ddp_reallocate(mem, texts[t].str, texts[t].cap, texts[t].cap + Len(bytes))
    IN  /\ mem' = memcpy(r.mem, r.ptr, texts[t].cap, bytes, 0, Len(bytes))
        /\ texts' = [texts EXCEPT ![t] = [str |-> r.ptr, cap |-> texts[t].cap + Len(bytes)]]

Read ==
    /\ pc = "reading" /\ pipe[fd].buf # << >>
    /\ \E n \in {Min({BUFF_SIZE, Len(pipe[fd].buf)})} :
        /\ AppendBytes(TextFor(fd), SubSeq(pipe[fd].buf, 1, n))
        /\ pipe' = [pipe EXCEPT ![fd].buf = SubSeq(@, n + 1, Len(@))]
    /\ UNCHANGED << child, pc, fd, input, ret >>

(* Mutant: the zero byte is forgotten. *)
EndOfTextWithoutZero(t) == UNCHANGED << mem, texts >>

EndOfText(t) == AppendBytes(t, << NUL >>)

(* Mutant: the read end is not closed. *)
ReadEndLeft == pipe

ReadEndClosed == [pipe EXCEPT ![fd] = Close(@, "rd", "parent")]

(* End of file: every write end is closed and the pipe is empty. *)
EndRead ==
    /\ pc = "reading" /\ pipe[fd].buf = << >> /\ pipe[fd].wr = {}
    /\ EndOfText(TextFor(fd))
    /\ pipe' = ReadEndClosed
    /\ \/ NotFound /\ pc' = "notfound" /\ UNCHANGED fd
       \/ ~NotFound /\ fd = "stdout" /\ need_stderr /\ pc' = "read" /\ fd' = "stderr"
       \/ ~NotFound /\ (fd = "stderr" \/ ~need_stderr) /\ pc' = AfterReads /\ UNCHANGED fd
    /\ UNCHANGED << child, input, ret >>

(* The child's error output becomes the Fehler and is freed; the pipe of   *)
(* its output is not closed.                                               *)
StartFailed ==
    /\ pc = "notfound"
    /\ mem' = DDP_FREE_ARRAY(mem, texts[ErrOutput].str, texts[ErrOutput].cap)
    /\ texts' = [texts EXCEPT ![ErrOutput] = EmptyText]
    /\ Return(-1)
    /\ UNCHANGED << child, pipe, input, fd >>

Exit ==
    /\ pc = "exit"
    /\ Return(IF child.code = SIGNALED THEN -1 ELSE child.code)
    /\ UNCHANGED << child, pipe, input, mem, texts, fd >>

ParentStep ==
    \/ PipeFails \/ InheritFails \/ OpenPipes \/ ForkFails \/ Fork \/ CloseEnds
    \/ Write \/ WriteFails \/ CloseInput \/ Wait
    \/ BeginRead \/ Read \/ EndRead \/ StartFailed \/ Exit

Parent == ParentStep \/ WaitFails

(***************************************************************************)
(* The child.                                                              *)
(***************************************************************************)
(* Linux: close the parent's ends, dup2, execvp.  A program that cannot be *)
(* started is one that prints the reason and exits with NOT_FOUND.         *)
Execute ==
    /\ child.state = "forked"
    /\ child' = IF ~child.missing THEN [child EXCEPT !.state = "running"]
                ELSE [child EXCEPT !.state = "running", !.todo = << ERR >>, !.code = NOT_FOUND]
    /\ pipe' = [p \in Pipes |-> Close(pipe[p], IF p = "stdin" THEN "wr" ELSE "rd", "child")]

ChildReads ==
    /\ child.state = "running" /\ child.todo # << >> /\ Head(child.todo) = INP
    /\ \/ /\ pipe["stdin"].buf # << >>
          /\ child' = [child EXCEPT !.todo = Tail(@), !.got = Append(@, Head(pipe["stdin"].buf))]
          /\ pipe' = [pipe EXCEPT !["stdin"].buf = Tail(@)]
       \/ /\ pipe["stdin"].buf = << >> /\ pipe["stdin"].wr = {}
          /\ child' = [child EXCEPT !.todo = Tail(@)]
          /\ UNCHANGED pipe

ChildWrites(b) ==
    /\ child.state = "running" /\ child.todo # << >> /\ Head(child.todo) = b
    /\ Len(pipe[Target(b)].buf) < PipeSize
    /\ child' = [child EXCEPT !.todo = Tail(@), ![TextFor(Target(b))] = Append(@, b)]
    /\ pipe' = [pipe EXCEPT ![Target(b)].buf = Append(@, b)]

ChildExits ==
    /\ child.state = "running" /\ child.todo = << >>
    /\ child' = [child EXCEPT !.state = "exited"]
    /\ pipe' = CloseAll(Pipes, "child")

(* A signal ends the child.  On Windows a program that is ended from       *)
(* outside has an exit code like every other.                              *)
ChildKilled ==
    /\ os = "linux" /\ child.state \in {"forked", "running"}
    /\ child' = [child EXCEPT !.state = "exited", !.code = SIGNALED]
    /\ pipe' = CloseAll(Pipes, "child")

ParentWaits == UNCHANGED << pc, input, ret, mem, texts, fd >>

ChildStep ==
    /\ Execute \/ ChildReads \/ ChildWrites(OUT) \/ ChildWrites(ERR) \/ ChildExits
    /\ ParentWaits

Child == ChildStep \/ (ChildKilled /\ ParentWaits)

Next == (Parent \/ Child) /\ UNCHANGED config

Spec == Init /\ [][Next]_vars

(* The operating system schedules both processes, and the program that is  *)
(* executed ends by itself.  wait does not have to fail, and no signal has *)
(* to come.                                                                *)
FairSpec == Spec /\ WF_vars(ParentStep /\ UNCHANGED config) /\ WF_vars(ChildStep /\ UNCHANGED config)

(***************************************************************************)
(* Properties.                                                             *)
(***************************************************************************)
(* read_pipe never touches memory it does not own, however the child       *)
(* divides its output and whatever the texts held before.                  *)
MemorySafe == mem.ok

TextIs(t, bytes) ==
    texts[t].cap = Len(bytes) + 1 /\ Block(mem, texts[t].str) = bytes \o << NUL >>

(* "Stdout wird in <StandardAusgabe> gespeichert", "Stderr wird in         *)
(* <StandardFehlerAusgabe> gespeichert": when a call succeeds, the texts   *)
(* hold all the child wrote, in the order it wrote it to each pipe.        *)
OutputComplete ==
    pc = "returned" /\ ret # -1 =>
        TextIs("out", child.out) /\ (need_stderr => TextIs("err", child.err))

(* A call that succeeds, and every call on Windows whose pipes can be      *)
(* inherited, leaves no descriptor open and no child behind.  (The other   *)
(* calls do: README, Findings.)                                            *)
NothingLeft ==
    pc = "returned" /\ (ret # -1 \/ (os = "windows" /\ uninheritable = "none")) =>
        /\ \A p \in Pipes : "parent" \notin pipe[p].rd \cup pipe[p].wr
        /\ child.state \in {"none", "reaped"}

(* "Der Exit Code des Programms, oder -1 im Falle eines Fehlers": -1 is    *)
(* returned only when the program did not start, its input could not be    *)
(* written, it was not waited for or it has no exit code.                  *)
ErrorsOnly ==
    pc = "returned" /\ ret = -1 =>
        \/ child.state # "reaped"
        \/ child.missing \/ input # << >> \/ child.code = SIGNALED

(* Nothing the parent waits for can wait for the parent: everything the    *)
(* child writes fits in the pipes where the parent does not read them, and *)
(* on Linux the child reads all its input.                                 *)
Bytes(kinds) == Len(SelectSeq(child.todo, LAMBDA b : b \in kinds))

Fits ==
    \/ /\ os = "linux"
       /\ IF child.missing THEN input = << >> ELSE Bytes({INP}) >= Len(input)
       /\ IF need_stderr THEN Bytes({OUT}) <= PipeSize /\ Bytes({ERR}) <= PipeSize ELSE Bytes({OUT, ERR}) <= PipeSize
    \/ /\ os = "windows"
       /\ need_stderr => Bytes({ERR}) <= PipeSize
       /\ Len(input) <= PipeSize \/ Bytes(IF need_stderr THEN {OUT} ELSE {OUT, ERR}) <= PipeSize

(* Programm_Ausfuehren returns for every child within these limits: no     *)
(* interleaving makes the two processes wait for each other.  (A child     *)
(* that a signal ends before it has read its input ends the DDP program,   *)
(* too.)                                                                   *)
ReturnsIfFits == Fits => <>(pc = "returned" \/ (pc = "killed" /\ child.code = SIGNALED))

(* Programm_Ausfuehren returns, as its documentation says of every         *)
(* program.  Refuted (README, Findings).                                   *)
Returns == <>(pc = "returned")
=============================================================================
