-------------------------- MODULE SubProcessProofs --------------------------
(***************************************************************************)
(* What Programm_Ausfuehren guarantees, for every child, every input, and  *)
(* pipes and buffers of every size.                                        *)
(*                                                                         *)
(* OutputComplete is not inductive.  Collected says where the bytes the    *)
(* child wrote are at each step: in the pipe, in the text and the pipe, or *)
(* in the text.  That a text is complete when its pipe is at its end needs *)
(* Ends: a child that still runs holds the write end open, and execute_    *)
(* process has closed its own.  That the bytes read before survive the     *)
(* next read needs Owned: the texts have a block each, of their length.    *)
(***************************************************************************)
EXTENDS SubProcess, TLAPS

Byte == {NUL, INP, OUT, ERR}
Cell == Byte \cup {Garbage}
Texts == {"out", "err"}

ChildRecord ==
    [state : {"none", "forked", "running", "exited", "reaped"}, missing : BOOLEAN, todo : Seq(Byte),
     code : ExitCodes \cup {NOT_FOUND, SIGNALED}, got : Seq(Byte), out : Seq(Byte), err : Seq(Byte)]

PipeRecord == [buf : Seq(Byte), rd : SUBSET {"parent", "child"}, wr : SUBSET {"parent", "child"}]

TypeOK ==
    /\ os \in {"linux", "windows"} /\ need_stderr \in BOOLEAN
    /\ child \in ChildRecord
    /\ pipe \in [Pipes -> PipeRecord]
    /\ pc \in {"pipes", "fork", "close", "write", "wait", "read", "reading", "notfound", "exit", "returned", "killed"}
    /\ fd \in {"stdout", "stderr"}
    /\ input \in Seq(Byte)

(* Both reads are over and the call succeeds. *)
AllRead == pc = "exit" \/ (pc = "wait" /\ os = "windows")

(* Who is where while the parent holds which ends. *)
Ends ==
    /\ \A p \in Pipes : p \notin Needed \/ pc = "pipes" => pipe[p].rd = {} /\ pipe[p].wr = {}
    /\ pc \in {"pipes", "fork"} => child.state = "none"
    /\ pc \in {"close", "write", "wait", "read", "reading", "notfound", "exit"} => child.state # "none"
    /\ os = "linux" /\ pc \in {"close", "write", "wait"} => child.state # "reaped"
    /\ pc \in {"pipes", "fork", "close", "write"} => fd = "stdout"
    /\ fd = "stderr" => need_stderr
    /\ pc \in {"write", "wait", "read", "reading", "exit"} =>
        "parent" \notin pipe["stdin"].rd \cup pipe["stdout"].wr \cup pipe["stderr"].wr
    /\ pc \in {"wait", "read", "reading", "exit"} => "parent" \notin pipe["stdin"].wr
    /\ (pc \in {"read", "reading"} /\ fd = "stderr" /\ ~NotFound) \/ AllRead => "parent" \notin pipe["stdout"].rd
    /\ AllRead => "parent" \notin pipe["stderr"].rd
    /\ os = "linux" /\ pc \in {"read", "reading", "notfound", "exit"} => child.state = "reaped"
    /\ pc = "exit" => os = "linux"
    /\ pc = "notfound" => NotFound
    /\ child.state \in {"forked", "running"} => \A p \in Needed \ {"stdin"} : "child" \in pipe[p].wr

Memory == [heap : [Addresses -> Seq(Cell)], ok : {TRUE}]

(* Each text has a block of its own, of its length, and there is no other. *)
Owned ==
    /\ mem \in Memory
    /\ texts \in [Texts -> [str : 0 .. MaxBlocks, cap : Nat]]
    /\ \A t \in Texts : texts[t].cap = Len(Block(mem, texts[t].str))
    /\ \A t \in Texts : texts[t].str # NULL => texts[t].cap > 0
    /\ texts["out"].str = texts["err"].str => texts["out"].str = NULL
    /\ Allocated(mem) \subseteq {texts["out"].str, texts["err"].str}

(* What the child wrote to a pipe. *)
Written(p) == IF p = "stderr" THEN child.err ELSE child.out

Unread(p) ==
    \/ pc \in {"pipes", "fork", "close", "write"}
    \/ pc = "wait" /\ os = "linux"
    \/ pc = "read" /\ fd = p
    \/ pc \in {"read", "reading"} /\ fd = "stdout" /\ p = "stderr"

Complete(p) ==
    \/ AllRead
    \/ pc = "returned" /\ ret # -1
    \/ pc \in {"read", "reading"} /\ fd = "stderr" /\ ~NotFound /\ p = "stdout"

(* Where what the child wrote is. *)
Collected ==
    \A p \in Needed \ {"stdin"} :
        /\ pc = "pipes" => Written(p) = << >>
        /\ Unread(p) => Written(p) = pipe[p].buf
        /\ pc = "reading" /\ fd = p => Written(p) = Block(mem, texts[TextFor(p)].str) \o pipe[p].buf
        /\ Complete(p) => TextIs(TextFor(p), Written(p)) /\ child.state \in {"exited", "reaped"}

EndsInv == TypeOK /\ Ends /\ NothingLeft

(* On Windows, a text that is to be read has no pointer yet. *)
Fresh == os = "windows" => \A p \in {"stdout", "stderr"} : Unread(p) => texts[TextFor(p)].str = NULL

IInv == EndsInv /\ Owned /\ Fresh /\ Collected

(* Only a program that is not there exits with NOT_FOUND. *)
ErrInv == EndsInv /\ (child.code = NOT_FOUND => child.missing) /\ ErrorsOnly

-----------------------------------------------------------------------------
(***************************************************************************)
(* What the steps do to the fields of the records.                         *)
(***************************************************************************)
ChildBecomes(state, code, out, err) ==
    /\ child' \in ChildRecord
    /\ child'.state = state /\ child'.code = code /\ child'.out = out /\ child'.err = err
    /\ child'.missing = child.missing

(* A pipe of which one end is closed. *)
LEMMA CloseFields ==
    ASSUME NEW r \in PipeRecord, NEW end \in {"rd", "wr"}, NEW who
    PROVE  /\ Close(r, end, who) \in PipeRecord
           /\ Close(r, end, who).buf = r.buf
           /\ Close(r, end, who).rd = IF end = "rd" THEN r.rd \ {who} ELSE r.rd
           /\ Close(r, end, who).wr = IF end = "wr" THEN r.wr \ {who} ELSE r.wr
<1>1. CASE end = "rd"
  BY <1>1 DEF Close, PipeRecord
<1>2. CASE end = "wr"
  BY <1>2 DEF Close, PipeRecord
<1>3. QED
  BY <1>1, <1>2

(* A pipe with another buffer. *)
LEMMA BufferFields ==
    ASSUME NEW r \in PipeRecord, NEW b \in Seq(Byte)
    PROVE  /\ [r EXCEPT !.buf = b] \in PipeRecord
           /\ [r EXCEPT !.buf = b].buf = b /\ [r EXCEPT !.buf = b].rd = r.rd /\ [r EXCEPT !.buf = b].wr = r.wr
<1>1. [r EXCEPT !.buf = b] = [r EXCEPT !["buf"] = b]
  BY Zenon
<1>2. /\ [r EXCEPT !["buf"] = b] \in PipeRecord
      /\ [r EXCEPT !["buf"] = b].buf = b /\ [r EXCEPT !["buf"] = b].rd = r.rd /\ [r EXCEPT !["buf"] = b].wr = r.wr
  BY DEF PipeRecord
<1>3. QED
  BY <1>1, <1>2, Zenon

(* The child in another state. *)
LEMMA StateFields ==
    ASSUME TypeOK, NEW st \in {"forked", "running", "exited", "reaped"}, child' = [child EXCEPT !.state = st]
    PROVE  ChildBecomes(st, child.code, child.out, child.err)
<1>1. child' = [child EXCEPT !["state"] = st]
  BY Zenon
<1>2. QED
  BY <1>1, Zenon DEF ChildBecomes, ChildRecord, TypeOK

(* CloseAll takes who away from both ends of every pipe. *)
LEMMA CloseAllFields ==
    ASSUME TypeOK, NEW who
    PROVE  /\ CloseAll(Pipes, who) \in [Pipes -> PipeRecord]
           /\ \A p \in Pipes : /\ CloseAll(Pipes, who)[p].buf = pipe[p].buf
                               /\ CloseAll(Pipes, who)[p].rd = pipe[p].rd \ {who}
                               /\ CloseAll(Pipes, who)[p].wr = pipe[p].wr \ {who}
<1>1. \A p \in Pipes : LET c == Close(Close(pipe[p], "rd", who), "wr", who)
                      IN  c \in PipeRecord /\ c.buf = pipe[p].buf /\ c.rd = pipe[p].rd \ {who} /\ c.wr = pipe[p].wr \ {who}
  BY CloseFields DEF TypeOK
<1>2. QED
  BY <1>1 DEF CloseAll

(* The pipes are opened. *)
LEMMA OpenPipesFields ==
    ASSUME TypeOK, OpenPipes
    PROVE  /\ pipe' \in [Pipes -> PipeRecord]
           /\ \A p \in Pipes : /\ pipe'[p].buf = << >>
                               /\ p \notin Needed => pipe'[p].rd = {} /\ pipe'[p].wr = {}
BY DEF OpenPipes, PipeRecord, Closed, Opened

(* The pipe that cannot be inherited stays open. *)
LEMMA InheritFailsFields ==
    ASSUME TypeOK, InheritFails
    PROVE  /\ pipe' \in [Pipes -> PipeRecord]
           /\ uninheritable \in Needed /\ uninheritable \in Pipes
           /\ \A p \in Pipes \ {uninheritable} : pipe'[p] = pipe[p]
           /\ pipe'[uninheritable].buf = << >>
<1>1. uninheritable \in Needed /\ uninheritable \in Pipes
  BY DEF InheritFails, Needed
<1>2. Opened \in PipeRecord /\ Opened.buf = << >>
  BY DEF Opened, PipeRecord
<1>3. pipe' = [pipe EXCEPT ![uninheritable] = Opened]
  BY Zenon DEF InheritFails
<1>4. pipe \in [Pipes -> PipeRecord]
  BY Zenon DEF TypeOK
<1>5. QED
  BY <1>1, <1>2, <1>3, <1>4, Zenon

(* fork and CreateProcess. *)
LEMMA ForkFields ==
    ASSUME TypeOK, Fork
    PROVE  /\ ChildBecomes(IF os = "linux" THEN "forked" ELSE "running", child.code, child.out, child.err)
           /\ pipe' \in [Pipes -> PipeRecord]
           /\ \A p \in Pipes : /\ pipe'[p].buf = pipe[p].buf
                               /\ p \notin Needed => pipe'[p] = pipe[p]
                               /\ p \in Needed \ {"stdin"} => "child" \in pipe'[p].wr
           /\ pc = "fork" /\ pc' = "close" /\ UNCHANGED << input, ret, mem, texts, fd >>
<1>1. ChildBecomes(IF os = "linux" THEN "forked" ELSE "running", child.code, child.out, child.err)
  BY StateFields, Zenon DEF Fork
<1>2. ASSUME NEW p \in Pipes
      PROVE  Inherit(p) \in PipeRecord /\ Inherit(p).buf = pipe[p].buf /\ (p # "stdin" => "child" \in Inherit(p).wr)
  <2> DEFINE r == pipe[p]
             rd == r.rd \cup {"child"}
             wr == r.wr \cup {"child"}
  <2>1. r \in PipeRecord
    BY <1>2 DEF TypeOK
  <2>2. CASE os = "linux"
    <3>1. Inherit(p) = [r EXCEPT !["rd"] = rd, !["wr"] = wr]
      BY <2>2, Zenon DEF Inherit
    <3>2. QED
      BY <2>1, <3>1 DEF PipeRecord
  <2>3. CASE os # "linux" /\ p = "stdin"
    <3>1. Inherit(p) = [r EXCEPT !["rd"] = rd]
      BY <2>3, Zenon DEF Inherit
    <3>2. QED
      BY <2>1, <2>3, <3>1 DEF PipeRecord
  <2>4. CASE os # "linux" /\ p # "stdin"
    <3>1. Inherit(p) = [r EXCEPT !["wr"] = wr]
      BY <2>4, Zenon DEF Inherit
    <3>2. QED
      BY <2>1, <3>1 DEF PipeRecord
  <2>5. QED
    BY <2>2, <2>3, <2>4
<1>3. pipe' = [p \in Pipes |-> IF p \in Needed THEN Inherit(p) ELSE pipe[p]]
  BY Zenon DEF Fork
<1>4. pc = "fork" /\ pc' = "close" /\ UNCHANGED << input, ret, mem, texts, fd >>
  BY Zenon DEF Fork
<1>5. QED
  BY <1>1, <1>2, <1>3, <1>4 DEF TypeOK

(* The parent closes the ends that are the child's. *)
LEMMA CloseEndsFields ==
    ASSUME TypeOK, CloseEnds
    PROVE  /\ pipe' \in [Pipes -> PipeRecord]
           /\ \A p \in Pipes : /\ pipe'[p].buf = pipe[p].buf
                               /\ pipe'[p].rd = IF p = "stdin" THEN pipe[p].rd \ {"parent"} ELSE pipe[p].rd
                               /\ pipe'[p].wr = IF p # "stdin" THEN pipe[p].wr \ {"parent"} ELSE pipe[p].wr
<1>1. pipe' = [p \in Pipes |-> Close(pipe[p], IF p = "stdin" THEN "rd" ELSE "wr", "parent")]
  BY DEF CloseEnds, OwnEnds
<1>2. QED
  <2>1. ASSUME NEW p \in Pipes
        PROVE  /\ pipe'[p] \in PipeRecord /\ pipe'[p].buf = pipe[p].buf
               /\ pipe'[p].rd = IF p = "stdin" THEN pipe[p].rd \ {"parent"} ELSE pipe[p].rd
               /\ pipe'[p].wr = IF p # "stdin" THEN pipe[p].wr \ {"parent"} ELSE pipe[p].wr
    <3>1. pipe[p] \in PipeRecord
      BY <2>1 DEF TypeOK
    <3>2. CASE p = "stdin"
      <4>1. pipe'[p] = Close(pipe[p], "rd", "parent")
        BY <1>1, <2>1, <3>2
      <4>2. QED
        BY <3>1, <3>2, <4>1, CloseFields
    <3>3. CASE p # "stdin"
      <4>1. pipe'[p] = Close(pipe[p], "wr", "parent")
        BY <1>1, <2>1, <3>3
      <4>2. QED
        BY <3>1, <3>3, <4>1, CloseFields
    <3>4. QED
      BY <3>2, <3>3
  <2>2. QED
    BY <1>1, <2>1, Zenon

(* A step that changes only the bytes in the pipe q. *)
Refilled(q, bytes) ==
    /\ pipe' \in [Pipes -> PipeRecord]
    /\ \A p \in Pipes : /\ pipe'[p].buf = IF p = q THEN bytes ELSE pipe[p].buf
                        /\ pipe'[p].rd = pipe[p].rd /\ pipe'[p].wr = pipe[p].wr

(* Assigning the buffer of one pipe. *)
LEMMA RefilledFields ==
    ASSUME TypeOK, NEW q \in Pipes, NEW b \in Seq(Byte), pipe' = [pipe EXCEPT ![q].buf = b]
    PROVE  Refilled(q, b)
<1>1. pipe' = [pipe EXCEPT ![q] = [pipe[q] EXCEPT !.buf = b]]
  BY Zenon
<1> DEFINE r == [pipe[q] EXCEPT !.buf = b]
<1>2. r \in PipeRecord /\ r.buf = b /\ r.rd = pipe[q].rd /\ r.wr = pipe[q].wr
  <2>1. pipe[q] \in PipeRecord
    BY DEF TypeOK
  <2>2. QED
    BY <2>1, BufferFields, Zenon
<1>3. pipe' = [pipe EXCEPT ![q] = r]
  BY <1>1
<1> HIDE DEF r
<1>4. QED
  BY <1>2, <1>3 DEF TypeOK, Refilled

(* write puts a byte into the pipe of the child's input. *)
LEMMA WriteFields ==
    ASSUME TypeOK, Write
    PROVE  /\ Refilled("stdin", Append(pipe["stdin"].buf, Head(input)))
           /\ pc = "write" /\ input' \in Seq(Byte) /\ UNCHANGED << child, pc, ret, mem, texts, fd >>
<1> DEFINE b == Append(pipe["stdin"].buf, Head(input))
<1>1. pipe' = [pipe EXCEPT !["stdin"].buf = b] /\ input # << >> /\ input' = Tail(input)
  BY Zenon DEF Write
<1>2. b \in Seq(Byte) /\ Tail(input) \in Seq(Byte)
  <2>1. input \in Seq(Byte) /\ input # << >>
    BY <1>1, Zenon DEF TypeOK
  <2>2. pipe["stdin"].buf \in Seq(Byte)
    BY DEF TypeOK, PipeRecord, Pipes
  <2>3. QED
    BY <2>1, <2>2
<1>3. Refilled("stdin", b)
  BY <1>1, <1>2, RefilledFields, Zenon DEF Pipes
<1>4. QED
  BY <1>1, <1>2, <1>3, Zenon DEF Write

(* Nobody reads the input any more. *)
LEMMA WriteFailsFields ==
    ASSUME TypeOK, WriteFails
    PROVE  /\ \/ os = "linux" /\ pc' = "killed" /\ UNCHANGED << ret, child >>
              \/ os = "windows" /\ Return(-1) /\ ChildBecomes("reaped", child.code, child.out, child.err)
           /\ pipe' = CloseAll(Pipes, "parent")
           /\ pc = "write" /\ input # << >> /\ UNCHANGED << input, mem, texts, fd >>
BY StateFields, Zenon DEF WriteFails

(* The parent closes the child's input. *)
LEMMA CloseInputFields ==
    ASSUME TypeOK, CloseInput
    PROVE  /\ pipe' \in [Pipes -> PipeRecord]
           /\ \A p \in Pipes : /\ pipe'[p].buf = pipe[p].buf /\ pipe'[p].rd = pipe[p].rd
                               /\ pipe'[p].wr = IF p = "stdin" THEN pipe[p].wr \ {"parent"} ELSE pipe[p].wr
<1>1. LET c == Close(pipe["stdin"], "wr", "parent")
      IN  c \in PipeRecord /\ c.buf = pipe["stdin"].buf /\ c.rd = pipe["stdin"].rd /\ c.wr = pipe["stdin"].wr \ {"parent"}
  BY CloseFields DEF TypeOK, Pipes
<1>2. QED
  BY <1>1, Zenon DEF CloseInput, TypeOK

(* wait. *)
LEMMA WaitFields ==
    ASSUME TypeOK, Wait
    PROVE  /\ pc = "wait" /\ child.state = "exited"
           /\ ChildBecomes("reaped", child.code, child.out, child.err)
           /\ \/ /\ os = "linux"
                 /\ pc' = "read" /\ fd' = IF NotFound /\ need_stderr THEN "stderr" ELSE "stdout"
                 /\ UNCHANGED ret
              \/ os = "windows" /\ Return(child.code) /\ UNCHANGED fd
           /\ UNCHANGED << pipe, input, mem, texts >>
BY StateFields, Zenon DEF Wait

(* A read takes the first bytes of the pipe, at least one. *)
LEMMA ReadFields ==
    ASSUME TypeOK, Read
    PROVE  /\ \E n \in 1 .. Len(pipe[fd].buf) :
                /\ AppendBytes(TextFor(fd), SubSeq(pipe[fd].buf, 1, n))
                /\ Refilled(fd, SubSeq(pipe[fd].buf, n + 1, Len(pipe[fd].buf)))
           /\ pc = "reading" /\ UNCHANGED << child, pc, fd, input, ret >>
<1> DEFINE L == Len(pipe[fd].buf)
           n == Min({BUFF_SIZE, L})
           rest == SubSeq(pipe[fd].buf, n + 1, L)
<1>1. AppendBytes(TextFor(fd), SubSeq(pipe[fd].buf, 1, n)) /\ pipe' = [pipe EXCEPT ![fd].buf = rest]
  BY Zenon DEF Read
<1>2. pipe[fd].buf \in Seq(Byte) /\ fd \in Pipes
  BY DEF TypeOK, Pipes, PipeRecord
<1>3. L \in Nat /\ L > 0
  <2>1. pipe[fd].buf # << >>
    BY Zenon DEF Read
  <2>2. QED
    BY <1>2, <2>1
<1>4. \E x \in {BUFF_SIZE, L} : \A y \in {BUFF_SIZE, L} : x =< y
  BY <1>3, SizesAssumption
<1>5. n \in {BUFF_SIZE, L} /\ \A y \in {BUFF_SIZE, L} : n =< y
  BY <1>4, Zenon DEF Min
<1>6. n \in 1 .. L
  BY <1>3, <1>5, SizesAssumption
<1>7. rest \in Seq(Byte)
  <2> HIDE DEF n
  <2>1. QED
    BY <1>2, <1>6
<1>8. Refilled(fd, rest)
  BY <1>1, <1>2, <1>7, RefilledFields, Zenon
<1>9. pc = "reading" /\ UNCHANGED << child, pc, fd, input, ret >>
  BY Zenon DEF Read
<1>10. QED
  BY <1>1, <1>6, <1>8, <1>9, Zenon

(* The read end is closed at the end of the pipe. *)
LEMMA EndReadFields ==
    ASSUME TypeOK, EndRead
    PROVE  /\ pipe' \in [Pipes -> PipeRecord]
           /\ \A p \in Pipes : /\ pipe'[p].buf = pipe[p].buf /\ pipe'[p].wr = pipe[p].wr
                               /\ pipe'[p].rd = IF p = fd THEN pipe[p].rd \ {"parent"} ELSE pipe[p].rd
<1>1. LET c == Close(pipe[fd], "rd", "parent")
      IN  c \in PipeRecord /\ c.buf = pipe[fd].buf /\ c.wr = pipe[fd].wr /\ c.rd = pipe[fd].rd \ {"parent"}
  BY CloseFields DEF TypeOK, Pipes
<1>2. pipe' = [pipe EXCEPT ![fd] = Close(pipe[fd], "rd", "parent")]
  BY Zenon DEF EndRead, ReadEndClosed
<1>3. QED
  BY <1>1, <1>2, Zenon DEF TypeOK

(* The child becomes the program, or one that prints why it cannot. *)
LEMMA ExecuteFields ==
    ASSUME TypeOK, Execute
    PROVE  /\ child.state = "forked"
           /\ ChildBecomes("running", IF child.missing THEN NOT_FOUND ELSE child.code, child.out, child.err)
           /\ pipe' \in [Pipes -> PipeRecord]
           /\ \A p \in Pipes : /\ pipe'[p].buf = pipe[p].buf
                               /\ pipe'[p].rd = IF p # "stdin" THEN pipe[p].rd \ {"child"} ELSE pipe[p].rd
                               /\ pipe'[p].wr = IF p = "stdin" THEN pipe[p].wr \ {"child"} ELSE pipe[p].wr
<1>1. pipe' = [p \in Pipes |-> Close(pipe[p], IF p = "stdin" THEN "wr" ELSE "rd", "child")] /\ child.state = "forked"
  BY Zenon DEF Execute
<1>2. /\ pipe' \in [Pipes -> PipeRecord]
      /\ \A p \in Pipes : /\ pipe'[p].buf = pipe[p].buf
                          /\ pipe'[p].rd = IF p # "stdin" THEN pipe[p].rd \ {"child"} ELSE pipe[p].rd
                          /\ pipe'[p].wr = IF p = "stdin" THEN pipe[p].wr \ {"child"} ELSE pipe[p].wr
  <2>1. ASSUME NEW p \in Pipes
        PROVE  /\ pipe'[p] \in PipeRecord /\ pipe'[p].buf = pipe[p].buf
               /\ pipe'[p].rd = IF p # "stdin" THEN pipe[p].rd \ {"child"} ELSE pipe[p].rd
               /\ pipe'[p].wr = IF p = "stdin" THEN pipe[p].wr \ {"child"} ELSE pipe[p].wr
    <3>1. pipe[p] \in PipeRecord
      BY <2>1 DEF TypeOK
    <3>2. CASE p = "stdin"
      <4>1. pipe'[p] = Close(pipe[p], "wr", "child")
        BY <1>1, <2>1, <3>2
      <4>2. QED
        BY <3>1, <3>2, <4>1, CloseFields
    <3>3. CASE p # "stdin"
      <4>1. pipe'[p] = Close(pipe[p], "rd", "child")
        BY <1>1, <2>1, <3>3
      <4>2. QED
        BY <3>1, <3>3, <4>1, CloseFields
    <3>4. QED
      BY <3>2, <3>3
  <2>2. QED
    BY <1>1, <2>1, Zenon
<1>3. CASE ~child.missing
  <2>1. child' = [child EXCEPT !["state"] = "running"]
    BY <1>3, Zenon DEF Execute
  <2>2. QED
    BY <1>1, <1>2, <1>3, <2>1, Zenon DEF ChildBecomes, ChildRecord, TypeOK
<1>4. CASE child.missing
  <2>1. child' = [child EXCEPT !["state"] = "running", !["todo"] = << ERR >>, !["code"] = NOT_FOUND]
    BY <1>4, Zenon DEF Execute
  <2>2. << ERR >> \in Seq(Byte)
    BY DEF Byte
  <2>3. QED
    BY <1>1, <1>2, <1>4, <2>1, <2>2, Zenon DEF ChildBecomes, ChildRecord, TypeOK
<1>5. QED
  BY <1>3, <1>4, Zenon

(* The child reads a byte, or finds its input at its end. *)
LEMMA ChildReadsFields ==
    ASSUME TypeOK, ChildReads
    PROVE  /\ ChildBecomes(child.state, child.code, child.out, child.err)
           /\ pipe' = pipe \/ \E b \in Seq(Byte) : Refilled("stdin", b)
<1>1. pipe["stdin"].buf \in Seq(Byte) /\ child.todo \in Seq(Byte) /\ child.got \in Seq(Byte)
  BY DEF TypeOK, PipeRecord, ChildRecord, Pipes
<1>2. child.todo # << >>
  BY Zenon DEF ChildReads
<1>3. CASE /\ pipe["stdin"].buf # << >>
           /\ child' = [child EXCEPT !.todo = Tail(@), !.got = Append(@, Head(pipe["stdin"].buf))]
           /\ pipe' = [pipe EXCEPT !["stdin"].buf = Tail(@)]
  <2> DEFINE todo == Tail(child.todo)
             got == Append(child.got, Head(pipe["stdin"].buf))
             rest == Tail(pipe["stdin"].buf)
  <2>1. child' = [child EXCEPT !["todo"] = todo, !["got"] = got]
    BY <1>3, Zenon
  <2>2. pipe' = [pipe EXCEPT !["stdin"].buf = rest] /\ pipe["stdin"].buf # << >>
    BY <1>3, Zenon
  <2>3. pipe["stdin"].buf # << >>
    BY <2>2, Zenon
  <2>4. todo \in Seq(Byte) /\ got \in Seq(Byte) /\ rest \in Seq(Byte)
    BY <1>1, <1>2, <2>3
  <2>5. Refilled("stdin", rest)
    BY <2>2, <2>4, RefilledFields, Zenon DEF Pipes
  <2> HIDE DEF todo, got
  <2>6. ChildBecomes(child.state, child.code, child.out, child.err)
    BY <2>1, <2>4, Zenon DEF ChildBecomes, ChildRecord, TypeOK
  <2>7. QED
    BY <2>4, <2>5, <2>6, Zenon
<1>4. CASE child' = [child EXCEPT !.todo = Tail(@)] /\ UNCHANGED pipe
  <2> DEFINE todo == Tail(child.todo)
  <2>1. child' = [child EXCEPT !["todo"] = todo]
    BY <1>4, Zenon
  <2>2. todo \in Seq(Byte)
    BY <1>1, <1>2
  <2> HIDE DEF todo
  <2>3. ChildBecomes(child.state, child.code, child.out, child.err)
    BY <2>1, <2>2, Zenon DEF ChildBecomes, ChildRecord, TypeOK
  <2>4. QED
    BY <1>4, <2>3, Zenon
<1>5. QED
  BY <1>3, <1>4, Zenon DEF ChildReads

(* The child writes a byte, and its pipe and what it wrote grow alike. *)
LEMMA ChildWritesFields ==
    ASSUME TypeOK, NEW b \in {OUT, ERR}, ChildWrites(b)
    PROVE  /\ child.state = "running"
           /\ Refilled(Target(b), Append(pipe[Target(b)].buf, b))
           /\ IF Target(b) = "stderr" THEN ChildBecomes("running", child.code, child.out, Append(child.err, b))
              ELSE ChildBecomes("running", child.code, Append(child.out, b), child.err)
<1>1. /\ child.state = "running" /\ child.todo # << >>
      /\ pipe' = [pipe EXCEPT ![Target(b)].buf = Append(pipe[Target(b)].buf, b)]
  BY Zenon DEF ChildWrites
<1>2. Target(b) \in {"stdout", "stderr"}
  BY DEF Target
<1>3. /\ pipe[Target(b)].buf \in Seq(Byte) /\ child.todo \in Seq(Byte)
      /\ child.out \in Seq(Byte) /\ child.err \in Seq(Byte)
  BY <1>2 DEF TypeOK, PipeRecord, ChildRecord, Pipes
<1>4. child.todo # << >>
  BY <1>1, Zenon
<1> DEFINE todo == Tail(child.todo)
           out == Append(child.out, b)
           err == Append(child.err, b)
           buf == Append(pipe[Target(b)].buf, b)
<1>5. /\ buf \in Seq(Byte) /\ todo \in Seq(Byte)
      /\ out \in Seq(Byte) /\ err \in Seq(Byte)
  BY <1>3, <1>4 DEF Byte
<1>6. Refilled(Target(b), buf)
  BY <1>1, <1>2, <1>5, RefilledFields, Zenon DEF Pipes
<1>7. CASE Target(b) = "stderr"
  <2>1. child' = [child EXCEPT !["todo"] = todo, !["err"] = err]
    BY <1>7, Zenon DEF ChildWrites, TextFor
  <2> HIDE DEF todo, err
  <2>2. ChildBecomes(child.state, child.code, child.out, err)
    BY <2>1, <1>5, Zenon DEF ChildBecomes, ChildRecord, TypeOK
  <2>3. QED
    BY <1>1, <1>6, <1>7, <2>2, Zenon DEF err
<1>8. CASE Target(b) = "stdout"
  <2>1. child' = [child EXCEPT !["todo"] = todo, !["out"] = out]
    BY <1>8, Zenon DEF ChildWrites, TextFor
  <2> HIDE DEF todo, out
  <2>2. ChildBecomes(child.state, child.code, out, child.err)
    BY <2>1, <1>5, Zenon DEF ChildBecomes, ChildRecord, TypeOK
  <2>3. QED
    BY <1>1, <1>6, <1>8, <2>2, Zenon DEF out
<1>9. QED
  BY <1>2, <1>7, <1>8

(* The child exits. *)
LEMMA ChildExitsFields ==
    ASSUME TypeOK, ChildExits
    PROVE  /\ ChildBecomes("exited", child.code, child.out, child.err)
           /\ child.state = "running" /\ pipe' = CloseAll(Pipes, "child")
BY StateFields, Zenon DEF ChildExits

(* A signal ends the child. *)
LEMMA ChildKilledFields ==
    ASSUME TypeOK, ChildKilled
    PROVE  /\ ChildBecomes("exited", SIGNALED, child.out, child.err) /\ os = "linux"
           /\ child.state \in {"forked", "running"} /\ pipe' = CloseAll(Pipes, "child")
<1>1. child' = [child EXCEPT !["state"] = "exited", !["code"] = SIGNALED]
  BY Zenon DEF ChildKilled
<1>2. child \in ChildRecord
  BY Zenon DEF TypeOK
<1>3. ChildBecomes("exited", SIGNALED, child.out, child.err)
  BY <1>1, <1>2, Zenon DEF ChildBecomes, ChildRecord
<1>4. QED
  BY <1>3, Zenon DEF ChildKilled

(***************************************************************************)
(* What the memory functions do to the heap.                               *)
(***************************************************************************)
(* A cell array is written into a block. *)
LEMMA StoreFields ==
    ASSUME NEW m \in Memory, NEW a \in Addresses, NEW cells \in Seq(Cell)
    PROVE  /\ [m EXCEPT !.heap[a] = cells] \in Memory
           /\ \A x \in Addresses : [m EXCEPT !.heap[a] = cells].heap[x] = IF x = a THEN cells ELSE m.heap[x]
<1>1. [m EXCEPT !.heap[a] = cells] = [m EXCEPT !["heap"] = [m.heap EXCEPT ![a] = cells]]
  BY Zenon
<1> DEFINE r == [m EXCEPT !["heap"] = [m.heap EXCEPT ![a] = cells]]
<1>2. r \in Memory /\ \A x \in Addresses : r.heap[x] = IF x = a THEN cells ELSE m.heap[x]
  BY Zenon DEF Memory
<1> HIDE DEF r
<1>3. [m EXCEPT !.heap[a] = cells] = r
  BY <1>1, Zenon DEF r
<1>4. QED
  BY <1>2, <1>3, Zenon

(* A block is freed. *)
LEMMA FreeFields ==
    ASSUME NEW m \in Memory, NEW p \in Allocated(m)
    PROVE  /\ free(m, p) \in Memory
           /\ \A a \in Addresses : free(m, p).heap[a] = IF a = p THEN << >> ELSE m.heap[a]
<1>1. p \in Addresses /\ p # NULL
  BY SizesAssumption DEF Allocated, Addresses, NULL
<1>2. free(m, p) = [m EXCEPT !.heap[p] = << >>]
  BY <1>1, Zenon DEF free
<1>3. << >> \in Seq(Cell)
  OBVIOUS
<1> DEFINE r == [m EXCEPT !.heap[p] = << >>]
<1>4. r \in Memory /\ \A a \in Addresses : r.heap[a] = IF a = p THEN << >> ELSE m.heap[a]
  BY <1>1, <1>3, StoreFields, Zenon
<1> HIDE DEF r
<1>5. free(m, p) = r
  BY <1>2, Zenon DEF r
<1>6. QED
  BY <1>4, <1>5, Zenon

(* The block of p has moved to a and grown. *)
Moved(m, p, size, a, r) ==
    /\ r.ptr = a /\ r.mem \in Memory
    /\ Len(r.mem.heap[a]) = size
    /\ \A k \in 1 .. Len(Block(m, p)) : r.mem.heap[a][k] = Block(m, p)[k]
    /\ \A x \in Addresses \ {a} : r.mem.heap[x] = IF x = p THEN << >> ELSE m.heap[x]

(* realloc moves the block and keeps its cells. *)
LEMMA ReallocFields ==
    ASSUME NEW m \in Memory, NEW p \in {NULL} \cup Allocated(m), NEW size \in Nat, size >= Len(Block(m, p)),
           NEW free_ \in Addresses \ Allocated(m), \A a \in Addresses \ Allocated(m) : free_ =< a
    PROVE  Moved(m, p, size, free_, realloc(m, p, size))
<1> DEFINE S == Addresses \ Allocated(m)
           old == Block(m, p)
           cells == [k \in 1 .. size |-> IF k <= Len(old) THEN old[k] ELSE Garbage]
<1>1. Min(S) = free_
  <2>1. \A x, y \in S : x =< y /\ y =< x => x = y
    BY DEF Addresses
  <2>2. Min(S) \in S /\ \A y \in S : Min(S) =< y
    BY Zenon DEF Min
  <2>3. QED
    BY <2>1, <2>2, Zenon
<1>2. old \in Seq(Cell)
  BY SizesAssumption DEF Block, Allocated, Addresses, NULL, Memory
<1>3. cells \in Seq(Cell) /\ Len(cells) = size /\ \A k \in 1 .. Len(old) : cells[k] = old[k]
  <2>1. \A k \in 1 .. size : cells[k] \in Cell
    BY <1>2 DEF Cell
  <2>2. QED
    BY <1>2, <2>1
<1>4. /\ free(m, p) \in Memory
      /\ \A a \in Addresses : free(m, p).heap[a] = IF a = p THEN << >> ELSE m.heap[a]
  <2>1. CASE p = NULL
    BY <2>1, SizesAssumption DEF free, Addresses, NULL
  <2>2. CASE p \in Allocated(m)
    BY <2>2, FreeFields
  <2>3. QED
    BY <2>1, <2>2
<1>5. realloc(m, p, size) = [mem |-> [free(m, p) EXCEPT !.heap[free_] = cells], ptr |-> free_]
  BY <1>1, Zenon DEF realloc
<1> DEFINE after == [free(m, p) EXCEPT !.heap[free_] = cells]
<1> HIDE DEF cells, old, S
<1>6. after \in Memory /\ \A x \in Addresses : after.heap[x] = IF x = free_ THEN cells ELSE free(m, p).heap[x]
  BY <1>3, <1>4, StoreFields, Zenon
<1> HIDE DEF after
<1>7. realloc(m, p, size).mem = after /\ realloc(m, p, size).ptr = free_
  BY <1>5 DEF after
<1>8. QED
  BY <1>3, <1>4, <1>6, <1>7 DEF old, Moved

(* Two texts leave a block free. *)
LEMMA FreeBlock ==
    ASSUME Owned
    PROVE  \E x \in Addresses \ Allocated(mem) : \A a \in Addresses \ Allocated(mem) : x =< a
<1> DEFINE S == Addresses \ Allocated(mem)
<1>1. {1, 2, 3} \subseteq Addresses /\ Addresses \subseteq Nat \ {0}
  BY SizesAssumption DEF Addresses
<1>2. 1 \in S \/ 2 \in S \/ 3 \in S
  BY <1>1, SMTT(30) DEF Owned
<1> HIDE DEF S
<1>3. S \subseteq Nat \ {0}
  BY <1>1, Zenon DEF S
<1>4. CASE 1 \in S
  BY <1>3, <1>4 DEF S
<1>5. CASE 1 \notin S /\ 2 \in S
  <2>1. \A a \in S : 2 =< a
    BY <1>3, <1>5
  <2>2. QED
    BY <1>5, <2>1 DEF S
<1>6. CASE 1 \notin S /\ 2 \notin S /\ 3 \in S
  <2>1. \A a \in S : 3 =< a
    BY <1>3, <1>6
  <2>2. QED
    BY <1>6, <2>1 DEF S
<1>7. QED
  BY <1>2, <1>4, <1>5, <1>6

(* Releasing the old text leaves the other one. *)
LEMMA ReleaseFields ==
    ASSUME Owned, NEW t \in Texts, NEW u \in Texts, u # t,
           mem' = DDP_FREE_ARRAY(mem, texts[t].str, texts[t].cap),
           texts' \in [Texts -> [str : 0 .. MaxBlocks, cap : Nat]], texts'[u] = texts[u],
           texts'[t].str = NULL, texts'[t].cap = 0
    PROVE  /\ Owned'
           /\ Block(mem', texts'[t].str) = << >>
           /\ texts'[u] = texts[u] /\ Block(mem', texts'[u].str) = Block(mem, texts[u].str)
<1> DEFINE p == texts[t].str
<1>1. mem' = free(mem, p)
  BY DEF DDP_FREE_ARRAY, ddp_reallocate
<1>2. texts'[t].str = NULL /\ texts'[t].cap = 0 /\ texts'[u] = texts[u] /\ texts' \in [Texts -> [str : 0 .. MaxBlocks, cap : Nat]]
  OBVIOUS
<1>3. Texts = {t, u}
  BY DEF Texts
<1>4. CASE p = NULL
  <2>1. mem' = mem
    BY <1>1, <1>4, Zenon DEF free
  <2>2. texts[t].cap = 0
    BY <1>4 DEF Owned, Block
  <2>3. texts'[t].str = texts[t].str /\ texts'[t].cap = texts[t].cap
    BY <1>2, <1>4, <2>2
  <2>4. texts'["out"].str = texts["out"].str /\ texts'["err"].str = texts["err"].str
    BY <1>2, <1>3, <2>3 DEF Texts
  <2>5. Owned'
    BY <1>2, <1>3, <2>1, <2>3, <2>4 DEF Owned, Block
  <2>6. QED
    BY <1>2, <1>4, <2>1, <2>3, <2>5 DEF Block
<1>5. CASE p # NULL
  <2>1. p \in Allocated(mem)
    BY <1>5, SizesAssumption, SMTT(30) DEF Owned, Allocated, Addresses, Block, NULL
  <2>2. mem' \in Memory /\ \A a \in Addresses : mem'.heap[a] = IF a = p THEN << >> ELSE mem.heap[a]
    BY <1>1, <2>1, FreeFields, SMTT(30) DEF Owned
  <2>3. texts[u].str # p
    BY <1>5, <1>3 DEF Owned, Texts
  <2>4. texts[u].str = NULL \/ texts[u].str \in Addresses
    BY SizesAssumption DEF Owned, Addresses, NULL
  <2>5. Block(mem', texts'[u].str) = Block(mem, texts[u].str)
    BY <1>2, <2>2, <2>3, <2>4 DEF Block
  <2>6. Block(mem', texts'[t].str) = << >>
    BY <1>2 DEF Block
  <2>7. Allocated(mem') \subseteq {texts[u].str}
    BY <1>3, <2>2 DEF Owned, Allocated, Texts
  <2>8. Owned'
    <3>1. \A v \in Texts : texts'[v].cap = Len(Block(mem', texts'[v].str))
      BY <1>2, <1>3, <2>5, <2>6 DEF Owned
    <3>2. \A v \in Texts : texts'[v].str # NULL => texts'[v].cap > 0
      BY <1>2, <1>3 DEF Owned
    <3>3. texts'["out"].str = texts'["err"].str => texts'["out"].str = NULL
      BY <1>2, <1>3 DEF Texts
    <3>4. Allocated(mem') \subseteq {texts'["out"].str, texts'["err"].str}
      BY <1>2, <1>3, <2>7 DEF Texts
    <3>5. QED
      BY <1>2, <2>2, <3>1, <3>2, <3>3, <3>4, Zenon DEF Owned
  <2>9. QED
    BY <1>2, <2>5, <2>6, <2>8
<1>6. QED
  BY <1>4, <1>5

(* AppendBytes adds the bytes to the text and leaves the other one. *)
LEMMA AppendFields ==
    ASSUME Owned, NEW t \in Texts, NEW u \in Texts, u # t, NEW bytes \in Seq(Byte), bytes # << >>,
           AppendBytes(t, bytes)
    PROVE  /\ Owned'
           /\ Block(mem', texts'[t].str) = Block(mem, texts[t].str) \o bytes
           /\ texts'[u] = texts[u] /\ Block(mem', texts'[u].str) = Block(mem, texts[u].str)
<1> DEFINE p == texts[t].str
           old == Block(mem, p)
           cap == texts[t].cap
           n == Len(bytes)
           r == ddp_reallocate(mem, p, cap, cap + n)
<1>1. cap \in Nat /\ n \in Nat /\ n > 0 /\ cap = Len(old) /\ Texts = {t, u}
  BY DEF Owned, Texts
<1>2. p \in {NULL} \cup Allocated(mem)
  BY <1>1, SizesAssumption DEF Owned, Allocated, Addresses, Block, NULL
<1>3. old \in Seq(Cell)
  BY <1>2, SizesAssumption DEF Owned, Allocated, Addresses, Block, NULL, Memory
<1>4. PICK x \in Addresses \ Allocated(mem) : \A a \in Addresses \ Allocated(mem) : x =< a
  BY FreeBlock
<1>5. r = realloc(mem, p, cap + n)
  BY <1>1 DEF ddp_reallocate
<1>6. /\ r.ptr = x /\ r.mem \in Memory
      /\ Len(r.mem.heap[x]) = cap + n
      /\ \A k \in 1 .. cap : r.mem.heap[x][k] = old[k]
      /\ \A a \in Addresses \ {x} : r.mem.heap[a] = IF a = p THEN << >> ELSE mem.heap[a]
  <2>1. cap + n \in Nat /\ cap + n >= Len(old) /\ mem \in Memory
    BY <1>1 DEF Owned
  <2>2. Moved(mem, p, cap + n, x, r)
    BY <1>2, <1>4, <1>5, <2>1, ReallocFields
  <2> HIDE DEF r, n, p
  <2>3. QED
    BY <1>1, <2>2 DEF Moved
<1>7. mem' = memcpy(r.mem, r.ptr, cap, bytes, 0, n) /\ texts' = [texts EXCEPT ![t] = [str |-> r.ptr, cap |-> cap + n]]
  BY Zenon DEF AppendBytes
<1> DEFINE blk == r.mem.heap[x]
           cells == [k \in DOMAIN blk |-> IF k \in cap + 1 .. cap + n THEN bytes[0 + k - cap] ELSE blk[k]]
<1> HIDE DEF r
<1>8. blk \in Seq(Cell) /\ x \in Addresses /\ x # NULL
  <2> DEFINE m == r.mem
  <2>1. m \in Memory /\ x \in Addresses
    BY <1>4, <1>6
  <2> HIDE DEF m
  <2>2. m.heap[x] \in Seq(Cell) /\ x # NULL
    BY <2>1, SizesAssumption, SMTT(30) DEF Memory, Addresses, NULL
  <2>3. QED
    BY <2>1, <2>2 DEF m
<1>9. cells \in Seq(Cell) /\ Len(cells) = cap + n /\ cells = old \o bytes
  <2>1. DOMAIN blk = 1 .. cap + n
    BY <1>6, <1>8
  <2>2. \A k \in 1 .. cap + n : cells[k] = (old \o bytes)[k]
    BY <1>1, <1>3, <1>6, <2>1
  <2>3. old \o bytes \in Seq(Cell) /\ Len(old \o bytes) = cap + n
    BY <1>1, <1>3 DEF Cell
  <2>4. DOMAIN cells = 1 .. cap + n
    BY <2>1
  <2>5. cells = [k \in 1 .. cap + n |-> (old \o bytes)[k]]
    BY <2>2, <2>4, Zenon
  <2>6. old \o bytes = [k \in 1 .. cap + n |-> (old \o bytes)[k]]
    BY <2>3
  <2>7. QED
    BY <2>3, <2>5, <2>6, Zenon
<1>10. mem' = [r.mem EXCEPT !.heap[x] = cells]
  <2>1. InBounds(Block(r.mem, r.ptr), cap, n) /\ InBounds(bytes, 0, n) /\ n # 0
    BY <1>1, <1>6, <1>8 DEF InBounds, Block
  <2> HIDE DEF cap, n
  <2>2. QED
    BY <1>6, <1>7, <2>1, Zenon DEF memcpy
<1> HIDE DEF cells
<1>11. mem' \in Memory /\ \A a \in Addresses : mem'.heap[a] = IF a = x THEN cells ELSE r.mem.heap[a]
  <2> DEFINE m == r.mem
             after == [m EXCEPT !.heap[x] = cells]
  <2>1. m \in Memory /\ x \in Addresses /\ cells \in Seq(Cell)
    BY <1>6, <1>8, <1>9
  <2> HIDE DEF m
  <2>2. after \in Memory /\ \A a \in Addresses : after.heap[a] = IF a = x THEN cells ELSE m.heap[a]
    BY <2>1, StoreFields, Zenon
  <2> HIDE DEF after
  <2>3. mem' = after
    BY <1>10, Zenon DEF after, m
  <2>4. QED
    BY <2>2, <2>3, Zenon DEF m
<1>12. texts'[t].str = x /\ texts'[t].cap = cap + n /\ texts'[u] = texts[u] /\ texts' \in [Texts -> [str : 0 .. MaxBlocks, cap : Nat]]
  BY <1>1, <1>6, <1>7, <1>8 DEF Owned, Addresses
<1>13. texts[u].str = NULL \/ (texts[u].str \in Addresses /\ texts[u].str # p /\ texts[u].str \in Allocated(mem))
  BY <1>1, SizesAssumption, SMTT(30) DEF Owned, Addresses, NULL, Allocated, Block, Texts
<1>14. Block(mem', texts'[t].str) = old \o bytes
  BY <1>8, <1>9, <1>11, <1>12, Zenon DEF Block
<1>15. Block(mem', texts'[u].str) = Block(mem, texts[u].str)
  BY <1>4, <1>6, <1>11, <1>12, <1>13 DEF Block
<1>16. Owned'
  <2>1. \A v \in Texts : texts'[v].cap = Len(Block(mem', texts'[v].str))
    <3>1. texts'[t].cap = Len(Block(mem', texts'[t].str))
      BY <1>9, <1>12, <1>14
    <3>2. texts'[u].cap = Len(Block(mem', texts'[u].str))
      BY <1>12, <1>15 DEF Owned
    <3>3. QED
      BY <1>1, <3>1, <3>2
  <2>2. \A v \in Texts : texts'[v].str # NULL => texts'[v].cap > 0
    BY <1>1, <1>12 DEF Owned
  <2>3. texts'["out"].str = texts'["err"].str => texts'["out"].str = NULL
    BY <1>1, <1>4, <1>8, <1>12, <1>13 DEF Texts
  <2>4. Allocated(mem') \subseteq {texts'["out"].str, texts'["err"].str}
    <3>1. ASSUME NEW a \in Addresses, mem'.heap[a] # << >> PROVE a \in {x, texts[u].str}
      <4>1. a # x => mem.heap[a] # << >> /\ a # p
        BY <1>6, <1>11, <3>1
      <4>2. QED
        BY <1>1, <4>1 DEF Owned, Allocated, Texts
    <3>2. QED
      BY <1>1, <1>12, <3>1 DEF Allocated, Texts
  <2>5. QED
    BY <1>11, <1>12, <2>1, <2>2, <2>3, <2>4, Zenon DEF Owned
<1>17. QED
  BY <1>12, <1>14, <1>15, <1>16

-----------------------------------------------------------------------------
(***************************************************************************)
(* The initial states.                                                     *)
(***************************************************************************)
(* The types of the initial states. *)
LEMMA InitType == Init => TypeOK
<1> SUFFICES ASSUME Init PROVE TypeOK
  OBVIOUS
<1>1. input \in Seq(Byte)
  <2>1. PICK n \in 0 .. MaxInput : input = Eingabe(n)
    BY Zenon DEF Init
  <2>2. [k \in 1 .. n |-> INP] \in Seq(Byte)
    BY <2>1, SizesAssumption DEF Byte
  <2> DEFINE s == [k \in 1 .. n |-> INP]
  <2>3. Eingabe(n) = s \o << NUL >> \/ Eingabe(n) = s \o << >>
    BY Zenon DEF Eingabe
  <2> HIDE DEF s
  <2>4. s \o << NUL >> \in Seq(Byte) /\ s \o << >> \in Seq(Byte)
    BY <2>2 DEF Byte, s
  <2>5. QED
    BY <2>1, <2>3, <2>4
<1>2. \A script \in Scripts : script \in Seq(Byte)
  BY SizesAssumption DEF Scripts, Byte
<1>3. PICK script \in Scripts, code \in ExitCodes, missing \in BOOLEAN :
        child = [state |-> "none", missing |-> missing, todo |-> script, code |-> code, got |-> << >>, out |-> << >>, err |-> << >>]
  BY Zenon DEF Init
<1>4. /\ os \in {"linux", "windows"} /\ need_stderr \in BOOLEAN
      /\ pipe = [p \in Pipes |-> Closed] /\ pc = "pipes" /\ fd = "stdout"
  <2>1. os \in {"linux", "windows"} /\ need_stderr \in BOOLEAN
    BY Zenon DEF Init
  <2>2. pipe = [p \in Pipes |-> Closed] /\ pc = "pipes" /\ fd = "stdout"
    BY Zenon DEF Init
  <2>3. QED
    BY <2>1, <2>2
<1>5. child \in ChildRecord
  BY <1>2, <1>3 DEF ChildRecord
<1>6. pipe \in [Pipes -> PipeRecord]
  BY <1>4 DEF Closed, PipeRecord
<1>7. QED
  BY <1>1, <1>4, <1>5, <1>6 DEF TypeOK

(* Before the first step nothing is open, nobody runs, nothing is written, *)
(* and the text of an earlier call, if there is one, has its block.        *)
LEMMA InitIInv == Init /\ ~WindowsReuse => IInv
<1> SUFFICES ASSUME Init, ~WindowsReuse PROVE IInv
  OBVIOUS
<1>1. TypeOK
  BY InitType
<1>2. pipe = [p \in Pipes |-> Closed] /\ pc = "pipes" /\ fd = "stdout"
  BY Zenon DEF Init
<1>3. PICK script \in Scripts, code \in ExitCodes, missing \in BOOLEAN :
        child = [state |-> "none", missing |-> missing, todo |-> script, code |-> code, got |-> << >>, out |-> << >>, err |-> << >>]
  BY Zenon DEF Init
<1>4. child.state = "none" /\ child.out = << >> /\ child.err = << >>
  BY <1>3
<1>5. \A p \in Pipes : pipe[p].rd = {} /\ pipe[p].wr = {} /\ pipe[p].buf = << >>
  BY <1>2 DEF Closed
<1>6. Ends /\ NothingLeft
  BY <1>2, <1>4, <1>5 DEF Ends, NothingLeft, AllRead, Pipes
<1>7. Collected
  BY <1>2, <1>4, <1>5 DEF Collected, Unread, Complete, AllRead, Written, Needed
<1>8. Owned
  <2>1. NoMemory \in Memory /\ Allocated(NoMemory) = {}
    BY DEF NoMemory, Memory, Allocated
  <2>2. CASE mem = NoMemory /\ texts = [t \in {"out", "err"} |-> EmptyText]
    <3>1. \A t \in Texts : texts[t].str = NULL /\ texts[t].cap = 0
      BY <2>2 DEF EmptyText, Texts
    <3>2. texts \in [Texts -> [str : 0 .. MaxBlocks, cap : Nat]]
      BY <2>2, SizesAssumption DEF EmptyText, Texts, NULL
    <3>3. QED
      BY <2>1, <2>2, <3>1, <3>2 DEF Owned, Block, Texts
  <2>3. CASE /\ mem = [NoMemory EXCEPT !.heap[1] = << OUT, NUL >>]
             /\ texts = [out |-> [str |-> 1, cap |-> 2], err |-> EmptyText]
    <3>1. << OUT, NUL >> \in Seq(Cell) /\ 1 \in Addresses
      BY SizesAssumption DEF Cell, Byte, Addresses
    <3>2. /\ [NoMemory EXCEPT !.heap[1] = << OUT, NUL >>] \in Memory
          /\ \A a \in Addresses : [NoMemory EXCEPT !.heap[1] = << OUT, NUL >>].heap[a] = IF a = 1 THEN << OUT, NUL >> ELSE NoMemory.heap[a]
      BY <2>1, <3>1, StoreFields, ZenonT(60)
    <3>3. mem \in Memory /\ \A a \in Addresses : mem.heap[a] = IF a = 1 THEN << OUT, NUL >> ELSE NoMemory.heap[a]
      BY <2>3, <3>2, Zenon
    <3>4. texts = [out |-> [str |-> 1, cap |-> 2], err |-> EmptyText]
      BY <2>3, Zenon
    <3>5. Allocated(mem) = {1}
      BY <2>1, <3>1, <3>3 DEF Allocated
    <3>6. /\ texts["out"].str = 1 /\ texts["out"].cap = 2 /\ texts["err"].str = NULL /\ texts["err"].cap = 0
          /\ texts \in [Texts -> [str : 0 .. MaxBlocks, cap : Nat]]
      BY <3>4, SizesAssumption DEF EmptyText, Texts, NULL
    <3>7. Block(mem, 1) = << OUT, NUL >> /\ Block(mem, NULL) = << >>
      BY <3>1, <3>3 DEF Block, NULL
    <3>8. \A t \in Texts : texts[t].cap = Len(Block(mem, texts[t].str))
      <4>1. Len(Block(mem, 1)) = 2 /\ Len(Block(mem, NULL)) = 0
        BY <3>7
      <4>2. QED
        BY <3>6, <4>1, Zenon DEF Texts
    <3>9. QED
      BY <3>3, <3>5, <3>6, <3>8 DEF Owned, Texts, NULL
  <2>4. QED
    BY <2>2, <2>3, Zenon DEF Init
<1>9. Fresh
  <2>1. os = "windows" => texts = [t \in {"out", "err"} |-> EmptyText]
    BY Zenon DEF Init
  <2>2. QED
    BY <2>1 DEF Fresh, TextFor, EmptyText
<1>10. QED
  BY <1>1, <1>6, <1>7, <1>8, <1>9 DEF IInv, EndsInv

-----------------------------------------------------------------------------
(***************************************************************************)
(* The types and the ends of the pipes.                                    *)
(***************************************************************************)
(* The steps of execute_process preserve the types. *)
LEMMA ParentType == TypeOK /\ Parent /\ UNCHANGED config => TypeOK'
<1> SUFFICES ASSUME TypeOK, Parent, UNCHANGED config PROVE TypeOK'
  OBVIOUS
<1>0. UNCHANGED << os, need_stderr, uninheritable >>
  BY DEF config
<1> USE <1>0 DEF TypeOK
<1>1. CASE PipeFails
  BY <1>1 DEF PipeFails, Return
<1>2. CASE OpenPipes
  BY <1>2, OpenPipesFields DEF OpenPipes
<1>3. CASE ForkFails
  BY <1>3, CloseAllFields DEF ForkFails, Return
<1>4. CASE Fork
  BY <1>4, ForkFields DEF ChildBecomes
<1>5. CASE CloseEnds
  BY <1>5, CloseEndsFields DEF CloseEnds
<1>6. CASE Write
  BY <1>6, WriteFields DEF Refilled
<1>7. CASE WriteFails
  BY <1>7, WriteFailsFields, CloseAllFields DEF Return, ChildBecomes
<1>8. CASE CloseInput
  BY <1>8, CloseInputFields DEF CloseInput
<1>9. CASE Wait
  BY <1>9, WaitFields DEF Return, ChildBecomes
<1>10. CASE BeginRead
  BY <1>10 DEF BeginRead
<1>11. CASE Read
  BY <1>11, ReadFields DEF Refilled
<1>12. CASE EndRead
  BY <1>12, EndReadFields DEF EndRead, AfterReads
<1>13. CASE StartFailed
  BY <1>13 DEF StartFailed, Return
<1>14. CASE Exit
  BY <1>14 DEF Exit, Return
<1>15. CASE InheritFails
  BY <1>15, InheritFailsFields DEF InheritFails, Return
<1>16. CASE WaitFails
  BY <1>16 DEF WaitFails, Return
<1>17. QED
  BY <1>1, <1>2, <1>3, <1>4, <1>5, <1>6, <1>7, <1>8, <1>9, <1>10, <1>11, <1>12, <1>13, <1>14, <1>15, <1>16, Zenon DEF Parent, ParentStep

(* The steps of the child preserve the types. *)
LEMMA ChildType == TypeOK /\ Child /\ UNCHANGED config => TypeOK'
<1> SUFFICES ASSUME TypeOK, Child, UNCHANGED config PROVE TypeOK'
  OBVIOUS
<1>0. UNCHANGED << os, need_stderr, uninheritable, pc, input, fd >>
  BY Zenon DEF config, Child, ChildStep, ParentWaits
<1> USE <1>0 DEF TypeOK
<1>1. CASE Execute
  BY <1>1, ExecuteFields DEF ChildBecomes
<1>2. CASE ChildReads
  BY <1>2, ChildReadsFields DEF ChildBecomes, Refilled
<1>3. ASSUME NEW b \in {OUT, ERR}, ChildWrites(b) PROVE TypeOK'
  BY <1>3, ChildWritesFields DEF ChildBecomes, Refilled
<1>4. CASE ChildExits
  BY <1>4, ChildExitsFields, CloseAllFields DEF ChildBecomes
<1>5. CASE ChildKilled
  BY <1>5, ChildKilledFields, CloseAllFields DEF ChildBecomes
<1>6. QED
  BY <1>1, <1>2, <1>3, <1>4, <1>5, Zenon DEF Child, ChildStep

(* A step that leaves the ends, the position and the child as they are. *)
LEMMA SameEnds ==
    ASSUME Ends, NothingLeft, UNCHANGED << os, need_stderr, uninheritable, pc, ret, fd >>,
           child'.state = child.state, child'.code = child.code,
           \A p \in Pipes : pipe'[p].rd = pipe[p].rd /\ pipe'[p].wr = pipe[p].wr
    PROVE  Ends' /\ NothingLeft'
<1>1. Needed' = Needed /\ NotFound' = NotFound /\ AllRead' = AllRead
  BY DEF Needed, NotFound, AllRead
<1>2. NothingLeft'
  BY DEF NothingLeft
<1>3. \A p \in Pipes : p \notin Needed \/ pc = "pipes" => pipe'[p].rd = {} /\ pipe'[p].wr = {}
  BY DEF Ends
<1>4. child.state \in {"forked", "running"} => \A p \in Needed \ {"stdin"} : "child" \in pipe'[p].wr
  BY DEF Ends, Needed
<1>5. /\ pipe'["stdin"].rd = pipe["stdin"].rd /\ pipe'["stdin"].wr = pipe["stdin"].wr
      /\ pipe'["stdout"].rd = pipe["stdout"].rd /\ pipe'["stdout"].wr = pipe["stdout"].wr
      /\ pipe'["stderr"].rd = pipe["stderr"].rd /\ pipe'["stderr"].wr = pipe["stderr"].wr
  BY DEF Pipes
<1>6. Ends'
  BY <1>1, <1>3, <1>4, <1>5 DEF Ends
<1>7. QED
  BY <1>2, <1>6

(* fork gives the child the ends of the pipes that are needed. *)
LEMMA ForkEnds ==
    ASSUME TypeOK, Ends, Fork, UNCHANGED << os, need_stderr, uninheritable >>
    PROVE  Ends' /\ NothingLeft'
<1>1. /\ pc = "fork" /\ pc' = "close" /\ fd' = fd
      /\ child'.state \in {"forked", "running"}
  BY ForkFields DEF ChildBecomes
<1>2. \A p \in Pipes : /\ p \notin Needed => pipe'[p] = pipe[p]
                       /\ p \in Needed \ {"stdin"} => "child" \in pipe'[p].wr
  BY ForkFields
<1>3. Needed' = Needed /\ Needed \subseteq Pipes
  BY DEF Needed
<1>4. ASSUME NEW p \in Pipes, p \notin Needed PROVE pipe'[p].rd = {} /\ pipe'[p].wr = {}
  <2>1. pipe'[p] = pipe[p]
    BY <1>2, <1>4
  <2>2. pipe[p].rd = {} /\ pipe[p].wr = {}
    BY <1>4 DEF Ends
  <2>3. QED
    BY <2>1, <2>2
<1>5. fd = "stdout"
  BY <1>1 DEF Ends
<1>6. QED
  BY <1>1, <1>2, <1>3, <1>4, <1>5 DEF Ends, NothingLeft, AllRead

(* A child that closes some of its ends, all of them when it exits. *)
LEMMA FewerEnds ==
    ASSUME Ends, NothingLeft, UNCHANGED << os, need_stderr, uninheritable, pc, ret, fd >>,
           child.state \in {"forked", "running"}, child'.state \in {"running", "exited"},
           \A p \in Pipes : pipe'[p].rd \subseteq pipe[p].rd /\ pipe'[p].wr \subseteq pipe[p].wr,
           child'.state = "running" => \A p \in Pipes : p # "stdin" => pipe'[p].wr = pipe[p].wr
    PROVE  Ends' /\ NothingLeft'
<1>1. Needed' = Needed /\ Needed \subseteq Pipes
  BY DEF Needed, Pipes
<1>2. NothingLeft'
  BY DEF NothingLeft
<1>3. \A p \in Pipes : p \notin Needed \/ pc = "pipes" => pipe'[p].rd = {} /\ pipe'[p].wr = {}
  BY DEF Ends
<1>4. child'.state = "running" => \A p \in Needed \ {"stdin"} : "child" \in pipe'[p].wr
  BY <1>1 DEF Ends
<1>5. \A p \in Pipes : /\ "parent" \notin pipe[p].rd => "parent" \notin pipe'[p].rd
                       /\ "parent" \notin pipe[p].wr => "parent" \notin pipe'[p].wr
  OBVIOUS
<1>6. os = "linux" => pc \notin {"read", "reading", "notfound", "exit"}
  BY DEF Ends
<1>7. ~(pc \in {"read", "reading"} /\ os = "linux") /\ pc # "notfound"
  BY <1>6 DEF Ends, NotFound
<1>8. Ends'
  <2>1. AllRead' = AllRead /\ (NotFound => os = "linux") /\ (NotFound' => os = "linux")
    BY DEF AllRead, NotFound
  <2>2. pc \in {"write", "wait", "read", "reading", "exit"} =>
            "parent" \notin pipe'["stdin"].rd \cup pipe'["stdout"].wr \cup pipe'["stderr"].wr
    BY <1>5 DEF Ends, Pipes
  <2>3. pc \in {"wait", "read", "reading", "exit"} => "parent" \notin pipe'["stdin"].wr
    BY <1>5 DEF Ends, Pipes
  <2>4. (pc \in {"read", "reading"} /\ fd = "stderr" /\ ~NotFound') \/ AllRead => "parent" \notin pipe'["stdout"].rd
    BY <1>5, <1>7, <2>1 DEF Ends, Pipes
  <2>5. AllRead => "parent" \notin pipe'["stderr"].rd
    BY <1>5 DEF Ends, Pipes
  <2>6. QED
    BY <1>1, <1>3, <1>4, <1>6, <1>7, <2>1, <2>2, <2>3, <2>4, <2>5 DEF Ends
<1>9. QED
  BY <1>2, <1>8

(* A write and a read change the bytes of a pipe, not its ends. *)
LEMMA TransferEnds ==
    ASSUME TypeOK, Ends, NothingLeft, Write \/ Read, UNCHANGED << os, need_stderr, uninheritable >>
    PROVE  Ends' /\ NothingLeft'
<1>1. CASE Write
  <2>1. UNCHANGED << child, pc, fd, ret >> /\ \A p \in Pipes : pipe'[p].rd = pipe[p].rd /\ pipe'[p].wr = pipe[p].wr
    BY <1>1, WriteFields DEF Refilled
  <2>2. QED
    BY <2>1, SameEnds
<1>2. CASE Read
  <2>1. UNCHANGED << child, pc, fd, ret >>
    BY <1>2, ReadFields
  <2>2. PICK n \in 1 .. Len(pipe[fd].buf) : Refilled(fd, SubSeq(pipe[fd].buf, n + 1, Len(pipe[fd].buf)))
    BY <1>2, ReadFields
  <2>3. \A p \in Pipes : pipe'[p].rd = pipe[p].rd /\ pipe'[p].wr = pipe[p].wr
    BY <2>2 DEF Refilled
  <2>4. QED
    BY <2>1, <2>3, SameEnds
<1>3. QED
  BY <1>1, <1>2

(* The steps of execute_process preserve what is known about the ends. *)
LEMMA ParentEnds == EndsInv /\ Parent /\ UNCHANGED config => Ends' /\ NothingLeft'
<1> SUFFICES ASSUME EndsInv, Parent, UNCHANGED config PROVE Ends' /\ NothingLeft'
  OBVIOUS
<1>0. TypeOK /\ Ends /\ UNCHANGED << os, need_stderr, uninheritable >> /\ Needed' = Needed
  BY DEF config, EndsInv, Needed
<1> USE <1>0 DEF Ends, NothingLeft, AllRead
<1>1. CASE PipeFails
  BY <1>1 DEF PipeFails, Return, NotFound
<1>2. CASE OpenPipes
  BY <1>2, OpenPipesFields, Zenon DEF OpenPipes
<1>3. CASE ForkFails
  BY <1>3, CloseAllFields, SMTT(30) DEF ForkFails, Return
<1>4. CASE Fork
  BY <1>4, ForkEnds, Zenon
<1>5. CASE CloseEnds
  BY <1>5, CloseEndsFields, SMTT(30) DEF CloseEnds, Pipes, Needed
<1>6. CASE Write
  BY <1>6, TransferEnds, Zenon DEF EndsInv
<1>7. CASE WriteFails
  <2>1. /\ pc = "write" /\ UNCHANGED fd /\ pc' \in {"killed", "returned"}
        /\ \/ os = "linux" /\ pc' = "killed" /\ UNCHANGED child
           \/ os = "windows" /\ pc' = "returned" /\ child'.state = "reaped" /\ child'.code = child.code
    BY <1>7, WriteFailsFields DEF Return, ChildBecomes
  <2>2. \A p \in Pipes : pipe'[p].rd = pipe[p].rd \ {"parent"} /\ pipe'[p].wr = pipe[p].wr \ {"parent"}
    BY <1>7, WriteFailsFields, CloseAllFields
  <2>3. NothingLeft'
    BY <2>1, <2>2, Zenon
  <2>4. Ends'
    BY <2>1, <2>2, SMTT(30) DEF Needed, NotFound
  <2>5. QED
    BY <2>3, <2>4
<1>8. CASE CloseInput
  BY <1>8, CloseInputFields, SMTT(30) DEF CloseInput, Pipes
<1>9. CASE Wait
  BY <1>9, WaitFields, Zenon DEF Return, ChildBecomes, NotFound, Pipes
<1>10. CASE BeginRead
  BY <1>10, SMTT(30) DEF BeginRead, NotFound
<1>11. CASE Read
  BY <1>11, TransferEnds, Zenon DEF EndsInv
<1>12. CASE EndRead
  <2>1. UNCHANGED child /\ pc = "reading"
    BY <1>12, Zenon DEF EndRead
  <2>2. \/ NotFound /\ pc' = "notfound" /\ UNCHANGED fd
        \/ ~NotFound /\ fd = "stdout" /\ need_stderr /\ pc' = "read" /\ fd' = "stderr"
        \/ ~NotFound /\ (fd = "stderr" \/ ~need_stderr) /\ pc' = AfterReads /\ UNCHANGED fd
    BY <1>12, Zenon DEF EndRead
  <2>3. \A p \in Pipes : /\ pipe'[p].wr = pipe[p].wr
                         /\ pipe'[p].rd = IF p = fd THEN pipe[p].rd \ {"parent"} ELSE pipe[p].rd
    BY <1>12, EndReadFields, SMTT(30)
  <2>4. os \in {"linux", "windows"} /\ fd \in {"stdout", "stderr"} /\ need_stderr \in BOOLEAN
    BY DEF TypeOK
  <2>5. \A p \in Pipes : pipe'[p].rd \subseteq pipe[p].rd /\ "parent" \notin pipe'[fd].rd
    BY <2>3, <2>4 DEF Pipes
  <2>6. "stderr" \notin Needed => pipe'["stderr"].rd = {}
    BY <2>5, Zenon DEF Pipes
  <2>7. CASE NotFound /\ pc' = "notfound" /\ UNCHANGED fd
    BY <2>1, <2>3, <2>5, <2>7, Zenon DEF NotFound, Needed, Pipes
  <2>8. CASE ~NotFound /\ fd = "stdout" /\ need_stderr /\ pc' = "read" /\ fd' = "stderr"
    BY <2>1, <2>3, <2>5, <2>8, Zenon DEF NotFound, Needed, Pipes
  <2>9. CASE ~NotFound /\ (fd = "stderr" \/ ~need_stderr) /\ pc' = AfterReads /\ UNCHANGED fd
    <3>1. "parent" \notin pipe'["stdout"].rd /\ "parent" \notin pipe'["stderr"].rd
      BY <2>1, <2>4, <2>5, <2>6, <2>9, Zenon DEF Needed, Pipes
    <3>2. QED
      BY <2>1, <2>3, <2>4, <2>5, <2>9, <3>1, Zenon DEF AfterReads, NotFound, Needed, Pipes
  <2>10. QED
    BY <2>2, <2>7, <2>8, <2>9
<1>13. CASE StartFailed
  BY <1>13, Zenon DEF StartFailed, Return, NotFound
<1>14. CASE Exit
  BY <1>14, Zenon DEF Exit, Return, Pipes
<1>15. CASE InheritFails
  <2>1. pc = "pipes" /\ pc' = "returned" /\ ret' = -1 /\ UNCHANGED << child, fd >>
    BY <1>15, Zenon DEF InheritFails, Return
  <2>2. uninheritable # "none"
    BY <1>15, InheritFailsFields DEF Pipes
  <2>3. \A p \in Pipes : p \notin Needed => pipe'[p].rd = {} /\ pipe'[p].wr = {}
    BY <1>15, InheritFailsFields
  <2>4. NothingLeft'
    BY <2>1, <2>2, Zenon
  <2>5. Ends'
    BY <2>1, <2>3, Zenon DEF NotFound
  <2>6. QED
    BY <2>4, <2>5
<1>16. CASE WaitFails
  BY <1>16 DEF WaitFails, Return
<1>17. QED
  BY <1>1, <1>2, <1>3, <1>4, <1>5, <1>6, <1>7, <1>8, <1>9, <1>10, <1>11, <1>12, <1>13, <1>14, <1>15, <1>16, Zenon DEF Parent, ParentStep

(* The steps of the child preserve what is known about the ends. *)
LEMMA ChildEnds == EndsInv /\ Child /\ UNCHANGED config => Ends' /\ NothingLeft'
<1> SUFFICES ASSUME EndsInv, Child, UNCHANGED config PROVE Ends' /\ NothingLeft'
  OBVIOUS
<1>0. /\ TypeOK /\ Ends /\ UNCHANGED << os, need_stderr, uninheritable >> /\ Needed' = Needed
      /\ UNCHANGED << pc, input, ret, fd >>
  <2>1. UNCHANGED << pc, input, ret, fd >>
    BY Zenon DEF Child, ChildStep, ParentWaits
  <2>2. QED
    BY <2>1 DEF config, EndsInv, Needed
<1>01. NothingLeft
  BY Zenon DEF EndsInv
<1> USE <1>0, <1>01
<1>1. CASE Execute
  <2>1. child.state = "forked" /\ child'.state = "running"
    BY <1>1, ExecuteFields DEF ChildBecomes
  <2>2. \A p \in Pipes : /\ pipe'[p].rd \subseteq pipe[p].rd /\ pipe'[p].wr \subseteq pipe[p].wr
                         /\ p # "stdin" => pipe'[p].wr = pipe[p].wr
    BY <1>1, ExecuteFields, ZenonT(60)
  <2>3. QED
    BY <2>1, <2>2, FewerEnds, Zenon
<1>2. CASE ChildReads
  BY <1>2, ChildReadsFields, SameEnds DEF ChildBecomes, Refilled
<1>3. ASSUME NEW b \in {OUT, ERR}, ChildWrites(b) PROVE Ends' /\ NothingLeft'
  BY <1>3, ChildWritesFields, SameEnds DEF ChildBecomes, Refilled
<1>4. CASE ChildExits
  <2>1. child.state = "running" /\ child'.state = "exited"
    BY <1>4, ChildExitsFields DEF ChildBecomes
  <2>2. \A p \in Pipes : pipe'[p].rd \subseteq pipe[p].rd /\ pipe'[p].wr \subseteq pipe[p].wr
    BY <1>4, ChildExitsFields, CloseAllFields
  <2>3. QED
    BY <2>1, <2>2, FewerEnds
<1>5. CASE ChildKilled
  <2>1. child.state \in {"forked", "running"} /\ child'.state = "exited"
    BY <1>5, ChildKilledFields DEF ChildBecomes
  <2>2. \A p \in Pipes : pipe'[p].rd \subseteq pipe[p].rd /\ pipe'[p].wr \subseteq pipe[p].wr
    BY <1>5, ChildKilledFields, CloseAllFields
  <2>3. QED
    BY <2>1, <2>2, FewerEnds
<1>6. QED
  BY <1>1, <1>2, <1>3, <1>4, <1>5, Zenon DEF Child, ChildStep

-----------------------------------------------------------------------------
(***************************************************************************)
(* The texts.                                                              *)
(***************************************************************************)
(* A step that touches neither the texts nor the bytes on their way, and   *)
(* does not start or end a read.                                           *)
LEMMA SameTexts ==
    ASSUME Owned, Fresh, Collected, UNCHANGED << os, need_stderr, uninheritable, mem, texts >>,
           child'.out = child.out, child'.err = child.err,
           \A p \in {"stdout", "stderr"} : pipe'[p].buf = pipe[p].buf,
           child.state \in {"exited", "reaped"} => child'.state \in {"exited", "reaped"},
           pc' = "pipes" => pc = "pipes",
           \A p \in {"stdout", "stderr"} : (Unread(p)' => Unread(p)) /\ (Complete(p)' => Complete(p)),
           pc' = "reading" => pc = "reading" /\ fd' = fd
    PROVE  Owned' /\ Fresh' /\ Collected'
<1>1. Owned'
  BY DEF Owned, Block, Allocated
<1>2. Fresh'
  BY DEF Fresh, TextFor
<1>3. ASSUME NEW p \in Needed \ {"stdin"}
      PROVE  /\ pc' = "pipes" => Written(p)' = << >>
             /\ Unread(p)' => Written(p)' = pipe'[p].buf
             /\ pc' = "reading" /\ fd' = p => Written(p)' = Block(mem, texts[TextFor(p)].str) \o pipe'[p].buf
             /\ Complete(p)' => TextIs(TextFor(p), Written(p))' /\ child'.state \in {"exited", "reaped"}
  <2>1. p \in {"stdout", "stderr"}
    BY DEF Needed, Pipes
  <2>2. Written(p)' = Written(p)
    BY DEF Written
  <2>3. TextIs(TextFor(p), Written(p))' <=> TextIs(TextFor(p), Written(p))
    BY <2>2 DEF TextIs, TextFor
  <2>4. QED
    BY <1>3, <2>1, <2>2, <2>3, Zenon DEF Collected
<1>4. Collected'
  <2>1. Needed' = Needed
    BY DEF Needed
  <2>2. QED
    BY <1>3, <2>1, Zenon DEF Collected
<1>5. QED
  BY <1>1, <1>2, <1>4

(* Concatenation is associative. *)
LEMMA Associative == \A x, y, z \in Seq(Cell) : (x \o y) \o z = x \o (y \o z)
BY SMTT(30)

(* A sequence is its first elements followed by the others. *)
LEMMA SplitSeq ==
    ASSUME NEW s \in Seq(Cell), NEW r \in Seq(Cell), NEW n \in 1 .. Len(s)
    PROVE  (r \o SubSeq(s, 1, n)) \o SubSeq(s, n + 1, Len(s)) = r \o s
<1> DEFINE a == SubSeq(s, 1, n)
           b == SubSeq(s, n + 1, Len(s))
<1>1. a \in Seq(Cell) /\ b \in Seq(Cell)
  OBVIOUS
<1>2. a \o b = s
  <2>1. Len(a \o b) = Len(s) /\ a \o b \in Seq(Cell)
    BY <1>1
  <2>2. \A k \in 1 .. Len(s) : (a \o b)[k] = s[k]
    BY <1>1
  <2>3. QED
    BY <2>1, <2>2
<1> HIDE DEF a, b
<1>3. (r \o a) \o b = r \o (a \o b)
  BY <1>1, Associative, Zenon
<1>4. QED
  BY <1>2, <1>3, Zenon DEF a, b

(* The first read starts with an empty text. *)
LEMMA BeginReadTexts ==
    ASSUME IInv, BeginRead, UNCHANGED << os, need_stderr, uninheritable >>
    PROVE  Owned' /\ Fresh' /\ Collected'
<1> DEFINE t == TextFor(fd)
           u == IF fd = "stderr" THEN "out" ELSE "err"
<1>1. /\ TypeOK /\ Owned /\ Fresh /\ Collected /\ fd \in {"stdout", "stderr"}
      /\ t \in Texts /\ u \in Texts /\ u # t
  BY DEF IInv, EndsInv, TypeOK, TextFor, Texts
<1>2. /\ pc = "read" /\ pc' = "reading" /\ UNCHANGED << child, pipe, fd >>
      /\ mem' = DDP_FREE_ARRAY(mem, texts[t].str, texts[t].cap)
  BY Zenon DEF BeginRead, StartRead
<1>3. /\ texts' \in [Texts -> [str : 0 .. MaxBlocks, cap : Nat]] /\ texts'[u] = texts[u]
      /\ texts'[t].str = NULL /\ texts'[t].cap = 0
  <2>1. texts \in [Texts -> [str : 0 .. MaxBlocks, cap : Nat]]
    BY <1>1 DEF Owned
  <2>2. CASE os = "linux"
    <3>1. texts' = [texts EXCEPT ![t] = EmptyText]
      BY <2>2, Zenon DEF BeginRead, StartRead
    <3>2. EmptyText \in [str : 0 .. MaxBlocks, cap : Nat] /\ EmptyText.str = NULL /\ EmptyText.cap = 0
      BY SizesAssumption DEF EmptyText, NULL
    <3> HIDE DEF t, u
    <3>3. QED
      BY <1>1, <2>1, <3>1, <3>2
  <2>3. CASE os # "linux"
    <3>1. texts[t].str = NULL
      BY <1>1, <1>2, <2>3 DEF Fresh, Unread, TypeOK
    <3> DEFINE e == [texts[t] EXCEPT !["cap"] = 0]
    <3>2. texts' = [texts EXCEPT ![t] = e]
      BY <2>3, Zenon DEF BeginRead, StartRead
    <3>3. e \in [str : 0 .. MaxBlocks, cap : Nat] /\ e.str = NULL /\ e.cap = 0
      BY <1>1, <2>1, <3>1, SMTT(30)
    <3> HIDE DEF e, t, u
    <3>4. QED
      BY <1>1, <2>1, <3>2, <3>3
  <2>4. QED
    BY <2>2, <2>3
<1>4. /\ Owned'
      /\ Block(mem', texts'[t].str) = << >>
      /\ Block(mem', texts'[u].str) = Block(mem, texts[u].str)
  <2> HIDE DEF t, u
  <2>1. QED
    BY <1>1, <1>2, <1>3, ReleaseFields, Zenon
<1>5. Fresh'
  <2>1. \A p \in {"stdout", "stderr"} : Unread(p)' => Unread(p) /\ TextFor(p) = u
    BY <1>1, <1>2, SMTT(30) DEF Unread, TextFor
  <2>2. QED
    BY <1>1, <1>3, <2>1 DEF Fresh, TextFor
<1>6. ASSUME NEW p \in Needed \ {"stdin"}
      PROVE  /\ Unread(p)' => Written(p)' = pipe'[p].buf
             /\ fd' = p => Written(p)' = Block(mem', texts'[TextFor(p)].str) \o pipe'[p].buf
             /\ Complete(p)' => TextIs(TextFor(p), Written(p))' /\ child'.state \in {"exited", "reaped"}
  <2>1. p \in {"stdout", "stderr"} /\ Written(p)' = Written(p) /\ pipe[p].buf \in Seq(Byte)
    BY <1>1, <1>2 DEF Needed, Pipes, Written, TypeOK, PipeRecord
  <2>2. Unread(p)' => Unread(p)
    BY <1>2 DEF Unread
  <2>3. fd = p => Unread(p) /\ t = TextFor(p)
    BY <1>2 DEF Unread
  <2>4. Complete(p)' => Complete(p) /\ TextFor(p) = u
    BY <1>1, <1>2, Zenon DEF Complete, AllRead, TextFor, NotFound
  <2>5. TextFor(p) = u => TextIs(TextFor(p), Written(p))' = TextIs(TextFor(p), Written(p))
    BY <1>3, <1>4, <2>1, Zenon DEF TextIs, TextFor
  <2>6. fd = p => << >> \o pipe[p].buf = pipe[p].buf
    BY <2>1
  <2>7. QED
    BY <1>1, <1>2, <1>4, <1>6, <2>1, <2>2, <2>3, <2>4, <2>5, <2>6, Zenon DEF Collected
<1>7. Collected'
  BY <1>2, <1>6, ZenonT(60) DEF Collected, Needed
<1>8. QED
  BY <1>4, <1>5, <1>7

(* A read moves bytes from the pipe to the end of the text. *)
LEMMA ReadTexts ==
    ASSUME IInv, Read, UNCHANGED << os, need_stderr, uninheritable >>
    PROVE  Owned' /\ Fresh' /\ Collected'
<1> DEFINE t == TextFor(fd)
           u == IF fd = "stderr" THEN "out" ELSE "err"
           buf == pipe[fd].buf
<1>1. /\ TypeOK /\ Owned /\ Fresh /\ Collected /\ fd \in {"stdout", "stderr"}
      /\ t \in Texts /\ u \in Texts /\ u # t /\ buf \in Seq(Byte)
  BY DEF IInv, EndsInv, TypeOK, TextFor, Texts, Pipes, PipeRecord
<1>2. pc = "reading" /\ UNCHANGED << child, pc, fd >>
  BY <1>1, ReadFields
<1>3. PICK n \in 1 .. Len(buf) : /\ AppendBytes(t, SubSeq(buf, 1, n))
                                 /\ Refilled(fd, SubSeq(buf, n + 1, Len(buf)))
  BY <1>1, ReadFields
<1> DEFINE first == SubSeq(buf, 1, n)
           rest == SubSeq(buf, n + 1, Len(buf))
<1>4. first \in Seq(Byte) /\ first # << >>
  BY <1>1, <1>3
<1>5. /\ Owned'
      /\ Block(mem', texts'[t].str) = Block(mem, texts[t].str) \o first
      /\ texts'[u] = texts[u] /\ Block(mem', texts'[u].str) = Block(mem, texts[u].str)
  <2> HIDE DEF t, u, first
  <2>1. QED
    BY <1>1, <1>3, <1>4, AppendFields, Zenon DEF first
<1>6. Fresh'
  <2>1. \A p \in {"stdout", "stderr"} : Unread(p)' => Unread(p) /\ TextFor(p) = u
    BY <1>1, <1>2 DEF Unread, TextFor
  <2>2. QED
    BY <1>1, <1>5, <2>1 DEF Fresh, TextFor
<1>7. ASSUME NEW p \in Needed \ {"stdin"}
      PROVE  /\ Unread(p)' => Written(p)' = pipe'[p].buf
             /\ fd' = p => Written(p)' = Block(mem', texts'[TextFor(p)].str) \o pipe'[p].buf
             /\ Complete(p)' => TextIs(TextFor(p), Written(p))' /\ child'.state \in {"exited", "reaped"}
  <2>1. p \in {"stdout", "stderr"} /\ Written(p)' = Written(p)
    BY <1>2 DEF Needed, Pipes, Written
  <2>2. Unread(p)' => Unread(p) /\ p # fd
    BY <1>2 DEF Unread
  <2>3. pipe'[p].buf = IF p = fd THEN rest ELSE pipe[p].buf
    BY <1>3, <2>1 DEF Refilled, Pipes
  <2>4. fd = p => Block(mem', texts'[t].str) \o rest = Block(mem, texts[t].str) \o buf
    <3>1. Block(mem, texts[t].str) \in Seq(Cell) /\ buf \in Seq(Cell)
      <4>1. texts[t].str = NULL \/ texts[t].str \in Addresses
        BY <1>1, SizesAssumption DEF Owned, Addresses, NULL
      <4>2. QED
        BY <1>1, <4>1 DEF Owned, Block, Memory, Cell
    <3>2. QED
      BY <1>3, <1>5, <3>1, SplitSeq, Zenon
  <2>5. Complete(p)' => Complete(p) /\ TextFor(p) = u
    BY <1>1, <1>2, Zenon DEF Complete, AllRead, TextFor, NotFound
  <2>6. TextFor(p) = u => TextIs(TextFor(p), Written(p))' = TextIs(TextFor(p), Written(p))
    BY <1>5, <2>1, Zenon DEF TextIs, TextFor
  <2>7. fd = p => t = TextFor(p)
    OBVIOUS
  <2> HIDE DEF t, u, first, rest
  <2>8. QED
    BY <1>1, <1>2, <1>7, <2>1, <2>2, <2>3, <2>4, <2>5, <2>6, <2>7, Zenon DEF Collected
<1>8. Collected'
  BY <1>2, <1>7, Zenon DEF Collected, Needed
<1>9. QED
  BY <1>5, <1>6, <1>8

(* At the end of the pipe the child has exited and all it wrote is in the  *)
(* text, which gets its zero byte.                                         *)
LEMMA EndReadTexts ==
    ASSUME IInv, EndRead, UNCHANGED << os, need_stderr, uninheritable >>
    PROVE  Owned' /\ Fresh' /\ Collected'
<1> DEFINE t == TextFor(fd)
           u == IF fd = "stderr" THEN "out" ELSE "err"
<1>1. /\ TypeOK /\ Ends /\ Owned /\ Fresh /\ Collected /\ fd \in {"stdout", "stderr"}
      /\ t \in Texts /\ u \in Texts /\ u # t
  BY DEF IInv, EndsInv, TypeOK, TextFor, Texts
<1>2. /\ pc = "reading" /\ UNCHANGED << child, ret >>
      /\ pipe[fd].buf = << >> /\ pipe[fd].wr = {} /\ AppendBytes(t, << NUL >>)
  BY Zenon DEF EndRead, EndOfText
<1>3. \/ NotFound /\ pc' = "notfound" /\ UNCHANGED fd
      \/ ~NotFound /\ fd = "stdout" /\ need_stderr /\ pc' = "read" /\ fd' = "stderr"
      \/ ~NotFound /\ (fd = "stderr" \/ ~need_stderr) /\ pc' = AfterReads /\ UNCHANGED fd
  BY Zenon DEF EndRead
<1>4. fd \in Needed /\ fd \in Needed \ {"stdin"}
  BY <1>1, Zenon DEF Needed, Pipes, Ends
<1>5. child.state \in {"exited", "reaped"}
  BY <1>1, <1>2, <1>4 DEF Ends, TypeOK, ChildRecord
<1>6. /\ Owned'
      /\ Block(mem', texts'[t].str) = Block(mem, texts[t].str) \o << NUL >>
      /\ texts'[u] = texts[u] /\ Block(mem', texts'[u].str) = Block(mem, texts[u].str)
  <2>1. << NUL >> \in Seq(Byte) /\ << NUL >> # << >>
    BY DEF Byte
  <2> HIDE DEF t, u
  <2>2. QED
    BY <1>1, <1>2, <2>1, AppendFields, Zenon
<1>7. texts'[t].cap = Len(Written(fd)) + 1 /\ Block(mem', texts'[t].str) = Written(fd) \o << NUL >>
  <2>1. Written(fd) = Block(mem, texts[t].str) \o pipe[fd].buf
    BY <1>1, <1>2, <1>4, Zenon DEF Collected
  <2>2. Block(mem, texts[t].str) \in Seq(Cell)
    <3>1. texts[t].str = NULL \/ texts[t].str \in Addresses
      BY <1>1, SizesAssumption DEF Owned, Addresses, NULL
    <3>2. QED
      BY <1>1, <3>1 DEF Owned, Block, Memory, Cell
  <2>3. Written(fd) = Block(mem, texts[t].str)
    BY <1>2, <2>1, <2>2
  <2>4. texts'[t].cap = Len(Block(mem', texts'[t].str))
    BY <1>1, <1>6, Zenon DEF Owned
  <2>5. texts'[t].cap = Len(Written(fd)) + 1
    BY <1>6, <2>2, <2>3, <2>4, SMTT(30)
  <2>6. QED
    BY <1>6, <2>3, <2>5
<1>8. Fresh'
  <2>1. \A p \in {"stdout", "stderr"} : Unread(p)' => Unread(p) /\ TextFor(p) = u
    BY <1>1, <1>2, <1>3 DEF Unread, TextFor, AfterReads
  <2>2. QED
    BY <1>1, <1>6, <2>1 DEF Fresh, TextFor
<1>9. ASSUME NEW p \in Needed \ {"stdin"}
      PROVE  /\ Unread(p)' => Written(p)' = pipe'[p].buf
             /\ Complete(p)' => TextIs(TextFor(p), Written(p))' /\ child'.state \in {"exited", "reaped"}
  <2>1. p \in {"stdout", "stderr"} /\ Written(p)' = Written(p)
    BY <1>2 DEF Needed, Pipes, Written
  <2>2. Unread(p)' => Unread(p)
    BY <1>2, <1>3 DEF Unread, AfterReads
  <2>3. pipe'[p].buf = pipe[p].buf
    BY <1>1, <2>1, EndReadFields DEF Pipes
  <2>4. Complete(p)' => p = fd \/ (Complete(p) /\ TextFor(p) = u)
    <3>1. fd = "stderr" => need_stderr
      BY <1>1 DEF Ends
    <3>2. p = "stderr" => need_stderr
      BY DEF Needed
    <3>3. Complete(p)' => ~NotFound
      BY <1>2, <1>3 DEF Complete, AllRead, AfterReads, NotFound
    <3>4. CASE fd = "stdout" /\ need_stderr /\ pc' = "read" /\ fd' = "stderr"
      BY <1>2, <2>1, <3>4, SMTT(30) DEF Complete, AllRead
    <3>5. CASE ~NotFound /\ (fd = "stderr" \/ ~need_stderr)
      BY <1>1, <1>2, <2>1, <3>1, <3>2, <3>5, SMTT(30) DEF Complete, TextFor
    <3>6. QED
      BY <1>3, <3>3, <3>4, <3>5
  <2>5. CASE p = fd
    <3>1. TextIs(TextFor(p), Written(p))'
      BY <1>7, <2>1, <2>5 DEF TextIs, TextFor
    <3>2. QED
      BY <1>1, <1>2, <1>5, <1>9, <2>1, <2>2, <2>3, <3>1, Zenon DEF Collected
  <2>6. CASE p # fd
    <3>1. TextFor(p) = u => TextIs(TextFor(p), Written(p))' = TextIs(TextFor(p), Written(p))
      BY <1>6, <2>1, Zenon DEF TextIs, TextFor
    <3> HIDE DEF t, u
    <3>2. QED
      BY <1>1, <1>2, <1>5, <1>9, <2>1, <2>2, <2>3, <2>4, <2>6, <3>1, Zenon DEF Collected
  <2>7. QED
    BY <2>5, <2>6
<1>10. Collected'
  <2>1. pc' \notin {"pipes", "reading"} /\ Needed' = Needed
    BY <1>3 DEF AfterReads, Needed
  <2>2. QED
    BY <1>9, <2>1, Zenon DEF Collected
<1>11. QED
  BY <1>6, <1>8, <1>10

(* The error output of a program that cannot be started is released. *)
LEMMA StartFailedTexts ==
    ASSUME IInv, StartFailed, UNCHANGED << os, need_stderr, uninheritable >>
    PROVE  Owned' /\ Fresh' /\ Collected'
<1> DEFINE t == ErrOutput
           u == IF need_stderr THEN "out" ELSE "err"
<1>1. Owned /\ t \in Texts /\ u \in Texts /\ u # t
  BY DEF IInv, ErrOutput, Texts
<1>2. /\ mem' = DDP_FREE_ARRAY(mem, texts[t].str, texts[t].cap)
      /\ texts' = [texts EXCEPT ![t] = EmptyText] /\ pc' = "returned" /\ ret' = -1
  BY Zenon DEF StartFailed, Return
<1>3. EmptyText \in [str : 0 .. MaxBlocks, cap : Nat] /\ EmptyText.str = NULL /\ EmptyText.cap = 0
  BY SizesAssumption DEF EmptyText, NULL
<1>4. Owned'
  <2> HIDE DEF t, u
  <2>1. /\ texts' \in [Texts -> [str : 0 .. MaxBlocks, cap : Nat]] /\ texts'[u] = texts[u]
        /\ texts'[t].str = NULL /\ texts'[t].cap = 0
    BY <1>1, <1>2, <1>3, Zenon DEF Owned
  <2>2. QED
    BY <1>1, <1>2, <2>1, ReleaseFields
<1>5. Fresh' /\ Collected'
  BY <1>2 DEF Fresh, Collected, Unread, Complete, AllRead
<1>6. QED
  BY <1>4, <1>5

(* The steps of execute_process keep the texts in order. *)
LEMMA ParentTexts == IInv /\ Parent /\ UNCHANGED config => Owned' /\ Fresh' /\ Collected'
<1> SUFFICES ASSUME IInv, Parent, UNCHANGED config PROVE Owned' /\ Fresh' /\ Collected'
  OBVIOUS
<1>0. TypeOK /\ Ends /\ Owned /\ Fresh /\ Collected /\ UNCHANGED << os, need_stderr, uninheritable >>
  BY DEF config, IInv, EndsInv
<1> USE <1>0
<1>1. CASE PipeFails
  <2>1. /\ UNCHANGED << mem, texts >> /\ pc' = "returned" /\ ret' = -1
        /\ UNCHANGED child /\ \A p \in {"stdout", "stderr"} : pipe'[p].buf = pipe[p].buf
    BY <1>1, Zenon DEF PipeFails, Return
  <2>2. \A p : (Unread(p)' => Unread(p)) /\ (Complete(p)' => Complete(p))
    BY <2>1 DEF Unread, Complete, AllRead
  <2>3. QED
    BY <2>1, <2>2, SameTexts, Zenon
<1>2. CASE OpenPipes
  <2>1. UNCHANGED << child, mem, texts, fd >> /\ pc = "pipes" /\ pc' = "fork" /\ \A p \in Pipes : pipe'[p].buf = << >>
    BY <1>2, OpenPipesFields, Zenon DEF OpenPipes
  <2>2. Owned'
    BY <2>1 DEF Owned, Block, Allocated
  <2>3. Fresh'
    BY <2>1, Zenon DEF Fresh, TextFor, Unread
  <2>4. Collected'
    BY <2>1, SMTT(30) DEF Collected, Needed, Written, Pipes, Unread, Complete, AllRead
  <2>5. QED
    BY <2>2, <2>3, <2>4, Zenon
<1>3. CASE ForkFails
  <2>1. /\ UNCHANGED << mem, texts >> /\ pc' = "returned" /\ ret' = -1
        /\ UNCHANGED child /\ \A p \in {"stdout", "stderr"} : pipe'[p].buf = pipe[p].buf
    BY <1>3, CloseAllFields DEF ForkFails, Return, Pipes
  <2>2. \A p : (Unread(p)' => Unread(p)) /\ (Complete(p)' => Complete(p))
    BY <2>1 DEF Unread, Complete, AllRead
  <2>3. QED
    BY <2>1, <2>2, SameTexts, Zenon
<1>4. CASE Fork
  <2>1. /\ UNCHANGED << mem, texts >> /\ pc = "fork" /\ pc' = "close"
        /\ child'.out = child.out /\ child'.err = child.err /\ child.state = "none" /\ \A p \in {"stdout", "stderr"} : pipe'[p].buf = pipe[p].buf
    BY <1>4, ForkFields DEF ChildBecomes, Ends, Pipes
  <2>2. \A p : (Unread(p)' => Unread(p)) /\ (Complete(p)' => Complete(p))
    BY <2>1 DEF Unread, Complete, AllRead
  <2>3. QED
    BY <2>1, <2>2, SameTexts, Zenon
<1>5. CASE CloseEnds
  <2>1. /\ UNCHANGED << mem, texts >> /\ pc = "close" /\ pc' = "write"
        /\ UNCHANGED child /\ \A p \in {"stdout", "stderr"} : pipe'[p].buf = pipe[p].buf
    BY <1>5, CloseEndsFields DEF CloseEnds, Pipes
  <2>2. \A p : (Unread(p)' => Unread(p)) /\ (Complete(p)' => Complete(p))
    BY <2>1 DEF Unread, Complete, AllRead
  <2>3. QED
    BY <2>1, <2>2, SameTexts, Zenon
<1>6. CASE Write
  <2>1. /\ UNCHANGED << mem, texts >> /\ pc = "write" /\ pc' = "write"
        /\ UNCHANGED child /\ \A p \in {"stdout", "stderr"} : pipe'[p].buf = pipe[p].buf
    BY <1>6, WriteFields DEF Refilled, Pipes
  <2>2. \A p : (Unread(p)' => Unread(p)) /\ (Complete(p)' => Complete(p))
    BY <2>1 DEF Unread, Complete, AllRead
  <2>3. QED
    BY <2>1, <2>2, SameTexts, Zenon
<1>7. CASE WriteFails
  <2>1. /\ UNCHANGED << mem, texts >> /\ (pc' = "killed" \/ (pc' = "returned" /\ ret' = -1))
        /\ child'.out = child.out /\ child'.err = child.err /\ child'.state \in {child.state, "reaped"}
        /\ \A p \in {"stdout", "stderr"} : pipe'[p].buf = pipe[p].buf
    <3>1. pipe' = CloseAll(Pipes, "parent") /\ UNCHANGED << mem, texts >>
      BY <1>7, WriteFailsFields, Zenon
    <3>2. \A p \in {"stdout", "stderr"} : pipe'[p].buf = pipe[p].buf
      BY <3>1, CloseAllFields DEF Pipes
    <3>3. \/ pc' = "killed" /\ UNCHANGED child
          \/ pc' = "returned" /\ ret' = -1 /\ ChildBecomes("reaped", child.code, child.out, child.err)
      BY <1>7, WriteFailsFields, Zenon DEF Return
    <3>4. child'.out = child.out /\ child'.err = child.err /\ child'.state \in {child.state, "reaped"}
      BY <3>3, Zenon DEF ChildBecomes
    <3>5. QED
      BY <3>1, <3>2, <3>3, <3>4, Zenon
  <2>2. \A p : (Unread(p)' => Unread(p)) /\ (Complete(p)' => Complete(p))
    BY <2>1 DEF Unread, Complete, AllRead
  <2>3. QED
    BY <2>1, <2>2, SameTexts, Zenon
<1>8. CASE CloseInput
  <2>1. /\ UNCHANGED << mem, texts >> /\ pc = "write" /\ pc' = (IF os = "linux" THEN "wait" ELSE "read") /\ UNCHANGED fd /\ fd = "stdout"
        /\ UNCHANGED child /\ \A p \in {"stdout", "stderr"} : pipe'[p].buf = pipe[p].buf
    BY <1>8, CloseInputFields DEF CloseInput, Pipes, Ends
  <2>2. \A p : (Unread(p)' => Unread(p)) /\ (Complete(p)' => Complete(p))
    BY <2>1 DEF Unread, Complete, AllRead
  <2>3. QED
    BY <2>1, <2>2, SameTexts, Zenon
<1>9. CASE Wait
  <2>1. /\ UNCHANGED << mem, texts >> /\ pc = "wait" /\ pc' \in {"read", "returned"}
        /\ child'.out = child.out /\ child'.err = child.err /\ child'.code = child.code /\ child'.state = "reaped"
        /\ \A p \in {"stdout", "stderr"} : pipe'[p].buf = pipe[p].buf
    BY <1>9, WaitFields DEF Return, ChildBecomes
  <2>2. \/ os = "linux" /\ pc' = "read" /\ fd' = IF NotFound /\ need_stderr THEN "stderr" ELSE "stdout"
        \/ os = "windows" /\ pc' = "returned"
    BY <1>9, WaitFields, Zenon DEF Return
  <2>3. \A p : (Unread(p)' => Unread(p)) /\ (Complete(p)' => Complete(p))
    BY <2>1, <2>2 DEF Unread, Complete, AllRead, NotFound
  <2>4. QED
    BY <2>1, <2>3, SameTexts, Zenon
<1>10. CASE BeginRead
  BY <1>10, BeginReadTexts
<1>11. CASE Read
  BY <1>11, ReadTexts, SMTT(30)
<1>12. CASE EndRead
  BY <1>12, EndReadTexts
<1>13. CASE StartFailed
  BY <1>13, StartFailedTexts
<1>14. CASE Exit
  <2>1. /\ UNCHANGED << mem, texts, child >> /\ pc = "exit" /\ pc' = "returned" /\ \A p \in {"stdout", "stderr"} : pipe'[p].buf = pipe[p].buf
    BY <1>14, Zenon DEF Exit, Return
  <2>2. \A p : (Unread(p)' => Unread(p)) /\ (Complete(p)' => Complete(p))
    BY <2>1 DEF Unread, Complete, AllRead
  <2>3. QED
    BY <2>1, <2>2, SameTexts, Zenon
<1>15. CASE InheritFails
  <2>1. UNCHANGED << child, mem, texts, fd >> /\ pc = "pipes" /\ pc' = "returned" /\ ret' = -1
    BY <1>15, Zenon DEF InheritFails, Return
  <2>2. Owned'
    BY <2>1 DEF Owned, Block, Allocated
  <2>3. Fresh'
    BY <2>1 DEF Fresh, Unread
  <2>4. Collected'
    BY <2>1 DEF Collected, Unread, Complete, AllRead
  <2>5. QED
    BY <2>2, <2>3, <2>4
<1>16. CASE WaitFails
  <2>1. /\ UNCHANGED << mem, texts >> /\ pc' = "returned" /\ ret' = -1
        /\ UNCHANGED child /\ \A p \in {"stdout", "stderr"} : pipe'[p].buf = pipe[p].buf
    BY <1>16, Zenon DEF WaitFails, Return
  <2>2. \A p : (Unread(p)' => Unread(p)) /\ (Complete(p)' => Complete(p))
    BY <2>1 DEF Unread, Complete, AllRead
  <2>3. QED
    BY <2>1, <2>2, SameTexts, Zenon
<1>17. QED
  BY <1>1, <1>2, <1>3, <1>4, <1>5, <1>6, <1>7, <1>8, <1>9, <1>10, <1>11, <1>12, <1>13, <1>14, <1>15, <1>16, Zenon DEF Parent, ParentStep

(* What the child writes is in its pipe, in its order. *)
LEMMA ChildWritesTexts ==
    ASSUME IInv, NEW b \in {OUT, ERR}, ChildWrites(b), UNCHANGED << os, need_stderr, uninheritable, pc, fd, ret, mem, texts >>
    PROVE  Owned' /\ Fresh' /\ Collected'
<1> DEFINE q == Target(b)
           old(p) == Block(mem, texts[TextFor(p)].str)
<1>1. TypeOK /\ Ends /\ Owned /\ Fresh /\ Collected
  BY DEF IInv, EndsInv
<1>2. child.state = "running" /\ Refilled(q, Append(pipe[q].buf, b)) /\ q \in {"stdout", "stderr"}
  BY <1>1, ChildWritesFields, SMTT(30) DEF Target
<1>3. \A p \in {"stdout", "stderr"} : Written(p)' = IF p = q THEN Append(Written(p), b) ELSE Written(p)
  BY <1>1, <1>2, ChildWritesFields, Zenon DEF ChildBecomes, Written
<1>4. child'.code = child.code /\ child'.state = "running"
  BY <1>1, ChildWritesFields, Zenon DEF ChildBecomes
<1>5. pc # "pipes"
  BY <1>1, <1>2, Zenon DEF Ends
<1>6. Owned' /\ Fresh'
  BY <1>1 DEF Owned, Block, Allocated, Fresh, Unread, TextFor
<1>7. \A p : (Unread(p)' <=> Unread(p)) /\ (Complete(p)' <=> Complete(p))
  BY <1>4 DEF Unread, Complete, AllRead, NotFound
<1>8. ASSUME NEW p \in Needed \ {"stdin"}
      PROVE  /\ Unread(p)' => Written(p)' = pipe'[p].buf
             /\ pc = "reading" /\ fd = p => Written(p)' = old(p) \o pipe'[p].buf
             /\ ~Complete(p)'
  <2>1. p \in {"stdout", "stderr"} /\ p \in Pipes
    BY SMTT(30) DEF Needed, Pipes
  <2>2. pipe'[p].buf = IF p = q THEN Append(pipe[p].buf, b) ELSE pipe[p].buf
    BY <1>2, <2>1, SMTT(30) DEF Refilled
  <2>3. ~Complete(p)'
    BY <1>1, <1>2, <1>7, <1>8, Zenon DEF Collected
  <2>4. Unread(p)' => Written(p)' = pipe'[p].buf
    BY <1>1, <1>3, <1>7, <1>8, <2>1, <2>2, Zenon DEF Collected
  <2>5. pc = "reading" /\ fd = p => Written(p) = old(p) \o pipe[p].buf
    BY <1>1, <1>8, Zenon DEF Collected
  <2>6. old(p) \in Seq(Cell) /\ pipe[p].buf \in Seq(Cell) /\ b \in Cell
    <3>1. TextFor(p) \in Texts
      BY DEF TextFor, Texts
    <3>2. texts[TextFor(p)].str = NULL \/ texts[TextFor(p)].str \in Addresses
      BY <1>1, <3>1, SizesAssumption DEF Owned, Addresses, NULL
    <3>3. pipe[p].buf \in Seq(Byte)
      BY <1>1, <2>1 DEF TypeOK, PipeRecord
    <3>4. QED
      BY <1>1, <3>2, <3>3 DEF Owned, Block, Memory, Cell, Byte
  <2>7. Append(old(p) \o pipe[p].buf, b) = old(p) \o Append(pipe[p].buf, b)
    <3> DEFINE x == old(p)
               y == pipe[p].buf
    <3>1. x \in Seq(Cell) /\ y \in Seq(Cell) /\ b \in Cell
      BY <2>6
    <3> HIDE DEF x, y
    <3>2. Append(x \o y, b) = x \o Append(y, b)
      BY <3>1, SMTT(30)
    <3>3. QED
      BY <3>2 DEF x, y
  <2> HIDE DEF old, q
  <2>8. pc = "reading" /\ fd = p => Written(p)' = old(p) \o pipe'[p].buf
    BY <1>3, <2>1, <2>2, <2>5, <2>7, Zenon
  <2>9. QED
    BY <2>3, <2>4, <2>8
<1>9. Collected'
  BY <1>5, <1>8, ZenonT(60) DEF Collected, Needed, TextFor
<1>10. QED
  BY <1>6, <1>9

(* The steps of the child keep the texts in order. *)
LEMMA ChildTexts == IInv /\ Child /\ UNCHANGED config => Owned' /\ Fresh' /\ Collected'
<1> SUFFICES ASSUME IInv, Child, UNCHANGED config PROVE Owned' /\ Fresh' /\ Collected'
  OBVIOUS
<1>0. /\ TypeOK /\ Owned /\ Fresh /\ Collected
      /\ UNCHANGED << os, need_stderr, uninheritable, pc, ret, mem, texts, fd >>
  <2>1. UNCHANGED << pc, ret, mem, texts, fd >>
    BY Zenon DEF Child, ChildStep, ParentWaits
  <2>2. QED
    BY <2>1 DEF config, IInv, EndsInv
<1>1. CASE Execute
  <2>1. /\ child'.out = child.out /\ child'.err = child.err /\ child.state = "forked"
        /\ child'.code \in {child.code, NOT_FOUND} /\ \A p \in {"stdout", "stderr"} : pipe'[p].buf = pipe[p].buf
    BY <1>0, <1>1, ExecuteFields, SMTT(30) DEF ChildBecomes, Pipes
  <2>2. \A p : (Unread(p)' => Unread(p)) /\ (Complete(p)' => Complete(p))
    BY <1>0, <2>1 DEF Unread, Complete, AllRead, NotFound
  <2>3. QED
    BY <1>0, <2>1, <2>2, SameTexts, Zenon
<1>2. CASE ChildReads
  <2>1. /\ child'.out = child.out /\ child'.err = child.err /\ child'.state = child.state /\ child'.code = child.code
        /\ \A p \in {"stdout", "stderr"} : pipe'[p].buf = pipe[p].buf
    BY <1>0, <1>2, ChildReadsFields DEF ChildBecomes, Refilled, Pipes
  <2>2. \A p : (Unread(p)' => Unread(p)) /\ (Complete(p)' => Complete(p))
    BY <1>0, <2>1 DEF Unread, Complete, AllRead, NotFound
  <2>3. QED
    BY <1>0, <2>1, <2>2, SameTexts, Zenon
<1>3. ASSUME NEW b \in {OUT, ERR}, ChildWrites(b) PROVE Owned' /\ Fresh' /\ Collected'
  BY <1>0, <1>3, ChildWritesTexts, SMTT(30)
<1>4. CASE ChildExits
  <2>1. /\ child'.out = child.out /\ child'.err = child.err /\ child'.state = "exited" /\ child'.code = child.code
        /\ \A p \in {"stdout", "stderr"} : pipe'[p].buf = pipe[p].buf
    BY <1>0, <1>4, ChildExitsFields, CloseAllFields DEF ChildBecomes, Pipes
  <2>2. \A p : (Unread(p)' => Unread(p)) /\ (Complete(p)' => Complete(p))
    BY <1>0, <2>1 DEF Unread, Complete, AllRead, NotFound
  <2>3. QED
    BY <1>0, <2>1, <2>2, SameTexts, Zenon
<1>5. CASE ChildKilled
  <2>1. /\ child'.out = child.out /\ child'.err = child.err /\ child'.state = "exited" /\ os = "linux"
        /\ child.state \in {"forked", "running"} /\ \A p \in {"stdout", "stderr"} : pipe'[p].buf = pipe[p].buf
    BY <1>0, <1>5, ChildKilledFields, CloseAllFields DEF ChildBecomes, Pipes
  <2>2. pc \notin {"read", "reading"}
    BY <2>1 DEF IInv, EndsInv, Ends
  <2>3. \A p : (Unread(p)' => Unread(p)) /\ (Complete(p)' => Complete(p))
    BY <1>0, <2>2 DEF Unread, Complete, AllRead
  <2>4. QED
    BY <1>0, <2>1, <2>3, SameTexts, Zenon
<1>6. QED
  BY <1>1, <1>2, <1>3, <1>4, <1>5, Zenon DEF Child, ChildStep

-----------------------------------------------------------------------------
(***************************************************************************)
(* The theorems.                                                           *)
(***************************************************************************)
(* The types, the ends and what is left hold in every initial state. *)
LEMMA InitEnds == Init => EndsInv
<1> SUFFICES ASSUME Init PROVE EndsInv
  OBVIOUS
<1>1. pipe = [p \in Pipes |-> Closed] /\ pc = "pipes" /\ fd = "stdout"
  BY Zenon DEF Init
<1>2. child.state = "none"
  <2>1. PICK script \in Scripts, code \in ExitCodes, missing \in BOOLEAN :
          child = [state |-> "none", missing |-> missing, todo |-> script, code |-> code, got |-> << >>, out |-> << >>, err |-> << >>]
    BY Zenon DEF Init
  <2>2. QED
    BY <2>1
<1>3. \A p \in Pipes : pipe[p].rd = {} /\ pipe[p].wr = {}
  BY <1>1 DEF Closed
<1>4. Ends /\ NothingLeft
  BY <1>1, <1>2, <1>3 DEF Ends, NothingLeft, AllRead, Pipes
<1>5. QED
  BY <1>4, InitType DEF EndsInv

(* Every step preserves the types and the ends. *)
LEMMA NextEnds == EndsInv /\ [Next]_vars => EndsInv'
<1>1. EndsInv /\ Next => EndsInv'
  BY ParentType, ChildType, ParentEnds, ChildEnds, Zenon DEF Next, EndsInv
<1>2. EndsInv /\ UNCHANGED vars => EndsInv'
  <2> SUFFICES ASSUME EndsInv, UNCHANGED vars PROVE EndsInv'
    OBVIOUS
  <2>1. /\ UNCHANGED << os, need_stderr, uninheritable, child, pipe, pc, fd, input, ret >>
        /\ TypeOK /\ Ends /\ NothingLeft
    BY DEF vars, config, EndsInv
  <2>2. TypeOK'
    BY <2>1 DEF TypeOK
  <2>3. Ends' /\ NothingLeft'
    BY <2>1, SameEnds
  <2>4. QED
    BY <2>2, <2>3 DEF EndsInv
<1>3. QED
  BY <1>1, <1>2

(* Every step preserves the whole invariant. *)
LEMMA NextIInv == IInv /\ [Next]_vars => IInv'
<1>1. IInv /\ Next => IInv'
  <2> SUFFICES ASSUME IInv, Next PROVE IInv'
    OBVIOUS
  <2>1. EndsInv'
    BY NextEnds DEF IInv
  <2>2. Owned' /\ Fresh' /\ Collected'
    BY ParentTexts, ChildTexts, Zenon DEF Next
  <2>3. QED
    BY <2>1, <2>2 DEF IInv
<1>2. IInv /\ UNCHANGED vars => IInv'
  <2> SUFFICES ASSUME IInv, UNCHANGED vars PROVE IInv'
    OBVIOUS
  <2>1. EndsInv'
    BY NextEnds DEF IInv
  <2>2. /\ UNCHANGED << os, need_stderr, uninheritable, child, pipe, pc, fd, ret, mem, texts >>
        /\ Owned /\ Fresh /\ Collected
    BY DEF vars, config, IInv
  <2>3. \A p : (Unread(p)' => Unread(p)) /\ (Complete(p)' => Complete(p))
    BY <2>2 DEF Unread, Complete, AllRead, NotFound
  <2>4. Owned' /\ Fresh' /\ Collected'
    BY <2>2, <2>3, SameTexts, Zenon
  <2>5. QED
    BY <2>1, <2>4 DEF IInv
<1>3. QED
  BY <1>1, <1>2

(* A call of Programm_Ausfuehren that succeeds, and every call on Windows  *)
(* whose pipes can be inherited, leaves no descriptor open and no child    *)
(* behind, for pipes and buffers of every size.                            *)
THEOREM NothingIsLeft == Spec => []NothingLeft
<1>1. EndsInv => NothingLeft
  BY DEF EndsInv
<1>2. QED
  BY <1>1, InitEnds, NextEnds, PTL DEF Spec

(* read_pipe never touches memory it does not own, if Windows gets an      *)
(* empty StandardAusgabe.                                                  *)
THEOREM ReadsAreSafe == ASSUME ~WindowsReuse PROVE Spec => []MemorySafe
<1>1. IInv => MemorySafe
  BY Zenon DEF IInv, Owned, Memory, MemorySafe
<1>2. Init => IInv
  BY InitIInv
<1>3. QED
  BY <1>1, <1>2, NextIInv, PTL DEF Spec

(* When a call succeeds, the texts hold all the child wrote, in its order, *)
(* if Windows gets an empty StandardAusgabe.                               *)
THEOREM OutputIsComplete == ASSUME ~WindowsReuse PROVE Spec => []OutputComplete
<1>1. IInv => OutputComplete
  BY DEF IInv, Collected, Complete, OutputComplete, Needed, Pipes, Written, TextFor
<1>2. Init => IInv
  BY InitIInv
<1>3. QED
  BY <1>1, <1>2, NextIInv, PTL DEF Spec

(* A step that does not return leaves the result and the reason for it. *)
LEMMA SameError ==
    ASSUME ErrInv, child'.code = child.code, child'.missing = child.missing,
           pc' # "returned" \/ UNCHANGED << pc, ret, input >>,
           child.state # "reaped" => child'.state # "reaped" \/ pc' # "returned"
    PROVE  (child'.code = NOT_FOUND => child'.missing) /\ ErrorsOnly'
BY DEF ErrInv, ErrorsOnly

(* execute_process returns -1 only for a reason. *)
LEMMA ParentErrors ==
    ASSUME NOT_FOUND \notin ExitCodes, -1 \notin ExitCodes, ErrInv, Parent, UNCHANGED config
    PROVE  (child'.code = NOT_FOUND => child'.missing) /\ ErrorsOnly'
<1>0. /\ TypeOK /\ Ends /\ (child.code = NOT_FOUND => child.missing) /\ UNCHANGED << os, need_stderr, uninheritable >>
      /\ child.code # -1
  <2>1. TypeOK /\ Ends /\ (child.code = NOT_FOUND => child.missing) /\ UNCHANGED << os, need_stderr, uninheritable >>
    BY DEF ErrInv, EndsInv, config
  <2>2. child.code \in ExitCodes \cup {NOT_FOUND, SIGNALED}
    BY <2>1, SMTT(30) DEF TypeOK, ChildRecord
  <2>3. QED
    BY <2>1, <2>2 DEF NOT_FOUND, SIGNALED
<1>1. CASE PipeFails
  BY <1>0, <1>1 DEF PipeFails, ErrorsOnly, Ends
<1>2. CASE OpenPipes
  BY <1>2, SameError, SMTT(30) DEF OpenPipes
<1>3. CASE ForkFails
  <2>1. pc = "fork" /\ UNCHANGED << child, input >>
    BY <1>3, Zenon DEF ForkFails
  <2>2. QED
    BY <1>0, <2>1 DEF ErrorsOnly, Ends
<1>4. CASE Fork
  BY <1>0, <1>4, ForkFields, SameError DEF ChildBecomes
<1>5. CASE CloseEnds
  BY <1>5, SameError DEF CloseEnds
<1>6. CASE Write
  BY <1>0, <1>6, WriteFields, SameError
<1>7. CASE WriteFails
  BY <1>0, <1>7, WriteFailsFields DEF ErrorsOnly, ChildBecomes
<1>8. CASE CloseInput
  <2>1. UNCHANGED child /\ pc' = IF os = "linux" THEN "wait" ELSE "read"
    BY <1>8, Zenon DEF CloseInput
  <2>2. QED
    BY <2>1, SameError
<1>9. CASE Wait
  BY <1>0, <1>9, WaitFields DEF ErrorsOnly, ChildBecomes, Return
<1>10. CASE BeginRead
  <2>1. UNCHANGED child /\ pc' = "reading"
    BY <1>10, Zenon DEF BeginRead
  <2>2. QED
    BY <2>1, SameError
<1>11. CASE Read
  BY <1>0, <1>11, ReadFields, SameError
<1>12. CASE EndRead
  <2>1. UNCHANGED child /\ pc' \in {"notfound", "read", AfterReads}
    BY <1>12, Zenon DEF EndRead
  <2>2. QED
    BY <2>1, SameError DEF AfterReads
<1>13. CASE StartFailed
  <2>1. UNCHANGED child /\ pc = "notfound"
    BY <1>13, Zenon DEF StartFailed
  <2>2. QED
    BY <1>0, <2>1 DEF ErrorsOnly, Ends, NotFound
<1>14. CASE Exit
  <2>1. UNCHANGED child /\ ret' = IF child.code = SIGNALED THEN -1 ELSE child.code
    BY <1>14, Zenon DEF Exit, Return
  <2>2. QED
    BY <1>0, <2>1 DEF ErrorsOnly
<1>15. CASE InheritFails
  <2>1. pc = "pipes" /\ UNCHANGED child
    BY <1>15, Zenon DEF InheritFails
  <2>2. QED
    BY <1>0, <2>1 DEF ErrorsOnly, Ends
<1>16. CASE WaitFails
  <2>1. pc = "wait" /\ os = "linux" /\ UNCHANGED child
    BY <1>16, Zenon DEF WaitFails
  <2>2. child.state # "reaped"
    BY <1>0, <2>1, Zenon DEF Ends
  <2>3. QED
    BY <1>0, <2>1, <2>2, Zenon DEF ErrorsOnly
<1>17. QED
  BY <1>1, <1>2, <1>3, <1>4, <1>5, <1>6, <1>7, <1>8, <1>9, <1>10, <1>11, <1>12, <1>13, <1>14, <1>15, <1>16, Zenon DEF Parent, ParentStep

(* The child exits with NOT_FOUND only if it could not become the program. *)
LEMMA ChildErrors ==
    ASSUME ErrInv, Child, UNCHANGED config
    PROVE  (child'.code = NOT_FOUND => child'.missing) /\ ErrorsOnly'
<1>0. TypeOK /\ UNCHANGED << pc, ret, input >>
  <2>1. UNCHANGED << pc, ret, input >>
    BY Zenon DEF Child, ChildStep, ParentWaits
  <2>2. QED
    BY <2>1 DEF ErrInv, EndsInv
<1>1. CASE Execute
  BY <1>0, <1>1, ExecuteFields, Zenon DEF ErrInv, ErrorsOnly, ChildBecomes
<1>2. CASE ChildReads
  BY <1>0, <1>2, ChildReadsFields, SameError, Zenon DEF ChildBecomes
<1>3. ASSUME NEW b \in {OUT, ERR}, ChildWrites(b) PROVE (child'.code = NOT_FOUND => child'.missing) /\ ErrorsOnly'
  BY <1>0, <1>3, ChildWritesFields, SameError, Zenon DEF ChildBecomes
<1>4. CASE ChildExits
  BY <1>0, <1>4, ChildExitsFields, SameError, Zenon DEF ChildBecomes
<1>5. CASE ChildKilled
  BY <1>0, <1>5, ChildKilledFields DEF ErrorsOnly, ChildBecomes, SIGNALED, NOT_FOUND
<1>6. QED
  BY <1>1, <1>2, <1>3, <1>4, <1>5, Zenon DEF Child, ChildStep

(* -1 is returned only when the program did not start, its input could not *)
(* be written, it was not waited for or a signal ended it, for programs    *)
(* that exit with neither NOT_FOUND nor -1 themselves.                     *)
THEOREM OnlyErrorsAreReported ==
    ASSUME NOT_FOUND \notin ExitCodes, -1 \notin ExitCodes PROVE Spec => []ErrorsOnly
<1>1. Init => ErrInv
  <2> SUFFICES ASSUME Init PROVE ErrInv
    OBVIOUS
  <2>1. PICK script \in Scripts, code \in ExitCodes, missing \in BOOLEAN :
          child = [state |-> "none", missing |-> missing, todo |-> script, code |-> code, got |-> << >>, out |-> << >>, err |-> << >>]
    BY Zenon DEF Init
  <2>2. pc = "pipes"
    BY Zenon DEF Init
  <2>3. child.code \in ExitCodes
    BY <2>1
  <2>4. QED
    BY <2>2, <2>3, InitEnds DEF ErrInv, ErrorsOnly
<1>2. ErrInv /\ [Next]_vars => ErrInv'
  <2>1. ErrInv /\ Next => ErrInv'
    BY NextEnds, ParentErrors, ChildErrors, Zenon DEF Next, ErrInv
  <2>2. ErrInv /\ UNCHANGED vars => ErrInv'
    BY NextEnds DEF ErrInv, ErrorsOnly, vars
  <2>3. QED
    BY <2>1, <2>2
<1>3. ErrInv => ErrorsOnly
  BY DEF ErrInv
<1>4. QED
  BY <1>1, <1>2, <1>3, PTL DEF Spec
=============================================================================
