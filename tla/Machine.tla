------------------------------ MODULE Machine ------------------------------
(***************************************************************************)
(* A compiled DDP program while it runs.  Code[p] is the program p: for    *)
(* every function the blocks that CodeGen emits and n, the number of its   *)
(* stack slots.  A frame holds the block that is executed.  A slot holds a value of a non-primitive type: Undef       *)
(* before the first store, Empty for the default value that owns no        *)
(* memory, or the number of the memory it owns.  The conditions of         *)
(* branches are not modelled, both ways are taken.                         *)
(*                                                                         *)
(* What free, deep copy and the concat functions do with memory is         *)
(* src/lib/runtime/source/DDP/ddptypes.c and operators.c: a free does not  *)
(* reset the value it frees.                                               *)
(***************************************************************************)
EXTENDS Integers, Sequences, Functions

CONSTANTS Code, MaxBranch(_)

(* MaxBranch(p) bounds how often the first target of a conditional branch  *)
(* is taken; the loops of CodeGen enter their body through that target.    *)

Undef == -1
Empty == 0

VARIABLES prog, frames, mem, live, next, branches

vars == <<prog, frames, mem, live, next, branches>>

Depth == Len(frames)
Top == frames[Depth]
AtTerm == Top.i > Len(Top.block.ins)
CurIns == Top.block.ins[Top.i]
Term == Top.block.term
Running == frames # << >>

(* The stack slot a slot number of the running function stands for: its    *)
(* parameters and phis are pointers.                                       *)
Loc(s) == IF s \in DOMAIN Top.ptr THEN Top.ptr[s] ELSE <<Depth, s>>
Val(s) == mem[Loc(s)[1]][Loc(s)[2]]
Stored(s, v) == [mem EXCEPT ![Loc(s)[1]][Loc(s)[2]] = v]

Frame(f, blocks, ptr) == [f |-> f, block |-> blocks[1], i |-> 1, ptr |-> ptr]
Slots(n) == [s \in 1 .. n |-> Undef]

(* A call of the function f, which is compiled to code. *)
Started(f, code, ptr) ==
  /\ frames' = Append([frames EXCEPT ![Depth].i = @ + 1], Frame(f, code.blocks, ptr))
  /\ mem' = Append(mem, Slots(code.n))

Init ==
  /\ prog \in DOMAIN Code
  /\ \E main \in {Code[prog]["main"]} :
       /\ frames = <<Frame("main", main.blocks, << >>)>>
       /\ mem = <<Slots(main.n)>>
  /\ live = {} /\ next = 1 /\ branches = 0

Is(op) == Running /\ ~ AtTerm /\ CurIns.op = op
Advanced == [frames EXCEPT ![Depth].i = @ + 1]
Advance == frames' = Advanced

(* d becomes the owner of new memory. *)
Fresh(d) ==
  /\ mem' = Stored(d, next)
  /\ live' = live \cup {next}
  /\ next' = next + 1

Alloc == Is("alloc") /\ Fresh(CurIns.d) /\ Advance /\ UNCHANGED <<prog, branches>>

Default ==
  /\ Is("default")
  /\ mem' = Stored(CurIns.d, Empty)
  /\ Advance /\ UNCHANGED <<prog, live, next, branches>>

Free ==
  /\ Is("free")
  /\ live' = live \ {Val(CurIns.s)}
  /\ Advance /\ UNCHANGED <<prog, mem, next, branches>>

(* A deep copy of a value onto itself does nothing. *)
Copy ==
  /\ Is("copy")
  /\ IF Loc(CurIns.d) = Loc(CurIns.s) THEN UNCHANGED <<mem, live, next>>
     ELSE IF Val(CurIns.s) = Empty THEN mem' = Stored(CurIns.d, Empty) /\ UNCHANGED <<live, next>>
     ELSE Fresh(CurIns.d)
  /\ Advance /\ UNCHANGED <<prog, branches>>

Move ==
  /\ Is("move")
  /\ mem' = Stored(CurIns.d, Val(CurIns.s))
  /\ Advance /\ UNCHANGED <<prog, live, next, branches>>

Use == Is("use") /\ Advance /\ UNCHANGED <<prog, mem, live, next, branches>>

(* The memory of s is now freed together with the container it is part of. *)
Absorb ==
  /\ Is("absorb")
  /\ live' = live \ {Val(CurIns.s)}
  /\ Advance /\ UNCHANGED <<prog, mem, next, branches>>

(* The result takes the buffer of s over and leaves s empty; an empty s    *)
(* yields a copy of the other operand, which may be empty, too.            *)
Concat ==
  /\ Is("concat")
  /\ IF Val(CurIns.s) # Empty
       THEN /\ mem' = [Stored(CurIns.d, Val(CurIns.s)) EXCEPT ![Loc(CurIns.s)[1]][Loc(CurIns.s)[2]] = Empty]
            /\ UNCHANGED <<live, next>>
       ELSE \/ mem' = Stored(CurIns.d, Empty) /\ UNCHANGED <<live, next>>
            \/ Fresh(CurIns.d)
  /\ Advance /\ UNCHANGED <<prog, branches>>

(* A phi: the pointer is fixed at the end of the predecessor block. *)
Alias ==
  /\ Is("alias")
  /\ frames' = [Advanced EXCEPT ![Depth].ptr = [s \in DOMAIN @ \cup {CurIns.d} |->
                                                  IF s = CurIns.d THEN Loc(CurIns.s) ELSE @[s]]]
  /\ UNCHANGED <<prog, mem, live, next, branches>>

(* Parameter -1 is the slot of the result, -1 - i the i-th argument. *)
ArgPtrs ==
  LET boxed == {i \in DOMAIN CurIns.args : CurIns.args[i] # 0}
      result == IF CurIns.d = 0 THEN {} ELSE {-1}
  IN  [s \in result \cup {-1 - i : i \in boxed} |->
         IF s = -1 THEN Loc(CurIns.d) ELSE Loc(CurIns.args[-1 - s])]

CallFunc ==
  /\ Is("call")
  /\ Started(CurIns.f, Code[prog][CurIns.f], ArgPtrs)
  /\ UNCHANGED <<prog, live, next, branches>>

(* An extern function reads its arguments and returns a new value. *)
CallExtern ==
  /\ Is("extern")
  /\ IF CurIns.d = 0 THEN UNCHANGED <<mem, live, next>> ELSE Fresh(CurIns.d)
  /\ Advance /\ UNCHANGED <<prog, branches>>

Goto(b) == frames' = [frames EXCEPT ![Depth].block = Code[prog][Top.f].blocks[b], ![Depth].i = 1]
Ends(op) == Running /\ AtTerm /\ Term.op = op

Br == Ends("br") /\ Goto(Term.b1) /\ UNCHANGED <<prog, mem, live, next, branches>>

CondBr ==
  /\ Ends("condbr")
  /\ \E b \in {Term.b1, Term.b2} :
       /\ branches' = IF b = Term.b1 THEN branches + 1 ELSE branches
       /\ branches' <= MaxBranch(prog)
       /\ Goto(b)
  /\ UNCHANGED <<prog, mem, live, next>>

Ret ==
  /\ Ends("ret")
  /\ frames' = SubSeq(frames, 1, Depth - 1)
  /\ mem' = SubSeq(mem, 1, Depth - 1)
  /\ UNCHANGED <<prog, live, next, branches>>

(* ddp_main has returned. *)
Exit == ~ Running /\ UNCHANGED vars

Step ==
  Alloc \/ Default \/ Free \/ Copy \/ Move \/ Use \/ Absorb \/ Concat \/ Alias
    \/ CallFunc \/ CallExtern \/ Br \/ CondBr \/ Ret

Next == Step \/ Exit

Spec == Init /\ [][Next]_vars

-----------------------------------------------------------------------------

(* Every value that is freed owns its memory or owns none: exitScope,      *)
(* exitFuncScope, the exit of a return statement, the frees of loop        *)
(* variables and of old values in assignments never free memory twice and  *)
(* never free a slot that was not initialised.                             *)
FreesOwned == Is("free") => Val(CurIns.s) \in live \cup {Empty}

(* Every value that is read (deep copied, claimed, concatenated, passed to *)
(* the runtime, returned) is initialised and its memory has not been freed *)
(* yet.                                                                    *)
Reads == {"move", "use", "absorb", "concat"}
ReadsLive ==
  (Running /\ ~ AtTerm) =>
    /\ \/ CurIns.op \in Reads
       \/ CurIns.op = "copy" /\ Loc(CurIns.d) # Loc(CurIns.s)
       => Val(CurIns.s) \in live \cup {Empty}
    /\ CurIns.op \in {"call", "extern"} => \A i \in DOMAIN CurIns.args :
         CurIns.args[i] # 0 => Val(CurIns.args[i]) \in live \cup {Empty}

(* No memory is lost: as long as it is not freed, a stack slot of a        *)
(* function that has not returned holds it; everything is freed when the   *)
(* program ends.                                                           *)
Owners(m) == {l \in UNION {{d} \X DOMAIN mem[d] : d \in 1 .. Len(mem)} : mem[l[1]][l[2]] = m}
NoLeak == \A m \in live : Owners(m) # {}

(* The compiler never panics: every temporary that claimOrCopy and the     *)
(* other users of claimTemporary and protectTemporary name is a temporary  *)
(* of the current scope, and no primitive value is deep copied.            *)
NoPanic == \A f \in Range(Code[prog]) : f.ok
=============================================================================
