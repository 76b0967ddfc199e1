---------------------------- MODULE RuntimeMemory ----------------------------
(***************************************************************************)
(* The heap below the runtime: ddp_reallocate of memory.c, and the C       *)
(* library functions it and the text functions call.                       *)
(*                                                                         *)
(* A memory is a record: heap maps every address to its block, a sequence  *)
(* of cells, or to << >> when nothing is allocated there; ok turns FALSE   *)
(* at the first access C leaves undefined: out of bounds, through NULL or  *)
(* a freed pointer, a second free.                                         *)
(***************************************************************************)
EXTENDS Integers, Sequences, FiniteSetsExt

CONSTANTS MaxBlocks,   \* bound: blocks alive at a time
          Garbage      \* what an uninitialised cell holds

Addresses == 1 .. MaxBlocks

NULL == 0

NoMemory == [heap |-> [a \in Addresses |-> << >>], ok |-> TRUE]

Allocated(m) == {a \in Addresses : m.heap[a] # << >>}

Fault(m) == [m EXCEPT !.ok = FALSE]

(* The cells a pointer gives access to. *)
Block(m, p) == IF p = NULL THEN << >> ELSE m.heap[p]

free(m, p) ==
    IF p = NULL THEN m
    ELSE IF p \in Allocated(m) THEN [m EXCEPT !.heap[p] = << >>]
    ELSE Fault(m)

(* realloc moves the block: the outcome that shows every stale pointer.    *)
(* Of NULL it is malloc.                                                   *)
realloc(m, p, size) ==
    LET a     == Min(Addresses \ Allocated(m))
        old   == Block(m, p)
        cells == [k \in 1 .. size |-> IF k <= Len(old) THEN old[k] ELSE Garbage]
    IN  [mem |-> [free(m, p) EXCEPT !.heap[a] = cells], ptr |-> a]

ddp_reallocate(m, pointer, oldSize, newSize) ==
    CASE newSize = 0                        -> [mem |-> free(m, pointer), ptr |-> NULL]
      [] newSize # 0 /\ oldSize = newSize   -> [mem |-> m, ptr |-> pointer]
      [] newSize < 0                        -> [mem |-> Fault(m), ptr |-> NULL]
      [] newSize > 0 /\ oldSize # newSize   -> realloc(m, pointer, newSize)

DDP_ALLOCATE(m, size) == ddp_reallocate(m, NULL, 0, size)

DDP_FREE_ARRAY(m, pointer, size) == ddp_reallocate(m, pointer, size, 0).mem

InBounds(cells, from, n) == n >= 0 /\ from >= 0 /\ from + n <= Len(cells)

(* memcpy and memmove of n cells, from offset s of the array src to offset *)
(* d of the block dst.  A negative n is the huge size_t it converts to.    *)
memcpy(m, dst, d, src, s, n) ==
    IF n = 0 THEN m
    ELSE IF InBounds(Block(m, dst), d, n) /\ InBounds(src, s, n)
    THEN [m EXCEPT !.heap[dst] = [k \in DOMAIN @ |-> IF k \in d + 1 .. d + n THEN src[s + k - d] ELSE @[k]]]
    ELSE Fault(m)
=============================================================================
