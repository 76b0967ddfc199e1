----------------------------- MODULE RuntimeList -----------------------------
(***************************************************************************)
(* Listen as the runtime keeps them: the functions list_types.go emits for *)
(* every list type, lists.c below Duden/Listen.ddp, and the statements     *)
(* that call them.                                                         *)
(*                                                                         *)
(* A list is a struct of a pointer to an array of cells, the number len of *)
(* cells in use and the number cap of cells allocated.  A cell holds the   *)
(* element when its type is primitive, and otherwise owns memory: it then  *)
(* is the address of an object.  w is a world: the memory of the arrays    *)
(* and the memory of the objects.  ListADT is what the program should see. *)
(***************************************************************************)
EXTENDS RuntimeMemory, SequencesExt

CONSTANTS Slots,         \* list variables of the program
          Values,        \* element values it uses
          Default,       \* the Standardwert of the element type
          Indices,       \* indices it asks for
          MaxLen,        \* bound: elements in all lists together
          MaxLiteral,    \* bound: elements of a literal
          BaseCapacity,  \* the smallest capacity lists grow to, 8 in the code
          Pairs,         \* whether two non-primitive scalars are concatenated
          InvalidIsError \* what ListADT promises of a deletion with an invalid index

VARIABLES primitive,     \* whether the element type of the lists is primitive
          world,         \* [arrays, objects], each as in RuntimeMemory
          slots,         \* [Slots -> [arr, len, cap]]
          call,          \* the statement just executed, with what it returned
          lists          \* the elements of every slot, as the program sees them

vars == << primitive, world, slots, call, lists >>

(* growCapacity needs it: 1.5 times 1, rounded down, is 1. *)
ASSUME GrowthAssumption == BaseCapacity \in Nat /\ BaseCapacity > 1

Empty == [arr |-> NULL, len |-> 0, cap |-> 0]

(***************************************************************************)
(* Elements.                                                               *)
(***************************************************************************)
(* A fresh element: what evaluating an expression of the element type      *)
(* leaves in a temporary.                                                  *)
NewElement(w, v) ==
    IF primitive THEN [w |-> w, cell |-> v]
    ELSE LET r == DDP_ALLOCATE(w.objects, 1)
         IN  [w    |-> [w EXCEPT !.objects = [r.mem EXCEPT !.heap[r.ptr] = << v >>]],
              cell |-> r.ptr]

(* A cell whose object may be used. *)
Live(w, cell) == cell \in Allocated(w.objects)

ValueOf(w, cell) ==
    IF primitive THEN cell ELSE IF Live(w, cell) THEN w.objects.heap[cell][1] ELSE Garbage

DeepCopyElement(w, cell) ==
    IF primitive THEN [w |-> w, cell |-> cell]
    ELSE IF Live(w, cell) THEN NewElement(w, ValueOf(w, cell))
    ELSE [w |-> [w EXCEPT !.objects = Fault(@)], cell |-> Garbage]

FreeElement(w, cell) ==
    IF primitive THEN w
    ELSE IF Live(w, cell) THEN [w EXCEPT !.objects = free(@, cell)]
    ELSE [w EXCEPT !.objects = Fault(@)]

Make(w, src, Op(_, _)) ==
    FoldLeft(LAMBDA acc, e : LET r == Op(acc.w, e) IN [w |-> r.w, cells |-> Append(acc.cells, r.cell)],
             [w |-> w, cells |-> << >>], src)

NewElements(w, values) == Make(w, values, NewElement)

DeepCopyElements(w, cells) == Make(w, cells, DeepCopyElement)

FreeElements(w, cells) == FoldLeft(FreeElement, w, cells)

(***************************************************************************)
(* Arrays.                                                                 *)
(***************************************************************************)
Cell(w, p, i) == IF i \in DOMAIN Block(w.arrays, p) THEN Block(w.arrays, p)[i] ELSE Garbage

(* Cells from .. to of the array of a list, 1-based. *)
CellsOf(w, list, from, to) == [k \in 1 .. to - from + 1 |-> Cell(w, list.arr, from + k - 1)]

Cells(w, list) == CellsOf(w, list, 1, list.len)

allocateArr(w, n) ==
    LET r == DDP_ALLOCATE(w.arrays, n) IN [w |-> [w EXCEPT !.arrays = r.mem], ptr |-> r.ptr]

growArr(w, p, oldCap, newCap) ==
    LET r == ddp_reallocate(w.arrays, p, oldCap, newCap) IN [w |-> [w EXCEPT !.arrays = r.mem], ptr |-> r.ptr]

freeArr(w, p, n) == [w EXCEPT !.arrays = DDP_FREE_ARRAY(@, p, n)]

(* Stores cells at offset d of the array p. *)
Store(w, p, d, cells) == [w EXCEPT !.arrays = memcpy(@, p, d, cells, 0, Len(cells))]

(***************************************************************************)
(* The functions of list_types.go.                                         *)
(***************************************************************************)
growCapacity(cap) == IF cap < BaseCapacity THEN BaseCapacity ELSE (cap * 3) \div 2

fromConstants(w, count) ==
    LET r == allocateArr(w, count)
    IN  IF count > 0 THEN [w |-> r.w, ret |-> [arr |-> r.ptr, len |-> count, cap |-> count]]
        ELSE [w |-> w, ret |-> [arr |-> NULL, len |-> count, cap |-> count]]

freeList(w, list) == freeArr(FreeElements(w, Cells(w, list)), list.arr, list.cap)

deepCopy(w, list) ==
    LET r == allocateArr(w, list.cap)
        c == DeepCopyElements(r.w, Cells(w, list))
    IN  [w |-> Store(c.w, r.ptr, 0, c.cells), ret |-> [list EXCEPT !.arr = r.ptr]]

equals(w, list1, list2) ==
    /\ list1.len = list2.len
    /\ \A k \in 1 .. list1.len : ValueOf(w, Cell(w, list1.arr, k)) = ValueOf(w, Cell(w, list2.arr, k))

clamp(val, min, max) == LET t == IF val < min THEN min ELSE val IN IF t > max THEN max ELSE t

SliceError(list, index1, index2) ==
    list.len > 0 /\ clamp(index2, 1, list.len) < clamp(index1, 1, list.len)

slice(w, list, index1, index2) ==
    LET from == clamp(index1, 1, list.len)
        to   == clamp(index2, 1, list.len)
        len  == (to - from) + 1
        cap  == growCapacity(len)
        r    == allocateArr(w, cap)
        c    == DeepCopyElements(r.w, CellsOf(w, list, from, to))
    IN  IF list.len <= 0 THEN [w |-> w, ret |-> Empty]
        ELSE [w |-> Store(c.w, r.ptr, 0, c.cells), ret |-> [arr |-> r.ptr, len |-> len, cap |-> cap]]

(* while (ret->cap < ret->len) ret->cap = GROW_CAPACITY(ret->cap) *)
Grown(cap, len) ==
    LET g[c \in Nat] == IF c < len THEN g[growCapacity(c)] ELSE c IN g[cap]

(* The array of a claimed list, grown for n elements more. *)
Claimed(w, list, n) ==
    LET cap == Grown(list.cap, list.len + n)
        r   == growArr(w, list.arr, list.cap, cap)
    IN  [w |-> r.w, ret |-> [arr |-> r.ptr, len |-> list.len + n, cap |-> cap]]

list_list_concat(w, list1, list2) ==
    LET r == Claimed(w, list1, list2.len)
        c == DeepCopyElements(r.w, Cells(r.w, list2))
    IN  [w |-> Store(c.w, r.ret.arr, list1.len, c.cells), ret |-> r.ret]

list_scalar_concat(w, list, scal) ==
    LET r == Claimed(w, list, 1)
        c == DeepCopyElement(r.w, scal)
    IN  [w |-> Store(c.w, r.ret.arr, list.len, << c.cell >>), ret |-> r.ret]

scalar_list_concat(w, scal, list) ==
    LET r     == Claimed(w, list, 1)
        moved == Store(r.w, r.ret.arr, 1, CellsOf(r.w, r.ret, 1, list.len))
        c     == DeepCopyElement(moved, scal)
    IN  [w |-> Store(c.w, r.ret.arr, 0, << c.cell >>), ret |-> r.ret]

(* The copies of non-primitive scalars both go to the first cell. *)
scalar_scalar_concat(w, scal1, scal2) ==
    LET cap    == growCapacity(2)
        r      == allocateArr(w, cap)
        c1     == DeepCopyElement(r.w, scal1)
        first  == Store(c1.w, r.ptr, 0, << c1.cell >>)
        c2     == DeepCopyElement(first, scal2)
    IN  [w   |-> Store(c2.w, r.ptr, IF primitive THEN 1 ELSE 0, << c2.cell >>),
         ret |-> [arr |-> r.ptr, len |-> 2, cap |-> cap]]

(***************************************************************************)
(* The functions of lists.c.  They change the list they get in place.      *)
(***************************************************************************)
DDP_GROW_CAPACITY(cap) == IF cap < BaseCapacity THEN BaseCapacity ELSE (cap * 3 + 1) \div 2

(* Mutant: enough for the one element most callers add. *)
GrowByOne(w, list, n) ==
    LET cap == Max({DDP_GROW_CAPACITY(list.cap), list.len + 1})
        r   == growArr(w, list.arr, list.cap, cap)
    IN  IF list.len + n >= list.cap THEN [w |-> r.w, list |-> [list EXCEPT !.arr = r.ptr, !.cap = cap]]
        ELSE [w |-> w, list |-> list]

grow_if_needed(w, list, n) ==
    LET cap == Max({DDP_GROW_CAPACITY(list.cap), list.len + n})
        r   == growArr(w, list.arr, list.cap, cap)
    IN  IF list.len + n >= list.cap THEN [w |-> r.w, list |-> [list EXCEPT !.arr = r.ptr, !.cap = cap]]
        ELSE [w |-> w, list |-> list]

(* The cells the caller still frees become copies of the Standardwert. *)
claim_non_primitive(w, cells, any) ==
    IF primitive THEN [w |-> w, cells |-> cells]
    ELSE Make(w, cells, LAMBDA v, cell : DeepCopyElement(v, any))

(* Moves the cells from index (0-based) on and puts new ones there. *)
Insert(w, list, index, cells) ==
    LET moved == Store(w, list.arr, index + Len(cells), CellsOf(w, list, index + 1, list.len))
    IN  [w |-> Store(moved, list.arr, index, cells), ret |-> [list EXCEPT !.len = @ + Len(cells)]]

(* append, prepend and insert of one cell, append_list and prepend_list. *)
efficient_list_insert(w, list, index, cells, any) ==
    LET g == grow_if_needed(w, list, Len(cells))
        r == Insert(g.w, g.list, index, cells)
        c == claim_non_primitive(r.w, cells, any)
    IN  [w |-> c.w, ret |-> r.ret, cells |-> c.cells]

efficient_list_insert_range(w, list, index, cells, any) ==
    LET n   == list.len + Len(cells)
        cap == IF n > list.cap THEN DDP_GROW_CAPACITY(n) ELSE list.cap
        g   == growArr(w, list.arr, list.cap, cap)
        r   == Insert(g.w, [list EXCEPT !.arr = g.ptr, !.cap = cap], index, cells)
        c   == claim_non_primitive(r.w, cells, any)
    IN  [w |-> c.w, ret |-> r.ret, cells |-> c.cells]

CLAMP(index, len) == IF index < 0 THEN 0 ELSE IF index >= len THEN len - 1 ELSE index

(* Mutant: the last element of the range stays alive. *)
DeletedWithoutEnd(w, list, start, end) == CellsOf(w, list, start + 1, end)

Deleted(w, list, start, end) == CellsOf(w, list, start + 1, end + 1)

(* Mutant: the indices are clamped before they are compared. *)
DeleteErrorClamped(list, start, end) == list.len > 0 /\ CLAMP(start, list.len) > CLAMP(end, list.len)

DeleteError(list, start, end) == list.len > 0 /\ start > end

efficient_list_delete_range(w, list, start0, end0) ==
    LET start == CLAMP(start0, list.len)
        end   == CLAMP(end0, list.len)
        freed == FreeElements(w, Deleted(w, list, start, end))
        tail  == CellsOf(w, list, end + 2, list.len)
    IN  IF list.len <= 0 THEN [w |-> w, ret |-> list]
        ELSE [w   |-> Store(freed, list.arr, start, tail),
              ret |-> [list EXCEPT !.len = @ - (end - start + 1)]]

(***************************************************************************)
(* The statements of the program.                                          *)
(***************************************************************************)
Idle == << "idle" >>

Literals == UNION {[1 .. n -> Values] : n \in 0 .. MaxLiteral}

NoWorld == [arrays |-> NoMemory, objects |-> NoMemory]

Init ==
    /\ primitive \in BOOLEAN
    /\ world = NoWorld
    /\ slots = [x \in Slots |-> Empty]
    /\ call = Idle
    /\ lists = [x \in Slots |-> << >>]

Failed(op, x, i, j) ==
    /\ call' = << "Laufzeitfehler", op, x, i, j >>
    /\ UNCHANGED << world, slots >>

Answer(op) == call' = op /\ UNCHANGED << world, slots >>

Leave(x, w, list, op) ==
    /\ world' = w
    /\ slots' = [slots EXCEPT ![x] = list]
    /\ call' = op

(* Speichere ... in x: the right side is evaluated into the temporary      *)
(* r.ret, the old value of x is freed, and x claims the temporary.         *)
Assign(x, r, op) == Leave(x, freeList(r.w, slots[x]), r.ret, op)

(* A list literal, built in a temporary. *)
ListLit(w, s) ==
    LET r == fromConstants(w, Len(s))
        c == NewElements(r.w, s)
    IN  [w |-> Store(c.w, r.ret.arr, 0, c.cells), ret |-> r.ret]

Literal(x) == \E s \in Literals : Assign(x, ListLit(world, s), << "literal", s >>)

(* The list literal of one value many times. *)
Repeated(w, n, v) ==
    LET r == fromConstants(w, n)
        t == NewElement(r.w, v)
        c == DeepCopyElements(t.w, [k \in 1 .. n |-> t.cell])
    IN  [w |-> FreeElement(Store(c.w, r.ret.arr, 0, c.cells), t.cell), ret |-> r.ret]

LiteralOf(x) == \E n \in 0 .. MaxLiteral, v \in Values :
    Assign(x, Repeated(world, n, v), << "literal", [k \in 1 .. n |-> v] >>)

Copy(x, y) == x # y /\ Assign(x, deepCopy(world, slots[y]), << "copy", x, y >>)

(* The left operand is a variable: the function claims a copy of it. *)
JoinLists(x, y, z) == \E c \in {deepCopy(world, slots[y])} :
    Assign(x, list_list_concat(c.w, c.ret, slots[z]), << "join", x, y, z >>)

(* The left operand is a temporary: the function claims it. *)
JoinLiteral(x, y) == \E s \in Literals : \E t \in {ListLit(world, s)} :
    Assign(x, list_list_concat(t.w, t.ret, slots[y]), << "claim", x, s, y >>)

(* A result, after which the temporary of a scalar operand is freed. *)
FreeAfter(r, cell) == [r EXCEPT !.w = FreeElement(@, cell)]

JoinValue(x, y, v) == \E c \in {deepCopy(world, slots[y])} : \E t \in {NewElement(c.w, v)} :
    \/ Assign(x, FreeAfter(list_scalar_concat(t.w, c.ret, t.cell), t.cell), << "append", x, y, v >>)
    \/ Assign(x, FreeAfter(scalar_list_concat(t.w, t.cell, c.ret), t.cell), << "prepend", x, v, y >>)

JoinValues(x, v, u) ==
    /\ primitive \/ Pairs
    /\ \E s \in {NewElement(world, v)} : \E t \in {NewElement(s.w, u)} :
        Assign(x, FreeAfter(FreeAfter(scalar_scalar_concat(t.w, s.cell, t.cell), t.cell), s.cell),
               << "pair", x, v, u >>)

Slice(x, y, i, j) ==
    IF SliceError(slots[y], i, j)
    THEN Failed("slice", y, i, j)
    ELSE Assign(x, slice(world, slots[y], i, j), << "slice", x, y, i, j >>)

OutOfBounds(x, i) == i < 1 \/ i > slots[x].len

Index(x, i) ==
    IF OutOfBounds(x, i)
    THEN Failed("index", x, i, i)
    ELSE Answer(<< "index", x, i, ValueOf(world, Cell(world, slots[x].arr, i)) >>)

(* Speichere v in x an der Stelle i. *)
Replace(x, i, v) ==
    IF OutOfBounds(x, i)
    THEN Failed("replace", x, i, v)
    ELSE \E t \in {NewElement(world, v)} :
            Leave(x, Store(FreeElement(t.w, Cell(t.w, slots[x].arr, i)), slots[x].arr, i - 1, << t.cell >>),
                  slots[x], << "replace", x, i, v >>)

Equal(x, y) == Answer(<< "equal", x, y, x = y \/ equals(world, slots[x], slots[y]) >>)

(***************************************************************************)
(* Duden/Listen.ddp: the functions get the element or the list by value,   *)
(* so they own a copy of it, and make a Standardwert; both are freed when  *)
(* they return.                                                            *)
(***************************************************************************)
InsertCells(x, i, e, any, values, Function(_, _, _, _, _)) ==
    \E r \in {Function(any.w, slots[x], i - 1, e.cells, any.cell)} :
        Leave(x, FreeElement(FreeElements(r.w, r.cells), any.cell), r.ret, << "insert", x, i, values >>)

InsertError(x, i) == i - 1 < 0 \/ i - 1 > slots[x].len

(* Füge ... an ... an, Stelle ... vor ..., Setze ... an die Stelle ... von. *)
InsertValue(x, i, v) ==
    IF InsertError(x, i) THEN Failed("insert", x, i, << v >>)
    ELSE \E e \in {NewElements(world, << v >>)} : \E any \in {NewElement(e.w, Default)} :
            InsertCells(x, i, e, any, << v >>, efficient_list_insert)

(* The same for a list, whose copy has an array of its own. *)
InsertList(x, i, y) ==
    IF InsertError(x, i) THEN Failed("insert", x, i, lists[y])
    ELSE \E c \in {deepCopy(world, slots[y])} : \E any \in {NewElement(c.w, Default)} :
         \E e \in {[cells |-> Cells(any.w, c.ret)]} :
         \E freed \in {[any EXCEPT !.w = freeArr(any.w, c.ret.arr, c.ret.cap)]} :
            \/ InsertCells(x, i, e, freed, lists[y], efficient_list_insert_range)
            \/ /\ i \in {1, slots[x].len + 1}
               /\ InsertCells(x, i, e, freed, lists[y], efficient_list_insert)

(* Lösche_Bereich, and Lösche_Element when both ends are the same. *)
DeleteRange(x, i, j) ==
    IF DeleteError(slots[x], i - 1, j - 1)
    THEN Failed("delete", x, i, j)
    ELSE \E any \in {NewElement(world, Default)} :
         \E r \in {efficient_list_delete_range(any.w, slots[x], i - 1, j - 1)} :
            Leave(x, FreeElement(r.w, any.cell), r.ret, << "delete", x, i, j >>)

Statement(x) ==
    \/ Literal(x) \/ LiteralOf(x)
    \/ \E i, j \in Indices : DeleteRange(x, i, j)
    \/ \E i \in Indices : Index(x, i) \/ \E v \in Values : Replace(x, i, v) \/ InsertValue(x, i, v)
    \/ \E v, u \in Values : JoinValues(x, v, u)
    \/ \E y \in Slots :
        \/ Copy(x, y) \/ JoinLiteral(x, y) \/ Equal(x, y)
        \/ \E v \in Values : JoinValue(x, y, v)
        \/ \E z \in Slots : JoinLists(x, y, z)
        \/ \E i, j \in Indices : Slice(x, y, i, j)
        \/ \E i \in Indices : InsertList(x, i, y)

ValuesOf(w, list) == [k \in 1 .. list.len |-> ValueOf(w, Cell(w, list.arr, k))]

Total(view) == MapThenSumSet(LAMBDA x : Len(view[x]), Slots)

Call ==
    /\ call = Idle
    /\ \E x \in Slots : Statement(x)
    /\ lists' = [x \in Slots |-> ValuesOf(world', slots'[x])]
    /\ Total(lists') <= MaxLen
    /\ UNCHANGED primitive

(* The same lists at the first free addresses: an address is only a name,  *)
(* and the cells past len hold no element.                                 *)
Renumbered ==
    FoldLeft(LAMBDA acc, x : LET r == allocateArr(acc.w, slots[x].cap)
                                 c == NewElements(r.w, lists[x])
                             IN  [w     |-> Store(c.w, r.ptr, 0, c.cells),
                                  slots |-> [acc.slots EXCEPT ![x].arr = r.ptr]],
             [w |-> NoWorld, slots |-> slots], SetToSeq(Slots))

(* The program takes the answer and goes on; after a Laufzeitfehler it has *)
(* ended.                                                                  *)
Continue ==
    /\ call # Idle /\ call[1] # "Laufzeitfehler"
    /\ call' = Idle
    /\ \E r \in {Renumbered} : world' = r.w /\ slots' = r.slots
    /\ UNCHANGED << primitive, lists >>

Next == Call \/ Continue

Spec == Init /\ [][Next]_vars

(***************************************************************************)
(* Properties.                                                             *)
(***************************************************************************)
(* No function list_types.go emits and none of lists.c accesses an array   *)
(* outside its bounds, or an element that was freed or never made.         *)
MemorySafe == world.arrays.ok /\ world.objects.ok

(* Elements and arrays have one owner: no claim, copy, move or deletion    *)
(* leaves an array or an element to two lists, or to none.  The owner of   *)
(* an array knows its size, by which it is grown and freed: cap is what    *)
(* was allocated, whichever of the two growth rules (the compiler's rounds *)
(* down, the runtime's up) was applied before.                             *)
OwnedOnce ==
    /\ \A a \in Allocated(world.arrays) : Cardinality({x \in Slots : slots[x].arr = a}) = 1
    /\ \A x \in Slots : slots[x].len <= slots[x].cap /\ slots[x].cap = Len(Block(world.arrays, slots[x].arr))
    /\ ~primitive => \A a \in Allocated(world.objects) :
        Cardinality({<< x, k >> \in Slots \X (1 .. MaxLen) :
                        k <= slots[x].len /\ Cell(world, slots[x].arr, k) = a}) = 1
    /\ ~primitive => \A x \in Slots : \A k \in 1 .. slots[x].len : Live(world, Cell(world, slots[x].arr, k))

ADT == INSTANCE ListADT

(* Arrays, capacities, moves and copies are invisible: every sequence of   *)
(* statements leaves the lists, and gives the answers and Laufzeitfehler,  *)
(* that operations on sequences do (ListADT).  Of a deletion with an       *)
(* invalid index it is the clamped one, unless InvalidIsError.             *)
ImplementsLists == ADT!Spec
=============================================================================
