----------------------------- MODULE RuntimeText -----------------------------
(***************************************************************************)
(* Texte as the runtime keeps them: ddptypes.c and operators.c.            *)
(*                                                                         *)
(* A ddpstring is a pointer to UTF-8 bytes that end with a zero byte, and  *)
(* cap, which the functions take for the number of these bytes.  The empty *)
(* text is NULL with cap 0.  The module has one operator per C function,   *)
(* which maps the memory and the argument structs to the memory and the    *)
(* structs after the call, and one action per way in which the code the    *)
(* compiler emits calls it.  TextADT is what the program should see.       *)
(***************************************************************************)
EXTENDS Utf8, RuntimeMemory, SequencesExt

CONSTANTS Slots,      \* ddpstring structs of the program: variables and temporaries
          Chars,      \* code points it uses
          Indices,    \* indices it asks for
          MaxLen,     \* bound: characters in all texts together
          Narrowing,  \* whether a character may be replaced by one of fewer bytes
          Unset       \* a struct that holds no text

VARIABLES mem,        \* the heap, see RuntimeMemory
          slots,      \* [Slots -> [str, cap] or Unset]
          call,       \* the call being answered, with what it returned
          texts       \* the characters of every slot, as the program sees them

vars == << mem, slots, call, texts >>

DDP_EMPTY_STRING == [str |-> NULL, cap |-> 0]

(* A struct whose bytes a function may scan. *)
Scannable(m, s) == s.str = NULL \/ Readable(Block(m, s.str))

Using(m, S) == IF \A s \in S : Scannable(m, s) THEN m ELSE Fault(m)

ddp_string_empty(m, s) == s.str = NULL \/ s.cap <= 0 \/ At(Block(m, s.str), 0) = 0

ddp_strlen(m, s) == IF s.str = NULL THEN 0 ELSE StrLen(Block(m, s.str), 0)

(* A new block with the first n cells of an array, and a struct for it. *)
NewString(m, cells, n) ==
    LET r == DDP_ALLOCATE(m, n)
    IN  [mem |-> memcpy(r.mem, r.ptr, 0, cells, 0, n), ret |-> [str |-> r.ptr, cap |-> n]]

(* Mutant: the early return for an empty constant is missing. *)
FromConstantWithoutEmpty(m, cells) ==
    IF ~Readable(cells) THEN [mem |-> Fault(m), ret |-> DDP_EMPTY_STRING]
    ELSE NewString(m, cells, StrLen(cells, 0) + 1)

ddp_string_from_constant(m, cells) ==
    IF ~Readable(cells) THEN [mem |-> Fault(m), ret |-> DDP_EMPTY_STRING]
    ELSE IF StrLen(cells, 0) = 0 THEN [mem |-> m, ret |-> DDP_EMPTY_STRING]
    ELSE NewString(m, cells, StrLen(cells, 0) + 1)

ddp_free_string(m, s) == DDP_FREE_ARRAY(m, s.str, s.cap)

ddp_deep_copy_string(m, s) ==
    IF s.str = NULL THEN [mem |-> m, ret |-> DDP_EMPTY_STRING]
    ELSE NewString(m, Block(m, s.str), s.cap)

(***************************************************************************)
(* Verkettung.  ret is the result, arg the claimed operand after the call. *)
(***************************************************************************)
(* Mutant: both zero bytes are taken off. *)
CapWithoutTerminator(str1, str2) == str1.cap - 1 + str2.cap - 1

(* One of the two zero bytes goes. *)
ConcatCap(str1, str2) == str1.cap - 1 + str2.cap

ddp_string_string_verkettet(m0, str1, str2) ==
    LET m      == Using(m0, {str1, str2})
        empty1 == ddp_string_empty(m, str1)
        empty2 == ddp_string_empty(m, str2)
        copy   == ddp_deep_copy_string(m, str2)
        cap    == ConcatCap(str1, str2)
        r      == ddp_reallocate(m, str1.str, str1.cap, cap)
    IN  CASE empty1 /\ empty2   -> [mem |-> m, ret |-> DDP_EMPTY_STRING, arg |-> str1]
          [] empty1 /\ ~empty2  -> [mem |-> ddp_free_string(copy.mem, str1), ret |-> copy.ret, arg |-> str1]
          [] ~empty1 /\ empty2  -> [mem |-> m, ret |-> str1, arg |-> DDP_EMPTY_STRING]
          [] ~empty1 /\ ~empty2 ->
                [mem |-> memcpy(r.mem, r.ptr, str1.cap - 1, Block(m, str2.str), 0, str2.cap),
                 ret |-> [str |-> r.ptr, cap |-> cap],
                 arg |-> DDP_EMPTY_STRING]

(* The common part of the two functions below: Fill writes the bytes of c  *)
(* into the reallocated buffer.                                            *)
CharVerkettet(m0, c, str, Fill(_, _, _, _)) ==
    LET m         == Using(m0, {str})
        t         == utf8_char_to_string(c)
        num_bytes == IF t.num_bytes = Invalid THEN 0 ELSE t.num_bytes
        const     == ddp_string_from_constant(ddp_free_string(m, str), t.temp)
        cap       == str.cap + num_bytes
        r         == ddp_reallocate(m, str.str, str.cap, cap)
    IN  IF ddp_string_empty(m, str)
        THEN [mem |-> const.mem, ret |-> const.ret, arg |-> str]
        ELSE [mem |-> Fill(r.mem, r.ptr, t.temp, num_bytes),
              ret |-> [str |-> r.ptr, cap |-> cap],
              arg |-> DDP_EMPTY_STRING]

ddp_char_string_verkettet(m, c, str) ==
    LET PrependChar(n, p, temp, num_bytes) ==
            memcpy(memcpy(n, p, num_bytes, Block(n, p), 0, str.cap), p, 0, temp, 0, num_bytes)
    IN  CharVerkettet(m, c, str, PrependChar)

ddp_string_char_verkettet(m, str, c) ==
    LET AppendChar(n, p, temp, num_bytes) ==
            memcpy(memcpy(n, p, str.cap - 1, temp, 0, num_bytes), p, str.cap + num_bytes - 1, << 0 >>, 0, 1)
    IN  CharVerkettet(m, c, str, AppendChar)

(***************************************************************************)
(* Characters of a text.                                                   *)
(***************************************************************************)
(* The offset reached from offset start by n steps over characters, fewer  *)
(* at the end of the array.                                                *)
Advance(cells, start, n, NumBytes(_, _)) ==
    LET offset[k \in 0 .. n] ==
            IF k = 0 THEN start
            ELSE IF At(cells, offset[k - 1]) = 0 THEN offset[k - 1]
            ELSE offset[k - 1] + NumBytes(cells, offset[k - 1])
    IN  offset[n]

(* Mutant: one character too far. *)
OffsetFromZero(m, s, index) == Advance(Block(m, s.str), 0, index, utf8_num_bytes)

Offset(m, s, index) == Advance(Block(m, s.str), 0, index - 1, utf8_num_bytes)

(* The index checks shared by reading and replacing a character. *)
IndexError(m, s, index) ==
    \/ index < 1
    \/ index > s.cap \/ s.cap <= 1
    \/ At(Block(m, s.str), Offset(m, s, index)) = 0

ddp_string_index(m, s, index) == utf8_string_to_char(Block(m, s.str), Offset(m, s, index))

ddp_string_length(m, s) == IF ddp_string_empty(m, s) THEN 0 ELSE utf8_strlen(Block(m, s.str))

ReplacedCap(cap, oldCharLen, newCharLen) == cap - oldCharLen + newCharLen

ddp_replace_char_in_string(m0, s, ch, index) ==
    LET m    == Using(m0, {s})
        old  == Block(m, s.str)
        i    == Offset(m, s, index)
        from == utf8_num_bytes(old, i)
        new  == utf8_char_to_string(ch)
        to   == new.num_bytes
        tail == s.cap - i - from
        here == memcpy(m, s.str, i, new.temp, 0, to)
        cap  == ReplacedCap(s.cap, from, to)
        r    == DDP_ALLOCATE(m, cap)
        copy == memcpy(memcpy(memcpy(r.mem, r.ptr, 0, old, 0, i), r.ptr, i, new.temp, 0, to),
                       r.ptr, i + to, old, i + from, tail)
    IN  CASE from = to -> [mem |-> here, ret |-> s]
          [] from > to /\ to # Invalid -> [mem |-> memcpy(here, s.str, i + to, old, i + from, tail), ret |-> s]
          [] from < to \/ to = Invalid -> [mem |-> DDP_FREE_ARRAY(copy, s.str, s.cap), ret |-> [str |-> r.ptr, cap |-> cap]]

clamp(i, min, max) ==
    LET t == IF i < min THEN min ELSE i IN IF t > max THEN max ELSE t

(* Only for a text that is not empty and indices in order. *)
SliceOf(m, s, index1, index2) ==
    LET cells       == Block(m, s.str)
        Step(b, k)  == utf8_indicated_num_bytes(At(b, k))
        i1          == Advance(cells, 0, index1 - 1, Step)
        i2          == Advance(cells, i1, index2 - index1, Step)
        cap         == (i2 - i1) + 1 + utf8_num_bytes(cells, i2)
        r           == ddp_reallocate(m, NULL, 0, cap)
    IN  [mem |-> memcpy(memcpy(r.mem, r.ptr, 0, cells, i1, cap - 1), r.ptr, cap - 1, << 0 >>, 0, 1),
         ret |-> [str |-> r.ptr, cap |-> cap]]

SliceEnds(m, s, index1, index2) ==
    LET n == utf8_strlen(Block(m, s.str)) IN << clamp(index1, 1, n), clamp(index2, 1, n) >>

SliceError(m, s, index1, index2) ==
    /\ ~ddp_string_empty(m, s)
    /\ SliceEnds(m, s, index1, index2)[2] < SliceEnds(m, s, index1, index2)[1]

ddp_string_slice(m0, s, index1, index2) ==
    LET m == Using(m0, {s})
    IN  IF ddp_string_empty(m, s) THEN [mem |-> m, ret |-> DDP_EMPTY_STRING]
        ELSE SliceOf(m, s, SliceEnds(m, s, index1, index2)[1], SliceEnds(m, s, index1, index2)[2])

(***************************************************************************)
(* Conversions and comparison.                                             *)
(***************************************************************************)
ddp_char_to_string(m, c) ==
    LET t == utf8_char_to_string(c)
        n == IF t.num_bytes = Invalid THEN 0 ELSE t.num_bytes
        r == DDP_ALLOCATE(m, n + 1)
    IN  [mem |-> memcpy(memcpy(r.mem, r.ptr, 0, t.temp, 0, n), r.ptr, n, << 0 >>, 0, 1),
         ret |-> [str |-> r.ptr, cap |-> n + 1]]

(* ddp_int_to_string and its siblings for the other types: bytes is what   *)
(* sprintf wrote to the buffer, or the word for a Wahrheitswert.           *)
ddp_value_to_string(m, bytes) ==
    LET len == Len(bytes)
        r   == DDP_ALLOCATE(m, len + 1)
    IN  [mem |-> memcpy(memcpy(r.mem, r.ptr, 0, bytes, 0, len), r.ptr, len, << 0 >>, 0, 1),
         ret |-> [str |-> r.ptr, cap |-> len + 1]]

(* memcmp is only defined when both arrays have the cap bytes it compares. *)
ddp_string_equal(m0, str1, str2) ==
    LET m  == Using(m0, {str1, str2})
        b1 == Block(m, str1.str)
        b2 == Block(m, str2.str)
        n  == str1.cap
    IN  IF ddp_strlen(m, str1) # ddp_strlen(m, str2) THEN [mem |-> m, res |-> FALSE]
        ELSE [mem |-> IF n = 0 \/ (InBounds(b1, 0, n) /\ InBounds(b2, 0, n)) THEN m ELSE Fault(m),
              res |-> \A k \in 0 .. n - 1 : At(b1, k) = At(b2, k)]

(***************************************************************************)
(* The program: the calls the compiled code makes.                         *)
(***************************************************************************)
Idle == << "idle" >>

Holds(s) == slots[s] # Unset

Failed(op, s, i) ==
    /\ call' = << "Laufzeitfehler", op, s, i >>
    /\ UNCHANGED << mem, slots >>

Bytes(t) == FlattenSeq([k \in DOMAIN t |-> c32rtomb(t[k])])

Text == UNION {[1 .. n -> Chars] : n \in 0 .. MaxLen}

Init ==
    /\ mem = NoMemory
    /\ slots = [s \in Slots |-> Unset]
    /\ call = Idle
    /\ texts = [s \in Slots |-> Unset]

Return(ret, r, op) ==
    /\ mem' = r.mem
    /\ slots' = [slots EXCEPT ![ret] = r.ret]
    /\ call' = op

(* A literal (VisitStringLit). *)
Constant(ret) == \E t \in Text :
    Return(ret, ddp_string_from_constant(mem, Bytes(t) \o << 0 >>), << "constant", t >>)

(* A number or a Wahrheitswert as Text; what it prints as is ASCII. *)
ValueAsText(ret) == \E t \in {u \in Text : u # << >> /\ \A k \in DOMAIN u : u[k] < 128} :
    Return(ret, ddp_value_to_string(mem, Bytes(t)), << "constant", t >>)

CharAsText(ret) == \E c \in Chars :
    Return(ret, ddp_char_to_string(mem, c), << "constant", << c >> >>)

FreeString(s) ==
    /\ mem' = ddp_free_string(mem, slots[s])
    /\ slots' = [slots EXCEPT ![s] = Unset]
    /\ call' = << "free" >>

DeepCopy(ret, s) == Return(ret, ddp_deep_copy_string(mem, slots[s]), << "copy" >>)

(* Mutant: the claimed struct keeps its pointer. *)
ClaimWithoutReset(ret, arg, r, op) ==
    /\ mem' = r.mem
    /\ slots' = [slots EXCEPT ![ret] = r.ret]
    /\ call' = << "claim" >> \o op

(* The claimed operand is a temporary: its struct stays in the scope and   *)
(* is freed with it.                                                       *)
Claim(ret, arg, r, op) ==
    /\ mem' = r.mem
    /\ slots' = [slots EXCEPT ![ret] = r.ret, ![arg] = r.arg]
    /\ call' = << "claim" >> \o op

(* It is a variable: the call gets a copy, whose struct nobody looks at    *)
(* again.                                                                  *)
Join(ret, r, op) == Return(ret, r, << "join" >> \o op)

Length(s) == ddp_string_length(mem, slots[s])

StringString(ret, s1, s2) ==
    /\ s1 # s2
    /\ \/ Claim(ret, s1, ddp_string_string_verkettet(mem, slots[s1], slots[s2]), << s1, s2 >>)
       \/ \E copy \in {ddp_deep_copy_string(mem, slots[s1])} :
              Join(ret, ddp_string_string_verkettet(copy.mem, copy.ret, slots[s2]), << s1, s2 >>)

StringChar(ret, s, c) ==
    \/ Claim(ret, s, ddp_string_char_verkettet(mem, slots[s], c), << s, "char", c >>)
    \/ \E copy \in {ddp_deep_copy_string(mem, slots[s])} :
           Join(ret, ddp_string_char_verkettet(copy.mem, copy.ret, c), << s, "char", c >>)

CharString(ret, c, s) ==
    \/ Claim(ret, s, ddp_char_string_verkettet(mem, c, slots[s]), << "char", c, s >>)
    \/ \E copy \in {ddp_deep_copy_string(mem, slots[s])} :
           Join(ret, ddp_char_string_verkettet(copy.mem, c, copy.ret), << "char", c, s >>)

Slice(ret, s, i, j) ==
    IF SliceError(mem, slots[s], i, j)
    THEN Failed("slice", i, j)
    ELSE Return(ret, ddp_string_slice(mem, slots[s], i, j), << "slice", i, j >>)

(* Narrowing = FALSE leaves out the replacements that shorten the bytes.   *)
MayReplace(s, c, i) ==
    \/ Narrowing
    \/ utf8_num_bytes(Block(mem, slots[s].str), Offset(mem, slots[s], i)) <= utf8_num_bytes_char(c)

ReplaceChar(s, c, i) ==
    IF IndexError(mem, slots[s], i)
    THEN Failed("replace", s, i)
    ELSE /\ MayReplace(s, c, i)
         /\ Return(s, ddp_replace_char_in_string(mem, slots[s], c, i), << "replace", c, i >>)

Answer(m, op) == mem' = m /\ call' = op /\ UNCHANGED slots

IndexString(s, i) ==
    IF IndexError(mem, slots[s], i)
    THEN Failed("index", s, i)
    ELSE Answer(Using(mem, {slots[s]}), << "char", i, ddp_string_index(mem, slots[s], i) >>)

StringLength(s) == Answer(Using(mem, {slots[s]}), << "length", s, Length(s) >>)

StringEqual(s1, s2) ==
    IF s1 = s2 THEN Answer(mem, << "equal", s1, s2, TRUE >>)
    ELSE \E r \in {ddp_string_equal(mem, slots[s1], slots[s2])} : Answer(r.mem, << "equal", s1, s2, r.res >>)

Fill(ret) ==
    /\ ~Holds(ret)
    /\ \/ Constant(ret) \/ ValueAsText(ret) \/ CharAsText(ret)
       \/ \E s \in {t \in Slots : Holds(t)} :
            \/ DeepCopy(ret, s)
            \/ \E c \in Chars : StringChar(ret, s, c) \/ CharString(ret, c, s)
            \/ \E i, j \in Indices : Slice(ret, s, i, j)
            \/ \E s2 \in {t \in Slots : Holds(t)} : StringString(ret, s, s2)

Use(s) ==
    /\ Holds(s)
    /\ \/ FreeString(s) \/ StringLength(s)
       \/ \E i \in Indices : IndexString(s, i)
       \/ \E i \in Indices, c \in Chars : ReplaceChar(s, c, i)
       \/ \E s2 \in {t \in Slots : Holds(t)} : StringEqual(s, s2)

TextOf(m, s) ==
    IF s = Unset THEN Unset
    ELSE [k \in 1 .. ddp_string_length(m, s) |-> ddp_string_index(m, s, k)]

Total(view) == MapThenSumSet(LAMBDA s : IF view[s] = Unset THEN 0 ELSE Len(view[s]), Slots)

Call ==
    /\ call = Idle
    /\ \E s \in Slots : Fill(s) \/ Use(s)
    /\ texts' = [s \in Slots |-> TextOf(mem', slots'[s])]
    /\ Total(texts') <= MaxLen

(* The program takes the answer and goes on; after a Laufzeitfehler it has *)
(* ended.                                                                  *)
Continue ==
    /\ call # Idle /\ call[1] # "Laufzeitfehler"
    /\ call' = Idle
    /\ UNCHANGED << mem, slots, texts >>

Next == Call \/ Continue

Spec == Init /\ [][Next]_vars

(***************************************************************************)
(* Properties.                                                             *)
(***************************************************************************)
(* No call of operators.c or ddptypes.c reads or writes outside a block,   *)
(* through NULL or through a pointer another call has freed or moved.      *)
MemorySafe == mem.ok

(* The guarantee above each verkettet function: claimed memory goes to the *)
(* result or is freed.  Every allocated block belongs to exactly one       *)
(* struct, whatever the calls before, so each is freed exactly once.       *)
OwnedOnce ==
    /\ \A a \in Allocated(mem) : \E s \in Slots : Holds(s) /\ slots[s].str = a
    /\ \A s, t \in Slots : Holds(s) /\ Holds(t) /\ s # t /\ slots[s].str = slots[t].str
                            => slots[s].str = NULL
    /\ \A s \in Slots : Holds(s) => slots[s].str \in Allocated(mem) \cup {NULL}

(* What ddp_string_string_verkettet (cap - 1 is where the zero byte is)    *)
(* and ddp_string_equal (cap bytes are the whole text) rely on, and every  *)
(* function must hand on: cap counts exactly the bytes up to and with the  *)
(* zero byte, and an empty text owns no memory.                            *)
CapIsExact == \A s \in Slots : Holds(s) =>
    \/ slots[s] = DDP_EMPTY_STRING
    \/ /\ slots[s].cap = Len(Block(mem, slots[s].str))
       /\ slots[s].cap = ddp_strlen(mem, slots[s]) + 1
       /\ slots[s].cap > 1

ADT == INSTANCE TextADT

(* The bytes, capacities and moves of memory are invisible: every sequence *)
(* of runtime calls has the results and leaves the texts that the          *)
(* operations on sequences of characters have (TextADT).                   *)
ImplementsTexts == ADT!Spec
=============================================================================
