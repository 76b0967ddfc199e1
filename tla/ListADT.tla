------------------------------- MODULE ListADT -------------------------------
(***************************************************************************)
(* What the runtime promises of Listen: every variable holds a finite      *)
(* sequence of values, and the list operators of the language and the      *)
(* functions of Duden/Listen are operations on sequences.                  *)
(***************************************************************************)
EXTENDS Integers, Sequences, SequencesExt

CONSTANTS Slots,   \* the list variables of the program
          Values,  \* the values it puts into lists
          Indices, \* the indices it asks for
          MaxLen,  \* bound: elements of all lists together
          MaxLiteral, \* bound: elements of a literal
          InvalidIsError \* whether a deletion fails for an invalid index, as Duden/Listen documents

VARIABLES lists,   \* [Slots -> sequence of Values]
          call     \* the last statement, with what it returned

vars == << lists, call >>

(* No statement is being answered. *)
Idle == << "idle" >>

(* The program has ended with a Laufzeitfehler. *)
Failed(op, x, i, j) == << "Laufzeitfehler", op, x, i, j >>

Literals == UNION {[1 .. n -> Values] : n \in 0 .. MaxLiteral}

Init ==
    /\ lists = [x \in Slots |-> << >>]
    /\ call = Idle

Store(x, s) == lists' = [lists EXCEPT ![x] = s]

Clamp(i, lo, hi) == IF i < lo THEN lo ELSE IF i > hi THEN hi ELSE i

Literal(x) == \E s \in Literals : call' = << "literal", s >> /\ Store(x, s)

Copy(x, y) == call' = << "copy", x, y >> /\ Store(x, lists[y])

JoinLists(x, y, z) == call' = << "join", x, y, z >> /\ Store(x, lists[y] \o lists[z])

JoinLiteral(x, y) == \E s \in Literals : call' = << "claim", x, s, y >> /\ Store(x, s \o lists[y])

JoinValue(x, y, v) ==
    \/ call' = << "append", x, y, v >> /\ Store(x, Append(lists[y], v))
    \/ call' = << "prepend", x, v, y >> /\ Store(x, << v >> \o lists[y])

JoinValues(x, v, u) == call' = << "pair", x, v, u >> /\ Store(x, << v, u >>)

Slice(x, y, i, j) ==
    LET n    == Len(lists[y])
        from == Clamp(i, 1, n)
        to   == Clamp(j, 1, n)
    IN  \/ /\ call' = << "slice", x, y, i, j >>
           /\ n = 0 \/ from <= to
           /\ Store(x, IF n = 0 THEN << >> ELSE SubSeq(lists[y], from, to))
        \/ /\ call' = Failed("slice", y, i, j)
           /\ n # 0 /\ to < from
           /\ UNCHANGED lists

Replace(x, i, v) ==
    \/ /\ call' = << "replace", x, i, v >>
       /\ i \in DOMAIN lists[x]
       /\ Store(x, [lists[x] EXCEPT ![i] = v])
    \/ /\ call' = Failed("replace", x, i, v)
       /\ i \notin DOMAIN lists[x]
       /\ UNCHANGED lists

InsertAll(x, i, s, op) ==
    \/ /\ call' = op
       /\ i \in 1 .. Len(lists[x]) + 1
       /\ Store(x, SubSeq(lists[x], 1, i - 1) \o s \o SubSeq(lists[x], i, Len(lists[x])))
    \/ /\ call' = Failed("insert", x, i, s)
       /\ i \notin 1 .. Len(lists[x]) + 1
       /\ UNCHANGED lists

Insert(x, i, s) == InsertAll(x, i, s, << "insert", x, i, s >>)

(* As documented, the indices are those of elements; as written, the range *)
(* is clamped to the list, and only a reversed range is an error.          *)
DeleteError(n, i, j) == IF InvalidIsError THEN ~ (1 <= i /\ i <= j /\ j <= n) ELSE n # 0 /\ i > j

DeleteRange(x, i, j) ==
    LET n    == Len(lists[x])
        from == Clamp(i, 1, n)
        to   == Clamp(j, 1, n)
    IN  \/ /\ call' = << "delete", x, i, j >>
           /\ ~ DeleteError(n, i, j)
           /\ Store(x, IF n = 0 THEN << >> ELSE SubSeq(lists[x], 1, from - 1) \o SubSeq(lists[x], to + 1, n))
        \/ /\ call' = Failed("delete", x, i, j)
           /\ DeleteError(n, i, j)
           /\ UNCHANGED lists

Index(x, i) ==
    /\ call' = IF i \in DOMAIN lists[x] THEN << "index", x, i, lists[x][i] >> ELSE Failed("index", x, i, i)
    /\ UNCHANGED lists

Equal(x, y) ==
    /\ call' = << "equal", x, y, lists[x] = lists[y] >>
    /\ UNCHANGED lists

Call ==
    /\ call = Idle
    /\ \E x \in Slots :
        \/ Literal(x)
        \/ \E i, j \in Indices : DeleteRange(x, i, j)
        \/ \E i \in Indices : Index(x, i) \/ \E v \in Values : Replace(x, i, v) \/ Insert(x, i, << v >>)
        \/ \E v, u \in Values : JoinValues(x, v, u)
        \/ \E y \in Slots :
            \/ Copy(x, y) \/ JoinLiteral(x, y) \/ Equal(x, y)
            \/ \E v \in Values : JoinValue(x, y, v)
            \/ \E z \in Slots : JoinLists(x, y, z)
            \/ \E i, j \in Indices : Slice(x, y, i, j)
            \/ \E i \in Indices : Insert(x, i, lists[y])

Continue ==
    /\ call # Idle /\ call[1] # "Laufzeitfehler"
    /\ call' = Idle
    /\ UNCHANGED lists

Next == Continue \/ Call

Spec == Init /\ [][Next]_vars
=============================================================================
