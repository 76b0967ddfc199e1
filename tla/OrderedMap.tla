----------------------------- MODULE OrderedMap -----------------------------
(***************************************************************************)
(* The sorted-slice map of src/src/parser/ordered_map/ordered_map.go, the  *)
(* container of the children of every node of the parser's alias trie.     *)
(* The binary search is a loop, modelled one iteration per step, so that   *)
(* its loop invariant is a state predicate.  The comparison functions are  *)
(* parameters, as they are in the code.                                    *)
(***************************************************************************)
EXTENDS Integers, Sequences

CONSTANTS Key, Value, NoValue,
          eq(_, _),     \* CompFunc: whether a is equal to b
          less(_, _)    \* CompFunc: whether a is less than b

(* What the map needs of the comparison functions it is given: eq          *)
(* identifies a key, and less is a strict total order on the keys.         *)
ASSUME EqAssumption ==
  \A a, b \in Key : eq(a, b) \in BOOLEAN /\ (eq(a, b) <=> a = b)

ASSUME LessAssumption ==
  /\ \A a, b \in Key : less(a, b) \in BOOLEAN
  /\ \A a \in Key : ~ less(a, a)
  /\ \A a, b, c \in Key : less(a, b) /\ less(b, c) => less(a, c)
  /\ \A a, b \in Key : a = b \/ less(a, b) \/ less(b, a)

ASSUME NoValueAssumption == NoValue \notin Value

VARIABLES data,   \* the slice: the alternating keys and values as records
          op,     \* the method being executed, "none" if there is none
          pc,     \* "idle", or where its call of binarySearch stands
          key,    \* the argument key
          val,    \* the argument value of Set
          low,    \* locals of binarySearch; low is its result index (0-based)
          high,
          res     \* what Get returned last

vars == <<data, op, pc, key, val, low, high, res>>

Entry == [key : Key, val : Value]

TypeOK ==
  /\ data \in Seq(Entry)
  /\ op \in {"none", "Set", "Get", "Delete"}
  /\ pc \in {"idle", "search", "found", "missed"}
  /\ (pc = "idle") <=> (op = "none")
  /\ key \in Key
  /\ val \in Value
  /\ low \in 0 .. Len(data)
  /\ high \in 0 .. Len(data)
  /\ pc = "search" => low <= high
  /\ pc = "found" => low < Len(data)
  /\ res \in Value \cup {NoValue}

(* New: an empty slice. *)
New ==
  /\ data = << >>
  /\ op = "none"
  /\ pc = "idle"
  /\ key \in Key
  /\ val \in Value
  /\ low = 0
  /\ high = 0
  /\ res = NoValue

(* Entering a method: binarySearch starts with low, high := 0, len/2. *)
Call(o) ==
  /\ pc = "idle"
  /\ op' = o
  /\ pc' = "search"
  /\ key' \in Key
  /\ val' \in Value
  /\ low' = 0
  /\ high' = Len(data)
  /\ UNCHANGED <<data, res>>

Mid == (low + high) \div 2

Probe == data[Mid + 1].key

ProbeEqual ==
  /\ pc = "search"
  /\ low < high
  /\ eq(Probe, key)
  /\ low' = Mid
  /\ pc' = "found"
  /\ UNCHANGED <<data, op, key, val, high, res>>

(* Mutant: the window keeps the probed key. *)
ProbeLessStuck ==
  /\ pc = "search"
  /\ low < high
  /\ ~ eq(Probe, key)
  /\ less(Probe, key)
  /\ low' = Mid
  /\ UNCHANGED <<data, op, pc, key, val, high, res>>

ProbeLess ==
  /\ pc = "search"
  /\ low < high
  /\ ~ eq(Probe, key)
  /\ less(Probe, key)
  /\ low' = Mid + 1
  /\ UNCHANGED <<data, op, pc, key, val, high, res>>

(* Mutant: the inclusive bound of a textbook search, high = mid - 1. *)
ProbeGreaterSkips ==
  /\ pc = "search"
  /\ low < high
  /\ ~ eq(Probe, key)
  /\ ~ less(Probe, key)
  /\ high' = Mid - 1
  /\ UNCHANGED <<data, op, pc, key, val, low, res>>

ProbeGreater ==
  /\ pc = "search"
  /\ low < high
  /\ ~ eq(Probe, key)
  /\ ~ less(Probe, key)
  /\ high' = Mid
  /\ UNCHANGED <<data, op, pc, key, val, low, res>>

ProbeEnd ==
  /\ pc = "search"
  /\ low >= high
  /\ pc' = "missed"
  /\ UNCHANGED <<data, op, key, val, low, high, res>>

(* The linear scan of Set: the new entry goes before position p, the first *)
(* one whose key is greater, or to the end of the slice.                   *)
IsInsertPos(p) ==
  /\ \A i \in 1 .. p - 1 : ~ less(key, data[i].key)
  /\ p <= Len(data) => less(key, data[p].key)

Insert(p) ==
  [i \in 1 .. Len(data) + 1 |->
     IF i < p THEN data[i]
     ELSE IF i = p THEN [key |-> key, val |-> val]
     ELSE data[i - 1]]

Return ==
  /\ op' = "none"
  /\ pc' = "idle"
  /\ low' = 0
  /\ high' = 0
  /\ UNCHANGED <<key, val>>

SetExisting ==
  /\ op = "Set"
  /\ pc = "found"
  /\ data' = [data EXCEPT ![low + 1].val = val]
  /\ Return
  /\ UNCHANGED res

SetNew ==
  /\ op = "Set"
  /\ pc = "missed"
  /\ \E p \in 1 .. Len(data) + 1 : IsInsertPos(p) /\ data' = Insert(p)
  /\ Return
  /\ UNCHANGED res

Get ==
  /\ op = "Get"
  /\ pc \in {"found", "missed"}
  /\ res' = IF pc = "found" THEN data[low + 1].val ELSE NoValue
  /\ Return
  /\ UNCHANGED data

(* Mutant: the entry after the one found is cut out. *)
WithoutNext(p) ==
  [i \in 1 .. Len(data) - 1 |-> IF i <= p THEN data[i] ELSE data[i + 1]]

(* append(data[:i], data[i+2:]...) *)
Without(p) ==
  [i \in 1 .. Len(data) - 1 |-> IF i < p THEN data[i] ELSE data[i + 1]]

DeleteExisting ==
  /\ op = "Delete"
  /\ pc = "found"
  /\ data' = Without(low + 1)
  /\ Return
  /\ UNCHANGED res

DeleteMissing ==
  /\ op = "Delete"
  /\ pc = "missed"
  /\ Return
  /\ UNCHANGED <<data, res>>

Step ==
  \/ ProbeEqual \/ ProbeLess \/ ProbeGreater \/ ProbeEnd
  \/ SetExisting \/ SetNew \/ Get \/ DeleteExisting \/ DeleteMissing

Next ==
  \/ Call("Set") \/ Call("Get") \/ Call("Delete")
  \/ Step

Spec == New /\ [][Next]_vars

(* The methods are sequential code that nothing can block.                 *)
FairSpec == Spec /\ WF_vars(Step)

-----------------------------------------------------------------------------

(* The promise of the type's comment, "keeps it's keys sorted in ascending *)
(* order": every key is less than every key stored after it.               *)
Sorted ==
  \A i, j \in 1 .. Len(data) : i < j => less(data[i].key, data[j].key)

(* The promise of the comment in Set, "without duplicate": no two entries  *)
(* of the slice hold equal keys.                                           *)
WithoutDuplicate ==
  \A i, j \in 1 .. Len(data) : i # j => ~ eq(data[i].key, data[j].key)

(* binarySearch answers for the whole slice although it only looks at a    *)
(* logarithmic number of keys: it stops at the key it was asked for, and   *)
(* when it gives up the key is nowhere in the slice.                       *)
SearchCorrect ==
  /\ pc = "found" => eq(data[low + 1].key, key)
  /\ pc = "missed" => \A i \in 1 .. Len(data) : ~ eq(data[i].key, key)

(* The contents of a slice as the map of MapADT. *)
Contents(d) ==
  [k \in Key |->
     IF \E i \in 1 .. Len(d) : d[i].key = k
     THEN d[CHOOSE i \in 1 .. Len(d) : d[i].key = k].val
     ELSE NoValue]

ADT == INSTANCE MapADT WITH map <- Contents(data)

(* Set, Get and Delete on the sorted slice are Set, Get and Delete of a    *)
(* map: each call takes effect in its last step and the search is          *)
(* invisible.                                                              *)
IsMap == ADT!Spec

(* Every call of Set, Get or Delete returns: the search window shrinks     *)
(* with every probe.                                                       *)
CallReturns == pc # "idle" ~> pc = "idle"
=============================================================================
