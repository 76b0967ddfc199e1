-------------------------- MODULE OrderedMapProofs --------------------------
(***************************************************************************)
(* The sorted slice of OrderedMap is correct for every set of keys, every  *)
(* length and every strict total order: it stays sorted, the binary search *)
(* answers for the whole slice, and the methods implement a map.           *)
(***************************************************************************)
EXTENDS OrderedMap, TLAPS

(* The loop invariant of binarySearch: the keys left of the window are     *)
(* less than the key searched for, those right of it are greater.          *)
Window ==
  pc = "search" =>
    /\ \A i \in 1 .. low : less(data[i].key, key)
    /\ \A i \in high + 1 .. Len(data) : less(key, data[i].key)

(* The inductive invariant. *)
IInv == TypeOK /\ Sorted /\ Window /\ SearchCorrect

(* A function on 1 .. n with values in S is a sequence over S of length n. *)
LEMMA FunctionIsSeq ==
  ASSUME NEW n \in Nat, NEW S, NEW f \in [1 .. n -> S]
  PROVE  f \in Seq(S) /\ Len(f) = n
  OBVIOUS

(* A sequence is a function on its indices. *)
LEMMA SeqIsFunction ==
  ASSUME NEW S, NEW s \in Seq(S)
  PROVE  /\ Len(s) \in Nat
         /\ s \in [1 .. Len(s) -> S]
  OBVIOUS

(* Every entry of the slice holds a key. *)
LEMMA KeysAreKeys ==
  ASSUME TypeOK
  PROVE  /\ Len(data) \in Nat
         /\ \A i \in 1 .. Len(data) : data[i] \in Entry /\ data[i].key \in Key
<1>1. Len(data) \in Nat /\ data \in [1 .. Len(data) -> Entry]
  BY SeqIsFunction DEF TypeOK
<1>2. \A e \in Entry : e.key \in Key
  BY DEF Entry
<1> QED
  BY <1>1, <1>2

(* The probe of a non-empty window lies inside it. *)
LEMMA MidInWindow ==
  ASSUME TypeOK, pc = "search", low < high
  PROVE  /\ Mid \in low .. high - 1
         /\ Mid + 1 \in 1 .. Len(data)
         /\ Probe \in Key
<1>1. low \in Nat /\ high \in Nat /\ Len(data) \in Nat /\ high <= Len(data)
  BY SeqIsFunction DEF TypeOK
<1>2. Mid \in low .. high - 1
  BY <1>1 DEF Mid
<1>3. Mid + 1 \in 1 .. Len(data)
  BY <1>1, <1>2
<1>4. data[Mid + 1] \in Entry
  BY <1>3, SeqIsFunction DEF TypeOK
<1> QED
  BY <1>2, <1>3, <1>4 DEF Probe, Entry

(* The entry Set inserts keeps the slice a sequence of entries. *)
LEMMA InsertType ==
  ASSUME TypeOK, NEW p \in 1 .. Len(data) + 1
  PROVE  Insert(p) \in Seq(Entry) /\ Len(Insert(p)) = Len(data) + 1
<1>1. Len(data) \in Nat /\ data \in [1 .. Len(data) -> Entry]
  BY SeqIsFunction DEF TypeOK
<1>2. [key |-> key, val |-> val] \in Entry
  BY DEF TypeOK, Entry
<1>3. Insert(p) \in [1 .. Len(data) + 1 -> Entry]
  BY <1>1, <1>2 DEF Insert
<1> QED
  BY <1>1, <1>3, FunctionIsSeq

(* The slice without one entry is a sequence of entries. *)
LEMMA WithoutType ==
  ASSUME TypeOK, NEW p \in 1 .. Len(data)
  PROVE  Without(p) \in Seq(Entry) /\ Len(Without(p)) = Len(data) - 1
<1>1. Len(data) \in Nat /\ data \in [1 .. Len(data) -> Entry]
  BY SeqIsFunction DEF TypeOK
<1>2. Without(p) \in [1 .. Len(data) - 1 -> Entry]
  BY <1>1 DEF Without
<1>3. Len(data) - 1 \in Nat
  BY <1>1
<1> QED
  BY <1>2, <1>3, FunctionIsSeq

(* Where the scan of Set stops, everything before is less than the key and *)
(* everything from there on is greater, provided the key is new.           *)
LEMMA InsertPosSplits ==
  ASSUME TypeOK, Sorted,
         \A i \in 1 .. Len(data) : ~ eq(data[i].key, key),
         NEW p \in 1 .. Len(data) + 1, IsInsertPos(p)
  PROVE  /\ \A i \in 1 .. p - 1 : less(data[i].key, key)
         /\ \A i \in p .. Len(data) : less(key, data[i].key)
<1>1. /\ Len(data) \in Nat
      /\ key \in Key
      /\ \A i \in 1 .. Len(data) : data[i].key \in Key
  BY KeysAreKeys DEF TypeOK
<1>2. ASSUME NEW i \in 1 .. p - 1
      PROVE  less(data[i].key, key)
  <2>1. i \in 1 .. Len(data) /\ ~ less(key, data[i].key)
    BY <1>1 DEF IsInsertPos
  <2>2. data[i].key # key
    BY <1>1, <2>1, EqAssumption
  <2> QED
    BY <1>1, <2>1, <2>2, LessAssumption
<1>3. ASSUME NEW i \in p .. Len(data)
      PROVE  less(key, data[i].key)
  <2>1. p \in 1 .. Len(data) /\ i \in 1 .. Len(data)
    BY <1>1
  <2>2. less(key, data[p].key)
    BY <1>1, <2>1 DEF IsInsertPos
  <2>3. i = p \/ less(data[p].key, data[i].key)
    BY <1>1, <2>1 DEF Sorted
  <2> QED
    BY <1>1, <2>1, <2>2, <2>3, LessAssumption
<1> QED
  BY <1>2, <1>3

(* New, and every step of a method, keep the inductive invariant.          *)
LEMMA InitIInv ==
  New => IInv
<1> SUFFICES ASSUME New PROVE IInv
  OBVIOUS
<1>1. data \in Seq(Entry) /\ Len(data) = 0
  BY DEF New
<1> QED
  BY <1>1 DEF New, IInv, TypeOK, Sorted, Window, SearchCorrect

(* Starting a search: the window is the whole slice. *)
LEMMA CallKeepsIInv ==
  ASSUME IInv, NEW o \in {"Set", "Get", "Delete"}, Call(o)
  PROVE  IInv'
<1>1. Len(data) \in Nat
  BY KeysAreKeys DEF IInv
<1> QED
  BY <1>1 DEF IInv, TypeOK, Sorted, Window, SearchCorrect, Call

(* A probe that hits ends the search at the key. *)
LEMMA ProbeEqualKeepsIInv ==
  ASSUME IInv, ProbeEqual
  PROVE  IInv'
<1>1. Mid \in low .. high - 1 /\ Mid + 1 \in 1 .. Len(data) /\ Len(data) \in Nat
  BY MidInWindow, KeysAreKeys DEF IInv, ProbeEqual
<1>2. low \in Int /\ high \in Int
  BY <1>1 DEF IInv, TypeOK
<1>3. TypeOK'
  BY <1>1, <1>2 DEF IInv, TypeOK, ProbeEqual
<1>4. Sorted' /\ Window'
  BY DEF IInv, Sorted, Window, ProbeEqual
<1>5. SearchCorrect'
  BY DEF SearchCorrect, ProbeEqual, Probe
<1> QED
  BY <1>3, <1>4, <1>5 DEF IInv

(* A probe below the key moves the window's left end past it.              *)
LEMMA ProbeLessKeepsIInv ==
  ASSUME IInv, ProbeLess
  PROVE  IInv'
<1>1. /\ Mid \in low .. high - 1
      /\ Mid + 1 \in 1 .. Len(data)
      /\ Len(data) \in Nat
      /\ \A i \in 1 .. Len(data) : data[i].key \in Key
      /\ key \in Key
  BY MidInWindow, KeysAreKeys DEF IInv, ProbeLess, TypeOK
<1>2. low \in Int /\ high \in Int
  BY <1>1 DEF IInv, TypeOK
<1>3. TypeOK'
  BY <1>1, <1>2 DEF IInv, TypeOK, ProbeLess
<1>4. Sorted' /\ SearchCorrect'
  BY DEF IInv, Sorted, SearchCorrect, ProbeLess
<1>5. ASSUME NEW i \in 1 .. Mid + 1
      PROVE  less(data[i].key, key)
  <2>1. i \in 1 .. Len(data)
    BY <1>1
  <2>2. i = Mid + 1 \/ less(data[i].key, data[Mid + 1].key)
    BY <1>1, <2>1 DEF IInv, Sorted
  <2>3. less(data[Mid + 1].key, key)
    BY DEF ProbeLess, Probe
  <2> QED
    BY <1>1, <2>1, <2>2, <2>3, LessAssumption
<1>6. Window'
  BY <1>5 DEF IInv, Window, ProbeLess
<1> QED
  BY <1>3, <1>4, <1>6 DEF IInv

(* A probe above the key moves the window's right end onto it.             *)
LEMMA ProbeGreaterKeepsIInv ==
  ASSUME IInv, ProbeGreater
  PROVE  IInv'
<1>1. /\ Mid \in low .. high - 1
      /\ Mid + 1 \in 1 .. Len(data)
      /\ Len(data) \in Nat
      /\ \A i \in 1 .. Len(data) : data[i].key \in Key
      /\ key \in Key
  BY MidInWindow, KeysAreKeys DEF IInv, ProbeGreater, TypeOK
<1>2. low \in Int /\ high \in Int
  BY <1>1 DEF IInv, TypeOK
<1>3. TypeOK'
  BY <1>1, <1>2 DEF IInv, TypeOK, ProbeGreater
<1>4. Sorted' /\ SearchCorrect'
  BY DEF IInv, Sorted, SearchCorrect, ProbeGreater
<1>5. ASSUME NEW i \in Mid + 1 .. Len(data)
      PROVE  less(key, data[i].key)
  <2>1. i \in 1 .. Len(data)
    BY <1>1
  <2>2. i = Mid + 1 \/ less(data[Mid + 1].key, data[i].key)
    BY <1>1, <2>1 DEF IInv, Sorted
  <2>3. less(key, data[Mid + 1].key)
    BY <1>1, EqAssumption, LessAssumption DEF ProbeGreater, Probe
  <2> QED
    BY <1>1, <2>1, <2>2, <2>3, LessAssumption
<1>6. Window'
  BY <1>5 DEF IInv, Window, ProbeGreater
<1> QED
  BY <1>3, <1>4, <1>6 DEF IInv

(* When the window is empty the key is not in the slice: everything is     *)
(* either less or greater.                                                 *)
LEMMA ProbeEndKeepsIInv ==
  ASSUME IInv, ProbeEnd
  PROVE  IInv'
<1>1. /\ Len(data) \in Nat
      /\ \A i \in 1 .. Len(data) : data[i].key \in Key
      /\ key \in Key
      /\ low \in 0 .. Len(data)
      /\ high = low
  BY KeysAreKeys DEF IInv, ProbeEnd, TypeOK
<1>2. TypeOK'
  BY DEF IInv, TypeOK, ProbeEnd
<1>3. Sorted' /\ Window'
  BY DEF IInv, Sorted, Window, ProbeEnd
<1>4. ASSUME NEW i \in 1 .. Len(data)
      PROVE  ~ eq(data[i].key, key)
  <2>1. less(data[i].key, key) \/ less(key, data[i].key)
    BY <1>1 DEF IInv, Window, ProbeEnd
  <2> QED
    BY <1>1, <2>1, EqAssumption, LessAssumption
<1>5. SearchCorrect'
  BY <1>4 DEF SearchCorrect, ProbeEnd
<1> QED
  BY <1>2, <1>3, <1>5 DEF IInv

(* Overwriting a value moves no key. *)
LEMMA SetExistingKeepsIInv ==
  ASSUME IInv, SetExisting
  PROVE  IInv'
<1>1. /\ Len(data) \in Nat
      /\ data \in [1 .. Len(data) -> Entry]
      /\ low + 1 \in 1 .. Len(data)
      /\ val \in Value
  BY SeqIsFunction DEF IInv, TypeOK, SetExisting
<1>2. /\ data' \in [1 .. Len(data) -> Entry]
      /\ \A i \in 1 .. Len(data) : data'[i].key = data[i].key
  BY <1>1 DEF SetExisting, Entry
<1>3. data' \in Seq(Entry) /\ Len(data') = Len(data)
  BY <1>1, <1>2, FunctionIsSeq
<1>4. TypeOK'
  BY <1>1, <1>3 DEF IInv, TypeOK, SetExisting, Return
<1>5. Sorted'
  BY <1>2, <1>3 DEF IInv, Sorted
<1>6. Window' /\ SearchCorrect'
  BY DEF Window, SearchCorrect, SetExisting, Return
<1> QED
  BY <1>4, <1>5, <1>6 DEF IInv

(* Inserting before the first greater key keeps the slice sorted. *)
LEMMA SetNewKeepsIInv ==
  ASSUME IInv, SetNew
  PROVE  IInv'
<1>1. PICK p \in 1 .. Len(data) + 1 : IsInsertPos(p) /\ data' = Insert(p)
  BY DEF SetNew
<1>2. /\ \A i \in 1 .. p - 1 : less(data[i].key, key)
      /\ \A i \in p .. Len(data) : less(key, data[i].key)
  BY <1>1, InsertPosSplits DEF IInv, SearchCorrect, SetNew
<1>3. Len(data) \in Nat /\ p \in Nat
  BY KeysAreKeys DEF IInv
<1>4. data' \in Seq(Entry) /\ Len(data') = Len(data) + 1
  BY <1>1, InsertType DEF IInv
<1>5. TypeOK'
  BY <1>3, <1>4 DEF IInv, TypeOK, SetNew, Return
<1>6. ASSUME NEW i \in 1 .. Len(data) + 1, NEW j \in 1 .. Len(data) + 1, i < j
      PROVE  less(data'[i].key, data'[j].key)
  <2>1. CASE j < p
    <3>1. data'[i] = data[i] /\ data'[j] = data[j]
      BY <1>1, <1>3, <1>6, <2>1 DEF Insert
    <3> QED
      BY <1>3, <1>6, <2>1, <3>1 DEF IInv, Sorted
  <2>2. CASE j = p
    <3>1. data'[i] = data[i] /\ data'[j].key = key
      BY <1>1, <1>3, <1>6, <2>2 DEF Insert
    <3> QED
      BY <1>2, <1>3, <1>6, <2>2, <3>1
  <2>3. CASE i < p /\ p < j
    <3>1. data'[i] = data[i] /\ data'[j] = data[j - 1]
      BY <1>1, <1>3, <1>6, <2>3 DEF Insert
    <3> QED
      BY <1>3, <1>6, <2>3, <3>1 DEF IInv, Sorted
  <2>4. CASE i = p
    <3>1. data'[i].key = key /\ data'[j] = data[j - 1]
      BY <1>1, <1>3, <1>6, <2>4 DEF Insert
    <3> QED
      BY <1>2, <1>3, <1>6, <2>4, <3>1
  <2>5. CASE p < i
    <3>1. data'[i] = data[i - 1] /\ data'[j] = data[j - 1]
      BY <1>1, <1>3, <1>6, <2>5 DEF Insert
    <3> QED
      BY <1>3, <1>6, <2>5, <3>1 DEF IInv, Sorted
  <2> QED
    BY <1>3, <1>6, <2>1, <2>2, <2>3, <2>4, <2>5
<1>7. Sorted'
  BY <1>4, <1>6 DEF Sorted
<1>8. Window' /\ SearchCorrect'
  BY DEF Window, SearchCorrect, SetNew, Return
<1> QED
  BY <1>5, <1>7, <1>8 DEF IInv

(* Get changes nothing but the answer. *)
LEMMA GetKeepsIInv ==
  ASSUME IInv, Get
  PROVE  IInv'
<1>1. /\ Len(data) \in Nat
      /\ \A i \in 1 .. Len(data) : data[i] \in Entry
  BY KeysAreKeys DEF IInv
<1>2. pc = "found" => data[low + 1].val \in Value
  BY <1>1 DEF IInv, TypeOK, Entry
<1>3. TypeOK'
  BY <1>1, <1>2 DEF IInv, TypeOK, Get, Return
<1> QED
  BY <1>3 DEF IInv, Sorted, Window, SearchCorrect, Get, Return

(* Taking an entry out of a sorted slice leaves it sorted. *)
LEMMA DeleteExistingKeepsIInv ==
  ASSUME IInv, DeleteExisting
  PROVE  IInv'
<1>1. Len(data) \in Nat /\ low \in Nat /\ low + 1 \in 1 .. Len(data)
  BY KeysAreKeys DEF IInv, TypeOK, DeleteExisting
<1>2. data' \in Seq(Entry) /\ Len(data') = Len(data) - 1
  BY <1>1, WithoutType DEF IInv, DeleteExisting
<1>3. TypeOK'
  BY <1>1, <1>2 DEF IInv, TypeOK, DeleteExisting, Return
<1>4. ASSUME NEW i \in 1 .. Len(data) - 1, NEW j \in 1 .. Len(data) - 1, i < j
      PROVE  less(data'[i].key, data'[j].key)
  <2>1. CASE j < low + 1
    <3>1. data'[i] = data[i] /\ data'[j] = data[j]
      BY <1>1, <1>4, <2>1 DEF DeleteExisting, Without
    <3> QED
      BY <1>1, <1>4, <3>1 DEF IInv, Sorted
  <2>2. CASE i < low + 1 /\ low + 1 <= j
    <3>1. data'[i] = data[i] /\ data'[j] = data[j + 1]
      BY <1>1, <1>4, <2>2 DEF DeleteExisting, Without
    <3> QED
      BY <1>1, <1>4, <3>1 DEF IInv, Sorted
  <2>3. CASE low + 1 <= i
    <3>1. data'[i] = data[i + 1] /\ data'[j] = data[j + 1]
      BY <1>1, <1>4, <2>3 DEF DeleteExisting, Without
    <3> QED
      BY <1>1, <1>4, <3>1 DEF IInv, Sorted
  <2> QED
    BY <1>1, <1>4, <2>1, <2>2, <2>3
<1>5. Sorted'
  BY <1>2, <1>4 DEF Sorted
<1>6. Window' /\ SearchCorrect'
  BY DEF Window, SearchCorrect, DeleteExisting, Return
<1> QED
  BY <1>3, <1>5, <1>6 DEF IInv

(* Every step keeps the inductive invariant. *)
LEMMA NextIInv ==
  IInv /\ [Next]_vars => IInv'
<1> SUFFICES ASSUME IInv, [Next]_vars PROVE IInv'
  OBVIOUS
<1>1. CASE Call("Set") \/ Call("Get") \/ Call("Delete")
  BY <1>1, CallKeepsIInv
<1>2. CASE ProbeEqual
  BY <1>2, ProbeEqualKeepsIInv
<1>3. CASE ProbeLess
  BY <1>3, ProbeLessKeepsIInv
<1>4. CASE ProbeGreater
  BY <1>4, ProbeGreaterKeepsIInv
<1>5. CASE ProbeEnd
  BY <1>5, ProbeEndKeepsIInv
<1>6. CASE SetExisting
  BY <1>6, SetExistingKeepsIInv
<1>7. CASE SetNew
  BY <1>7, SetNewKeepsIInv
<1>8. CASE Get
  BY <1>8, GetKeepsIInv
<1>9. CASE DeleteExisting
  BY <1>9, DeleteExistingKeepsIInv
<1>10. CASE DeleteMissing
  <2>1. Len(data) \in Nat
    BY KeysAreKeys DEF IInv
  <2> QED
    BY <1>10, <2>1 DEF IInv, TypeOK, Sorted, Window, SearchCorrect, DeleteMissing, Return
<1>11. CASE UNCHANGED vars
  BY <1>11 DEF IInv, TypeOK, Sorted, Window, SearchCorrect, vars
<1> QED
  BY <1>1, <1>2, <1>3, <1>4, <1>5, <1>6, <1>7, <1>8, <1>9, <1>10, <1>11
     DEF Next, Step

(* The inductive invariant holds in every reachable state of the map. *)
THEOREM Invariance == Spec => []IInv
<1>1. New => IInv
  BY InitIInv
<1>2. IInv /\ [Next]_vars => IInv'
  BY NextIInv
<1> QED
  BY <1>1, <1>2, PTL DEF Spec

(* The slice of the ordered map is sorted after every method of            *)
(* ordered_map.go, for every strict total order on any set of keys.        *)
THEOREM AlwaysSorted == Spec => []Sorted
<1>1. IInv => Sorted
  BY DEF IInv
<1> QED
  BY <1>1, Invariance, PTL

(* binarySearch never misses a key that is in the slice and never stops at *)
(* another one.                                                            *)
THEOREM SearchAlwaysCorrect == Spec => []SearchCorrect
<1>1. IInv => SearchCorrect
  BY DEF IInv
<1> QED
  BY <1>1, Invariance, PTL

(* What Contents says of a sorted slice: the value stored with a key, and  *)
(* NoValue for a key that is not stored.                                   *)
LEMMA ContentsChar ==
  ASSUME NEW d \in Seq(Entry),
         \A i, j \in 1 .. Len(d) : i < j => less(d[i].key, d[j].key)
  PROVE  /\ Contents(d) \in [Key -> Value \cup {NoValue}]
         /\ \A i \in 1 .. Len(d) : Contents(d)[d[i].key] = d[i].val
         /\ \A k \in Key :
              (\A i \in 1 .. Len(d) : d[i].key # k) => Contents(d)[k] = NoValue
<1>1. /\ Len(d) \in Nat
      /\ \A i \in 1 .. Len(d) : d[i].key \in Key /\ d[i].val \in Value
  <2>1. Len(d) \in Nat /\ d \in [1 .. Len(d) -> Entry]
    BY SeqIsFunction
  <2> QED
    BY <2>1 DEF Entry
<1>2. ASSUME NEW i \in 1 .. Len(d)
      PROVE  Contents(d)[d[i].key] = d[i].val
  <2>1. \A j \in 1 .. Len(d) : d[j].key = d[i].key => j = i
    <3>1. ASSUME NEW j \in 1 .. Len(d), j # i
          PROVE  less(d[i].key, d[j].key) \/ less(d[j].key, d[i].key)
      BY <1>1, <3>1
    <3> QED
      BY <1>1, <3>1, LessAssumption
  <2>2. (CHOOSE j \in 1 .. Len(d) : d[j].key = d[i].key) = i
    BY <2>1
  <2> QED
    BY <1>1, <2>2 DEF Contents
<1>3. ASSUME NEW k \in Key, \A i \in 1 .. Len(d) : d[i].key # k
      PROVE  Contents(d)[k] = NoValue
  BY <1>3 DEF Contents
<1>4. ASSUME NEW k \in Key
      PROVE  Contents(d)[k] \in Value \cup {NoValue}
  BY <1>1, <1>2, <1>3
<1>5. Contents(d) = [k \in Key |-> Contents(d)[k]]
  BY DEF Contents
<1> QED
  BY <1>2, <1>3, <1>4, <1>5

(* The entries of all keys but k stay, and k's entry becomes v or, for     *)
(* v = NoValue, disappears.                                                *)
Updates(d, e, k, v) ==
  /\ \A i \in 1 .. Len(d) : d[i].key # k => \E j \in 1 .. Len(e) : e[j] = d[i]
  /\ \A j \in 1 .. Len(e) : e[j].key # k => \E i \in 1 .. Len(d) : d[i] = e[j]
  /\ \/ \E j \in 1 .. Len(e) : e[j].key = k /\ e[j].val = v
     \/ v = NoValue /\ \A j \in 1 .. Len(e) : e[j].key # k

(* Such a step updates the contents at k. *)
LEMMA ContentsUpdate ==
  ASSUME IInv, IInv', NEW k \in Key, NEW v, Updates(data, data', k, v)
  PROVE  Contents(data') = [Contents(data) EXCEPT ![k] = v]
<1> DEFINE d == data
           e == data'
<1>0. /\ d \in Seq(Entry) /\ e \in Seq(Entry)
      /\ \A i, j \in 1 .. Len(d) : i < j => less(d[i].key, d[j].key)
      /\ \A i, j \in 1 .. Len(e) : i < j => less(e[i].key, e[j].key)
      /\ Updates(d, e, k, v)
  BY DEF IInv, TypeOK, Sorted
<1> HIDE DEF d, e
<1>1. /\ Contents(d) \in [Key -> Value \cup {NoValue}]
      /\ \A i \in 1 .. Len(d) : Contents(d)[d[i].key] = d[i].val
      /\ \A l \in Key :
           (\A i \in 1 .. Len(d) : d[i].key # l) => Contents(d)[l] = NoValue
  BY <1>0, ContentsChar
<1>2. /\ Contents(e) \in [Key -> Value \cup {NoValue}]
      /\ \A i \in 1 .. Len(e) : Contents(e)[e[i].key] = e[i].val
      /\ \A l \in Key :
           (\A i \in 1 .. Len(e) : e[i].key # l) => Contents(e)[l] = NoValue
  BY <1>0, ContentsChar
<1>3. Contents(e)[k] = v
  BY <1>0, <1>2 DEF Updates
<1>4. ASSUME NEW l \in Key, l # k
      PROVE  Contents(e)[l] = Contents(d)[l]
  <2>1. CASE \E i \in 1 .. Len(d) : d[i].key = l
    <3>1. PICK i \in 1 .. Len(d) : d[i].key = l
      BY <2>1
    <3>2. PICK j \in 1 .. Len(e) : e[j] = d[i]
      BY <1>0, <1>4, <3>1 DEF Updates
    <3>3. Contents(e)[l] = d[i].val
      BY <1>2, <3>1, <3>2
    <3> QED
      BY <1>1, <3>1, <3>3
  <2>2. CASE \A i \in 1 .. Len(d) : d[i].key # l
    <3>1. ASSUME NEW j \in 1 .. Len(e), e[j].key = l
          PROVE  FALSE
      <4>1. \E i \in 1 .. Len(d) : d[i] = e[j]
        BY <1>0, <1>4, <3>1 DEF Updates
      <4> QED
        BY <2>2, <3>1, <4>1
    <3> QED
      BY <1>1, <1>2, <2>2, <3>1
  <2> QED
    BY <2>1, <2>2
<1>5. Contents(e) = [Contents(d) EXCEPT ![k] = v]
  BY <1>1, <1>2, <1>3, <1>4
<1> QED
  BY <1>5 DEF d, e

(* Overwriting the value of a key is Set of the abstract map. *)
LEMMA SetExistingIsSet ==
  ASSUME IInv, IInv', SetExisting
  PROVE  ADT!Set
<1>1. /\ Len(data) \in Nat
      /\ data \in [1 .. Len(data) -> Entry]
      /\ low + 1 \in 1 .. Len(data)
      /\ key \in Key
      /\ data \in Seq(Entry) /\ data' \in Seq(Entry)
  BY SeqIsFunction DEF IInv, TypeOK, SetExisting
<1>2. data[low + 1].key = key
  BY <1>1, EqAssumption DEF IInv, SearchCorrect, SetExisting, Entry
<1>3. /\ Len(data') = Len(data)
      /\ \A i \in 1 .. Len(data) : i # low + 1 => data'[i] = data[i]
      /\ data'[low + 1].key = key
      /\ data'[low + 1].val = val
  BY <1>1, <1>2 DEF SetExisting, Entry
<1>4. Updates(data, data', key, val)
  BY <1>1, <1>2, <1>3 DEF Updates
<1>5. Contents(data') = [Contents(data) EXCEPT ![key] = val]
  BY <1>1, <1>4, ContentsUpdate
<1> QED
  BY <1>5 DEF ADT!Set, SetExisting, Return

(* Inserting the entry of a new key is Set of the abstract map. *)
LEMMA SetNewIsSet ==
  ASSUME IInv, IInv', SetNew
  PROVE  ADT!Set
<1>1. PICK p \in 1 .. Len(data) + 1 : data' = Insert(p)
  BY DEF SetNew
<1>2. /\ Len(data) \in Nat /\ p \in Nat
      /\ key \in Key
      /\ Len(data') = Len(data) + 1
  BY <1>1, KeysAreKeys, InsertType DEF IInv, TypeOK
<1>3. /\ \A i \in 1 .. p - 1 : data'[i] = data[i]
      /\ \A i \in p .. Len(data) : data'[i + 1] = data[i]
      /\ data'[p] = [key |-> key, val |-> val]
  BY <1>1, <1>2 DEF Insert
<1>4. ASSUME NEW i \in 1 .. Len(data)
      PROVE  \E j \in 1 .. Len(data') : data'[j] = data[i]
  <2>1. CASE i < p
    BY <1>2, <1>3, <2>1
  <2>2. CASE i >= p
    <3>1. i + 1 \in 1 .. Len(data') /\ data'[i + 1] = data[i]
      BY <1>2, <1>3, <2>2
    <3> QED
      BY <3>1
  <2> QED
    BY <1>2, <2>1, <2>2
<1>5. ASSUME NEW j \in 1 .. Len(data'), data'[j].key # key
      PROVE  \E i \in 1 .. Len(data) : data[i] = data'[j]
  <2>1. CASE j < p
    BY <1>2, <1>3, <2>1
  <2>2. CASE j > p
    <3>1. j - 1 \in p .. Len(data) /\ j - 1 \in 1 .. Len(data) /\ (j - 1) + 1 = j
      BY <1>2, <2>2
    <3>2. data'[j] = data[j - 1]
      BY <1>3, <3>1
    <3> QED
      BY <3>1, <3>2
  <2>3. j # p
    BY <1>3, <1>5
  <2> QED
    BY <1>2, <2>1, <2>2, <2>3
<1>6. p \in 1 .. Len(data') /\ data'[p].key = key /\ data'[p].val = val
  BY <1>2, <1>3
<1>7. Updates(data, data', key, val)
  BY <1>4, <1>5, <1>6 DEF Updates
<1>8. Contents(data') = [Contents(data) EXCEPT ![key] = val]
  BY <1>2, <1>7, ContentsUpdate
<1> QED
  BY <1>8 DEF ADT!Set, SetNew, Return

(* Get answers with the contents at its key. *)
LEMMA GetIsGet ==
  ASSUME IInv, Get
  PROVE  ADT!Get
<1>1. /\ Len(data) \in Nat
      /\ \A i \in 1 .. Len(data) : data[i].key \in Key
      /\ key \in Key
  BY KeysAreKeys DEF IInv, TypeOK
<1>2. /\ \A i \in 1 .. Len(data) : Contents(data)[data[i].key] = data[i].val
      /\ \A k \in Key :
           (\A i \in 1 .. Len(data) : data[i].key # k) => Contents(data)[k] = NoValue
  BY ContentsChar DEF IInv, TypeOK, Sorted
<1>3. CASE pc = "found"
  <2>1. low + 1 \in 1 .. Len(data) /\ data[low + 1].key = key
    BY <1>1, <1>3, EqAssumption DEF IInv, TypeOK, SearchCorrect
  <2>2. res' = Contents(data)[key]
    BY <1>2, <1>3, <2>1 DEF Get
  <2> QED
    BY <2>2 DEF ADT!Get, Get, Return
<1>4. CASE pc = "missed"
  <2>1. \A i \in 1 .. Len(data) : data[i].key # key
    BY <1>1, <1>4, EqAssumption DEF IInv, SearchCorrect
  <2>2. res' = Contents(data)[key]
    BY <1>1, <1>2, <1>4, <2>1 DEF Get
  <2> QED
    BY <2>2 DEF ADT!Get, Get, Return
<1> QED
  BY <1>3, <1>4 DEF Get

(* Taking out the entry found is Delete of the abstract map. *)
LEMMA DeleteExistingIsDelete ==
  ASSUME IInv, IInv', DeleteExisting
  PROVE  ADT!Delete
<1>1. /\ Len(data) \in Nat /\ low \in Nat
      /\ low + 1 \in 1 .. Len(data)
      /\ key \in Key
      /\ \A i \in 1 .. Len(data) : data[i].key \in Key
  BY KeysAreKeys DEF IInv, TypeOK, DeleteExisting
<1>2. Len(data') = Len(data) - 1
  BY <1>1, WithoutType DEF IInv, DeleteExisting
<1>3. data[low + 1].key = key
  BY <1>1, EqAssumption DEF IInv, SearchCorrect, DeleteExisting
<1>4. ASSUME NEW i \in 1 .. Len(data), i # low + 1
      PROVE  data[i].key # key
  <2>1. less(data[i].key, data[low + 1].key) \/ less(data[low + 1].key, data[i].key)
    BY <1>1, <1>4 DEF IInv, Sorted
  <2> QED
    BY <1>1, <1>3, <2>1, LessAssumption
<1>5. /\ \A i \in 1 .. low : data'[i] = data[i]
      /\ \A i \in low + 1 .. Len(data) - 1 : data'[i] = data[i + 1]
  BY <1>1 DEF DeleteExisting, Without
<1>6. ASSUME NEW i \in 1 .. Len(data), data[i].key # key
      PROVE  \E j \in 1 .. Len(data') : data'[j] = data[i]
  <2>1. CASE i <= low
    BY <1>1, <1>2, <1>5, <2>1
  <2>2. CASE i > low + 1
    <3>1. i - 1 \in low + 1 .. Len(data) - 1 /\ (i - 1) + 1 = i /\ i - 1 \in 1 .. Len(data')
      BY <1>1, <1>2, <2>2
    <3> QED
      BY <1>5, <3>1
  <2> QED
    BY <1>1, <1>3, <1>6, <2>1, <2>2
<1>7. ASSUME NEW j \in 1 .. Len(data')
      PROVE  \E i \in 1 .. Len(data) : i # low + 1 /\ data[i] = data'[j]
  <2>1. CASE j <= low
    BY <1>1, <1>2, <1>5, <2>1
  <2>2. CASE j > low
    <3>1. j + 1 \in 1 .. Len(data) /\ j + 1 # low + 1 /\ data'[j] = data[j + 1]
      BY <1>1, <1>2, <1>5, <2>2
    <3> QED
      BY <3>1
  <2> QED
    BY <1>1, <1>2, <2>1, <2>2
<1>8. \A j \in 1 .. Len(data') : data'[j].key # key
  BY <1>4, <1>7
<1>9. Updates(data, data', key, NoValue)
  BY <1>6, <1>7, <1>8 DEF Updates
<1>10. Contents(data') = [Contents(data) EXCEPT ![key] = NoValue]
  BY <1>1, <1>9, ContentsUpdate
<1> QED
  BY <1>10 DEF ADT!Delete, DeleteExisting, Return

(* Deleting a key that is not there is Delete of the abstract map. *)
LEMMA DeleteMissingIsDelete ==
  ASSUME IInv, DeleteMissing
  PROVE  ADT!Delete
<1>1. key \in Key /\ data \in Seq(Entry)
      /\ \A i \in 1 .. Len(data) : data[i].key # key
  BY KeysAreKeys, EqAssumption DEF IInv, TypeOK, SearchCorrect, DeleteMissing
<1>2. /\ Contents(data) \in [Key -> Value \cup {NoValue}]
      /\ Contents(data)[key] = NoValue
  BY <1>1, ContentsChar DEF IInv, Sorted
<1>3. Contents(data) = [Contents(data) EXCEPT ![key] = NoValue]
  BY <1>1, <1>2
<1> QED
  BY <1>3 DEF ADT!Delete, DeleteMissing, Return

(* The sorted slice with its binary search implements the map: what Get    *)
(* returns is what was last Set and not deleted, for every order.          *)
THEOREM Refinement == Spec => IsMap
<1>1. New => ADT!Init
  <2> SUFFICES ASSUME New PROVE ADT!Init
    OBVIOUS
  <2>1. data \in Seq(Entry) /\ Len(data) = 0
    BY DEF New
  <2>2. Contents(data) = [k \in Key |-> NoValue]
    BY <2>1 DEF Contents
  <2> QED
    BY <2>2 DEF New, ADT!Init
<1>2. IInv /\ IInv' /\ [Next]_vars => [ADT!Next]_ADT!vars
  <2> SUFFICES ASSUME IInv, IInv', [Next]_vars PROVE [ADT!Next]_ADT!vars
    OBVIOUS
  <2>1. CASE Call("Set") \/ Call("Get") \/ Call("Delete")
    <3>1. ADT!Invoke
      BY <2>1 DEF IInv, TypeOK, Call, ADT!Invoke
    <3> QED
      BY <3>1 DEF ADT!Next
  <2>2. CASE ProbeEqual \/ ProbeLess \/ ProbeGreater \/ ProbeEnd
    BY <2>2 DEF ProbeEqual, ProbeLess, ProbeGreater, ProbeEnd, ADT!vars
  <2>3. CASE SetExisting
    BY <2>3, SetExistingIsSet DEF ADT!Next
  <2>4. CASE SetNew
    BY <2>4, SetNewIsSet DEF ADT!Next
  <2>5. CASE Get
    BY <2>5, GetIsGet DEF ADT!Next
  <2>6. CASE DeleteExisting
    BY <2>6, DeleteExistingIsDelete DEF ADT!Next
  <2>7. CASE DeleteMissing
    BY <2>7, DeleteMissingIsDelete DEF ADT!Next
  <2>8. CASE UNCHANGED vars
    BY <2>8 DEF vars, ADT!vars
  <2> QED
    BY <2>1, <2>2, <2>3, <2>4, <2>5, <2>6, <2>7, <2>8 DEF Next, Step
<1> QED
  BY <1>1, <1>2, Invariance, PTL DEF Spec, IsMap, ADT!Spec
=============================================================================
