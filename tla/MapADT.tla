------------------------------- MODULE MapADT -------------------------------
(***************************************************************************)
(* What the doc comments of src/src/parser/ordered_map/ordered_map.go      *)
(* promise to the alias trie: a map.  A caller invokes Set, Get or Delete  *)
(* with a key; the call takes effect at one instant; Get answers with the  *)
(* value last set for that key and not deleted since.                      *)
(***************************************************************************)
CONSTANTS Key,      \* the keys, up to the map's eq function
          Value,    \* the values
          NoValue   \* the answer of Get for a key that is not in the map

VARIABLES map,      \* the abstract contents
          op,       \* the call in progress, "none" between two calls
          key,      \* its key
          val,      \* the value Set was called with
          res       \* the answer of the last Get

vars == <<map, op, key, val, res>>

Init ==
  /\ map = [k \in Key |-> NoValue]
  /\ op = "none"
  /\ key \in Key
  /\ val \in Value
  /\ res = NoValue

Invoke ==
  /\ op = "none"
  /\ op' \in {"Set", "Get", "Delete"}
  /\ key' \in Key
  /\ val' \in Value
  /\ UNCHANGED <<map, res>>

Set ==
  /\ op = "Set"
  /\ map' = [map EXCEPT ![key] = val]
  /\ op' = "none"
  /\ UNCHANGED <<key, val, res>>

Get ==
  /\ op = "Get"
  /\ res' = map[key]
  /\ op' = "none"
  /\ UNCHANGED <<map, key, val>>

Delete ==
  /\ op = "Delete"
  /\ map' = [map EXCEPT ![key] = NoValue]
  /\ op' = "none"
  /\ UNCHANGED <<key, val, res>>

Next == Invoke \/ Set \/ Get \/ Delete

Spec == Init /\ [][Next]_vars
=============================================================================
