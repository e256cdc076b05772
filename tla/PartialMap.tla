----------------------------- MODULE PartialMap -----------------------------
(***************************************************************************)
(* What a hash map promises: a partial function from keys to values.  An   *)
(* insertion may fail and then changes nothing; None stands for the value  *)
(* of a key that has none.                                                 *)
(***************************************************************************)
CONSTANTS Key, Val, None

VARIABLES
  map,      \* key -> value or None
  request,  \* the pair to insert, when an insertion is under way
  answer    \* what the last operation returned

NoRequest == [key |-> None, value |-> None]

Init ==
  /\ map = [k \in Key |-> None]
  /\ request = NoRequest
  /\ answer = None

Put(k, v) ==
  /\ request = NoRequest
  /\ request' = [key |-> k, value |-> v]
  /\ UNCHANGED <<map, answer>>

Insert ==
  /\ request # NoRequest
  /\ request' = NoRequest
  /\ \/ answer' = "true" /\ map' = [map EXCEPT ![request.key] = request.value]
     \/ answer' = "false" /\ UNCHANGED map

Get(k) ==
  /\ request = NoRequest
  /\ answer' = map[k]
  /\ UNCHANGED <<map, request>>

Remove(k) ==
  /\ request = NoRequest
  /\ answer' = IF map[k] # None THEN "true" ELSE "false"
  /\ map' = [map EXCEPT ![k] = None]
  /\ UNCHANGED request

Next ==
  \/ Insert
  \/ \E k \in Key : Get(k) \/ Remove(k) \/ \E v \in Val : Put(k, v)

Spec == Init /\ [][Next]_<<map, request, answer>>
=============================================================================
