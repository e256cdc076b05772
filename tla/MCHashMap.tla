----------------------------- MODULE MCHashMap -----------------------------
(***************************************************************************)
(* Keys that collide in a small table and part in a larger one, buffers of *)
(* one entry, so that every push may have to allocate.                     *)
(***************************************************************************)
EXTENDS HashMap

MCHash == [k1 |-> 0, k2 |-> 2, k3 |-> 4, k4 |-> 1]
=============================================================================
