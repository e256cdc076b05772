------------------------------ MODULE DynArray ------------------------------
(***************************************************************************)
(* The growable array of tools/src/datastructures/dynamic_array.c: what a  *)
(* push and a removal leave behind.  The buffer holds capacity elements,   *)
(* of which the first count are in use; a push into a full buffer asks the *)
(* allocator for one twice as large and changes nothing when that fails.   *)
(***************************************************************************)
EXTENDS Integers, Sequences

CONSTANT FirstCapacity    \* of the first buffer, 8

ASSUME FirstCapacityAssumption == FirstCapacity \in Nat \ {0}

Array(items, capacity) == [items |-> items, capacity |-> capacity]
EmptyArray == Array(<<>>, 0)

Arrays(T) == [items : Seq(T), capacity : Nat]

Full(a) == Len(a.items) >= a.capacity

Grown(c) == IF c = 0 THEN FirstCapacity ELSE 2 * c

\* dynarray_push_value when the buffer has room or the allocator gives more.
Pushed(a, e) == Array(Append(a.items, e), IF Full(a) THEN Grown(a.capacity) ELSE a.capacity)

\* dynarray_remove: what follows moves down by one.
Removed(a, n) ==
  Array([m \in 1..(Len(a.items) - 1) |-> a.items[IF m < n THEN m ELSE m + 1]], a.capacity)

\* The elements in use are in the buffer.
InBuffer(a) == Len(a.items) <= a.capacity
=============================================================================
