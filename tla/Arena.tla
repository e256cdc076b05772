-------------------------------- MODULE Arena --------------------------------
(***************************************************************************)
(* The bump allocator behind the compiler (tools/src/datastructures/       *)
(* arena.c): a list of blocks, newest first, of which only the newest is   *)
(* allocated from.  Single-threaded; malloc may fail at any call.          *)
(*                                                                         *)
(* Sizes are those of an LP64 build: size_t ranges over 0..SizeMax, a      *)
(* block's header takes 24 bytes and max_align_t 16; a sum that leaves     *)
(* size_t wraps.  Contents are left out: an allocation is a range of       *)
(* offsets in the data of a block.  arena_calloc and the realloc of the    *)
(* Allocator interface are arena_alloc and a write to what it returned.    *)
(***************************************************************************)
EXTENDS Integers, Sequences

CONSTANTS
  SizeMax,          \* SIZE_MAX
  MallocMax,        \* malloc gives nothing larger
  DefaultCapacity,  \* what arena_create(0) takes, 1024
  Capacities,       \* the capacities asked of arena_create
  Sizes,            \* the sizes asked of arena_alloc
  MaxBlocks,        \* bound on the blocks ever allocated
  MaxGiven          \* bound on the allocations between resets

Align  == 16
Header == 24

ASSUME ArenaAssumption ==
  /\ SizeMax \in Nat /\ MallocMax \in 0..(SizeMax \div 2)
  /\ DefaultCapacity \in Nat \ {0}
  /\ Capacities \subseteq 0..SizeMax
  /\ Sizes \subseteq 0..(SizeMax - MallocMax - 2 * Align)
  /\ MaxBlocks \in Nat /\ MaxGiven \in Nat

VARIABLES
  blocks,      \* newest first: [id, capacity, used]; none: there is no arena
  block_size,  \* the capacity arena_create settled on
  want,        \* the size arena_alloc is looking for room for, or 0
  new_capacity, \* its candidate for a new block
  heap,        \* the blocks malloc gave and free has not taken back
  given,       \* (history) the allocations since the last reset: [blk, off, size]
  fresh        \* (history) the next block id

vars == <<blocks, block_size, want, new_capacity, heap, given, fresh>>

\* Unsigned sum.
Wrap(n) == IF n <= SizeMax THEN n ELSE n - (SizeMax + 1)

\* Fault: nothing is rounded up.
AlignUp_Not(v) == v

AlignUp(v) == (Wrap(v + (Align - 1)) \div Align) * Align

NewBlock(c) == [id |-> fresh, capacity |-> c, used |-> 0]

Ids == {blocks[n].id : n \in DOMAIN blocks}

-----------------------------------------------------------------------------
Init ==
  /\ blocks = <<>> /\ block_size = 0
  /\ want = 0 /\ new_capacity = 0
  /\ heap = {} /\ given = <<>> /\ fresh = 0

\* The arena exists (it has a block) and no call is in progress.
Idle == blocks # <<>> /\ want = 0

Settled(cap) == IF cap = 0 \/ cap > SizeMax \div 2 THEN DefaultCapacity ELSE cap

\* arena_create when malloc gives both pieces; otherwise nothing changes.
Create(cap) ==
  LET c == Settled(cap)
  IN  /\ blocks = <<>> /\ fresh < MaxBlocks /\ Header + c <= MallocMax
      /\ blocks' = <<NewBlock(c)>> /\ block_size' = c
      /\ heap' = heap \cup {fresh} /\ fresh' = fresh + 1
      /\ UNCHANGED <<want, new_capacity, given>>

Destroy ==
  /\ Idle
  /\ blocks' = <<>> /\ block_size' = 0
  /\ heap' = heap \ Ids /\ given' = <<>>
  /\ UNCHANGED <<want, new_capacity, fresh>>

\* Fault: the older blocks are unlinked without being freed.
Reset_Unlink ==
  /\ Idle
  /\ blocks' = <<[blocks[1] EXCEPT !.used = 0]>> /\ given' = <<>>
  /\ UNCHANGED <<block_size, want, new_capacity, heap, fresh>>

\* arena_reset: the newest block stays, empty.
Reset ==
  /\ Idle
  /\ blocks' = <<[blocks[1] EXCEPT !.used = 0]>> /\ given' = <<>>
  /\ heap' = heap \ (Ids \ {blocks[1].id})
  /\ UNCHANGED <<block_size, want, new_capacity, fresh>>

\* Where size bytes go in the newest block, or -1.
Offset(size) == IF Wrap(AlignUp(blocks[1].used) + size) <= blocks[1].capacity
                THEN AlignUp(blocks[1].used) ELSE -1

\* Fault: the bytes before the allocation are forgotten.
Bump_Forget(block, off, size) == [block EXCEPT !.used = AlignUp(size)]

Bump(block, off, size) == [block EXCEPT !.used = off + AlignUp(size)]

Give(block, off, size) ==
  given' = Append(given, [blk |-> block.id, off |-> off, size |-> size])

\* Where the search for the capacity of a new block starts.
FirstCapacity(size) == block_size

\* arena_alloc(size), size > 0: from the newest block, or on to a new one.
Alloc(size) ==
  /\ Idle /\ size > 0 /\ Len(given) < MaxGiven
  /\ \/ /\ Offset(size) >= 0
        /\ blocks' = [blocks EXCEPT ![1] = Bump(@, Offset(size), size)]
        /\ Give(blocks[1], Offset(size), size)
        /\ UNCHANGED <<want, new_capacity>>
     \/ /\ Offset(size) = -1
        /\ want' = size /\ new_capacity' = FirstCapacity(size)
        /\ UNCHANGED <<blocks, given>>
  /\ UNCHANGED <<block_size, heap, fresh>>

\* Fault: the doubling stops one step short of wrapping without a way out.
Doubled_Stuck(c) == IF c > SizeMax \div 2 THEN c ELSE 2 * c

Doubled(c) == IF c > SizeMax \div 2 THEN want ELSE 2 * c

Grow ==
  /\ want > 0 /\ new_capacity < want
  /\ new_capacity' = Doubled(new_capacity)
  /\ UNCHANGED <<blocks, block_size, want, heap, given, fresh>>

\* The loop is over: NULL, or a new block with the allocation at its start.
Chain ==
  /\ want > 0 /\ new_capacity >= want
  /\ \/ UNCHANGED <<blocks, heap, given, fresh>>
     \/ /\ Header + new_capacity <= MallocMax /\ fresh < MaxBlocks
        /\ blocks' = <<Bump(NewBlock(new_capacity), 0, want)>> \o blocks
        /\ heap' = heap \cup {fresh} /\ fresh' = fresh + 1
        /\ Give(NewBlock(new_capacity), 0, want)
  /\ want' = 0 /\ new_capacity' = 0
  /\ UNCHANGED block_size

Next ==
  \/ \E cap \in Capacities : Create(cap)
  \/ Destroy \/ Reset
  \/ \E size \in Sizes : Alloc(size)
  \/ Grow \/ Chain

Spec == Init /\ [][Next]_vars

\* A call of arena_alloc runs to its end.
FairSpec == Spec /\ WF_vars(Grow \/ Chain)

-----------------------------------------------------------------------------
(* Properties *)

Blocks  == [id : Nat, capacity : Nat \ {0}, used : Nat]
Regions == [blk : Nat, off : Nat, size : Nat \ {0}]

TypeOK ==
  /\ blocks \in Seq(Blocks)
  /\ block_size \in Nat /\ want \in Nat /\ new_capacity \in Nat /\ fresh \in Nat
  /\ heap \in SUBSET Nat
  /\ given \in Seq(Regions)

\* Every allocation lies in the data of a block of the list, at an aligned
\* offset and below the mark new allocations start from.
InBlock ==
  \A m \in DOMAIN given : \E n \in DOMAIN blocks :
    /\ blocks[n].id = given[m].blk
    /\ given[m].off + given[m].size <= blocks[n].capacity
    /\ given[m].off + given[m].size <= blocks[n].used
    /\ given[m].off % Align = 0

\* No two allocations share a byte.
Disjoint ==
  \A l, m \in DOMAIN given :
    l # m /\ given[l].blk = given[m].blk =>
      \/ given[l].off + given[l].size <= given[m].off
      \/ given[m].off + given[m].size <= given[l].off

\* The blocks of the list are distinct and exactly the ones not given back:
\* reset and destroy leak none and free none twice.
HeapIsList ==
  /\ heap = Ids
  /\ \A m, n \in DOMAIN blocks : blocks[m].id = blocks[n].id => m = n

\* The first allocation of an empty arena, fresh or reset, needs no malloc
\* when it is no larger than the capacity the arena was created with.
EmptyArenaHasRoom ==
  [][Idle /\ given = <<>> /\ want' > 0 => want' > block_size]_vars

\* arena_alloc returns: its doubling loop ends for every size.
AllocReturns == (want > 0) ~> (want = 0)
=============================================================================
