----------------------------- MODULE ArenaProofs -----------------------------
(***************************************************************************)
(* Proofs about the arena, for every capacity, size and bound.             *)
(*                                                                         *)
(* None of InBlock, Disjoint and HeapIsList is inductive alone: a new      *)
(* allocation starts at the mark of the newest block, so it misses the     *)
(* older ones because those end below the mark (InBlock), and that is safe *)
(* from wrapping because a block, its mark and a request stay within       *)
(* size_t (Bounded).  IInv is their conjunction.                           *)
(***************************************************************************)
EXTENDS Arena, TLAPS

Bounded ==
  /\ blocks # <<>> => block_size > 0
  /\ \A n \in DOMAIN blocks :
       /\ blocks[n].id < fresh
       /\ blocks[n].capacity >= block_size
       /\ Header + blocks[n].capacity <= MallocMax
       /\ blocks[n].used <= blocks[n].capacity + (Align - 1)
       /\ blocks[n].used % Align = 0
  /\ blocks # <<>> /\ given = <<>> => blocks[1].used = 0
  /\ blocks = <<>> => given = <<>>
  /\ want > 0 => blocks # <<>> /\ want \in Sizes /\ new_capacity >= block_size

IInv == TypeOK /\ Bounded /\ InBlock /\ Disjoint /\ HeapIsList

(* align_up rounds up to the next multiple of 16 when the sum does not wrap. *)
LEMMA AlignUpRounds ==
  ASSUME NEW v \in Nat, v + (Align - 1) <= SizeMax
  PROVE  /\ AlignUp(v) \in Nat
         /\ v <= AlignUp(v) /\ AlignUp(v) <= v + (Align - 1)
         /\ AlignUp(v) % Align = 0
         /\ v % Align = 0 => AlignUp(v) = v
<1>1. Wrap(v + 15) = v + 15
  BY DEF Wrap, Align
<1>2. AlignUp(v) = ((v + 15) \div 16) * 16
  BY <1>1 DEF AlignUp, Align
<1> QED
  BY <1>2, ArenaAssumption, SMT DEF Align

(* An arena has a newest block. *)
LEMMA NewestBlock ==
  ASSUME TypeOK, blocks # <<>>
  PROVE  Len(blocks) >= 1 /\ 1 \in DOMAIN blocks /\ blocks[1] \in Blocks
<1>1. blocks \in Seq(Blocks) /\ blocks # <<>>
  BY DEF TypeOK
<1> QED
  BY <1>1

(* An allocation of the newest block starts at its mark and ends inside it. *)
LEMMA OffsetFits ==
  ASSUME IInv, Idle, NEW size \in Sizes, size > 0, Offset(size) >= 0
  PROVE  /\ Offset(size) = blocks[1].used
         /\ Offset(size) + size <= blocks[1].capacity
<1>1. 1 \in DOMAIN blocks /\ blocks[1] \in Blocks
  BY NewestBlock DEF Idle, IInv
<1> DEFINE u == blocks[1].used
           c == blocks[1].capacity
<1>2. u \in Nat /\ c \in Nat /\ u % 16 = 0 /\ u <= c + 15 /\ 24 + c <= MallocMax
  BY <1>1 DEF IInv, Bounded, Blocks, Align, Header
<1>3. size \in Nat /\ SizeMax \in Nat /\ MallocMax \in Nat /\ size <= SizeMax - MallocMax - 32
  BY ArenaAssumption, SMT DEF Align
<1>4. AlignUp(u) = u
  <2>1. u + 15 <= SizeMax
    BY <1>2, <1>3, SMT
  <2> QED
    BY <2>1, <1>2, AlignUpRounds DEF Align
<1>5. Wrap(u + size) = u + size
  <2>1. u + size <= SizeMax
    BY <1>2, <1>3, SMT
  <2> QED
    BY <2>1 DEF Wrap
<1>6. u + size <= c /\ Offset(size) = u
  BY <1>4, <1>5, <1>2, SMT DEF Offset
<1> QED
  BY <1>6

THEOREM InitIInv == Init => IInv
<1> SUFFICES ASSUME Init PROVE IInv
  OBVIOUS
<1>1. TypeOK
  BY DEF Init, TypeOK
<1>2. Bounded /\ InBlock /\ Disjoint /\ HeapIsList
  BY DEF Init, Bounded, InBlock, Disjoint, HeapIsList, Ids
<1> QED
  BY <1>1, <1>2 DEF IInv

(* The first block of an arena satisfies the invariant, whatever its size. *)
LEMMA CreateIInv ==
  ASSUME IInv, NEW cap \in Capacities, Create(cap)
  PROVE  IInv'
<1> DEFINE c == Settled(cap)
<1>1. c \in Nat \ {0}
  BY ArenaAssumption DEF Settled
<1>2. /\ blocks = <<>> /\ Header + c <= MallocMax
      /\ blocks' = <<NewBlock(c)>> /\ block_size' = c
      /\ heap' = heap \cup {fresh} /\ fresh' = fresh + 1
      /\ want' = want /\ new_capacity' = new_capacity /\ given' = given
  BY DEF Create, IInv, TypeOK
<1>3. blocks = <<>> /\ given = <<>> /\ heap = {}
  BY <1>2 DEF IInv, TypeOK, Bounded, HeapIsList, Ids
<1>4. NewBlock(c) \in Blocks /\ NewBlock(c).id = fresh /\ NewBlock(c).capacity = c
      /\ NewBlock(c).used = 0
  BY <1>1 DEF NewBlock, Blocks, IInv, TypeOK
<1>5. TypeOK'
  <2>1. blocks' \in Seq(Blocks) /\ block_size' \in Nat /\ fresh' \in Nat /\ heap' \in SUBSET Nat
    BY <1>1, <1>2, <1>3, <1>4 DEF IInv, TypeOK
  <2> QED
    BY <2>1, <1>2 DEF IInv, TypeOK
<1>6. Bounded'
  BY <1>1, <1>2, <1>3, <1>4 DEF IInv, TypeOK, Bounded, Align
<1>7. InBlock' /\ Disjoint'
  BY <1>2, <1>3 DEF InBlock, Disjoint
<1>8. HeapIsList'
  BY <1>2, <1>3, <1>4 DEF HeapIsList, Ids
<1> QED
  BY <1>5, <1>6, <1>7, <1>8 DEF IInv

LEMMA DestroyIInv ==
  ASSUME IInv, Destroy
  PROVE  IInv'
<1>1. /\ blocks' = <<>> /\ block_size' = 0 /\ heap' = heap \ Ids /\ given' = <<>>
      /\ want' = want /\ new_capacity' = new_capacity /\ fresh' = fresh /\ want = 0
  BY DEF Destroy, Idle
<1>2. TypeOK'
  <2>1. blocks' \in Seq(Blocks) /\ given' \in Seq(Regions)
    BY <1>1
  <2>2. heap' \in SUBSET Nat
    BY <1>1 DEF IInv, TypeOK
  <2> QED
    BY <2>1, <2>2, <1>1 DEF IInv, TypeOK
<1>3. Bounded' /\ InBlock' /\ Disjoint'
  <2>1. DOMAIN blocks' = {} /\ DOMAIN given' = {} /\ ~(want' > 0)
    BY <1>1
  <2> QED
    BY <2>1, <1>1 DEF Bounded, InBlock, Disjoint
<1>4. HeapIsList'
  BY <1>1 DEF IInv, HeapIsList, Ids
<1> QED
  BY <1>2, <1>3, <1>4 DEF IInv

LEMMA ResetIInv ==
  ASSUME IInv, Reset
  PROVE  IInv'
<1> DEFINE b == [blocks[1] EXCEPT !.used = 0]
<1>1. /\ blocks # <<>> /\ blocks' = <<b>> /\ block_size' = block_size /\ given' = <<>>
      /\ heap' = heap \ (Ids \ {blocks[1].id})
      /\ want' = want /\ new_capacity' = new_capacity /\ fresh' = fresh /\ want = 0
  BY DEF Reset, Idle
<1>2. 1 \in DOMAIN blocks /\ blocks[1] \in Blocks
  BY <1>1, NewestBlock DEF IInv
<1>3. b \in Blocks /\ b.id = blocks[1].id /\ b.capacity = blocks[1].capacity /\ b.used = 0
  BY <1>2 DEF Blocks
<1> HIDE DEF b
<1>a. DOMAIN blocks' = {1} /\ blocks'[1] = b
  BY <1>1
<1>4. TypeOK'
  <2>1. heap' \in SUBSET Nat
    BY <1>1 DEF IInv, TypeOK
  <2>2. blocks' \in Seq(Blocks) /\ given' \in Seq(Regions)
    BY <1>1, <1>3
  <2>3. block_size' \in Nat /\ want' \in Nat /\ new_capacity' \in Nat /\ fresh' \in Nat
    BY <1>1 DEF IInv, TypeOK
  <2> QED
    BY <2>1, <2>2, <2>3 DEF TypeOK
<1>5. Bounded'
  <2>1. b.id < fresh /\ b.capacity >= block_size /\ Header + b.capacity <= MallocMax
    BY <1>2, <1>3 DEF IInv, Bounded
  <2>2. b.used <= b.capacity + 15 /\ b.used % 16 = 0
    BY <1>3, SMT DEF Blocks
  <2>3. block_size > 0
    BY <1>1 DEF IInv, Bounded
  <2> QED
    BY <2>1, <2>2, <2>3, <1>1, <1>a, <1>3 DEF Bounded, Align
<1>6. InBlock' /\ Disjoint'
  BY <1>1 DEF InBlock, Disjoint
<1>7. HeapIsList'
  <2>1. Ids' = {blocks[1].id} /\ blocks[1].id \in Ids
    BY <1>2, <1>3, <1>a DEF Ids
  <2>2. \A m, n \in DOMAIN blocks' : m = n
    BY <1>a
  <2> QED
    BY <2>1, <2>2, <1>1 DEF IInv, HeapIsList
<1> QED
  BY <1>4, <1>5, <1>6, <1>7 DEF IInv

(* The elements of the sequences have the types of their sets. *)
LEMMA GivenTyped ==
  ASSUME TypeOK, NEW m \in DOMAIN given
  PROVE  given[m].off \in Nat /\ given[m].size \in Nat
<1>1. given \in Seq(Regions)
  BY DEF TypeOK
<1>2. given[m] \in Regions
  BY <1>1
<1> QED
  BY <1>2 DEF Regions

(* What a bump of a bytes for size of them does to a mark. *)
LEMMA BumpBounds ==
  ASSUME NEW u \in Nat, NEW a \in Nat, NEW size \in Nat \ {0}, NEW c \in Nat,
         u % 16 = 0, a % 16 = 0, size <= a, a <= size + 15, u + size <= c
  PROVE  /\ (u + a) % 16 = 0 /\ u + a >= u + size /\ u + a > u
         /\ u + a <= c + 15
BY SMT

(* A region put at the mark of the newest block keeps the invariant parts    *)
(* that speak of allocations: what was there ends at or below the mark.      *)
LEMMA PlaceIInv ==
  ASSUME IInv, NEW size \in Nat \ {0}, blocks # <<>>,
         blocks[1].used + size <= blocks[1].capacity,
         blocks' = [blocks EXCEPT ![1] = Bump(blocks[1], blocks[1].used, size)],
         Give(blocks[1], blocks[1].used, size),
         block_size' = block_size, heap' = heap, fresh' = fresh, want' = 0,
         new_capacity' \in Nat
  PROVE  IInv'
<1> DEFINE u == blocks[1].used
           b == Bump(blocks[1], u, size)
           r == [blk |-> blocks[1].id, off |-> u, size |-> size]
<1>1. 1 \in DOMAIN blocks /\ blocks[1] \in Blocks
  BY NewestBlock DEF IInv
<1>2. /\ u \in Nat /\ u % 16 = 0 /\ blocks[1].capacity \in Nat \ {0}
      /\ 24 + blocks[1].capacity <= MallocMax
  BY <1>1 DEF IInv, Bounded, Blocks, Align, Header
<1>3. /\ AlignUp(size) \in Nat /\ size <= AlignUp(size) /\ AlignUp(size) <= size + 15
      /\ AlignUp(size) % 16 = 0
  <2>1. size + 15 <= SizeMax
    BY <1>2, ArenaAssumption, SMT
  <2> QED
    BY <2>1, AlignUpRounds DEF Align
<1>4. /\ b \in Blocks /\ b.id = blocks[1].id /\ b.capacity = blocks[1].capacity
      /\ b.used = u + AlignUp(size)
  <2>1. u + AlignUp(size) \in Nat
    BY <1>2, <1>3
  <2>2. b = [blocks[1] EXCEPT !.used = u + AlignUp(size)]
    BY DEF Bump
  <2> QED
    BY <2>1, <2>2, <1>1 DEF Blocks
<1> HIDE DEF b
<1>5. /\ b.used % 16 = 0 /\ b.used >= u + size /\ b.used > u
      /\ b.used <= b.capacity + 15
  <2>1. u + size <= blocks[1].capacity
    OBVIOUS
  <2> HIDE DEF u
  <2>2. /\ (u + AlignUp(size)) % 16 = 0 /\ u + AlignUp(size) >= u + size
        /\ u + AlignUp(size) > u /\ u + AlignUp(size) <= blocks[1].capacity + 15
    BY <2>1, <1>2, <1>3, BumpBounds
  <2> QED
    BY <2>2, <1>4
<1>6. /\ DOMAIN blocks' = DOMAIN blocks /\ blocks' \in Seq(Blocks) /\ blocks' # <<>>
      /\ blocks'[1] = b /\ \A n \in DOMAIN blocks : n # 1 => blocks'[n] = blocks[n]
  <2>1. blocks \in Seq(Blocks) /\ blocks' = [blocks EXCEPT ![1] = b]
    BY DEF IInv, TypeOK, b
  <2> QED
    BY <2>1, <1>1, <1>4
<1>7. /\ given \in Seq(Regions) /\ r \in Regions /\ given' = Append(given, r)
  <2>1. given \in Seq(Regions) /\ given' = Append(given, r)
    BY DEF Give, IInv, TypeOK
  <2>2. r \in Regions
    BY <1>1, <1>2 DEF Blocks, Regions
  <2> QED
    BY <2>1, <2>2
<1> HIDE DEF r
<1>8. /\ given' \in Seq(Regions) /\ given' # <<>> /\ DOMAIN given' = DOMAIN given \cup {Len(given) + 1}
      /\ given'[Len(given) + 1] = r /\ \A m \in DOMAIN given : given'[m] = given[m]
  BY <1>7
<1>9. /\ r.blk = blocks[1].id /\ r.off = u /\ r.size = size
  BY DEF r
<1>10. TypeOK'
  BY <1>6, <1>8 DEF IInv, TypeOK
<1>11. Bounded'
  <2>1. \A n \in DOMAIN blocks' : /\ blocks'[n].id = blocks[n].id
                                  /\ blocks'[n].capacity = blocks[n].capacity
    BY <1>4, <1>6
  <2>2. \A n \in DOMAIN blocks' :
           blocks'[n].used <= blocks'[n].capacity + (Align - 1) /\ blocks'[n].used % Align = 0
    BY <1>4, <1>5, <1>6 DEF IInv, Bounded, Align
  <2> QED
    BY <2>1, <2>2, <1>6, <1>8 DEF IInv, Bounded
<1>12. InBlock'
  <2>1. \A m \in DOMAIN given : \E n \in DOMAIN blocks' :
          /\ blocks'[n].id = given[m].blk
          /\ given[m].off + given[m].size <= blocks'[n].capacity
          /\ given[m].off + given[m].size <= blocks'[n].used
          /\ given[m].off % Align = 0
    <3> TAKE m \in DOMAIN given
    <3>1. PICK n \in DOMAIN blocks :
            /\ blocks[n].id = given[m].blk
            /\ given[m].off + given[m].size <= blocks[n].capacity
            /\ given[m].off + given[m].size <= blocks[n].used
            /\ given[m].off % Align = 0
      BY DEF IInv, InBlock
    <3>2. given[m].off + given[m].size \in Nat
      BY GivenTyped DEF IInv
    <3>3. CASE n = 1
      <4>1. given[m].off + given[m].size <= b.used
        BY <3>1, <3>2, <3>3, <1>2, <1>4, <1>5, <1>3
      <4> QED
        BY <3>1, <3>3, <4>1, <1>4, <1>6
    <3>4. CASE n # 1
      BY <3>1, <3>4, <1>6
    <3> QED
      BY <3>3, <3>4
  <2>2. \E n \in DOMAIN blocks' :
          /\ blocks'[n].id = r.blk
          /\ r.off + r.size <= blocks'[n].capacity
          /\ r.off + r.size <= blocks'[n].used
          /\ r.off % Align = 0
    BY <1>1, <1>2, <1>4, <1>5, <1>6, <1>9 DEF Align
  <2> QED
    BY <2>1, <2>2, <1>8 DEF InBlock
<1>13. Disjoint'
  <2>1. \A m \in DOMAIN given : given[m].blk = r.blk => given[m].off + given[m].size <= r.off
    <3> SUFFICES ASSUME NEW m \in DOMAIN given, given[m].blk = r.blk
                 PROVE  given[m].off + given[m].size <= r.off
      OBVIOUS
    <3>1. PICK n \in DOMAIN blocks :
            blocks[n].id = given[m].blk /\ given[m].off + given[m].size <= blocks[n].used
      BY DEF IInv, InBlock
    <3>2. n = 1
      BY <3>1, <1>1, <1>9 DEF IInv, HeapIsList
    <3> QED
      BY <3>1, <3>2, <1>9
  <2> QED
    BY <2>1, <1>8 DEF IInv, Disjoint
<1>14. HeapIsList'
  <2>1. \A n \in DOMAIN blocks' : blocks'[n].id = blocks[n].id
    BY <1>4, <1>6
  <2>2. Ids' = Ids
    BY <2>1, <1>6 DEF Ids
  <2> QED
    BY <2>1, <2>2, <1>6 DEF IInv, HeapIsList
<1> QED
  BY <1>10, <1>11, <1>12, <1>13, <1>14 DEF IInv

(* A region at the start of a new newest block misses every other one: their *)
(* blocks are older.                                                         *)
LEMMA ChainIInv ==
  ASSUME IInv, NEW size \in Sizes, size > 0, NEW c \in Nat,
         size <= c, block_size <= c, Header + c <= MallocMax, blocks # <<>>,
         blocks' = <<Bump(NewBlock(c), 0, size)>> \o blocks,
         Give(NewBlock(c), 0, size),
         heap' = heap \cup {fresh}, fresh' = fresh + 1,
         block_size' = block_size, want' = 0, new_capacity' = 0
  PROVE  IInv'
<1> DEFINE b == Bump(NewBlock(c), 0, size)
           r == [blk |-> NewBlock(c).id, off |-> 0, size |-> size]
<1>1. size \in Nat \ {0} /\ c \in Nat \ {0} /\ fresh \in Nat
  BY ArenaAssumption DEF IInv, TypeOK
<1>2. /\ AlignUp(size) \in Nat /\ size <= AlignUp(size) /\ AlignUp(size) <= size + 15
      /\ AlignUp(size) % 16 = 0
  <2>1. size + 15 <= SizeMax
    BY <1>1, ArenaAssumption, SMT DEF Header
  <2> QED
    BY <1>1, <2>1, AlignUpRounds DEF Align
<1>3. /\ b \in Blocks /\ b.id = fresh /\ b.capacity = c /\ b.used = AlignUp(size)
  <2>1. b = [id |-> fresh, capacity |-> c, used |-> AlignUp(size)]
    <3>1. b = [id |-> fresh, capacity |-> c, used |-> 0 + AlignUp(size)]
      BY DEF Bump, NewBlock
    <3>2. 0 + AlignUp(size) = AlignUp(size)
      BY <1>2
    <3> QED
      BY <3>1, <3>2
  <2> QED
    BY <2>1, <1>1, <1>2 DEF Blocks
<1>4. r \in Regions /\ r.blk = fresh /\ r.off = 0 /\ r.size = size
  BY <1>1 DEF Regions, NewBlock
<1>5. blocks \in Seq(Blocks) /\ given \in Seq(Regions) /\ given' = Append(given, r)
  BY DEF IInv, TypeOK, Give
<1>6. blocks' = <<b>> \o blocks
  OBVIOUS
<1> HIDE DEF b, r
<1>7. /\ blocks' \in Seq(Blocks) /\ DOMAIN blocks = 1..Len(blocks) /\ Len(blocks) \in Nat
      /\ DOMAIN blocks' = 1..(Len(blocks) + 1)
      /\ blocks'[1] = b /\ \A n \in DOMAIN blocks : blocks'[n + 1] = blocks[n]
  BY <1>3, <1>5, <1>6
<1>8. /\ given' \in Seq(Regions) /\ given' # <<>> /\ DOMAIN given' = DOMAIN given \cup {Len(given) + 1}
      /\ given'[Len(given) + 1] = r /\ \A m \in DOMAIN given : given'[m] = given[m]
  BY <1>4, <1>5
<1>9. \A n \in DOMAIN blocks' : n = 1 \/ (n - 1 \in DOMAIN blocks /\ blocks'[n] = blocks[n - 1])
  <2> TAKE n \in DOMAIN blocks'
  <2>1. n # 1 => n - 1 \in DOMAIN blocks /\ (n - 1) + 1 = n
    BY <1>7
  <2> QED
    BY <2>1, <1>7
<1>10. TypeOK'
  BY <1>1, <1>7, <1>8 DEF IInv, TypeOK
<1>11. Bounded'
  <2>1. /\ b.id < fresh' /\ b.capacity >= block_size /\ Header + b.capacity <= MallocMax
        /\ b.used <= b.capacity + (Align - 1) /\ b.used % Align = 0
    BY <1>1, <1>2, <1>3 DEF Align, IInv, TypeOK
  <2>2. \A n \in DOMAIN blocks : blocks[n].id < fresh + 1
    <3> TAKE n \in DOMAIN blocks
    <3>1. blocks[n] \in Blocks
      BY <1>5
    <3>2. blocks[n].id \in Nat
      BY <3>1 DEF Blocks
    <3>3. blocks[n].id < fresh
      BY DEF IInv, Bounded
    <3> QED
      BY <3>2, <3>3, <1>1
  <2> QED
    BY <2>1, <2>2, <1>7, <1>8, <1>9 DEF IInv, Bounded
<1>12. InBlock'
  <2>1. ASSUME NEW m \in DOMAIN given
        PROVE  \E n \in DOMAIN blocks' :
                 /\ blocks'[n].id = given[m].blk
                 /\ given[m].off + given[m].size <= blocks'[n].capacity
                 /\ given[m].off + given[m].size <= blocks'[n].used
                 /\ given[m].off % Align = 0
    <3>1. PICK n \in DOMAIN blocks :
            /\ blocks[n].id = given[m].blk
            /\ given[m].off + given[m].size <= blocks[n].capacity
            /\ given[m].off + given[m].size <= blocks[n].used
            /\ given[m].off % Align = 0
      BY DEF IInv, InBlock
    <3>2. n + 1 \in DOMAIN blocks' /\ blocks'[n + 1] = blocks[n]
      BY <1>7
    <3> QED
      BY <3>1, <3>2
  <2>2. /\ 1 \in DOMAIN blocks' /\ blocks'[1].id = r.blk
        /\ r.off + r.size <= blocks'[1].capacity
        /\ r.off + r.size <= blocks'[1].used
        /\ r.off % Align = 0
    BY <1>1, <1>2, <1>3, <1>4, <1>7 DEF Align
  <2> SUFFICES ASSUME NEW m \in DOMAIN given'
               PROVE  \E n \in DOMAIN blocks' :
                        /\ blocks'[n].id = given'[m].blk
                        /\ given'[m].off + given'[m].size <= blocks'[n].capacity
                        /\ given'[m].off + given'[m].size <= blocks'[n].used
                        /\ given'[m].off % Align = 0
    BY DEF InBlock
  <2>3. CASE m \in DOMAIN given
    BY <2>1, <2>3, <1>8
  <2>4. CASE m = Len(given) + 1
    BY <2>2, <2>4, <1>8
  <2> QED
    BY <2>3, <2>4, <1>8
<1>13. Disjoint'
  <2>1. \A m \in DOMAIN given : given[m].blk # r.blk
    <3> TAKE m \in DOMAIN given
    <3>1. PICK n \in DOMAIN blocks : blocks[n].id = given[m].blk
      BY DEF IInv, InBlock
    <3>2. blocks[n].id < fresh
      BY DEF IInv, Bounded
    <3> QED
      BY <3>1, <3>2, <1>1, <1>4
  <2> QED
    BY <2>1, <1>8 DEF IInv, Disjoint
<1>14. HeapIsList'
  <2>1. Ids' = Ids \cup {fresh}
    <3>1. Ids' \subseteq Ids \cup {fresh}
      BY <1>3, <1>7, <1>9 DEF Ids
    <3>2. Ids \cup {fresh} \subseteq Ids'
      <4>1. fresh \in Ids'
        BY <1>3, <1>7 DEF Ids
      <4>2. ASSUME NEW n \in DOMAIN blocks PROVE blocks[n].id \in Ids'
        <5>1. n + 1 \in DOMAIN blocks' /\ blocks'[n + 1] = blocks[n]
          BY <1>7
        <5> QED
          BY <5>1 DEF Ids
      <4> QED
        BY <4>1, <4>2 DEF Ids
    <3> QED
      BY <3>1, <3>2
  <2>2. \A n \in DOMAIN blocks : blocks[n].id # fresh
    <3> TAKE n \in DOMAIN blocks
    <3>1. blocks[n].id < fresh
      BY DEF IInv, Bounded
    <3> QED
      BY <3>1, <1>1
  <2>3. ASSUME NEW m \in DOMAIN blocks', NEW n \in DOMAIN blocks', blocks'[m].id = blocks'[n].id
        PROVE  m = n
    <3>1. CASE m = 1 \/ n = 1
      BY <3>1, <2>2, <2>3, <1>3, <1>7, <1>9
    <3>2. CASE m # 1 /\ n # 1
      <4>1. m - 1 \in DOMAIN blocks /\ n - 1 \in DOMAIN blocks
            /\ blocks[m - 1].id = blocks[n - 1].id
        BY <3>2, <2>3, <1>9
      <4>2. m - 1 = n - 1
        BY <4>1 DEF IInv, HeapIsList
      <4> QED
        BY <4>2, <1>7
    <3> QED
      BY <3>1, <3>2
  <2> QED
    BY <2>1, <2>3 DEF IInv, HeapIsList
<1> QED
  BY <1>10, <1>11, <1>12, <1>13, <1>14 DEF IInv

-----------------------------------------------------------------------------
(* IInv is preserved by every step, one step of the code at a time. *)
THEOREM NextIInv == IInv /\ [Next]_vars => IInv'
<1> SUFFICES ASSUME IInv, [Next]_vars PROVE IInv'
  OBVIOUS
<1>1. ASSUME NEW cap \in Capacities, Create(cap) PROVE IInv'
  BY <1>1, CreateIInv
<1>2. CASE Destroy
  BY <1>2, DestroyIInv
<1>3. CASE Reset
  BY <1>3, ResetIInv
<1>4. ASSUME NEW size \in Sizes, Alloc(size) PROVE IInv'
  <2>1. /\ Idle /\ size > 0 /\ size \in Nat /\ blocks # <<>> /\ want = 0
        /\ block_size' = block_size /\ heap' = heap /\ fresh' = fresh
    BY <1>4, ArenaAssumption DEF Alloc, Idle
  <2>2. CASE Offset(size) >= 0
    <3>1. /\ blocks' = [blocks EXCEPT ![1] = Bump(@, Offset(size), size)]
          /\ Give(blocks[1], Offset(size), size)
          /\ want' = want /\ new_capacity' = new_capacity
      <4>1. Offset(size) # -1
        BY <2>2, <2>1, OffsetFits, NewestBlock DEF IInv, Blocks
      <4> QED
        BY <1>4, <4>1 DEF Alloc
    <3>2. Offset(size) = blocks[1].used /\ blocks[1].used + size <= blocks[1].capacity
      BY <2>1, <2>2, OffsetFits
    <3>3. blocks' = [blocks EXCEPT ![1] = Bump(blocks[1], blocks[1].used, size)]
      BY <3>1, <3>2
    <3>4. Give(blocks[1], blocks[1].used, size)
      BY <3>1, <3>2
    <3>5. new_capacity' \in Nat /\ want' = 0 /\ size \in Nat \ {0}
      BY <2>1, <3>1 DEF IInv, TypeOK
    <3>6. blocks[1].used + size <= blocks[1].capacity
      BY <3>2
    <3> HIDE DEF IInv
    <3> QED
      BY ONLY IInv, <2>1, <3>3, <3>4, <3>5, <3>6, PlaceIInv
  <2>3. CASE ~(Offset(size) >= 0)
    <3>1. want' = size /\ new_capacity' = block_size /\ blocks' = blocks /\ given' = given
      BY <1>4, <2>3 DEF Alloc, FirstCapacity
    <3>2. TypeOK'
      BY <2>1, <3>1 DEF IInv, TypeOK
    <3>3. Bounded'
      BY <2>1, <3>1 DEF IInv, TypeOK, Bounded
    <3> QED
      BY <2>1, <3>1, <3>2, <3>3 DEF IInv, InBlock, Disjoint, HeapIsList, Ids
  <2> QED
    BY <2>2, <2>3
<1>5. CASE Grow
  <2>1. /\ want > 0 /\ new_capacity < want /\ new_capacity' = Doubled(new_capacity)
        /\ blocks' = blocks /\ block_size' = block_size /\ want' = want
        /\ heap' = heap /\ given' = given /\ fresh' = fresh
    BY <1>5 DEF Grow
  <2>2. new_capacity' \in Nat /\ new_capacity' >= block_size
    <3>1. want \in Nat /\ new_capacity \in Nat /\ block_size \in Nat /\ new_capacity >= block_size
      BY <2>1 DEF IInv, TypeOK, Bounded
    <3>2. CASE new_capacity > SizeMax \div 2
      BY <2>1, <3>1, <3>2 DEF Doubled
    <3>3. CASE ~(new_capacity > SizeMax \div 2)
      BY <2>1, <3>1, <3>3 DEF Doubled
    <3> QED
      BY <3>2, <3>3
  <2>3. TypeOK'
    BY <2>1, <2>2 DEF IInv, TypeOK
  <2>4. Bounded'
    BY <2>1, <2>2 DEF IInv, Bounded
  <2> QED
    BY <2>1, <2>3, <2>4 DEF IInv, InBlock, Disjoint, HeapIsList, Ids
<1>6. CASE Chain
  <2>1. /\ want > 0 /\ new_capacity >= want /\ want' = 0 /\ new_capacity' = 0
        /\ block_size' = block_size
    BY <1>6 DEF Chain
  <2>2. CASE UNCHANGED <<blocks, heap, given, fresh>>
    <3>1. TypeOK' /\ Bounded'
      BY <2>1, <2>2 DEF IInv, TypeOK, Bounded
    <3> QED
      BY <2>2, <3>1 DEF IInv, InBlock, Disjoint, HeapIsList, Ids
  <2>3. CASE /\ Header + new_capacity <= MallocMax
             /\ blocks' = <<Bump(NewBlock(new_capacity), 0, want)>> \o blocks
             /\ heap' = heap \cup {fresh} /\ fresh' = fresh + 1
             /\ Give(NewBlock(new_capacity), 0, want)
    <3>1. /\ want \in Sizes /\ new_capacity \in Nat /\ want <= new_capacity
          /\ block_size <= new_capacity /\ blocks # <<>>
      <4>1. /\ want \in Nat /\ new_capacity \in Nat /\ block_size \in Nat
            /\ want \in Sizes /\ blocks # <<>> /\ new_capacity >= block_size
        BY <2>1 DEF IInv, TypeOK, Bounded
      <4> QED
        BY <4>1, <2>1
    <3> QED
      BY <2>1, <2>3, <3>1, ChainIInv
  <2> QED
    BY <1>6, <2>2, <2>3 DEF Chain
<1>7. CASE UNCHANGED vars
  BY <1>7 DEF vars, IInv, TypeOK, Bounded, InBlock, Disjoint, HeapIsList, Ids
<1> QED
  BY <1>1, <1>2, <1>3, <1>4, <1>5, <1>6, <1>7 DEF Next

(* IInv holds in every reachable state. *)
LEMMA Inductive == Spec => []IInv
BY InitIInv, NextIInv, PTL DEF Spec

(* Every variable of arena.c's structs keeps its type: no block has capacity *)
(* 0, so the doubling loop never spins on 0.                                 *)
THEOREM TypeCorrect == Spec => []TypeOK
<1>1. IInv => TypeOK
  BY DEF IInv
<1> QED
  BY <1>1, Inductive, PTL

(* What arena_alloc returned lies inside one block, for every capacity of    *)
(* the arena and every sequence of sizes that cannot wrap.                   *)
THEOREM AllocationsInBlock == Spec => []InBlock
<1>1. IInv => InBlock
  BY DEF IInv
<1> QED
  BY <1>1, Inductive, PTL

(* No two results of arena_alloc overlap until a reset.                      *)
THEOREM AllocationsDisjoint == Spec => []Disjoint
<1>1. IInv => Disjoint
  BY DEF IInv
<1> QED
  BY <1>1, Inductive, PTL

(* arena_reset and arena_destroy free every block they unlink, and once.     *)
THEOREM NoBlockLost == Spec => []HeapIsList
<1>1. IInv => HeapIsList
  BY DEF IInv
<1> QED
  BY <1>1, Inductive, PTL

(* After arena_create or arena_reset the first allocation of at most         *)
(* block_size bytes needs no malloc: the block a reset keeps, the newest, is *)
(* never smaller than the one arena_create made.                             *)
THEOREM ResetLeavesRoom == Spec => EmptyArenaHasRoom
<1>1. ASSUME IInv, [Next]_vars, Idle, given = <<>>, want' > 0
      PROVE  want' > block_size
  <2>1. want = 0 /\ blocks # <<>>
    BY <1>1 DEF Idle
  <2>2. PICK size \in Sizes : Alloc(size)
    <3>1. ~Grow /\ ~Chain
      BY <2>1 DEF Grow, Chain
    <3>2. ASSUME NEW cap \in Capacities PROVE ~Create(cap)
      BY <2>1 DEF Create
    <3>3. ~Destroy /\ ~Reset /\ ~(vars' = vars)
      BY <1>1, <2>1 DEF Destroy, Reset, vars
    <3> QED
      BY <1>1, <3>1, <3>2, <3>3 DEF Next
  <2>3. want' = size /\ Offset(size) = -1
    BY <1>1, <2>1, <2>2 DEF Alloc
  <2>4. /\ blocks[1].used = 0 /\ blocks[1].capacity \in Nat /\ block_size \in Nat
        /\ blocks[1].capacity >= block_size /\ 24 + blocks[1].capacity <= MallocMax
    BY <1>1, <2>1, NewestBlock DEF IInv, TypeOK, Bounded, Blocks, Header
  <2>5. size \in Nat /\ size <= SizeMax /\ 15 <= SizeMax /\ SizeMax \in Nat
    BY <2>4, ArenaAssumption, SMT DEF Align
  <2>6. AlignUp(0) = 0
    BY <2>5, AlignUpRounds DEF Align
  <2>7. Wrap(AlignUp(0) + size) = size
    BY <2>5, <2>6 DEF Wrap
  <2>8. ~(size <= blocks[1].capacity)
    BY <2>3, <2>4, <2>6, <2>7 DEF Offset
  <2> QED
    BY <2>3, <2>4, <2>5, <2>8
<1> QED
  BY <1>1, Inductive, PTL DEF Spec, EmptyArenaHasRoom
==============================================================================
