--------------------------- MODULE HashMapProofs ---------------------------
(***************************************************************************)
(* The hash map for every set of keys, hash function, table size and       *)
(* failing allocation: its buckets stay searchable, its size is the number *)
(* of its keys, and it implements PartialMap, through a rehash and through *)
(* one that is given up.                                                   *)
(*                                                                         *)
(* The first part is about one table of buckets: a lookup finds exactly    *)
(* the entries the table holds, so two tables that hold the same entries   *)
(* answer alike, and a push, an update and a removal change what a table   *)
(* holds by one entry.  The second part is the invariant: while a rehash   *)
(* runs, the new table holds what the cursor has passed.                   *)
(***************************************************************************)
EXTENDS HashMap, FiniteSetTheorems, TLAPS

Typed(T, N) == N \in Nat \ {0} /\ T \in [0..(N - 1) -> Arrays(Entries)]

-----------------------------------------------------------------------------
(* One table *)

\* A bucket is an array of entries.
LEMMA BucketIs ==
  ASSUME NEW T, NEW N, Typed(T, N), NEW b \in 0..(N - 1)
  PROVE  /\ T[b].items \in Seq(Entries) /\ T[b].capacity \in Nat
         /\ Len(T[b].items) \in Nat /\ DOMAIN T[b].items = 1..Len(T[b].items)
         /\ \A n \in 1..Len(T[b].items) :
              /\ T[b].items[n] \in Entries
              /\ T[b].items[n].key \in Key /\ T[b].items[n].value \in Val
<1>1. T[b] \in Arrays(Entries)
  BY DEF Typed
<1>2. T[b].items \in Seq(Entries) /\ T[b].capacity \in Nat
  BY <1>1 DEF Arrays
<1>3. \A n \in 1..Len(T[b].items) : T[b].items[n] \in Entries
  BY <1>2
<1>4. \A e \in Entries : e.key \in Key /\ e.value \in Val
  BY DEF Entries
<1> QED
  BY <1>2, <1>3, <1>4

\* A key's bucket is a bucket of the table.
LEMMA IndexRange ==
  ASSUME NEW k \in Key, NEW N \in Nat \ {0}
  PROVE  Index(k, N) \in 0..(N - 1)
<1>1. Hash[k] \in Nat
  BY HashMapAssumption
<1> QED
  BY <1>1 DEF Index

\* What a table holds lies at some place of it.
LEMMA HeldIs ==
  ASSUME NEW T, NEW N, Typed(T, N), NEW e
  PROVE  e \in Held(T) <=>
           \E b \in 0..(N - 1) : \E n \in 1..Len(T[b].items) : e = T[b].items[n]
<1>1. DOMAIN T = 0..(N - 1)
  BY DEF Typed
<1>2. \A b \in 0..(N - 1) : DOMAIN T[b].items = 1..Len(T[b].items)
  BY BucketIs
<1> QED
  BY <1>1, <1>2 DEF Held

\* An entry in its bucket is the one a lookup of its key finds.
LEMMA FoundAt ==
  ASSUME NEW T, NEW N, Typed(T, N), WellPlaced(T, N), NEW b \in 0..(N - 1),
         NEW n \in 1..Len(T[b].items)
  PROVE  LET k == T[b].items[n].key
         IN  /\ b = Index(k, N)
             /\ MatchesIn(T, N, k) = {n} /\ First(MatchesIn(T, N, k)) = n
             /\ LookupIn(T, N, k) = T[b].items[n].value
<1> DEFINE k == T[b].items[n].key
<1>1. DOMAIN T = 0..(N - 1) /\ DOMAIN T[b].items = 1..Len(T[b].items)
  BY BucketIs DEF Typed
<1>2. b = Index(k, N)
  BY <1>1 DEF WellPlaced
<1>3. MatchesIn(T, N, k) = {n}
  <2>1. \A m \in 1..Len(T[b].items) : T[b].items[m].key = k => m = n
    BY <1>1 DEF WellPlaced
  <2> QED
    BY <1>1, <1>2, <2>1 DEF MatchesIn
<1>4. First({n}) = n
  <2>1. n \in Nat
    OBVIOUS
  <2> QED
    BY <2>1 DEF First
<1> QED
  BY <1>2, <1>3, <1>4 DEF LookupIn

\* A lookup finds what the table holds...
LEMMA LookupHeld ==
  ASSUME NEW T, NEW N, Typed(T, N), WellPlaced(T, N), NEW e \in Held(T)
  PROVE  LookupIn(T, N, e.key) = e.value /\ e.value \in Val /\ e.value # None /\ e \in Entries
<1>1. PICK b \in 0..(N - 1) : \E n \in 1..Len(T[b].items) : e = T[b].items[n]
  BY HeldIs
<1>2. PICK n \in 1..Len(T[b].items) : e = T[b].items[n]
  BY <1>1
<1>3. e \in Entries /\ e.value \in Val
  BY <1>2, BucketIs
<1>4. LookupIn(T, N, e.key) = e.value
  BY <1>2, FoundAt
<1> QED
  BY <1>3, <1>4, HashMapAssumption

\* ... at the place it says...
LEMMA MatchPlace ==
  ASSUME NEW T, NEW N, Typed(T, N), NEW k \in Key
  PROVE  LET b == Index(k, N)
         IN  /\ b \in 0..(N - 1)
             /\ \A n \in MatchesIn(T, N, k) :
                  n \in 1..Len(T[b].items) /\ T[b].items[n].key = k /\ T[b].items[n] \in Held(T)
<1> DEFINE b == Index(k, N)
<1>1. b \in 0..(N - 1)
  BY IndexRange DEF Typed
<1>2. DOMAIN T[b].items = 1..Len(T[b].items)
  BY <1>1, BucketIs
<1>3. \A n \in 1..Len(T[b].items) : T[b].items[n] \in Held(T)
  BY <1>1, HeldIs
<1> QED
  BY <1>1, <1>2, <1>3 DEF MatchesIn

\* ... and nothing when it holds no entry of the key.
LEMMA LookupNone ==
  ASSUME NEW T, NEW N, Typed(T, N), WellPlaced(T, N), NEW k \in Key
  PROVE  LET found == MatchesIn(T, N, k)
         IN  /\ found = {} <=> \A e \in Held(T) : e.key # k
             /\ found = {} <=> LookupIn(T, N, k) = None
             /\ found # {} => First(found) \in found /\ LookupIn(T, N, k) \in Val
<1> DEFINE b == Index(k, N)
           found == MatchesIn(T, N, k)
<1>1. b \in 0..(N - 1) /\ DOMAIN T[b].items = 1..Len(T[b].items)
  BY MatchPlace, BucketIs
<1>2. ASSUME NEW e \in Held(T), e.key = k
      PROVE  found # {}
  <2>1. PICK c \in 0..(N - 1) : \E n \in 1..Len(T[c].items) : e = T[c].items[n]
    BY HeldIs
  <2>2. PICK n \in 1..Len(T[c].items) : e = T[c].items[n]
    BY <2>1
  <2>3. T[c].items[n].key = k
    BY <2>2, <1>2
  <2>4. MatchesIn(T, N, T[c].items[n].key) = {n}
    BY FoundAt
  <2> QED
    BY <2>3, <2>4
<1>3. ASSUME NEW n \in found
      PROVE  /\ \E e \in Held(T) : e.key = k
             /\ First(found) = n
             /\ LookupIn(T, N, k) \in Val
  <2>1. n \in 1..Len(T[b].items) /\ T[b].items[n].key = k /\ T[b].items[n] \in Held(T)
    BY <1>3, MatchPlace
  <2>2. First(found) = n /\ LookupIn(T, N, k) = T[b].items[n].value
    BY <1>1, <2>1, FoundAt
  <2> QED
    BY <1>1, <2>1, <2>2, BucketIs
<1>4. found = {} => LookupIn(T, N, k) = None
  BY DEF LookupIn
<1> HIDE DEF found
<1>5. found # {} => LookupIn(T, N, k) # None /\ LookupIn(T, N, k) \in Val /\ First(found) \in found
  <2> SUFFICES ASSUME found # {}
               PROVE  LookupIn(T, N, k) # None /\ LookupIn(T, N, k) \in Val /\ First(found) \in found
    OBVIOUS
  <2>1. PICK n \in found : TRUE
    OBVIOUS
  <2>2. First(found) = n /\ LookupIn(T, N, k) \in Val
    BY <2>1, <1>3
  <2> QED
    BY <2>1, <2>2, HashMapAssumption
<1>6. found = {} <=> \A e \in Held(T) : e.key # k
  BY <1>2, <1>3
<1> QED
  BY <1>4, <1>5, <1>6 DEF found

\* Two tables that hold the same entries of a key answer its lookup alike.
LEMMA SameLookup ==
  ASSUME NEW T, NEW N, Typed(T, N), WellPlaced(T, N),
         NEW U, NEW M, Typed(U, M), WellPlaced(U, M), NEW k \in Key,
         \A e \in Entries : e.key = k => (e \in Held(T) <=> e \in Held(U))
  PROVE  LookupIn(T, N, k) = LookupIn(U, M, k)
<1>1. CASE \E e \in Held(T) : e.key = k
  <2>1. PICK e \in Held(T) : e.key = k
    BY <1>1
  <2>2. e \in Entries /\ LookupIn(T, N, k) = e.value
    BY <2>1, LookupHeld
  <2>3. e \in Held(U)
    BY <2>1, <2>2
  <2>4. LookupIn(U, M, k) = e.value
    BY <2>1, <2>3, LookupHeld
  <2> QED
    BY <2>2, <2>4
<1>2. CASE \A e \in Held(T) : e.key # k
  <2>1. \A e \in Held(U) : e \in Entries
    BY LookupHeld
  <2>2. \A e \in Held(U) : e.key # k
    BY <1>2, <2>1
  <2>3. LookupIn(T, N, k) = None
    BY <1>2, LookupNone
  <2>4. LookupIn(U, M, k) = None
    BY <2>2, LookupNone
  <2> QED
    BY <2>3, <2>4
<1> QED
  BY <1>1, <1>2

\* A table is well placed when each bucket is.
LEMMA Placed ==
  ASSUME NEW T, NEW N, Typed(T, N)
  PROVE  WellPlaced(T, N) <=>
           \A b \in 0..(N - 1) :
             /\ \A n \in 1..Len(T[b].items) : Index(T[b].items[n].key, N) = b
             /\ \A m, n \in 1..Len(T[b].items) :
                  T[b].items[m].key = T[b].items[n].key => m = n
             /\ Len(T[b].items) <= T[b].capacity
<1>1. DOMAIN T = 0..(N - 1)
  BY DEF Typed
<1>2. \A b \in 0..(N - 1) : DOMAIN T[b].items = 1..Len(T[b].items)
  BY BucketIs
<1> DEFINE Good(b, D) ==
             /\ \A n \in D : Index(T[b].items[n].key, N) = b
             /\ \A m, n \in D : T[b].items[m].key = T[b].items[n].key => m = n
             /\ Len(T[b].items) <= T[b].capacity
<1>3. WellPlaced(T, N) <=> \A b \in 0..(N - 1) : Good(b, DOMAIN T[b].items)
  BY ONLY <1>1 DEF WellPlaced, InBuffer
<1>4. (\A b \in 0..(N - 1) : Good(b, DOMAIN T[b].items))
        <=> (\A b \in 0..(N - 1) : Good(b, 1..Len(T[b].items)))
  <2> HIDE DEF Good
  <2> QED
    BY ONLY <1>2
<1> QED
  BY ONLY <1>3, <1>4

\* A push of an entry with a new key adds it and nothing else.
LEMMA PushHeld ==
  ASSUME NEW T, NEW N, Typed(T, N), WellPlaced(T, N), NEW e \in Entries,
         \A f \in Held(T) : f.key # e.key
  PROVE  LET b == Index(e.key, N)
             U == [T EXCEPT ![b] = Pushed(@, e)]
         IN  Typed(U, N) /\ WellPlaced(U, N) /\ Held(U) = Held(T) \cup {e}
<1> DEFINE b == Index(e.key, N)
           U == [T EXCEPT ![b] = Pushed(@, e)]
           len == Len(T[b].items)
<1>1. e.key \in Key
  BY DEF Entries
<1>2. b \in 0..(N - 1)
  BY <1>1, IndexRange DEF Typed
<1>3. T[b].items \in Seq(Entries) /\ T[b].capacity \in Nat /\ len \in Nat
      /\ len <= T[b].capacity
  BY <1>2, BucketIs, Placed
<1>4. /\ U[b] = Pushed(T[b], e)
      /\ \A c \in 0..(N - 1) : c # b => U[c] = T[c]
  BY <1>2 DEF Typed
<1>5. /\ Pushed(T[b], e).items = Append(T[b].items, e)
      /\ Pushed(T[b], e) \in Arrays(Entries)
      /\ len + 1 <= Pushed(T[b], e).capacity
  <2>1. Append(T[b].items, e) \in Seq(Entries)
    BY <1>3
  <2>2. IF Full(T[b]) THEN Grown(T[b].capacity) \in Nat /\ len + 1 <= Grown(T[b].capacity)
        ELSE len + 1 <= T[b].capacity
    BY <1>3, FirstCapacityAssumption DEF Full, Grown
  <2> QED
    BY <2>1, <2>2, <1>3 DEF Pushed, Array, Arrays
<1>6. /\ Len(U[b].items) = len + 1 /\ U[b].items[len + 1] = e
      /\ \A n \in 1..len : U[b].items[n] = T[b].items[n]
  BY <1>3, <1>4, <1>5
<1>7. Typed(U, N)
  BY <1>2, <1>5 DEF Typed
<1>8. \A n \in 1..len : T[b].items[n].key # e.key
  BY <1>2, HeldIs
<1>b. Index(e.key, N) = b
  OBVIOUS
<1> HIDE DEF U, b
<1>9. WellPlaced(U, N)
  <2> SUFFICES ASSUME NEW c \in 0..(N - 1)
               PROVE  /\ \A n \in 1..Len(U[c].items) : Index(U[c].items[n].key, N) = c
                      /\ \A m, n \in 1..Len(U[c].items) :
                           U[c].items[m].key = U[c].items[n].key => m = n
                      /\ Len(U[c].items) <= U[c].capacity
    BY <1>7, Placed
  <2>1. CASE c # b
    BY <2>1, <1>4, Placed
  <2>2. CASE c = b
    <3>1. \A n \in 1..(len + 1) : n \in 1..len \/ n = len + 1
      BY <1>3
    <3>2. \A n \in 1..len : Index(T[b].items[n].key, N) = b
      BY <1>2, Placed
    <3>3. \A n \in 1..(len + 1) : Index(U[b].items[n].key, N) = b
      BY <3>1, <3>2, <1>6, <1>b
    <3>4. \A m, n \in 1..len : T[b].items[m].key = T[b].items[n].key => m = n
      BY <1>2, Placed
    <3>5. \A m, n \in 1..(len + 1) : U[b].items[m].key = U[b].items[n].key => m = n
      BY <3>1, <3>4, <1>6, <1>8
    <3> QED
      BY <2>2, <3>3, <3>5, <1>4, <1>5, <1>6
  <2> QED
    BY <2>1, <2>2
<1>10. ASSUME NEW f
       PROVE  f \in Held(U) <=> f \in Held(T) \/ f = e
  <2>1. ASSUME f \in Held(U) PROVE f \in Held(T) \/ f = e
    <3>1. PICK c \in 0..(N - 1) : \E n \in 1..Len(U[c].items) : f = U[c].items[n]
      BY <1>7, <2>1, HeldIs
    <3>2. PICK n \in 1..Len(U[c].items) : f = U[c].items[n]
      BY <3>1
    <3>3. \/ c = b /\ n = len + 1
          \/ n \in 1..Len(T[c].items) /\ U[c].items[n] = T[c].items[n]
      <4>1. CASE c = b
        <5>1. n \in 1..(len + 1)
          BY <4>1, <3>2, <1>6
        <5>2. n = len + 1 \/ n \in 1..len
          BY ONLY <5>1, <1>3
        <5> QED
          BY <4>1, <5>2, <1>6
      <4>2. CASE c # b
        BY <4>2, <3>2, <1>4
      <4> QED
        BY <4>1, <4>2
    <3>4. n \in 1..Len(T[c].items) /\ f = T[c].items[n] => f \in Held(T)
      BY HeldIs
    <3>5. c = b /\ n = len + 1 => f = e
      BY <3>2, <1>6
    <3> QED
      BY <3>2, <3>3, <3>4, <3>5
  <2>2. ASSUME f \in Held(T) PROVE f \in Held(U)
    <3>1. PICK c \in 0..(N - 1) : \E n \in 1..Len(T[c].items) : f = T[c].items[n]
      BY <2>2, HeldIs
    <3>2. PICK n \in 1..Len(T[c].items) : f = T[c].items[n]
      BY <3>1
    <3>3. n \in 1..Len(U[c].items) /\ U[c].items[n] = f
      <4>1. CASE c = b
        BY <4>1, <3>2, <1>3, <1>6
      <4>2. CASE c # b
        BY <4>2, <3>2, <1>4
      <4> QED
        BY <4>1, <4>2
    <3> QED
      BY <3>3, <1>7, HeldIs
  <2>3. e \in Held(U)
    <3>1. len + 1 \in 1..Len(U[b].items) /\ e = U[b].items[len + 1]
      BY <1>3, <1>6
    <3> QED
      BY <3>1, <1>2, <1>7, HeldIs
  <2> QED
    BY <2>1, <2>2, <2>3
<1>11. Held(U) = Held(T) \cup {e}
  BY <1>10
<1> QED
  BY <1>7, <1>9, <1>11 DEF U, b

\* An update changes the value of one key.
LEMMA UpdateHeld ==
  ASSUME NEW T, NEW N, Typed(T, N), WellPlaced(T, N), NEW b \in 0..(N - 1),
         NEW n \in 1..Len(T[b].items), NEW v \in Val
  PROVE  LET k == T[b].items[n].key
             U == [T EXCEPT ![b].items[n].value = v]
         IN  /\ Typed(U, N) /\ WellPlaced(U, N)
             /\ Entry(k, v) \in Held(U)
             /\ \A f : f.key # k => (f \in Held(U) <=> f \in Held(T))
<1> DEFINE k == T[b].items[n].key
           U == [T EXCEPT ![b].items[n].value = v]
           a == T[b]
<1>1. a.items \in Seq(Entries) /\ a.capacity \in Nat /\ DOMAIN a.items = 1..Len(a.items)
      /\ a.items[n] \in Entries /\ Len(a.items) \in Nat /\ k \in Key
  BY BucketIs
<1>2. T[b] = [items |-> a.items, capacity |-> a.capacity]
  <2>1. T[b] \in Arrays(Entries)
    BY DEF Typed
  <2> QED
    BY <2>1 DEF Arrays
<1>3. a.items[n] = Entry(k, a.items[n].value)
  BY <1>1 DEF Entries, Entry
<1>4. /\ U[b] = [items |-> [a.items EXCEPT ![n] = Entry(k, v)], capacity |-> a.capacity]
      /\ \A c \in 0..(N - 1) : c # b => U[c] = T[c]
  <2>1. [a.items[n] EXCEPT !.value = v] = Entry(k, v)
    BY <1>3 DEF Entry
  <2>2. U = [T EXCEPT ![b] = [T[b] EXCEPT !.items = [T[b].items EXCEPT ![n] = [T[b].items[n] EXCEPT !.value = v]]]]
    OBVIOUS
  <2>3. U[b] = [T[b] EXCEPT !.items = [a.items EXCEPT ![n] = Entry(k, v)]]
    BY <2>1, <2>2 DEF Typed
  <2>4. \A c \in 0..(N - 1) : c # b => U[c] = T[c]
    BY <2>2 DEF Typed
  <2> HIDE DEF U
  <2>5. ASSUME NEW p, NEW q, NEW r
        PROVE  [[items |-> p, capacity |-> q] EXCEPT !.items = r] = [items |-> r, capacity |-> q]
    OBVIOUS
  <2>6. U[b] = [items |-> [a.items EXCEPT ![n] = Entry(k, v)], capacity |-> a.capacity]
    BY ONLY <2>3, <2>5, <1>2
  <2> QED
    BY <2>4, <2>6
<1>5. Entry(k, v) \in Entries
  BY <1>1 DEF Entry, Entries
<1>6. /\ U[b].items \in Seq(Entries) /\ Len(U[b].items) = Len(a.items)
      /\ U[b].items[n] = Entry(k, v) /\ U[b].capacity = a.capacity
      /\ \A m \in 1..Len(a.items) : m # n => U[b].items[m] = a.items[m]
      /\ \A m \in 1..Len(a.items) : U[b].items[m].key = a.items[m].key
  <2>1. [a.items EXCEPT ![n] = Entry(k, v)] \in Seq(Entries)
        /\ Len([a.items EXCEPT ![n] = Entry(k, v)]) = Len(a.items)
    BY <1>1, <1>5
  <2>2. Entry(k, v).key = k
    BY DEF Entry
  <2> QED
    BY <1>1, <1>4, <2>1, <2>2
<1>7. Typed(U, N)
  <2>1. U[b] \in Arrays(Entries)
    BY <1>1, <1>4, <1>6 DEF Arrays
  <2>2. U \in [0..(N - 1) -> Arrays(Entries)]
    <3>1. DOMAIN U = 0..(N - 1)
      BY DEF Typed
    <3>2. \A c \in 0..(N - 1) : U[c] \in Arrays(Entries)
      BY <2>1, <1>4 DEF Typed
    <3>3. U = [c \in 0..(N - 1) |-> U[c]]
      BY <3>1 DEF Typed
    <3> HIDE DEF U
    <3> QED
      BY <3>2, <3>3
  <2> QED
    BY <2>2 DEF Typed
<1> HIDE DEF U
<1>8. \A c \in 0..(N - 1) :
        /\ Len(U[c].items) = Len(T[c].items) /\ U[c].capacity = T[c].capacity
        /\ \A m \in 1..Len(T[c].items) : U[c].items[m].key = T[c].items[m].key
  BY <1>4, <1>6
<1>9. WellPlaced(U, N)
  <2> SUFFICES ASSUME NEW c \in 0..(N - 1)
               PROVE  /\ \A m \in 1..Len(U[c].items) : Index(U[c].items[m].key, N) = c
                      /\ \A m, p \in 1..Len(U[c].items) :
                           U[c].items[m].key = U[c].items[p].key => m = p
                      /\ Len(U[c].items) <= U[c].capacity
    BY <1>7, Placed
  <2>1. /\ \A m \in 1..Len(T[c].items) : Index(T[c].items[m].key, N) = c
        /\ \A m, p \in 1..Len(T[c].items) :
             T[c].items[m].key = T[c].items[p].key => m = p
        /\ Len(T[c].items) <= T[c].capacity
    BY Placed
  <2> QED
    BY <2>1, <1>8
<1>10. Entry(k, v) \in Held(U)
  BY <1>6, <1>7, HeldIs
<1>11. ASSUME NEW f, f.key # k
       PROVE  f \in Held(U) <=> f \in Held(T)
  <2>1. \A c \in 0..(N - 1) : \A m \in 1..Len(T[c].items) :
          f = U[c].items[m] \/ f = T[c].items[m] => U[c].items[m] = T[c].items[m]
    <3>1. Entry(k, v).key = k
      BY DEF Entry
    <3>2. ASSUME NEW c \in 0..(N - 1), NEW m \in 1..Len(T[c].items),
                 f = U[c].items[m] \/ f = T[c].items[m]
          PROVE  U[c].items[m] = T[c].items[m]
      <4>1. CASE c # b
        BY <4>1, <1>4
      <4>2. CASE c = b /\ m = n
        BY <4>2, <3>1, <3>2, <1>6, <1>11
      <4>3. CASE c = b /\ m # n
        BY <4>3, <1>6
      <4> QED
        BY <4>1, <4>2, <4>3
    <3> QED
      BY <3>2
  <2>2. f \in Held(T) <=> \E c \in 0..(N - 1) : \E m \in 1..Len(T[c].items) : f = T[c].items[m]
    BY HeldIs
  <2>3. f \in Held(U) <=> \E c \in 0..(N - 1) : \E m \in 1..Len(U[c].items) : f = U[c].items[m]
    BY <1>7, HeldIs
  <2>4. \A c \in 0..(N - 1) : 1..Len(U[c].items) = 1..Len(T[c].items)
    BY <1>8
  <2>5. ASSUME f \in Held(T) PROVE f \in Held(U)
    <3>1. PICK c \in 0..(N - 1) : \E m \in 1..Len(T[c].items) : f = T[c].items[m]
      BY <2>2, <2>5
    <3>2. PICK m \in 1..Len(T[c].items) : f = T[c].items[m]
      BY <3>1
    <3>3. m \in 1..Len(U[c].items) /\ f = U[c].items[m]
      BY ONLY <3>2, <2>1, <2>4
    <3> QED
      BY ONLY <3>3, <2>3
  <2>6. ASSUME f \in Held(U) PROVE f \in Held(T)
    <3>1. PICK c \in 0..(N - 1) : \E m \in 1..Len(U[c].items) : f = U[c].items[m]
      BY <2>3, <2>6
    <3>2. PICK m \in 1..Len(U[c].items) : f = U[c].items[m]
      BY <3>1
    <3>3. m \in 1..Len(T[c].items) /\ f = T[c].items[m]
      BY ONLY <3>2, <2>1, <2>4
    <3> QED
      BY ONLY <3>3, <2>2
  <2> QED
    BY ONLY <2>5, <2>6
<1> QED
  BY <1>7, <1>9, <1>10, <1>11 DEF U

\* A removal takes the one entry of a key.
LEMMA RemoveHeld ==
  ASSUME NEW T, NEW N, Typed(T, N), WellPlaced(T, N), NEW b \in 0..(N - 1),
         NEW n \in 1..Len(T[b].items)
  PROVE  LET k == T[b].items[n].key
             U == [T EXCEPT ![b] = Removed(@, n)]
         IN  /\ Typed(U, N) /\ WellPlaced(U, N)
             /\ \A f \in Held(U) : f.key # k
             /\ \A f : f.key # k => (f \in Held(U) <=> f \in Held(T))
<1> DEFINE k == T[b].items[n].key
           U == [T EXCEPT ![b] = Removed(@, n)]
           len == Len(T[b].items)
           old(m) == IF m < n THEN m ELSE m + 1
<1>1. T[b].items \in Seq(Entries) /\ T[b].capacity \in Nat /\ len \in Nat
      /\ len <= T[b].capacity
  BY BucketIs, Placed
<1>2. /\ U[b] = Removed(T[b], n)
      /\ \A c \in 0..(N - 1) : c # b => U[c] = T[c]
  BY DEF Typed
<1>3. \A m \in 1..(len - 1) : old(m) \in 1..len /\ old(m) # n
  BY <1>1
<1>4. \A m, p \in 1..(len - 1) : old(m) = old(p) => m = p
  BY <1>1
<1>5. \A p \in 1..len : p # n => \E m \in 1..(len - 1) : old(m) = p
  <2> SUFFICES ASSUME NEW p \in 1..len, p # n
               PROVE  \E m \in 1..(len - 1) : old(m) = p
    OBVIOUS
  <2>1. CASE p < n
    <3>1. p \in 1..(len - 1) /\ old(p) = p
      BY <1>1, <2>1
    <3> QED
      BY <3>1
  <2>2. CASE p > n
    <3>1. p - 1 \in 1..(len - 1) /\ old(p - 1) = p
      BY <1>1, <2>2
    <3> QED
      BY <3>1
  <2> QED
    BY <2>1, <2>2, <1>1
<1> HIDE DEF old
<1>6. /\ Removed(T[b], n) = [items |-> [m \in 1..(len - 1) |-> T[b].items[old(m)]],
                             capacity |-> T[b].capacity]
  BY DEF Removed, Array, old
<1>7. [m \in 1..(len - 1) |-> T[b].items[old(m)]] \in Seq(Entries)
  <2>1. \A m \in 1..(len - 1) : T[b].items[old(m)] \in Entries
    BY <1>1, <1>3
  <2>2. len - 1 \in Nat
    BY <1>1
  <2> QED
    BY <2>1, <2>2
<1>8. /\ U[b].items \in Seq(Entries) /\ Len(U[b].items) = len - 1
      /\ U[b].capacity = T[b].capacity
      /\ \A m \in 1..(len - 1) : U[b].items[m] = T[b].items[old(m)]
  <2>1. Len([m \in 1..(len - 1) |-> T[b].items[old(m)]]) = len - 1
    BY <1>1
  <2> QED
    BY <1>2, <1>6, <1>7, <2>1
<1>9. Typed(U, N)
  <2>1. Removed(T[b], n) \in Arrays(Entries)
    BY <1>1, <1>6, <1>7 DEF Arrays
  <2> QED
    BY <2>1 DEF Typed
<1> HIDE DEF U
<1>10. WellPlaced(U, N)
  <2> SUFFICES ASSUME NEW c \in 0..(N - 1)
               PROVE  /\ \A m \in 1..Len(U[c].items) : Index(U[c].items[m].key, N) = c
                      /\ \A m, p \in 1..Len(U[c].items) :
                           U[c].items[m].key = U[c].items[p].key => m = p
                      /\ Len(U[c].items) <= U[c].capacity
    BY <1>9, Placed
  <2>1. CASE c # b
    BY <2>1, <1>2, Placed
  <2>2. CASE c = b
    <3>1. \A m \in 1..len : Index(T[b].items[m].key, N) = b
      BY Placed
    <3>2. \A m, p \in 1..len : T[b].items[m].key = T[b].items[p].key => m = p
      BY Placed
    <3>3. \A m \in 1..(len - 1) : Index(U[b].items[m].key, N) = b
      BY <3>1, <1>3, <1>8
    <3>4. ASSUME NEW m \in 1..(len - 1), NEW p \in 1..(len - 1),
                 U[b].items[m].key = U[b].items[p].key
          PROVE  m = p
      <4>1. old(m) \in 1..len /\ old(p) \in 1..len
            /\ T[b].items[old(m)].key = T[b].items[old(p)].key
        BY <3>4, <1>3, <1>8
      <4>2. old(m) = old(p)
        BY <4>1, <3>2
      <4> QED
        BY <4>2, <1>4
    <3>5. Len(U[b].items) <= U[b].capacity
      BY <1>1, <1>8
    <3> QED
      BY <2>2, <3>3, <3>4, <3>5, <1>8
  <2> QED
    BY <2>1, <2>2
<1>11. ASSUME NEW f
       PROVE  f \in Held(U) <=> f \in Held(T) /\ f.key # k
  <2>1. ASSUME f \in Held(U) PROVE f \in Held(T) /\ f.key # k
    <3>1. PICK c \in 0..(N - 1) : \E m \in 1..Len(U[c].items) : f = U[c].items[m]
      BY <1>9, <2>1, HeldIs
    <3>2. PICK m \in 1..Len(U[c].items) : f = U[c].items[m]
      BY <3>1
    <3>3. CASE c = b
      <4>1. old(m) \in 1..len /\ old(m) # n /\ f = T[b].items[old(m)]
        BY <3>2, <3>3, <1>3, <1>8
      <4>2. f \in Held(T)
        BY <4>1, HeldIs
      <4>3. f.key # k
        BY <4>1, Placed
      <4> QED
        BY <4>2, <4>3
    <3>4. CASE c # b
      <4>1. m \in 1..Len(T[c].items) /\ f = T[c].items[m]
        BY <3>2, <3>4, <1>2
      <4>2. f \in Held(T)
        BY <4>1, HeldIs
      <4>3. c = Index(f.key, N) /\ b = Index(k, N)
        BY <4>1, Placed
      <4> QED
        BY <4>2, <4>3, <3>4
    <3> QED
      BY <3>3, <3>4
  <2>2. ASSUME f \in Held(T), f.key # k PROVE f \in Held(U)
    <3>1. PICK c \in 0..(N - 1) : \E m \in 1..Len(T[c].items) : f = T[c].items[m]
      BY <2>2, HeldIs
    <3>2. PICK m \in 1..Len(T[c].items) : f = T[c].items[m]
      BY <3>1
    <3>3. CASE c = b
      <4>1. m \in 1..len /\ m # n
        BY <3>2, <3>3, <2>2
      <4>2. PICK p \in 1..(len - 1) : old(p) = m
        BY <4>1, <1>5
      <4>3. p \in 1..Len(U[b].items) /\ f = U[b].items[p]
        BY <3>2, <3>3, <4>2, <1>8
      <4> QED
        BY <4>3, <1>9, HeldIs
    <3>4. CASE c # b
      <4>1. m \in 1..Len(U[c].items) /\ f = U[c].items[m]
        BY <3>2, <3>4, <1>2
      <4> QED
        BY <4>1, <1>9, HeldIs
    <3> QED
      BY <3>3, <3>4
  <2> QED
    BY <2>1, <2>2
<1> QED
  BY <1>9, <1>10, <1>11 DEF U

\* What a cursor at entry c of bucket a has passed.
Passed(T, N, a, c) ==
  {e \in Entries : \E b \in 0..(N - 1) : \E n \in 1..Len(T[b].items) :
     (b < a \/ (b = a /\ n < c)) /\ e = T[b].items[n]}

\* The way CopiedSoFar says it.
LEMMA PassedIs ==
  ASSUME NEW T, NEW N, Typed(T, N), NEW a \in Nat, NEW c \in Nat
  PROVE  UNION {{T[b].items[n] : n \in {m \in DOMAIN T[b].items : b < a \/ m < c}} :
                  b \in {d \in DOMAIN T : d <= a}}
         = Passed(T, N, a, c)
<1>1. DOMAIN T = 0..(N - 1) /\ N \in Nat \ {0}
  BY DEF Typed
<1>2. \A b \in 0..(N - 1) :
        /\ DOMAIN T[b].items = 1..Len(T[b].items)
        /\ \A n \in 1..Len(T[b].items) : T[b].items[n] \in Entries
  BY BucketIs
<1>3. \A b \in 0..(N - 1) : b <= a <=> (b < a \/ b = a)
  BY <1>1
<1> DEFINE S == UNION {{T[b].items[n] : n \in {m \in DOMAIN T[b].items : b < a \/ m < c}} :
                         b \in {d \in DOMAIN T : d <= a}}
<1>4. ASSUME NEW e
      PROVE  e \in S <=> \E b \in 0..(N - 1) : \E n \in 1..Len(T[b].items) :
                            b <= a /\ (b < a \/ n < c) /\ e = T[b].items[n]
  <2> DEFINE At(b) == {T[b].items[n] : n \in {m \in DOMAIN T[b].items : b < a \/ m < c}}
  <2>1. ASSUME NEW b \in 0..(N - 1)
        PROVE  e \in At(b) <=> \E n \in 1..Len(T[b].items) :
                                  (b < a \/ n < c) /\ e = T[b].items[n]
    <3>1. DOMAIN T[b].items = 1..Len(T[b].items)
      BY <1>2
    <3> QED
      BY ONLY <3>1
  <2>2. e \in S <=> \E b \in 0..(N - 1) : b <= a /\ e \in At(b)
    BY ONLY <1>1
  <2> HIDE DEF At, S
  <2> QED
    BY ONLY <2>1, <2>2
<1> HIDE DEF S
<1>5. ASSUME NEW e
      PROVE  e \in S <=> e \in Passed(T, N, a, c)
  BY <1>2, <1>3, <1>4 DEF Passed
<1>6. S = Passed(T, N, a, c)
  BY <1>5
<1> QED
  BY <1>6 DEF S

\* A new table holds nothing.
LEMMA NewTable ==
  ASSUME NEW N \in Nat \ {0}
  PROVE  Typed(Table(N), N) /\ WellPlaced(Table(N), N) /\ Held(Table(N)) = {}
<1>1. EmptyArray \in Arrays(Entries) /\ EmptyArray.items = <<>> /\ EmptyArray.capacity = 0
  BY DEF EmptyArray, Array, Arrays
<1>2. Typed(Table(N), N)
  BY <1>1 DEF Table, Typed
<1>3. \A b \in 0..(N - 1) : Len(Table(N)[b].items) = 0 /\ Table(N)[b].capacity = 0
  BY <1>1 DEF Table
<1>4. WellPlaced(Table(N), N)
  BY <1>2, <1>3, Placed
<1>5. \A e : e \notin Held(Table(N))
  BY <1>2, <1>3, HeldIs
<1> QED
  BY <1>2, <1>4, <1>5

\* The table of no buckets.
LEMMA NoTableIs == NoTable \in [0..(0 - 1) -> Arrays(Entries)]
<1>1. 0..(0 - 1) = {}
  OBVIOUS
<1> QED
  BY <1>1 DEF NoTable, Table

\* The cursor at the start, ...
LEMMA PassedNone ==
  ASSUME NEW T, NEW N, Typed(T, N)
  PROVE  Passed(T, N, 0, 1) = {}
<1>1. \A b \in 0..(N - 1) : ~(b < 0)
  BY DEF Typed
<1>2. \A b \in 0..(N - 1) : \A n \in 1..Len(T[b].items) : ~(n < 1)
  OBVIOUS
<1> QED
  BY <1>1, <1>2 DEF Passed

\* ... behind the last entry of a bucket, ...
LEMMA PassedNext ==
  ASSUME NEW T, NEW N, Typed(T, N), NEW a \in 0..(N - 1), NEW c \in Nat,
         c > Len(T[a].items)
  PROVE  Passed(T, N, a + 1, 1) = Passed(T, N, a, c)
<1>1. ASSUME NEW b \in 0..(N - 1), NEW n \in 1..Len(T[b].items)
      PROVE  (b < a + 1 \/ (b = a + 1 /\ n < 1)) <=> (b < a \/ (b = a /\ n < c))
  <2>1. b \in Int /\ a \in Int /\ n >= 1 /\ n \in Int
    BY DEF Typed
  <2>2. b = a => n < c
    <3> SUFFICES ASSUME b = a PROVE n < c
      OBVIOUS
    <3>1. Len(T[a].items) \in Nat
      BY BucketIs
    <3> QED
      BY <3>1
  <2> QED
    BY <2>1, <2>2
<1> QED
  BY <1>1 DEF Passed

\* ... at an entry, which has a key of its own, ...
LEMMA PassedOne ==
  ASSUME NEW T, NEW N, Typed(T, N), WellPlaced(T, N), NEW a \in 0..(N - 1),
         NEW c \in 1..Len(T[a].items)
  PROVE  LET e == T[a].items[c]
         IN  /\ e \in Entries
             /\ Passed(T, N, a, c + 1) = Passed(T, N, a, c) \cup {e}
             /\ \A f \in Passed(T, N, a, c) : f.key # e.key
<1> DEFINE e == T[a].items[c]
<1>1. e \in Entries /\ c \in Nat
  BY BucketIs
<1>2. ASSUME NEW f
      PROVE  f \in Passed(T, N, a, c + 1) <=> f \in Passed(T, N, a, c) \/ f = e
  <2>1. \A b \in 0..(N - 1) : \A n \in 1..Len(T[b].items) :
          (b < a \/ (b = a /\ n < c + 1)) <=> (b < a \/ (b = a /\ n < c) \/ (b = a /\ n = c))
    BY <1>1
  <2> QED
    BY <1>1, <2>1 DEF Passed
<1>3. ASSUME NEW f \in Passed(T, N, a, c)
      PROVE  f.key # e.key
  <2>1. PICK b \in 0..(N - 1) : \E n \in 1..Len(T[b].items) :
               (b < a \/ (b = a /\ n < c)) /\ f = T[b].items[n]
    BY DEF Passed
  <2>2. PICK n \in 1..Len(T[b].items) : (b < a \/ (b = a /\ n < c)) /\ f = T[b].items[n]
    BY <2>1
  <2> SUFFICES ASSUME f.key = e.key PROVE FALSE
    OBVIOUS
  <2>3. b = a
    BY <2>2, Placed
  <2>4. n = c
    BY <2>2, <2>3, Placed
  <2> QED
    BY <2>2, <2>3, <2>4, <1>1
<1> QED
  BY <1>1, <1>2, <1>3

\* ... and at the end.
LEMMA PassedAll ==
  ASSUME NEW T, NEW N, Typed(T, N), NEW c
  PROVE  Passed(T, N, N, c) = Held(T)
<1>1. \A b \in 0..(N - 1) : b < N
  BY DEF Typed
<1>2. \A b \in 0..(N - 1) : \A n \in 1..Len(T[b].items) : T[b].items[n] \in Entries
  BY BucketIs
<1>3. ASSUME NEW e PROVE e \in Held(T) <=> e \in Passed(T, N, N, c)
  BY <1>1, <1>2, HeldIs DEF Passed
<1> QED
  BY <1>3

-----------------------------------------------------------------------------
(* The invariant *)

Stored == {k \in Key : Lookup(k) # None}

Inv ==
  /\ TypeOK /\ Findable /\ CopiedSoFar
  /\ IsFiniteSet(Stored) /\ SizeIsCount

\* No lookup changes.
Same == \A k \in Key : Lookup(k)' = Lookup(k)

\* The invariant by what it says of the tables.
LEMMA Facts ==
  ASSUME Inv
  PROVE  /\ Typed(buckets, bucket_count) /\ WellPlaced(buckets, bucket_count)
         /\ bucket_count \in Nat \ {0} /\ 2 * bucket_count \in Nat \ {0}
         /\ i \in 0..bucket_count /\ j \in Nat \ {0} /\ size \in Nat /\ oom \in 0..OomBudget
         /\ pc = "rehash" =>
              /\ Typed(new_buckets, 2 * bucket_count)
              /\ WellPlaced(new_buckets, 2 * bucket_count)
              /\ Held(new_buckets) = Passed(buckets, bucket_count, i, j)
         /\ pc # "idle" => entry \in Entries /\ entry.key \in Key /\ entry.value \in Val
                           /\ entry = Entry(entry.key, entry.value)
<1>1. /\ Typed(buckets, bucket_count)
      /\ bucket_count \in Nat \ {0} /\ 2 * bucket_count \in Nat \ {0}
      /\ i \in 0..bucket_count /\ j \in Nat \ {0} /\ size \in Nat /\ oom \in 0..OomBudget
      /\ pc = "rehash" => Typed(new_buckets, 2 * bucket_count)
      /\ pc # "idle" => entry \in Entries
  BY DEF Inv, TypeOK, Typed
<1>2. pc = "rehash" => Held(new_buckets) = Passed(buckets, bucket_count, i, j)
  <2>1. i \in Nat /\ j \in Nat
    BY <1>1
  <2> QED
    BY <1>1, <2>1, PassedIs DEF Inv, CopiedSoFar
<1>3. \A e \in Entries : e.key \in Key /\ e.value \in Val /\ e = Entry(e.key, e.value)
  BY DEF Entries, Entry
<1> QED
  BY <1>1, <1>2, <1>3 DEF Inv, Findable

\* The conditions under which a step ends in the invariant.
LEMMA Establish ==
  ASSUME NEW T, NEW N, Typed(T, N), WellPlaced(T, N), buckets' = T, bucket_count' = N,
         size' \in Nat, oom' \in 0..OomBudget, answer' \in {"true", "false", None} \cup Val,
         i' \in 0..N, j' \in Nat \ {0}, pc' \in {"idle", "rehash", "insert"},
         IF pc' = "idle" THEN entry' = NoEntry ELSE entry' \in Entries,
         IF pc' = "rehash"
         THEN /\ Typed(new_buckets', 2 * N) /\ WellPlaced(new_buckets', 2 * N)
              /\ Held(new_buckets') = Passed(T, N, i', j')
         ELSE new_buckets' \in [0..(0 - 1) -> Arrays(Entries)],
         IsFiniteSet(Stored'), size' = Cardinality(Stored')
  PROVE  Inv'
<1>1. N \in Nat \ {0}
  BY DEF Typed
<1>2. new_buckets' \in [0..((IF pc' = "rehash" THEN 2 * N ELSE 0) - 1) -> Arrays(Entries)]
  <2>1. CASE pc' = "rehash"
    BY <2>1 DEF Typed
  <2>2. CASE pc' # "rehash"
    BY <2>2
  <2> QED
    BY <2>1, <2>2
<1>3. TypeOK'
  BY <1>1, <1>2 DEF TypeOK, Typed
<1>4. Findable'
  BY DEF Findable
<1>5. CopiedSoFar'
  <2>1. i' \in Nat /\ j' \in Nat
    BY <1>1
  <2> QED
    BY <2>1, PassedIs DEF CopiedSoFar
<1>6. SizeIsCount'
  BY DEF SizeIsCount, Stored
<1> QED
  BY <1>3, <1>4, <1>5, <1>6 DEF Inv

\* A step that changes no lookup leaves the set of stored keys alone.
LEMMA SameStored ==
  ASSUME Same PROVE Stored' = Stored
BY DEF Same, Stored


\* The empty map.
LEMMA InitInv == Init => Inv /\ \A k \in Key : Lookup(k) = None
<1> SUFFICES ASSUME Init PROVE Inv /\ \A k \in Key : Lookup(k) = None
  OBVIOUS
<1>1. FirstCount \in Nat \ {0} /\ OomBudget \in Nat
  BY HashMapAssumption
<1>2. /\ Typed(buckets, bucket_count) /\ WellPlaced(buckets, bucket_count)
      /\ Held(buckets) = {}
  BY <1>1, NewTable DEF Init
<1>3. \A k \in Key : Lookup(k) = None
  BY <1>2, LookupNone DEF Lookup
<1>4. Stored = {}
  BY <1>3 DEF Stored
<1>5. IsFiniteSet(Stored) /\ SizeIsCount
  BY <1>4, FS_EmptySet DEF Init, SizeIsCount, Stored
<1>6. TypeOK
  BY <1>1, <1>2, NoTableIs DEF Init, TypeOK, Typed
<1>7. Findable /\ CopiedSoFar
  BY <1>2 DEF Init, Findable, CopiedSoFar
<1> QED
  BY <1>3, <1>5, <1>6, <1>7 DEF Inv

\* A step that leaves the table and the size changes no lookup.
LEMMA TableKept ==
  ASSUME Inv, UNCHANGED <<buckets, bucket_count, size>>
  PROVE  Same /\ IsFiniteSet(Stored') /\ size' = Cardinality(Stored')
<1>1. Same
  BY DEF Same, Lookup
<1> QED
  BY <1>1, SameStored DEF Inv, SizeIsCount, Stored

\* A put starts: the entry is remembered, the table stays.
LEMMA PutStep ==
  ASSUME Inv, NEW k \in Key, NEW v \in Val, Put(k, v)
  PROVE  Inv' /\ Same
<1> USE Facts
<1>1. Same /\ IsFiniteSet(Stored') /\ size' = Cardinality(Stored')
  BY TableKept DEF Put
<1>2. /\ buckets' = buckets /\ bucket_count' = bucket_count /\ size' = size
      /\ answer' = answer /\ i' = 0 /\ j' = 1 /\ entry' = Entry(k, v) /\ pc = "idle"
      /\ \/ pc' = "insert" /\ new_buckets' = new_buckets
         \/ pc' = "rehash" /\ new_buckets' = Table(2 * bucket_count)
      /\ oom' \in {oom, oom + 1} /\ (oom' = oom \/ oom < OomBudget)
  BY DEF Put, Fail
<1>3. oom' \in 0..OomBudget
  BY <1>2, HashMapAssumption
<1>4. entry' \in Entries /\ i' \in 0..bucket_count /\ j' \in Nat \ {0}
  BY <1>2 DEF Entry, Entries
<1>5. answer' \in {"true", "false", None} \cup Val
  BY <1>2 DEF Inv, TypeOK
<1>6. CASE pc' = "insert" /\ new_buckets' = new_buckets
  <2>1. new_buckets' \in [0..(0 - 1) -> Arrays(Entries)]
    BY <1>2, <1>6 DEF Inv, TypeOK
  <2> QED
    BY <1>1, <1>2, <1>3, <1>4, <1>5, <1>6, <2>1, Establish
<1>7. CASE pc' = "rehash" /\ new_buckets' = Table(2 * bucket_count)
  <2>1. /\ Typed(new_buckets', 2 * bucket_count)
        /\ WellPlaced(new_buckets', 2 * bucket_count)
        /\ Held(new_buckets') = {}
    BY <1>7, NewTable
  <2>2. Passed(buckets, bucket_count, i', j') = {}
    BY <1>2, PassedNone
  <2> QED
    BY <1>1, <1>2, <1>3, <1>4, <1>5, <1>7, <2>1, <2>2, Establish
<1> QED
  BY <1>2, <1>6, <1>7

\* A step of the rehash leaves the old table alone.
LEMMA CopyStep ==
  ASSUME Inv, Copy
  PROVE  Inv' /\ Same
<1> USE Facts
<1> DEFINE items == buckets[i].items
           e == items[j]
           b == Index(e.key, 2 * bucket_count)
<1>1. pc = "rehash" /\ i \in 0..(bucket_count - 1)
      /\ size' = size /\ entry' = entry /\ answer' = answer
  BY DEF Copy
<1>2. answer' \in {"true", "false", None} \cup Val /\ entry' \in Entries
      /\ Len(items) \in Nat
  BY <1>1, BucketIs DEF Inv, TypeOK
<1>3. CASE /\ j > Len(items) /\ i' = i + 1 /\ j' = 1
           /\ UNCHANGED <<buckets, bucket_count, new_buckets, pc, oom>>
  <2>1. Same /\ IsFiniteSet(Stored') /\ size' = Cardinality(Stored')
    BY <1>1, <1>3, TableKept
  <2>2. Held(new_buckets') = Passed(buckets, bucket_count, i', j')
    BY <1>1, <1>3, PassedNext
  <2>3. i' \in 0..bucket_count
    BY <1>1, <1>3
  <2> QED
    BY <1>1, <1>2, <1>3, <2>1, <2>2, <2>3, Establish
<1>4. CASE /\ j <= Len(items)
           /\ new_buckets' = [new_buckets EXCEPT ![b] = Pushed(@, e)]
           /\ j' = j + 1
           /\ UNCHANGED <<buckets, bucket_count, i, pc, oom>>
  <2>1. Same /\ IsFiniteSet(Stored') /\ size' = Cardinality(Stored')
    BY <1>1, <1>4, TableKept
  <2>2. j \in 1..Len(items)
    BY <1>2, <1>4
  <2>3. /\ e \in Entries
        /\ Passed(buckets, bucket_count, i, j + 1) = Passed(buckets, bucket_count, i, j) \cup {e}
        /\ \A f \in Held(new_buckets) : f.key # e.key
    <3>1. /\ Typed(buckets, bucket_count) /\ WellPlaced(buckets, bucket_count)
          /\ Held(new_buckets) = Passed(buckets, bucket_count, i, j)
      BY <1>1
    <3>2. i \in 0..(bucket_count - 1) /\ j \in 1..Len(buckets[i].items)
      BY <1>1, <2>2
    <3>3. /\ e \in Entries
          /\ Passed(buckets, bucket_count, i, j + 1) = Passed(buckets, bucket_count, i, j) \cup {e}
          /\ \A f \in Passed(buckets, bucket_count, i, j) : f.key # e.key
      BY ONLY <3>1, <3>2, PassedOne
    <3> QED
      BY ONLY <3>1, <3>3
  <2>4. /\ Typed(new_buckets', 2 * bucket_count)
        /\ WellPlaced(new_buckets', 2 * bucket_count)
        /\ Held(new_buckets') = Held(new_buckets) \cup {e}
    BY <1>1, <1>4, <2>3, PushHeld
  <2>5. i' = i /\ j' = j + 1 /\ j' \in Nat \ {0}
    BY <1>4
  <2>6. Held(new_buckets') = Passed(buckets, bucket_count, i', j')
    BY <1>1, <2>3, <2>4, <2>5
  <2> QED
    BY <1>1, <1>2, <1>4, <2>1, <2>4, <2>5, <2>6, Establish
<1>5. CASE GiveUp
  <2>1. Same /\ IsFiniteSet(Stored') /\ size' = Cardinality(Stored')
    BY <1>1, <1>5, TableKept DEF GiveUp
  <2>2. oom' \in 0..OomBudget
    BY <1>5, HashMapAssumption DEF GiveUp, Fail
  <2>3. new_buckets' \in [0..(0 - 1) -> Arrays(Entries)]
    BY <1>5, NoTableIs DEF GiveUp, Insertion
  <2> QED
    BY <1>1, <1>2, <1>5, <2>1, <2>2, <2>3, Establish DEF GiveUp, Insertion
<1> QED
  BY <1>3, <1>4, <1>5 DEF Copy, NextBucket, NewIndex

\* The new table holds the same entries.
LEMMA SwapStep ==
  ASSUME Inv, Swap
  PROVE  Inv' /\ Same
<1> USE Facts
<1>1. /\ pc = "rehash" /\ i = bucket_count /\ buckets' = new_buckets
      /\ bucket_count' = 2 * bucket_count /\ pc' = "insert" /\ new_buckets' = NoTable
      /\ i' = 0 /\ j' = 1 /\ size' = size /\ entry' = entry /\ answer' = answer /\ oom' = oom
  BY DEF Swap, Insertion
<1>2. Held(new_buckets) = Held(buckets)
  BY <1>1, PassedAll
<1>3. Same
  <2> SUFFICES ASSUME NEW k \in Key PROVE Lookup(k)' = Lookup(k)
    BY DEF Same
  <2>1. LookupIn(new_buckets, 2 * bucket_count, k) = LookupIn(buckets, bucket_count, k)
    <3>1. /\ Typed(new_buckets, 2 * bucket_count) /\ WellPlaced(new_buckets, 2 * bucket_count)
          /\ \A f \in Entries : f.key = k => (f \in Held(new_buckets) <=> f \in Held(buckets))
      BY <1>1, <1>2
    <3> QED
      BY <3>1, SameLookup
  <2> QED
    BY <1>1, <2>1 DEF Lookup
<1>4. IsFiniteSet(Stored') /\ size' = Cardinality(Stored')
  BY <1>1, <1>3, SameStored DEF Inv, SizeIsCount, Stored
<1>5. answer' \in {"true", "false", None} \cup Val /\ entry' \in Entries
      /\ new_buckets' \in [0..(0 - 1) -> Arrays(Entries)]
  BY <1>1, NoTableIs DEF Inv, TypeOK
<1>6. i' \in 0..(2 * bucket_count) /\ j' \in Nat \ {0}
  BY <1>1
<1> QED
  BY <1>1, <1>3, <1>4, <1>5, <1>6, Establish

\* The entry is put over the value of its key, at the end, or not at all.
LEMMA InsertStep ==
  ASSUME Inv, Insert
  PROVE  /\ Inv'
         /\ entry' = NoEntry /\ pc # "idle"
         /\ \/ answer' = "false" /\ Same
            \/ /\ answer' = "true"
               /\ \A q \in Key : Lookup(q)' = IF q = entry.key THEN entry.value ELSE Lookup(q)
<1> USE Facts
<1> DEFINE k == entry.key
           v == entry.value
           b == Index(k, bucket_count)
           n == First(Matches(k))
<1>1. /\ pc = "insert" /\ pc' = "idle" /\ entry' = NoEntry
      /\ bucket_count' = bucket_count /\ new_buckets' = new_buckets /\ i' = i /\ j' = j
      /\ k \in Key /\ v \in Val /\ entry \in Entries /\ entry = Entry(k, v)
  BY DEF Insert
<1>2. new_buckets' \in [0..(0 - 1) -> Arrays(Entries)] /\ v # None
  BY <1>1, HashMapAssumption DEF Inv, TypeOK
<1>3. b \in 0..(bucket_count - 1)
  BY <1>1, MatchPlace
<1>4. Matches(k) = {} <=> Lookup(k) = None
  BY <1>1, LookupNone DEF Matches, Lookup
<1>5. Matches(k) = {} => \A f \in Held(buckets) : f.key # k
  BY <1>1, LookupNone DEF Matches
<1>6. IsFiniteSet(Stored) /\ size = Cardinality(Stored)
      /\ (k \in Stored <=> Matches(k) # {})
  BY <1>1, <1>4 DEF Inv, SizeIsCount, Stored
<1>7. ASSUME NEW T, Typed(T, bucket_count), WellPlaced(T, bucket_count), buckets' = T,
             Entry(k, v) \in Held(T),
             \A f : f.key # k => (f \in Held(T) <=> f \in Held(buckets))
      PROVE  /\ \A q \in Key : Lookup(q)' = IF q = k THEN v ELSE Lookup(q)
             /\ Stored' = Stored \cup {k}
  <2>1. LookupIn(T, bucket_count, k) = v
    <3>1. Entry(k, v).key = k /\ Entry(k, v).value = v
      BY DEF Entry
    <3> QED
      BY <1>7, <3>1, LookupHeld
  <2>2. ASSUME NEW q \in Key, q # k PROVE Lookup(q)' = Lookup(q)
    <3>1. \A f \in Entries : f.key = q => (f \in Held(T) <=> f \in Held(buckets))
      BY <1>7, <2>2
    <3>2. LookupIn(T, bucket_count, q) = LookupIn(buckets, bucket_count, q)
      BY <1>7, <3>1, SameLookup
    <3> QED
      BY <1>1, <1>7, <3>2 DEF Lookup
  <2>3. \A q \in Key : Lookup(q)' = IF q = k THEN v ELSE Lookup(q)
    <3>1. \A q \in Key : Lookup(q)' = LookupIn(T, bucket_count, q)
      BY <1>1, <1>7 DEF Lookup
    <3> QED
      BY <2>1, <2>2, <3>1
  <2>4. \A q : q \in Stored' <=> q \in Stored \/ q = k
    BY <2>3, <1>1, <1>2 DEF Stored
  <2> QED
    BY <2>3, <2>4
<1>8. CASE /\ Matches(k) # {} /\ Update(b, n)
           /\ answer' = "true" /\ UNCHANGED <<size, oom>>
  <2>1. n \in Matches(k)
    BY <1>1, <1>8, LookupNone DEF Matches
  <2>2. n \in 1..Len(buckets[b].items) /\ buckets[b].items[n].key = k
    BY <1>1, <2>1, MatchPlace DEF Matches
  <2>3. buckets' = [buckets EXCEPT ![b].items[n].value = v]
    BY <1>8 DEF Update
  <2>4. /\ Typed(buckets', bucket_count) /\ WellPlaced(buckets', bucket_count)
        /\ Entry(k, v) \in Held(buckets')
        /\ \A f : f.key # k => (f \in Held(buckets') <=> f \in Held(buckets))
    <3> HIDE DEF n, b, v
    <3> QED
      BY <1>1, <1>3, <2>2, <2>3, UpdateHeld
  <2>5. /\ \A q \in Key : Lookup(q)' = IF q = k THEN v ELSE Lookup(q)
        /\ Stored' = Stored \cup {k}
    BY <1>7, <2>4
  <2>6. Stored' = Stored
    BY <2>5, <1>6, <1>8
  <2>7. Inv'
    BY <1>1, <1>2, <1>6, <1>8, <2>4, <2>6, Establish
  <2> QED
    BY <1>1, <1>8, <2>5, <2>7
<1>9. CASE /\ Matches(k) = {}
           /\ buckets' = [buckets EXCEPT ![b] = Pushed(@, entry)]
           /\ size' = size + 1
           /\ answer' = "true" /\ UNCHANGED oom
  <2>1. /\ Typed(buckets', bucket_count) /\ WellPlaced(buckets', bucket_count)
        /\ Held(buckets') = Held(buckets) \cup {entry}
    BY <1>1, <1>5, <1>9, PushHeld
  <2>2. Entry(k, v) \in Held(buckets')
        /\ \A f : f.key # k => (f \in Held(buckets') <=> f \in Held(buckets))
    BY <1>1, <2>1
  <2>3. /\ \A q \in Key : Lookup(q)' = IF q = k THEN v ELSE Lookup(q)
        /\ Stored' = Stored \cup {k}
    BY <1>7, <2>1, <2>2
  <2>4. IsFiniteSet(Stored') /\ size' = Cardinality(Stored') /\ size' \in Nat
    <3>1. IsFiniteSet(Stored \cup {k})
          /\ Cardinality(Stored \cup {k}) = Cardinality(Stored) + 1
      BY <1>6, <1>9, FS_AddElement
    <3> QED
      BY <3>1, <2>3, <1>6, <1>9
  <2>5. Inv'
    BY <1>1, <1>2, <1>9, <2>1, <2>4, Establish
  <2> QED
    BY <1>1, <1>9, <2>3, <2>5
<1>10. CASE /\ Matches(k) = {} /\ Fail
            /\ answer' = "false" /\ UNCHANGED <<buckets, size>>
  <2>1. Same /\ IsFiniteSet(Stored') /\ size' = Cardinality(Stored')
    BY <1>1, <1>10, TableKept
  <2>2. oom' \in 0..OomBudget
    BY <1>10, HashMapAssumption DEF Fail
  <2>3. Inv'
    BY <1>1, <1>2, <1>10, <2>1, <2>2, Establish
  <2> QED
    BY <1>1, <1>10, <2>1, <2>3
<1> QED
  BY <1>8, <1>9, <1>10 DEF Insert

\* A lookup changes nothing.
LEMMA GetStep ==
  ASSUME Inv, NEW k \in Key, Get(k)
  PROVE  Inv' /\ Same /\ answer' = Lookup(k) /\ entry' = entry /\ entry = NoEntry
<1> USE Facts
<1>1. /\ answer' = Lookup(k) /\ pc = "idle"
      /\ UNCHANGED <<buckets, bucket_count, size, new_buckets, i, j, pc, entry, oom>>
  BY DEF Get
<1>2. Same /\ IsFiniteSet(Stored') /\ size' = Cardinality(Stored')
  BY <1>1, TableKept
<1>3. Lookup(k) \in {None} \cup Val
  BY LookupNone DEF Lookup
<1>4. entry = NoEntry /\ new_buckets \in [0..(0 - 1) -> Arrays(Entries)]
  BY <1>1 DEF Inv, TypeOK
<1> QED
  BY <1>1, <1>2, <1>3, <1>4, Establish

\* A removal takes the key out.
LEMMA RemoveStep ==
  ASSUME Inv, NEW k \in Key, Remove(k)
  PROVE  /\ Inv' /\ entry' = entry /\ entry = NoEntry
         /\ answer' = IF Lookup(k) # None THEN "true" ELSE "false"
         /\ \A q \in Key : Lookup(q)' = IF q = k THEN None ELSE Lookup(q)
<1> USE Facts
<1> DEFINE b == Index(k, bucket_count)
           n == First(Matches(k))
<1>1. pc = "idle" /\ UNCHANGED <<bucket_count, new_buckets, i, j, pc, entry, oom>>
  BY DEF Remove
<1>2. entry = NoEntry /\ new_buckets \in [0..(0 - 1) -> Arrays(Entries)]
  BY <1>1 DEF Inv, TypeOK
<1>3. b \in 0..(bucket_count - 1)
  BY MatchPlace
<1>4. Matches(k) = {} <=> Lookup(k) = None
  BY LookupNone DEF Matches, Lookup
<1>5. IsFiniteSet(Stored) /\ size = Cardinality(Stored)
      /\ (k \in Stored <=> Matches(k) # {})
  BY <1>4 DEF Inv, SizeIsCount, Stored
<1>6. CASE /\ Matches(k) # {}
           /\ buckets' = [buckets EXCEPT ![b] = Removed(@, n)]
           /\ size' = size - 1 /\ answer' = "true"
  <2>1. n \in Matches(k)
    BY <1>6, LookupNone DEF Matches
  <2>2. n \in 1..Len(buckets[b].items) /\ buckets[b].items[n].key = k
    BY <2>1, MatchPlace DEF Matches
  <2>3. /\ Typed(buckets', bucket_count) /\ WellPlaced(buckets', bucket_count)
        /\ \A f \in Held(buckets') : f.key # k
        /\ \A f : f.key # k => (f \in Held(buckets') <=> f \in Held(buckets))
    <3>1. buckets' = [buckets EXCEPT ![b] = Removed(@, n)]
      BY <1>6
    <3>2. Typed(buckets, bucket_count) /\ WellPlaced(buckets, bucket_count)
      OBVIOUS
    <3> HIDE DEF n, b
    <3> QED
      BY ONLY <1>3, <2>2, <3>1, <3>2, RemoveHeld
  <2>4. Lookup(k)' = None
    BY <1>1, <2>3, LookupNone DEF Lookup
  <2>5. ASSUME NEW q \in Key, q # k PROVE Lookup(q)' = Lookup(q)
    <3>1. \A f \in Entries : f.key = q => (f \in Held(buckets') <=> f \in Held(buckets))
      BY <2>3, <2>5
    <3>2. LookupIn(buckets', bucket_count, q) = LookupIn(buckets, bucket_count, q)
      BY <2>3, <3>1, SameLookup
    <3> QED
      BY <1>1, <3>2 DEF Lookup
  <2>6. \A q \in Key : Lookup(q)' = IF q = k THEN None ELSE Lookup(q)
    BY <2>4, <2>5
  <2>7. Stored' = Stored \ {k}
    BY <2>6 DEF Stored
  <2>8. IsFiniteSet(Stored') /\ size' = Cardinality(Stored') /\ size' \in Nat
    <3>1. IsFiniteSet(Stored \ {k}) /\ Cardinality(Stored \ {k}) = Cardinality(Stored) - 1
      BY <1>5, <1>6, FS_RemoveElement
    <3>2. Cardinality(Stored \ {k}) \in Nat
      BY <3>1, FS_CardinalityType
    <3> QED
      BY <3>1, <3>2, <2>7, <1>5, <1>6
  <2>9. Inv'
    BY <1>1, <1>2, <1>6, <2>3, <2>8, Establish
  <2> QED
    BY <1>1, <1>2, <1>4, <1>6, <2>6, <2>9
<1>7. CASE Matches(k) = {} /\ answer' = "false" /\ UNCHANGED <<buckets, size>>
  <2>1. Same /\ IsFiniteSet(Stored') /\ size' = Cardinality(Stored')
    BY <1>1, <1>7, TableKept
  <2>2. \A q \in Key : Lookup(q)' = IF q = k THEN None ELSE Lookup(q)
    BY <2>1, <1>4, <1>7 DEF Same
  <2>3. Inv'
    BY <1>1, <1>2, <1>7, <2>1, Establish
  <2> QED
    BY <1>1, <1>2, <1>4, <1>7, <2>2, <2>3
<1> QED
  BY <1>6, <1>7 DEF Remove

\* Nothing happens.
LEMMA StutterStep ==
  ASSUME Inv, UNCHANGED vars
  PROVE  Inv' /\ Same
<1>1. Same /\ IsFiniteSet(Stored') /\ size' = Cardinality(Stored')
  BY TableKept DEF vars
<1>2. TypeOK' /\ Findable' /\ CopiedSoFar'
  BY DEF vars, Inv, TypeOK, Findable, CopiedSoFar
<1> QED
  BY <1>1, <1>2 DEF Inv, SizeIsCount, Stored

\* Every step preserves the invariant.
LEMMA NextInv == Inv /\ [Next]_vars => Inv'
BY PutStep, CopyStep, SwapStep, InsertStep, GetStep, RemoveStep, StutterStep DEF Next, Step

\* The invariant of the tables holds.
THEOREM InvHolds == Spec => []Inv
BY InitInv, NextInv, PTL DEF Spec

\* Every variable keeps its type; the new table is there while it is filled.
THEOREM TypeCorrect == Spec => []TypeOK
<1>1. Inv => TypeOK
  BY DEF Inv
<1> QED
  BY <1>1, InvHolds, PTL

\* A lookup finds every entry, in the old table and in the new one.
THEOREM EntriesAreFindable == Spec => []Findable
<1>1. Inv => Findable
  BY DEF Inv
<1> QED
  BY <1>1, InvHolds, PTL

\* size is the number of keys.
THEOREM SizeIsRight == Spec => []SizeIsCount
<1>1. Inv => SizeIsCount
  BY DEF Inv
<1> QED
  BY <1>1, InvHolds, PTL

\* A rehash has copied what its cursor has passed, and nothing else.
THEOREM RehashCopies == Spec => []CopiedSoFar
<1>1. Inv => CopiedSoFar
  BY DEF Inv
<1> QED
  BY <1>1, InvHolds, PTL

-----------------------------------------------------------------------------
(* The load factor *)

\* What has room for more has room for fewer.
LEMMA Fewer ==
  ASSUME NEW s \in Int, NEW t \in Int, t <= s, NEW c \in Int
  PROVE  4 * s <= 3 * c => 4 * t <= 3 * c
OBVIOUS

\* While nothing has failed the map has room for the entry about to go in.
LoadInv ==
  oom = 0 =>
    /\ 2 * bucket_count <= MaxBuckets => 4 * size <= 3 * bucket_count
    /\ pc = "insert" /\ 2 * bucket_count <= MaxBuckets => 4 * (size + 1) <= 3 * bucket_count
    /\ pc = "rehash" => 2 * bucket_count <= MaxBuckets

\* Every step preserves it.
LEMMA LoadStep == Inv /\ LoadInv /\ [Next]_vars => LoadInv'
<1> SUFFICES ASSUME Inv, LoadInv, [Next]_vars PROVE LoadInv'
  OBVIOUS
<1>1. bucket_count \in Nat \ {0} /\ size \in Nat /\ oom \in Nat /\ MaxBuckets \in Nat
  BY Facts, HashMapAssumption
<1>2. ASSUME NEW k \in Key, NEW v \in Val, Put(k, v) PROVE LoadInv'
  <2>1. /\ bucket_count' = bucket_count /\ size' = size
        /\ \/ ~Crowded /\ pc' = "insert" /\ oom' = oom
           \/ pc' = "rehash" /\ oom' = oom /\ 2 * bucket_count <= MaxBuckets
           \/ pc' = "insert" /\ oom' = oom /\ 2 * bucket_count > MaxBuckets
           \/ oom' = oom + 1
    BY <1>2 DEF Put, Fail
  <2>2. ~Crowded => 4 * (size + 1) <= 3 * bucket_count
    BY <1>1 DEF Crowded
  <2> QED
    BY <1>1, <2>1, <2>2 DEF LoadInv
<1>3. CASE Copy
  <2>1. /\ bucket_count' = bucket_count /\ size' = size /\ pc = "rehash"
        /\ \/ pc' = "rehash" /\ oom' = oom
           \/ oom' = oom + 1
    BY <1>3 DEF Copy, GiveUp, Fail
  <2> QED
    BY <1>1, <2>1 DEF LoadInv
<1>4. CASE Swap
  <2>1. /\ bucket_count' = 2 * bucket_count /\ size' = size /\ pc = "rehash"
        /\ pc' = "insert" /\ oom' = oom
    BY <1>4 DEF Swap, Insertion
  <2>2. oom = 0 => 4 * size <= 3 * bucket_count
    BY <2>1 DEF LoadInv
  <2>3. oom = 0 => 4 * (size + 1) <= 3 * (2 * bucket_count)
    BY <1>1, <2>2
  <2> QED
    BY <1>1, <2>1, <2>3 DEF LoadInv
<1>5. CASE Insert
  <2>1. /\ bucket_count' = bucket_count /\ pc = "insert" /\ pc' = "idle"
        /\ (size' = size \/ size' = size + 1) /\ (oom' = oom \/ oom' = oom + 1)
    BY <1>5 DEF Insert, Fail
  <2>2. oom' = 0 => oom = 0
    BY <1>1, <2>1
  <2>3. oom = 0 /\ 2 * bucket_count <= MaxBuckets => 4 * (size + 1) <= 3 * bucket_count
    BY <2>1 DEF LoadInv
  <2>4. size' \in Int /\ size' <= size + 1
    BY <1>1, <2>1
  <2>5. 4 * (size + 1) <= 3 * bucket_count => 4 * size' <= 3 * bucket_count
    <3>1. size + 1 \in Int /\ bucket_count \in Int
      BY <1>1
    <3> QED
      BY ONLY <3>1, <2>4, Fewer
  <2>6. oom' = 0 /\ 2 * bucket_count <= MaxBuckets => 4 * size' <= 3 * bucket_count
    BY <2>2, <2>3, <2>5
  <2> QED
    BY <2>1, <2>6 DEF LoadInv
<1>6. ASSUME NEW k \in Key, Get(k) \/ Remove(k) PROVE LoadInv'
  <2>1. /\ bucket_count' = bucket_count /\ pc' = "idle"
        /\ (size' = size \/ size' = size - 1) /\ oom' = oom
    BY <1>6 DEF Get, Remove
  <2>2. oom = 0 /\ 2 * bucket_count <= MaxBuckets => 4 * size <= 3 * bucket_count
    BY DEF LoadInv
  <2>5. size' \in Int /\ size' <= size
    BY <1>1, <2>1
  <2>3. 4 * size <= 3 * bucket_count => 4 * size' <= 3 * bucket_count
    <3>1. size \in Int /\ bucket_count \in Int
      BY <1>1
    <3> QED
      BY ONLY <3>1, <2>5, Fewer
  <2>4. oom' = 0 /\ 2 * bucket_count <= MaxBuckets => 4 * size' <= 3 * bucket_count
    BY <2>1, <2>2, <2>3
  <2> QED
    BY <2>1, <2>4 DEF LoadInv
<1>7. CASE UNCHANGED vars
  BY <1>7 DEF vars, LoadInv
<1> QED
  BY <1>2, <1>3, <1>4, <1>5, <1>6, <1>7 DEF Next, Step

\* The map is at most three quarters full while allocations succeed and the
\* allocator has a larger table.
THEOREM LoadFactor == Spec => []LoadBounded
<1>1. Init => LoadInv
  BY HashMapAssumption DEF Init, LoadInv
<1>2. LoadInv => LoadBounded
  BY DEF LoadInv, LoadBounded
<1> QED
  BY <1>1, <1>2, LoadStep, InvHolds, PTL DEF Spec

-----------------------------------------------------------------------------
(* The refinement *)

\* Every step of the map is a step of the partial function or a stutter.
LEMMA Simulates == Inv /\ [Next]_vars => [Map!Next]_<<[k \in Key |-> Lookup(k)], entry, answer>>
<1> SUFFICES ASSUME Inv, [Next]_vars
             PROVE  [Map!Next]_<<[k \in Key |-> Lookup(k)], entry, answer>>
  OBVIOUS
<1> USE Facts
<1> DEFINE map == [k \in Key |-> Lookup(k)]
<1>1. Same => map' = map
  BY DEF Same
<1>2. ASSUME NEW k \in Key, NEW v \in Val, Put(k, v)
      PROVE  Map!Put(k, v)
  <2>1. /\ entry = NoEntry /\ entry' = Entry(k, v) /\ answer' = answer /\ Same
    BY <1>2, PutStep DEF Put, Inv, TypeOK
  <2> QED
    BY <2>1, <1>1 DEF Map!Put, Map!NoRequest, NoEntry, Entry
<1>3. CASE Copy \/ Swap
  <2>1. Same /\ entry' = entry /\ answer' = answer
    BY <1>3, CopyStep, SwapStep DEF Copy, Swap
  <2> QED
    BY <2>1, <1>1
<1>4. CASE Insert
  <2>1. /\ entry' = NoEntry /\ entry \in Entries /\ pc # "idle"
        /\ \/ answer' = "false" /\ Same
           \/ /\ answer' = "true"
              /\ \A q \in Key : Lookup(q)' = IF q = entry.key THEN entry.value ELSE Lookup(q)
    BY <1>4, InsertStep
  <2>2. entry # NoEntry
    BY <2>1, HashMapAssumption DEF Entries, NoEntry, Entry
  <2>3. (\A q \in Key : Lookup(q)' = IF q = entry.key THEN entry.value ELSE Lookup(q))
          => map' = [map EXCEPT ![entry.key] = entry.value]
    OBVIOUS
  <2>4. Map!Insert
    BY <2>1, <2>2, <2>3, <1>1 DEF Map!Insert, Map!NoRequest, NoEntry, Entry
  <2> QED
    BY <2>4 DEF Map!Next
<1>5. ASSUME NEW k \in Key, Get(k) PROVE Map!Get(k)
  <2>1. Same /\ answer' = Lookup(k) /\ entry' = entry /\ entry = NoEntry
    BY <1>5, GetStep
  <2> QED
    BY <2>1, <1>1 DEF Map!Get, Map!NoRequest, NoEntry, Entry
<1>6. ASSUME NEW k \in Key, Remove(k) PROVE Map!Remove(k)
  <2>1. /\ entry' = entry /\ entry = NoEntry
        /\ answer' = IF Lookup(k) # None THEN "true" ELSE "false"
        /\ \A q \in Key : Lookup(q)' = IF q = k THEN None ELSE Lookup(q)
    BY <1>6, RemoveStep
  <2>2. map' = [map EXCEPT ![k] = None]
    BY <2>1
  <2> QED
    BY <2>1, <2>2 DEF Map!Remove, Map!NoRequest, NoEntry, Entry
<1>7. CASE UNCHANGED vars
  <2>1. Same /\ entry' = entry /\ answer' = answer
    BY <1>7, StutterStep DEF vars
  <2> QED
    BY <2>1, <1>1
<1> QED
  BY <1>2, <1>3, <1>4, <1>5, <1>6, <1>7 DEF Next, Step, Map!Next

\* The hash map implements the partial function: what a put stored is what a
\* get returns until a put or a removal of that key, whatever is rehashed or
\* refused in between.
THEOREM ImplementsPartialMap == Spec => IsPartialMap
<1>1. Init => Map!Init
  BY InitInv DEF Init, Map!Init, Map!NoRequest, NoEntry, Entry
<1> QED
  BY <1>1, InvHolds, Simulates, PTL DEF Spec, IsPartialMap, Map!Spec
=============================================================================
