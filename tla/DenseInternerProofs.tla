------------------------ MODULE DenseInternerProofs ------------------------
(***************************************************************************)
(* The properties of the interner, for every set of strings, every first   *)
(* capacity and every failure of a put or a push.  Their conjunction is    *)
(* inductive: the order of the dense array is needed to say which string   *)
(* an index names, and the table's faithfulness that a listed result is    *)
(* found.                                                                  *)
(***************************************************************************)
EXTENDS DenseInterner, TLAPS

Records == [key : Slice, meta : Meta, dense_index : Nat]

\* What a call that makes no result leaves alone.
Kept_All == UNCHANGED <<results, hashmap, dense_array, dense_index_count,
                        put_failures, push_failures>>

Inv ==
  /\ TypeOK /\ FiledUnderItsName /\ DenseOrder
  /\ ListedIsFound /\ IndexWithoutPushFailure

\* A push appends: the elements before it stay where they are.
LEMMA PushAppends ==
  ASSUME NEW T, NEW a \in Arrays(T), NEW e \in T
  PROVE  /\ Pushed(a, e) \in Arrays(T)
         /\ Pushed(a, e).items = Append(a.items, e)
         /\ Len(Pushed(a, e).items) = Len(a.items) + 1
         /\ Pushed(a, e).items[Len(a.items) + 1] = e
         /\ \A n \in 1..Len(a.items) : Pushed(a, e).items[n] = a.items[n]
<1>1. a.items \in Seq(T) /\ a.capacity \in Nat
  BY DEF Arrays
<1>2. Grown(a.capacity) \in Nat
  BY <1>1, FirstCapacityAssumption DEF Grown
<1>3. Append(a.items, e) \in Seq(T)
  BY <1>1
<1>4. /\ Pushed(a, e).items = Append(a.items, e)
      /\ Pushed(a, e) \in Arrays(T)
  BY <1>1, <1>2, <1>3 DEF Pushed, Array, Arrays
<1> QED
  BY <1>1, <1>4

\* An index below a count is below every larger one.
LEMMA Below ==
  ASSUME NEW c \in Nat, NEW d \in Nat, d >= c, NEW idx \in 0..(c - 1)
  PROVE  /\ idx + 1 \in 1..c /\ idx < c
         /\ idx \in 0..(d - 1) /\ idx < d
OBVIOUS

\* Nothing is recorded at first.
LEMMA InitInv == Init => Inv
<1> SUFFICES ASSUME Init PROVE Inv
  OBVIOUS
<1>1. Len(results) = 0 /\ Len(dense_array.items) = 0
  BY DEF Init, EmptyArray, Array
<1>2. dense_array \in Arrays(1..Len(results))
  BY DEF Init, EmptyArray, Array, Arrays
<1>3. TypeOK
  BY <1>1, <1>2 DEF Init, TypeOK
<1> QED
  BY <1>1, <1>3, InternerAssumption
  DEF Init, Inv, FiledUnderItsName, DenseOrder, ListedIsFound, IndexWithoutPushFailure

\* What the invariant says of the state a call starts in.
LEMMA Facts ==
  ASSUME Inv
  PROVE  /\ results \in Seq(Records) /\ Len(results) \in Nat
         /\ dense_array \in Arrays(1..Len(results))
         /\ Len(dense_array.items) = dense_index_count
         /\ dense_index_count \in Nat
         /\ \A n \in 1..dense_index_count : dense_array.items[n] \in 1..Len(results)
         /\ \A s \in Slice : hashmap[s] \in 1..Len(results) \/ hashmap[s] = NULL
         /\ NULL \notin 1..Len(results) /\ New \in Nat /\ New # NULL
<1>1. results \in Seq(Records) /\ dense_array \in Arrays(1..Len(results))
  BY DEF Inv, TypeOK, Records
<1>2. Len(results) \in Nat
  BY <1>1
<1>3. dense_array.items \in Seq(1..Len(results))
  BY <1>1 DEF Arrays
<1>4. Len(dense_array.items) = dense_index_count /\ dense_index_count \in Nat
  BY DEF Inv, DenseOrder, TypeOK
<1>5. \A n \in 1..dense_index_count : dense_array.items[n] \in 1..Len(results)
  BY <1>3, <1>4
<1>6. \A s \in Slice : hashmap[s] \in 1..Len(results) \/ hashmap[s] = NULL
  BY DEF Inv, TypeOK
<1> QED
  BY <1>1, <1>2, <1>4, <1>5, <1>6, InternerAssumption DEF New

\* A sequence over a set is one over every larger set.
LEMMA SeqGrows ==
  ASSUME NEW S, NEW T, S \subseteq T, NEW q \in Seq(S)
  PROVE  q \in Seq(T)
OBVIOUS

\* What Made leaves: one more result, filed or not, listed or not.
LEMMA MadeStep ==
  ASSUME Inv, NEW s \in Slice, NEW m \in Meta, Made(s, m)
  PROVE  Inv'
<1> USE Facts
<1>1. /\ results' = Append(results, Result(s, m))
      /\ Result(s, m) \in Records
      /\ results' \in Seq(Records)
      /\ Len(results') = New
      /\ results'[New] = Result(s, m)
      /\ \A r \in 1..Len(results) : results'[r] = results[r]
  BY DEF Made, Kept, Result, Records, New
<1>2. 1..Len(results) \subseteq 1..New /\ New \in 1..New
  BY DEF New
<1>3. \/ hashmap' = [hashmap EXCEPT ![s] = New] /\ put_failures' = put_failures
      \/ hashmap' = hashmap /\ put_failures' = put_failures + 1
  BY DEF Made, Filed, NotFiled
<1>4. put_failures \in Nat /\ push_failures \in Nat /\ put_failures' \in Nat
      /\ (put_failures' = 0 => put_failures = 0 /\ hashmap' = [hashmap EXCEPT ![s] = New])
  BY <1>3 DEF Inv, TypeOK
<1>5. \/ Listed
      \/ /\ dense_array' = dense_array /\ dense_index_count' = dense_index_count
         /\ push_failures' = push_failures + 1 /\ answer' = NULL
  BY DEF Made, NotListed
<1>6. hashmap \in [Slice -> 1..New \cup {NULL}] /\ hashmap' \in [Slice -> 1..New \cup {NULL}]
  <2>1. hashmap \in [Slice -> 1..Len(results) \cup {NULL}]
    BY DEF Inv, TypeOK
  <2>2. hashmap \in [Slice -> 1..New \cup {NULL}]
    BY <2>1, <1>2
  <2> QED
    BY <2>2, <1>2, <1>3
<1>7. \A t \in Slice : t # s => hashmap'[t] = hashmap[t]
  BY <1>3, <1>6
<1>8. hashmap'[s] \in {New, NULL} /\ (put_failures' = 0 => hashmap'[s] = New)
  BY <1>3, <1>4, <1>6 DEF Made
<1>9. dense_array \in Arrays(1..New)
  <2>1. dense_array.items \in Seq(1..Len(results))
    BY DEF Arrays
  <2>2. dense_array.items \in Seq(1..New)
    BY ONLY <2>1, <1>2, SeqGrows
  <2> QED
    BY <2>2 DEF Arrays
<1>10. Listed =>
        /\ dense_array' \in Arrays(1..New)
        /\ Len(dense_array'.items) = dense_index_count + 1
        /\ dense_array'.items[dense_index_count + 1] = New
        /\ \A n \in 1..dense_index_count : dense_array'.items[n] = dense_array.items[n]
        /\ dense_index_count' = dense_index_count + 1
        /\ push_failures' = push_failures /\ answer' = New
  BY <1>9, <1>2, PushAppends DEF Listed
<1>11. TypeOK'
  <2>1. dense_array' \in Arrays(1..New) /\ dense_index_count' \in Nat /\ push_failures' \in Nat
    BY <1>5, <1>9, <1>10, <1>4
  <2>2. answer' \in 1..New \cup {NULL}
    BY <1>5, <1>10, <1>2
  <2> QED
    BY <2>1, <2>2, <1>1, <1>4, <1>6 DEF TypeOK, Records
<1>12. FiledUnderItsName'
  <2> SUFFICES ASSUME NEW t \in Slice, hashmap'[t] # NULL
               PROVE  results'[hashmap'[t]].key = t
    BY DEF FiledUnderItsName
  <2>1. CASE t = s
    BY <2>1, <1>8, <1>1 DEF Result
  <2>2. CASE t # s
    <3>1. hashmap[t] \in 1..Len(results) /\ results[hashmap[t]].key = t
      BY <2>2, <1>7 DEF Inv, FiledUnderItsName
    <3> QED
      BY <3>1, <2>2, <1>1, <1>7
  <2> QED
    BY <2>1, <2>2
<1>13. \A n \in 1..dense_index_count :
         /\ dense_array'.items[n] = dense_array.items[n]
         /\ dense_array.items[n] \in 1..Len(results)
         /\ results'[dense_array'.items[n]] = results[dense_array.items[n]]
  BY <1>5, <1>10, <1>1
<1>14. DenseOrder'
  <2>1. \A n \in 1..dense_index_count : results'[dense_array'.items[n]].dense_index = n - 1
    BY <1>13 DEF Inv, DenseOrder
  <2>2. CASE Listed
    <3>1. results'[dense_array'.items[dense_index_count + 1]].dense_index = dense_index_count
      BY <2>2, <1>10, <1>1 DEF Result
    <3> QED
      BY <3>1, <2>1, <2>2, <1>10 DEF DenseOrder
  <2>3. CASE dense_array' = dense_array /\ dense_index_count' = dense_index_count
    BY <2>1, <2>3 DEF DenseOrder
  <2> QED
    BY <2>2, <2>3, <1>5
<1>15. ListedIsFound'
  <2> SUFFICES ASSUME put_failures' = 0, NEW n \in 1..Len(dense_array'.items)
               PROVE  hashmap'[results'[dense_array'.items[n]].key] = dense_array'.items[n]
    BY DEF ListedIsFound
  <2>1. CASE n \in 1..dense_index_count
    <3> DEFINE r == dense_array.items[n]
    <3>1. hashmap[results[r].key] = r /\ r \in 1..Len(results)
      BY <2>1, <1>4 DEF Inv, ListedIsFound
    <3>2. results[r].key \in Slice
      <4>1. results[r] \in Records
        BY <3>1
      <4> QED
        BY <4>1 DEF Records
    <3>3. hashmap[s] = NULL
      BY DEF Made
    <3>4. results[r].key # s
      BY <3>1, <3>3
    <3>5. hashmap'[results[r].key] = r
      BY <3>1, <3>2, <3>4, <1>7
    <3>6. dense_array'.items[n] = r /\ results'[r] = results[r]
      BY <2>1, <1>13
    <3> QED
      BY <3>5, <3>6
  <2>2. CASE n \notin 1..dense_index_count
    <3>1. Listed /\ n = dense_index_count + 1
      BY <2>2, <1>5, <1>10
    <3> QED
      BY <3>1, <1>10, <1>1, <1>8 DEF Result
  <2> QED
    BY <2>1, <2>2
<1>16. IndexWithoutPushFailure'
  <2>0. Len(dense_array'.items) = dense_index_count'
    BY <1>14 DEF DenseOrder
  <2>a. ASSUME NEW r, NEW t, NEW idx \in 0..(dense_index_count' - 1),
               idx = results'[r].dense_index,
               dense_array'.items[idx + 1] # NULL,
               results'[dense_array'.items[idx + 1]].key = t
        PROVE  (Cstr(results[r].dense_index))' = t
    BY ONLY <2>0, <2>a DEF Cstr, Nth
  <2> SUFFICES ASSUME push_failures' = 0, NEW t \in Slice, hashmap'[t] # NULL
               PROVE  \E idx \in 0..(dense_index_count' - 1) :
                        /\ idx = results'[hashmap'[t]].dense_index
                        /\ dense_array'.items[idx + 1] # NULL
                        /\ results'[dense_array'.items[idx + 1]].key = t
    BY <2>a DEF IndexWithoutPushFailure
  <2>1. Listed /\ push_failures = 0
    BY <1>4, <1>5, <1>10
  <2>2. CASE t = s
    <3>1. hashmap'[t] = New /\ results'[New].dense_index = dense_index_count
          /\ results'[New].key = t
      BY <2>2, <1>8, <1>1 DEF Result
    <3>2. dense_array'.items[dense_index_count + 1] = New /\ New # NULL
          /\ dense_index_count \in 0..(dense_index_count' - 1)
      BY <2>1, <1>10
    <3> QED
      BY <3>1, <3>2
  <2>3. CASE t # s
    <3>1. hashmap'[t] = hashmap[t] /\ hashmap[t] \in 1..Len(results)
          /\ results'[hashmap[t]] = results[hashmap[t]]
      BY <2>3, <1>7, <1>1
    <3>2. PICK idx : idx = results[hashmap[t]].dense_index
      OBVIOUS
    <3>3. Cstr(idx) = t /\ NULL # t
      BY <3>1, <3>2, <2>1, InternerAssumption DEF Inv, IndexWithoutPushFailure
    <3>4. idx < dense_index_count /\ Nth(idx) # NULL /\ results[Nth(idx)].key = t
      BY <3>3 DEF Cstr
    <3>5. idx \in Nat
      <4>1. results[hashmap[t]] \in Records
        BY <3>1
      <4> QED
        BY <4>1, <3>2 DEF Records
    <3>6. Nth(idx) = dense_array.items[idx + 1] /\ idx + 1 \in 1..dense_index_count
          /\ idx \in 0..(dense_index_count' - 1)
      BY <3>4, <3>5, <2>1, <1>10 DEF Nth
    <3>7. /\ dense_array'.items[idx + 1] = Nth(idx)
          /\ results'[Nth(idx)] = results[Nth(idx)]
      BY <3>6, <1>13
    <3> QED
      BY <3>1, <3>2, <3>4, <3>6, <3>7
  <2> QED
    BY <2>2, <2>3
<1> QED
  BY <1>11, <1>12, <1>14, <1>15, <1>16 DEF Inv

\* A call that finds, or has no room, changes no record of what it knows.
LEMMA ReadStep ==
  ASSUME Inv, Kept_All, answer' \in 1..Len(results) \cup {NULL}
  PROVE  Inv'
<1>1. TypeOK'
  BY DEF Kept_All, Inv, TypeOK
<1>2. FiledUnderItsName' /\ DenseOrder' /\ ListedIsFound'
  BY DEF Kept_All, Inv, FiledUnderItsName, DenseOrder, ListedIsFound
<1>3. IndexWithoutPushFailure'
  BY DEF Kept_All, Inv, IndexWithoutPushFailure, Cstr, Nth
<1> QED
  BY <1>1, <1>2, <1>3 DEF Inv

\* The steps of a call: a new result, or nothing recorded.
LEMMA Steps ==
  ASSUME Inv, Next
  PROVE  \/ \E s \in Slice, m \in Meta : Made(s, m)
         \/ Kept_All /\ answer' \in 1..Len(results) \cup {NULL}
<1> USE Facts
<1>1. CASE \E s \in Slice : Peek(s)
  BY <1>1 DEF Peek, Kept_All
<1>2. CASE \E idx \in 0..MaxResults : GetResult(idx)
  <2>1. PICK idx \in 0..MaxResults : GetResult(idx)
    BY <1>2
  <2>2. idx \in 0..(Len(dense_array.items) - 1) =>
          idx + 1 \in 1..dense_index_count
    OBVIOUS
  <2>3. Nth(idx) \in 1..Len(results) \cup {NULL}
    BY <2>2 DEF Nth
  <2> QED
    BY <2>1, <2>3 DEF GetResult, Kept_All
<1>3. CASE \E s \in Slice, m \in Meta : Intern(s, m)
  BY <1>3 DEF Intern, Found, NoRoom, Kept_All
<1> QED
  BY <1>1, <1>2, <1>3 DEF Next

\* Every step preserves the invariant.
LEMMA NextInv == Inv /\ [Next]_vars => Inv'
<1> SUFFICES ASSUME Inv, [Next]_vars PROVE Inv'
  OBVIOUS
<1>1. CASE Next
  BY <1>1, Steps, MadeStep, ReadStep
<1>2. CASE UNCHANGED vars
  <2>1. answer' \in 1..Len(results) \cup {NULL} /\ Kept_All
    BY <1>2 DEF vars, Kept_All, Inv, TypeOK
  <2> QED
    BY <2>1, ReadStep
<1> QED
  BY <1>1, <1>2

\* The properties below, which hold together or not at all.
THEOREM InvHolds == Spec => []Inv
BY InitInv, NextInv, PTL DEF Spec

\* Every variable keeps its type and every pointer points to a result.
THEOREM TypeCorrect == Spec => []TypeOK
<1>1. Inv => TypeOK
  BY DEF Inv
<1> QED
  BY <1>1, InvHolds, PTL

\* The table never takes one string for another.
THEOREM TableIsFaithful == Spec => []FiledUnderItsName
<1>1. Inv => FiledUnderItsName
  BY DEF Inv
<1> QED
  BY <1>1, InvHolds, PTL

\* The dense array is in index order and as long as the count, whatever fails.
THEOREM ArrayInOrder == Spec => []DenseOrder
<1>1. Inv => DenseOrder
  BY DEF Inv
<1> QED
  BY <1>1, InvHolds, PTL

\* Two results of one string need a failed put.
THEOREM OneResultPerString == Spec => []ListedIsFound
<1>1. Inv => ListedIsFound
  BY DEF Inv
<1> QED
  BY <1>1, InvHolds, PTL

\* An index that names the wrong string needs a failed push.
THEOREM IndexIsRight == Spec => []IndexWithoutPushFailure
<1>1. Inv => IndexWithoutPushFailure
  BY DEF Inv
<1> QED
  BY <1>1, InvHolds, PTL

\* A string keeps its result, a result its contents and an index its result.
THEOREM ResultsAreStable == Spec => Stable
<1> DEFINE Keeps ==
      /\ \A s \in Slice : hashmap[s] # NULL => hashmap'[s] = hashmap[s]
      /\ \A r \in 1..Len(results) : r <= Len(results') /\ results'[r] = results[r]
      /\ \A idx \in 0..(dense_index_count - 1) : Cstr(idx)' = Cstr(idx)
<1>1. Inv /\ [Next]_vars => [Keeps]_vars
  <2> SUFFICES ASSUME Inv, Next PROVE Keeps
    OBVIOUS
  <2> USE Facts
  <2>1. CASE Kept_All
    <3>1. \A idx \in 0..(dense_index_count - 1) : Cstr(idx)' = Cstr(idx)
      BY <2>1 DEF Kept_All, Cstr, Nth
    <3> QED
      BY <3>1, <2>1 DEF Kept_All
  <2>2. ASSUME NEW s \in Slice, NEW m \in Meta, Made(s, m)
        PROVE  Keeps
    <3>1. /\ results' = Append(results, Result(s, m)) /\ Result(s, m) \in Records
          /\ Len(results') = Len(results) + 1
          /\ \A r \in 1..Len(results) : results'[r] = results[r]
      BY <2>2 DEF Made, Kept, Result, Records
    <3>2. \A t \in Slice : hashmap[t] # NULL => hashmap'[t] = hashmap[t]
      BY <2>2 DEF Made, Filed, NotFiled, Inv, TypeOK
    <3>3. dense_array \in Arrays(1..New)
      BY DEF Arrays, New
    <3>4. \/ dense_array' = dense_array /\ dense_index_count' = dense_index_count
          \/ /\ dense_array' = Pushed(dense_array, New)
             /\ dense_index_count' = dense_index_count + 1
      BY <2>2 DEF Made, Listed, NotListed
    <3>5. /\ Len(dense_array'.items) = dense_index_count'
          /\ dense_index_count' >= dense_index_count /\ dense_index_count' \in Nat
          /\ \A n \in 1..dense_index_count : dense_array'.items[n] = dense_array.items[n]
      BY <3>3, <3>4, PushAppends DEF New
    <3>6. ASSUME NEW idx \in 0..(dense_index_count - 1)
          PROVE  Cstr(idx)' = Cstr(idx)
      <4>1. idx + 1 \in 1..dense_index_count /\ idx < dense_index_count
            /\ idx \in 0..(dense_index_count' - 1) /\ idx < dense_index_count'
        BY <3>5, Below
      <4>2. dense_array'.items[idx + 1] = dense_array.items[idx + 1]
            /\ results'[dense_array.items[idx + 1]] = results[dense_array.items[idx + 1]]
        BY <3>1, <3>5, <4>1
      <4> QED
        BY <4>1, <4>2, <3>5 DEF Cstr, Nth
    <3> QED
      BY <3>1, <3>2, <3>6
  <2> QED
    BY <2>1, <2>2, Steps
<1> QED
  BY <1>1, InvHolds, PTL DEF Spec, Stable
=============================================================================
