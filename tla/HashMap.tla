------------------------------ MODULE HashMap ------------------------------
(***************************************************************************)
(* The chained hash map of tools/src/datastructures/hash_map.c, on which   *)
(* the interner and the symbol tables rest.  A map is never shared between *)
(* threads; what can go wrong is a call of the allocator at any point of a *)
(* put: for the new table, for a bucket of it, or for the entry itself.    *)
(* A put therefore runs step by step, one entry of the old table at a time *)
(* while it rehashes; get and remove allocate nothing and are one step.    *)
(***************************************************************************)
EXTENDS DynArray, FiniteSets

CONSTANTS
  Key, Val,
  None,         \* NULL
  Hash,         \* key -> what the hash function returns
  FirstCount,   \* the bucket count of hashmap_create
  MaxBuckets,   \* the allocator gives no table larger than this
  OomBudget     \* bound on the allocations that fail

ASSUME HashMapAssumption ==
  /\ Hash \in [Key -> Nat]
  /\ None \notin Val
  /\ FirstCount \in Nat \ {0} /\ MaxBuckets \in Nat /\ OomBudget \in Nat

VARIABLES
  buckets,      \* 0..bucket_count-1 -> array of entries
  bucket_count,
  size,
  new_buckets,  \* the table a rehash is filling
  i, j,         \* its cursor: bucket, and entry (from 1) in the bucket
  pc,           \* "idle", "rehash" or "insert"
  entry,        \* the entry being put
  answer,       \* what the last operation returned
  oom

vars == <<buckets, bucket_count, size, new_buckets, i, j, pc, entry, answer, oom>>

Entries == [key : Key, value : Val]
Entry(k, v) == [key |-> k, value |-> v]
NoEntry == Entry(None, None)

Table(n) == [b \in 0..(n - 1) |-> EmptyArray]
NoTable  == Table(0)

Index(k, n) == Hash[k] % n

First(S) == CHOOSE n \in S : \A m \in S : n <= m

\* The positions of key k in the bucket it belongs to, and its value.
MatchesIn(table, count, k) ==
  {n \in DOMAIN table[Index(k, count)].items : table[Index(k, count)].items[n].key = k}

LookupIn(table, count, k) ==
  LET found == MatchesIn(table, count, k)
  IN  IF found = {} THEN None ELSE table[Index(k, count)].items[First(found)].value

Matches(k) == MatchesIn(buckets, bucket_count, k)
Lookup(k)  == LookupIn(buckets, bucket_count, k)

\* The allocation of this step fails.
Fail == oom < OomBudget /\ oom' = oom + 1

-----------------------------------------------------------------------------
Init ==
  /\ buckets = Table(FirstCount) /\ bucket_count = FirstCount /\ size = 0
  /\ new_buckets = NoTable /\ i = 0 /\ j = 1
  /\ pc = "idle" /\ entry = NoEntry /\ answer = None /\ oom = 0

\* Fault: the map is allowed to fill up first.
Crowded_Late == size > bucket_count

Crowded == size >= (bucket_count * 3) \div 4

\* hashmap_put: first make room when the map is crowded, if that can be had.
Put(k, v) ==
  /\ pc = "idle"
  /\ entry' = Entry(k, v)
  /\ \/ ~Crowded /\ pc' = "insert" /\ UNCHANGED <<new_buckets, oom>>
     \/ /\ Crowded /\ 2 * bucket_count <= MaxBuckets
        /\ pc' = "rehash" /\ new_buckets' = Table(2 * bucket_count) /\ UNCHANGED oom
     \/ /\ Crowded /\ pc' = "insert" /\ UNCHANGED new_buckets
        /\ \/ 2 * bucket_count > MaxBuckets /\ UNCHANGED oom
           \/ Fail
  /\ i' = 0 /\ j' = 1
  /\ UNCHANGED <<buckets, bucket_count, size, answer>>

\* The rehash is over, one way or the other.
Insertion == pc' = "insert" /\ new_buckets' = NoTable /\ i' = 0 /\ j' = 1

\* Fault: the table of a rehash that failed half-way is used all the same.
GiveUp_Swap ==
  /\ Fail /\ Insertion
  /\ buckets' = new_buckets /\ bucket_count' = 2 * bucket_count

\* A bucket of the new table cannot grow: the new table is dropped.
GiveUp == Fail /\ Insertion /\ UNCHANGED <<buckets, bucket_count>>

\* Fault: the bucket is the one of the old table.
NewIndex_Old(k) == Index(k, bucket_count)

NewIndex(k) == Index(k, 2 * bucket_count)

\* Fault: an empty bucket is skipped without advancing the loop.
NextBucket_Continue ==
  IF buckets[i].items = <<>> THEN UNCHANGED <<i, j>> ELSE i' = i + 1 /\ j' = 1

NextBucket == i' = i + 1 /\ j' = 1

Copy ==
  /\ pc = "rehash" /\ i < bucket_count
  /\ LET items == buckets[i].items
     IN  \/ /\ j > Len(items)
            /\ NextBucket
            /\ UNCHANGED <<buckets, bucket_count, new_buckets, pc, oom>>
         \/ /\ j <= Len(items)
            /\ LET b == NewIndex(items[j].key)
               IN  \/ /\ new_buckets' = [new_buckets EXCEPT ![b] = Pushed(@, items[j])]
                      /\ j' = j + 1
                      /\ UNCHANGED <<buckets, bucket_count, i, pc, oom>>
                   \/ Full(new_buckets[b]) /\ GiveUp
  /\ UNCHANGED <<size, entry, answer>>

Swap ==
  /\ pc = "rehash" /\ i = bucket_count
  /\ buckets' = new_buckets /\ bucket_count' = 2 * bucket_count
  /\ Insertion
  /\ UNCHANGED <<size, entry, answer, oom>>

\* Fault: a key keeps its first value.
Update_Keep(b, n) == UNCHANGED buckets

Update(b, n) == buckets' = [buckets EXCEPT ![b].items[n].value = entry.value]

\* Put the entry: over the value of its key, or at the end of its bucket.
Insert ==
  /\ pc = "insert"
  /\ LET k == entry.key
         b == Index(k, bucket_count)
     IN  \/ /\ Matches(k) # {}
            /\ Update(b, First(Matches(k)))
            /\ answer' = "true" /\ UNCHANGED <<size, oom>>
         \/ /\ Matches(k) = {}
            /\ buckets' = [buckets EXCEPT ![b] = Pushed(@, entry)]
            /\ size' = size + 1
            /\ answer' = "true" /\ UNCHANGED oom
         \/ /\ Matches(k) = {} /\ Full(buckets[b]) /\ Fail
            /\ answer' = "false" /\ UNCHANGED <<buckets, size>>
  /\ pc' = "idle" /\ entry' = NoEntry
  /\ UNCHANGED <<bucket_count, new_buckets, i, j>>

Get(k) ==
  /\ pc = "idle"
  /\ answer' = Lookup(k)
  /\ UNCHANGED <<buckets, bucket_count, size, new_buckets, i, j, pc, entry, oom>>

Remove(k) ==
  /\ pc = "idle"
  /\ LET b == Index(k, bucket_count)
     IN  \/ /\ Matches(k) # {}
            /\ buckets' = [buckets EXCEPT ![b] = Removed(@, First(Matches(k)))]
            /\ size' = size - 1 /\ answer' = "true"
         \/ /\ Matches(k) = {} /\ answer' = "false" /\ UNCHANGED <<buckets, size>>
  /\ UNCHANGED <<bucket_count, new_buckets, i, j, pc, entry, oom>>

Step == Copy \/ Swap \/ Insert

Next ==
  \/ \E k \in Key : Get(k) \/ Remove(k) \/ \E v \in Val : Put(k, v)
  \/ Step

Spec == Init /\ [][Next]_vars

\* A put runs to its end.
FairSpec == Spec /\ WF_vars(Step)

-----------------------------------------------------------------------------
(* Properties *)

\* The set of the entries of a table.
Held(table) == UNION {{table[b].items[n] : n \in DOMAIN table[b].items} : b \in DOMAIN table}

\* Every entry is in the bucket a lookup of its key searches, and no key is
\* in it twice.
WellPlaced(table, count) ==
  \A b \in DOMAIN table :
    /\ \A n \in DOMAIN table[b].items : Index(table[b].items[n].key, count) = b
    /\ \A m, n \in DOMAIN table[b].items :
         table[b].items[m].key = table[b].items[n].key => m = n
    /\ InBuffer(table[b])

TypeOK ==
  /\ bucket_count \in Nat \ {0} /\ size \in Nat /\ oom \in 0..OomBudget
  /\ buckets \in [0..(bucket_count - 1) -> Arrays(Entries)]
  /\ pc \in {"idle", "rehash", "insert"}
  /\ new_buckets \in [0..((IF pc = "rehash" THEN 2 * bucket_count ELSE 0) - 1) -> Arrays(Entries)]
  /\ i \in 0..bucket_count /\ j \in Nat \ {0}
  /\ IF pc = "idle" THEN entry = NoEntry ELSE entry \in Entries
  /\ answer \in {"true", "false", None} \cup Val

\* A lookup finds every entry and removes or updates the only one of its key,
\* in the table in use and in the one a rehash has filled so far.
Findable ==
  /\ WellPlaced(buckets, bucket_count)
  /\ pc = "rehash" => WellPlaced(new_buckets, 2 * bucket_count)

\* size counts the keys, so the map grows when it should.
SizeIsCount == size = Cardinality({k \in Key : Lookup(k) # None})

\* A rehash that has got this far has copied what the cursor has passed.
CopiedSoFar ==
  pc = "rehash" =>
    Held(new_buckets) =
      UNION {{buckets[b].items[n] : n \in {m \in DOMAIN buckets[b].items : b < i \/ m < j}} :
               b \in {c \in DOMAIN buckets : c <= i}}

\* While allocations succeed the load factor stays at or below 3/4.
LoadBounded == oom = 0 /\ 2 * bucket_count <= MaxBuckets => 4 * size <= 3 * bucket_count

\* Between operations, during a rehash too, the map is the partial function
\* of its lookups; a put stores the value asked for, a failed allocation loses
\* no entry.
Map == INSTANCE PartialMap WITH map <- [k \in Key |-> Lookup(k)], request <- entry
IsPartialMap == Map!Spec

\* A put returns.
PutReturns == (pc # "idle") ~> (pc = "idle")
=============================================================================
