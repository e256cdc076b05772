--------------------------- MODULE DenseInterner ---------------------------
(***************************************************************************)
(* The interner of tools/src/datastructures/dense_interner.c, which gives  *)
(* every string one result and every result the next index of a dense      *)
(* array.  Parser, type checker and printer compare and print names by     *)
(* these results, so what matters is which string a result, an index and a *)
(* table entry stand for when the allocator has refused something: the two *)
(* places that record a new result, the hash map and the dense array, fail *)
(* one without the other.  The hash map is what PartialMap promises.  A    *)
(* result stands for the pointer to it, in the order they were made.       *)
(***************************************************************************)
EXTENDS DynArray

CONSTANTS
  Slice, Meta,
  NULL,
  MaxResults,   \* bound on the results made
  OomBudget     \* bound on the allocations that fail

ASSUME InternerAssumption ==
  /\ NULL \notin Nat /\ NULL \notin Slice
  /\ MaxResults \in Nat /\ OomBudget \in Nat

VARIABLES
  results,            \* the InternResults with their entries, as the arena holds them
  hashmap,            \* slice -> result or NULL
  dense_array,        \* array of results
  dense_index_count,
  answer,             \* what the last call returned
  put_failures, push_failures

vars == <<results, hashmap, dense_array, dense_index_count, answer,
          put_failures, push_failures>>

failures == put_failures + push_failures

Result(s, m) == [key |-> s, meta |-> m, dense_index |-> dense_index_count]
New == Len(results) + 1

Init ==
  /\ results = <<>>
  /\ hashmap = [s \in Slice |-> NULL]
  /\ dense_array = EmptyArray /\ dense_index_count = 0
  /\ answer = NULL
  /\ put_failures = 0 /\ push_failures = 0

\* Fault: the entry takes the meta of the latest caller.
Found_NewMeta(s, m) ==
  /\ hashmap[s] # NULL
  /\ answer' = hashmap[s]
  /\ results' = [results EXCEPT ![hashmap[s]].meta = m]
  /\ UNCHANGED <<hashmap, dense_array, dense_index_count, put_failures, push_failures>>

\* intern of a slice that the table holds.
Found(s, m) ==
  /\ hashmap[s] # NULL
  /\ answer' = hashmap[s]
  /\ UNCHANGED <<results, hashmap, dense_array, dense_index_count,
                 put_failures, push_failures>>

\* One of the four allocations for a new result fails.
NoRoom(s) ==
  /\ hashmap[s] = NULL
  /\ answer' = NULL
  /\ UNCHANGED <<results, hashmap, dense_array, dense_index_count,
                 put_failures, push_failures>>

Filed(s) == hashmap' = [hashmap EXCEPT ![s] = New] /\ UNCHANGED put_failures

\* hashmap_put fails and nobody looks.
NotFiled ==
  /\ failures < OomBudget
  /\ put_failures' = put_failures + 1
  /\ UNCHANGED hashmap

Listed ==
  /\ dense_array' = Pushed(dense_array, New)
  /\ dense_index_count' = dense_index_count + 1
  /\ answer' = New
  /\ UNCHANGED push_failures

\* Fault: the index is taken before the push is known to succeed.
NotListed_Counted ==
  /\ Full(dense_array)
  /\ put_failures' + push_failures < OomBudget
  /\ push_failures' = push_failures + 1
  /\ answer' = NULL /\ dense_index_count' = dense_index_count + 1
  /\ UNCHANGED dense_array

\* The push fails: intern returns NULL and what it filed stays filed.
NotListed ==
  /\ Full(dense_array)
  /\ put_failures' + push_failures < OomBudget
  /\ push_failures' = push_failures + 1
  /\ answer' = NULL
  /\ UNCHANGED <<dense_array, dense_index_count>>

\* Fault: the key is the caller's buffer, which the next caller overwrites.
Kept_Alias(s, m) ==
  results' = Append([r \in DOMAIN results |-> [results[r] EXCEPT !.key = s]], Result(s, m))

Kept(s, m) == results' = Append(results, Result(s, m))

\* Fault: the table is not searched first.
Made_Again(s, m) ==
  /\ New <= MaxResults
  /\ Kept(s, m)
  /\ Filed(s) \/ NotFiled
  /\ Listed \/ NotListed

\* intern of a new slice.
Made(s, m) ==
  /\ hashmap[s] = NULL /\ New <= MaxResults
  /\ Kept(s, m)
  /\ Filed(s) \/ NotFiled
  /\ Listed \/ NotListed

Intern(s, m) == Found(s, m) \/ NoRoom(s) \/ Made(s, m)

\* intern_peek
Peek(s) ==
  /\ answer' = hashmap[s]
  /\ UNCHANGED <<results, hashmap, dense_array, dense_index_count,
                 put_failures, push_failures>>

\* interner_get_result, NULL outside the array
Nth(idx) ==
  IF idx \in 0..(Len(dense_array.items) - 1) THEN dense_array.items[idx + 1] ELSE NULL

GetResult(idx) ==
  /\ answer' = Nth(idx)
  /\ UNCHANGED <<results, hashmap, dense_array, dense_index_count,
                 put_failures, push_failures>>

\* Fault: the count is taken for the last index.
Cstr_Last(idx) ==
  IF idx + 1 < dense_index_count /\ Nth(idx) # NULL THEN results[Nth(idx)].key ELSE NULL

\* interner_get_cstr: the string at an index, which is also bounded by the count.
Cstr(idx) ==
  IF idx < dense_index_count /\ Nth(idx) # NULL THEN results[Nth(idx)].key ELSE NULL

Next ==
  \/ \E s \in Slice : Peek(s) \/ \E m \in Meta : Intern(s, m)
  \/ \E idx \in 0..MaxResults : GetResult(idx)

Spec == Init /\ [][Next]_vars

-----------------------------------------------------------------------------
(* Properties *)

TypeOK ==
  /\ results \in Seq([key : Slice, meta : Meta, dense_index : Nat])
  /\ hashmap \in [Slice -> 1..Len(results) \cup {NULL}]
  /\ dense_array \in Arrays(1..Len(results))
  /\ dense_index_count \in Nat
  /\ answer \in 1..Len(results) \cup {NULL}
  /\ put_failures \in Nat /\ push_failures \in Nat

\* The table never takes one string for another.
FiledUnderItsName == \A s \in Slice : hashmap[s] # NULL => results[hashmap[s]].key = s

\* The array is in the order of the indices its results carry, whatever has
\* failed, and the count is its length: the two bounds of interner_get_cstr
\* agree.
DenseOrder ==
  /\ dense_index_count = Len(dense_array.items)
  /\ \A n \in 1..dense_index_count : results[dense_array.items[n]].dense_index = n - 1

\* While every put has succeeded, a listed result is the one its string finds:
\* two results of one string need a put that failed.
ListedIsFound ==
  put_failures = 0 =>
    \A n \in 1..Len(dense_array.items) :
      hashmap[results[dense_array.items[n]].key] = dense_array.items[n]

\* While every push has succeeded, the index of a result that a lookup finds
\* names the string looked up.
IndexWithoutPushFailure ==
  push_failures = 0 =>
    \A s \in Slice : hashmap[s] # NULL => Cstr(results[hashmap[s]].dense_index) = s

\* A string keeps its result, a result its contents and an index its result:
\* what a caller has compared or stored stays right.
Stable ==
  [][/\ \A s \in Slice : hashmap[s] # NULL => hashmap'[s] = hashmap[s]
     /\ \A r \in 1..Len(results) : r <= Len(results') /\ results'[r] = results[r]
     /\ \A idx \in 0..(dense_index_count - 1) : Cstr(idx)' = Cstr(idx)]_vars
=============================================================================
