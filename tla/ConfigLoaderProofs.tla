------------------------- MODULE ConfigLoaderProofs -------------------------
(***************************************************************************)
(* Proofs about the generated loader, for every schema of the modelled     *)
(* kinds, every set of requests, any number of structs, calls and failing  *)
(* mallocs.                                                                *)
(*                                                                         *)
(* The argument has three layers.  Good says what one effect may do: it    *)
(* leaves a slot of the field's type and takes blocks numbered from next   *)
(* on.  Moves says what a step of a call does to memory: it adds new       *)
(* blocks to live and to the context alike and writes the struct of the    *)
(* call only.  The invariants follow from Moves, step by step.             *)
(*                                                                         *)
(* The second half shows that the loader keeps its promise.  The promise   *)
(* says which line or argument wins; the loader reads them one by one and  *)
(* overwrites.  Said is the bridge: what was said of a part of a field     *)
(* when a call stands at a step of a stage.  A step tells one gift more    *)
(* (SaidNext), a stage begins where the one before it ended (SaidPhase),   *)
(* and at the end what was said is the winner (SaidEnd).  The invariant    *)
(* ValueInv relates it to the struct: a field holds what was said so far   *)
(* makes of the value it began with.                                       *)
(***************************************************************************)
EXTENDS LoaderPromise, FiniteSetTheorems, WellFoundedInduction, TLAPS

Texts == Text \cup {FlagText}

Good(f, e) ==
  /\ e.slot \in Slots /\ Fits(f, e.slot)
  /\ e.used \in Nat
  /\ \A b \in e.new : b \in Nat /\ next <= b /\ b < next + e.used

(* The zeroed slot fits every field. *)
LEMMA ZeroFits ==
  ASSUME NEW f \in Fields
  PROVE  ZeroSlot \in Slots /\ Fits(f, ZeroSlot)
<1>1. <<>> \in Seq(Pointers)
  OBVIOUS
<1>2. ZeroSlot \in Slots /\ ZeroSlot.blk = Null /\ ZeroSlot.txt = None /\ ZeroSlot.rows = <<>>
  <2>1. Null \in Block \cup {Null, Wild} /\ None \in Text \cup {FlagText, Yes, None}
    OBVIOUS
  <2> QED
    BY <2>1, <1>1 DEF ZeroSlot, Slot, Slots
<1> QED
  BY <1>2 DEF Fits

(* Reading a text as a value of field f gives one its C type can hold. *)
LEMMA ConvertType ==
  ASSUME NEW f \in Scalars \ Composed, NEW t \in Texts
  PROVE  /\ Convert(f, t) \in Text \cup {FlagText, Yes, None}
         /\ Kind[f] # "str" => Convert(f, t) \in Numeric \cup {Yes, None}
         /\ Kind[f] = "bool" => Convert(f, t) \in {Yes, None}
BY SchemaAssumption DEF Convert, Number, Texts, Scalars, Composed, OfKind

(* The slot a step is about to write fits its field. *)
LEMMA SlotTyped ==
  ASSUME TypeOK, pc # "idle", NEW f \in Fields
  PROVE  cfg[cur][f] \in Slots /\ Fits(f, cfg[cur][f])
BY DEF TypeOK

(* What is written over an address or an enum has a part for each the texts  *)
(* set, and no pointer.                                                      *)
LEMMA PatchedType ==
  ASSUME NEW old \in Seq(Pointers), \A k \in DOMAIN old : old[k].blk = Null,
         NEW new \in Seq(Text)
  PROVE  /\ Patched(old, new) \in Seq(Pointers)
         /\ \A k \in DOMAIN Patched(old, new) : Patched(old, new)[k].blk = Null
<1> DEFINE n == IF Len(old) < Len(new) THEN Len(new) ELSE Len(old)
<1>1. n \in Nat /\ \A k \in 1..n : k <= Len(new) \/ k \in DOMAIN old
  OBVIOUS
<1>2. ASSUME NEW k \in 1..n
      PROVE  LET p == IF k <= Len(new) THEN Ptr(Null, new[k]) ELSE old[k]
             IN  p \in Pointers /\ p.blk = Null
  <2>1. CASE k <= Len(new)
    <3>1. new[k] \in Text
      BY <2>1
    <3> QED
      BY <2>1, <3>1 DEF Ptr, Pointers
  <2>2. CASE ~(k <= Len(new))
    BY <1>1, <2>2
  <2> QED
    BY <2>1, <2>2
<1>3. Patched(old, new) = [k \in 1..n |-> IF k <= Len(new) THEN Ptr(Null, new[k]) ELSE old[k]]
  BY DEF Patched
<1> HIDE DEF n
<1> QED
  BY <1>1, <1>2, <1>3

(* Writing a scalar from a text is good. *)
LEMMA ScalarGood ==
  ASSUME TypeOK, pc # "idle", NEW f \in Scalars, NEW t \in Texts, NEW e \in ScalarEffects(f, t)
  PROVE  Good(f, e)
<1>1. f \in Fields /\ <<>> \in Seq(Pointers) /\ next \in Block /\ next \in Nat
      /\ (Kind[f] = "str" => f \notin Composed) /\ (f \in Composed => Kind[f] \in {"ip", "enum"})
  BY DEF Scalars, Composed, OfKind, Block, TypeOK
<1>2. CASE Kind[f] = "str"
  <2>1. e = Effect(Slot(next, t, <<>>), {next}, 1, FALSE, FALSE) \/ e = Effect(ZeroSlot, {}, 0, TRUE, FALSE)
    BY <1>2 DEF ScalarEffects, InternEffects
  <2>2. CASE e = Effect(Slot(next, t, <<>>), {next}, 1, FALSE, FALSE)
    <3>1. e.slot = Slot(next, t, <<>>) /\ e.new = {next} /\ e.used = 1
      BY <2>2 DEF Effect
    <3>2. e.slot \in Slots /\ e.slot.rows = <<>>
      <4>1. next \in Block \cup {Null, Wild} /\ t \in Text \cup {FlagText, Yes, None}
        BY <1>1 DEF Texts
      <4> QED
        BY <4>1, <3>1, <1>1 DEF Slot, Slots
    <3> QED
      BY <3>1, <3>2, <1>1, <1>2 DEF Good, Fits
  <2>3. CASE e = Effect(ZeroSlot, {}, 0, TRUE, FALSE)
    BY <2>3, <1>1, ZeroFits DEF Good, Effect
  <2> QED
    BY <2>1, <2>2, <2>3
<1>3. CASE f \in Composed
  <2> DEFINE rows == Patched(cfg[cur][f].rows, Parts[f][t])
  <2>1. e = Effect(Slot(Null, None, rows), {}, 0, FALSE, FALSE)
    BY <1>1, <1>3 DEF ScalarEffects, ValueEffects
  <2>2. rows \in Seq(Pointers) /\ \A k \in DOMAIN rows : rows[k].blk = Null
    <3>1. /\ cfg[cur][f].rows \in Seq(Pointers)
          /\ \A k \in DOMAIN cfg[cur][f].rows : cfg[cur][f].rows[k].blk = Null
      BY <1>1, <1>3, SlotTyped DEF Slots, Fits
    <3>2. Parts[f][t] \in Seq(Text)
      BY <1>3, SchemaAssumption DEF Texts
    <3> QED
      BY <3>1, <3>2, PatchedType
  <2> HIDE DEF rows
  <2>3. e.slot = Slot(Null, None, rows) /\ e.new = {} /\ e.used = 0
    BY <2>1 DEF Effect
  <2>4. /\ e.slot \in Slots /\ e.slot.rows = rows /\ e.slot.blk = Null /\ e.slot.txt = None
    <3>1. Null \in Block \cup {Null, Wild} /\ None \in Text \cup {FlagText, Yes, None}
      OBVIOUS
    <3> QED
      BY <3>1, <2>2, <2>3 DEF Slot, Slots
  <2> QED
    BY <2>2, <2>3, <2>4, <1>1, <1>3 DEF Good, Fits
<1>4. CASE Kind[f] # "str" /\ f \notin Composed
  <2>1. e = Effect(Slot(Null, Convert(f, t), <<>>), {}, 0, FALSE, FALSE)
    BY <1>4 DEF ScalarEffects, ValueEffects
  <2>2. e.slot = Slot(Null, Convert(f, t), <<>>) /\ e.new = {} /\ e.used = 0
    BY <2>1 DEF Effect
  <2>3. /\ e.slot \in Slots /\ e.slot.rows = <<>> /\ e.slot.blk = Null
        /\ e.slot.txt = Convert(f, t)
    <3>1. Null \in Block \cup {Null, Wild} /\ Convert(f, t) \in Text \cup {FlagText, Yes, None}
      BY <1>4, ConvertType
    <3> QED
      BY <3>1, <2>2, <1>1 DEF Slot, Slots
  <2> QED
    BY <2>2, <2>3, <1>4, ConvertType DEF Good, Fits
<1> QED
  BY <1>2, <1>3, <1>4

(* Splitting a text into an array is good, whatever fails on the way. *)
LEMMA ArrayGood ==
  ASSUME next \in Block, NEW f \in Fields, Kind[f] \in {"arr", "tab"},
         NEW old \in Slots, Fits(f, old), NEW elems \in Seq(Texts),
         NEW e \in ArrayEffects(old, elems)
  PROVE  Good(f, e)
<1> DEFINE n == Len(elems)
           filled(E) == [m \in 1..n |-> IF m \in E THEN NullPtr ELSE Ptr(next + m, elems[m])]
           unread == [m \in 1..n |-> Ptr(Wild, None)]
<1>1. n \in Nat /\ next \in Nat /\ \A m \in 1..n : elems[m] \in Texts
  BY DEF Block
<1>2. ASSUME NEW blk \in Block \cup {Null, Wild}, NEW rows \in Seq(Pointers)
      PROVE  Slot(blk, None, rows) \in Slots /\ Fits(f, Slot(blk, None, rows))
  BY DEF Slot, Slots, Fits, Composed, OfKind
<1>3. \/ e = Effect(old, {}, 0, TRUE, FALSE) \/ e = Effect(old, {}, 0, TRUE, TRUE)
      \/ e = Effect(ZeroSlot, {}, 0, FALSE, FALSE)
      \/ \E E \in SUBSET (1..n) :
           e = Effect(Slot(next, None, filled(E)), {next} \cup {next + m : m \in (1..n) \ E},
                      n + 1, E # {}, FALSE)
      \/ e = Effect(Slot(next, None, unread), {next}, 1, TRUE, FALSE)
      \/ e = Effect(Slot(Null, None, unread), {}, 0, TRUE, FALSE)
  BY DEF ArrayEffects
<1>4. unread \in Seq(Pointers)
  <2>1. Ptr(Wild, None) \in Pointers
    BY DEF Ptr, Pointers
  <2> QED
    BY <2>1, <1>1
<1>5. CASE e = Effect(old, {}, 0, TRUE, FALSE) \/ e = Effect(old, {}, 0, TRUE, TRUE)
  BY <1>5 DEF Good, Effect
<1>6. CASE e = Effect(ZeroSlot, {}, 0, FALSE, FALSE)
  BY <1>6, ZeroFits DEF Good, Effect
<1>7. ASSUME NEW E \in SUBSET (1..n),
             e = Effect(Slot(next, None, filled(E)), {next} \cup {next + m : m \in (1..n) \ E},
                        n + 1, E # {}, FALSE)
      PROVE  Good(f, e)
  <2>1. filled(E) \in Seq(Pointers)
    <3>1. \A m \in 1..n : (IF m \in E THEN NullPtr ELSE Ptr(next + m, elems[m])) \in Pointers
      <4> TAKE m \in 1..n
      <4>1. NullPtr \in Pointers
        BY DEF NullPtr, Ptr, Pointers
      <4>2. next + m \in Block /\ elems[m] \in Text \cup {FlagText, None}
        BY <1>1 DEF Block, Null, Texts
      <4>3. Ptr(next + m, elems[m]) \in Pointers
        BY <4>2 DEF Ptr, Pointers
      <4> QED
        BY <4>1, <4>3
    <3> QED
      BY <3>1, <1>1
  <2>2. /\ e.slot = Slot(next, None, filled(E)) /\ e.used = n + 1
        /\ e.new = {next} \cup {next + m : m \in (1..n) \ E}
    BY <1>7 DEF Effect
  <2>3. e.slot \in Slots /\ Fits(f, e.slot)
    BY <2>1, <2>2, <1>2
  <2>4. \A b \in e.new : b \in Nat /\ next <= b /\ b < next + e.used
    BY <2>2, <1>1
  <2> QED
    BY <2>2, <2>3, <2>4, <1>1 DEF Good
<1>8. CASE e = Effect(Slot(next, None, unread), {next}, 1, TRUE, FALSE)
  <2>1. e.slot = Slot(next, None, unread) /\ e.used = 1 /\ e.new = {next}
    BY <1>8 DEF Effect
  <2>2. e.slot \in Slots /\ Fits(f, e.slot)
    BY <2>1, <1>2, <1>4
  <2> QED
    BY <2>1, <2>2, <1>1 DEF Good
<1>9. CASE e = Effect(Slot(Null, None, unread), {}, 0, TRUE, FALSE)
  <2>1. e.slot = Slot(Null, None, unread) /\ e.used = 0 /\ e.new = {}
    BY <1>9 DEF Effect
  <2>2. e.slot \in Slots /\ Fits(f, e.slot)
    BY <2>1, <1>2, <1>4
  <2> QED
    BY <2>1, <2>2 DEF Good
<1> QED
  BY <1>3, <1>5, <1>6, <1>7, <1>8, <1>9

(* Splitting a text into numbers is good, also when the data stays unwritten. *)
LEMMA IntsGood ==
  ASSUME next \in Block, NEW f \in Fields, Kind[f] = "ints",
         NEW old \in Slots, Fits(f, old), NEW elems \in Seq(Texts),
         NEW e \in IntsEffects(old, elems)
  PROVE  Good(f, e)
<1> DEFINE n == Len(elems)
           read == [m \in 1..n |-> Ptr(Null, Number(elems[m]))]
           junk == [1..n -> {Ptr(Null, t) : t \in Numeric \cup {None}}]
<1>1. n \in Nat /\ next \in Nat
  BY DEF Block
<1>2. ASSUME NEW blk \in {next, Null}, NEW rows \in Seq(Pointers)
      PROVE  Slot(blk, None, rows) \in Slots /\ Fits(f, Slot(blk, None, rows))
  BY DEF Slot, Slots, Fits, Composed, OfKind
<1>3. \A t \in Numeric \cup {None} : Ptr(Null, t) \in Pointers
  <2>1. Numeric \subseteq Text
    BY SchemaAssumption
  <2> QED
    BY <2>1 DEF Ptr, Pointers
<1>4. read \in Seq(Pointers) /\ junk \subseteq Seq(Pointers)
  <2>1. \A m \in 1..n : Ptr(Null, Number(elems[m])) \in Pointers
    BY <1>3 DEF Number
  <2>2. ASSUME NEW u \in junk PROVE u \in Seq(Pointers)
    BY <1>1, <1>3
  <2> QED
    BY <1>1, <2>1, <2>2
<1>5. \/ e = Effect(old, {}, 0, TRUE, FALSE) \/ e = Effect(old, {}, 0, TRUE, TRUE)
      \/ e = Effect(ZeroSlot, {}, 0, FALSE, FALSE)
      \/ \E u \in junk \cup {read}, fl \in BOOLEAN :
           \/ e = Effect(Slot(next, None, u), {next}, 1, fl, FALSE)
           \/ e = Effect(Slot(Null, None, u), {}, 0, fl, FALSE)
  BY DEF IntsEffects
<1> HIDE DEF read, junk
<1>6. CASE e = Effect(old, {}, 0, TRUE, FALSE) \/ e = Effect(old, {}, 0, TRUE, TRUE)
  BY <1>6 DEF Good, Effect
<1>7. CASE e = Effect(ZeroSlot, {}, 0, FALSE, FALSE)
  BY <1>7, ZeroFits DEF Good, Effect
<1>8. ASSUME NEW u \in junk \cup {read}, NEW fl \in BOOLEAN,
             e = Effect(Slot(next, None, u), {next}, 1, fl, FALSE)
      PROVE  Good(f, e)
  <2>1. e.slot = Slot(next, None, u) /\ e.used = 1 /\ e.new = {next}
    BY <1>8 DEF Effect
  <2>2. e.slot \in Slots /\ Fits(f, e.slot)
    BY <2>1, <1>2, <1>4
  <2> QED
    BY <2>1, <2>2, <1>1 DEF Good
<1>9. ASSUME NEW u \in junk \cup {read}, NEW fl \in BOOLEAN,
             e = Effect(Slot(Null, None, u), {}, 0, fl, FALSE)
      PROVE  Good(f, e)
  <2>1. e.slot = Slot(Null, None, u) /\ e.used = 0 /\ e.new = {}
    BY <1>9 DEF Effect
  <2>2. e.slot \in Slots /\ Fits(f, e.slot)
    BY <2>1, <1>2, <1>4
  <2> QED
    BY <2>1, <2>2 DEF Good
<1> QED
  BY <1>5, <1>6, <1>7, <1>8, <1>9

(* Writing an array from a text is good. *)
LEMMA ListGood ==
  ASSUME TypeOK, pc # "idle", NEW f \in Lists, NEW elems \in Seq(Texts),
         NEW e \in ListEffects(f, elems)
  PROVE  Good(f, e)
<1>1. f \in Fields /\ Kind[f] \in {"arr", "ints"} /\ next \in Block
  BY DEF Lists, OfKind, TypeOK
<1>2. cfg[cur][f] \in Slots /\ Fits(f, cfg[cur][f])
  BY <1>1, SlotTyped
<1>3. CASE Kind[f] = "arr"
  BY <1>1, <1>2, <1>3, ArrayGood DEF ListEffects
<1>4. CASE Kind[f] = "ints"
  BY <1>1, <1>2, <1>4, IntsGood DEF ListEffects
<1> QED
  BY <1>1, <1>3, <1>4

(* An array of strings written over an array of structs is good: the struct  *)
(* keeps its shape, what its rows hold is indeterminate.                     *)
LEMMA MistypedGood ==
  ASSUME next \in Block, NEW f \in Fields, Kind[f] = "tab",
         NEW old \in Slots, Fits(f, old), NEW elems \in Seq(Texts),
         NEW e \in MistypedEffects(old, elems)
  PROVE  Good(f, e)
<1>1. PICK d \in ArrayEffects(old, elems) :
        e = [d EXCEPT !.slot.rows = [m \in DOMAIN d.slot.rows |-> Ptr(Wild, None)]]
  BY DEF MistypedEffects
<1>2. Good(f, d)
  BY ArrayGood
<1>3. \E s, nw, u, fl, cr : d = Effect(s, nw, u, fl, cr)
  BY DEF ArrayEffects
<1> DEFINE rows == [m \in DOMAIN d.slot.rows |-> Ptr(Wild, None)]
<1>4. rows \in Seq(Pointers)
  <2>1. d.slot.rows \in Seq(Pointers)
    BY <1>2 DEF Good, Slots
  <2>2. Ptr(Wild, None) \in Pointers
    BY DEF Ptr, Pointers
  <2> QED
    BY <2>1, <2>2
<1> HIDE DEF rows
<1>5. /\ e.slot = [d.slot EXCEPT !.rows = rows] /\ e.new = d.new /\ e.used = d.used
  BY <1>1, <1>3 DEF Effect, rows
<1>6. e.slot \in Slots /\ e.slot.txt = d.slot.txt
  BY <1>2, <1>4, <1>5 DEF Good, Slots
<1>7. Fits(f, e.slot)
  BY <1>2, <1>6 DEF Good, Fits, Composed, OfKind
<1> QED
  BY <1>2, <1>5, <1>6, <1>7 DEF Good

(* Appending a row is good. *)
LEMMA AppendRowGood ==
  ASSUME next \in Block, NEW f \in Fields, Kind[f] = "tab",
         NEW old \in Slots, Fits(f, old), NEW e \in AppendRowEffects(old)
  PROVE  Good(f, e)
<1> DEFINE grown(p) == Slot(next, None, Append(old.rows, p))
<1>1. ASSUME NEW p \in Pointers PROVE grown(p) \in Slots /\ Fits(f, grown(p))
  <2>1. old.rows \in Seq(Pointers)
    BY DEF Slots
  <2>2. Append(old.rows, p) \in Seq(Pointers)
    BY <2>1
  <2> QED
    BY <2>2 DEF Slot, Slots, Fits, Composed, OfKind
<1>2. next \in Nat /\ NullPtr \in Pointers
  BY DEF Block, NullPtr, Ptr, Pointers
<1>3. RowDefault # None => Ptr(next + 1, RowDefault) \in Pointers
  <2>1. next + 1 \in Block /\ RowDefault \in Text \cup {None}
    BY <1>2, SchemaAssumption DEF Block, Null
  <2> QED
    BY <2>1 DEF Ptr, Pointers
<1>4. \/ e = Effect(old, {}, 0, TRUE, TRUE)
      \/ e = Effect(grown(NullPtr), {next}, 1, FALSE, FALSE)
      \/ e = Effect(grown(NullPtr), {next}, 1, TRUE, FALSE)
      \/ /\ RowDefault # None
         /\ e = Effect(grown(Ptr(next + 1, RowDefault)), {next, next + 1}, 2, FALSE, FALSE)
  BY DEF AppendRowEffects
<1> HIDE DEF grown
<1>5. CASE e = Effect(old, {}, 0, TRUE, TRUE)
  BY <1>5 DEF Good, Effect
<1>6. ASSUME NEW fl \in BOOLEAN, e = Effect(grown(NullPtr), {next}, 1, fl, FALSE)
      PROVE  Good(f, e)
  <2>1. e.slot = grown(NullPtr) /\ e.new = {next} /\ e.used = 1
    BY <1>6 DEF Effect
  <2> QED
    BY <2>1, <1>1, <1>2 DEF Good
<1>7. CASE /\ RowDefault # None
           /\ e = Effect(grown(Ptr(next + 1, RowDefault)), {next, next + 1}, 2, FALSE, FALSE)
  <2>1. e.slot = grown(Ptr(next + 1, RowDefault)) /\ e.new = {next, next + 1} /\ e.used = 2
    BY <1>7 DEF Effect
  <2> QED
    BY <2>1, <1>1, <1>2, <1>3, <1>7 DEF Good
<1> QED
  BY <1>4, <1>5, <1>6, <1>7

(* Setting the key of the last row is good. *)
LEMMA LastRowGood ==
  ASSUME next \in Block, NEW f \in Fields, Kind[f] = "tab",
         NEW old \in Slots, Fits(f, old), old.rows # <<>>, NEW t \in Texts,
         NEW e \in LastRowEffects(old, t)
  PROVE  Good(f, e)
<1> DEFINE put(p) == [old EXCEPT !.rows = [old.rows EXCEPT ![Len(old.rows)] = p]]
<1>1. ASSUME NEW p \in Pointers PROVE put(p) \in Slots /\ Fits(f, put(p))
  <2>1. old.rows \in Seq(Pointers) /\ Len(old.rows) \in DOMAIN old.rows
    BY DEF Slots
  <2>2. [old.rows EXCEPT ![Len(old.rows)] = p] \in Seq(Pointers)
    BY <2>1
  <2> DEFINE rows == [old.rows EXCEPT ![Len(old.rows)] = p]
  <2> HIDE DEF rows
  <2>3. put(p) = [old EXCEPT !.rows = rows] /\ rows \in Seq(Pointers)
    BY <2>2 DEF rows
  <2>4. put(p) \in Slots /\ put(p).txt = old.txt
    BY <2>3 DEF Slots
  <2> QED
    BY <2>4 DEF Fits, Composed, OfKind
<1>2. next \in Nat /\ NullPtr \in Pointers
  BY DEF Block, NullPtr, Ptr, Pointers
<1>3. Ptr(next, t) \in Pointers
  BY DEF Ptr, Pointers, Texts
<1>4. \/ e = Effect(put(Ptr(next, t)), {next}, 1, FALSE, FALSE)
      \/ e = Effect(put(NullPtr), {}, 0, TRUE, FALSE)
  BY DEF LastRowEffects
<1> HIDE DEF put
<1>5. CASE e = Effect(put(Ptr(next, t)), {next}, 1, FALSE, FALSE)
  <2>1. e.slot = put(Ptr(next, t)) /\ e.new = {next} /\ e.used = 1
    BY <1>5 DEF Effect
  <2> QED
    BY <2>1, <1>1, <1>2, <1>3 DEF Good
<1>6. CASE e = Effect(put(NullPtr), {}, 0, TRUE, FALSE)
  <2>1. e.slot = put(NullPtr) /\ e.new = {} /\ e.used = 0
    BY <1>6 DEF Effect
  <2> QED
    BY <2>1, <1>1, <1>2 DEF Good
<1> QED
  BY <1>4, <1>5, <1>6

-----------------------------------------------------------------------------
(* What a step of a call does to memory: it goes to label l, or crashes. *)
Moves(l) ==
  /\ \E new \in SUBSET (next..(next' - 1)) : live' = live \cup new /\ ctx' = ctx \cup new
  /\ next' \in Block /\ next <= next'
  /\ cfg' \in [Cfgs -> [Fields -> Slots]]
  /\ \A c \in Cfgs : \A f \in Fields : Fits(f, cfg'[c][f])
  /\ \A c \in Cfgs : c # cur => cfg'[c] = cfg[c]
  /\ oom' \in 0..OomBudget
  /\ pc' \in {l, "crashed"}

(* A write with good effects moves. *)
LEMMA WriteMoves ==
  ASSUME TypeOK, pc # "idle", NEW f \in Fields, NEW effects, NEW l,
         \A e \in effects : Good(f, e), Write(f, effects, l)
  PROVE  Moves(l)
<1>1. PICK e \in effects :
        /\ e.failed => oom < OomBudget
        /\ oom' = IF e.failed THEN oom + 1 ELSE oom
        /\ live' = live \cup e.new
        /\ ctx' = ctx \cup e.new
        /\ next' = next + e.used
        /\ cfg' = [cfg EXCEPT ![cur][f] = e.slot]
        /\ pc' = IF e.crash THEN "crashed" ELSE l
  BY DEF Write
<1>2. Good(f, e) /\ next \in Nat \ {0} /\ cur \in Cfgs
  BY DEF TypeOK, Block, Null
<1>3. \E new \in SUBSET (next..(next' - 1)) : live' = live \cup new /\ ctx' = ctx \cup new
  <2>1. e.new \in SUBSET (next..(next' - 1))
    BY <1>1, <1>2 DEF Good
  <2> QED
    BY <1>1, <2>1
<1>4. next' \in Block /\ next <= next'
  BY <1>1, <1>2 DEF Good, Block, Null
<1>5. /\ cfg' \in [Cfgs -> [Fields -> Slots]]
      /\ \A c \in Cfgs : \A g \in Fields : Fits(g, cfg'[c][g])
      /\ \A c \in Cfgs : c # cur => cfg'[c] = cfg[c]
  <2>1. e.slot \in Slots /\ Fits(f, e.slot) /\ cfg \in [Cfgs -> [Fields -> Slots]]
    BY <1>2 DEF Good, TypeOK
  <2>2. cfg' \in [Cfgs -> [Fields -> Slots]]
    BY <1>1, <1>2, <2>1
  <2>3. \A c \in Cfgs : \A g \in Fields :
          cfg'[c][g] = IF c = cur /\ g = f THEN e.slot ELSE cfg[c][g]
    BY <1>1, <1>2, <2>1
  <2>4. \A c \in Cfgs : c # cur => cfg'[c] = cfg[c]
    BY <1>1, <1>2, <2>1
  <2> QED
    BY <2>1, <2>2, <2>3, <2>4 DEF TypeOK
<1>6. oom' \in 0..OomBudget
  <2>1. oom \in 0..OomBudget /\ OomBudget \in Nat
    BY LoaderAssumption DEF TypeOK
  <2>2. CASE e.failed
    BY <2>1, <2>2, <1>1
  <2>3. CASE ~e.failed
    BY <2>1, <2>3, <1>1
  <2> QED
    BY <2>2, <2>3
<1>7. pc' \in {l, "crashed"}
  BY <1>1
<1> QED
  BY <1>3, <1>4, <1>5, <1>6, <1>7 DEF Moves

(* A step that changes no memory moves. *)
LEMMA SkipMoves ==
  ASSUME TypeOK, NEW l, Skip(l) \/ Skip("crashed")
  PROVE  Moves(l)
<1>1. live' = live \cup {} /\ ctx' = ctx \cup {} /\ next' = next /\ oom' = oom /\ cfg' = cfg
      /\ pc' \in {l, "crashed"}
  BY DEF Skip
<1>2. next \in Block /\ next <= next
  BY DEF TypeOK, Block
<1>3. \E new \in SUBSET (next..(next' - 1)) : live' = live \cup new /\ ctx' = ctx \cup new
  <2> WITNESS {} \in SUBSET (next..(next' - 1))
  <2> QED
    BY <1>1
<1>4. next' \in Block /\ next <= next'
  BY <1>1, <1>2
<1>5. /\ cfg' \in [Cfgs -> [Fields -> Slots]]
      /\ \A c \in Cfgs : \A f \in Fields : Fits(f, cfg'[c][f])
      /\ \A c \in Cfgs : c # cur => cfg'[c] = cfg[c]
      /\ oom' \in 0..OomBudget
  BY <1>1 DEF TypeOK
<1> QED
  BY <1>1, <1>3, <1>4, <1>5 DEF Moves

(* The parts of a raw value, and of an argument read as one. *)
LEMMA RawTyped ==
  /\ \A raw \in Raw : raw.txt \in Texts /\ raw.elems \in Seq(Texts)
  /\ \A a : IsToken(a) => AsRaw(a) \in Raw
<1>1. \A raw \in Raw : raw.txt \in Texts /\ raw.elems \in Seq(Texts)
  BY DEF Raw, Texts
<1>2. ASSUME NEW a, IsToken(a) PROVE AsRaw(a) \in Raw
  <2>1. FlagText \in Text \cup {FlagText} /\ <<FlagText>> \in Seq(Text \cup {FlagText})
    OBVIOUS
  <2>2. [txt |-> FlagText, elems |-> <<FlagText>>] \in Raw
    BY <2>1 DEF Raw
  <2>3. a.t = "word" => a.val \in Raw
    BY <1>2 DEF IsToken
  <2> QED
    BY <2>2, <2>3 DEF AsRaw
<1> QED
  BY <1>1, <1>2

(* Each step that writes fields moves. *)
LEMMA DefaultFieldMoves ==
  ASSUME TypeOK, DefaultField
  PROVE  Moves("default")
<1> DEFINE f == FieldSeq[i]
<1>1. pc = "default"
  BY DEF DefaultField
<1>2. CASE f \in DOMAIN Default
  <2>1. f \in Scalars /\ f \in Fields /\ Default[f] \in Texts
    BY <1>2, SchemaAssumption DEF Scalars, Composed, OfKind, Texts
  <2>2. Write(f, ScalarEffects(f, Default[f]), "default")
    BY <1>1, <1>2 DEF DefaultField
  <2>3. \A e \in ScalarEffects(f, Default[f]) : Good(f, e)
    BY <1>1, <2>1, ScalarGood
  <2> HIDE DEF f
  <2> QED
    BY <1>1, <2>1, <2>2, <2>3, WriteMoves
<1>3. CASE f \notin DOMAIN Default
  BY <1>1, <1>3, SkipMoves DEF DefaultField
<1> QED
  BY <1>2, <1>3

\* An environment override moves strings of the struct only.
LEMMA EnvFieldMoves ==
  ASSUME TypeOK, EnvField
  PROVE  Moves("env")
<1> DEFINE f == FieldSeq[i]
<1>1. pc = "env" /\ IsRequest(req)
  BY DEF EnvField, TypeOK
<1>2. CASE f \in Envable \cap DOMAIN req.env
  <2>1. f \in Scalars /\ f \in Fields /\ req.env[f].txt \in Texts
    BY <1>1, <1>2, RawTyped DEF Envable, Scalars, Composed, OfKind, IsRequest
  <2>2. Write(f, ScalarEffects(f, req.env[f].txt), "env")
    BY <1>1, <1>2 DEF EnvField
  <2>3. \A e \in ScalarEffects(f, req.env[f].txt) : Good(f, e)
    BY <1>1, <2>1, ScalarGood
  <2> HIDE DEF f
  <2> QED
    BY <1>1, <2>1, <2>2, <2>3, WriteMoves
<1>3. CASE f \notin Envable \cap DOMAIN req.env
  BY <1>1, <1>3, SkipMoves DEF EnvField
<1> QED
  BY <1>2, <1>3

\* A key that is stored moves strings of its field.
LEMMA StoreKeyMoves ==
  ASSUME TypeOK, pc = "ini", NEW line, line.val \in Raw, StoreKey(line)
  PROVE  Moves("ini")
<1>1. line.val.txt \in Texts /\ line.val.elems \in Seq(Texts) /\ next \in Block
  BY RawTyped DEF TypeOK
<1>2. ASSUME NEW f \in Scalars, Write(f, ScalarEffects(f, line.val.txt), pc)
      PROVE  Moves("ini")
  <2>1. f \in Fields
    BY DEF Scalars, Composed, OfKind
  <2>2. \A e \in ScalarEffects(f, line.val.txt) : Good(f, e)
    BY <1>1, ScalarGood
  <2> QED
    BY <1>2, <2>1, <2>2, WriteMoves
<1>3. ASSUME NEW f \in Lists, Write(f, ListEffects(f, line.val.elems), pc)
      PROVE  Moves("ini")
  <2>1. f \in Fields
    BY DEF Lists, OfKind
  <2>2. \A e \in ListEffects(f, line.val.elems) : Good(f, e)
    BY <1>1, ListGood
  <2> QED
    BY <1>3, <2>1, <2>2, WriteMoves
<1>4. CASE sec \in OfKind("tab") /\ cfg[cur][sec].rows # <<>>
           /\ Write(sec, LastRowEffects(cfg[cur][sec], line.val.txt), pc)
  <2>1. sec \in Fields /\ Kind[sec] = "tab"
    BY <1>4 DEF OfKind
  <2>2. cfg[cur][sec] \in Slots /\ Fits(sec, cfg[cur][sec])
    BY <2>1, SlotTyped
  <2>3. \A e \in LastRowEffects(cfg[cur][sec], line.val.txt) : Good(sec, e)
    BY <1>1, <1>4, <2>1, <2>2, LastRowGood
  <2> QED
    BY <1>4, <2>1, <2>3, WriteMoves
<1>5. CASE Skip(pc)
  BY <1>5, SkipMoves
<1> QED
  BY <1>2, <1>3, <1>4, <1>5 DEF StoreKey, StoreField

\* A new row moves to a longer array.
LEMMA OpenRowMoves ==
  ASSUME TypeOK, pc = "ini", NEW s, OpenRow(s)
  PROVE  Moves("ini")
<1>1. CASE s \in OfKind("tab") /\ Write(s, AppendRowEffects(cfg[cur][s]), pc)
  <2>1. s \in Fields /\ Kind[s] = "tab"
    BY <1>1 DEF OfKind
  <2>2. cfg[cur][s] \in Slots /\ Fits(s, cfg[cur][s]) /\ next \in Block
    BY <2>1, SlotTyped DEF TypeOK
  <2>3. \A e \in AppendRowEffects(cfg[cur][s]) : Good(s, e)
    BY <2>1, <2>2, AppendRowGood
  <2> QED
    BY <1>1, <2>1, <2>3, WriteMoves
<1>2. CASE Skip("crashed") \/ Skip(pc)
  BY <1>2, SkipMoves
<1> QED
  BY <1>1, <1>2 DEF OpenRow

(* A line of the file: the handler writes, or only the reader's state changes. *)
LEMMA IniLineMoves ==
  ASSUME TypeOK, IniLine
  PROVE  Moves("ini") /\ sec' \in Sections
<1> DEFINE line == req.ini[i]
<1>1. pc = "ini" /\ IsLine(line) /\ sec \in Sections
  <2>1. i \in 1..Len(req.ini) /\ IsRequest(req)
    BY DEF IniLine, TypeOK, IsRequest, IsSeq
  <2> QED
    BY <2>1 DEF IniLine, TypeOK, IsRequest, IsSeq
<1>2. CASE line.k = "sec" /\ sec' = line.sec /\ Skip(pc)
  BY <1>1, <1>2, SkipMoves DEF IsLine
<1>3. CASE line.k = "row" /\ sec' = line.sec /\ OpenRow(line.sec)
  <2>1. sec' \in Sections
    BY <1>1, <1>3 DEF IsLine
  <2>2. Moves("ini")
    BY <1>1, <1>3, OpenRowMoves
  <2> QED
    BY <2>1, <2>2
<1>4. CASE Skip(pc) /\ sec' = sec
  BY <1>1, <1>4, SkipMoves
<1>5. CASE line.k = "key" /\ StoreKey(line) /\ sec' = sec
  <2>1. line.val \in Raw
    BY <1>1, <1>5 DEF IsLine
  <2> HIDE DEF line
  <2> QED
    BY <1>1, <1>5, <2>1, StoreKeyMoves
<1> QED
  BY <1>2, <1>3, <1>4, <1>5 DEF IniLine

(* An argument of the command line, and its value when it takes one. *)
LEMMA ArgumentMoves ==
  ASSUME TypeOK, Argument
  PROVE  Moves("cli") /\ i' \in Nat \ {0}
<1> DEFINE a == req.cli[i]
           valued == TakesNext(a) /\ i < Len(req.cli)
           raw == IF valued THEN AsRaw(req.cli[i + 1]) ELSE a.val
<1>1. /\ pc = "cli" /\ IsRequest(req) /\ next \in Block
      /\ i \in Nat \ {0} /\ i <= Len(req.cli)
  BY DEF Argument, TypeOK
<1>2. IsSeq(req.cli) /\ \A n \in DOMAIN req.cli : IsToken(req.cli[n])
  BY <1>1 DEF IsRequest
<1>3. IsToken(a) /\ (i < Len(req.cli) => IsToken(req.cli[i + 1]))
  <2>1. i \in DOMAIN req.cli /\ (i < Len(req.cli) => i + 1 \in DOMAIN req.cli)
    BY <1>1, <1>2 DEF IsSeq
  <2> QED
    BY <2>1, <1>2
<1>4. i' \in Nat \ {0}
  <2>1. i' = i + Consumed(a, valued)
    BY DEF Argument
  <2> QED
    BY <2>1, <1>1 DEF Consumed
<1>5. valued \/ a.t = "assign" => raw \in Raw /\ a.f \in Fields
  BY <1>3, RawTyped DEF IsToken, TakesNext
<1>6. valued \/ a.t = "assign" => raw.txt \in Texts /\ raw.elems \in Seq(Texts)
  BY <1>5, RawTyped
<1>7. \/ /\ a.t = "opt" /\ Kind[a.f] = "bool"
         /\ Write(a.f, ScalarEffects(a.f, CHOOSE t \in TrueTexts : TRUE), pc)
      \/ /\ valued \/ a.t = "assign"
         /\ a.f \in Assignable \cup OfKind("enum")
         /\ Write(a.f, ScalarEffects(a.f, raw.txt), pc)
      \/ /\ valued /\ a.f \in Lists
         /\ Write(a.f, ListEffects(a.f, raw.elems), pc)
      \/ /\ valued /\ Kind[a.f] = "tab"
         /\ Write(a.f, MistypedEffects(cfg[cur][a.f], raw.elems), pc)
      \/ Skip(pc)
  BY <1>5 DEF Argument, OfKind
<1> HIDE DEF a, valued, raw
<1>8. CASE /\ a.t = "opt" /\ Kind[a.f] = "bool"
           /\ Write(a.f, ScalarEffects(a.f, CHOOSE t \in TrueTexts : TRUE), pc)
  <2>1. a.f \in Fields /\ a.f \in Scalars
    BY <1>3, <1>8 DEF IsToken, Scalars, OfKind
  <2>2. (CHOOSE t \in TrueTexts : TRUE) \in Texts
    BY SchemaAssumption DEF Texts
  <2>3. \A e \in ScalarEffects(a.f, CHOOSE t \in TrueTexts : TRUE) : Good(a.f, e)
    BY <1>1, <2>1, <2>2, ScalarGood
  <2> QED
    BY <1>1, <1>4, <1>8, <2>1, <2>3, WriteMoves
<1>9. CASE /\ valued \/ a.t = "assign"
           /\ a.f \in Assignable \cup OfKind("enum")
           /\ Write(a.f, ScalarEffects(a.f, raw.txt), pc)
  <2>1. a.f \in Fields /\ a.f \in Scalars
    BY <1>5, <1>9 DEF Assignable, Scalars, Composed, OfKind
  <2>2. \A e \in ScalarEffects(a.f, raw.txt) : Good(a.f, e)
    BY <1>1, <1>6, <1>9, <2>1, ScalarGood
  <2> QED
    BY <1>1, <1>4, <1>9, <2>1, <2>2, WriteMoves
<1>10. CASE /\ valued /\ a.f \in Lists
            /\ Write(a.f, ListEffects(a.f, raw.elems), pc)
  <2>1. \A e \in ListEffects(a.f, raw.elems) : Good(a.f, e)
    BY <1>1, <1>6, <1>10, ListGood
  <2> QED
    BY <1>1, <1>4, <1>5, <1>10, <2>1, WriteMoves
<1>11. CASE /\ valued /\ Kind[a.f] = "tab"
            /\ Write(a.f, MistypedEffects(cfg[cur][a.f], raw.elems), pc)
  <2>1. a.f \in Fields /\ cfg[cur][a.f] \in Slots /\ Fits(a.f, cfg[cur][a.f])
    BY <1>1, <1>5, <1>11, SlotTyped
  <2>2. \A e \in MistypedEffects(cfg[cur][a.f], raw.elems) : Good(a.f, e)
    BY <1>1, <1>6, <1>11, <2>1, MistypedGood
  <2> QED
    BY <1>1, <1>4, <1>11, <2>1, <2>2, WriteMoves
<1>12. CASE Skip(pc)
  BY <1>1, <1>4, <1>12, SkipMoves
<1> QED
  BY <1>7, <1>8, <1>9, <1>10, <1>11, <1>12

-----------------------------------------------------------------------------
(* Types.  The conjuncts about the structs, and those about the call. *)

StructsTyped ==
  /\ cfg \in [Cfgs -> [Fields -> Slots]]
  /\ \A c \in Cfgs : \A f \in Fields : Fits(f, cfg[c][f])
  /\ pool \in [Cfgs -> SUBSET Block]
  /\ status \in [Cfgs -> {"ZERO", "SUCCESS", "OPEN_FILE", "SYNTAX", "VALIDATION"}]

(* A zeroed struct is typed. *)
LEMMA ZeroTyped ==
  /\ ZeroStruct \in [Fields -> Slots]
  /\ \A f \in Fields : Fits(f, ZeroStruct[f])
BY ZeroFits DEF ZeroStruct

(* Zeroing one struct and emptying its pool keeps them typed. *)
LEMMA ZeroedTyped ==
  ASSUME StructsTyped, NEW c \in Cfgs,
         cfg' = [cfg EXCEPT ![c] = ZeroStruct], pool' = [pool EXCEPT ![c] = {}],
         status' \in [Cfgs -> {"ZERO", "SUCCESS", "OPEN_FILE", "SYNTAX", "VALIDATION"}]
  PROVE  StructsTyped'
<1>1. cfg' \in [Cfgs -> [Fields -> Slots]]
  BY ZeroTyped DEF StructsTyped
<1>2. \A d \in Cfgs : cfg'[d] = IF d = c THEN ZeroStruct ELSE cfg[d]
  BY DEF StructsTyped
<1>3. \A d \in Cfgs : \A f \in Fields : Fits(f, cfg'[d][f])
  BY <1>2, ZeroTyped DEF StructsTyped
<1>4. pool' \in [Cfgs -> SUBSET Block]
  <2>1. {} \in SUBSET Block
    OBVIOUS
  <2> QED
    BY <2>1 DEF StructsTyped
<1> QED
  BY <1>1, <1>3, <1>4 DEF StructsTyped

(* A step that moves and stays in the call keeps the types. *)
LEMMA MovesTyped ==
  ASSUME TypeOK, pc # "idle", NEW l \in {"default", "ini", "env", "cli"}, Moves(l),
         i' \in Nat \ {0}, sec' \in Sections, good' \in BOOLEAN,
         UNCHANGED <<pool, status, cur, req, calls>>
  PROVE  TypeOK'
<1>1. PICK new \in SUBSET (next..(next' - 1)) : live' = live \cup new /\ ctx' = ctx \cup new
  BY DEF Moves
<1>2. new \in SUBSET Block
  <2>1. next \in Block /\ next' \in Block
    BY DEF TypeOK, Moves
  <2>2. \A b \in next..(next' - 1) : b \in Block
    BY <2>1 DEF Block, Null
  <2> QED
    BY <2>2
<1>3. live' \in SUBSET Block /\ ctx' \in SUBSET Block /\ next' \in Block
  BY <1>1, <1>2 DEF TypeOK, Moves
<1>4. /\ cfg' \in [Cfgs -> [Fields -> Slots]] /\ oom' \in 0..OomBudget
      /\ \A c \in Cfgs : \A f \in Fields : Fits(f, cfg'[c][f])
  BY DEF Moves
<1>5. pc' # "idle" /\ pc' \in {"idle", "default", "ini", "env", "cli", "validate", "crashed"}
  BY DEF Moves
<1>6. IsRequest(req)' /\ cur' \in Cfgs
  <2>1. IsRequest(req) /\ cur \in Cfgs /\ req' = req /\ cur' = cur
    BY DEF TypeOK
  <2> QED
    BY <2>1 DEF IsRequest, IsSeq, IsLine, IsToken
<1> QED
  BY <1>3, <1>4, <1>5, <1>6 DEF TypeOK

(* A step that returns from the call keeps the types. *)
LEMMA ReturnTyped ==
  ASSUME TypeOK, Return, StructsTyped', live' \subseteq live, UNCHANGED <<next, oom, calls>>
  PROVE  TypeOK'
<1>1. /\ pc' = "idle" /\ cur' = None /\ ctx' = {} /\ i' \in Nat \ {0}
      /\ sec' \in Sections /\ good' \in BOOLEAN
  BY DEF Return, Sections
<1> QED
  BY <1>1 DEF TypeOK, StructsTyped

(* A call that begins keeps the types. *)
LEMMA CallTyped ==
  ASSUME TypeOK, pc = "idle", calls < MaxCalls, NEW c \in Cfgs, NEW r \in Requests,
         Load(c, r) \/ ParseCli(c, r)
  PROVE  TypeOK'
<1>1. /\ pc' \in {"default", "cli"} /\ cur' \in Cfgs /\ req' = r /\ IsRequest(r)
      /\ calls' = calls + 1
      /\ UNCHANGED <<live, next, oom, status, i, sec, good>>
  BY LoaderAssumption DEF Load, ParseCli, heapVars, dataVars
<1>2. calls' \in 0..MaxCalls
  BY <1>1, LoaderAssumption DEF TypeOK
<1>3. StructsTyped
  BY DEF TypeOK, StructsTyped
<1>4. StructsTyped' /\ ctx' \in SUBSET Block
  <2>1. CASE Load(c, r)
    <3>1. /\ cfg' = [cfg EXCEPT ![c] = ZeroStruct] /\ pool' = [pool EXCEPT ![c] = {}]
          /\ status' = status /\ ctx' = ctx
      BY <2>1 DEF Load, Clear
    <3> QED
      BY <3>1, <1>3, ZeroedTyped DEF TypeOK
  <2>2. CASE ParseCli(c, r)
    <3>1. UNCHANGED <<cfg, pool, status>> /\ ctx' = pool[c]
      BY <2>2 DEF ParseCli, dataVars
    <3> QED
      BY <3>1, <1>3 DEF StructsTyped
  <2> QED
    BY <2>1, <2>2
<1>5. IsRequest(req)'
  BY <1>1 DEF IsRequest, IsSeq, IsLine, IsToken
<1> QED
  BY <1>1, <1>2, <1>4, <1>5 DEF TypeOK, StructsTyped

(* A step that only changes pc, i and the pool of the call keeps the types. *)
LEMMA GoOnTyped ==
  ASSUME TypeOK, pc # "idle", pc' \in {"ini", "env", "cli", "validate"}, i' \in Nat \ {0},
         pool' = pool \/ pool' = [pool EXCEPT ![cur] = ctx],
         UNCHANGED <<heapVars, cfg, status, cur, req, ctx, sec, good, calls>>
  PROVE  TypeOK'
<1>1. pool' \in [Cfgs -> SUBSET Block]
  BY DEF TypeOK
<1>2. IsRequest(req)'
  BY DEF TypeOK, IsRequest, IsSeq, IsLine, IsToken
<1> QED
  BY <1>1, <1>2 DEF TypeOK, heapVars

(* The steps of a call keep the types. *)
LEMMA StepTyped ==
  ASSUME TypeOK, Step
  PROVE  TypeOK'
<1>1. StructsTyped
  BY DEF TypeOK, StructsTyped
<1>2. CASE DefaultField
  <2>1. i' \in Nat \ {0} /\ sec' = sec /\ good' = good /\ pc = "default"
        /\ UNCHANGED <<pool, status, cur, req, calls>>
    BY <1>2 DEF DefaultField, TypeOK
  <2> QED
    BY <2>1, <1>2, DefaultFieldMoves, MovesTyped DEF TypeOK
<1>3. CASE OpenIni
  <2>1. CASE FailLoad("OPEN_FILE")
    <3>1. /\ Return /\ live' \subseteq live /\ UNCHANGED <<next, oom, cfg, pool, calls>>
          /\ status' = [status EXCEPT ![cur] = "OPEN_FILE"]
      BY <2>1 DEF FailLoad
    <3>2. StructsTyped'
      BY <3>1, <1>1 DEF StructsTyped
    <3> QED
      BY <3>1, <3>2, ReturnTyped
  <2>2. CASE ~FailLoad("OPEN_FILE")
    <3>1. /\ pc # "idle" /\ pc' \in {"ini", "env"} /\ i' = 1 /\ pool' = pool
          /\ UNCHANGED <<heapVars, cfg, status, cur, req, ctx, sec, good, calls>>
      BY <1>3, <2>2 DEF OpenIni, Skip, heapVars, dataVars
    <3> QED
      BY <3>1, GoOnTyped
  <2> QED
    BY <2>1, <2>2
<1>4. CASE IniLine
  <2>1. i' = i + 1 /\ pc = "ini" /\ UNCHANGED <<pool, status, cur, req, calls>>
    BY <1>4 DEF IniLine
  <2>2. i' \in Nat \ {0}
    BY <2>1 DEF TypeOK
  <2>3. good' = good \/ good' = FALSE
    BY <1>4, Zenon DEF IniLine
  <2>4. good' \in BOOLEAN
    BY <2>3 DEF TypeOK
  <2> QED
    BY <2>1, <2>2, <2>4, <1>4, IniLineMoves, MovesTyped
<1>5. CASE EndIni
  <2>1. CASE FailLoad("SYNTAX")
    <3>1. /\ Return /\ live' \subseteq live /\ UNCHANGED <<next, oom, cfg, pool, calls>>
          /\ status' = [status EXCEPT ![cur] = "SYNTAX"]
      BY <2>1 DEF FailLoad
    <3>2. StructsTyped'
      BY <3>1, <1>1 DEF StructsTyped
    <3> QED
      BY <3>1, <3>2, ReturnTyped
  <2>2. CASE ~FailLoad("SYNTAX")
    <3>1. /\ pc # "idle" /\ pc' = "env" /\ i' = 1 /\ pool' = pool
          /\ UNCHANGED <<heapVars, cfg, status, cur, req, ctx, sec, good, calls>>
      BY <1>5, <2>2 DEF EndIni, Skip, heapVars, dataVars
    <3> QED
      BY <3>1, GoOnTyped
  <2> QED
    BY <2>1, <2>2
<1>6. CASE EnvField
  <2>1. i' \in Nat \ {0} /\ sec' = sec /\ good' = good /\ pc = "env"
        /\ UNCHANGED <<pool, status, cur, req, calls>>
    BY <1>6 DEF EnvField, TypeOK
  <2> QED
    BY <2>1, <1>6, EnvFieldMoves, MovesTyped DEF TypeOK
<1>7. CASE Publish
  <2>1. /\ pc # "idle" /\ pc' = "cli" /\ i' = 1 /\ pool' = [pool EXCEPT ![cur] = ctx]
        /\ UNCHANGED <<heapVars, cfg, status, cur, req, ctx, sec, good, calls>>
    BY <1>7 DEF Publish, Skip, heapVars
  <2> QED
    BY <2>1, GoOnTyped
<1>8. CASE Argument
  <2>1. sec' = sec /\ good' = good /\ pc = "cli" /\ UNCHANGED <<pool, status, cur, req, calls>>
    BY <1>8 DEF Argument
  <2> QED
    BY <2>1, <1>8, ArgumentMoves, MovesTyped DEF TypeOK
<1>9. CASE EndCli
  <2>1. /\ pc = "cli" /\ pool' = [pool EXCEPT ![cur] = ctx]
        /\ UNCHANGED <<heapVars, cfg, status, calls>>
    BY <1>9 DEF EndCli
  <2>2. CASE Return
    <3>1. StructsTyped' /\ live' \subseteq live /\ UNCHANGED <<next, oom, calls>>
      BY <2>1, <1>1 DEF StructsTyped, TypeOK, heapVars
    <3> QED
      BY <3>1, <2>2, ReturnTyped
  <2>3. CASE ~Return
    <3>1. pc' = "validate" /\ UNCHANGED <<cur, req, i, ctx, sec, good>>
      BY <1>9, <2>3 DEF EndCli
    <3> QED
      BY <3>1, <2>1, GoOnTyped DEF TypeOK
  <2> QED
    BY <2>2, <2>3
<1>10. CASE Validate
  <2>1. Return /\ calls' = calls /\ cur \in Cfgs
    BY <1>10 DEF Validate, TypeOK
  <2>2. CASE Invalid(cur) = {}
    <3>1. /\ status' = [status EXCEPT ![cur] = "SUCCESS"]
          /\ UNCHANGED <<live, next, oom, cfg, pool>>
      BY <1>10, <2>2 DEF Validate, heapVars
    <3>2. StructsTyped'
      BY <3>1, <1>1 DEF StructsTyped
    <3> QED
      BY <2>1, <3>1, <3>2, ReturnTyped
  <2>3. CASE Invalid(cur) # {}
    <3>1. /\ status' = [status EXCEPT ![cur] = "VALIDATION"]
          /\ cfg' = [cfg EXCEPT ![cur] = ZeroStruct] /\ pool' = [pool EXCEPT ![cur] = {}]
          /\ live' \subseteq live /\ UNCHANGED <<next, oom>>
      BY <1>10, <2>3 DEF Validate, Release
    <3>2. StructsTyped'
      <4>1. status' \in [Cfgs -> {"ZERO", "SUCCESS", "OPEN_FILE", "SYNTAX", "VALIDATION"}]
        BY <3>1, <1>1 DEF StructsTyped
      <4> QED
        BY <4>1, <3>1, <2>1, <1>1, ZeroedTyped
    <3> QED
      BY <2>1, <3>1, <3>2, ReturnTyped
  <2> QED
    BY <2>2, <2>3
<1> QED
  BY <1>2, <1>3, <1>4, <1>5, <1>6, <1>7, <1>8, <1>9, <1>10 DEF Step

(* S_free keeps the types. *)
LEMMA FreeTyped ==
  ASSUME TypeOK, pc = "idle", calls < MaxCalls, NEW c \in Cfgs, Free(c)
  PROVE  TypeOK'
<1>1. /\ cfg' = [cfg EXCEPT ![c] = ZeroStruct] /\ pool' = [pool EXCEPT ![c] = {}]
      /\ status' = [status EXCEPT ![c] = "ZERO"] /\ live' \subseteq live
      /\ calls' = calls + 1
      /\ UNCHANGED <<next, oom, pc, cur, req, i, ctx, sec, good>>
  BY DEF Free, Release
<1>2. StructsTyped'
  <2>1. StructsTyped
    BY DEF TypeOK, StructsTyped
  <2>2. status' \in [Cfgs -> {"ZERO", "SUCCESS", "OPEN_FILE", "SYNTAX", "VALIDATION"}]
    BY <1>1 DEF TypeOK
  <2> QED
    BY <2>1, <2>2, <1>1, ZeroedTyped
<1>3. calls' \in 0..MaxCalls
  BY <1>1, LoaderAssumption DEF TypeOK
<1> QED
  BY <1>1, <1>2, <1>3 DEF TypeOK, StructsTyped

(* Whatever the schema and the calls, every variable keeps its type, and     *)
(* every field holds a value of its own C type whichever layer wrote it: the *)
(* runtime conversions of codegen.c and emit_lifecycle.c.                    *)
THEOREM TypeCorrect == Spec => []TypeOK
<1>1. Init => TypeOK
  <2> SUFFICES ASSUME Init PROVE TypeOK
    OBVIOUS
  <2>1. /\ live \in SUBSET Block /\ next \in Block /\ oom \in 0..OomBudget
        /\ pool \in [Cfgs -> SUBSET Block] /\ ctx \in SUBSET Block
        /\ calls \in 0..MaxCalls
    BY LoaderAssumption DEF Init, Block, Null
  <2>2. /\ cfg \in [Cfgs -> [Fields -> Slots]]
        /\ \A c \in Cfgs : \A f \in Fields : Fits(f, cfg[c][f])
    BY ZeroTyped DEF Init
  <2>3. /\ status \in [Cfgs -> {"ZERO", "SUCCESS", "OPEN_FILE", "SYNTAX", "VALIDATION"}]
        /\ pc = "idle" /\ cur = None /\ ctx = {} /\ sec \in Sections
        /\ i \in Nat \ {0} /\ good \in BOOLEAN
    BY DEF Init, Sections
  <2> QED
    BY <2>1, <2>2, <2>3 DEF TypeOK
<1>2. TypeOK /\ [Next]_vars => TypeOK'
  <2> SUFFICES ASSUME TypeOK, [Next]_vars PROVE TypeOK'
    OBVIOUS
  <2>1. CASE pc = "idle" /\ calls < MaxCalls /\ \E c \in Cfgs : Free(c)
    BY <2>1, FreeTyped
  <2>2. CASE pc = "idle" /\ calls < MaxCalls
             /\ \E c \in Cfgs, r \in Requests : Load(c, r) \/ ParseCli(c, r)
    BY <2>2, CallTyped
  <2>3. CASE Step
    BY <2>3, StepTyped
  <2>4. CASE UNCHANGED vars
    <3>1. UNCHANGED <<live, next, oom, cfg, pool, status, pc, cur, req, i, ctx, sec, good, calls>>
      BY <2>4 DEF vars, heapVars, dataVars, callVars
    <3>2. pc # "idle" => IsRequest(req)'
      BY <3>1 DEF TypeOK, IsRequest, IsSeq, IsLine, IsToken
    <3> QED
      BY <3>1, <3>2 DEF TypeOK
  <2> QED
    BY <2>1, <2>2, <2>3, <2>4 DEF Next
<1> QED
  BY <1>1, <1>2, PTL DEF Spec

-----------------------------------------------------------------------------
(* Memory.  PoolsPartitionHeap is not inductive: between two allocations it  *)
(* rests on blocks being fresh, and across a call on how the context's pool  *)
(* and the struct's pool relate at each stage of it.                         *)
HeapInv ==
  /\ \A b \in live : b < next
  /\ PoolsPartitionHeap
  /\ pc \in {"default", "ini", "env"} => pool[cur] = {}
  /\ pc = "cli" => pool[cur] \subseteq ctx
  /\ pc = "validate" => pool[cur] = ctx

(* What each step of a call establishes about memory. *)
Kept == HeapInv' /\ (NoLeak => NoLeak') /\ OthersKept(cur)

(* The blocks a step takes are numbered below the next one. *)
LEMMA Below ==
  ASSUME NEW m \in Nat, NEW n \in Nat, NEW b \in m..(n - 1)
  PROVE  b \in Nat /\ m <= b /\ b < n
OBVIOUS

(* A step that moves takes only fresh blocks, and the context reaches them. *)
LEMMA MovesKept ==
  ASSUME TypeOK, HeapInv, pc \in {"default", "ini", "env", "cli"}, Moves(pc),
         UNCHANGED <<pool, cur>>
  PROVE  Kept
<1>1. PICK new \in SUBSET (next..(next' - 1)) : live' = live \cup new /\ ctx' = ctx \cup new
  BY DEF Moves
<1>2. /\ next \in Block /\ next' \in Block /\ next <= next' /\ live \subseteq Block
      /\ cur \in Cfgs /\ pool' = pool /\ cur' = cur /\ pc' \in {pc, "crashed"}
      /\ \A c \in Cfgs : c # cur => cfg'[c] = cfg[c]
  BY DEF TypeOK, Moves
<1>3. /\ \A b \in live : b < next
      /\ \A c \in Cfgs : pool[c] \subseteq live
      /\ ctx \subseteq live
      /\ \A c, d \in Cfgs : c # d => pool[c] \cap pool[d] = {}
      /\ \A c \in Cfgs : c # cur => pool[c] \cap ctx = {}
  BY DEF HeapInv, PoolsPartitionHeap
<1>4. \A b \in live' : b < next'
  <2>1. ASSUME NEW b \in new PROVE b < next'
    <3>1. b \in next..(next' - 1) /\ next \in Nat /\ next' \in Nat
      BY <1>2 DEF Block
    <3> QED
      BY <3>1, Below
  <2>2. ASSUME NEW b \in live PROVE b < next'
    <3>1. b \in Nat /\ b < next /\ next \in Nat /\ next' \in Nat /\ next <= next'
      BY <1>2, <1>3 DEF Block
    <3> QED
      BY ONLY <3>1
  <2> QED
    BY <1>1, <2>1, <2>2
<1>5. new \cap live = {}
  <2> SUFFICES ASSUME NEW b \in new, b \in live PROVE FALSE
    OBVIOUS
  <2>1. b \in next..(next' - 1) /\ b < next /\ next \in Nat /\ next' \in Nat
    BY <1>2, <1>3 DEF Block
  <2> QED
    BY ONLY <2>1
<1>6. PoolsPartitionHeap'
  BY <1>1, <1>2, <1>3, <1>5 DEF PoolsPartitionHeap
<1>7. /\ pc' \in {"default", "ini", "env"} => pool'[cur'] = {}
      /\ pc' = "cli" => pool'[cur'] \subseteq ctx'
      /\ pc' # "validate"
  BY <1>1, <1>2 DEF HeapInv
<1>8. NoLeak => NoLeak'
  BY <1>1, <1>2 DEF NoLeak
<1>9. OthersKept(cur)
  BY <1>1, <1>2 DEF OthersKept
<1> QED
  BY <1>4, <1>6, <1>7, <1>8, <1>9 DEF Kept, HeapInv

(* A load that fails frees what its context holds; the struct has no pool.  *)
LEMMA FailLoadKept ==
  ASSUME TypeOK, HeapInv, pc \in {"default", "ini"}, NEW code, FailLoad(code)
  PROVE  Kept
<1>1. /\ live' = live \ ctx /\ pc' = "idle" /\ cur' = None /\ ctx' = {}
      /\ next' = next /\ cfg' = cfg /\ pool' = pool
  BY DEF FailLoad, Return
<1>2. cur \in Cfgs /\ pool[cur] = {}
  BY DEF TypeOK, HeapInv
<1>3. PoolsPartitionHeap'
  BY <1>1, <1>2 DEF HeapInv, PoolsPartitionHeap
<1>4. HeapInv'
  BY <1>1, <1>3 DEF HeapInv
<1>5. NoLeak => NoLeak'
  BY <1>1 DEF NoLeak
<1>6. OthersKept(cur)
  BY <1>1, <1>2 DEF OthersKept, HeapInv, PoolsPartitionHeap
<1> QED
  BY <1>4, <1>5, <1>6 DEF Kept

(* Going on to the next stage of a load changes no memory. *)
LEMMA GoOnKept ==
  ASSUME TypeOK, HeapInv, pc \in {"default", "ini"}, pc' \in {"ini", "env"},
         UNCHANGED <<live, next, cfg, pool, cur, ctx>>
  PROVE  Kept
<1>1. HeapInv'
  BY DEF HeapInv, PoolsPartitionHeap
<1>2. NoLeak => NoLeak'
  BY DEF NoLeak
<1>3. OthersKept(cur)
  BY DEF OthersKept
<1> QED
  BY <1>1, <1>2, <1>3 DEF Kept

(* Handing the context's pool to the struct. *)
LEMMA HandOverKept ==
  ASSUME TypeOK, HeapInv, pc \in {"env", "cli"}, pool' = [pool EXCEPT ![cur] = ctx],
         UNCHANGED <<live, next, cfg>>,
         \/ pc' = "cli" /\ UNCHANGED <<cur, ctx>>
         \/ pc' = "validate" /\ UNCHANGED <<cur, ctx>>
         \/ pc' = "idle" /\ cur' = None /\ ctx' = {}
  PROVE  Kept
<1>1. /\ cur \in Cfgs /\ None \notin Cfgs
      /\ \A c \in Cfgs : pool'[c] = IF c = cur THEN ctx ELSE pool[c]
  BY LoaderAssumption DEF TypeOK
<1>2. pool[cur] \subseteq ctx
  BY DEF HeapInv
<1>3. PoolsPartitionHeap'
  BY <1>1 DEF HeapInv, PoolsPartitionHeap
<1>4. /\ pc' = "cli" => pool'[cur'] \subseteq ctx'
      /\ pc' = "validate" => pool'[cur'] = ctx'
      /\ pc' \notin {"default", "ini", "env"}
  BY <1>1
<1>5. HeapInv'
  BY <1>3, <1>4 DEF HeapInv
<1>6. NoLeak => NoLeak'
  BY <1>1, <1>2 DEF NoLeak
<1>7. OthersKept(cur)
  BY <1>1 DEF OthersKept
<1> QED
  BY <1>5, <1>6, <1>7 DEF Kept

(* Releasing a struct frees its pool and nothing of another's. *)
LEMMA ReleaseKept ==
  ASSUME TypeOK, HeapInv, NEW c \in Cfgs, Release(c), ctx \subseteq pool[c],
         pc # "crashed", pc' = "idle", cur' = None, ctx' = {}
  PROVE  HeapInv' /\ (NoLeak => NoLeak') /\ OthersKept(c)
<1>1. /\ live' = live \ pool[c] /\ next' = next
      /\ \A d \in Cfgs : pool'[d] = IF d = c THEN {} ELSE pool[d]
      /\ \A d \in Cfgs \ {c} : cfg'[d] = cfg[d]
  BY DEF Release, TypeOK
<1>2. PoolsPartitionHeap'
  BY <1>1 DEF HeapInv, PoolsPartitionHeap
<1>3. HeapInv'
  BY <1>1, <1>2 DEF HeapInv
<1>4. NoLeak => NoLeak'
  BY <1>1 DEF NoLeak
<1>5. OthersKept(c)
  BY <1>1 DEF OthersKept, HeapInv, PoolsPartitionHeap
<1> QED
  BY <1>3, <1>4, <1>5

(* The steps of a call. *)
LEMMA StepKept ==
  ASSUME TypeOK, HeapInv, Step
  PROVE  Kept
<1>1. CASE DefaultField
  <2>1. pc = "default" /\ UNCHANGED <<pool, cur>>
    BY <1>1 DEF DefaultField
  <2> QED
    BY <2>1, <1>1, DefaultFieldMoves, MovesKept
<1>2. CASE OpenIni
  <2>1. CASE FailLoad("OPEN_FILE")
    BY <1>2, <2>1, FailLoadKept DEF OpenIni
  <2>2. CASE ~FailLoad("OPEN_FILE")
    <3>1. /\ pc = "default" /\ pc' \in {"ini", "env"}
          /\ UNCHANGED <<live, next, cfg, pool, cur, ctx>>
      BY <1>2, <2>2 DEF OpenIni, Skip, dataVars
    <3> QED
      BY <3>1, GoOnKept
  <2> QED
    BY <2>1, <2>2
<1>3. CASE IniLine
  <2>1. pc = "ini" /\ UNCHANGED <<pool, cur>>
    BY <1>3 DEF IniLine
  <2> QED
    BY <2>1, <1>3, IniLineMoves, MovesKept
<1>4. CASE EndIni
  <2>1. CASE FailLoad("SYNTAX")
    BY <1>4, <2>1, FailLoadKept DEF EndIni
  <2>2. CASE ~FailLoad("SYNTAX")
    <3>1. pc = "ini" /\ pc' = "env" /\ UNCHANGED <<live, next, cfg, pool, cur, ctx>>
      BY <1>4, <2>2 DEF EndIni, Skip, dataVars
    <3> QED
      BY <3>1, GoOnKept
  <2> QED
    BY <2>1, <2>2
<1>5. CASE EnvField
  <2>1. pc = "env" /\ UNCHANGED <<pool, cur>>
    BY <1>5 DEF EnvField
  <2> QED
    BY <2>1, <1>5, EnvFieldMoves, MovesKept
<1>6. CASE Publish
  <2>1. /\ pc = "env" /\ pc' = "cli" /\ pool' = [pool EXCEPT ![cur] = ctx]
        /\ UNCHANGED <<live, next, cfg, cur, ctx>>
    BY <1>6 DEF Publish, Skip
  <2> QED
    BY <2>1, HandOverKept
<1>7. CASE Argument
  <2>1. pc = "cli" /\ UNCHANGED <<pool, cur>>
    BY <1>7 DEF Argument
  <2> QED
    BY <2>1, <1>7, ArgumentMoves, MovesKept
<1>8. CASE EndCli
  <2>1. /\ pc = "cli" /\ pool' = [pool EXCEPT ![cur] = ctx]
        /\ UNCHANGED <<live, next, cfg>>
    BY <1>8 DEF EndCli, heapVars
  <2>2. \/ pc' = "validate" /\ UNCHANGED <<cur, ctx>>
        \/ pc' = "idle" /\ cur' = None /\ ctx' = {}
    BY <1>8 DEF EndCli, Return
  <2> QED
    BY <2>1, <2>2, HandOverKept
<1>9. CASE Validate
  <2>1. /\ pc = "validate" /\ pc' = "idle" /\ cur' = None /\ ctx' = {}
        /\ cur \in Cfgs /\ pool[cur] = ctx
    BY <1>9 DEF Validate, Return, TypeOK, HeapInv
  <2>2. CASE Release(cur)
    BY <2>1, <2>2, ReleaseKept DEF Kept
  <2>3. CASE ~Release(cur)
    <3>1. UNCHANGED <<live, next, cfg, pool>>
      BY <1>9, <2>3 DEF Validate, heapVars
    <3>2. PoolsPartitionHeap'
      BY <2>1, <3>1 DEF HeapInv, PoolsPartitionHeap
    <3>3. HeapInv'
      BY <2>1, <3>1, <3>2 DEF HeapInv
    <3>4. NoLeak => NoLeak'
      BY <2>1, <3>1 DEF NoLeak
    <3>5. OthersKept(cur)
      BY <3>1 DEF OthersKept
    <3> QED
      BY <3>3, <3>4, <3>5 DEF Kept
  <2> QED
    BY <2>2, <2>3
<1> QED
  BY <1>1, <1>2, <1>3, <1>4, <1>5, <1>6, <1>7, <1>8, <1>9 DEF Step

(* A call that begins frees nothing; S_load forgets the pool of its struct,  *)
(* which is empty unless the application reloads.                            *)
LEMMA CallKept ==
  ASSUME TypeOK, HeapInv, pc = "idle", NEW c \in Cfgs, NEW r \in Requests,
         Load(c, r) \/ ParseCli(c, r)
  PROVE  HeapInv' /\ (~Reload /\ NoLeak => NoLeak') /\ OthersKept(c)
<1>1. ctx = {} /\ cur = None /\ None \notin Cfgs
  BY LoaderAssumption DEF TypeOK
<1>2. CASE Load(c, r)
  <2>1. /\ pc' = "default" /\ cur' = c /\ UNCHANGED <<live, next, ctx>>
        /\ Reload \/ pool[c] = {}
        /\ \A d \in Cfgs : pool'[d] = IF d = c THEN {} ELSE pool[d]
        /\ \A d \in Cfgs \ {c} : cfg'[d] = cfg[d]
    BY <1>2 DEF Load, Clear, heapVars, TypeOK
  <2>2. PoolsPartitionHeap'
    BY <1>1, <2>1 DEF HeapInv, PoolsPartitionHeap
  <2>3. HeapInv'
    BY <2>1, <2>2 DEF HeapInv
  <2>4. ~Reload /\ NoLeak => NoLeak'
    BY <2>1 DEF NoLeak
  <2>5. OthersKept(c)
    BY <2>1 DEF OthersKept
  <2> QED
    BY <2>3, <2>4, <2>5
<1>3. CASE ParseCli(c, r)
  <2>1. /\ pc' = "cli" /\ cur' = c /\ ctx' = pool[c]
        /\ UNCHANGED <<live, next, cfg, pool>>
    BY <1>3 DEF ParseCli, heapVars, dataVars
  <2>2. PoolsPartitionHeap'
    BY <1>1, <2>1 DEF HeapInv, PoolsPartitionHeap
  <2>3. HeapInv'
    BY <2>1, <2>2 DEF HeapInv
  <2>4. NoLeak => NoLeak'
    BY <1>1, <2>1 DEF NoLeak
  <2>5. OthersKept(c)
    BY <2>1 DEF OthersKept
  <2> QED
    BY <2>3, <2>4, <2>5
<1> QED
  BY <1>2, <1>3

(* Every step of the specification, stuttering included. *)
LEMMA NextKept ==
  ASSUME TypeOK, HeapInv, [Next]_vars
  PROVE  /\ HeapInv' /\ (~Reload /\ NoLeak => NoLeak')
         /\ [\E c \in Cfgs : (pc # "idle" => c = cur) /\ OthersKept(c)]_vars
<1>1. CASE pc = "idle" /\ \E c \in Cfgs : Free(c)
  <2>1. PICK c \in Cfgs : Free(c)
    BY <1>1
  <2>2. /\ Release(c) /\ pc' = "idle" /\ cur' = None /\ ctx' = {} /\ ctx = {}
    BY <1>1, <2>1 DEF Free, TypeOK
  <2>3. HeapInv' /\ (NoLeak => NoLeak') /\ OthersKept(c)
    BY <1>1, <2>2, ReleaseKept
  <2> QED
    BY <1>1, <2>3
<1>2. CASE pc = "idle" /\ \E c \in Cfgs, r \in Requests : Load(c, r) \/ ParseCli(c, r)
  <2>1. PICK c \in Cfgs, r \in Requests : Load(c, r) \/ ParseCli(c, r)
    BY <1>2
  <2>2. HeapInv' /\ (~Reload /\ NoLeak => NoLeak') /\ OthersKept(c)
    BY <1>2, <2>1, CallKept
  <2> QED
    BY <1>2, <2>2
<1>3. CASE Step
  <2>1. pc # "idle" /\ cur \in Cfgs
    BY <1>3 DEF Step, DefaultField, OpenIni, IniLine, EndIni, EnvField, Publish, Argument,
                EndCli, Validate, TypeOK
  <2>2. Kept
    BY <1>3, StepKept
  <2> QED
    BY <2>1, <2>2 DEF Kept
<1>4. CASE UNCHANGED vars
  <2>1. UNCHANGED <<live, next, cfg, pool, pc, cur, ctx>>
    BY <1>4 DEF vars, heapVars, dataVars, callVars
  <2> QED
    BY <1>4, <2>1 DEF HeapInv, PoolsPartitionHeap, NoLeak
<1> QED
  BY <1>1, <1>2, <1>3, <1>4 DEF Next

\* At first there is no block.
LEMMA InitHeap == Init => HeapInv /\ NoLeak
BY DEF Init, HeapInv, PoolsPartitionHeap, NoLeak

(* The strengthened invariant holds for every schema, request and failing    *)
(* malloc; the theorems on memory follow from it.                            *)
THEOREM HeapInvariant == Spec => []HeapInv
<1>1. TypeOK /\ HeapInv /\ [Next]_vars => HeapInv'
  BY NextKept
<1> QED
  BY <1>1, InitHeap, TypeCorrect, PTL DEF Spec

(* No block is in two pools or in a pool after it was freed, so cfg_pool_free *)
(* (codegen.c) never frees twice: in S_free, in a failed load or in a failed  *)
(* validation, also when applications reload, and whatever malloc does.      *)
THEOREM NoDoubleFree == Spec => []PoolsPartitionHeap
<1>1. HeapInv => PoolsPartitionHeap
  BY DEF HeapInv
<1> QED
  BY <1>1, HeapInvariant, PTL

(* When the application frees a struct before it loads it again, every block *)
(* the loader allocated is reached by a pool: no early return of S_load and  *)
(* no failing malloc loses one.                                              *)
THEOREM NothingLeaks ==
  ASSUME ~Reload
  PROVE  Spec => []NoLeak
<1>1. TypeOK /\ HeapInv /\ NoLeak /\ [Next]_vars => NoLeak'
  BY NextKept
<1> QED
  BY <1>1, InitHeap, TypeCorrect, HeapInvariant, PTL DEF Spec

(* A call on one struct leaves the others as they are and frees nothing they *)
(* hold: the generated functions share no state but malloc.                  *)
THEOREM StructsDoNotInterfere == Spec => StructsIndependent
<1>1. TypeOK /\ HeapInv /\ [Next]_vars =>
        [\E c \in Cfgs : (pc # "idle" => c = cur) /\ OthersKept(c)]_vars
  BY NextKept
<1> QED
  BY <1>1, TypeCorrect, HeapInvariant, PTL DEF Spec, StructsIndependent

(* A set of numbers has a least one.                                         *)
LEMMA NatMin ==
  ASSUME NEW T \in SUBSET Nat, T # {}
  PROVE  \E m \in T : \A k \in T : m <= k
<1> DEFINE R == OpToRel(<, Nat)
<1>1. IsWellFoundedOn(R, Nat)
  BY NatLessThanWellFounded
<1>2. \A x, y \in Nat : x < y => <<x, y>> \in R
  BY DEF OpToRel
<1> HIDE DEF R
<1>3. PICK m \in T : \A k \in T : ~(<<k, m>> \in R)
  BY <1>1, WFMin
<1>4. \A k \in T : ~(k < m)
  BY <1>2, <1>3
<1> QED
  BY <1>4

(* A set of positions that is not empty holds its least element.             *)
LEMMA LeastIs ==
  ASSUME NEW S, S \subseteq Nat, S # {}
  PROVE  LeastOf(S) \in S
BY NatMin DEF LeastOf

(* The first failing check reports a failed validation, or it was a hook     *)
(* that rejected the value.                                                  *)
LEMMA ReportsAre ==
  ASSUME TypeOK, NEW c \in Cfgs, Invalid(c) # {}, NEW e \in Reports(c)
  PROVE  e.code = "VALIDATION" \/ (HookFound(c) /\ e \in HookErrors)
<1> DEFINE n == LeastOf(Invalid(c))
           f == FieldSeq[n]
           rows == cfg[c][f].rows
           bad == {k \in DOMAIN rows : RowRejected(rows[k])}
           p == rows[LeastOf(bad)]
<1>1. n \in Invalid(c)
  <2>1. Invalid(c) \subseteq Nat
    BY SchemaAssumption DEF Invalid
  <2> QED
    BY <2>1, LeastIs
<1>2. f \in Fields /\ Fails(c, f)
  BY <1>1 DEF Invalid, Fields
<1>3. ASSUME NEW name, NEW fails \in BOOLEAN, NEW rejects \in BOOLEAN,
             e \in Messages(name, fails, rejects)
      PROVE  e.code = "VALIDATION" \/ (rejects /\ e \in HookErrors)
  BY <1>3 DEF Messages, Error
<1>4. e \in IF Rejected(c, f)
            THEN Messages(Name[f], FieldFails(c, f), HookRejects(f, View(c)[f]))
            ELSE Messages(RowKey, RowFails(p), HookRejects(RowKey, p.txt))
  BY DEF Reports
<1>5. rows \in Seq(Pointers)
  BY <1>2 DEF TypeOK, Slots
<1> HIDE DEF n, f
<1>6. CASE Rejected(c, f)
  <2>1. FieldFails(c, f) \in BOOLEAN /\ HookRejects(f, View(c)[f]) \in BOOLEAN
    BY DEF FieldFails, HookRejects
  <2>2. e.code = "VALIDATION" \/ (HookRejects(f, View(c)[f]) /\ e \in HookErrors)
    BY <1>3, <1>4, <1>6, <2>1
  <2> QED
    BY <1>2, <2>2 DEF HookFound
<1>7. CASE ~Rejected(c, f)
  <2>1. Kind[f] = "tab" /\ bad # {} /\ bad \subseteq Nat
    BY <1>2, <1>5, <1>7 DEF Fails
  <2>2. LeastOf(bad) \in bad
    BY <2>1, LeastIs
  <2>3. LeastOf(bad) \in DOMAIN rows
    BY <2>2
  <2>4. RowFails(p) \in BOOLEAN /\ HookRejects(RowKey, p.txt) \in BOOLEAN
    BY DEF RowFails, HookRejects
  <2>5. e.code = "VALIDATION" \/ (HookRejects(RowKey, p.txt) /\ e \in HookErrors)
    BY <1>3, <1>4, <1>7, <2>4
  <2> QED
    BY <1>2, <2>1, <2>3, <2>5 DEF HookFound
<1> QED
  BY <1>6, <1>7

-----------------------------------------------------------------------------
(* Errors.  The error struct follows the call: clear until a line cannot be  *)
(* parsed.                                                                   *)
ErrInv ==
  /\ pc # "idle" /\ req.mode = "load" => err.code = IF good THEN "none" ELSE "SYNTAX"
  /\ pc \in {"idle", "default", "env", "cli", "validate"} => good

\* A load that returns has the error of its status, or what its hook left.
Reported ==
  \/ err'.code = IF status'[cur] = "SUCCESS" THEN "none" ELSE status'[cur]
  \/ status'[cur] = "VALIDATION" /\ HookFound(cur) /\ err' \in HookErrors

(* One step: ErrInv is kept, and a load that returns has the error of its    *)
(* status.                                                                   *)
LEMMA NextErr ==
  ASSUME TypeOK, ErrInv, [Next]_vars
  PROVE  /\ ErrInv'
         /\ [pc # "idle" /\ pc' = "idle" /\ req.mode = "load" => Reported]_vars
<1> DEFINE Matches == pc # "idle" /\ pc' = "idle" /\ req.mode = "load" => Reported
<1> USE DEF Reported
<1>1. ASSUME pc = "idle", NEW c \in Cfgs, Free(c) PROVE ErrInv' /\ Matches
  <2>1. pc' = "idle" /\ good' = good
    BY <1>1 DEF Free
  <2> QED
    BY <2>1, <1>1 DEF ErrInv
<1>2. ASSUME pc = "idle", NEW c \in Cfgs, NEW r \in Requests, Load(c, r)
      PROVE  ErrInv' /\ Matches
  <2>1. pc' = "default" /\ good' = good /\ err' = NoError
    BY <1>2 DEF Load, Clear
  <2>2. good /\ NoError.code = "none"
    BY <1>2 DEF ErrInv, NoError
  <2> QED
    BY <2>1, <2>2 DEF ErrInv
<1>3. ASSUME pc = "idle", NEW c \in Cfgs, NEW r \in Requests, ParseCli(c, r)
      PROVE  ErrInv' /\ Matches
  <2>1. pc' = "cli" /\ good' = good /\ req' = r /\ r.mode = "cli"
    BY <1>3 DEF ParseCli
  <2>2. good
    BY <1>3 DEF ErrInv
  <2> QED
    BY <2>1, <2>2 DEF ErrInv
<1>4. ASSUME UNCHANGED <<err, req, good>>, pc' = pc \/ pc' = "crashed", pc # "idle"
      PROVE  ErrInv' /\ Matches
  BY <1>4 DEF ErrInv
<1>5. CASE DefaultField
  <2>1. UNCHANGED <<err, req, good>> /\ pc = "default" /\ pc' \in {"default", "crashed"}
    BY <1>5, DefaultFieldMoves DEF DefaultField, Moves
  <2> QED
    BY <2>1, <1>4
<1>6. CASE EnvField
  <2>1. UNCHANGED <<err, req, good>> /\ pc = "env" /\ pc' \in {"env", "crashed"}
    BY <1>6, EnvFieldMoves DEF EnvField, Moves
  <2> QED
    BY <2>1, <1>4
<1>7. CASE Argument
  <2>1. UNCHANGED <<err, req, good>> /\ pc = "cli" /\ pc' \in {"cli", "crashed"}
    BY <1>7, ArgumentMoves DEF Argument, Moves
  <2> QED
    BY <2>1, <1>4
<1>8. CASE IniLine
  <2>1. pc = "ini" /\ pc' \in {"ini", "crashed"} /\ req' = req
    BY <1>8, IniLineMoves DEF IniLine, Moves
  <2>2. CASE UNCHANGED <<good, err>>
    BY <2>1, <2>2, <1>4
  <2>3. CASE good' = FALSE /\ err' = Error("SYNTAX", None)
    <3>1. err'.code = "SYNTAX"
      BY <2>3 DEF Error
    <3> QED
      BY <2>1, <2>3, <3>1 DEF ErrInv
  <2>4. UNCHANGED <<good, err>> \/ (good' = FALSE /\ err' = Error("SYNTAX", None))
    BY <1>8, Zenon DEF IniLine
  <2> QED
    BY <2>2, <2>3, <2>4
<1>9. CASE OpenIni
  <2>1. CASE err' = Error("OPEN_FILE", None) /\ FailLoad("OPEN_FILE")
    <3>1. /\ pc' = "idle" /\ good' = TRUE /\ status' = [status EXCEPT ![cur] = "OPEN_FILE"]
          /\ err'.code = "OPEN_FILE"
      BY <2>1 DEF FailLoad, Return, Error
    <3>2. pc # "idle" /\ cur \in Cfgs
      BY <1>9 DEF OpenIni, TypeOK
    <3>3. status'[cur] = "OPEN_FILE"
      BY <3>1, <3>2 DEF TypeOK
    <3> QED
      BY <3>1, <3>3 DEF ErrInv
  <2>2. CASE Skip(IF req.file = "open" THEN "ini" ELSE "env") /\ UNCHANGED <<err, req, good>>
    <3>1. pc = "default" /\ pc' \in {"ini", "env"}
      BY <1>9, <2>2 DEF OpenIni, Skip
    <3> QED
      BY <2>2, <3>1 DEF ErrInv
  <2> QED
    BY <1>9, <2>1, <2>2 DEF OpenIni, dataVars
<1>10. CASE EndIni
  <2>1. CASE ~good /\ FailLoad("SYNTAX") /\ err' = err
    <3>1. pc' = "idle" /\ good' = TRUE /\ status' = [status EXCEPT ![cur] = "SYNTAX"]
      BY <2>1 DEF FailLoad, Return
    <3>2. pc # "idle" /\ cur \in Cfgs
      BY <1>10 DEF EndIni, TypeOK
    <3>3. status'[cur] = "SYNTAX"
      BY <3>1, <3>2 DEF TypeOK
    <3>4. req.mode = "load" => err'.code = "SYNTAX"
      BY <2>1, <3>2 DEF ErrInv
    <3> QED
      BY <3>1, <3>3, <3>4 DEF ErrInv
  <2>2. CASE good /\ Skip("env") /\ UNCHANGED <<err, req, good>>
    <3>1. pc = "ini" /\ pc' = "env"
      BY <1>10, <2>2 DEF EndIni, Skip
    <3> QED
      BY <2>2, <3>1 DEF ErrInv
  <2> QED
    BY <1>10, <2>1, <2>2 DEF EndIni, dataVars
<1>11. CASE Publish
  <2>1. pc = "env" /\ pc' = "cli" /\ UNCHANGED <<err, req, good>>
    BY <1>11 DEF Publish, Skip
  <2> QED
    BY <2>1 DEF ErrInv
<1>12. CASE EndCli
  <2>1. CASE req.mode = "load" /\ pc' = "validate" /\ UNCHANGED <<req, good, err>>
    <3>1. pc = "cli"
      BY <1>12 DEF EndCli
    <3> QED
      BY <2>1, <3>1 DEF ErrInv
  <2>2. CASE req.mode = "cli" /\ Return
    <3>1. pc' = "idle" /\ good' = TRUE
      BY <2>2 DEF Return
    <3> QED
      BY <2>2, <3>1 DEF ErrInv
  <2> QED
    BY <1>12, <2>1, <2>2 DEF EndCli
<1>13. CASE Validate
  <2>1. pc = "validate" /\ pc' = "idle" /\ good' = TRUE /\ cur \in Cfgs
    BY <1>13 DEF Validate, Return, TypeOK
  <2>2. req.mode = "load" => err.code = "none"
    BY <2>1 DEF ErrInv
  <2>3. CASE status' = [status EXCEPT ![cur] = "SUCCESS"] /\ err' = err
    <3>1. status'[cur] = "SUCCESS"
      BY <2>1, <2>3 DEF TypeOK
    <3> QED
      BY <2>1, <2>2, <2>3, <3>1 DEF ErrInv
  <2>4. CASE /\ status' = [status EXCEPT ![cur] = "VALIDATION"]
             /\ Invalid(cur) # {} /\ err' \in Reports(cur)
    <3>1. /\ status'[cur] = "VALIDATION"
          /\ err'.code = "VALIDATION" \/ (HookFound(cur) /\ err' \in HookErrors)
      BY <2>1, <2>4, ReportsAre DEF TypeOK
    <3> QED
      BY <2>1, <3>1 DEF ErrInv
  <2> QED
    BY <1>13, <2>3, <2>4 DEF Validate
<1>14. CASE UNCHANGED vars
  <2>1. UNCHANGED <<pc, req, err, good>>
    BY <1>14 DEF vars, dataVars, callVars
  <2> QED
    BY <1>14, <2>1 DEF ErrInv
<1> HIDE DEF Matches
<1>15. CASE Next
  <2>1. CASE Step
    BY <2>1, <1>5, <1>6, <1>7, <1>8, <1>9, <1>10, <1>11, <1>12, <1>13 DEF Step, Matches
  <2> QED
    BY <1>15, <2>1, <1>1, <1>2, <1>3 DEF Next, Matches
<1> QED
  BY <1>14, <1>15 DEF Matches

(* What S_load reports in the error struct is what it returns, or what a     *)
(* hook that rejected a value left there (emit_validation.c:125-136); it is  *)
(* never what an earlier call left.                                          *)
THEOREM ErrorsMatch == Spec => ErrorMatchesStatus
<1>1. Init => ErrInv
  BY DEF Init, ErrInv
<1>2. TypeOK /\ ErrInv /\ [Next]_vars => ErrInv'
  BY NextErr
<1>3. TypeOK /\ ErrInv /\ [Next]_vars =>
        [pc # "idle" /\ pc' = "idle" /\ req.mode = "load" => Reported]_vars
  BY NextErr
<1> QED
  BY <1>1, <1>2, <1>3, TypeCorrect, PTL DEF Spec, ErrorMatchesStatus, Reported

-----------------------------------------------------------------------------
(* Pointers.  A struct that was loaded or zeroed points into its own pool,   *)
(* except that a row may hold memory nobody has written: when a malloc fails *)
(* between allocating an array of strings and filling it, and when a flag    *)
(* writes strings over an array of structs.  Requests that can do that read  *)
(* unwritten memory, the others never do.                                    *)
ReadsUnwritten(r) ==
  \/ \E n \in DOMAIN r.cli : r.cli[n].t = "opt" /\ Kind[r.cli[n].f] = "tab"
  \/ /\ OomBudget > 0
     /\ \/ \E n \in DOMAIN r.cli : r.cli[n].t = "opt" /\ Kind[r.cli[n].f] = "arr"
        \/ \E n \in DOMAIN r.ini : r.ini[n].k = "key" /\ \E f \in OfKind("arr") : Name[f] = r.ini[n].key

Strays(modes) == {Wild : r \in {s \in Requests : s.mode \in modes /\ ReadsUnwritten(s)}}

(* What may stand in a struct beside pointers into its pool: a loaded one    *)
(* was written by a load and the calls of parse_cli after it, a zeroed one   *)
(* by the latter only.                                                       *)
StraysOf(s) == Strays(IF s = "SUCCESS" THEN {"load", "cli"} ELSE {"cli"})

\* What a call with request r may leave in a struct whose status was s.
Allowed(r, s) == IF r.mode = "load" THEN StraysOf("SUCCESS") ELSE StraysOf(s)

Whole == {"SUCCESS", "ZERO", "VALIDATION"}

PooledOrUnwritten ==
  \A c \in Cfgs : status[c] \in Whole /\ c # cur
    => Reachable(c) \subseteq pool[c] \cup StraysOf(status[c])

(* During a call the struct points into the context's pool: from the start   *)
(* of a load, and in parse_cli when the struct was whole before it.          *)
PoolInv ==
  /\ PooledOrUnwritten
  /\ pc \notin {"idle", "crashed"} => req \in Requests
  /\ pc = "validate" => req.mode = "load"
  /\ pc \notin {"idle", "crashed"} /\ (req.mode = "load" \/ status[cur] \in Whole)
       => Reachable(cur) \subseteq ctx \cup Allowed(req, status[cur])

(* A slot that effect e leaves over old points where old did, to the blocks  *)
(* e took, or to what W allows.                                              *)
Owns(old, e, W) == Reach(e.slot) \subseteq Reach(old) \cup e.new \cup W

(* A slot points where its block and its rows do. *)
LEMMA ReachOf ==
  ASSUME NEW slot, NEW S, slot.blk \in S \cup {Null},
         \A n \in DOMAIN slot.rows : slot.rows[n].blk \in S \cup {Null}
  PROVE  Reach(slot) \subseteq S
BY DEF Reach

(* What a slot is made of.                                                   *)
LEMMA SlotParts ==
  ASSUME NEW blk, NEW txt, NEW rows
  PROVE  Slot(blk, txt, rows).blk = blk /\ Slot(blk, txt, rows).rows = rows
BY DEF Slot

(* A row of a slot is reached from it.                                       *)
LEMMA RowReach ==
  ASSUME NEW slot, NEW n \in DOMAIN slot.rows
  PROVE  slot.rows[n].blk \in Reach(slot) \cup {Null}
BY DEF Reach

(* Writing a scalar: the string copied, or no pointer at all. *)
LEMMA ScalarOwns ==
  ASSUME TypeOK, pc # "idle", NEW f \in Scalars, NEW t \in Texts, NEW e \in ScalarEffects(f, t)
  PROVE  Owns(cfg[cur][f], e, {})
<1>1. f \in Fields /\ (Kind[f] = "str" => f \notin Composed) /\ next # Null
  BY DEF Scalars, Composed, OfKind, Block, TypeOK
<1>2. CASE Kind[f] = "str"
  <2>1. e = Effect(Slot(next, t, <<>>), {next}, 1, FALSE, FALSE) \/ e = Effect(ZeroSlot, {}, 0, TRUE, FALSE)
    BY <1>2 DEF ScalarEffects, InternEffects
  <2>2. (e.slot = Slot(next, t, <<>>) /\ e.new = {next}) \/ e.slot = Slot(Null, None, <<>>)
    BY <2>1 DEF Effect, ZeroSlot
  <2>3. e.slot.blk \in e.new \cup {Null} /\ e.slot.rows = <<>>
    BY <2>2, SlotParts
  <2>4. Reach(e.slot) \subseteq e.new
    BY <2>3 DEF Reach
  <2> QED
    BY <2>4 DEF Owns
<1>3. CASE f \in Composed
  <2>1. \A k \in DOMAIN e.slot.rows : e.slot.rows[k].blk = Null
    BY <1>1, <1>3, ScalarGood DEF Good, Fits
  <2>2. e.slot.blk = Null
    BY <1>1, <1>3 DEF ScalarEffects, ValueEffects, Effect, Slot
  <2> QED
    BY <2>1, <2>2 DEF Owns, Reach
<1>4. CASE Kind[f] # "str" /\ f \notin Composed
  <2>1. e.slot = Slot(Null, Convert(f, t), <<>>)
    BY <1>4 DEF ScalarEffects, ValueEffects, Effect
  <2>2. e.slot.blk = Null /\ e.slot.rows = <<>>
    BY <2>1, SlotParts
  <2> QED
    BY <2>2 DEF Owns, Reach
<1> QED
  BY <1>2, <1>3, <1>4

(* Splitting a text into an array: the data and the copies taken, or, when a *)
(* malloc failed, memory nobody wrote.                                       *)
LEMMA ArrayOwns ==
  ASSUME next \in Block, NEW old, NEW elems \in Seq(Texts), NEW e \in ArrayEffects(old, elems)
  PROVE  Owns(old, e, {Wild}) /\ (~e.failed => Owns(old, e, {}))
<1> DEFINE n == Len(elems)
           filled(E) == [m \in 1..n |-> IF m \in E THEN NullPtr ELSE Ptr(next + m, elems[m])]
           unread == [m \in 1..n |-> Ptr(Wild, None)]
<1>1. \/ e = Effect(old, {}, 0, TRUE, FALSE) \/ e = Effect(old, {}, 0, TRUE, TRUE)
      \/ e = Effect(ZeroSlot, {}, 0, FALSE, FALSE)
      \/ \E E \in SUBSET (1..n) :
           e = Effect(Slot(next, None, filled(E)), {next} \cup {next + m : m \in (1..n) \ E},
                      n + 1, E # {}, FALSE)
      \/ e = Effect(Slot(next, None, unread), {next}, 1, TRUE, FALSE)
      \/ e = Effect(Slot(Null, None, unread), {}, 0, TRUE, FALSE)
  BY DEF ArrayEffects
<1>2. CASE e = Effect(old, {}, 0, TRUE, FALSE) \/ e = Effect(old, {}, 0, TRUE, TRUE)
  BY <1>2 DEF Owns, Effect
<1>3. CASE e = Effect(ZeroSlot, {}, 0, FALSE, FALSE)
  <2>1. e.slot.blk = Null /\ e.slot.rows = <<>>
    BY <1>3, SlotParts DEF Effect, ZeroSlot
  <2> QED
    BY <2>1 DEF Owns, Reach
<1>4. ASSUME NEW E \in SUBSET (1..n),
             e = Effect(Slot(next, None, filled(E)), {next} \cup {next + m : m \in (1..n) \ E},
                        n + 1, E # {}, FALSE)
      PROVE  Owns(old, e, {})
  <2>1. e.slot = Slot(next, None, filled(E)) /\ e.new = {next} \cup {next + m : m \in (1..n) \ E}
    BY <1>4 DEF Effect
  <2>2. \A m \in DOMAIN filled(E) : filled(E)[m].blk \in e.new \cup {Null}
    BY <2>1 DEF NullPtr, Ptr
  <2> HIDE DEF filled
  <2>3. e.slot.blk \in e.new /\ e.slot.rows = filled(E)
    BY <2>1, SlotParts
  <2>4. Reach(e.slot) \subseteq e.new
    BY <2>2, <2>3, ReachOf
  <2> QED
    BY <2>4 DEF Owns
<1>5. CASE \/ e = Effect(Slot(next, None, unread), {next}, 1, TRUE, FALSE)
           \/ e = Effect(Slot(Null, None, unread), {}, 0, TRUE, FALSE)
  <2>1. /\ e.slot.blk \in e.new \cup {Null} /\ e.slot.rows = unread
        /\ e.failed
    BY <1>5, SlotParts DEF Effect
  <2>2. \A m \in DOMAIN unread : unread[m].blk = Wild
    BY DEF Ptr
  <2> HIDE DEF unread
  <2>3. \A m \in DOMAIN e.slot.rows : e.slot.rows[m].blk \in (e.new \cup {Wild}) \cup {Null}
    BY <2>1, <2>2
  <2>4. Reach(e.slot) \subseteq e.new \cup {Wild}
    <3> DEFINE S == e.new \cup {Wild}
    <3>1. e.slot.blk \in S \cup {Null} /\ \A m \in DOMAIN e.slot.rows : e.slot.rows[m].blk \in S \cup {Null}
      BY <2>1, <2>3
    <3> HIDE DEF S
    <3>2. Reach(e.slot) \subseteq S
      BY ONLY <3>1, ReachOf
    <3> QED
      BY <3>2 DEF S
  <2> QED
    BY <2>1, <2>4 DEF Owns
<1>6. Owns(old, e, {}) => Owns(old, e, {Wild})
  BY DEF Owns
<1> HIDE DEF filled, unread, n
<1> QED
  BY <1>1, <1>2, <1>3, <1>4, <1>5, <1>6

(* Splitting a text into numbers takes the data only. *)
LEMMA IntsOwns ==
  ASSUME next \in Block, NEW old, NEW elems \in Seq(Texts), NEW e \in IntsEffects(old, elems)
  PROVE  Owns(old, e, {})
<1> DEFINE n == Len(elems)
           read == [m \in 1..n |-> Ptr(Null, Number(elems[m]))]
           junk == [1..n -> {Ptr(Null, t) : t \in Numeric \cup {None}}]
<1>1. \/ e = Effect(old, {}, 0, TRUE, FALSE) \/ e = Effect(old, {}, 0, TRUE, TRUE)
      \/ e = Effect(ZeroSlot, {}, 0, FALSE, FALSE)
      \/ \E u \in junk \cup {read}, fl \in BOOLEAN :
           \/ e = Effect(Slot(next, None, u), {next}, 1, fl, FALSE)
           \/ e = Effect(Slot(Null, None, u), {}, 0, fl, FALSE)
  BY DEF IntsEffects
<1>2. CASE e = Effect(old, {}, 0, TRUE, FALSE) \/ e = Effect(old, {}, 0, TRUE, TRUE)
  BY <1>2 DEF Owns, Effect
<1>3. CASE e = Effect(ZeroSlot, {}, 0, FALSE, FALSE)
  <2>1. e.slot.blk = Null /\ e.slot.rows = <<>>
    BY <1>3, SlotParts DEF Effect, ZeroSlot
  <2> QED
    BY <2>1 DEF Owns, Reach
<1>4. ASSUME NEW u \in junk \cup {read}, NEW fl \in BOOLEAN,
             \/ e = Effect(Slot(next, None, u), {next}, 1, fl, FALSE)
             \/ e = Effect(Slot(Null, None, u), {}, 0, fl, FALSE)
      PROVE  Owns(old, e, {})
  <2>1. e.slot.blk \in e.new \cup {Null} /\ e.slot.rows = u
    BY <1>4, SlotParts DEF Effect
  <2>2. \A m \in DOMAIN u : u[m].blk = Null
    <3>1. \A t : Ptr(Null, t).blk = Null
      BY DEF Ptr
    <3>2. CASE u \in junk
      BY <3>1, <3>2
    <3>3. CASE u = read
      BY <3>1, <3>3
    <3> QED
      BY <3>2, <3>3
  <2> HIDE DEF junk, read
  <2>3. Reach(e.slot) \subseteq e.new
    BY <2>1, <2>2, ReachOf
  <2> QED
    BY <2>3 DEF Owns
<1> HIDE DEF junk, read
<1> QED
  BY <1>1, <1>2, <1>3, <1>4

(* An array of strings over an array of structs: the data, and rows nobody   *)
(* wrote.                                                                    *)
LEMMA MistypedOwns ==
  ASSUME next \in Block, NEW f \in Fields, Kind[f] = "tab",
         NEW old \in Slots, Fits(f, old), NEW elems \in Seq(Texts),
         NEW e \in MistypedEffects(old, elems)
  PROVE  Owns(old, e, {Wild})
<1>1. PICK d \in ArrayEffects(old, elems) :
        e = [d EXCEPT !.slot.rows = [m \in DOMAIN d.slot.rows |-> Ptr(Wild, None)]]
  BY DEF MistypedEffects
<1>2. Owns(old, d, {Wild})
  BY ArrayOwns
<1>3. \E s, nw, u, fl, cr : d = Effect(s, nw, u, fl, cr)
  BY DEF ArrayEffects
<1>4. d.slot \in Slots
  BY ArrayGood DEF Good
<1>5. /\ e.new = d.new /\ e.slot.blk = d.slot.blk
      /\ \A m \in DOMAIN e.slot.rows : e.slot.rows[m].blk = Wild
  BY <1>1, <1>3, <1>4 DEF Effect, Slots, Ptr
<1>6. d.slot.blk \in Reach(d.slot) \cup {Null}
  BY DEF Reach
<1> QED
  BY <1>2, <1>5, <1>6 DEF Owns, Reach

(* Appending a row copies the rows there were. *)
LEMMA AppendRowOwns ==
  ASSUME next \in Block, NEW old \in Slots, NEW e \in AppendRowEffects(old)
  PROVE  Owns(old, e, {})
<1> DEFINE grown(p) == Slot(next, None, Append(old.rows, p))
<1>1. \/ e = Effect(old, {}, 0, TRUE, TRUE)
      \/ e = Effect(grown(NullPtr), {next}, 1, FALSE, FALSE)
      \/ e = Effect(grown(NullPtr), {next}, 1, TRUE, FALSE)
      \/ e = Effect(grown(Ptr(next + 1, RowDefault)), {next, next + 1}, 2, FALSE, FALSE)
  BY DEF AppendRowEffects
<1>2. CASE e = Effect(old, {}, 0, TRUE, TRUE)
  BY <1>2 DEF Owns, Effect
<1>3. ASSUME NEW p, p.blk \in e.new \cup {Null}, next \in e.new, e.slot = grown(p)
      PROVE  Owns(old, e, {})
  <2>1. old.rows \in Seq(Pointers)
    BY DEF Slots
  <2>2. \A m \in DOMAIN Append(old.rows, p) :
          Append(old.rows, p)[m] = p \/ (m \in DOMAIN old.rows /\ Append(old.rows, p)[m] = old.rows[m])
    BY <2>1
  <2>3. \A m \in DOMAIN Append(old.rows, p) :
          Append(old.rows, p)[m].blk \in (Reach(old) \cup e.new) \cup {Null}
    BY <2>2, <1>3, RowReach
  <2>4. e.slot.blk = next /\ e.slot.rows = Append(old.rows, p)
    BY <1>3 DEF Slot
  <2>5. Reach(e.slot) \subseteq Reach(old) \cup e.new
    BY <2>3, <2>4, <1>3, ReachOf
  <2> QED
    BY <2>5 DEF Owns
<1>4. \/ e = Effect(old, {}, 0, TRUE, TRUE)
      \/ \E p : p.blk \in e.new \cup {Null} /\ next \in e.new /\ e.slot = grown(p)
  <2>1. NullPtr.blk = Null /\ \A b, t : Ptr(b, t).blk = b
    BY DEF NullPtr, Ptr
  <2> HIDE DEF grown
  <2> QED
    BY <1>1, <2>1 DEF Effect
<1> HIDE DEF grown
<1> QED
  BY <1>2, <1>3, <1>4

(* A key of the last row. *)
LEMMA LastRowOwns ==
  ASSUME NEW old \in Slots, NEW t, NEW e \in LastRowEffects(old, t)
  PROVE  Owns(old, e, {})
<1> DEFINE put(p) == [old EXCEPT !.rows = [old.rows EXCEPT ![Len(old.rows)] = p]]
<1>1. PICK p : e.slot = put(p) /\ p.blk \in e.new \cup {Null}
  <2>1. \/ e.slot = put(Ptr(next, t)) /\ e.new = {next}
        \/ e.slot = put(NullPtr)
    BY DEF LastRowEffects, Effect
  <2>2. NullPtr.blk = Null /\ Ptr(next, t).blk = next
    BY DEF NullPtr, Ptr
  <2> QED
    BY <2>1, <2>2
<1>2. /\ e.slot.blk = old.blk /\ e.slot.rows = [old.rows EXCEPT ![Len(old.rows)] = p]
  BY <1>1 DEF Slots
<1>3. \A m \in DOMAIN e.slot.rows :
        e.slot.rows[m] = p \/ (m \in DOMAIN old.rows /\ e.slot.rows[m] = old.rows[m])
  <2>1. old.rows \in Seq(Pointers)
    BY DEF Slots
  <2> QED
    BY <1>2, <2>1
<1>4. \A m \in DOMAIN e.slot.rows : e.slot.rows[m].blk \in Reach(old) \cup e.new \cup {Null}
  BY <1>1, <1>3, RowReach
<1>5. old.blk \in Reach(old) \cup {Null}
  BY DEF Reach
<1> QED
  BY <1>2, <1>4, <1>5 DEF Owns, Reach

(* What a step of a call does to the pointers of its struct: they are the    *)
(* old ones, or into the context's pool, or in W.                            *)
Points(W) == \A f \in Fields : Reach(cfg'[cur][f]) \subseteq Reach(cfg[cur][f]) \cup ctx' \cup W

(* What a request may leave unwritten. *)
Stray(r) == IF ReadsUnwritten(r) THEN {Wild} ELSE {}

(* A malloc fails in a write only when the budget allows one. *)
LEMMA WritePoints ==
  ASSUME TypeOK, pc # "idle", NEW f \in Fields, NEW effects, NEW l, NEW W,
         \A e \in effects : (e.failed => OomBudget > 0) => Owns(cfg[cur][f], e, W),
         Write(f, effects, l)
  PROVE  Points(W)
<1>1. PICK e \in effects :
        /\ e.failed => oom < OomBudget
        /\ ctx' = ctx \cup e.new
        /\ cfg' = [cfg EXCEPT ![cur][f] = e.slot]
  BY DEF Write
<1>2. e.failed => OomBudget > 0
  BY <1>1, LoaderAssumption DEF TypeOK
<1>3. Owns(cfg[cur][f], e, W)
  BY <1>1, <1>2
<1>4. \A g \in Fields : cfg'[cur][g] = IF g = f THEN e.slot ELSE cfg[cur][g]
  BY <1>1 DEF TypeOK
<1> QED
  BY <1>1, <1>3, <1>4 DEF Owns, Points

(* A step that writes nothing.                                               *)
LEMMA SkipPoints ==
  ASSUME NEW l, Skip(l), NEW W
  PROVE  Points(W)
BY DEF Skip, Points

(* A default.                                                                *)
LEMMA DefaultFieldPoints ==
  ASSUME TypeOK, DefaultField
  PROVE  Points(Stray(req))
<1> DEFINE f == FieldSeq[i]
<1>1. pc = "default"
  BY DEF DefaultField
<1>2. CASE f \in DOMAIN Default
  <2>1. f \in Scalars /\ f \in Fields /\ Default[f] \in Texts
    BY <1>2, SchemaAssumption DEF Scalars, Composed, OfKind, Texts
  <2>2. Write(f, ScalarEffects(f, Default[f]), "default")
    BY <1>1, <1>2 DEF DefaultField
  <2>3. \A e \in ScalarEffects(f, Default[f]) : Owns(cfg[cur][f], e, Stray(req))
    BY <1>1, <2>1, ScalarOwns DEF Owns
  <2> HIDE DEF f
  <2> QED
    BY <1>1, <2>1, <2>2, <2>3, WritePoints
<1>3. CASE f \notin DOMAIN Default
  BY <1>1, <1>3, SkipPoints DEF DefaultField
<1> QED
  BY <1>2, <1>3

(* An environment variable.                                                  *)
LEMMA EnvFieldPoints ==
  ASSUME TypeOK, EnvField
  PROVE  Points(Stray(req))
<1> DEFINE f == FieldSeq[i]
<1>1. pc = "env" /\ IsRequest(req)
  BY DEF EnvField, TypeOK
<1>2. CASE f \in Envable \cap DOMAIN req.env
  <2>1. f \in Scalars /\ f \in Fields /\ req.env[f].txt \in Texts
    BY <1>1, <1>2, RawTyped DEF Envable, Scalars, Composed, OfKind, IsRequest
  <2>2. Write(f, ScalarEffects(f, req.env[f].txt), "env")
    BY <1>1, <1>2 DEF EnvField
  <2>3. \A e \in ScalarEffects(f, req.env[f].txt) : Owns(cfg[cur][f], e, Stray(req))
    BY <1>1, <2>1, ScalarOwns DEF Owns
  <2> HIDE DEF f
  <2> QED
    BY <1>1, <2>1, <2>2, <2>3, WritePoints
<1>3. CASE f \notin Envable \cap DOMAIN req.env
  BY <1>1, <1>3, SkipPoints DEF EnvField
<1> QED
  BY <1>2, <1>3

(* Writing an array of strings leaves unwritten rows when a malloc fails. *)
LEMMA ListOwns ==
  ASSUME TypeOK, pc # "idle", NEW f \in Lists, NEW elems \in Seq(Texts), NEW W,
         Kind[f] = "arr" /\ OomBudget > 0 => Wild \in W,
         NEW e \in ListEffects(f, elems), e.failed => OomBudget > 0
  PROVE  Owns(cfg[cur][f], e, W)
<1>1. next \in Block /\ Kind[f] \in {"arr", "ints"}
  BY DEF TypeOK, Lists, OfKind
<1>2. CASE Kind[f] = "arr"
  <2>1. Owns(cfg[cur][f], e, {Wild}) /\ (~e.failed => Owns(cfg[cur][f], e, {}))
    BY <1>1, <1>2, ArrayOwns DEF ListEffects
  <2> QED
    BY <2>1, <1>2 DEF Owns
<1>3. CASE Kind[f] = "ints"
  <2>1. Owns(cfg[cur][f], e, {})
    BY <1>1, <1>3, IntsOwns DEF ListEffects
  <2> QED
    BY <2>1 DEF Owns
<1> QED
  BY <1>1, <1>2, <1>3

(* A key of the file.                                                        *)
LEMMA StoreKeyPoints ==
  ASSUME TypeOK, pc = "ini", NEW n \in DOMAIN req.ini, req.ini[n].k = "key",
         req.ini[n].val \in Raw, StoreKey(req.ini[n])
  PROVE  Points(Stray(req))
<1> DEFINE line == req.ini[n]
           W == Stray(req)
<1>1. line.val.txt \in Texts /\ line.val.elems \in Seq(Texts) /\ next \in Block
  BY RawTyped DEF TypeOK
<1>2. ASSUME NEW f \in OfKind("arr"), Name[f] = line.key, OomBudget > 0
      PROVE  Wild \in W
  BY <1>2 DEF Stray, ReadsUnwritten
<1>3. ASSUME NEW f \in Scalars, Write(f, ScalarEffects(f, line.val.txt), pc)
      PROVE  Points(W)
  <2>1. f \in Fields
    BY DEF Scalars, Composed, OfKind
  <2>2. \A e \in ScalarEffects(f, line.val.txt) : Owns(cfg[cur][f], e, W)
    BY <1>1, ScalarOwns DEF Owns
  <2> QED
    BY <1>3, <2>1, <2>2, WritePoints
<1>4. ASSUME NEW f \in Lists, Name[f] = line.key, Write(f, ListEffects(f, line.val.elems), pc)
      PROVE  Points(W)
  <2>1. f \in Fields /\ (Kind[f] = "arr" => f \in OfKind("arr"))
    BY DEF Lists, OfKind
  <2>2. Kind[f] = "arr" /\ OomBudget > 0 => Wild \in W
    BY <1>2, <1>4, <2>1
  <2> HIDE DEF W, line
  <2>3. \A e \in ListEffects(f, line.val.elems) : (e.failed => OomBudget > 0) => Owns(cfg[cur][f], e, W)
    BY <1>1, <2>2, ListOwns
  <2> QED
    BY <1>4, <2>1, <2>3, WritePoints
<1>5. CASE sec \in OfKind("tab") /\ Write(sec, LastRowEffects(cfg[cur][sec], line.val.txt), pc)
  <2>1. sec \in Fields
    BY <1>5 DEF OfKind
  <2>2. cfg[cur][sec] \in Slots
    BY <2>1, SlotTyped
  <2>3. \A e \in LastRowEffects(cfg[cur][sec], line.val.txt) : Owns(cfg[cur][sec], e, W)
    BY <2>2, LastRowOwns DEF Owns
  <2> QED
    BY <1>5, <2>1, <2>3, WritePoints
<1>6. CASE Skip(pc)
  BY <1>6, SkipPoints
<1>7. \/ \E f \in Scalars : Write(f, ScalarEffects(f, line.val.txt), pc)
      \/ \E f \in Lists : Name[f] = line.key /\ Write(f, ListEffects(f, line.val.elems), pc)
      \/ sec \in OfKind("tab") /\ Write(sec, LastRowEffects(cfg[cur][sec], line.val.txt), pc)
      \/ Skip(pc)
  BY DEF StoreKey, StoreField, Declared
<1> HIDE DEF W, line
<1> QED
  BY <1>3, <1>4, <1>5, <1>6, <1>7 DEF W

(* A header that opens a row.                                                *)
LEMMA OpenRowPoints ==
  ASSUME TypeOK, pc = "ini", NEW s, OpenRow(s), NEW W
  PROVE  Points(W)
<1>1. CASE s \in OfKind("tab") /\ Write(s, AppendRowEffects(cfg[cur][s]), pc)
  <2>1. s \in Fields
    BY <1>1 DEF OfKind
  <2>2. cfg[cur][s] \in Slots /\ next \in Block
    BY <2>1, SlotTyped DEF TypeOK
  <2>3. \A e \in AppendRowEffects(cfg[cur][s]) : Owns(cfg[cur][s], e, W)
    BY <2>2, AppendRowOwns DEF Owns
  <2> QED
    BY <1>1, <2>1, <2>3, WritePoints
<1>2. CASE Skip("crashed") \/ Skip(pc)
  BY <1>2, SkipPoints
<1> QED
  BY <1>1, <1>2 DEF OpenRow

(* A line of the file.                                                       *)
LEMMA IniLinePoints ==
  ASSUME TypeOK, IniLine
  PROVE  Points(Stray(req))
<1> DEFINE line == req.ini[i]
<1>1. pc = "ini" /\ IsLine(line) /\ i \in DOMAIN req.ini
  <2>1. i \in 1..Len(req.ini) /\ IsRequest(req)
    BY DEF IniLine, TypeOK, IsRequest, IsSeq
  <2> QED
    BY <2>1 DEF IniLine, IsRequest, IsSeq
<1>2. CASE Skip(pc)
  BY <1>2, SkipPoints
<1>3. CASE OpenRow(line.sec)
  BY <1>1, <1>3, OpenRowPoints
<1>4. CASE line.k = "key" /\ StoreKey(line)
  <2>1. line.val \in Raw
    BY <1>1, <1>4 DEF IsLine
  <2> QED
    BY <1>1, <1>4, <2>1, StoreKeyPoints
<1> QED
  BY <1>2, <1>3, <1>4 DEF IniLine

(* An argument.                                                              *)
LEMMA ArgumentPoints ==
  ASSUME TypeOK, Argument
  PROVE  Points(Stray(req))
<1> DEFINE a == req.cli[i]
           valued == TakesNext(a) /\ i < Len(req.cli)
           raw == IF valued THEN AsRaw(req.cli[i + 1]) ELSE a.val
           W == Stray(req)
<1>1. /\ pc = "cli" /\ IsRequest(req) /\ next \in Block
      /\ i \in Nat \ {0} /\ i <= Len(req.cli)
  BY DEF Argument, TypeOK
<1>2. IsSeq(req.cli) /\ \A n \in DOMAIN req.cli : IsToken(req.cli[n])
  BY <1>1 DEF IsRequest
<1>3. i \in DOMAIN req.cli /\ IsToken(a) /\ (i < Len(req.cli) => IsToken(req.cli[i + 1]))
  <2>1. i \in DOMAIN req.cli /\ (i < Len(req.cli) => i + 1 \in DOMAIN req.cli)
    BY <1>1, <1>2 DEF IsSeq
  <2> QED
    BY <2>1, <1>2
<1>4. valued \/ a.t = "assign" => raw \in Raw /\ a.f \in Fields
  BY <1>3, RawTyped DEF IsToken, TakesNext
<1>5. valued \/ a.t = "assign" => raw.txt \in Texts /\ raw.elems \in Seq(Texts)
  BY <1>4, RawTyped
<1>6. valued => a.t = "opt"
  BY DEF TakesNext
<1>7. /\ a.t = "opt" /\ Kind[a.f] = "tab" => Wild \in W
      /\ a.t = "opt" /\ Kind[a.f] = "arr" /\ OomBudget > 0 => Wild \in W
  BY <1>3 DEF Stray, ReadsUnwritten
<1>8. \/ /\ a.t = "opt" /\ Kind[a.f] = "bool"
         /\ Write(a.f, ScalarEffects(a.f, CHOOSE t \in TrueTexts : TRUE), pc)
      \/ /\ valued \/ a.t = "assign"
         /\ a.f \in Assignable \cup OfKind("enum")
         /\ Write(a.f, ScalarEffects(a.f, raw.txt), pc)
      \/ /\ valued /\ a.f \in Lists
         /\ Write(a.f, ListEffects(a.f, raw.elems), pc)
      \/ /\ valued /\ Kind[a.f] = "tab"
         /\ Write(a.f, MistypedEffects(cfg[cur][a.f], raw.elems), pc)
      \/ Skip(pc)
  BY <1>4 DEF Argument, OfKind
<1> HIDE DEF a, valued, raw, W
<1>9. CASE /\ a.t = "opt" /\ Kind[a.f] = "bool"
           /\ Write(a.f, ScalarEffects(a.f, CHOOSE t \in TrueTexts : TRUE), pc)
  <2>1. a.f \in Fields /\ a.f \in Scalars
    BY <1>3, <1>9 DEF IsToken, Scalars, OfKind
  <2>2. (CHOOSE t \in TrueTexts : TRUE) \in Texts
    BY SchemaAssumption DEF Texts
  <2>3. \A e \in ScalarEffects(a.f, CHOOSE t \in TrueTexts : TRUE) : Owns(cfg[cur][a.f], e, W)
    BY <1>1, <2>1, <2>2, ScalarOwns DEF Owns
  <2> QED
    BY <1>1, <1>9, <2>1, <2>3, WritePoints DEF W
<1>10. CASE /\ valued \/ a.t = "assign"
            /\ a.f \in Assignable \cup OfKind("enum")
            /\ Write(a.f, ScalarEffects(a.f, raw.txt), pc)
  <2>1. a.f \in Fields /\ a.f \in Scalars
    BY <1>4, <1>10 DEF Assignable, Scalars, Composed, OfKind
  <2>2. \A e \in ScalarEffects(a.f, raw.txt) : Owns(cfg[cur][a.f], e, W)
    BY <1>1, <1>5, <1>10, <2>1, ScalarOwns DEF Owns
  <2> QED
    BY <1>1, <1>10, <2>1, <2>2, WritePoints DEF W
<1>11. CASE valued /\ a.f \in Lists /\ Write(a.f, ListEffects(a.f, raw.elems), pc)
  <2>1. \A e \in ListEffects(a.f, raw.elems) : (e.failed => OomBudget > 0) => Owns(cfg[cur][a.f], e, W)
    BY <1>1, <1>5, <1>6, <1>7, <1>11, ListOwns
  <2> QED
    BY <1>1, <1>4, <1>11, <2>1, WritePoints DEF W
<1>12. CASE valued /\ Kind[a.f] = "tab" /\ Write(a.f, MistypedEffects(cfg[cur][a.f], raw.elems), pc)
  <2>1. cfg[cur][a.f] \in Slots /\ Fits(a.f, cfg[cur][a.f]) /\ a.f \in Fields
    BY <1>1, <1>4, <1>12, SlotTyped
  <2>2. Wild \in W
    BY <1>6, <1>7, <1>12
  <2>3. \A e \in MistypedEffects(cfg[cur][a.f], raw.elems) : Owns(cfg[cur][a.f], e, W)
    BY <1>1, <1>5, <1>12, <2>1, <2>2, MistypedOwns DEF Owns
  <2> QED
    BY <1>1, <1>12, <2>1, <2>3, WritePoints DEF W
<1>13. CASE Skip(pc)
  BY <1>13, SkipPoints
<1> QED
  BY <1>8, <1>9, <1>10, <1>11, <1>12, <1>13 DEF W

(* A request adds no more to its struct than is allowed. *)
LEMMA StrayAllowed ==
  ASSUME NEW r \in Requests, NEW s
  PROVE  Stray(r) \subseteq Allowed(r, s)
<1>1. r.mode \in {"load", "cli"}
  BY LoaderAssumption DEF IsRequest
<1> QED
  BY <1>1 DEF Stray, Allowed, StraysOf, Strays

(* A struct that was zeroed points nowhere. *)
LEMMA ZeroReach ==
  ASSUME NEW slots, slots = ZeroStruct
  PROVE  UNION {Reach(slots[f]) : f \in Fields} = {}
<1>1. \A f \in Fields : slots[f].blk = Null /\ slots[f].rows = <<>>
  BY SlotParts DEF ZeroStruct, ZeroSlot
<1> QED
  BY <1>1 DEF Reach

(* A step that writes keeps the pointers of its struct in the context's pool. *)
LEMMA MovesPooled ==
  ASSUME TypeOK, PoolInv, pc \in {"default", "ini", "env", "cli"}, Moves(pc),
         Points(Stray(req)), UNCHANGED <<pool, cur, req, status>>
  PROVE  PoolInv'
<1>1. /\ ctx \subseteq ctx' /\ pc' \in {pc, "crashed"} /\ cur \in Cfgs
      /\ \A c \in Cfgs : c # cur => cfg'[c] = cfg[c]
  BY DEF Moves, TypeOK
<1>2. PooledOrUnwritten'
  BY <1>1 DEF PoolInv, PooledOrUnwritten, Reachable
<1>3. Stray(req) \subseteq Allowed(req, status[cur])
  BY StrayAllowed DEF PoolInv
<1>4. Reachable(cur)' \subseteq Reachable(cur) \cup ctx' \cup Stray(req)
  BY DEF Points, Reachable
<1> QED
  BY <1>1, <1>2, <1>3, <1>4 DEF PoolInv

(* A load that fails claims nothing for its struct. *)
LEMMA FailLoadPooled ==
  ASSUME TypeOK, PoolInv, pc # "idle", NEW code \in {"OPEN_FILE", "SYNTAX"}, FailLoad(code)
  PROVE  PoolInv'
<1>1. /\ pc' = "idle" /\ UNCHANGED <<cfg, pool>> /\ cur \in Cfgs
      /\ status' = [status EXCEPT ![cur] = code]
  BY DEF FailLoad, Return, TypeOK
<1>2. status'[cur] \notin Whole /\ \A c \in Cfgs : c # cur => status'[c] = status[c]
  BY <1>1 DEF TypeOK, Whole
<1>3. PooledOrUnwritten'
  BY <1>1, <1>2 DEF PoolInv, PooledOrUnwritten, Reachable
<1> QED
  BY <1>1, <1>3 DEF PoolInv

(* Going on to the next stage leaves the pointers and the context's pool. *)
LEMMA GoOnPooled ==
  ASSUME TypeOK, PoolInv, pc \notin {"idle", "crashed"}, pc' = "validate" => req.mode = "load",
         \A c \in Cfgs : c # cur => pool'[c] = pool[c],
         UNCHANGED <<cfg, status, cur, req, ctx>>
  PROVE  PoolInv'
<1>1. PooledOrUnwritten'
  BY DEF PoolInv, PooledOrUnwritten, Reachable
<1>2. Reachable(cur)' = Reachable(cur)
  BY DEF Reachable
<1> QED
  BY <1>1, <1>2 DEF PoolInv

(* Releasing a struct leaves the others. *)
LEMMA ReleasePooled ==
  ASSUME TypeOK, PoolInv, NEW c \in Cfgs, Release(c), pc # "idle" => c = cur, pc' = "idle",
         \A d \in Cfgs : d # c => status'[d] = status[d]
  PROVE  PoolInv'
<1>1. /\ \A d \in Cfgs : d # c => cfg'[d] = cfg[d] /\ pool'[d] = pool[d]
      /\ cfg'[c] = ZeroStruct
  BY DEF Release, TypeOK
<1>2. Reachable(c)' = {}
  BY <1>1, ZeroReach DEF Reachable
<1>3. \A d \in Cfgs : d # c => d # cur
  BY LoaderAssumption DEF TypeOK
<1>4. PooledOrUnwritten'
  BY <1>1, <1>2, <1>3 DEF PoolInv, PooledOrUnwritten, Reachable
<1> QED
  BY <1>4 DEF PoolInv

(* The steps of a call. *)
LEMMA StepPooled ==
  ASSUME TypeOK, HeapInv, PoolInv, Step
  PROVE  PoolInv'
<1>1. CASE DefaultField
  <2>1. pc = "default" /\ UNCHANGED <<pool, cur, req, status>>
    BY <1>1 DEF DefaultField
  <2> QED
    BY <2>1, <1>1, DefaultFieldMoves, DefaultFieldPoints, MovesPooled
<1>2. CASE OpenIni
  <2>1. CASE FailLoad("OPEN_FILE")
    BY <1>2, <2>1, FailLoadPooled DEF OpenIni
  <2>2. CASE ~FailLoad("OPEN_FILE")
    <3>1. /\ pc = "default" /\ pc' \in {"ini", "env"}
          /\ UNCHANGED <<cfg, pool, status, cur, req, ctx>>
      BY <1>2, <2>2 DEF OpenIni, Skip, dataVars
    <3> QED
      BY <3>1, GoOnPooled
  <2> QED
    BY <2>1, <2>2
<1>3. CASE IniLine
  <2>1. pc = "ini" /\ UNCHANGED <<pool, cur, req, status>>
    BY <1>3 DEF IniLine
  <2> QED
    BY <2>1, <1>3, IniLineMoves, IniLinePoints, MovesPooled
<1>4. CASE EndIni
  <2>1. CASE FailLoad("SYNTAX")
    BY <1>4, <2>1, FailLoadPooled DEF EndIni
  <2>2. CASE ~FailLoad("SYNTAX")
    <3>1. pc = "ini" /\ pc' = "env" /\ UNCHANGED <<cfg, pool, status, cur, req, ctx>>
      BY <1>4, <2>2 DEF EndIni, Skip, dataVars
    <3> QED
      BY <3>1, GoOnPooled
  <2> QED
    BY <2>1, <2>2
<1>5. CASE EnvField
  <2>1. pc = "env" /\ UNCHANGED <<pool, cur, req, status>>
    BY <1>5 DEF EnvField
  <2> QED
    BY <2>1, <1>5, EnvFieldMoves, EnvFieldPoints, MovesPooled
<1>6. CASE Publish
  <2>1. /\ pc = "env" /\ pc' = "cli" /\ pool' = [pool EXCEPT ![cur] = ctx]
        /\ UNCHANGED <<cfg, status, cur, req, ctx>>
    BY <1>6 DEF Publish, Skip
  <2>2. \A c \in Cfgs : c # cur => pool'[c] = pool[c]
    BY <2>1 DEF TypeOK
  <2> QED
    BY <2>1, <2>2, GoOnPooled
<1>7. CASE Argument
  <2>1. pc = "cli" /\ UNCHANGED <<pool, cur, req, status>>
    BY <1>7 DEF Argument
  <2> QED
    BY <2>1, <1>7, ArgumentMoves, ArgumentPoints, MovesPooled
<1>8. CASE EndCli
  <2>1. /\ pc = "cli" /\ UNCHANGED <<cfg, status>> /\ cur \in Cfgs
        /\ \A c \in Cfgs : pool'[c] = IF c = cur THEN ctx ELSE pool[c]
    BY <1>8 DEF EndCli, TypeOK
  <2>2. CASE req.mode = "load" /\ pc' = "validate" /\ UNCHANGED <<cur, req, ctx>>
    BY <2>1, <2>2, GoOnPooled
  <2>3. CASE req.mode = "cli" /\ Return
    <3>1. pc' = "idle" /\ Allowed(req, status[cur]) = StraysOf(status[cur])
      BY <2>3 DEF Return, Allowed
    <3>2. status[cur] \in Whole => Reachable(cur) \subseteq pool'[cur] \cup StraysOf(status[cur])
      BY <2>1, <3>1 DEF PoolInv
    <3>3. PooledOrUnwritten'
      BY <2>1, <3>2 DEF PoolInv, PooledOrUnwritten, Reachable
    <3> QED
      BY <3>1, <3>3 DEF PoolInv
  <2> QED
    BY <1>8, <2>2, <2>3 DEF EndCli
<1>9. CASE Validate
  <2>1. pc = "validate" /\ pc' = "idle" /\ cur \in Cfgs
    BY <1>9 DEF Validate, Return, TypeOK
  <2>2. CASE status' = [status EXCEPT ![cur] = "SUCCESS"] /\ UNCHANGED <<cfg, pool>>
    <3>1. /\ status'[cur] = "SUCCESS" /\ \A c \in Cfgs : c # cur => status'[c] = status[c]
      BY <2>1, <2>2 DEF TypeOK
    <3>2. Reachable(cur) \subseteq pool[cur] \cup StraysOf("SUCCESS")
      BY <2>1 DEF PoolInv, HeapInv, Allowed
    <3>3. PooledOrUnwritten'
      BY <2>2, <3>1, <3>2 DEF PoolInv, PooledOrUnwritten, Reachable
    <3> QED
      BY <2>1, <3>3 DEF PoolInv
  <2>3. CASE status' = [status EXCEPT ![cur] = "VALIDATION"] /\ Release(cur)
    <3>1. \A c \in Cfgs : c # cur => status'[c] = status[c]
      BY <2>3 DEF TypeOK
    <3> QED
      BY <2>1, <2>3, <3>1, ReleasePooled
  <2> QED
    BY <1>9, <2>2, <2>3 DEF Validate
<1> QED
  BY <1>1, <1>2, <1>3, <1>4, <1>5, <1>6, <1>7, <1>8, <1>9 DEF Step

(* A load starts with a struct that points nowhere, parse_cli with the       *)
(* struct and the pool it finds.                                             *)
LEMMA CallPooled ==
  ASSUME TypeOK, PoolInv, pc = "idle", NEW c \in Cfgs, NEW r \in Requests,
         Load(c, r) \/ ParseCli(c, r)
  PROVE  PoolInv'
<1>1. cur = None /\ None \notin Cfgs
  BY LoaderAssumption DEF TypeOK
<1>2. CASE Load(c, r)
  <2>1. /\ pc' = "default" /\ cur' = c /\ req' = r /\ status' = status
        /\ cfg'[c] = ZeroStruct
        /\ \A d \in Cfgs : d # c => cfg'[d] = cfg[d] /\ pool'[d] = pool[d]
    BY <1>2 DEF Load, Clear, TypeOK
  <2>2. Reachable(c)' = {}
    BY <2>1, ZeroReach DEF Reachable
  <2>3. PooledOrUnwritten'
    BY <1>1, <2>1 DEF PoolInv, PooledOrUnwritten, Reachable
  <2> QED
    BY <2>1, <2>2, <2>3 DEF PoolInv
<1>3. CASE ParseCli(c, r)
  <2>1. /\ pc' = "cli" /\ cur' = c /\ req' = r /\ r.mode = "cli" /\ ctx' = pool[c]
        /\ UNCHANGED <<cfg, pool, status>>
    BY <1>3 DEF ParseCli, dataVars
  <2>2. PooledOrUnwritten' /\ Reachable(c)' = Reachable(c)
    BY <1>1, <2>1 DEF PoolInv, PooledOrUnwritten, Reachable
  <2>3. status[c] \in Whole => Reachable(c) \subseteq pool[c] \cup StraysOf(status[c])
    BY <1>1 DEF PoolInv, PooledOrUnwritten
  <2> QED
    BY <2>1, <2>2, <2>3 DEF PoolInv, Allowed
<1> QED
  BY <1>2, <1>3

(* A struct a successful load filled, or that S_free or a failed validation  *)
(* zeroed, points into its own pool and nowhere else, except for rows a      *)
(* request left unwritten: whatever the layers wrote, and whichever calls    *)
(* came between, also S_parse_cli on a zeroed struct (emit_lifecycle.c).     *)
THEOREM PointersArePooled == Spec => []PooledOrUnwritten
<1>1. Init => PoolInv
  <2> SUFFICES ASSUME Init PROVE PoolInv
    OBVIOUS
  <2>1. \A c \in Cfgs : Reachable(c) = {}
    BY ZeroReach DEF Init, Reachable
  <2> QED
    BY <2>1 DEF Init, PoolInv, PooledOrUnwritten
<1>2. TypeOK /\ HeapInv /\ PoolInv /\ [Next]_vars => PoolInv'
  <2> SUFFICES ASSUME TypeOK, HeapInv, PoolInv, [Next]_vars PROVE PoolInv'
    OBVIOUS
  <2>1. CASE pc = "idle" /\ \E c \in Cfgs : Free(c)
    <3>1. PICK c \in Cfgs : Free(c)
      BY <2>1
    <3>2. Release(c) /\ pc' = pc /\ \A d \in Cfgs : d # c => status'[d] = status[d]
      BY <3>1 DEF Free, TypeOK
    <3> QED
      BY <2>1, <3>2, ReleasePooled
  <2>2. CASE pc = "idle" /\ \E c \in Cfgs, r \in Requests : Load(c, r) \/ ParseCli(c, r)
    BY <2>2, CallPooled
  <2>3. CASE Step
    BY <2>3, StepPooled
  <2>4. CASE UNCHANGED vars
    BY <2>4 DEF vars, heapVars, dataVars, callVars, PoolInv, PooledOrUnwritten, Reachable
  <2> QED
    BY <2>1, <2>2, <2>3, <2>4 DEF Next
<1>3. PoolInv => PooledOrUnwritten
  BY DEF PoolInv
<1> QED
  BY <1>1, <1>2, <1>3, TypeCorrect, HeapInvariant, PTL DEF Spec

(* When no request can leave memory unwritten, one S_free gives back all a   *)
(* loaded struct points to, and nothing dangles before it.                   *)
THEOREM LoadedIsPooled ==
  ASSUME \A r \in Requests : ~ReadsUnwritten(r)
  PROVE  Spec => []SuccessIsPooled
<1>1. PooledOrUnwritten => SuccessIsPooled
  BY DEF PooledOrUnwritten, SuccessIsPooled, Whole, StraysOf, Strays
<1> QED
  BY <1>1, PointersArePooled, PTL

(* A zeroed struct, and one S_parse_cli wrote after, points into its pool,   *)
(* whatever the loads do: their failing mallocs leave nothing behind once    *)
(* the struct is freed or fails validation.                                  *)
THEOREM ZeroedIsPooled ==
  ASSUME \A r \in Requests : r.mode = "cli" => ~ReadsUnwritten(r)
  PROVE  Spec => []ZeroedPointsIntoPool
<1>1. PooledOrUnwritten => ZeroedPointsIntoPool
  BY DEF PooledOrUnwritten, ZeroedPointsIntoPool, Whole, StraysOf, Strays
<1> QED
  BY <1>1, PointersArePooled, PTL

-----------------------------------------------------------------------------
(* The promise speaks of the same schema. *)
LEMMA SameWords ==
  /\ Promise!Fields = Fields /\ \A k : Promise!OfKind(k) = OfKind(k)
  /\ Promise!Composed = Composed /\ Promise!Scalars = Scalars /\ Promise!Lists = Lists
  /\ Promise!Envable = Envable /\ Promise!Assignable = Assignable
  /\ \A a : Promise!TakesNext(a) = TakesNext(a) /\ Promise!AsRaw(a) = AsRaw(a)
  /\ \A t : Promise!Number(t) = Number(t)
  /\ \A f, t : Promise!Convert(f, t) = Convert(f, t)
<1>1. Promise!Fields = Fields
  BY DEF Promise!Fields, Fields
<1>2. \A k : Promise!OfKind(k) = OfKind(k)
  BY <1>1 DEF Promise!OfKind, OfKind
<1>3. /\ Promise!Composed = Composed /\ Promise!Lists = Lists
      /\ Promise!Assignable = Assignable
  BY <1>2 DEF Promise!Composed, Composed, Promise!Lists, Lists, Promise!Assignable, Assignable
<1>4. Promise!Scalars = Scalars
  BY <1>2, <1>3 DEF Promise!Scalars, Scalars
<1>5. Promise!Envable = Envable
  BY <1>2, <1>4 DEF Promise!Envable, Envable
<1>6. \A a : Promise!TakesNext(a) = TakesNext(a)
  BY DEF Promise!TakesNext, TakesNext
<1>7. \A a : Promise!AsRaw(a) = AsRaw(a)
  BY DEF Promise!AsRaw, AsRaw
<1>8. \A t : Promise!Number(t) = Number(t)
  BY DEF Promise!Number, Number
<1>9. \A f, t : Promise!Convert(f, t) = Convert(f, t)
  BY <1>8 DEF Promise!Convert, Convert
<1> QED
  BY <1>1, <1>2, <1>3, <1>4, <1>5, <1>6, <1>7, <1>8, <1>9

(* A set has the same size on both sides.                                    *)
LEMMA SameSize ==
  ASSUME NEW S
  PROVE  Promise!Cardinality(S) = Cardinality(S)
BY DEF Promise!Cardinality, Cardinality, Promise!IsFiniteSet, IsFiniteSet

(* The last of a set of positions is in it and after all the others.         *)
LEMMA MaxIs ==
  ASSUME NEW S, NEW m \in Nat, S \subseteq 1..m, S # {}
  PROVE  Promise!Max(S) \in S /\ \A x \in S : x <= Promise!Max(S)
<1>1. \E y \in S : \A x \in S : x <= y
  <2> DEFINE T == {m - x : x \in S}
  <2>1. \A x \in S : x \in Nat /\ x <= m /\ m - x \in Nat
    OBVIOUS
  <2>0. T \in SUBSET Nat /\ T # {}
    BY <2>1
  <2> HIDE DEF T
  <2>2. PICK t \in T : \A u \in T : t <= u
    BY <2>0, NatMin
  <2>3. PICK y \in S : t = m - y
    BY <2>2 DEF T
  <2>4. \A x \in S : m - x \in T
    BY DEF T
  <2>5. \A x \in S : m - y <= m - x /\ x \in Nat
    BY <2>1, <2>2, <2>3, <2>4
  <2>6. y \in Nat
    BY <2>1
  <2>7. \A x \in S : x <= y
    BY <2>5, <2>6
  <2> QED
    BY <2>7
<1> QED
  BY <1>1 DEF Promise!Max

-----------------------------------------------------------------------------
(* The arguments that are values *)

(* Reading the arguments from the left decides which of them are values, so  *)
(* the set of the promise is well defined and obeys its equation.            *)
LEMMA SwallowedIs ==
  ASSUME NEW cli, IsSeq(cli)
  PROVE  \A k \in DOMAIN cli :
           k \in Promise!Swallowed(cli) <=> k > 1 /\ TakesNext(cli[k - 1]) /\ k - 1 \notin Promise!Swallowed(cli)
<1> DEFINE Is(S, m) == \A k \in 1..m : k \in S <=> k > 1 /\ TakesNext(cli[k - 1]) /\ k - 1 \notin S
           T == {m \in Nat : \E S \in SUBSET (1..m) : Is(S, m)}
<1>1. 0 \in T
  <2>1. {} \in SUBSET (1..0) /\ 1..0 = {}
    OBVIOUS
  <2>2. Is({}, 0)
    BY <2>1
  <2> QED
    BY <2>1, <2>2
<1>2. ASSUME NEW m \in Nat, m \in T PROVE m + 1 \in T
  <2>1. PICK S \in SUBSET (1..m) : Is(S, m)
    BY <1>2
  <2> DEFINE R == IF m + 1 > 1 /\ TakesNext(cli[m]) /\ m \notin S THEN S \cup {m + 1} ELSE S
  <2>2. R \in SUBSET (1..(m + 1)) /\ \A k \in 1..m : k \in R <=> k \in S
    OBVIOUS
  <2>3. m + 1 \in R <=> m + 1 > 1 /\ TakesNext(cli[m]) /\ m \notin S
    OBVIOUS
  <2> HIDE DEF R
  <2>4. Is(R, m + 1)
    <3> SUFFICES ASSUME NEW k \in 1..(m + 1)
                 PROVE  k \in R <=> k > 1 /\ TakesNext(cli[k - 1]) /\ k - 1 \notin R
      OBVIOUS
    <3>1. CASE k = m + 1
      <4>1. k - 1 = m /\ (k > 1 => m \in 1..m)
        BY <3>1
      <4> QED
        BY <2>2, <2>3, <3>1, <4>1
    <3>2. CASE k # m + 1
      <4>1. k \in 1..m /\ (k > 1 => k - 1 \in 1..m)
        BY <3>2
      <4>2. k > 1 => (k - 1 \in R <=> k - 1 \in S)
        BY <2>2, <4>1
      <4>3. k \in S <=> k > 1 /\ TakesNext(cli[k - 1]) /\ k - 1 \notin S
        BY <2>1, <4>1
      <4> QED
        BY <2>2, <4>1, <4>2, <4>3
    <3> QED
      BY <3>1, <3>2
  <2> QED
    BY <2>2, <2>4
<1> HIDE DEF T
<1>3. Nat \subseteq T
  <2> SUFFICES ASSUME Nat \ T # {} PROVE FALSE
    OBVIOUS
  <2>1. PICK m \in Nat \ T : \A k \in Nat \ T : m <= k
    BY NatMin
  <2>2. m - 1 \in Nat /\ m - 1 \in T
    BY <1>1, <2>1
  <2> QED
    BY <1>2, <2>1, <2>2
<1>4. Len(cli) \in T /\ DOMAIN cli = 1..Len(cli)
  BY <1>3 DEF IsSeq
<1> DEFINE P(S) == \A k \in DOMAIN cli : k \in S <=> k > 1 /\ TakesNext(cli[k - 1]) /\ k - 1 \notin S
<1>5. \E S \in SUBSET DOMAIN cli : P(S)
  BY <1>4 DEF T
<1>6. Promise!Swallowed(cli) = CHOOSE S \in SUBSET DOMAIN cli : P(S)
  BY DEF Promise!Swallowed, Promise!TakesNext, TakesNext
<1> HIDE DEF P
<1>7. P(Promise!Swallowed(cli))
  BY <1>5, <1>6
<1> QED
  BY <1>7 DEF P

-----------------------------------------------------------------------------
(* What a layer says, read as far as position m: g is what each of its lines, *)
(* arguments or fields gives to field f, {} or one raw value.                 *)

\* The positions before m that say part k.
Wins(g, f, k, m) == {n \in DOMAIN g : n < m /\ \E raw \in g[n] : Promise!Says(f, raw, k)}

\* What the last of them gives.
LastOf(g, f, k, m) ==
  IF Wins(g, f, k, m) = {} THEN {} ELSE g[Promise!Max(Wins(g, f, k, m))]

\* A new gift replaces what was said of the parts it says.
Told(f, k, new, old) == IF \E raw \in new : Promise!Says(f, raw, k) THEN new ELSE old

\* The higher of two layers, where it says anything.
First(a, b) == IF a # {} THEN a ELSE b

(* The last position is the only one after all the others.                   *)
LEMMA MaxUnique ==
  ASSUME NEW S, NEW m \in Nat, S \subseteq 1..m, NEW x \in S, \A y \in S : y <= x
  PROVE  Promise!Max(S) = x
<1>1. Promise!Max(S) \in S /\ \A y \in S : y <= Promise!Max(S)
  BY MaxIs
<1>2. x \in 1..m /\ Promise!Max(S) \in 1..m /\ x <= Promise!Max(S) /\ Promise!Max(S) <= x
  BY <1>1
<1> QED
  BY <1>2

(* Before the first position nothing was said.                               *)
LEMMA LastNone ==
  ASSUME NEW g, NEW len \in Nat, DOMAIN g = 1..len, NEW f, NEW k
  PROVE  LastOf(g, f, k, 1) = {}
BY DEF LastOf, Wins

(* Reading position m tells what it says, and leaves the rest.               *)
LEMMA LastNext ==
  ASSUME NEW g, NEW len \in Nat, DOMAIN g = 1..len, NEW f, NEW k, NEW m \in 1..len
  PROVE  LastOf(g, f, k, m + 1) = Told(f, k, g[m], LastOf(g, f, k, m))
<1> DEFINE W == Wins(g, f, k, m)
           V == Wins(g, f, k, m + 1)
           says == \E raw \in g[m] : Promise!Says(f, raw, k)
<1>1. \A n \in 1..len : n < m + 1 <=> n < m \/ n = m
  OBVIOUS
<1>2. W \subseteq 1..len /\ V \subseteq 1..len /\ (\A n \in W : n < m) /\ m \notin W
  BY DEF Wins
<1>3. CASE says
  <2>1. V = W \cup {m}
    BY <1>1, <1>3 DEF Wins
  <2>2. m \in V /\ \A y \in V : y <= m
    BY <1>2, <2>1
  <2> HIDE DEF W, V
  <2>3. Promise!Max(V) = m
    BY <1>2, <2>2, MaxUnique
  <2> QED
    BY <1>3, <2>2, <2>3 DEF LastOf, Told, V
<1>4. CASE ~says
  <2>1. V = W
    BY <1>1, <1>4 DEF Wins
  <2> QED
    BY <1>4, <2>1 DEF LastOf, Told
<1> QED
  BY <1>3, <1>4

(* The layers *)

\* What each argument, each line and each field gives to field f in the code: of
\* an argument it takes what the promise says, save --S.f=val for some kinds.
Heard(cli, f, n) ==
  IF cli[n].t = "assign" /\ f \notin Assignable THEN {} ELSE Promise!Given(cli, f, n)
CliGifts(cli, f) == [n \in DOMAIN cli |-> Heard(cli, f, n)]

IniGifts(ini, f) ==
  [n \in DOMAIN ini |->
     IF Kind[f] # "tab" /\ n \in Promise!KeyLines(ini, Home[f], Name[f]) THEN {ini[n].val} ELSE {}]

FieldGifts(f, S) == [n \in DOMAIN FieldSeq |-> IF FieldSeq[n] = f THEN S ELSE {}]

\* What the environment and the defaults hold for a field.
EnvRaw(r, f) == IF f \in Envable \cap DOMAIN r.env THEN {r.env[f]} ELSE {}
DefRaw(f)    == IF f \in DOMAIN Default THEN {[txt |-> Default[f], elems |-> <<>>]} ELSE {}

EnvGifts(r, f) == FieldGifts(f, EnvRaw(r, f))
DefGifts(f)    == FieldGifts(f, DefRaw(f))

\* What each layer said of part k, read as far as position m.
CliBy(r, f, k, m) == LastOf(CliGifts(r.cli, f), f, k, m)
IniBy(r, f, k, m) == LastOf(IniGifts(r.ini, f), f, k, m)
EnvBy(r, f, k, m) == LastOf(EnvGifts(r, f), f, k, m)
DefBy(f, k, m)    == LastOf(DefGifts(f), f, k, m)

(* The flags that win in the promise are the last ones read to the end.      *)
LEMMA CliIs ==
  ASSUME NEW cli, IsSeq(cli), NEW f, NEW k,
         \A n \in DOMAIN cli : cli[n].t = "assign" /\ cli[n].f = f => f \in Assignable
  PROVE  Promise!CliRaw(cli, f, k) = LastOf(CliGifts(cli, f), f, k, Len(cli) + 1)
<1> DEFINE W == {n \in DOMAIN cli : \E raw \in Promise!Given(cli, f, n) : Promise!Says(f, raw, k)}
           g == CliGifts(cli, f)
<1>0. \A n \in DOMAIN cli : Heard(cli, f, n) = Promise!Given(cli, f, n)
  BY DEF Heard, Promise!Given
<1>1. Wins(g, f, k, Len(cli) + 1) = W
  <2>1. \A n \in DOMAIN cli : n < Len(cli) + 1
    BY DEF IsSeq
  <2>2. DOMAIN g = DOMAIN cli /\ \A n \in DOMAIN cli : g[n] = Promise!Given(cli, f, n)
    BY <1>0 DEF CliGifts
  <2> HIDE DEF g
  <2> QED
    BY <2>1, <2>2 DEF Wins
<1>2. W # {} => Promise!Max(W) \in DOMAIN cli
  <2>1. W \subseteq 1..Len(cli) /\ Len(cli) \in Nat /\ DOMAIN cli = 1..Len(cli)
    BY DEF IsSeq
  <2> HIDE DEF W
  <2> QED
    BY <2>1, MaxIs
<1>3. W # {} => g[Promise!Max(W)] = Promise!Given(cli, f, Promise!Max(W))
  BY <1>0, <1>2 DEF CliGifts
<1>4. Promise!CliRaw(cli, f, k) = IF W = {} THEN {} ELSE Promise!Given(cli, f, Promise!Max(W))
  BY DEF Promise!CliRaw
<1> HIDE DEF W, g
<1> QED
  BY <1>1, <1>3, <1>4 DEF LastOf, g

(* So are the lines of the file that win.                                    *)
LEMMA IniIs ==
  ASSUME NEW ini, IsSeq(ini), NEW f, NEW k
  PROVE  Promise!IniRaw(ini, f, k) = LastOf(IniGifts(ini, f), f, k, Len(ini) + 1)
<1> DEFINE K == Promise!KeyLines(ini, Home[f], Name[f])
           W == {n \in K : Promise!Says(f, ini[n].val, k)}
           g == IniGifts(ini, f)
<1>0. K \subseteq DOMAIN ini /\ DOMAIN ini = 1..Len(ini) /\ Len(ini) \in Nat /\ DOMAIN g = DOMAIN ini
  BY DEF IsSeq, Promise!KeyLines, IniGifts
<1>5. Promise!IniRaw(ini, f, k) = IF W = {} \/ Kind[f] = "tab" THEN {} ELSE {ini[Promise!Max(W)].val}
  BY DEF Promise!IniRaw
<1>6. \A n \in DOMAIN ini : g[n] = IF Kind[f] # "tab" /\ n \in K THEN {ini[n].val} ELSE {}
  BY DEF IniGifts
<1> HIDE DEF K, g
<1>1. CASE Kind[f] = "tab"
  <2>1. Wins(g, f, k, Len(ini) + 1) = {}
    BY <1>0, <1>1, <1>6 DEF Wins
  <2> QED
    BY <1>1, <1>5, <2>1 DEF LastOf, g
<1>2. CASE Kind[f] # "tab"
  <2>1. \A n \in DOMAIN ini : n < Len(ini) + 1
    BY <1>0
  <2>2. Wins(g, f, k, Len(ini) + 1) = W
    BY <1>0, <1>2, <1>6, <2>1 DEF Wins
  <2>3. W # {} => Promise!Max(W) \in W
    <3>1. W \subseteq 1..Len(ini)
      BY <1>0
    <3> HIDE DEF W
    <3> QED
      BY <1>0, <3>1, MaxIs
  <2>4. W # {} => g[Promise!Max(W)] = {ini[Promise!Max(W)].val}
    BY <1>0, <1>2, <1>6, <2>3
  <2> HIDE DEF W
  <2> QED
    BY <1>2, <1>5, <2>2, <2>4 DEF LastOf, g
<1> QED
  BY <1>1, <1>2

(* A default or an environment variable is said once, at its field.          *)
LEMMA FieldIs ==
  ASSUME NEW f \in Fields, NEW k, NEW S
  PROVE  /\ S = {} => LastOf(FieldGifts(f, S), f, k, Len(FieldSeq) + 1) = {}
         /\ \A raw : S = {raw} => LastOf(FieldGifts(f, S), f, k, Len(FieldSeq) + 1)
                                   = {x \in S : Promise!Says(f, x, k)}
<1> DEFINE len == Len(FieldSeq)
           g == FieldGifts(f, S)
           W == Wins(g, f, k, len + 1)
<1>1. len \in Nat /\ DOMAIN FieldSeq = 1..len
  BY SchemaAssumption
<1>2. PICK n \in 1..len : FieldSeq[n] = f /\ \A m \in 1..len : FieldSeq[m] = f => m = n
  BY <1>1, SchemaAssumption DEF Fields
<1>3. DOMAIN g = 1..len /\ \A m \in 1..len : g[m] = IF m = n THEN S ELSE {}
  BY <1>1, <1>2 DEF FieldGifts
<1> HIDE DEF g
<1>4. W = IF \E x \in S : Promise!Says(f, x, k) THEN {n} ELSE {}
  BY <1>1, <1>2, <1>3 DEF Wins
<1>5. W = {n} => Promise!Max(W) = n
  <2>1. n <= n /\ {n} \subseteq 1..len
    BY <1>1, <1>2
  <2> QED
    BY <1>1, <1>2, <2>1, MaxUnique
<1>6. LastOf(g, f, k, len + 1) = IF \E x \in S : Promise!Says(f, x, k) THEN S ELSE {}
  BY <1>3, <1>4, <1>5, <1>2 DEF LastOf
<1> QED
  BY <1>6 DEF g

(* Each layer of the promise is what was said of the part when that layer    *)
(* was read to its end.                                                      *)
LEMMA LayersAre ==
  ASSUME NEW r, IsRequest(r), NEW f \in Fields, NEW k, Understood(r, f)
  PROVE  Promise!Layers(r, f, k) =
           << CliBy(r, f, k, Len(r.cli) + 1), EnvBy(r, f, k, Len(FieldSeq) + 1),
              IF r.file = "open" THEN IniBy(r, f, k, Len(r.ini) + 1) ELSE {},
              DefBy(f, k, Len(FieldSeq) + 1) >>
<1>1. IsSeq(r.cli) /\ IsSeq(r.ini)
  BY DEF IsRequest
<1>2. Promise!CliRaw(r.cli, f, k) = CliBy(r, f, k, Len(r.cli) + 1)
  BY <1>1, CliIs DEF CliBy, Understood
<1>3. Promise!IniRaw(r.ini, f, k) = IniBy(r, f, k, Len(r.ini) + 1)
  BY <1>1, IniIs DEF IniBy
<1>4. {raw \in EnvRaw(r, f) : Promise!Says(f, raw, k)} = EnvBy(r, f, k, Len(FieldSeq) + 1)
  BY FieldIs DEF EnvRaw, EnvBy, EnvGifts
<1>5. {raw \in DefRaw(f) : Promise!Says(f, raw, k)} = DefBy(f, k, Len(FieldSeq) + 1)
  BY FieldIs DEF DefRaw, DefBy, DefGifts
<1>6. Promise!Layers(r, f, k) =
        << Promise!CliRaw(r.cli, f, k), {raw \in EnvRaw(r, f) : Promise!Says(f, raw, k)},
           IF r.file = "open" THEN Promise!IniRaw(r.ini, f, k) ELSE {},
           {raw \in DefRaw(f) : Promise!Says(f, raw, k)} >>
  <2>1. EnvRaw(r, f) = IF f \in EnvFields \cap DOMAIN r.env THEN {r.env[f]} ELSE {}
    BY DEF EnvRaw, Understood, Envable
  <2> QED
    BY <2>1 DEF Promise!Layers, DefRaw
<1> QED
  BY <1>2, <1>3, <1>4, <1>5, <1>6

(* The winner is what was said in the highest layer that says the part.      *)
LEMMA WinnerIs ==
  ASSUME NEW r, IsRequest(r), NEW f \in Fields, NEW k, r.file \in {"none", "open"},
         Understood(r, f)
  PROVE  Promise!Winner(r, f, k) =
           First(CliBy(r, f, k, Len(r.cli) + 1),
           First(EnvBy(r, f, k, Len(FieldSeq) + 1),
           First(IF r.file = "open" THEN IniBy(r, f, k, Len(r.ini) + 1) ELSE {},
                 DefBy(f, k, Len(FieldSeq) + 1))))
<1> DEFINE L == Promise!Layers(r, f, k)
           S == {n \in 1..4 : L[n] # {}}
<1>1. Promise!Winner(r, f, k) = IF S = {} THEN {} ELSE L[Promise!Min(S)]
  BY DEF Promise!Winner
<1>2. ASSUME NEW x \in S, \A y \in S : x <= y PROVE Promise!Min(S) = x
  <2>1. \E y \in S : \A z \in S : y <= z
    BY <1>2
  <2>2. Promise!Min(S) \in S /\ \A z \in S : Promise!Min(S) <= z
    BY <2>1 DEF Promise!Min
  <2>4. S \subseteq Nat
    OBVIOUS
  <2> HIDE DEF S
  <2>3. x <= Promise!Min(S) /\ Promise!Min(S) <= x /\ x \in Nat /\ Promise!Min(S) \in Nat
    BY <1>2, <2>2, <2>4
  <2> QED
    BY <2>3
<1>3. Promise!Winner(r, f, k) = First(L[1], First(L[2], First(L[3], L[4])))
  <2>0. \A n \in 1..4 : n \in S <=> L[n] # {}
    OBVIOUS
  <2>5. \A n \in S : n = 1 \/ n = 2 \/ n = 3 \/ n = 4
    OBVIOUS
  <2> HIDE DEF S
  <2>1. CASE L[1] # {}
    <3>1. 1 \in S /\ \A y \in S : 1 <= y
      BY <2>0, <2>1, <2>5
    <3> QED
      BY <1>1, <1>2, <2>1, <3>1 DEF First
  <2>2. CASE L[1] = {} /\ L[2] # {}
    <3>1. 2 \in S /\ \A y \in S : 2 <= y
      BY <2>0, <2>2, <2>5
    <3> QED
      BY <1>1, <1>2, <2>2, <3>1 DEF First
  <2>3. CASE L[1] = {} /\ L[2] = {} /\ L[3] # {}
    <3>1. 3 \in S /\ \A y \in S : 3 <= y
      BY <2>0, <2>3, <2>5
    <3> QED
      BY <1>1, <1>2, <2>3, <3>1 DEF First
  <2>4. CASE L[1] = {} /\ L[2] = {} /\ L[3] = {}
    <3>1. CASE L[4] # {}
      <4>1. 4 \in S /\ \A y \in S : 4 <= y
        BY <2>0, <2>4, <2>5, <3>1
      <4> QED
        BY <1>1, <1>2, <2>4, <3>1, <4>1 DEF First
    <3>2. CASE L[4] = {}
      <4>1. S = {}
        BY <2>0, <2>4, <2>5, <3>2
      <4> QED
        BY <1>1, <2>4, <3>2, <4>1 DEF First
    <3> QED
      BY <3>1, <3>2
  <2> QED
    BY <2>1, <2>2, <2>3, <2>4
<1> HIDE DEF L
<1>4. PICK b3 : b3 = IF r.file = "open" THEN IniBy(r, f, k, Len(r.ini) + 1) ELSE {}
  OBVIOUS
<1>5. L = << CliBy(r, f, k, Len(r.cli) + 1), EnvBy(r, f, k, Len(FieldSeq) + 1), b3,
             DefBy(f, k, Len(FieldSeq) + 1) >>
  BY <1>4, LayersAre DEF L
<1>6. /\ L[1] = CliBy(r, f, k, Len(r.cli) + 1)
      /\ L[2] = EnvBy(r, f, k, Len(FieldSeq) + 1)
      /\ L[3] = b3
      /\ L[4] = DefBy(f, k, Len(FieldSeq) + 1)
  BY ONLY <1>5
<1> QED
  BY <1>3, <1>4, <1>6

-----------------------------------------------------------------------------
(* What was said of part k of field f when a call stands at step j of stage p. *)

\* The file, if it was read, and everything below the flags.
IniSaid(r, f, k) == IF r.file = "open" THEN IniBy(r, f, k, Len(r.ini) + 1) ELSE {}

UnderCli(r, f, k) ==
  IF r.mode = "cli" THEN {}
  ELSE First(EnvBy(r, f, k, Len(FieldSeq) + 1),
       First(IniSaid(r, f, k), DefBy(f, k, Len(FieldSeq) + 1)))

Said(r, p, j, f, k) ==
  CASE p = "default" -> DefBy(f, k, j)
    [] p = "ini"     -> First(IniBy(r, f, k, j), DefBy(f, k, Len(FieldSeq) + 1))
    [] p = "env"     -> First(EnvBy(r, f, k, j),
                        First(IniSaid(r, f, k), DefBy(f, k, Len(FieldSeq) + 1)))
    [] p = "cli"     -> First(CliBy(r, f, k, j), UnderCli(r, f, k))
    [] OTHER         -> First(CliBy(r, f, k, Len(r.cli) + 1), UnderCli(r, f, k))

(* The stages that read a layer, what each step of one gives, and how many   *)
(* steps it has.                                                             *)
Gifts(r, p, f) ==
  CASE p = "default" -> DefGifts(f)
    [] p = "ini"     -> IniGifts(r.ini, f)
    [] p = "env"     -> EnvGifts(r, f)
    [] OTHER         -> CliGifts(r.cli, f)

Stages == {"default", "ini", "env", "cli"}

Steps(r, p) ==
  CASE p \in {"default", "env"} -> Len(FieldSeq)
    [] p = "ini"                -> Len(r.ini)
    [] OTHER                    -> Len(r.cli)

(* Past the end nothing more is said.                                        *)
LEMMA LastAll ==
  ASSUME NEW g, NEW len \in Nat, DOMAIN g = 1..len, NEW f, NEW k, NEW m \in Nat, m > len
  PROVE  LastOf(g, f, k, m) = LastOf(g, f, k, len + 1)
<1>1. \A n \in DOMAIN g : n < m <=> n < len + 1
  OBVIOUS
<1>2. Wins(g, f, k, m) = Wins(g, f, k, len + 1)
  BY <1>1 DEF Wins
<1> QED
  BY <1>2 DEF LastOf

(* A stage has one gift for each of its steps.                               *)
LEMMA GiftsAre ==
  ASSUME NEW r, IsRequest(r), NEW p \in Stages, NEW f
  PROVE  Steps(r, p) \in Nat /\ DOMAIN Gifts(r, p, f) = 1..Steps(r, p)
<1>1. /\ Len(r.ini) \in Nat /\ DOMAIN r.ini = 1..Len(r.ini)
      /\ Len(r.cli) \in Nat /\ DOMAIN r.cli = 1..Len(r.cli)
  BY DEF IsRequest, IsSeq
<1>2. Len(FieldSeq) \in Nat /\ DOMAIN FieldSeq = 1..Len(FieldSeq)
  BY SchemaAssumption
<1>3. CASE p = "default"
  BY <1>2, <1>3 DEF Gifts, Steps, DefGifts, FieldGifts
<1>4. CASE p = "ini"
  BY <1>1, <1>4 DEF Gifts, Steps, IniGifts
<1>5. CASE p = "env"
  BY <1>2, <1>5 DEF Gifts, Steps, EnvGifts, FieldGifts
<1>6. CASE p = "cli"
  BY <1>1, <1>6 DEF Gifts, Steps, CliGifts
<1> QED
  BY <1>3, <1>4, <1>5, <1>6 DEF Stages

(* A gift in a layer replaces what the layers below said.                    *)
LEMMA FirstTold ==
  ASSUME NEW f, NEW k, NEW new, NEW a, NEW b
  PROVE  First(Told(f, k, new, a), b) = Told(f, k, new, First(a, b))
BY DEF First, Told

(* A step of a stage tells its gift.                                         *)
LEMMA SaidNext ==
  ASSUME NEW r, IsRequest(r), NEW p \in Stages, NEW j \in 1..Steps(r, p), NEW f, NEW k
  PROVE  Said(r, p, j + 1, f, k) = Told(f, k, Gifts(r, p, f)[j], Said(r, p, j, f, k))
<1>1. LastOf(Gifts(r, p, f), f, k, j + 1)
        = Told(f, k, Gifts(r, p, f)[j], LastOf(Gifts(r, p, f), f, k, j))
  BY GiftsAre, LastNext
<1>3. CASE p = "default"
  BY <1>1, <1>3 DEF Gifts, Said, DefBy
<1>4. CASE p = "ini"
  BY <1>1, <1>4, FirstTold DEF Gifts, Said, IniBy
<1>5. CASE p = "env"
  BY <1>1, <1>5, FirstTold DEF Gifts, Said, EnvBy
<1>6. CASE p = "cli"
  BY <1>1, <1>6, FirstTold DEF Gifts, Said, CliBy
<1> QED
  BY <1>3, <1>4, <1>5, <1>6 DEF Stages

(* Between two stages nothing is said. *)
LEMMA SaidStart ==
  ASSUME NEW r, IsRequest(r), NEW f, NEW k
  PROVE  /\ Said(r, "default", 1, f, k) = {}
         /\ r.mode = "cli" => Said(r, "cli", 1, f, k) = {}
<1>1. DefBy(f, k, 1) = {} /\ CliBy(r, f, k, 1) = {}
  <2>1. /\ DOMAIN DefGifts(f) = 1..Len(FieldSeq) /\ Len(FieldSeq) \in Nat
        /\ DOMAIN CliGifts(r.cli, f) = 1..Len(r.cli) /\ Len(r.cli) \in Nat
    BY SchemaAssumption DEF IsRequest, IsSeq, DefGifts, FieldGifts, CliGifts
  <2> QED
    BY <2>1, LastNone DEF DefBy, CliBy
<1> QED
  BY <1>1 DEF Said, First, UnderCli

(* A stage starts with what the one before it ended with.                    *)
LEMMA SaidPhase ==
  ASSUME NEW r, IsRequest(r), NEW j \in Nat, NEW f, NEW k, r.mode = "load"
  PROVE  /\ j > Len(FieldSeq) /\ r.file = "open"
              => Said(r, "ini", 1, f, k) = Said(r, "default", j, f, k)
         /\ j > Len(FieldSeq) /\ r.file = "none"
              => Said(r, "env", 1, f, k) = Said(r, "default", j, f, k)
         /\ j > Len(r.ini) /\ r.file = "open"
              => Said(r, "env", 1, f, k) = Said(r, "ini", j, f, k)
         /\ j > Len(FieldSeq) => Said(r, "cli", 1, f, k) = Said(r, "env", j, f, k)
<1>1. /\ DOMAIN DefGifts(f) = 1..Len(FieldSeq) /\ Len(FieldSeq) \in Nat
      /\ DOMAIN EnvGifts(r, f) = 1..Len(FieldSeq)
      /\ DOMAIN IniGifts(r.ini, f) = 1..Len(r.ini) /\ Len(r.ini) \in Nat
      /\ DOMAIN CliGifts(r.cli, f) = 1..Len(r.cli) /\ Len(r.cli) \in Nat
  BY SchemaAssumption DEF IsRequest, IsSeq, DefGifts, EnvGifts, FieldGifts, CliGifts, IniGifts
<1>2. IniBy(r, f, k, 1) = {} /\ EnvBy(r, f, k, 1) = {} /\ CliBy(r, f, k, 1) = {}
  BY <1>1, LastNone DEF IniBy, EnvBy, CliBy
<1>3. j > Len(FieldSeq) => /\ DefBy(f, k, j) = DefBy(f, k, Len(FieldSeq) + 1)
                           /\ EnvBy(r, f, k, j) = EnvBy(r, f, k, Len(FieldSeq) + 1)
  BY <1>1, LastAll DEF DefBy, EnvBy
<1>4. j > Len(r.ini) => IniBy(r, f, k, j) = IniBy(r, f, k, Len(r.ini) + 1)
  BY <1>1, LastAll DEF IniBy
<1>5. \A b : First({}, b) = b
  BY DEF First
<1>6. ASSUME j > Len(FieldSeq), r.file = "open"
      PROVE  Said(r, "ini", 1, f, k) = Said(r, "default", j, f, k)
  BY <1>2, <1>3, <1>5, <1>6 DEF Said
<1>7. ASSUME j > Len(FieldSeq), r.file = "none"
      PROVE  Said(r, "env", 1, f, k) = Said(r, "default", j, f, k)
  <2>1. IniSaid(r, f, k) = {}
    BY <1>7 DEF IniSaid
  <2>2. Said(r, "env", 1, f, k)
          = First(EnvBy(r, f, k, 1), First(IniSaid(r, f, k), DefBy(f, k, Len(FieldSeq) + 1)))
    BY DEF Said
  <2>3. Said(r, "default", j, f, k) = DefBy(f, k, j)
    BY DEF Said
  <2> QED
    BY <1>2, <1>3, <1>5, <1>7, <2>1, <2>2, <2>3
<1>8. ASSUME j > Len(r.ini), r.file = "open"
      PROVE  Said(r, "env", 1, f, k) = Said(r, "ini", j, f, k)
  BY <1>2, <1>4, <1>5, <1>8 DEF Said, IniSaid
<1>9. ASSUME j > Len(FieldSeq)
      PROVE  Said(r, "cli", 1, f, k) = Said(r, "env", j, f, k)
  BY <1>2, <1>3, <1>5, <1>9 DEF Said, UnderCli
<1> QED
  BY <1>6, <1>7, <1>8, <1>9

(* At the end of the flags everything was said: a load knows the winners, a  *)
(* call of parse_cli the flags that win.                                     *)
LEMMA SaidEnd ==
  ASSUME NEW r, IsRequest(r), NEW j \in Nat, j > Len(r.cli), NEW f \in Fields, NEW k
  PROVE  /\ \A l : Said(r, "validate", l, f, k) = Said(r, "cli", j, f, k)
         /\ r.mode = "cli" /\ Understood(r, f)
              => Said(r, "cli", j, f, k) = Promise!CliRaw(r.cli, f, k)
         /\ r.mode = "load" /\ r.file # "missing" /\ Understood(r, f)
              => Said(r, "cli", j, f, k) = Promise!Winner(r, f, k)
<1>1. /\ DOMAIN CliGifts(r.cli, f) = 1..Len(r.cli) /\ Len(r.cli) \in Nat /\ IsSeq(r.cli)
      /\ r.file \in {"none", "missing", "open"} 
  BY DEF IsRequest, IsSeq, CliGifts
<1>2. CliBy(r, f, k, j) = CliBy(r, f, k, Len(r.cli) + 1)
  BY <1>1, LastAll DEF CliBy
<1>3. \A l : Said(r, "validate", l, f, k) = Said(r, "cli", j, f, k)
  BY <1>2 DEF Said
<1>4. ASSUME r.mode = "cli", Understood(r, f)
      PROVE  Said(r, "cli", j, f, k) = Promise!CliRaw(r.cli, f, k)
  <2>1. Promise!CliRaw(r.cli, f, k) = CliBy(r, f, k, Len(r.cli) + 1)
    BY <1>1, <1>4, CliIs DEF CliBy, Understood
  <2> QED
    BY <1>2, <1>4, <2>1 DEF Said, UnderCli, First
<1>5. ASSUME r.mode = "load", r.file # "missing", Understood(r, f)
      PROVE  Said(r, "cli", j, f, k) = Promise!Winner(r, f, k)
  BY <1>1, <1>2, <1>5, WinnerIs DEF Said, UnderCli, IniSaid
<1> QED
  BY <1>3, <1>4, <1>5

-----------------------------------------------------------------------------
(* What a field holds, and what it is meant to hold: S[k] is what was said of *)
(* its part k, b the value it has where nothing was said.                     *)

\* A slot as the application reads it.
Shown(f, slot) == IF f \in Scalars \ Composed THEN slot.txt ELSE RowTexts(slot)

\* Part k of what was there.
Had(b, k) == IF k \in DOMAIN b THEN {b[k]} ELSE {}

MeantParts(f, S, b) ==
  [k \in 1..4 |-> IF S[k] = {} THEN Had(b, k) ELSE Promise!PartOf(f, S[k], k)]

\* The value that what was said makes of b.
Meant(f, S, b) ==
  IF f \in Composed THEN Promise!Assembled(MeantParts(f, S, b))
  ELSE IF S[1] = {} THEN b ELSE Promise!Value(f, CHOOSE raw \in S[1] : TRUE)

\* The slot holds it, but a string may be lost when mallocs fail.
Agrees(f, slot, S, b) ==
  /\ Kind[f] = "str" => slot.txt \in {Meant(f, S, b), None}
  /\ OomBudget = 0 => Shown(f, slot) = Meant(f, S, b)

\* A gift, told to all parts.
TellAll(f, new, S) == [k \in 1..4 |-> Told(f, k, new, S[k])]

(* An effect that writes raw to field f. *)
Takes(f, raw, old, e) ==
  /\ Kind[f] = "str" => e.slot.txt \in {raw.txt, None} /\ (~e.failed => e.slot.txt = raw.txt)
  /\ Kind[f] \in {"num", "bool"} => e.slot.txt = Convert(f, raw.txt)
  /\ f \in Composed => e.slot.rows = Patched(old.rows, Parts[f][raw.txt])
  /\ f \in Lists /\ ~e.failed => RowTexts(e.slot) = Promise!Value(f, raw)

(* An effect of a scalar writes its value, or loses a string.                *)
LEMMA ScalarTakes ==
  ASSUME NEW f \in Scalars, NEW raw, NEW e \in ScalarEffects(f, raw.txt)
  PROVE  Takes(f, raw, cfg[cur][f], e) /\ ~e.crash
<1>1. CASE Kind[f] = "str"
  <2>1. \/ e = Effect(Slot(next, raw.txt, <<>>), {next}, 1, FALSE, FALSE)
        \/ e = Effect(ZeroSlot, {}, 0, TRUE, FALSE)
    BY <1>1 DEF ScalarEffects, InternEffects
  <2>2. /\ e.slot.txt = raw.txt \/ (e.failed /\ e.slot.txt = None)
        /\ ~e.crash
    BY <2>1 DEF Effect, Slot, ZeroSlot
  <2> QED
    BY <1>1, <2>2 DEF Takes, Composed, Lists, OfKind
<1>2. CASE Kind[f] # "str"
  <2>1. e = Effect(IF f \in Composed THEN Slot(Null, None, Patched(cfg[cur][f].rows, Parts[f][raw.txt]))
                   ELSE Slot(Null, Convert(f, raw.txt), <<>>), {}, 0, FALSE, FALSE)
    BY <1>2 DEF ScalarEffects, ValueEffects
  <2>2. /\ f \in Composed => e.slot.rows = Patched(cfg[cur][f].rows, Parts[f][raw.txt])
        /\ f \notin Composed => e.slot.txt = Convert(f, raw.txt)
        /\ ~e.crash
    BY <2>1 DEF Effect, Slot
  <2>3. f \notin Lists /\ (Kind[f] \in {"num", "bool"} => f \notin Composed)
    BY DEF Scalars, Composed, Lists, OfKind
  <2> QED
    BY <1>2, <2>2, <2>3 DEF Takes
<1> QED
  BY <1>1, <1>2

(* No rows, no texts.                                                        *)
LEMMA NoRows ==
  ASSUME NEW slot, slot.rows = <<>>
  PROVE  RowTexts(slot) = <<>>
BY DEF RowTexts

(* An effect of a list that does not fail writes its elements.               *)
LEMMA ListTakes ==
  ASSUME NEW f \in Lists, NEW raw, raw.elems \in Seq(Texts), NEW e \in ListEffects(f, raw.elems)
  PROVE  Takes(f, raw, cfg[cur][f], e) /\ (e.crash => e.failed)
<1> DEFINE n == Len(raw.elems)
<1>0. n \in Nat /\ DOMAIN raw.elems = 1..n /\ raw.elems = [m \in 1..n |-> raw.elems[m]]
  OBVIOUS
<1>1. Kind[f] \in {"arr", "ints"} /\ f \notin Composed
  BY DEF Lists, Composed, OfKind
<1>2. CASE Kind[f] = "arr"
  <2> DEFINE filled(E) == [m \in 1..n |-> IF m \in E THEN NullPtr ELSE Ptr(next + m, raw.elems[m])]
             whole(E) == Effect(Slot(next, None, filled(E)),
                                {next} \cup {next + m : m \in (1..n) \ E}, n + 1, E # {}, FALSE)
  <2>1. \/ e.failed
        \/ e = Effect(ZeroSlot, {}, 0, FALSE, FALSE) /\ n = 0
        \/ e = whole({})
    <3>1. \/ e = Effect(cfg[cur][f], {}, 0, TRUE, FALSE) \/ e = Effect(cfg[cur][f], {}, 0, TRUE, TRUE)
          \/ e = Effect(ZeroSlot, {}, 0, FALSE, FALSE) /\ n = 0
          \/ \E E \in SUBSET (1..n) : e = whole(E)
          \/ e = Effect(Slot(next, None, [m \in 1..n |-> Ptr(Wild, None)]), {next}, 1, TRUE, FALSE)
          \/ e = Effect(Slot(Null, None, [m \in 1..n |-> Ptr(Wild, None)]), {}, 0, TRUE, FALSE)
      BY <1>2 DEF ListEffects, ArrayEffects
    <3>2. ASSUME NEW E, e = whole(E) PROVE e.failed \/ E = {}
      BY <3>2 DEF Effect
    <3> HIDE DEF whole
    <3>3. \A s, x, y, c : Effect(s, x, y, TRUE, c).failed
      BY DEF Effect
    <3> QED
      BY <3>1, <3>2, <3>3
  <2>2. CASE e.failed
    BY <1>1, <1>2, <2>2 DEF Takes
  <2>3. CASE e = Effect(ZeroSlot, {}, 0, FALSE, FALSE) /\ n = 0
    <3>1. e.slot.rows = <<>> /\ ~e.crash
      BY <2>3, SlotParts DEF Effect, ZeroSlot
    <3>2. RowTexts(e.slot) = raw.elems
      <4>1. raw.elems = <<>>
        BY <2>3
      <4> QED
        BY <3>1, <4>1, NoRows
    <3> QED
      BY <1>1, <1>2, <3>1, <3>2 DEF Takes, Promise!Value
  <2>4. CASE e = whole({})
    <3>1. e.slot.rows = filled({}) /\ ~e.crash
      BY <2>4 DEF Effect, Slot
    <3>2. \A m \in 1..n : filled({})[m].txt = raw.elems[m]
      BY DEF Ptr
    <3>3. RowTexts(e.slot) = [m \in 1..n |-> raw.elems[m]]
      BY <3>1, <3>2 DEF RowTexts
    <3> QED
      BY <1>0, <1>1, <1>2, <3>1, <3>3 DEF Takes, Promise!Value
  <2> QED
    BY <2>1, <2>2, <2>3, <2>4
<1>3. CASE Kind[f] = "ints"
  <2> DEFINE read == [m \in 1..n |-> Ptr(Null, Number(raw.elems[m]))]
  <2>1. \/ e.failed
        \/ e = Effect(ZeroSlot, {}, 0, FALSE, FALSE) /\ n = 0
        \/ e = Effect(Slot(next, None, read), {next}, 1, FALSE, FALSE)
    <3>1. \/ e = Effect(cfg[cur][f], {}, 0, TRUE, FALSE) \/ e = Effect(cfg[cur][f], {}, 0, TRUE, TRUE)
          \/ e = Effect(ZeroSlot, {}, 0, FALSE, FALSE) /\ n = 0
          \/ e = Effect(Slot(next, None, read), {next}, 1, FALSE, FALSE)
          \/ \E s, x, y : e = Effect(s, x, y, TRUE, FALSE)
      BY <1>3 DEF ListEffects, IntsEffects
    <3> HIDE DEF read
    <3>2. \A s, x, y, c : Effect(s, x, y, TRUE, c).failed
      BY DEF Effect
    <3> QED
      BY <3>1, <3>2
  <2>2. CASE e.failed
    BY <1>1, <1>3, <2>2 DEF Takes
  <2>5. Promise!Value(f, raw) = [m \in 1..n |-> Number(raw.elems[m])]
    BY <1>0, <1>3, SameWords DEF Promise!Value
  <2>3. CASE e = Effect(ZeroSlot, {}, 0, FALSE, FALSE) /\ n = 0
    <3>1. e.slot.rows = <<>> /\ ~e.crash
      BY <2>3, SlotParts DEF Effect, ZeroSlot
    <3>2. RowTexts(e.slot) = [m \in 1..n |-> Number(raw.elems[m])]
      <4>1. \A m \in 1..n : FALSE
        BY <2>3
      <4>2. [m \in 1..n |-> Number(raw.elems[m])] = <<>>
        BY <4>1
      <4> QED
        BY <3>1, <4>2, NoRows
    <3> QED
      BY <1>1, <1>3, <2>5, <3>1, <3>2 DEF Takes
  <2>4. CASE e = Effect(Slot(next, None, read), {next}, 1, FALSE, FALSE)
    <3>1. e.slot.rows = read /\ ~e.crash
      BY <2>4 DEF Effect, Slot
    <3>2. \A m \in 1..n : read[m].txt = Number(raw.elems[m])
      BY DEF Ptr
    <3>3. RowTexts(e.slot) = [m \in 1..n |-> Number(raw.elems[m])]
      BY <3>1, <3>2 DEF RowTexts
    <3> QED
      BY <1>1, <1>3, <2>5, <3>1, <3>3 DEF Takes
  <2> QED
    BY <2>1, <2>2, <2>3, <2>4
<1> QED
  BY <1>1, <1>2, <1>3

\* The texts of some rows, and w with the parts of new written over it.
TextsOf(rows) == [n \in DOMAIN rows |-> rows[n].txt]

Over(v, w, new) == \A k \in 1..4 : v[k] = IF k <= Len(new) THEN {new[k]} ELSE w[k]

(* Writing the first parts of an address over what was there. *)
LEMMA PatchedMeant ==
  ASSUME NEW old \in Seq(Pointers), NEW new \in Seq(Text), Len(new) <= 4, NEW w, NEW v,
         TextsOf(old) = Promise!Assembled(w),
         Over(v, w, new)
  PROVE  TextsOf(Patched(old, new)) = Promise!Assembled(v)
<1> DEFINE m == IF Len(old) < Len(new) THEN Len(new) ELSE Len(old)
           rows == Patched(old, new)
           D == {n \in 1..4 : w[n] # {}}
           C == {n \in 1..4 : v[n] # {}}
<1>0. \A k \in 1..4 : v[k] = IF k <= Len(new) THEN {new[k]} ELSE w[k]
  BY DEF Over
<1>1. Len(old) \in Nat /\ Len(new) \in Nat /\ DOMAIN old = 1..Len(old)
  OBVIOUS
<1>2. /\ rows = [k \in 1..m |-> IF k <= Len(new) THEN Ptr(Null, new[k]) ELSE old[k]]
  BY DEF Patched
<1>3. /\ Promise!Assembled(w) = [k \in D |-> CHOOSE t \in w[k] : TRUE]
      /\ Promise!Assembled(v) = [k \in C |-> CHOOSE t \in v[k] : TRUE]
  BY DEF Promise!Assembled
<1>4. /\ D = 1..Len(old)
      /\ \A k \in 1..Len(old) : old[k].txt = CHOOSE t \in w[k] : TRUE
  <2>1. D = DOMAIN old /\ \A k \in DOMAIN old : old[k].txt = CHOOSE t \in w[k] : TRUE
    BY <1>3 DEF TextsOf
  <2> QED
    BY <1>1, <2>1
<1>5. \A k \in 1..4 : k \in C <=> k <= Len(new) \/ k \in D
  BY <1>0
<1>6. \A k \in D : k \in 1..4
  OBVIOUS
<1> HIDE DEF D, C
<1>7. \A k : k \in 1..m <=> k \in C
  <2>1. \A k \in C : k \in 1..4
    BY DEF C
  <2>2. ASSUME NEW k, k \in 1..m PROVE k \in C
    <3>1. k <= Len(new) \/ k \in D
      BY <1>1, <1>4, <2>2
    <3>2. k \in 1..4
      BY <1>1, <1>6, <2>2, <3>1
    <3> QED
      BY <1>5, <3>1, <3>2
  <2>3. ASSUME NEW k, k \in C PROVE k \in 1..m
    <3>1. k \in 1..4 /\ (k <= Len(new) \/ k <= Len(old))
      BY <1>1, <1>4, <1>5, <2>1, <2>3
    <3> QED
      BY <1>1, <3>1
  <2> QED
    BY <2>2, <2>3
<1>8. ASSUME NEW k \in 1..m PROVE rows[k].txt = CHOOSE t \in v[k] : TRUE
  <2>0. k \in 1..4
    BY <1>7 DEF C
  <2>1. CASE k <= Len(new)
    <3>1. rows[k].txt = new[k] /\ v[k] = {new[k]}
      BY <1>0, <1>2, <2>0, <2>1 DEF Ptr
    <3> QED
      BY <3>1
  <2>2. CASE ~(k <= Len(new))
    <3>1. rows[k] = old[k] /\ v[k] = w[k] /\ k \in 1..Len(old)
      BY <1>0, <1>1, <1>2, <2>0, <2>2
    <3> QED
      BY <1>4, <3>1
  <2> QED
    BY <2>1, <2>2
<1>9. DOMAIN rows = 1..m
  BY <1>2
<1>10. DOMAIN rows = C
  BY <1>7, <1>9
<1> HIDE DEF rows, m
<1>11. TextsOf(rows) = [k \in C |-> CHOOSE t \in v[k] : TRUE]
  BY <1>8, <1>9, <1>10 DEF TextsOf
<1> QED
  BY <1>3, <1>11 DEF rows

(* Writing what a layer gives keeps a field what the layers so far mean. *)
LEMMA TakesAgrees ==
  ASSUME NEW f \in Fields, Kind[f] # "tab", NEW raw, raw.txt \in Texts, NEW S, NEW b,
         NEW old \in Slots, Agrees(f, old, S, b),
         NEW e, Takes(f, raw, old, e), e.failed => OomBudget > 0
  PROVE  Agrees(f, e.slot, TellAll(f, {raw}, S), b)
<1> DEFINE T == TellAll(f, {raw}, S)
<1>1. Kind[f] \in {"str", "num", "bool", "enum", "ip", "arr", "ints"} /\ OomBudget \in Nat
  BY SchemaAssumption, LoaderAssumption
<1>2. \A k \in 1..4 : T[k] = IF Promise!Says(f, raw, k) THEN {raw} ELSE S[k]
  BY DEF TellAll, Told
<1>3. CASE f \notin Composed
  <2>1. T[1] = {raw}
    BY <1>2, <1>3, SameWords DEF Promise!Says
  <2>2. Meant(f, T, b) = Promise!Value(f, raw)
    <3>1. (CHOOSE x \in {raw} : TRUE) = raw
      OBVIOUS
    <3>2. T[1] # {}
      BY <2>1
    <3> HIDE DEF T
    <3> QED
      BY <1>3, <2>1, <3>1, <3>2 DEF Meant
  <2> HIDE DEF T
  <2>3. CASE Kind[f] = "str"
    <3>1. Promise!Value(f, raw) = raw.txt
      BY <2>3, SameWords DEF Promise!Value, Convert
    <3>2. Shown(f, e.slot) = e.slot.txt
      BY <2>3 DEF Shown, Scalars, Composed, OfKind
    <3> QED
      BY <1>1, <2>2, <2>3, <3>1, <3>2 DEF Agrees, Takes, T
  <2>4. CASE Kind[f] \in {"num", "bool"}
    <3>1. Promise!Value(f, raw) = Convert(f, raw.txt)
      BY <2>4, SameWords DEF Promise!Value
    <3>2. Shown(f, e.slot) = e.slot.txt
      BY <2>4 DEF Shown, Scalars, Composed, OfKind
    <3> QED
      BY <2>2, <2>4, <3>1, <3>2 DEF Agrees, Takes, T
  <2>5. CASE Kind[f] \in {"arr", "ints"}
    <3>1. Shown(f, e.slot) = RowTexts(e.slot) /\ f \in Lists
      BY <2>5 DEF Shown, Scalars, Composed, Lists, OfKind
    <3> QED
      BY <1>1, <2>2, <2>5, <3>1 DEF Agrees, Takes, T
  <2> QED
    BY <1>1, <1>3, <2>3, <2>4, <2>5 DEF Composed, OfKind
<1>4. CASE f \in Composed
  <2>0. Kind[f] # "str" /\ Shown(f, old) = RowTexts(old) /\ Shown(f, e.slot) = RowTexts(e.slot)
    BY <1>4 DEF Shown, Composed, OfKind
  <2> SUFFICES ASSUME OomBudget = 0
               PROVE  RowTexts(e.slot) = Meant(f, T, b)
    BY <2>0 DEF Agrees
  <2> DEFINE w == MeantParts(f, S, b)
             v == MeantParts(f, T, b)
             new == Parts[f][raw.txt]
  <2>1. new \in Seq(Text) /\ Len(new) <= 4
    BY <1>4, SchemaAssumption DEF Texts
  <2>2. Over(v, w, new)
    <3> SUFFICES ASSUME NEW k \in 1..4
                 PROVE  v[k] = IF k <= Len(new) THEN {new[k]} ELSE w[k]
      BY DEF Over
    <3>1. Promise!Says(f, raw, k) <=> k <= Len(new)
      BY <1>4, SameWords DEF Promise!Says
    <3>2. v[k] = IF T[k] = {} THEN Had(b, k) ELSE Promise!PartOf(f, T[k], k)
      BY DEF MeantParts
    <3>3. w[k] = IF S[k] = {} THEN Had(b, k) ELSE Promise!PartOf(f, S[k], k)
      BY DEF MeantParts
    <3>4. Promise!PartOf(f, {raw}, k) = {new[k]}
      BY DEF Promise!PartOf
    <3> HIDE DEF T, v, w
    <3>5. CASE k <= Len(new)
      BY <1>2, <3>1, <3>2, <3>4, <3>5
    <3>6. CASE ~(k <= Len(new))
      BY <1>2, <3>1, <3>2, <3>3, <3>6
    <3> QED
      BY <3>5, <3>6
  <2>3. RowTexts(old) = Promise!Assembled(w)
    BY <1>4, <2>0 DEF Agrees, Meant
  <2>4. old.rows \in Seq(Pointers)
    BY DEF Slots
  <2>5. e.slot.rows = Patched(old.rows, new)
    BY <1>4 DEF Takes
  <2> HIDE DEF v, w, new
  <2>6. RowTexts(e.slot) = Promise!Assembled(v)
    <3>1. TextsOf(old.rows) = Promise!Assembled(w)
      BY <2>3 DEF RowTexts, TextsOf
    <3>2. TextsOf(Patched(old.rows, new)) = Promise!Assembled(v)
      BY ONLY <2>1, <2>2, <2>4, <3>1, PatchedMeant
    <3> QED
      BY <2>5, <3>2 DEF RowTexts, TextsOf
  <2> QED
    BY <1>4, <2>6 DEF Meant, v
<1> QED
  BY <1>3, <1>4

-----------------------------------------------------------------------------
(* The sections and the rows of a file, read up to line m. *)

\* The section in force before line m.
SecBefore(ini, m) == Promise!SectionAt(ini, m - 1)

Opens(l) == l.k \in {"sec", "row"}

(* A header sets the section, any other line keeps it.                       *)
LEMMA SectionStep ==
  ASSUME NEW ini, IsSeq(ini), NEW m \in 1..Len(ini)
  PROVE  Promise!SectionAt(ini, m) = IF Opens(ini[m]) THEN ini[m].sec ELSE SecBefore(ini, m)
<1> DEFINE H(n) == {h \in 1..n : ini[h].k \in {"sec", "row"}}
<1>1. Len(ini) \in Nat /\ m \in Nat /\ m - 1 \in Nat
  BY DEF IsSeq
<1>2. \A n : Promise!HeaderAt(ini, n) = IF H(n) = {} THEN 0 ELSE Promise!Max(H(n))
  BY DEF Promise!HeaderAt, Promise!Last
<1>3. CASE Opens(ini[m])
  <2>1. m \in H(m) /\ H(m) \subseteq 1..m /\ \A y \in H(m) : y <= m
    BY <1>1, <1>3 DEF Opens
  <2> HIDE DEF H
  <2>2. Promise!Max(H(m)) = m
    BY <1>1, <2>1, MaxUnique
  <2>3. Promise!HeaderAt(ini, m) = m /\ m # 0
    BY <1>2, <2>1, <2>2
  <2> QED
    BY <1>3, <2>3 DEF Promise!SectionAt
<1>4. CASE ~Opens(ini[m])
  <2>1. H(m) = H(m - 1)
    BY <1>1, <1>4 DEF Opens
  <2> HIDE DEF H
  <2>2. Promise!HeaderAt(ini, m) = Promise!HeaderAt(ini, m - 1)
    BY <1>2, <2>1
  <2> QED
    BY <1>4, <2>2 DEF Promise!SectionAt, SecBefore
<1> QED
  BY <1>3, <1>4

(* Before the first header the section names nothing.                        *)
LEMMA SectionStart ==
  ASSUME NEW ini
  PROVE  SecBefore(ini, 1) = Other
<1>1. {h \in 1..(1 - 1) : ini[h].k \in {"sec", "row"}} = {}
  OBVIOUS
<1>2. Promise!HeaderAt(ini, 1 - 1) = 0
  BY <1>1 DEF Promise!HeaderAt, Promise!Last
<1> QED
  BY <1>2 DEF SecBefore, Promise!SectionAt

\* The rows of table t opened up to line m.
RowsIn(ini, t, m) == {n \in Promise!RowLines(ini, t) : n <= m}
RowCount(ini, t, m) == Cardinality(RowsIn(ini, t, m))

\* What each line gives to row r.
RowGifts(ini, t, r) ==
  [n \in DOMAIN ini |->
     IF n \in Promise!KeyLines(ini, t, RowKey) /\ RowCount(ini, t, n) = r THEN {ini[n].val} ELSE {}]

RowSaid(ini, t, r, m) == LastOf(RowGifts(ini, t, r), t, 1, m)

RowText(S) == IF S = {} THEN RowDefault ELSE (CHOOSE raw \in S : TRUE).txt

\* The rows of the table as far as the lines before m make them.
RowsUpTo(ini, t, m) ==
  [r \in 1..RowCount(ini, t, m - 1) |-> RowText(RowSaid(ini, t, r, m))]

(* The rows opened before a line grow by one at each header of the table.    *)
LEMMA RowCounts ==
  ASSUME NEW ini, IsSeq(ini), NEW t
  PROVE  /\ \A m \in Nat : RowCount(ini, t, m) \in Nat
         /\ RowCount(ini, t, 0) = 0
         /\ \A m, n \in Nat : m <= n => RowCount(ini, t, m) <= RowCount(ini, t, n)
         /\ \A m \in 1..Len(ini) :
              RowCount(ini, t, m) = IF ini[m].k = "row" /\ ini[m].sec = t
                                    THEN RowCount(ini, t, m - 1) + 1 ELSE RowCount(ini, t, m - 1)
<1> DEFINE R == Promise!RowLines(ini, t)
<1>1. /\ Len(ini) \in Nat /\ R \subseteq 1..Len(ini) /\ DOMAIN ini = 1..Len(ini)
      /\ \A m \in 1..Len(ini) : m \in R <=> ini[m].k = "row" /\ ini[m].sec = t
  BY DEF IsSeq, Promise!RowLines
<1>2. IsFiniteSet(R)
  <2>1. IsFiniteSet(1..Len(ini))
    BY <1>1, FS_Interval
  <2> QED
    BY <1>1, <2>1, FS_Subset
<1>3. \A m : RowsIn(ini, t, m) = {n \in R : n <= m}
  BY DEF RowsIn
<1> HIDE DEF R
<1>4. \A m : IsFiniteSet(RowsIn(ini, t, m))
  BY <1>2, <1>3, FS_Subset
<1>5. \A m \in Nat : RowCount(ini, t, m) \in Nat
  BY <1>4, FS_CardinalityType DEF RowCount
<1>6. RowCount(ini, t, 0) = 0
  <2>0. \A x \in R : ~(x <= 0)
    BY <1>1
  <2>1. RowsIn(ini, t, 0) = {}
    BY <1>3, <2>0
  <2> QED
    BY <2>1, FS_EmptySet DEF RowCount
<1>7. ASSUME NEW m \in Nat, NEW n \in Nat, m <= n
      PROVE  RowCount(ini, t, m) <= RowCount(ini, t, n)
  <2>0. \A x \in R : x <= m => x <= n
    BY <1>1, <1>7
  <2>1. RowsIn(ini, t, m) \subseteq RowsIn(ini, t, n)
    BY <1>3, <2>0
  <2> QED
    BY <1>4, <2>1, FS_Subset DEF RowCount
<1>8. ASSUME NEW m \in 1..Len(ini)
      PROVE  RowCount(ini, t, m) = IF ini[m].k = "row" /\ ini[m].sec = t
                                   THEN RowCount(ini, t, m - 1) + 1 ELSE RowCount(ini, t, m - 1)
  <2>1. \A n \in R : n <= m <=> n <= m - 1 \/ n = m
    BY <1>1
  <2>2. m \notin RowsIn(ini, t, m - 1)
    BY <1>1, <1>3
  <2>3. CASE m \in R
    <3>1. RowsIn(ini, t, m) = RowsIn(ini, t, m - 1) \cup {m}
      BY <1>3, <2>1, <2>3
    <3>2. Cardinality(RowsIn(ini, t, m - 1) \cup {m}) = Cardinality(RowsIn(ini, t, m - 1)) + 1
      BY <1>4, <2>2, FS_AddElement
    <3> QED
      BY <1>1, <2>3, <3>1, <3>2 DEF RowCount
  <2>4. CASE m \notin R
    <3>1. RowsIn(ini, t, m) = RowsIn(ini, t, m - 1)
      BY <1>3, <2>1, <2>4
    <3> QED
      BY <1>1, <2>4, <3>1 DEF RowCount
  <2> QED
    BY <2>3, <2>4
<1> QED
  BY <1>5, <1>6, <1>7, <1>8

(* A line that is no key of the table gives its rows nothing. *)
LEMMA RowGiftsAre ==
  ASSUME NEW ini, IsSeq(ini), NEW t \in OfKind("tab"), NEW r, NEW m \in 1..Len(ini)
  PROVE  RowSaid(ini, t, r, m + 1) =
           IF m \in Promise!KeyLines(ini, t, RowKey) /\ RowCount(ini, t, m) = r
           THEN {ini[m].val} ELSE RowSaid(ini, t, r, m)
<1> DEFINE g == RowGifts(ini, t, r)
<1>1. DOMAIN g = 1..Len(ini) /\ Len(ini) \in Nat
  BY DEF IsSeq, RowGifts
<1>2. g[m] = IF m \in Promise!KeyLines(ini, t, RowKey) /\ RowCount(ini, t, m) = r
             THEN {ini[m].val} ELSE {}
  BY <1>1 DEF RowGifts
<1>3. \A raw : Promise!Says(t, raw, 1)
  BY SameWords DEF Promise!Says, Composed, OfKind
<1> HIDE DEF g
<1>4. LastOf(g, t, 1, m + 1) = Told(t, 1, g[m], LastOf(g, t, 1, m))
  BY <1>1, LastNext
<1> QED
  BY <1>2, <1>3, <1>4 DEF RowSaid, Told, g

(* A row that is not open yet was given nothing. *)
LEMMA RowUnsaid ==
  ASSUME NEW ini, IsSeq(ini), NEW t, NEW m \in 1..Len(ini), NEW r \in Nat,
         r > RowCount(ini, t, m - 1)
  PROVE  RowSaid(ini, t, r, m) = {}
<1> DEFINE g == RowGifts(ini, t, r)
<1>1. DOMAIN g = 1..Len(ini) /\ Len(ini) \in Nat /\ m - 1 \in Nat
  BY DEF IsSeq, RowGifts
<1>2. ASSUME NEW n \in DOMAIN g, n < m PROVE g[n] = {}
  <2>1. n \in Nat /\ n <= m - 1
    BY <1>1, <1>2
  <2>2. RowCount(ini, t, n) <= RowCount(ini, t, m - 1) /\ RowCount(ini, t, n) \in Nat
        /\ RowCount(ini, t, m - 1) \in Nat
    BY <1>1, <2>1, RowCounts
  <2>3. RowCount(ini, t, n) # r
    BY <2>2
  <2> QED
    BY <2>3 DEF RowGifts
<1> HIDE DEF g
<1>3. Wins(g, t, 1, m) = {}
  BY <1>2 DEF Wins
<1> QED
  BY <1>3 DEF RowSaid, LastOf, g

\* The rows of the promise.
RowsOf(ini, t) ==
  [n \in 1..Cardinality(Promise!RowLines(ini, t)) |-> Promise!RowValue(ini, t, n)]

(* At the end of the file the rows are the ones of the promise. *)
LEMMA RowsAll ==
  ASSUME NEW ini, IsSeq(ini), NEW t \in OfKind("tab"), NEW m \in Nat, m > Len(ini)
  PROVE  RowsUpTo(ini, t, m) = RowsOf(ini, t)
<1>1. Len(ini) \in Nat /\ DOMAIN ini = 1..Len(ini)
  BY DEF IsSeq
<1>2. RowCount(ini, t, m - 1) = Cardinality(Promise!RowLines(ini, t))
  <2>1. \A n \in Promise!RowLines(ini, t) : n <= m - 1
    BY <1>1 DEF Promise!RowLines
  <2>2. RowsIn(ini, t, m - 1) = Promise!RowLines(ini, t)
    BY <2>1 DEF RowsIn
  <2> QED
    BY <2>2 DEF RowCount
<1>3. ASSUME NEW r PROVE RowText(RowSaid(ini, t, r, m)) = Promise!RowValue(ini, t, r)
  <2> DEFINE g == RowGifts(ini, t, r)
             mine == {n \in Promise!KeyLines(ini, t, RowKey) : RowCount(ini, t, n) = r}
  <2>1. \A n \in DOMAIN g : g[n] = IF n \in mine THEN {ini[n].val} ELSE {}
    BY DEF RowGifts
  <2>2. \A raw : Promise!Says(t, raw, 1)
    BY SameWords DEF Promise!Says, Composed, OfKind
  <2>3. DOMAIN g = 1..Len(ini) /\ mine \subseteq 1..Len(ini)
    BY <1>1 DEF RowGifts, Promise!KeyLines
  <2>4. \A n \in 1..Len(ini) : n < m
    BY <1>1
  <2>5. Promise!RowValue(ini, t, r) =
          IF mine = {} THEN RowDefault ELSE ini[Promise!Max(mine)].val.txt
    <3> DEFINE theirs == {n \in Promise!KeyLines(ini, t, RowKey) :
                            Cardinality({x \in Promise!RowLines(ini, t) : x <= n}) = r}
    <3>1. Promise!RowValue(ini, t, r) =
            IF theirs = {} THEN RowDefault ELSE ini[Promise!Max(theirs)].val.txt
      BY SameSize DEF Promise!RowValue
    <3>2. \A n : RowCount(ini, t, n) = Cardinality({x \in Promise!RowLines(ini, t) : x <= n})
      BY DEF RowCount, RowsIn
    <3>3. theirs = mine
      BY <3>2
    <3> HIDE DEF theirs, mine
    <3> QED
      BY <3>1, <3>3
  <2> HIDE DEF g, mine
  <2>6. Wins(g, t, 1, m) = mine
    BY <2>1, <2>2, <2>3, <2>4 DEF Wins
  <2>7. CASE mine = {}
    BY <2>5, <2>6, <2>7 DEF RowText, RowSaid, LastOf, g
  <2>8. CASE mine # {}
    <3>1. Promise!Max(mine) \in mine
      BY <1>1, <2>3, <2>8, MaxIs
    <3>2. g[Promise!Max(mine)] = {ini[Promise!Max(mine)].val}
      BY <2>1, <2>3, <3>1
    <3>3. RowSaid(ini, t, r, m) = {ini[Promise!Max(mine)].val}
      BY <2>6, <2>8, <3>2 DEF RowSaid, LastOf, g
    <3>4. \A x : {x} # {} /\ (CHOOSE y \in {x} : TRUE) = x
      OBVIOUS
    <3>5. RowText({ini[Promise!Max(mine)].val}) = ini[Promise!Max(mine)].val.txt
      BY <3>4 DEF RowText
    <3> QED
      BY <2>5, <2>8, <3>3, <3>5
  <2> QED
    BY <2>7, <2>8
<1> QED
  BY <1>2, <1>3 DEF RowsUpTo, RowsOf

(* A table starts without rows.                                              *)
LEMMA RowsStart ==
  ASSUME NEW ini, IsSeq(ini), NEW t
  PROVE  RowsUpTo(ini, t, 1) = <<>>
<1>1. RowCount(ini, t, 1 - 1) = 0
  BY RowCounts
<1>2. \A r \in 1..RowCount(ini, t, 1 - 1) : FALSE
  BY <1>1
<1> QED
  BY <1>2 DEF RowsUpTo

(* The three things a line does to the rows of a table. *)
LEMMA RowsNext ==
  ASSUME NEW ini, IsSeq(ini), NEW t \in OfKind("tab"), NEW m \in 1..Len(ini)
  PROVE  LET rows == RowsUpTo(ini, t, m)
             last == RowCount(ini, t, m - 1)
             line == ini[m]
         IN  /\ rows = [r \in 1..last |-> rows[r]] /\ last \in Nat
             /\ line.k = "row" /\ line.sec = t
                  => RowsUpTo(ini, t, m + 1)
                       = [r \in 1..(last + 1) |-> IF r = last + 1 THEN RowDefault ELSE rows[r]]
             /\ m \in Promise!KeyLines(ini, t, RowKey)
                  => RowsUpTo(ini, t, m + 1)
                       = [r \in 1..last |-> IF r = last THEN line.val.txt ELSE rows[r]]
             /\ m \notin Promise!KeyLines(ini, t, RowKey) /\ ~(line.k = "row" /\ line.sec = t)
                  => RowsUpTo(ini, t, m + 1) = rows
<1> DEFINE rows == RowsUpTo(ini, t, m)
           last == RowCount(ini, t, m - 1)
           line == ini[m]
           now  == RowCount(ini, t, m)
<1>1. Len(ini) \in Nat /\ DOMAIN ini = 1..Len(ini) /\ m - 1 \in Nat /\ (m + 1) - 1 = m
  BY DEF IsSeq
<1>2. last \in Nat /\ now = IF line.k = "row" /\ line.sec = t THEN last + 1 ELSE last
  BY <1>1, RowCounts
<1>3. /\ rows = [r \in 1..last |-> RowText(RowSaid(ini, t, r, m))]
      /\ RowsUpTo(ini, t, m + 1) = [r \in 1..now |-> RowText(RowSaid(ini, t, r, m + 1))]
  BY <1>1 DEF RowsUpTo
<1>4. m \in Promise!KeyLines(ini, t, RowKey) => line.k = "key"
  BY DEF Promise!KeyLines
<1> HIDE DEF rows, last, line, now
<1>5. /\ rows = [r \in 1..last |-> rows[r]]
      /\ \A r \in 1..last : rows[r] = RowText(RowSaid(ini, t, r, m))
  BY <1>3
<1>6. ASSUME line.k = "row", line.sec = t
      PROVE  RowsUpTo(ini, t, m + 1)
               = [r \in 1..(last + 1) |-> IF r = last + 1 THEN RowDefault ELSE rows[r]]
  <2>0. m \notin Promise!KeyLines(ini, t, RowKey)
    BY <1>4, <1>6
  <2>1. \A r : RowSaid(ini, t, r, m + 1) = RowSaid(ini, t, r, m)
    BY <2>0, RowGiftsAre
  <2>2. RowSaid(ini, t, last + 1, m) = {}
    BY <1>2, RowUnsaid DEF last
  <2>3. RowText({}) = RowDefault
    BY DEF RowText
  <2>4. ASSUME NEW r \in 1..(last + 1)
        PROVE  RowText(RowSaid(ini, t, r, m + 1)) = IF r = last + 1 THEN RowDefault ELSE rows[r]
    <3>1. CASE r = last + 1
      BY <2>1, <2>2, <2>3, <3>1
    <3>2. CASE r # last + 1
      <4>1. r \in 1..last
        BY <1>2, <3>2
      <4> QED
        BY <1>5, <2>1, <3>2, <4>1
    <3> QED
      BY <3>1, <3>2
  <2>5. now = last + 1
    BY <1>2, <1>6
  <2> QED
    BY <1>3, <2>4, <2>5
<1>7. ASSUME m \in Promise!KeyLines(ini, t, RowKey)
      PROVE  RowsUpTo(ini, t, m + 1)
               = [r \in 1..last |-> IF r = last THEN line.val.txt ELSE rows[r]]
  <2>1. now = last
    BY <1>2, <1>4, <1>7
  <2>2. \A r : RowSaid(ini, t, r, m + 1) = IF r = last THEN {line.val} ELSE RowSaid(ini, t, r, m)
    <3> TAKE r
    <3>1. RowSaid(ini, t, r, m + 1) =
            IF m \in Promise!KeyLines(ini, t, RowKey) /\ RowCount(ini, t, m) = r
            THEN {ini[m].val} ELSE RowSaid(ini, t, r, m)
      BY ONLY RowGiftsAre, IsSeq(ini), t \in OfKind("tab"), m \in 1..Len(ini)
    <3>2. RowSaid(ini, t, r, m + 1) = IF now = r THEN {line.val} ELSE RowSaid(ini, t, r, m)
      BY <1>7, <3>1 DEF line, now
    <3> QED
      BY <2>1, <3>2
  <2>3. RowText({line.val}) = line.val.txt
    <3>1. \A x : {x} # {} /\ (CHOOSE y \in {x} : TRUE) = x
      OBVIOUS
    <3> QED
      BY <3>1 DEF RowText
  <2> QED
    BY <1>3, <1>5, <2>1, <2>2, <2>3
<1>8. ASSUME m \notin Promise!KeyLines(ini, t, RowKey), ~(line.k = "row" /\ line.sec = t)
      PROVE  RowsUpTo(ini, t, m + 1) = rows
  <2>1. \A r : RowSaid(ini, t, r, m + 1) = RowSaid(ini, t, r, m)
    BY <1>8, RowGiftsAre
  <2> QED
    BY <1>2, <1>3, <1>8, <2>1
<1> QED
  BY <1>2, <1>5, <1>6, <1>7, <1>8 DEF rows, last, line

-----------------------------------------------------------------------------
(* A step of a call gives its fields what the layers say. *)

\* What the step under way gives to field f.
GiftNow(f) == Gifts(req, pc, f)[i]

\* The step writes that gift, or leaves the field alone if there is none.
Gives(f) ==
  \/ cfg'[cur][f] = cfg[cur][f] /\ GiftNow(f) = {}
  \/ \E raw, e : /\ GiftNow(f) = {raw} /\ raw.txt \in Texts
                 /\ Takes(f, raw, cfg[cur][f], e) /\ cfg'[cur][f] = e.slot
                 /\ e.failed => OomBudget > 0

(* A step that writes leaves one of its effects in one field.                *)
LEMMA WriteOne ==
  ASSUME TypeOK, pc # "idle", NEW f \in Fields, NEW effects, NEW l, Write(f, effects, l)
  PROVE  /\ \E e \in effects : cfg'[cur][f] = e.slot /\ (e.failed => OomBudget > 0)
                               /\ pc' = IF e.crash THEN "crashed" ELSE l
         /\ \A g \in Fields : g # f => cfg'[cur][g] = cfg[cur][g]
<1>1. PICK e \in effects : /\ e.failed => oom < OomBudget
                           /\ cfg' = [cfg EXCEPT ![cur][f] = e.slot]
                           /\ pc' = IF e.crash THEN "crashed" ELSE l
  BY DEF Write
<1>2. oom \in Nat /\ OomBudget \in Nat /\ cur \in Cfgs /\ cfg \in [Cfgs -> [Fields -> Slots]]
  BY LoaderAssumption DEF TypeOK
<1>3. e.failed => OomBudget > 0
  BY <1>1, <1>2
<1>4. /\ cfg'[cur][f] = e.slot
      /\ \A g \in Fields : g # f => cfg'[cur][g] = cfg[cur][g]
  BY <1>1, <1>2
<1> QED
  BY <1>1, <1>3, <1>4

(* A step that writes the one gift of its position gives every field its     *)
(* own.                                                                      *)
LEMMA WriteGives ==
  ASSUME TypeOK, pc # "idle", NEW f \in Fields, NEW effects, NEW l, Write(f, effects, l),
         NEW raw, raw.txt \in Texts, GiftNow(f) = {raw},
         \A e \in effects : Takes(f, raw, cfg[cur][f], e),
         \A g \in Fields : g # f /\ Kind[g] # "tab" => GiftNow(g) = {}
  PROVE  \A g \in Fields : Kind[g] # "tab" => Gives(g)
<1>1. /\ \E e \in effects : cfg'[cur][f] = e.slot /\ (e.failed => OomBudget > 0)
      /\ \A g \in Fields : g # f => cfg'[cur][g] = cfg[cur][g]
  BY WriteOne
<1> QED
  BY <1>1 DEF Gives

(* So does a step that writes nothing where nothing is given.                *)
LEMMA SkipGives ==
  ASSUME UNCHANGED cfg, \A g \in Fields : Kind[g] # "tab" => GiftNow(g) = {}
  PROVE  \A g \in Fields : Kind[g] # "tab" => Gives(g)
BY DEF Gives

(* A field and the default or the environment variable it may have. *)
LEMMA DefaultGives ==
  ASSUME TypeOK, DefaultField
  PROVE  /\ \A f \in Fields : Kind[f] # "tab" => Gives(f)
         /\ \A f \in OfKind("tab") : cfg'[cur][f] = cfg[cur][f]
<1> DEFINE f == FieldSeq[i]
<1>1. pc = "default" /\ i \in DOMAIN FieldSeq /\ f \in Fields
  <2>1. pc = "default" /\ i <= Len(FieldSeq) /\ i \in Nat \ {0}
    BY DEF DefaultField, TypeOK
  <2> QED
    BY <2>1, SchemaAssumption DEF Fields
<1>2. \A g \in Fields : GiftNow(g) = IF f = g THEN DefRaw(g) ELSE {}
  BY <1>1 DEF GiftNow, Gifts, DefGifts, FieldGifts
<1>3. CASE f \in DOMAIN Default
  <2> DEFINE raw == [txt |-> Default[f], elems |-> <<>>]
  <2>1. f \in Scalars /\ Default[f] \in Texts /\ Kind[f] # "tab"
    BY <1>3, SchemaAssumption DEF Texts, Scalars, Composed, OfKind
  <2>2. Write(f, ScalarEffects(f, raw.txt), "default")
    BY <1>1, <1>3 DEF DefaultField
  <2>3. GiftNow(f) = {raw} /\ \A g \in Fields : g # f => GiftNow(g) = {}
    BY <1>1, <1>2, <1>3 DEF DefRaw
  <2>4. raw.txt \in Texts
    BY <2>1
  <2> HIDE DEF raw, f
  <2>5. \A e \in ScalarEffects(f, raw.txt) : Takes(f, raw, cfg[cur][f], e)
    BY <2>1, ScalarTakes
  <2>6. \A g \in Fields : Kind[g] # "tab" => Gives(g)
    BY <1>1, <2>2, <2>3, <2>4, <2>5, WriteGives
  <2>7. \A g \in OfKind("tab") : g # f /\ g \in Fields
    BY <2>1 DEF OfKind
  <2> QED
    BY <1>1, <2>2, <2>6, <2>7, WriteOne
<1>4. CASE f \notin DOMAIN Default
  <2>1. UNCHANGED cfg
    BY <1>4 DEF DefaultField, Skip
  <2>2. \A g \in Fields : GiftNow(g) = {}
    BY <1>2, <1>4 DEF DefRaw
  <2> QED
    BY <2>1, <2>2, SkipGives
<1> QED
  BY <1>3, <1>4

(* The environment gives its value to the field it is read for.              *)
LEMMA EnvGives ==
  ASSUME TypeOK, EnvField
  PROVE  /\ \A f \in Fields : Kind[f] # "tab" => Gives(f)
         /\ \A f \in OfKind("tab") : cfg'[cur][f] = cfg[cur][f]
<1> DEFINE f == FieldSeq[i]
<1>1. pc = "env" /\ i \in DOMAIN FieldSeq /\ f \in Fields /\ IsRequest(req)
  <2>1. pc = "env" /\ i <= Len(FieldSeq) /\ i \in Nat \ {0} /\ IsRequest(req)
    BY DEF EnvField, TypeOK
  <2> QED
    BY <2>1, SchemaAssumption DEF Fields
<1>2. \A g \in Fields : GiftNow(g) = IF f = g THEN EnvRaw(req, g) ELSE {}
  BY <1>1 DEF GiftNow, Gifts, EnvGifts, FieldGifts
<1>3. CASE f \in Envable \cap DOMAIN req.env
  <2> DEFINE raw == req.env[f]
  <2>1. f \in Scalars /\ Kind[f] # "tab" /\ raw.txt \in Texts
    BY <1>1, <1>3, RawTyped DEF Envable, Scalars, Composed, OfKind, IsRequest
  <2>2. Write(f, ScalarEffects(f, raw.txt), "env")
    BY <1>1, <1>3 DEF EnvField
  <2>3. GiftNow(f) = {raw} /\ \A g \in Fields : g # f => GiftNow(g) = {}
    BY <1>1, <1>2, <1>3 DEF EnvRaw
  <2> HIDE DEF raw, f
  <2>5. \A e \in ScalarEffects(f, raw.txt) : Takes(f, raw, cfg[cur][f], e)
    BY <2>1, ScalarTakes
  <2>6. \A g \in Fields : Kind[g] # "tab" => Gives(g)
    BY <1>1, <2>1, <2>2, <2>3, <2>5, WriteGives
  <2>7. \A g \in OfKind("tab") : g # f /\ g \in Fields
    BY <2>1 DEF OfKind
  <2> QED
    BY <1>1, <2>2, <2>6, <2>7, WriteOne
<1>4. CASE f \notin Envable \cap DOMAIN req.env
  <2>1. UNCHANGED cfg
    BY <1>4 DEF EnvField, Skip
  <2>2. \A g \in Fields : GiftNow(g) = {}
    BY <1>2, <1>4 DEF EnvRaw
  <2> QED
    BY <2>1, <2>2, SkipGives
<1> QED
  BY <1>3, <1>4

\* No malloc fails and no flag writes strings over a table.
Calm == OomBudget = 0 /\ \A r \in Requests : ~ReadsUnwritten(r)

(* An argument gives its field the value it names; the argument it takes as  *)
(* that value gives nothing.                                                 *)
LEMMA ArgumentGives ==
  ASSUME TypeOK, Argument, req \in Requests, i \notin Promise!Swallowed(req.cli)
  PROVE  /\ \A f \in Fields : Kind[f] # "tab" => Gives(f)
         /\ Calm => \A f \in OfKind("tab") : cfg'[cur][f] = cfg[cur][f]
<1> DEFINE a == req.cli[i]
           valued == TakesNext(a) /\ i < Len(req.cli)
           raw == IF valued THEN AsRaw(req.cli[i + 1]) ELSE a.val
           on == [txt |-> CHOOSE t \in TrueTexts : TRUE, elems |-> <<>>]
<1>1. pc = "cli" /\ IsRequest(req) /\ i \in Nat \ {0} /\ i <= Len(req.cli)
  BY DEF Argument, TypeOK
<1>2. IsSeq(req.cli) /\ \A n \in DOMAIN req.cli : IsToken(req.cli[n])
  BY <1>1 DEF IsRequest
<1>3. i \in DOMAIN req.cli /\ IsToken(a) /\ (i < Len(req.cli) => IsToken(req.cli[i + 1]))
  <2>1. i \in DOMAIN req.cli /\ (i < Len(req.cli) => i + 1 \in DOMAIN req.cli)
    BY <1>1, <1>2 DEF IsSeq
  <2> QED
    BY <2>1, <1>2
<1>4. /\ valued \/ a.t = "assign" => raw \in Raw /\ a.f \in Fields
      /\ valued => a.t = "opt" /\ Kind[a.f] # "bool"
      /\ on.txt \in Texts
  BY <1>3, RawTyped, SchemaAssumption DEF IsToken, TakesNext, Texts
<1>5. valued \/ a.t = "assign" => raw.txt \in Texts /\ raw.elems \in Seq(Texts)
  BY <1>4, RawTyped
<1>6. \A f : GiftNow(f) =
        IF a.t = "word" THEN {}
        ELSE IF a.f # f THEN {}
        ELSE IF a.t = "assign" THEN IF f \in Assignable THEN {a.val} ELSE {}
        ELSE IF Kind[f] = "bool" THEN {on}
        ELSE IF i < Len(req.cli) THEN {AsRaw(req.cli[i + 1])} ELSE {}
  <2>1. \A f : GiftNow(f) = Heard(req.cli, f, i)
    BY <1>1, <1>3 DEF GiftNow, Gifts, CliGifts
  <2> QED
    BY <2>1, SameWords DEF Heard, Promise!Given
<1>7. \/ /\ a.t = "opt" /\ Kind[a.f] = "bool"
         /\ Write(a.f, ScalarEffects(a.f, on.txt), pc)
      \/ /\ valued \/ a.t = "assign"
         /\ a.f \in Assignable \/ (valued /\ Kind[a.f] = "enum")
         /\ Write(a.f, ScalarEffects(a.f, raw.txt), pc)
      \/ /\ valued /\ a.f \in Lists
         /\ Write(a.f, ListEffects(a.f, raw.elems), pc)
      \/ /\ valued /\ Kind[a.f] = "tab"
         /\ Write(a.f, MistypedEffects(cfg[cur][a.f], raw.elems), pc)
      \/ /\ \/ a.t = "word"
            \/ TakesNext(a) /\ ~valued
            \/ a.t = "assign" /\ a.f \notin Assignable
         /\ Skip(pc)
  BY DEF Argument
<1>8. a.t \in {"opt", "assign", "word"} /\ (a.t # "word" => a.f \in Fields)
  BY <1>3 DEF IsToken
<1>9. TakesNext(a) /\ ~valued => ~(i < Len(req.cli)) /\ a.t = "opt" /\ Kind[a.f] # "bool"
  BY DEF TakesNext
<1>10. valued => i < Len(req.cli) /\ raw = AsRaw(req.cli[i + 1])
  OBVIOUS
<1>11. ~valued => raw = a.val
  OBVIOUS
<1>12. OfKind("tab") \cap (Scalars \cup Lists) = {} /\ Assignable \cup OfKind("enum") \subseteq Scalars
       /\ \A f \in OfKind("tab") : f \in Fields
  BY DEF Scalars, Composed, Lists, Assignable, OfKind
<1>13. a.t = "opt" /\ Kind[a.f] = "tab" => ~Calm
  BY <1>3 DEF Calm, ReadsUnwritten
<1> HIDE DEF a, valued, raw, on
<1>14. CASE /\ a.t = "opt" /\ Kind[a.f] = "bool"
            /\ Write(a.f, ScalarEffects(a.f, on.txt), pc)
  <2>1. a.f \in Scalars /\ a.f \in Fields
    BY <1>8, <1>14 DEF Scalars, OfKind
  <2>2. GiftNow(a.f) = {on} /\ \A g \in Fields : g # a.f => GiftNow(g) = {}
    BY <1>6, <1>14
  <2>3. \A e \in ScalarEffects(a.f, on.txt) : Takes(a.f, on, cfg[cur][a.f], e)
    BY <2>1, ScalarTakes
  <2>4. \A g \in Fields : Kind[g] # "tab" => Gives(g)
    BY <1>1, <1>4, <1>14, <2>1, <2>2, <2>3, WriteGives
  <2>5. \A f \in OfKind("tab") : cfg'[cur][f] = cfg[cur][f]
    BY <1>1, <1>12, <1>14, <2>1, WriteOne
  <2> QED
    BY <2>4, <2>5
<1>15. CASE /\ valued \/ a.t = "assign"
            /\ a.f \in Assignable \/ (valued /\ Kind[a.f] = "enum")
            /\ Write(a.f, ScalarEffects(a.f, raw.txt), pc)
  <2>1. a.f \in Scalars /\ a.f \in Fields
    BY <1>4, <1>12, <1>15 DEF OfKind
  <2>2. GiftNow(a.f) = {raw} /\ \A g \in Fields : g # a.f => GiftNow(g) = {}
    <3>1. CASE valued
      BY <1>4, <1>6, <1>10, <3>1
    <3>2. CASE ~valued
      BY <1>6, <1>11, <1>15, <3>2
    <3> QED
      BY <3>1, <3>2
  <2>3. \A e \in ScalarEffects(a.f, raw.txt) : Takes(a.f, raw, cfg[cur][a.f], e)
    BY <2>1, ScalarTakes
  <2>4. \A g \in Fields : Kind[g] # "tab" => Gives(g)
    BY <1>1, <1>5, <1>15, <2>1, <2>2, <2>3, WriteGives
  <2>5. \A f \in OfKind("tab") : cfg'[cur][f] = cfg[cur][f]
    BY <1>1, <1>12, <1>15, <2>1, WriteOne
  <2> QED
    BY <2>4, <2>5
<1>16. CASE valued /\ a.f \in Lists /\ Write(a.f, ListEffects(a.f, raw.elems), pc)
  <2>1. a.f \in Fields
    BY <1>4, <1>16
  <2>2. GiftNow(a.f) = {raw} /\ \A g \in Fields : g # a.f => GiftNow(g) = {}
    BY <1>4, <1>6, <1>10, <1>16
  <2>3. \A e \in ListEffects(a.f, raw.elems) : Takes(a.f, raw, cfg[cur][a.f], e)
    BY <1>5, <1>16, ListTakes
  <2>4. \A g \in Fields : Kind[g] # "tab" => Gives(g)
    BY <1>1, <1>5, <1>16, <2>1, <2>2, <2>3, WriteGives
  <2>5. \A f \in OfKind("tab") : cfg'[cur][f] = cfg[cur][f]
    BY <1>1, <1>12, <1>16, <2>1, WriteOne
  <2> QED
    BY <2>4, <2>5
<1>17. CASE valued /\ Kind[a.f] = "tab" /\ Write(a.f, MistypedEffects(cfg[cur][a.f], raw.elems), pc)
  <2>1. a.f \in Fields
    BY <1>4, <1>17
  <2>2. \A g \in Fields : Kind[g] # "tab" => GiftNow(g) = {} /\ cfg'[cur][g] = cfg[cur][g]
    <3>1. \A g \in Fields : g # a.f => GiftNow(g) = {}
      BY <1>4, <1>6, <1>17
    <3>2. \A g \in Fields : g # a.f => cfg'[cur][g] = cfg[cur][g]
      BY <1>1, <1>17, <2>1, WriteOne
    <3> QED
      BY <1>17, <3>1, <3>2
  <2> QED
    BY <1>4, <1>13, <1>17, <2>2 DEF Gives
<1>18. CASE /\ \/ a.t = "word"
               \/ TakesNext(a) /\ ~valued
               \/ a.t = "assign" /\ a.f \notin Assignable
            /\ Skip(pc)
  <2>1. UNCHANGED cfg
    BY <1>18 DEF Skip
  <2>2. \A g \in Fields : GiftNow(g) = {}
    BY <1>6, <1>9, <1>18
  <2> QED
    BY <2>1, <2>2, SkipGives
<1> QED
  BY <1>7, <1>14, <1>15, <1>16, <1>17, <1>18

-----------------------------------------------------------------------------
(* A line of the file gives its value to the field it names, and to the last *)
(* row of its table.                                                         *)

(* A line is a key of a section when it follows the header of it.            *)
LEMMA KeyLineIs ==
  ASSUME NEW ini, IsSeq(ini), NEW m \in 1..Len(ini), NEW s, NEW key
  PROVE  m \in Promise!KeyLines(ini, s, key)
           <=> ini[m].k = "key" /\ ini[m].key = key /\ SecBefore(ini, m) = s
<1>1. ini[m].k = "key" => Promise!SectionAt(ini, m) = SecBefore(ini, m)
  BY SectionStep DEF Opens
<1> QED
  BY <1>1 DEF Promise!KeyLines, IsSeq

(* The gift of a line, read with the section of the parser.                  *)
LEMMA IniGiftIs ==
  ASSUME TypeOK, pc = "ini", i <= Len(req.ini), sec = SecBefore(req.ini, i), NEW f
  PROVE  GiftNow(f) = IF /\ Kind[f] # "tab" /\ req.ini[i].k = "key"
                         /\ req.ini[i].key = Name[f] /\ sec = Home[f]
                      THEN {req.ini[i].val} ELSE {}
<1>1. IsSeq(req.ini) /\ i \in 1..Len(req.ini)
  BY DEF TypeOK, IsRequest, IsSeq
<1>2. DOMAIN req.ini = 1..Len(req.ini)
  BY <1>1 DEF IsSeq
<1>3. i \in Promise!KeyLines(req.ini, Home[f], Name[f])
        <=> req.ini[i].k = "key" /\ req.ini[i].key = Name[f] /\ SecBefore(req.ini, i) = Home[f]
  BY <1>1, KeyLineIs
<1>4. GiftNow(f) = IF Kind[f] # "tab" /\ i \in Promise!KeyLines(req.ini, Home[f], Name[f])
                   THEN {req.ini[i].val} ELSE {}
  BY <1>1, <1>2 DEF GiftNow, Gifts, IniGifts
<1> QED
  BY <1>3, <1>4

(* A key gives its value to its field, or to the last row of its table.      *)
LEMMA StoreGives ==
  ASSUME TypeOK, IniLine, sec = SecBefore(req.ini, i), req.ini[i].k = "key"
  PROVE  /\ \A f \in Fields : Kind[f] # "tab" => Gives(f)
         /\ \A f \in OfKind("tab") :
              \/ cfg'[cur][f] = cfg[cur][f]
              \/ /\ f = sec /\ req.ini[i].key = RowKey /\ cfg[cur][f].rows # <<>>
                 /\ Write(f, LastRowEffects(cfg[cur][f], req.ini[i].val.txt), "ini")
         /\ \A f \in OfKind("tab") :
              f = sec /\ req.ini[i].key = RowKey /\ cfg[cur][f].rows # <<>>
                => Write(f, LastRowEffects(cfg[cur][f], req.ini[i].val.txt), "ini")
<1> DEFINE line == req.ini[i]
           raw == line.val
           putting == sec \in OfKind("tab") /\ line.key = RowKey /\ cfg[cur][sec].rows # <<>>
<1>1. pc = "ini" /\ i <= Len(req.ini) /\ IsRequest(req) /\ i \in 1..Len(req.ini) /\ IsLine(line)
  <2>1. pc = "ini" /\ i <= Len(req.ini) /\ IsRequest(req) /\ i \in 1..Len(req.ini)
    BY DEF IniLine, TypeOK, IsRequest, IsSeq
  <2> QED
    BY <2>1 DEF IsRequest, IsSeq
<1>2. raw \in Raw
  BY <1>1 DEF IsLine
<1>3. raw.txt \in Texts /\ raw.elems \in Seq(Texts)
  BY <1>2, RawTyped
<1>4. \A f \in Fields : GiftNow(f) = IF Kind[f] # "tab" /\ f \in Declared(sec, line.key)
                                     THEN {raw} ELSE {}
  BY <1>1, IniGiftIs DEF Declared
<1>5. \A f, g \in Fields : f \in Declared(sec, line.key) /\ g \in Declared(sec, line.key) => f = g
  BY SchemaAssumption DEF Declared
<1>6. sec \in OfKind("tab") => Declared(sec, line.key) = {}
  BY SchemaAssumption DEF Declared, OfKind, Homes
<1>7. StoreKey(line)
  BY DEF IniLine
<1>8. OfKind("tab") \cap (Scalars \cup Lists) = {} /\ OfKind("tab") \subseteq Fields
      /\ Scalars \cup Lists \subseteq Fields
  BY DEF Scalars, Composed, Lists, OfKind
<1>9. \/ \E f \in Declared(sec, line.key) : StoreField(f, raw)
      \/ putting /\ Write(sec, LastRowEffects(cfg[cur][sec], raw.txt), "ini")
      \/ Declared(sec, line.key) = {} /\ ~putting /\ Skip("ini")
  BY <1>1, <1>7 DEF StoreKey
<1>10. \A f \in OfKind("tab") :
         f = sec /\ line.key = RowKey /\ cfg[cur][f].rows # <<>> <=> f = sec /\ putting
  OBVIOUS
<1> HIDE DEF line, raw, putting
<1>11. CASE \E f \in Declared(sec, line.key) : StoreField(f, raw)
  <2>1. PICK f \in Declared(sec, line.key) : StoreField(f, raw)
    BY <1>11
  <2>2. f \in Fields /\ ~putting
    BY <1>6, <2>1 DEF Declared, putting
  <2>3. \A g \in Fields : g # f => GiftNow(g) = {}
    BY <1>4, <1>5, <2>1, <2>2
  <2>4. CASE f \in Scalars /\ Write(f, ScalarEffects(f, raw.txt), pc)
    <3>1. GiftNow(f) = {raw} /\ Kind[f] # "tab"
      BY <1>4, <1>8, <2>1, <2>2, <2>4 DEF OfKind
    <3>2. \A e \in ScalarEffects(f, raw.txt) : Takes(f, raw, cfg[cur][f], e)
      BY <2>4, ScalarTakes
    <3>3. \A g \in Fields : Kind[g] # "tab" => Gives(g)
      BY <1>1, <1>3, <2>2, <2>3, <2>4, <3>1, <3>2, WriteGives
    <3>4. \A g \in OfKind("tab") : cfg'[cur][g] = cfg[cur][g]
      BY <1>1, <1>8, <2>2, <2>4, WriteOne
    <3> QED
      BY <1>10, <2>2, <3>3, <3>4 DEF line
  <2>5. CASE f \in Lists /\ Write(f, ListEffects(f, raw.elems), pc)
    <3>1. GiftNow(f) = {raw} /\ Kind[f] # "tab"
      BY <1>4, <1>8, <2>1, <2>2, <2>5 DEF OfKind
    <3>2. \A e \in ListEffects(f, raw.elems) : Takes(f, raw, cfg[cur][f], e)
      BY <1>3, <2>5, ListTakes
    <3>3. \A g \in Fields : Kind[g] # "tab" => Gives(g)
      BY <1>1, <1>3, <2>2, <2>3, <2>5, <3>1, <3>2, WriteGives
    <3>4. \A g \in OfKind("tab") : cfg'[cur][g] = cfg[cur][g]
      BY <1>1, <1>8, <2>2, <2>5, WriteOne
    <3> QED
      BY <1>10, <2>2, <3>3, <3>4 DEF line
  <2>6. CASE f \in OfKind("tab") /\ Skip(pc)
    <3>1. UNCHANGED cfg
      BY <2>6 DEF Skip
    <3>2. \A g \in Fields : Kind[g] # "tab" => GiftNow(g) = {}
      BY <2>3, <2>6 DEF OfKind
    <3>3. \A g \in Fields : Kind[g] # "tab" => Gives(g)
      BY <3>1, <3>2, SkipGives
    <3> QED
      BY <1>10, <2>2, <3>1, <3>3 DEF line
  <2> QED
    BY <2>1, <2>4, <2>5, <2>6 DEF StoreField
<1>12. CASE putting /\ Write(sec, LastRowEffects(cfg[cur][sec], raw.txt), "ini")
  <2>1. sec \in OfKind("tab") /\ sec \in Fields
    BY <1>8, <1>12 DEF putting
  <2>2. \A g \in Fields : GiftNow(g) = {}
    BY <1>4, <1>6, <2>1
  <2>3. \A g \in Fields : g # sec => cfg'[cur][g] = cfg[cur][g]
    BY <1>1, <1>12, <2>1, WriteOne
  <2>4. \A g \in Fields : Kind[g] # "tab" => Gives(g)
    BY <2>1, <2>2, <2>3 DEF Gives, OfKind
  <2>5. line.key = RowKey /\ cfg[cur][sec].rows # <<>>
    BY <1>12 DEF putting
  <2> QED
    BY <1>8, <1>12, <2>1, <2>3, <2>4, <2>5 DEF line, raw
<1>13. CASE Declared(sec, line.key) = {} /\ ~putting /\ Skip("ini")
  <2>1. UNCHANGED cfg
    BY <1>13 DEF Skip
  <2>2. \A g \in Fields : GiftNow(g) = {}
    BY <1>4, <1>13
  <2>3. \A g \in Fields : Kind[g] # "tab" => Gives(g)
    BY <2>1, <2>2, SkipGives
  <2> QED
    BY <1>10, <1>13, <2>1, <2>3 DEF line
<1> QED
  BY <1>9, <1>11, <1>12, <1>13

(* A header gives no field a value; [[S]] opens a row of S.                  *)
LEMMA HeaderGives ==
  ASSUME TypeOK, IniLine, sec = SecBefore(req.ini, i), req.ini[i].k # "key"
  PROVE  /\ \A f \in Fields : Kind[f] # "tab" => Gives(f)
         /\ \A f \in OfKind("tab") :
              \/ /\ cfg'[cur][f] = cfg[cur][f]
                 /\ ~(req.ini[i].k = "row" /\ req.ini[i].sec = f)
              \/ /\ req.ini[i].k = "row" /\ req.ini[i].sec = f
                 /\ Write(f, AppendRowEffects(cfg[cur][f]), "ini")
<1> DEFINE line == req.ini[i]
<1>1. pc = "ini" /\ i <= Len(req.ini)
  BY DEF IniLine
<1>2. \A f \in Fields : GiftNow(f) = {}
  BY <1>1, IniGiftIs
<1>3. OfKind("tab") \subseteq Fields /\ OfKind("tab") \cap Homes = {}
  BY SchemaAssumption DEF OfKind, Homes
<1>4. CASE line.k = "row" /\ line.sec \in OfKind("tab")
           /\ Write(line.sec, AppendRowEffects(cfg[cur][line.sec]), "ini")
  <2>1. line.sec \in Fields /\ Kind[line.sec] = "tab"
    BY <1>4 DEF OfKind
  <2>2. \A g \in Fields : g # line.sec => cfg'[cur][g] = cfg[cur][g]
    BY <1>1, <1>4, <2>1, WriteOne
  <2>3. \A g \in Fields : Kind[g] # "tab" => Gives(g)
    BY <1>2, <2>1, <2>2 DEF Gives
  <2> QED
    BY <1>3, <1>4, <2>2, <2>3
<1>5. CASE UNCHANGED cfg /\ (line.k = "row" => line.sec \notin OfKind("tab"))
  <2>1. \A g \in Fields : Kind[g] # "tab" => Gives(g)
    BY <1>2, <1>5, SkipGives
  <2> QED
    BY <1>5, <2>1
<1>6. \/ line.k = "row" /\ OpenRow(line.sec)
      \/ line.k # "row" /\ Skip(pc)
  BY DEF IniLine
<1> QED
  BY <1>1, <1>3, <1>4, <1>5, <1>6 DEF OpenRow, Skip

(* The texts of a table after a row was opened.                              *)
LEMMA AppendTexts ==
  ASSUME NEW old \in Slots, NEW e \in AppendRowEffects(old), ~e.failed
  PROVE  RowTexts(e.slot) = [r \in 1..(Len(old.rows) + 1) |->
                               IF r = Len(old.rows) + 1 THEN RowDefault ELSE RowTexts(old)[r]]
<1> DEFINE L == Len(old.rows)
           grown(p) == Slot(next, None, Append(old.rows, p))
<1>1. old.rows \in Seq(Pointers) /\ L \in Nat /\ DOMAIN old.rows = 1..L
  BY DEF Slots
<1>2. \E p : e.slot = grown(p) /\ p.txt = RowDefault
  <2>1. \/ e = Effect(old, {}, 0, TRUE, TRUE)
        \/ e = Effect(grown(NullPtr), {next}, 1, FALSE, FALSE) /\ RowDefault = None
        \/ e = Effect(grown(Ptr(next + 1, RowDefault)), {next, next + 1}, 2, FALSE, FALSE)
        \/ e = Effect(grown(NullPtr), {next}, 1, TRUE, FALSE)
    BY DEF AppendRowEffects
  <2> HIDE DEF grown
  <2>2. \/ e.slot = grown(NullPtr) /\ RowDefault = None
        \/ e.slot = grown(Ptr(next + 1, RowDefault))
    BY <2>1 DEF Effect
  <2> QED
    BY <2>2 DEF NullPtr, Ptr
<1>3. PICK p : e.slot = grown(p) /\ p.txt = RowDefault
  BY <1>2
<1>4. PICK rows : rows = e.slot.rows
  OBVIOUS
<1>5. rows = Append(old.rows, p)
  BY <1>3, <1>4 DEF Slot
<1>6. /\ DOMAIN rows = 1..(L + 1) /\ rows[L + 1] = p
      /\ \A r \in 1..L : rows[r] = old.rows[r]
  BY <1>1, <1>5
<1> HIDE DEF L, grown
<1>7. ASSUME NEW r \in 1..(L + 1)
      PROVE  rows[r].txt = IF r = L + 1 THEN RowDefault ELSE RowTexts(old)[r]
  <2>1. CASE r = L + 1
    BY <1>3, <1>6, <2>1
  <2>2. CASE r # L + 1
    <3>1. r \in 1..L
      BY <1>1, <2>2
    <3> QED
      BY <1>1, <1>6, <2>2, <3>1 DEF RowTexts
  <2> QED
    BY <2>1, <2>2
<1> QED
  BY <1>4, <1>6, <1>7 DEF RowTexts, L

(* The texts of a table after its last row got its key.                      *)
LEMMA LastTexts ==
  ASSUME NEW old \in Slots, old.rows # <<>>, NEW t, NEW e \in LastRowEffects(old, t), ~e.failed
  PROVE  RowTexts(e.slot) = [r \in 1..Len(old.rows) |->
                               IF r = Len(old.rows) THEN t ELSE RowTexts(old)[r]]
<1> DEFINE L == Len(old.rows)
           put(p) == [old EXCEPT !.rows = [old.rows EXCEPT ![L] = p]]
<1>1. old.rows \in Seq(Pointers) /\ L \in Nat /\ DOMAIN old.rows = 1..L
  BY DEF Slots
<1>2. \A p : put(p).rows = [old.rows EXCEPT ![L] = p]
  BY DEF Slots
<1>3. e.slot = put(Ptr(next, t))
  <2>1. \/ e = Effect(put(Ptr(next, t)), {next}, 1, FALSE, FALSE)
        \/ e = Effect(put(NullPtr), {}, 0, TRUE, FALSE)
    BY DEF LastRowEffects
  <2> HIDE DEF put
  <2> QED
    BY <2>1 DEF Effect
<1> HIDE DEF put
<1>4. PICK p : p = Ptr(next, t)
  OBVIOUS
<1>5. e.slot.rows = [old.rows EXCEPT ![L] = p]
  BY <1>2, <1>3, <1>4
<1>6. p.txt = t
  BY <1>4 DEF Ptr
<1>7. PICK rows : rows = e.slot.rows
  OBVIOUS
<1>8. DOMAIN rows = 1..L /\ \A r \in 1..L : rows[r] = IF r = L THEN p ELSE old.rows[r]
  BY <1>1, <1>5, <1>7
<1> HIDE DEF L
<1>9. \A r \in 1..L : rows[r].txt = IF r = L THEN t ELSE RowTexts(old)[r]
  BY <1>1, <1>6, <1>8 DEF RowTexts
<1> QED
  BY <1>7, <1>8, <1>9 DEF RowTexts, L

(* The rows of a table stay the ones its lines so far make. *)
LEMMA IniRows ==
  ASSUME TypeOK, IniLine, sec = SecBefore(req.ini, i), Calm, NEW f \in OfKind("tab"),
         RowTexts(cfg[cur][f]) = RowsUpTo(req.ini, f, i)
  PROVE  RowTexts(cfg'[cur][f]) = RowsUpTo(req.ini, f, i + 1)
<1> DEFINE line == req.ini[i]
           rows == RowsUpTo(req.ini, f, i)
           last == RowCount(req.ini, f, i - 1)
           old == cfg[cur][f]
           new == cfg'[cur][f]
<1>1. /\ IsSeq(req.ini) /\ i \in 1..Len(req.ini) /\ pc = "ini" /\ f \in Fields
      /\ old \in Slots /\ OomBudget = 0
  BY SlotTyped DEF IniLine, TypeOK, IsRequest, IsSeq, OfKind, Calm
<1>2. /\ rows = [r \in 1..last |-> rows[r]] /\ last \in Nat
      /\ line.k = "row" /\ line.sec = f
           => RowsUpTo(req.ini, f, i + 1)
                = [r \in 1..(last + 1) |-> IF r = last + 1 THEN RowDefault ELSE rows[r]]
      /\ i \in Promise!KeyLines(req.ini, f, RowKey)
           => RowsUpTo(req.ini, f, i + 1)
                = [r \in 1..last |-> IF r = last THEN line.val.txt ELSE rows[r]]
      /\ i \notin Promise!KeyLines(req.ini, f, RowKey) /\ ~(line.k = "row" /\ line.sec = f)
           => RowsUpTo(req.ini, f, i + 1) = rows
  BY <1>1, RowsNext
<1>3. i \in Promise!KeyLines(req.ini, f, RowKey)
        <=> line.k = "key" /\ line.key = RowKey /\ sec = f
  BY <1>1, KeyLineIs
<1>4. Len(old.rows) = last
  <2>1. old.rows \in Seq(Pointers)
    BY <1>1 DEF Slots
  <2>2. DOMAIN rows = 1..last
    BY <1>2
  <2>3. DOMAIN RowTexts(old) = 1..Len(old.rows) /\ Len(old.rows) \in Nat
    BY <2>1 DEF RowTexts
  <2>4. 1..Len(old.rows) = 1..last
    BY <2>2, <2>3
  <2> QED
    BY <1>2, <2>3, <2>4
<1>5. RowTexts(old) = rows
  OBVIOUS
<1> HIDE DEF rows, last, line, old, new
<1>6. CASE line.k = "key" /\ line.key = RowKey /\ f = sec /\ old.rows # <<>>
  <2>1. Write(f, LastRowEffects(old, line.val.txt), "ini")
    BY <1>6, StoreGives DEF line, old
  <2>2. PICK e \in LastRowEffects(old, line.val.txt) : new = e.slot /\ ~e.failed
    BY <1>1, <2>1, WriteOne DEF new
  <2>3. RowTexts(new) = [r \in 1..last |-> IF r = last THEN line.val.txt ELSE rows[r]]
    BY <1>1, <1>4, <1>5, <1>6, <2>2, LastTexts
  <2> QED
    BY <1>2, <1>3, <1>6, <2>3 DEF new
<1>7. CASE line.k = "key" /\ ~(line.key = RowKey /\ f = sec /\ old.rows # <<>>)
  <2>1. new = old
    BY <1>7, StoreGives DEF line, old, new
  <2>2. CASE line.key = RowKey /\ f = sec
    <3>1. last = 0 /\ RowTexts(old) = <<>>
      <4>1. old.rows = <<>>
        BY <1>7, <2>2
      <4> QED
        BY <1>4, <4>1, NoRows
    <3>2. [r \in 1..last |-> IF r = last THEN line.val.txt ELSE rows[r]] = <<>>
      <4>1. \A r \in 1..last : FALSE
        BY <3>1
      <4> QED
        BY <4>1
    <3> QED
      BY <1>2, <1>3, <1>7, <2>1, <2>2, <3>1, <3>2 DEF new
  <2>3. CASE ~(line.key = RowKey /\ f = sec)
    BY <1>2, <1>3, <1>5, <1>7, <2>1, <2>3 DEF new
  <2> QED
    BY <2>2, <2>3
<1>8. CASE line.k = "row" /\ line.sec = f
  <2>1. Write(f, AppendRowEffects(old), "ini")
    BY <1>8, HeaderGives DEF line, old
  <2>2. PICK e \in AppendRowEffects(old) : new = e.slot /\ ~e.failed
    BY <1>1, <2>1, WriteOne DEF new
  <2>3. RowTexts(new) = [r \in 1..(last + 1) |-> IF r = last + 1 THEN RowDefault ELSE rows[r]]
    BY <1>1, <1>4, <1>5, <2>2, AppendTexts
  <2> QED
    BY <1>2, <1>8, <2>3 DEF new
<1>9. CASE line.k # "key" /\ ~(line.k = "row" /\ line.sec = f)
  <2>1. new = old
    BY <1>9, HeaderGives DEF line, old, new
  <2> QED
    BY <1>2, <1>3, <1>5, <1>9, <2>1 DEF new
<1> QED
  BY <1>6, <1>7, <1>8, <1>9

-----------------------------------------------------------------------------
(* Where a call stands: what its stage tells of its request and its index.   *)

\* No line before m is malformed.
Clean(ini, m) == \A n \in DOMAIN ini : n < m => ini[n].k \notin {"badsec", "noeq"}

PlaceInv ==
  /\ pc = "idle" => i = 1 /\ sec = Other /\ good
  /\ pc \notin {"idle", "crashed"} => req \in Requests
  /\ pc \in {"default", "ini", "env", "validate"} => req.mode = "load"
  /\ pc = "default" => sec = Other /\ good
  /\ pc = "ini" => /\ req.file = "open" /\ sec = SecBefore(req.ini, i)
                   /\ good <=> Clean(req.ini, i)
  /\ pc \in {"env", "cli", "validate"} /\ req.mode = "load"
       => req.file # "missing" /\ (req.file = "open" => Clean(req.ini, Len(req.ini) + 1))
  /\ pc = "cli" /\ i \in DOMAIN req.cli => i \notin Promise!Swallowed(req.cli)
  /\ pc = "cli" /\ req.mode = "cli" => prior.status = status[cur]

(* A line of the file keeps the place.                                       *)
LEMMA IniLinePlace ==
  ASSUME TypeOK, PlaceInv, IniLine
  PROVE  PlaceInv'
<1> DEFINE line == req.ini[i]
<1>1. /\ pc = "ini" /\ IsSeq(req.ini) /\ i \in 1..Len(req.ini) /\ Len(req.ini) \in Nat
      /\ i' = i + 1 /\ UNCHANGED <<req, status, prior>>
  BY DEF IniLine, TypeOK, IsRequest, IsSeq
<1>2. pc' \in {"ini", "crashed"}
  <2>1. Moves("ini")
    BY <1>1, IniLineMoves
  <2> QED
    BY <2>1 DEF Moves
<1>3. /\ sec' = IF Opens(line) THEN line.sec ELSE sec
      /\ good' = IF line.k \in {"badsec", "noeq"} THEN FALSE ELSE good
  BY DEF IniLine, Opens
<1>4. sec' = SecBefore(req.ini, i + 1)
  <2>1. SecBefore(req.ini, i + 1) = Promise!SectionAt(req.ini, i)
    <3>1. (i + 1) - 1 = i
      BY <1>1
    <3> QED
      BY <3>1 DEF SecBefore
  <2> QED
    BY <1>1, <1>3, <2>1, SectionStep DEF PlaceInv
<1>5. good' <=> Clean(req.ini, i + 1)
  <2>1. good <=> Clean(req.ini, i)
    BY <1>1 DEF PlaceInv
  <2>2. \A n \in DOMAIN req.ini : n < i + 1 <=> n < i \/ n = i
    BY <1>1 DEF IsSeq
  <2>3. i \in DOMAIN req.ini
    BY <1>1 DEF IsSeq
  <2>4. CASE line.k \in {"badsec", "noeq"}
    <3>1. i < i + 1
      BY <1>1
    <3> QED
      BY <1>3, <2>3, <2>4, <3>1 DEF Clean
  <2>5. CASE line.k \notin {"badsec", "noeq"}
    <3>1. Clean(req.ini, i + 1) <=> Clean(req.ini, i)
      BY <2>2, <2>5 DEF Clean
    <3> QED
      BY <1>3, <2>1, <2>5, <3>1
  <2> QED
    BY <2>4, <2>5
<1> QED
  BY <1>1, <1>2, <1>4, <1>5 DEF PlaceInv

(* An argument that takes the next one as its value is not followed by it.   *)
LEMMA ArgumentPlace ==
  ASSUME TypeOK, PlaceInv, Argument
  PROVE  PlaceInv'
<1> DEFINE a == req.cli[i]
           valued == TakesNext(a) /\ i < Len(req.cli)
           S == Promise!Swallowed(req.cli)
<1>1. /\ pc = "cli" /\ IsSeq(req.cli) /\ i \in DOMAIN req.cli /\ i \in 1..Len(req.cli)
      /\ DOMAIN req.cli = 1..Len(req.cli) /\ Len(req.cli) \in Nat
      /\ i' = i + Consumed(a, valued) /\ UNCHANGED <<req, status, prior, cur>>
  BY DEF Argument, TypeOK, IsRequest, IsSeq
<1>2. pc' \in {"cli", "crashed"}
  <2>1. Moves("cli")
    BY <1>1, ArgumentMoves
  <2> QED
    BY <2>1 DEF Moves
<1>3. i \notin S
  BY <1>1 DEF PlaceInv
<1>4. \A k \in DOMAIN req.cli : k \in S <=> k > 1 /\ TakesNext(req.cli[k - 1]) /\ k - 1 \notin S
  BY <1>1, SwallowedIs
<1> HIDE DEF S
<1>5. i' \in DOMAIN req.cli => i' \notin S
  <2>1. CASE valued
    <3>1. i' = i + 2
      BY <1>1, <2>1 DEF Consumed
    <3>2. i + 1 \in DOMAIN req.cli /\ i + 1 > 1 /\ (i + 1) - 1 = i /\ (i + 2) - 1 = i + 1
      BY <1>1, <2>1
    <3>3. i + 1 \in S
      BY <1>3, <1>4, <2>1, <3>2
    <3>4. i + 2 \in DOMAIN req.cli => i + 2 \notin S
      BY <1>4, <3>2, <3>3
    <3> QED
      BY <3>1, <3>4
  <2>2. CASE ~valued
    <3>1. i' = i + 1
      BY <1>1, <2>2 DEF Consumed
    <3>2. i + 1 \in DOMAIN req.cli => (i + 1) - 1 = i /\ i < Len(req.cli)
      BY <1>1
    <3>3. i + 1 \in DOMAIN req.cli => i + 1 \notin S
      BY <1>4, <2>2, <3>2
    <3> QED
      BY <3>1, <3>3
  <2> QED
    BY <2>1, <2>2
<1> QED
  BY <1>1, <1>2, <1>5 DEF PlaceInv, S

(* The first argument is nobody's value.                                     *)
LEMMA FirstIsFree ==
  ASSUME NEW cli, IsSeq(cli)
  PROVE  1 \in DOMAIN cli => 1 \notin Promise!Swallowed(cli)
<1>1. ~(1 > 1)
  OBVIOUS
<1> QED
  BY <1>1, SwallowedIs

(* A call that returns leaves its place.                                     *)
LEMMA ReturnPlace ==
  ASSUME Return
  PROVE  PlaceInv'
BY DEF Return, PlaceInv

(* Every step keeps the place.                                               *)
LEMMA NextPlace ==
  ASSUME TypeOK, TypeOK', PlaceInv, [Next]_vars
  PROVE  PlaceInv'
<1>1. CASE DefaultField
  <2>1. pc = "default" /\ UNCHANGED <<req, sec, good, prior, status>>
    BY <1>1 DEF DefaultField
  <2>2. pc' \in {"default", "crashed"}
    BY <1>1, DefaultFieldMoves DEF Moves
  <2> QED
    BY <2>1, <2>2 DEF PlaceInv
<1>2. CASE OpenIni
  <2>1. CASE Return
    BY <2>1, ReturnPlace
  <2>2. CASE ~Return
    <3>1. /\ pc = "default" /\ req.file # "missing" /\ i' = 1
          /\ pc' = IF req.file = "open" THEN "ini" ELSE "env"
          /\ UNCHANGED <<req, sec, good, prior, status>>
      BY <1>2, <2>2 DEF OpenIni, FailLoad, Skip, dataVars
    <3>2. IsRequest(req) /\ IsSeq(req.ini)
      BY <3>1 DEF TypeOK, IsRequest
    <3>3. SecBefore(req.ini, 1) = Other
      BY SectionStart
    <3>4. Clean(req.ini, 1)
      BY <3>2 DEF Clean, IsSeq
    <3> QED
      BY <3>1, <3>2, <3>3, <3>4 DEF PlaceInv
  <2> QED
    BY <2>1, <2>2
<1>3. CASE IniLine
  BY <1>3, IniLinePlace
<1>4. CASE EndIni
  <2>1. CASE Return
    BY <2>1, ReturnPlace
  <2>2. CASE ~Return
    <3>1. /\ pc = "ini" /\ i > Len(req.ini) /\ good /\ pc' = "env"
          /\ UNCHANGED <<req, sec, good, prior, status>>
      BY <1>4, <2>2 DEF EndIni, FailLoad, Skip, dataVars
    <3>2. IsSeq(req.ini) /\ i \in Nat
      BY <3>1 DEF TypeOK, IsRequest
    <3>3. \A n \in DOMAIN req.ini : n < i
      BY <3>1, <3>2 DEF IsSeq
    <3>4. Clean(req.ini, Len(req.ini) + 1)
      BY <3>1, <3>3 DEF PlaceInv, Clean
    <3> QED
      BY <3>1, <3>4 DEF PlaceInv
  <2> QED
    BY <2>1, <2>2
<1>5. CASE EnvField
  <2>1. pc = "env" /\ UNCHANGED <<req, sec, good, prior, status>>
    BY <1>5 DEF EnvField
  <2>2. pc' \in {"env", "crashed"}
    BY <1>5, EnvFieldMoves DEF Moves
  <2> QED
    BY <2>1, <2>2 DEF PlaceInv
<1>6. CASE Publish
  <2>1. pc = "env" /\ pc' = "cli" /\ i' = 1 /\ UNCHANGED <<req, sec, good, prior, status>>
    BY <1>6 DEF Publish, Skip
  <2>2. 1 \in DOMAIN req.cli => 1 \notin Promise!Swallowed(req.cli)
    BY <2>1, FirstIsFree DEF TypeOK, IsRequest
  <2> QED
    BY <2>1, <2>2 DEF PlaceInv
<1>7. CASE Argument
  BY <1>7, ArgumentPlace
<1>8. CASE EndCli
  <2>1. CASE Return
    BY <2>1, ReturnPlace
  <2>2. CASE ~Return
    <3>1. pc = "cli" /\ pc' = "validate" /\ req.mode = "load" /\ UNCHANGED <<req, prior, status>>
      BY <1>8, <2>2 DEF EndCli
    <3> QED
      BY <3>1 DEF PlaceInv
  <2> QED
    BY <2>1, <2>2
<1>9. CASE Validate
  BY <1>9, ReturnPlace DEF Validate
<1>10. CASE pc = "idle" /\ \E c \in Cfgs : Free(c)
  BY <1>10 DEF Free, PlaceInv
<1>11. CASE pc = "idle" /\ \E c \in Cfgs, r \in Requests : Load(c, r)
  BY <1>11 DEF Load, PlaceInv
<1>12. CASE pc = "idle" /\ \E c \in Cfgs, r \in Requests : ParseCli(c, r)
  <2>1. PICK c \in Cfgs, r \in Requests : ParseCli(c, r)
    BY <1>12
  <2>2. /\ pc' = "cli" /\ cur' = c /\ req' = r /\ prior' = Answered(c) /\ i' = 1 /\ status' = status
        /\ r.mode = "cli"
    BY <1>12, <2>1 DEF ParseCli, dataVars, PlaceInv
  <2>3. 1 \in DOMAIN r.cli => 1 \notin Promise!Swallowed(r.cli)
    BY FirstIsFree, LoaderAssumption DEF IsRequest
  <2>4. Answered(c).status = status[c]
    BY DEF Answered
  <2> QED
    BY <2>2, <2>3, <2>4 DEF PlaceInv
<1>13. CASE UNCHANGED vars
  BY <1>13 DEF vars, heapVars, dataVars, callVars, PlaceInv
<1> QED
  BY <1>1, <1>2, <1>3, <1>4, <1>5, <1>6, <1>7, <1>8, <1>9, <1>10, <1>11, <1>12, <1>13 DEF Next, Step

(* Nothing is under way at first.                                            *)
LEMMA InitPlace == Init => PlaceInv
BY DEF Init, PlaceInv

(* Where a call stands, in every reachable state.                            *)
LEMMA PlaceInvariant == Spec => []PlaceInv
<1>1. TypeOK /\ TypeOK' /\ PlaceInv /\ [Next]_vars => PlaceInv'
  BY NextPlace
<1> QED
  BY <1>1, InitPlace, TypeCorrect, PTL DEF Spec

-----------------------------------------------------------------------------
(* A string is there exactly when its pointer is, and an address has at most *)
(* four octets.                                                              *)

Solid(f, slot) ==
  /\ Kind[f] = "str" => (slot.blk = Null <=> slot.txt = None)
  /\ f \in Composed => Len(slot.rows) <= 4
  /\ Calm /\ Kind[f] = "tab" =>
       \A n \in DOMAIN slot.rows : slot.rows[n].blk = Null <=> slot.rows[n].txt = None

SolidInv == \A c \in Cfgs, f \in Fields : Solid(f, cfg[c][f])

(* A zeroed slot is solid.                                                   *)
LEMMA ZeroSolid ==
  ASSUME NEW f
  PROVE  Solid(f, ZeroSlot)
<1>1. ZeroSlot.blk = Null /\ ZeroSlot.txt = None /\ ZeroSlot.rows = <<>> /\ Len(<<>>) <= 4
  BY DEF ZeroSlot, Slot
<1> QED
  BY <1>1 DEF Solid

(* A scalar that is written is solid.                                        *)
LEMMA ScalarSolid ==
  ASSUME TypeOK, SolidInv, pc # "idle", NEW f \in Scalars, NEW t \in Texts,
         NEW e \in ScalarEffects(f, t)
  PROVE  Solid(f, e.slot)
<1>1. Kind[f] # "tab" /\ next # Null /\ t # None /\ f \in Fields /\ cur \in Cfgs
  BY SchemaAssumption DEF TypeOK, Block, Texts, Scalars, Composed, OfKind
<1>2. CASE Kind[f] = "str"
  <2>1. \/ e = Effect(Slot(next, t, <<>>), {next}, 1, FALSE, FALSE)
        \/ e = Effect(ZeroSlot, {}, 0, TRUE, FALSE)
    BY <1>2 DEF ScalarEffects, InternEffects
  <2>2. e.slot = Slot(next, t, <<>>) \/ e.slot = ZeroSlot
    BY <2>1 DEF Effect
  <2>3. f \notin Composed
    BY <1>2 DEF Composed, OfKind
  <2> QED
    BY <1>1, <1>2, <2>2, <2>3, ZeroSolid DEF Solid, Slot
<1>3. CASE f \in Composed
  <2> DEFINE old == cfg[cur][f].rows
             new == Parts[f][t]
             rows == Patched(old, new)
  <2>1. e.slot.rows = rows
    <3>1. Kind[f] # "str"
      BY <1>3 DEF Composed, OfKind
    <3>2. e = Effect(Slot(Null, None, rows), {}, 0, FALSE, FALSE)
      BY <1>3, <3>1 DEF ScalarEffects, ValueEffects
    <3> QED
      BY <3>2 DEF Effect, Slot
  <2>2. /\ new \in Seq(Text) /\ Len(new) <= 4
        /\ old \in Seq(Pointers) /\ Len(old) <= 4
    BY <1>1, <1>3, SlotTyped, SchemaAssumption DEF Texts, Slots, SolidInv, Solid
  <2> DEFINE m == IF Len(old) < Len(new) THEN Len(new) ELSE Len(old)
  <2>3. m \in Nat /\ m <= 4
    BY <2>2
  <2>4. rows = [k \in 1..m |-> IF k <= Len(new) THEN Ptr(Null, new[k]) ELSE old[k]]
    BY DEF Patched
  <2> HIDE DEF m, rows, old, new
  <2>5. Len(rows) = m
    BY <2>3, <2>4
  <2> QED
    BY <1>1, <1>3, <2>1, <2>3, <2>5 DEF Solid, Composed, OfKind
<1>4. CASE Kind[f] # "str" /\ f \notin Composed
  BY <1>1, <1>4 DEF Solid
<1> QED
  BY <1>2, <1>3, <1>4

(* A table with a new row is solid.                                          *)
LEMMA AppendSolid ==
  ASSUME TypeOK, NEW f, Kind[f] = "tab", NEW old \in Slots, Solid(f, old),
         NEW e \in AppendRowEffects(old)
  PROVE  Solid(f, e.slot)
<1> DEFINE grown(p) == Slot(next, None, Append(old.rows, p))
<1>1. f \notin Composed
  BY DEF Composed, OfKind
<1> SUFFICES ASSUME Calm
             PROVE  \A n \in DOMAIN e.slot.rows :
                      e.slot.rows[n].blk = Null <=> e.slot.rows[n].txt = None
  BY <1>1 DEF Solid
<1>2. \/ e = Effect(old, {}, 0, TRUE, TRUE)
      \/ e = Effect(grown(NullPtr), {next}, 1, FALSE, FALSE)
      \/ e = Effect(grown(Ptr(next + 1, RowDefault)), {next, next + 1}, 2, FALSE, FALSE)
           /\ RowDefault # None
      \/ e = Effect(grown(NullPtr), {next}, 1, TRUE, FALSE)
  BY DEF AppendRowEffects
<1>3. next + 1 # Null /\ next \in Nat
  BY DEF TypeOK, Block, Null
<1>4. \/ e.slot = old
      \/ \E p : e.slot = grown(p) /\ (p.blk = Null <=> p.txt = None)
  <2> HIDE DEF grown
  <2>1. \/ e.slot = old \/ e.slot = grown(NullPtr)
        \/ e.slot = grown(Ptr(next + 1, RowDefault)) /\ RowDefault # None
    BY <1>2 DEF Effect
  <2>2. NullPtr.blk = Null /\ NullPtr.txt = None
    BY DEF NullPtr, Ptr
  <2>3. Ptr(next + 1, RowDefault).blk = next + 1 /\ Ptr(next + 1, RowDefault).txt = RowDefault
    BY DEF Ptr
  <2> QED
    BY <1>3, <2>1, <2>2, <2>3
<1>5. CASE e.slot = old
  BY <1>5 DEF Solid
<1>6. ASSUME NEW p, e.slot = grown(p), p.blk = Null <=> p.txt = None
      PROVE  \A n \in DOMAIN e.slot.rows :
               e.slot.rows[n].blk = Null <=> e.slot.rows[n].txt = None
  <2>1. PICK rows : rows = old.rows
    OBVIOUS
  <2>2. rows \in Seq(Pointers)
    BY <2>1 DEF Slots
  <2>3. e.slot.rows = Append(rows, p)
    BY <1>6, <2>1 DEF Slot
  <2>4. \A n \in DOMAIN rows : rows[n].blk = Null <=> rows[n].txt = None
    BY <2>1 DEF Solid
  <2>5. \A n \in DOMAIN Append(rows, p) :
          \/ n = Len(rows) + 1 /\ Append(rows, p)[n] = p
          \/ n \in DOMAIN rows /\ Append(rows, p)[n] = rows[n]
    <3> TAKE n \in DOMAIN Append(rows, p)
    <3>1. n \in 1..(Len(rows) + 1) /\ Len(rows) \in Nat /\ DOMAIN rows = 1..Len(rows)
      BY <2>2
    <3>2. n = Len(rows) + 1 \/ n \in DOMAIN rows
      BY <3>1
    <3> QED
      BY <2>2, <3>1, <3>2
  <2> QED
    BY <1>6, <2>3, <2>4, <2>5
<1> QED
  BY <1>4, <1>5, <1>6

(* A table whose last row got its key is solid.                              *)
LEMMA LastSolid ==
  ASSUME TypeOK, NEW f, Kind[f] = "tab", NEW old \in Slots, Solid(f, old), NEW t \in Texts,
         NEW e \in LastRowEffects(old, t)
  PROVE  Solid(f, e.slot)
<1> DEFINE put(p) == [old EXCEPT !.rows = [old.rows EXCEPT ![Len(old.rows)] = p]]
<1>1. f \notin Composed
  BY DEF Composed, OfKind
<1> SUFFICES ASSUME Calm
             PROVE  \A n \in DOMAIN e.slot.rows :
                      e.slot.rows[n].blk = Null <=> e.slot.rows[n].txt = None
  BY <1>1 DEF Solid
<1>2. next # Null /\ t # None
  BY SchemaAssumption DEF TypeOK, Block, Texts
<1>3. \/ e = Effect(put(Ptr(next, t)), {next}, 1, FALSE, FALSE)
      \/ e = Effect(put(NullPtr), {}, 0, TRUE, FALSE)
  BY DEF LastRowEffects
<1>4. \A p : put(p).rows = [old.rows EXCEPT ![Len(old.rows)] = p]
  BY DEF Slots
<1> HIDE DEF put
<1>5. \E p : e.slot = put(p) /\ (p.blk = Null <=> p.txt = None)
  <2>1. e.slot = put(Ptr(next, t)) \/ e.slot = put(NullPtr)
    BY <1>3 DEF Effect
  <2>2. NullPtr.blk = Null /\ NullPtr.txt = None /\ Ptr(next, t).blk = next /\ Ptr(next, t).txt = t
    BY DEF NullPtr, Ptr
  <2> QED
    BY <1>2, <2>1, <2>2
<1>6. PICK p : e.slot = put(p) /\ (p.blk = Null <=> p.txt = None)
  BY <1>5
<1>7. PICK rows : rows = old.rows
  OBVIOUS
<1>8. rows \in Seq(Pointers) /\ e.slot.rows = [rows EXCEPT ![Len(rows)] = p]
  BY <1>4, <1>6, <1>7 DEF Slots
<1>9. \A n \in DOMAIN rows : rows[n].blk = Null <=> rows[n].txt = None
  BY <1>7 DEF Solid
<1> QED
  BY <1>6, <1>8, <1>9

(* A step whose effects are solid keeps the structs so.                      *)
LEMMA WriteSolid ==
  ASSUME TypeOK, SolidInv, pc # "idle", NEW f \in Fields, NEW effects, NEW l, Write(f, effects, l),
         \A e \in effects : Solid(f, e.slot)
  PROVE  SolidInv'
<1>1. PICK e \in effects : cfg' = [cfg EXCEPT ![cur][f] = e.slot]
  BY DEF Write
<1>2. cur \in Cfgs /\ cfg \in [Cfgs -> [Fields -> Slots]]
  BY DEF TypeOK
<1>3. \A c \in Cfgs, g \in Fields : cfg'[c][g] = IF c = cur /\ g = f THEN e.slot ELSE cfg[c][g]
  BY <1>1, <1>2
<1> QED
  BY <1>3 DEF SolidInv, Solid, Calm

(* A step that writes nothing keeps the structs solid.                       *)
LEMMA KeptSolid ==
  ASSUME SolidInv, UNCHANGED cfg
  PROVE  SolidInv'
BY DEF SolidInv, Solid, Calm

(* So does one that zeroes a struct.                                         *)
LEMMA ZeroedSolid ==
  ASSUME TypeOK, SolidInv, NEW c, cfg' = [cfg EXCEPT ![c] = ZeroStruct]
  PROVE  SolidInv'
<1>1. cfg \in [Cfgs -> [Fields -> Slots]]
  BY DEF TypeOK
<1>2. \A d \in Cfgs, g \in Fields : cfg'[d][g] = IF d = c THEN ZeroSlot ELSE cfg[d][g]
  BY <1>1 DEF ZeroStruct
<1>3. \A d \in Cfgs, g \in Fields : Solid(g, cfg'[d][g])
  BY <1>2, ZeroSolid DEF SolidInv
<1> QED
  BY <1>3 DEF SolidInv, Solid, Calm

(* Of a list nothing is asked.                                               *)
LEMMA ListSolid ==
  ASSUME NEW f \in Lists, NEW slot
  PROVE  Solid(f, slot)
BY DEF Solid, Lists, OfKind, Composed

(* Defaults and environment variables keep the structs solid.                *)
LEMMA FieldSolid ==
  ASSUME TypeOK, SolidInv, DefaultField \/ EnvField
  PROVE  SolidInv'
<1>1. PICK f \in Fields : \/ Skip(pc)
                          \/ \E t \in Texts : f \in Scalars /\ Write(f, ScalarEffects(f, t), pc)
  <2>1. pc # "idle" /\ i \in DOMAIN FieldSeq
    BY SchemaAssumption DEF DefaultField, EnvField, TypeOK
  <2>2. PICK f \in Fields : f = FieldSeq[i]
    BY <2>1 DEF Fields
  <2>3. CASE DefaultField
    BY <2>2, <2>3, SchemaAssumption DEF DefaultField, Texts
  <2>4. CASE EnvField
    <3>1. f \in Envable \cap DOMAIN req.env => f \in Scalars /\ req.env[f].txt \in Texts
      <4>1. IsRequest(req)
        BY <2>1 DEF TypeOK
      <4> QED
        BY <4>1, RawTyped DEF IsRequest, Envable
    <3> QED
      BY <2>2, <2>4, <3>1 DEF EnvField
  <2> QED
    BY <2>3, <2>4
<1>2. CASE Skip(pc)
  BY <1>2, KeptSolid DEF Skip
<1>3. ASSUME NEW t \in Texts, f \in Scalars, Write(f, ScalarEffects(f, t), pc)
      PROVE  SolidInv'
  <2>1. pc # "idle"
    BY DEF DefaultField, EnvField
  <2>2. \A e \in ScalarEffects(f, t) : Solid(f, e.slot)
    BY <1>3, <2>1, ScalarSolid
  <2> QED
    BY <1>3, <2>1, <2>2, WriteSolid
<1> QED
  BY <1>1, <1>2, <1>3

(* A key keeps them solid.                                                   *)
LEMMA StoreSolid ==
  ASSUME TypeOK, SolidInv, pc # "idle", NEW line, line.val \in Raw, StoreKey(line)
  PROVE  SolidInv'
<1>1. line.val.txt \in Texts
  BY RawTyped
<1>2. CASE Skip(pc)
  BY <1>2, KeptSolid DEF Skip
<1>3. ASSUME NEW f \in Fields, StoreField(f, line.val)
      PROVE  SolidInv'
  <2>1. CASE f \in Scalars /\ Write(f, ScalarEffects(f, line.val.txt), pc)
    <3>1. \A e \in ScalarEffects(f, line.val.txt) : Solid(f, e.slot)
      BY <1>1, <2>1, ScalarSolid
    <3> QED
      BY <2>1, <3>1, WriteSolid
  <2>2. CASE f \in Lists /\ Write(f, ListEffects(f, line.val.elems), pc)
    BY <2>2, ListSolid, WriteSolid
  <2>3. CASE Skip(pc)
    BY <2>3, KeptSolid DEF Skip
  <2> QED
    BY <1>3, <2>1, <2>2, <2>3 DEF StoreField
<1>4. CASE sec \in OfKind("tab") /\ Write(sec, LastRowEffects(cfg[cur][sec], line.val.txt), pc)
  <2>1. PICK f \in Fields : f = sec /\ Kind[f] = "tab"
    BY <1>4 DEF OfKind
  <2>2. cfg[cur][f] \in Slots /\ Solid(f, cfg[cur][f])
    BY SlotTyped DEF TypeOK, SolidInv
  <2>3. \A e \in LastRowEffects(cfg[cur][f], line.val.txt) : Solid(f, e.slot)
    BY <1>1, <2>1, <2>2, LastSolid
  <2> QED
    BY <1>4, <2>1, <2>3, WriteSolid
<1> QED
  BY <1>2, <1>3, <1>4 DEF StoreKey, Declared

(* A row that is opened keeps them solid.                                    *)
LEMMA RowSolid ==
  ASSUME TypeOK, SolidInv, pc # "idle", NEW s, OpenRow(s)
  PROVE  SolidInv'
<1>1. CASE s \in OfKind("tab") /\ Write(s, AppendRowEffects(cfg[cur][s]), pc)
  <2>1. PICK f \in Fields : f = s /\ Kind[f] = "tab"
    BY <1>1 DEF OfKind
  <2>2. cfg[cur][f] \in Slots /\ Solid(f, cfg[cur][f])
    BY SlotTyped DEF TypeOK, SolidInv
  <2>3. \A e \in AppendRowEffects(cfg[cur][f]) : Solid(f, e.slot)
    BY <2>1, <2>2, AppendSolid
  <2> QED
    BY <1>1, <2>1, <2>3, WriteSolid
<1>2. CASE UNCHANGED cfg
  BY <1>2, KeptSolid
<1> QED
  BY <1>1, <1>2 DEF OpenRow, Skip

(* A line of the file keeps them solid.                                      *)
LEMMA LineSolid ==
  ASSUME TypeOK, SolidInv, IniLine
  PROVE  SolidInv'
<1>1. pc # "idle" /\ IsRequest(req) /\ i \in DOMAIN req.ini
  BY DEF IniLine, TypeOK, IsRequest, IsSeq
<1>2. CASE UNCHANGED cfg
  BY <1>2, KeptSolid
<1>3. CASE OpenRow(req.ini[i].sec)
  BY <1>1, <1>3, RowSolid
<1>4. CASE req.ini[i].k = "key" /\ StoreKey(req.ini[i])
  BY <1>1, <1>4, StoreSolid DEF IsRequest, IsLine
<1> QED
  BY <1>2, <1>3, <1>4 DEF IniLine, Skip

(* An argument keeps them solid.                                             *)
LEMMA ArgumentSolid ==
  ASSUME TypeOK, SolidInv, Argument, req \in Requests
  PROVE  SolidInv'
<1> DEFINE a == req.cli[i]
           valued == TakesNext(a) /\ i < Len(req.cli)
           raw == IF valued THEN AsRaw(req.cli[i + 1]) ELSE a.val
<1>1. pc # "idle" /\ IsRequest(req) /\ i \in Nat \ {0} /\ i <= Len(req.cli)
  BY DEF Argument, TypeOK
<1>2. IsSeq(req.cli) /\ \A n \in DOMAIN req.cli : IsToken(req.cli[n])
  BY <1>1 DEF IsRequest
<1>3. i \in DOMAIN req.cli /\ IsToken(a) /\ (i < Len(req.cli) => IsToken(req.cli[i + 1]))
  <2>1. i \in DOMAIN req.cli /\ (i < Len(req.cli) => i + 1 \in DOMAIN req.cli)
    BY <1>1, <1>2 DEF IsSeq
  <2> QED
    BY <2>1, <1>2
<1>4. valued \/ a.t = "assign" => raw \in Raw /\ a.f \in Fields
  BY <1>3, RawTyped DEF IsToken, TakesNext
<1>5. valued \/ a.t = "assign" => raw.txt \in Texts
  BY <1>4, RawTyped
<1>6. (CHOOSE t \in TrueTexts : TRUE) \in Texts
  BY SchemaAssumption DEF Texts
<1>7. \/ \E t \in Texts : a.f \in Scalars /\ Write(a.f, ScalarEffects(a.f, t), pc)
      \/ a.f \in Lists /\ Write(a.f, ListEffects(a.f, raw.elems), pc)
      \/ valued /\ Kind[a.f] = "tab"
         /\ Write(a.f, MistypedEffects(cfg[cur][a.f], raw.elems), pc)
      \/ Skip(pc)
  <2>1. a.t = "opt" /\ Kind[a.f] = "bool" => a.f \in Scalars
    BY <1>3 DEF IsToken, Scalars, OfKind
  <2>2. valued /\ Kind[a.f] = "enum" => a.f \in Scalars
    BY <1>4 DEF Scalars, Composed, OfKind
  <2>3. Assignable \subseteq Scalars
    BY DEF Assignable, Scalars, Composed
  <2> HIDE DEF raw
  <2> QED
    BY <1>5, <1>6, <2>1, <2>2, <2>3 DEF Argument, raw
<1>8. valued => a.t = "opt"
  BY DEF TakesNext
<1>9. a.t = "opt" /\ Kind[a.f] = "tab" => ~Calm
  BY <1>3 DEF Calm, ReadsUnwritten
<1> HIDE DEF a, valued, raw
<1>10. ASSUME NEW t \in Texts, a.f \in Scalars, Write(a.f, ScalarEffects(a.f, t), pc)
       PROVE  SolidInv'
  <2>1. a.f \in Fields
    BY <1>10 DEF Scalars, Composed, OfKind
  <2>2. \A e \in ScalarEffects(a.f, t) : Solid(a.f, e.slot)
    BY <1>1, <1>10, ScalarSolid
  <2> QED
    BY <1>1, <1>10, <2>1, <2>2, WriteSolid
<1>11. CASE a.f \in Lists /\ Write(a.f, ListEffects(a.f, raw.elems), pc)
  <2>1. a.f \in Fields
    BY <1>11 DEF Lists, OfKind
  <2>2. \A e \in ListEffects(a.f, raw.elems) : Solid(a.f, e.slot)
    BY <1>11, ListSolid
  <2> QED
    BY <1>1, <1>11, <2>1, <2>2, WriteSolid
<1>12. CASE /\ valued /\ Kind[a.f] = "tab"
            /\ Write(a.f, MistypedEffects(cfg[cur][a.f], raw.elems), pc)
  <2>1. a.f \in Fields
    BY <1>4, <1>12
  <2>2. a.f \notin Composed
    BY <1>12 DEF Composed, OfKind
  <2>3. \A slot : Solid(a.f, slot)
    BY <1>8, <1>9, <1>12, <2>2 DEF Solid
  <2> QED
    BY <1>1, <1>12, <2>1, <2>3, WriteSolid
<1>13. CASE Skip(pc)
  BY <1>13, KeptSolid DEF Skip
<1> QED
  BY <1>7, <1>10, <1>11, <1>12, <1>13

(* Every step keeps the structs solid.                                       *)
LEMMA NextSolid ==
  ASSUME TypeOK, PlaceInv, SolidInv, [Next]_vars
  PROVE  SolidInv'
<1>1. CASE DefaultField \/ EnvField
  BY <1>1, FieldSolid
<1>2. CASE IniLine
  BY <1>2, LineSolid
<1>3. CASE Argument
  <2>1. req \in Requests
    BY <1>3 DEF Argument, PlaceInv
  <2> QED
    BY <1>3, <2>1, ArgumentSolid
<1>4. CASE OpenIni \/ EndIni \/ Publish \/ EndCli
  <2>1. UNCHANGED cfg
    BY <1>4 DEF OpenIni, EndIni, Publish, EndCli, FailLoad, Skip
  <2> QED
    BY <2>1, KeptSolid
<1>5. CASE Validate
  <2>1. UNCHANGED cfg \/ cfg' = [cfg EXCEPT ![cur] = ZeroStruct]
    BY <1>5 DEF Validate, Release
  <2> QED
    BY <2>1, KeptSolid, ZeroedSolid
<1>6. ASSUME NEW c \in Cfgs, Free(c) \/ \E r \in Requests : Load(c, r) \/ ParseCli(c, r)
      PROVE  SolidInv'
  <2>1. UNCHANGED cfg \/ cfg' = [cfg EXCEPT ![c] = ZeroStruct]
    BY <1>6 DEF Free, Release, Load, Clear, ParseCli, dataVars
  <2> QED
    BY <2>1, KeptSolid, ZeroedSolid
<1>7. CASE UNCHANGED vars
  BY <1>7, KeptSolid DEF vars, dataVars
<1> QED
  BY <1>1, <1>2, <1>3, <1>4, <1>5, <1>6, <1>7 DEF Next, Step

(* Strings, their pointers and addresses agree in every reachable state.     *)
LEMMA SolidInvariant == Spec => []SolidInv
<1>1. Init => SolidInv
  BY ZeroSolid DEF Init, SolidInv, ZeroStruct
<1>2. TypeOK /\ PlaceInv /\ SolidInv /\ [Next]_vars => SolidInv'
  BY NextSolid
<1> QED
  BY <1>1, <1>2, TypeCorrect, PlaceInvariant, PTL DEF Spec

-----------------------------------------------------------------------------
(* The value of every field during a call.                                   *)

(* What was said so far, the value of a field in a zeroed struct, and the    *)
(* value it had when the call began.                                         *)
SaidNow(f) == [k \in 1..4 |-> Said(req, pc, i, f, k)]

Unset(f) == IF f \in Scalars \ Composed THEN None ELSE <<>>

Base(f) == IF req.mode = "cli" THEN prior.view[f] ELSE Unset(f)

\* The rows a table is meant to have.
TabMeant(f) ==
  IF req.mode = "cli" THEN prior.view[f]
  ELSE IF pc = "default" THEN <<>>
  ELSE IF pc = "ini" THEN RowsUpTo(req.ini, f, i)
  ELSE IF req.file = "open" THEN RowsOf(req.ini, f) ELSE <<>>

TabKept == Calm => \A f \in OfKind("tab") : RowTexts(cfg[cur][f]) = TabMeant(f)

FieldsKept == \A f \in Fields : Kind[f] # "tab" => Agrees(f, cfg[cur][f], SaidNow(f), Base(f))

\* A call that began on a struct whose values are known.
Underway == pc \notin {"idle", "crashed"} /\ (req.mode = "cli" => prior.status = "SUCCESS")

ValueInv == Underway => FieldsKept /\ TabKept

(* A field that is given its gift keeps the value it is meant to have.       *)
LEMMA GivesAgrees ==
  ASSUME TypeOK, pc # "idle", NEW f \in Fields, Kind[f] # "tab", Gives(f), NEW S, NEW b,
         S = [k \in 1..4 |-> S[k]], Agrees(f, cfg[cur][f], S, b)
  PROVE  Agrees(f, cfg'[cur][f], TellAll(f, GiftNow(f), S), b)
<1>1. CASE cfg'[cur][f] = cfg[cur][f] /\ GiftNow(f) = {}
  <2>1. \A k \in 1..4 : Told(f, k, GiftNow(f), S[k]) = S[k]
    BY <1>1 DEF Told
  <2>2. TellAll(f, GiftNow(f), S) = [k \in 1..4 |-> S[k]]
    BY <2>1 DEF TellAll
  <2>3. TellAll(f, GiftNow(f), S) = S
    BY <2>2
  <2> QED
    BY <1>1, <2>3
<1>2. CASE \E raw, e : /\ GiftNow(f) = {raw} /\ raw.txt \in Texts
                       /\ Takes(f, raw, cfg[cur][f], e) /\ cfg'[cur][f] = e.slot
                       /\ e.failed => OomBudget > 0
  <2>1. PICK raw, e : /\ GiftNow(f) = {raw} /\ raw.txt \in Texts
                      /\ Takes(f, raw, cfg[cur][f], e) /\ cfg'[cur][f] = e.slot
                      /\ e.failed => OomBudget > 0
    BY <1>2
  <2>2. PICK old \in Slots : old = cfg[cur][f]
    BY DEF TypeOK
  <2>3. Takes(f, raw, old, e) /\ Agrees(f, old, S, b)
    BY <2>1, <2>2
  <2>4. Agrees(f, e.slot, TellAll(f, {raw}, S), b)
    BY <2>1, <2>3, TakesAgrees
  <2> QED
    BY <2>1, <2>4
<1> QED
  BY <1>1, <1>2 DEF Gives

(* A step of a stage keeps every value what the layers so far mean.          *)
LEMMA StageAgrees ==
  ASSUME TypeOK, ValueInv, pc \in Stages, i \in 1..Steps(req, pc),
         pc' \in {pc, "crashed"}, UNCHANGED <<cur, req, prior>>,
         \A f \in Fields : Kind[f] # "tab" => Gives(f),
         \A f \in Fields, k \in 1..4 : Said(req, pc, i', f, k) = Said(req, pc, i + 1, f, k),
         pc' = pc /\ TabKept => TabKept'
  PROVE  ValueInv'
<1>1. IsRequest(req) /\ pc # "idle" /\ pc # "crashed"
  BY DEF TypeOK, Stages
<1> SUFFICES ASSUME Underway'
             PROVE  FieldsKept' /\ TabKept'
  BY DEF ValueInv
<1>2. pc' = pc /\ Underway
  BY <1>1 DEF Underway
<1>3. FieldsKept /\ TabKept
  BY <1>2 DEF ValueInv
<1>4. TabKept'
  BY <1>2, <1>3
<1>5. ASSUME NEW f \in Fields, Kind[f] # "tab"
      PROVE  Agrees(f, cfg'[cur'][f], SaidNow(f)', Base(f)')
  <2>1. \A k \in 1..4 : Said(req, pc, i', f, k) = Told(f, k, GiftNow(f), Said(req, pc, i, f, k))
    BY <1>1, SaidNext DEF GiftNow
  <2>2. SaidNow(f)' = [k \in 1..4 |-> Said(req, pc, i', f, k)]
    BY <1>2 DEF SaidNow
  <2>3. PICK S : S = SaidNow(f)
    OBVIOUS
  <2>4. S = [k \in 1..4 |-> S[k]] /\ \A k \in 1..4 : S[k] = Said(req, pc, i, f, k)
    BY <2>3 DEF SaidNow
  <2>5. SaidNow(f)' = TellAll(f, GiftNow(f), S)
    BY <2>1, <2>2, <2>4 DEF TellAll
  <2>6. PICK b : b = Base(f)
    OBVIOUS
  <2>7. Agrees(f, cfg[cur][f], S, b)
    BY <1>3, <1>5, <2>3, <2>6 DEF FieldsKept
  <2>8. Agrees(f, cfg'[cur][f], TellAll(f, GiftNow(f), S), b)
    BY <1>1, <1>5, <2>4, <2>7, GivesAgrees
  <2>9. Base(f)' = b
    BY <2>6 DEF Base, Unset
  <2> QED
    BY <2>5, <2>8, <2>9
<1> QED
  BY <1>4, <1>5 DEF FieldsKept, Agrees

(* A step from one stage to the next keeps it too.                           *)
LEMMA PhaseAgrees ==
  ASSUME ValueInv, pc \notin {"idle", "crashed"}, UNCHANGED <<cfg, cur, req, prior>>,
         \A f \in Fields, k \in 1..4 : Said(req, pc', i', f, k) = Said(req, pc, i, f, k),
         TabKept => TabKept'
  PROVE  ValueInv'
<1> SUFFICES ASSUME Underway'
             PROVE  FieldsKept' /\ TabKept'
  BY DEF ValueInv
<1>1. Underway
  BY DEF Underway
<1>2. FieldsKept /\ TabKept
  BY <1>1 DEF ValueInv
<1>3. ASSUME NEW f \in Fields
      PROVE  SaidNow(f)' = SaidNow(f) /\ Base(f)' = Base(f)
  <2>1. SaidNow(f)' = [k \in 1..4 |-> Said(req, pc', i', f, k)]
    BY DEF SaidNow
  <2>2. SaidNow(f)' = SaidNow(f)
    BY <2>1 DEF SaidNow
  <2> QED
    BY <2>2 DEF Base, Unset
<1>4. FieldsKept'
  <2> SUFFICES ASSUME NEW f \in Fields, Kind[f] # "tab"
               PROVE  Agrees(f, cfg'[cur'][f], SaidNow(f)', Base(f)')
    BY DEF FieldsKept, Agrees
  <2>1. Agrees(f, cfg[cur][f], SaidNow(f), Base(f))
    BY <1>2 DEF FieldsKept
  <2> QED
    BY <1>3, <2>1
<1> QED
  BY <1>2, <1>4

(* Defaults and environment variables.                                       *)
LEMMA FieldValues ==
  ASSUME TypeOK, PlaceInv, ValueInv, DefaultField \/ EnvField
  PROVE  ValueInv'
<1>1. /\ pc \in {"default", "env"} /\ pc \in Stages /\ req.mode = "load"
      /\ i \in 1..Steps(req, pc) /\ i' = i + 1 /\ UNCHANGED <<cur, req, prior>>
  <2>1. pc \in {"default", "env"} /\ i <= Len(FieldSeq) /\ i \in Nat \ {0} /\ Len(FieldSeq) \in Nat
    BY SchemaAssumption DEF DefaultField, EnvField, TypeOK
  <2>2. Steps(req, pc) = Len(FieldSeq) /\ pc \in Stages
    BY <2>1 DEF Steps, Stages
  <2> QED
    BY <2>1, <2>2 DEF DefaultField, EnvField, PlaceInv
<1>2. pc' \in {pc, "crashed"}
  BY <1>1, DefaultFieldMoves, EnvFieldMoves DEF DefaultField, EnvField, Moves
<1>3. /\ \A f \in Fields : Kind[f] # "tab" => Gives(f)
      /\ \A f \in OfKind("tab") : cfg'[cur][f] = cfg[cur][f]
  BY DefaultGives, EnvGives
<1>4. ASSUME pc' = pc, TabKept
      PROVE  TabKept'
  <2>1. \A f : TabMeant(f)' = TabMeant(f)
    BY <1>1, <1>4 DEF TabMeant
  <2>2. \A f \in OfKind("tab") : RowTexts(cfg'[cur'][f]) = RowTexts(cfg[cur][f])
    BY <1>1, <1>3
  <2> QED
    BY <1>4, <2>1, <2>2 DEF TabKept, Calm, RowTexts
<1> QED
  BY <1>1, <1>2, <1>3, <1>4, StageAgrees

(* The lines of the file.                                                    *)
LEMMA IniValues ==
  ASSUME TypeOK, PlaceInv, ValueInv, IniLine
  PROVE  ValueInv'
<1>1. /\ pc = "ini" /\ pc \in Stages /\ req.mode = "load" /\ sec = SecBefore(req.ini, i)
      /\ i \in 1..Steps(req, pc) /\ i' = i + 1 /\ UNCHANGED <<cur, req, prior>>
  <2>1. pc = "ini" /\ i <= Len(req.ini) /\ i \in Nat \ {0} /\ IsRequest(req)
    BY DEF IniLine, TypeOK
  <2>2. Steps(req, pc) = Len(req.ini) /\ pc \in Stages /\ Len(req.ini) \in Nat
    BY <2>1 DEF Steps, Stages, IsRequest, IsSeq
  <2> QED
    BY <2>1, <2>2 DEF IniLine, PlaceInv
<1>2. pc' \in {pc, "crashed"}
  BY <1>1, IniLineMoves DEF Moves
<1>3. \A f \in Fields : Kind[f] # "tab" => Gives(f)
  BY <1>1, StoreGives, HeaderGives
<1>4. ASSUME pc' = pc, TabKept
      PROVE  TabKept'
  <2>1. \A f : TabMeant(f) = RowsUpTo(req.ini, f, i) /\ TabMeant(f)' = RowsUpTo(req.ini, f, i + 1)
    BY <1>1, <1>4 DEF TabMeant
  <2>2. Calm => \A f \in OfKind("tab") : RowTexts(cfg'[cur][f]) = RowsUpTo(req.ini, f, i + 1)
    BY <1>1, <1>4, <2>1, IniRows DEF TabKept
  <2> QED
    BY <1>1, <2>1, <2>2 DEF TabKept, Calm, RowTexts
<1> QED
  BY <1>1, <1>2, <1>3, <1>4, StageAgrees

(* The arguments; the one an option takes as its value gives nothing.        *)
LEMMA ArgumentValues ==
  ASSUME TypeOK, PlaceInv, ValueInv, Argument
  PROVE  ValueInv'
<1>1. /\ pc = "cli" /\ pc \in Stages /\ req \in Requests /\ IsSeq(req.cli) /\ IsRequest(req)
      /\ i \in 1..Steps(req, pc) /\ i \in DOMAIN req.cli /\ i \notin Promise!Swallowed(req.cli)
      /\ UNCHANGED <<cur, req, prior>>
  <2>1. pc = "cli" /\ i <= Len(req.cli) /\ i \in Nat \ {0} /\ IsRequest(req)
    BY DEF Argument, TypeOK
  <2>2. Steps(req, pc) = Len(req.cli) /\ pc \in Stages /\ IsSeq(req.cli)
    BY <2>1 DEF Steps, Stages, IsRequest
  <2>3. i \in DOMAIN req.cli
    BY <2>1, <2>2 DEF IsSeq
  <2> QED
    BY <2>1, <2>2, <2>3 DEF Argument, PlaceInv, IsSeq
<1>2. pc' \in {pc, "crashed"}
  BY <1>1, ArgumentMoves DEF Moves
<1>3. /\ \A f \in Fields : Kind[f] # "tab" => Gives(f)
      /\ Calm => \A f \in OfKind("tab") : cfg'[cur][f] = cfg[cur][f]
  BY <1>1, ArgumentGives
<1>4. ASSUME pc' = pc, TabKept
      PROVE  TabKept'
  <2>1. \A f : TabMeant(f)' = TabMeant(f)
    BY <1>1, <1>4 DEF TabMeant
  <2>2. Calm => \A f \in OfKind("tab") : RowTexts(cfg'[cur'][f]) = RowTexts(cfg[cur][f])
    BY <1>1, <1>3
  <2> QED
    BY <1>4, <2>1, <2>2 DEF TabKept, Calm, RowTexts
<1>5. ASSUME NEW f \in Fields, NEW k \in 1..4
      PROVE  Said(req, pc, i', f, k) = Said(req, pc, i + 1, f, k)
  <2> DEFINE valued == TakesNext(req.cli[i]) /\ i < Len(req.cli)
  <2>1. i' = IF valued THEN i + 2 ELSE i + 1
    BY DEF Argument, Consumed
  <2>2. CASE ~valued
    BY <2>1, <2>2
  <2>3. CASE valued
    <3>1. i + 1 \in 1..Steps(req, pc) /\ (i + 1) + 1 = i + 2 /\ (i + 1) - 1 = i /\ i + 1 > 1
      BY <1>1, <2>3 DEF Steps, IsSeq
    <3>2. i + 1 \in DOMAIN req.cli
      BY <1>1, <2>3 DEF IsSeq
    <3>3. i + 1 \in Promise!Swallowed(req.cli)
      BY <1>1, <2>3, <3>1, <3>2, SwallowedIs
    <3>4. Gifts(req, pc, f)[i + 1] = {}
      BY <1>1, <3>2, <3>3 DEF Gifts, CliGifts, Heard, Promise!Given
    <3>5. Said(req, pc, i + 2, f, k) = Told(f, k, {}, Said(req, pc, i + 1, f, k))
      <4>1. PICK j \in 1..Steps(req, pc) : j = i + 1
        BY <3>1
      <4>2. Said(req, pc, j + 1, f, k) = Told(f, k, Gifts(req, pc, f)[j], Said(req, pc, j, f, k))
        BY <1>1, SaidNext
      <4> QED
        BY <3>1, <3>4, <4>1, <4>2
    <3> QED
      BY <2>1, <2>3, <3>5 DEF Told
  <2> QED
    BY <2>2, <2>3
<1> QED
  BY <1>1, <1>2, <1>3, <1>4, <1>5, StageAgrees

(* Between the stages nothing is written. *)
LEMMA PhaseValues ==
  ASSUME TypeOK, PlaceInv, ValueInv, OpenIni \/ EndIni \/ Publish \/ EndCli, ~Return
  PROVE  ValueInv'
<1>1. /\ pc \notin {"idle", "crashed"} /\ IsRequest(req) /\ i \in Nat
      /\ IsSeq(req.ini) /\ IsSeq(req.cli) /\ req.mode = "load"
      /\ UNCHANGED <<cfg, cur, req, prior>>
  <2>1. pc \in {"default", "ini", "env", "cli"} /\ UNCHANGED <<cfg, cur, req, prior>>
        /\ (pc = "cli" => req.mode = "load")
    BY DEF OpenIni, EndIni, Publish, EndCli, FailLoad, Skip, dataVars
  <2>2. IsRequest(req) /\ i \in Nat
    BY <2>1 DEF TypeOK
  <2> QED
    BY <2>1, <2>2 DEF PlaceInv, IsRequest
<1>2. \/ /\ pc = "default" /\ i > Len(FieldSeq) /\ i' = 1
         /\ \/ req.file = "open" /\ pc' = "ini"
            \/ req.file = "none" /\ pc' = "env"
      \/ pc = "ini" /\ i > Len(req.ini) /\ i' = 1 /\ req.file = "open" /\ pc' = "env"
      \/ pc = "env" /\ i > Len(FieldSeq) /\ i' = 1 /\ pc' = "cli"
      \/ pc = "cli" /\ i > Len(req.cli) /\ pc' = "validate"
  BY <1>1 DEF OpenIni, EndIni, Publish, EndCli, FailLoad, Skip, PlaceInv, IsRequest
<1>3. ASSUME NEW f \in Fields, NEW k \in 1..4
      PROVE  Said(req, pc', i', f, k) = Said(req, pc, i, f, k)
  <2>1. /\ i > Len(FieldSeq) /\ req.file = "open"
              => Said(req, "ini", 1, f, k) = Said(req, "default", i, f, k)
        /\ i > Len(FieldSeq) /\ req.file = "none"
              => Said(req, "env", 1, f, k) = Said(req, "default", i, f, k)
        /\ i > Len(req.ini) /\ req.file = "open"
              => Said(req, "env", 1, f, k) = Said(req, "ini", i, f, k)
        /\ i > Len(FieldSeq) => Said(req, "cli", 1, f, k) = Said(req, "env", i, f, k)
    BY <1>1, SaidPhase
  <2>2. i > Len(req.cli) => Said(req, "validate", i', f, k) = Said(req, "cli", i, f, k)
    BY <1>1, SaidEnd
  <2> QED
    BY <1>2, <2>1, <2>2
<1>4. ASSUME NEW f \in OfKind("tab") PROVE TabMeant(f)' = TabMeant(f)
  <2>1. RowsUpTo(req.ini, f, 1) = <<>>
    BY <1>1, RowsStart
  <2>2. i > Len(req.ini) => RowsUpTo(req.ini, f, i) = RowsOf(req.ini, f)
    BY <1>1, RowsAll
  <2>3. TabMeant(f) = IF pc = "default" THEN <<>>
                      ELSE IF pc = "ini" THEN RowsUpTo(req.ini, f, i)
                      ELSE IF req.file = "open" THEN RowsOf(req.ini, f) ELSE <<>>
    BY <1>1 DEF TabMeant
  <2>4. TabMeant(f)' = IF pc' = "default" THEN <<>>
                       ELSE IF pc' = "ini" THEN RowsUpTo(req.ini, f, i')
                       ELSE IF req.file = "open" THEN RowsOf(req.ini, f) ELSE <<>>
    BY <1>1 DEF TabMeant
  <2>5. pc' = "ini" => pc = "default" /\ i' = 1
    BY <1>2
  <2>6. pc = "ini" => i > Len(req.ini) /\ req.file = "open" /\ pc' = "env"
    BY <1>2
  <2>7. pc = "default" /\ pc' # "ini" => req.file = "none" /\ pc' = "env"
    BY <1>2
  <2>8. pc' # "default"
    BY <1>2
  <2> QED
    BY <2>1, <2>2, <2>3, <2>4, <2>5, <2>6, <2>7, <2>8
<1>5. TabKept => TabKept'
  BY <1>1, <1>4 DEF TabKept, Calm, RowTexts
<1> QED
  BY <1>1, <1>3, <1>5, PhaseAgrees

(* A load starts from a zeroed struct. *)
LEMMA LoadValues ==
  ASSUME TypeOK, PlaceInv, pc = "idle", NEW c \in Cfgs, NEW r \in Requests, Load(c, r)
  PROVE  ValueInv'
<1>1. /\ pc' = "default" /\ cur' = c /\ req' = r /\ i' = 1 /\ r.mode = "load" /\ IsRequest(r)
      /\ \A f \in Fields : cfg'[c][f] = ZeroSlot
  BY LoaderAssumption DEF Load, Clear, ZeroStruct, PlaceInv, TypeOK
<1>2. ZeroSlot.txt = None /\ ZeroSlot.rows = <<>> /\ RowTexts(ZeroSlot) = <<>>
  <2>1. ZeroSlot.txt = None /\ ZeroSlot.rows = <<>>
    BY DEF ZeroSlot, Slot
  <2> QED
    BY <2>1, NoRows
<1>3. ASSUME NEW f \in Fields, Kind[f] # "tab"
      PROVE  Agrees(f, ZeroSlot, SaidNow(f)', Unset(f))
  <2>1. \A k \in 1..4 : Said(r, "default", 1, f, k) = {}
    BY <1>1, SaidStart
  <2>2. SaidNow(f)' = [k \in 1..4 |-> {}]
    BY <1>1, <2>1 DEF SaidNow
  <2>3. CASE f \notin Composed
    BY <1>2, <2>2, <2>3 DEF Agrees, Meant, Shown, Unset, Scalars, OfKind
  <2>4. CASE f \in Composed
    <3>1. MeantParts(f, SaidNow(f)', <<>>) = [k \in 1..4 |-> {}]
      BY <2>2 DEF MeantParts, Had
    <3>2. Promise!Assembled([k \in 1..4 |-> {}]) = <<>>
      <4>1. {n \in 1..4 : [k \in 1..4 |-> {}][n] # {}} = {}
        OBVIOUS
      <4>2. Promise!Assembled([k \in 1..4 |-> {}]) = [k \in {} |-> CHOOSE t \in {} : TRUE]
        BY <4>1 DEF Promise!Assembled
      <4> QED
        BY <4>2
    <3>3. Kind[f] # "str"
      BY <2>4 DEF Composed, OfKind
    <3> QED
      BY <1>2, <2>4, <3>1, <3>2, <3>3 DEF Agrees, Meant, Shown, Unset
  <2> QED
    BY <2>3, <2>4
<1>4. FieldsKept'
  <2> SUFFICES ASSUME NEW f \in Fields, Kind[f] # "tab"
               PROVE  Agrees(f, cfg'[cur'][f], SaidNow(f)', Base(f)')
    BY DEF FieldsKept, Agrees
  <2>1. Base(f)' = Unset(f)
    BY <1>1 DEF Base, Unset
  <2> QED
    BY <1>1, <1>3, <2>1
<1>5. TabKept'
  <2>1. \A f \in OfKind("tab") : TabMeant(f)' = <<>>
    BY <1>1 DEF TabMeant
  <2>2. \A f \in OfKind("tab") : cfg'[cur'][f] = ZeroSlot
    BY <1>1 DEF OfKind
  <2> QED
    BY <1>2, <2>1, <2>2 DEF TabKept, RowTexts
<1> QED
  BY <1>4, <1>5 DEF ValueInv

(* Where no flag says anything a field means what it had. *)
LEMMA UnsaidMeant ==
  ASSUME NEW f \in Fields, NEW slot \in Slots, Solid(f, slot), NEW S, \A k \in 1..4 : S[k] = {}
  PROVE  Agrees(f, slot, S, Shown(f, slot))
<1>1. CASE f \notin Composed
  <2>1. Meant(f, S, Shown(f, slot)) = Shown(f, slot)
    <3>1. S[1] = {}
      OBVIOUS
    <3> QED
      BY <1>1, <3>1 DEF Meant
  <2>2. Kind[f] = "str" => Shown(f, slot) = slot.txt
    BY <1>1 DEF Shown, Scalars, OfKind
  <2> QED
    BY <2>1, <2>2 DEF Agrees
<1>2. CASE f \in Composed
  <2>1. PICK b : b = RowTexts(slot)
    OBVIOUS
  <2>2. PICK m \in 0..4 : m = Len(slot.rows) /\ DOMAIN slot.rows = 1..m
    <3>1. PICK rows \in Seq(Pointers) : rows = slot.rows
      BY DEF Slots
    <3>2. Len(rows) \in Nat /\ DOMAIN rows = 1..Len(rows) /\ Len(rows) <= 4
      BY <1>2, <3>1 DEF Solid
    <3>3. Len(rows) \in 0..4
      BY <3>2
    <3> QED
      BY <3>1, <3>2, <3>3
  <2>3. b = [k \in 1..m |-> slot.rows[k].txt]
    BY <2>1, <2>2 DEF RowTexts
  <2>4. DOMAIN b = 1..m
    BY <2>3
  <2>5. MeantParts(f, S, b) = [k \in 1..4 |-> Had(b, k)]
    BY DEF MeantParts
  <2>6. \A k \in 1..4 : Had(b, k) = IF k <= m THEN {b[k]} ELSE {}
    <3>1. \A k \in 1..4 : k \in DOMAIN b <=> k <= m
      BY <2>2, <2>4
    <3> QED
      BY <3>1 DEF Had
  <2>7. PICK w : w = MeantParts(f, S, b)
    OBVIOUS
  <2>8. \A k \in 1..4 : w[k] = IF k <= m THEN {b[k]} ELSE {}
    BY <2>5, <2>6, <2>7
  <2>9. {n \in 1..4 : w[n] # {}} = 1..m
    BY <2>8
  <2>10. \A k \in 1..m : (CHOOSE t \in w[k] : TRUE) = b[k]
    BY <2>8
  <2>11. Promise!Assembled(w) = [k \in 1..m |-> b[k]]
    BY <2>9, <2>10 DEF Promise!Assembled
  <2>12. Promise!Assembled(w) = b
    BY <2>3, <2>11
  <2>13. Shown(f, slot) = b /\ Kind[f] # "str"
    BY <1>2, <2>1 DEF Shown, Composed, OfKind
  <2> QED
    BY <1>2, <2>7, <2>12, <2>13 DEF Agrees, Meant
<1> QED
  BY <1>1, <1>2

(* parse_cli starts from what the struct answered. *)
LEMMA ParseCliValues ==
  ASSUME TypeOK, PlaceInv, SolidInv, pc = "idle",
         NEW c \in Cfgs, NEW r \in Requests, ParseCli(c, r)
  PROVE  ValueInv'
<1>1. /\ pc' = "cli" /\ cur' = c /\ req' = r /\ i' = 1 /\ r.mode = "cli" /\ IsRequest(r)
      /\ prior' = Answered(c) /\ UNCHANGED cfg
  BY LoaderAssumption DEF ParseCli, dataVars, PlaceInv
<1> SUFFICES ASSUME Underway'
             PROVE  FieldsKept' /\ TabKept'
  BY DEF ValueInv
<1>2. prior'.view = View(c)
  BY <1>1 DEF Underway, Answered
<1>3. \A f \in Fields : prior'.view[f] = Shown(f, cfg[c][f])
  BY <1>2 DEF View, Shown
<1>4. FieldsKept'
  <2> SUFFICES ASSUME NEW f \in Fields, Kind[f] # "tab"
               PROVE  Agrees(f, cfg'[cur'][f], SaidNow(f)', Base(f)')
    BY DEF FieldsKept, Agrees
  <2>1. \A k \in 1..4 : Said(r, "cli", 1, f, k) = {}
    BY <1>1, SaidStart
  <2>2. PICK S : S = SaidNow(f)'
    OBVIOUS
  <2>3. \A k \in 1..4 : S[k] = {}
    BY <1>1, <2>1, <2>2 DEF SaidNow
  <2>4. cfg[c][f] \in Slots /\ Solid(f, cfg[c][f])
    BY DEF TypeOK, SolidInv
  <2>5. Agrees(f, cfg[c][f], S, Shown(f, cfg[c][f]))
    BY <2>3, <2>4, UnsaidMeant
  <2>6. Base(f)' = Shown(f, cfg[c][f])
    BY <1>1, <1>3 DEF Base
  <2> QED
    BY <1>1, <2>2, <2>5, <2>6
<1>5. TabKept'
  <2>1. \A f \in OfKind("tab") : RowTexts(cfg[c][f]) = Shown(f, cfg[c][f]) /\ f \in Fields
    BY DEF Shown, Scalars, Composed, OfKind
  <2>2. \A f \in OfKind("tab") : TabMeant(f)' = Shown(f, cfg[c][f])
    BY <1>1, <1>3, <2>1 DEF TabMeant
  <2>3. \A f \in OfKind("tab") : RowTexts(cfg'[cur'][f]) = RowTexts(cfg[c][f])
    BY <1>1
  <2> QED
    BY <2>1, <2>2, <2>3 DEF TabKept, RowTexts
<1> QED
  BY <1>4, <1>5

(* Between calls nothing is asked.                                           *)
LEMMA IdleValues ==
  ASSUME pc' = "idle"
  PROVE  ValueInv'
BY DEF ValueInv, Underway

(* Every step keeps every value what the layers so far mean.                 *)
LEMMA NextValues ==
  ASSUME TypeOK, PlaceInv, SolidInv, ValueInv, [Next]_vars
  PROVE  ValueInv'
<1>1. CASE DefaultField \/ EnvField
  BY <1>1, FieldValues
<1>2. CASE IniLine
  BY <1>2, IniValues
<1>3. CASE Argument
  BY <1>3, ArgumentValues
<1>4. CASE OpenIni \/ EndIni \/ Publish \/ EndCli
  <2>1. CASE Return
    BY <2>1, IdleValues DEF Return
  <2>2. CASE ~Return
    BY <1>4, <2>2, PhaseValues
  <2> QED
    BY <2>1, <2>2
<1>5. CASE Validate
  BY <1>5, IdleValues DEF Validate, Return
<1>6. ASSUME pc = "idle", NEW c \in Cfgs, Free(c)
      PROVE  ValueInv'
  BY <1>6, IdleValues DEF Free
<1>7. ASSUME pc = "idle", NEW c \in Cfgs, NEW r \in Requests, Load(c, r)
      PROVE  ValueInv'
  BY <1>7, LoadValues
<1>8. ASSUME pc = "idle", NEW c \in Cfgs, NEW r \in Requests, ParseCli(c, r)
      PROVE  ValueInv'
  BY <1>8, ParseCliValues
<1>9. CASE UNCHANGED vars
  <2>1. UNCHANGED <<pc, i, req, cfg, cur, prior>>
    BY <1>9 DEF vars, dataVars, callVars
  <2>2. CASE pc = "idle"
    BY <2>1, <2>2, IdleValues
  <2>3. CASE pc = "crashed"
    BY <2>1, <2>3 DEF ValueInv, Underway
  <2>4. CASE pc \notin {"idle", "crashed"}
    <3>1. TabKept => TabKept'
      BY <2>1 DEF TabKept, TabMeant, Calm, RowTexts
    <3> QED
      BY <2>1, <2>4, <3>1, PhaseAgrees
  <2> QED
    BY <2>2, <2>3, <2>4
<1> QED
  BY <1>1, <1>2, <1>3, <1>4, <1>5, <1>6, <1>7, <1>8, <1>9 DEF Next, Step

(* Every value is what the layers so far mean, in every reachable state.     *)
LEMMA ValueInvariant == Spec => []ValueInv
<1>1. Init => ValueInv
  BY DEF Init, ValueInv, Underway
<1>2. TypeOK /\ PlaceInv /\ SolidInv /\ ValueInv /\ [Next]_vars => ValueInv'
  BY NextValues
<1> QED
  BY <1>1, <1>2, TypeCorrect, PlaceInvariant, SolidInvariant, PTL DEF Spec

(* At the end of a load every field means what the promise resolves. *)
LEMMA MeantIsResolved ==
  ASSUME TypeOK, PlaceInv, pc = "validate", NEW f \in Fields, Kind[f] # "tab", Understood(req, f)
  PROVE  Meant(f, SaidNow(f), Base(f)) = Promise!Resolve(req, f)
<1>1. /\ IsRequest(req) /\ IsSeq(req.cli) /\ req.mode = "load" /\ req.file # "missing"
      /\ Len(req.cli) \in Nat
  BY DEF TypeOK, PlaceInv, IsRequest, IsSeq
<1>2. ASSUME NEW k \in 1..4 PROVE SaidNow(f)[k] = Promise!Winner(req, f, k)
  <2>1. PICK j \in Nat : j = Len(req.cli) + 1 /\ j > Len(req.cli)
    BY <1>1
  <2>2. /\ Said(req, "validate", i, f, k) = Said(req, "cli", j, f, k)
        /\ Said(req, "cli", j, f, k) = Promise!Winner(req, f, k)
    BY <1>1, <2>1, SaidEnd
  <2> QED
    BY <2>2 DEF SaidNow
<1>3. Base(f) = Unset(f)
  BY <1>1 DEF Base
<1>4. CASE f \in Composed
  <2>1. \A k : Had(<<>>, k) = {} /\ Promise!PartOf(f, {}, k) = {}
    BY DEF Had, Promise!PartOf
  <2>2. Unset(f) = <<>>
    BY <1>4 DEF Unset
  <2>3. ASSUME NEW k \in 1..4
        PROVE  MeantParts(f, SaidNow(f), <<>>)[k] = Promise!PartOf(f, Promise!Winner(req, f, k), k)
    BY <1>2, <2>1 DEF MeantParts
  <2>4. MeantParts(f, SaidNow(f), <<>>)
          = [k \in 1..4 |-> Promise!PartOf(f, Promise!Winner(req, f, k), k)]
    BY <2>3 DEF MeantParts
  <2>5. Promise!Resolve(req, f)
          = Promise!Assembled([k \in 1..4 |-> Promise!PartOf(f, Promise!Winner(req, f, k), k)])
    <3>1. Kind[f] # "tab"
      OBVIOUS
    <3> QED
      BY <1>4, SameWords DEF Promise!Resolve
  <2> QED
    BY <1>3, <1>4, <2>2, <2>4, <2>5 DEF Meant
<1>5. CASE f \notin Composed
  <2>1. SaidNow(f)[1] = Promise!Winner(req, f, 1)
    BY <1>2
  <2>2. Unset(f) = IF f \in Lists THEN <<>> ELSE None
    BY <1>5, SchemaAssumption DEF Unset, Scalars, Lists, Composed, OfKind
  <2>3. Promise!Resolve(req, f) =
          IF Promise!Winner(req, f, 1) # {}
          THEN Promise!Value(f, CHOOSE raw \in Promise!Winner(req, f, 1) : TRUE)
          ELSE IF f \in Lists THEN <<>> ELSE None
    BY <1>5, SameWords DEF Promise!Resolve
  <2> QED
    BY <1>3, <1>5, <2>1, <2>2, <2>3 DEF Meant
<1> QED
  BY <1>4, <1>5

(* A load that succeeds, whatever mallocs failed in it, leaves each string   *)
(* the winner of its four layers or NULL: never the value of a layer that a  *)
(* higher one overrides (codegen.c, S_load; cfg_intern_string returns NULL   *)
(* and the field is assigned it, emit_lifecycle.c and emit_cli.c).           *)
THEOREM NothingStale == Spec => LostNotStale
<1>1. ASSUME TypeOK, PlaceInv, ValueInv, [Next]_vars, Succeeds, NEW f \in OfKind("str")
      PROVE  cfg[cur][f].txt \in {Promise!Resolve(req, f), None}
  <2>1. pc = "validate" /\ req.mode = "load" /\ f \in Fields /\ Kind[f] = "str"
    BY <1>1 DEF Succeeds, PlaceInv, OfKind
  <2>2. Agrees(f, cfg[cur][f], SaidNow(f), Base(f))
    BY <1>1, <2>1 DEF ValueInv, Underway, FieldsKept
  <2>3. Understood(req, f)
    BY <2>1 DEF Understood, Assignable, Envable, Scalars, OfKind
  <2> QED
    BY <1>1, <2>1, <2>2, <2>3, MeantIsResolved DEF Agrees
<1>2. TypeOK /\ PlaceInv /\ ValueInv /\ [Next]_vars
        => [Succeeds => \A f \in OfKind("str") :
              cfg[cur][f].txt \in {Promise!Resolve(req, f), None}]_vars
  BY <1>1
<1> QED
  BY <1>2, TypeCorrect, PlaceInvariant, ValueInvariant, PTL DEF Spec, LostNotStale

-----------------------------------------------------------------------------
(* The verdict of S_validate.                                                *)

\* No field is required because a string equals a literal: the code compares
\* their addresses.
NoStringCondition == \A f \in DOMAIN RequiredIf : Kind[RequiredIf[f].left] # "str"

(* A field is required by the code when it is by the promise.                *)
LEMMA SameNeeds ==
  ASSUME NoStringCondition, NEW c \in Cfgs, NEW f
  PROVE  Needs(c, f) <=> Promise!Needed(View(c), f)
<1>1. ASSUME f \in DOMAIN RequiredIf
      PROVE  Holds(c, RequiredIf[f]) <=> View(c)[RequiredIf[f].left] = RequiredIf[f].right
  <2>1. Kind[RequiredIf[f].left] # "str" /\ RequiredIf[f].left \in Scalars \ Composed
    BY <1>1, SchemaAssumption DEF NoStringCondition
  <2>2. RequiredIf[f].left \in Fields
    BY <2>1 DEF Scalars, Composed, OfKind
  <2>3. View(c)[RequiredIf[f].left] = cfg[c][RequiredIf[f].left].txt
    BY <2>1, <2>2 DEF View
  <2> QED
    BY <2>1, <2>3 DEF Holds
<1> QED
  BY <1>1 DEF Needs, Promise!Needed

(* A field that is no array of schemas is a scalar or a list.                *)
LEMMA NotTab ==
  ASSUME NEW f \in Fields, Kind[f] # "tab"
  PROVE  f \in Scalars \cup Lists
BY SchemaAssumption DEF Scalars, Composed, Lists, OfKind

(* A field that is no address, enum or table was provided when a layer says  *)
(* its one part.                                                             *)
LEMMA ProvidedIs ==
  ASSUME NEW r, IsRequest(r), NEW f \in Fields, Kind[f] # "tab", f \notin Composed
  PROVE  Promise!Provided(r, f) <=> Promise!Winner(r, f, 1) # {}
<1> DEFINE given == {n \in DOMAIN r.cli : \E raw \in Promise!Given(r.cli, f, n) : Promise!Says(f, raw, 1)}
           lines == {n \in Promise!KeyLines(r.ini, Home[f], Name[f]) : Promise!Says(f, r.ini[n].val, 1)}
           L == Promise!Layers(r, f, 1)
           giving == {n \in 1..4 : L[n] # {}}
<1>1. \A raw : Promise!Says(f, raw, 1)
  BY SameWords DEF Promise!Says
<1>2. Promise!CliRaw(r.cli, f, 1) # {} <=> \E n \in DOMAIN r.cli : Promise!Given(r.cli, f, n) # {}
  <2>1. given = {n \in DOMAIN r.cli : Promise!Given(r.cli, f, n) # {}}
    BY <1>1
  <2>2. Promise!CliRaw(r.cli, f, 1) = IF given = {} THEN {} ELSE Promise!Given(r.cli, f, Promise!Max(given))
    BY DEF Promise!CliRaw
  <2>3. given \subseteq 1..Len(r.cli) /\ Len(r.cli) \in Nat
    BY <2>1 DEF IsRequest, IsSeq
  <2> HIDE DEF given
  <2>4. given # {} => Promise!Max(given) \in given
    BY <2>3, MaxIs
  <2> QED
    BY <2>1, <2>2, <2>4
<1>3. Promise!IniRaw(r.ini, f, 1) # {} <=> Promise!KeyLines(r.ini, Home[f], Name[f]) # {}
  BY <1>1 DEF Promise!IniRaw
<1>4. L = << Promise!CliRaw(r.cli, f, 1),
             IF f \in EnvFields \cap DOMAIN r.env THEN {r.env[f]} ELSE {},
             IF r.file = "open" THEN Promise!IniRaw(r.ini, f, 1) ELSE {},
             IF f \in DOMAIN Default THEN {[txt |-> Default[f], elems |-> <<>>]} ELSE {} >>
  BY <1>1 DEF Promise!Layers
<1>5. /\ L[1] = Promise!CliRaw(r.cli, f, 1)
      /\ L[2] # {} <=> f \in EnvFields \cap DOMAIN r.env
      /\ L[3] = IF r.file = "open" THEN Promise!IniRaw(r.ini, f, 1) ELSE {}
      /\ L[4] # {} <=> f \in DOMAIN Default
  <2>1. PICK c, e, n, d :
          /\ c = Promise!CliRaw(r.cli, f, 1)
          /\ e = IF f \in EnvFields \cap DOMAIN r.env THEN {r.env[f]} ELSE {}
          /\ n = IF r.file = "open" THEN Promise!IniRaw(r.ini, f, 1) ELSE {}
          /\ d = IF f \in DOMAIN Default THEN {[txt |-> Default[f], elems |-> <<>>]} ELSE {}
    OBVIOUS
  <2>2. L = <<c, e, n, d>>
    BY <1>4, <2>1
  <2>3. L[1] = c /\ L[2] = e /\ L[3] = n /\ L[4] = d
    BY ONLY <2>2
  <2> HIDE DEF L
  <2> QED
    BY <2>1, <2>3
<1>6. Promise!Provided(r, f) <=> L[1] # {} \/ L[2] # {} \/ L[3] # {} \/ L[4] # {}
  BY <1>2, <1>3, <1>5 DEF Promise!Provided
<1>7. Promise!Winner(r, f, 1) = IF giving = {} THEN {} ELSE L[Promise!Min(giving)]
  BY DEF Promise!Winner
<1> HIDE DEF L
<1>8. giving # {} <=> L[1] # {} \/ L[2] # {} \/ L[3] # {} \/ L[4] # {}
  OBVIOUS
<1>9. \A n \in giving : L[n] # {}
  OBVIOUS
<1>10. giving \subseteq Nat
  OBVIOUS
<1> HIDE DEF giving
<1>11. giving # {} => Promise!Min(giving) \in giving
  BY <1>10, NatMin DEF Promise!Min
<1> QED
  BY <1>6, <1>7, <1>8, <1>9, <1>11

(* What a source says of a string is a text, never NULL.                     *)
LEMMA WinnerIsText ==
  ASSUME NEW r, IsRequest(r), NEW f \in Fields, NEW raw \in Promise!Winner(r, f, 1)
  PROVE  raw.txt # None
<1> DEFINE L == Promise!Layers(r, f, 1)
           giving == {n \in 1..4 : L[n] # {}}
           given == {n \in DOMAIN r.cli : \E x \in Promise!Given(r.cli, f, n) : Promise!Says(f, x, 1)}
           lines == {n \in Promise!KeyLines(r.ini, Home[f], Name[f]) : Promise!Says(f, r.ini[n].val, 1)}
<1>1. \A x \in Raw : x.txt # None
  BY SchemaAssumption DEF Raw
<1>2. \A n \in DOMAIN r.cli : IsToken(r.cli[n])
  BY DEF IsRequest
<1>3. ASSUME NEW n \in DOMAIN r.cli, NEW x \in Promise!Given(r.cli, f, n) PROVE x.txt # None
  <2>1. CASE r.cli[n].t = "assign"
    BY <1>1, <1>2, <1>3, <2>1 DEF Promise!Given, IsToken
  <2>2. CASE r.cli[n].t # "assign"
    <3>1. CASE n < Len(r.cli) /\ Kind[f] # "bool"
      <4>1. n + 1 \in DOMAIN r.cli
        BY <3>1 DEF IsRequest, IsSeq
      <4>2. x = Promise!AsRaw(r.cli[n + 1])
        BY <1>3, <2>2, <3>1 DEF Promise!Given
      <4>3. x \in Raw \/ x.txt = FlagText
        BY <1>2, <4>1, <4>2, SameWords DEF AsRaw, IsToken
      <4> QED
        BY <1>1, <4>3, SchemaAssumption
    <3>2. CASE Kind[f] = "bool"
      <4>1. x.txt = CHOOSE t \in TrueTexts : TRUE
        BY <1>3, <2>2, <3>2 DEF Promise!Given
      <4>2. x.txt \in TrueTexts
        BY <4>1, SchemaAssumption
      <4> QED
        BY <4>2, SchemaAssumption
    <3> QED
      BY <1>3, <2>2, <3>1, <3>2 DEF Promise!Given
  <2> QED
    BY <2>1, <2>2
<1>4. ASSUME NEW x \in Promise!CliRaw(r.cli, f, 1) PROVE x.txt # None
  <2>1. given # {} /\ x \in Promise!Given(r.cli, f, Promise!Max(given))
    BY <1>4 DEF Promise!CliRaw
  <2>2. given \subseteq 1..Len(r.cli) /\ Len(r.cli) \in Nat /\ given \subseteq DOMAIN r.cli
    BY DEF IsRequest, IsSeq
  <2> HIDE DEF given
  <2>3. Promise!Max(given) \in given
    BY <2>1, <2>2, MaxIs
  <2> QED
    BY <1>3, <2>1, <2>2, <2>3
<1>5. ASSUME NEW x \in Promise!IniRaw(r.ini, f, 1) PROVE x.txt # None
  <2>1. lines # {} /\ x = r.ini[Promise!Max(lines)].val
    BY <1>5 DEF Promise!IniRaw
  <2>2. lines \subseteq 1..Len(r.ini) /\ Len(r.ini) \in Nat
    BY DEF IsRequest, IsSeq, Promise!KeyLines
  <2>3. \A n \in lines : r.ini[n].val \in Raw
    BY DEF Promise!KeyLines, IsRequest, IsLine
  <2> HIDE DEF lines
  <2>4. Promise!Max(lines) \in lines
    BY <2>1, <2>2, MaxIs
  <2> QED
    BY <1>1, <2>1, <2>3, <2>4
<1>6. L = << Promise!CliRaw(r.cli, f, 1),
             {x \in (IF f \in EnvFields \cap DOMAIN r.env THEN {r.env[f]} ELSE {}) : Promise!Says(f, x, 1)},
             IF r.file = "open" THEN Promise!IniRaw(r.ini, f, 1) ELSE {},
             {x \in (IF f \in DOMAIN Default THEN {[txt |-> Default[f], elems |-> <<>>]} ELSE {}) :
                Promise!Says(f, x, 1)} >>
  BY DEF Promise!Layers
<1>7. /\ L[1] = Promise!CliRaw(r.cli, f, 1)
      /\ \A x \in L[2] : f \in DOMAIN r.env /\ x = r.env[f]
      /\ \A x \in L[3] : x \in Promise!IniRaw(r.ini, f, 1)
      /\ \A x \in L[4] : f \in DOMAIN Default /\ x = [txt |-> Default[f], elems |-> <<>>]
  BY ONLY <1>6
<1>8. raw \in L[1] \/ raw \in L[2] \/ raw \in L[3] \/ raw \in L[4]
  <2>1. giving # {} /\ raw \in L[Promise!Min(giving)]
    BY DEF Promise!Winner
  <2>2. giving \subseteq Nat /\ giving \subseteq 1..4
    OBVIOUS
  <2> HIDE DEF giving, L
  <2>3. Promise!Min(giving) \in giving
    BY <2>1, <2>2, NatMin DEF Promise!Min
  <2>4. Promise!Min(giving) \in 1..4
    BY <2>2, <2>3
  <2> QED
    BY <2>1, <2>4
<1> HIDE DEF L
<1>9. ASSUME raw \in L[2] PROVE raw.txt # None
  BY <1>1, <1>7, <1>9 DEF IsRequest
<1>10. ASSUME raw \in L[4] PROVE raw.txt # None
  <2>1. f \in DOMAIN Default /\ raw.txt = Default[f]
    BY <1>7, <1>10
  <2> QED
    BY <2>1, SchemaAssumption
<1> QED
  BY <1>4, <1>5, <1>7, <1>8, <1>9, <1>10

\* What the code looks at to see whether a required field is there.
Present(view, f) ==
  /\ Kind[f] = "str" => view[f] # None
  /\ f \in Lists \cup OfKind("tab") => view[f] # <<>>

(* Where the guide and the code agree, a required field that was provided is *)
(* one the code finds, and conversely.                                       *)
LEMMA PresentIs ==
  ASSUME NEW r, IsRequest(r), r.mode = "load", Uncontested(r), NEW f \in Fields,
         Promise!Needed([g \in Fields |-> Promise!Resolve(r, g)], f)
  PROVE  Promise!Provided(r, f) <=> Present([g \in Fields |-> Promise!Resolve(r, g)], f)
<1> DEFINE val == Promise!Resolve(r, f)
<1>1. Present([g \in Fields |-> Promise!Resolve(r, g)], f) <=>
        /\ Kind[f] = "str" => val # None
        /\ f \in Lists \cup OfKind("tab") => val # <<>>
  BY DEF Present
<1>2. /\ f \in Composed <=> Kind[f] \in {"ip", "enum"}
      /\ f \in Lists <=> Kind[f] \in {"arr", "ints"}
      /\ f \in OfKind("tab") <=> Kind[f] = "tab"
      /\ f \in Scalars <=> Kind[f] \in {"str", "num", "bool", "ip", "enum"}
      /\ f \in OfKind("str") <=> Kind[f] = "str"
  BY DEF Composed, Lists, Scalars, OfKind
<1>3. Kind[f] # "tab" =>
        /\ f \in Lists /\ Promise!Provided(r, f) => val # <<>>
        /\ f \in Scalars \ OfKind("str") => Promise!Provided(r, f)
  BY NotTab DEF Uncontested, Ensured
<1>4. Kind[f] # "tab" /\ f \notin Composed =>
        val = IF Promise!Winner(r, f, 1) # {}
              THEN Promise!Value(f, CHOOSE raw \in Promise!Winner(r, f, 1) : TRUE)
              ELSE IF f \in Lists THEN <<>> ELSE None
  BY SameWords DEF Promise!Resolve
<1>5. CASE Kind[f] = "str"
  <2>1. Promise!Provided(r, f) <=> Promise!Winner(r, f, 1) # {}
    BY <1>2, <1>5, ProvidedIs
  <2>2. ASSUME Promise!Winner(r, f, 1) # {} PROVE val # None
    <3>1. PICK raw : raw \in Promise!Winner(r, f, 1)
                     /\ raw = CHOOSE x \in Promise!Winner(r, f, 1) : TRUE
      BY <2>2
    <3>2. val = Promise!Value(f, raw)
      BY <1>2, <1>4, <1>5, <2>2, <3>1
    <3>3. Promise!Value(f, raw) = raw.txt
      BY <1>5, SameWords DEF Promise!Value, Convert
    <3> QED
      BY <3>1, <3>2, <3>3, WinnerIsText
  <2>3. Promise!Winner(r, f, 1) = {} => val = None
    BY <1>2, <1>4, <1>5
  <2> QED
    BY <1>1, <1>2, <1>5, <2>1, <2>2, <2>3
<1>6. CASE Kind[f] \in {"arr", "ints"}
  <2>1. Promise!Provided(r, f) <=> Promise!Winner(r, f, 1) # {}
    BY <1>2, <1>6, ProvidedIs
  <2>2. Promise!Winner(r, f, 1) = {} => val = <<>>
    BY <1>2, <1>4, <1>6
  <2> QED
    BY <1>1, <1>2, <1>3, <1>6, <2>1, <2>2
<1>7. CASE Kind[f] = "tab"
  <2> DEFINE rows == Promise!RowLines(r.ini, f)
  <2>1. Promise!Provided(r, f) <=> r.file = "open" /\ rows # {}
    BY <1>7 DEF Promise!Provided
  <2>2. f \notin Composed
    BY <1>2, <1>7
  <2>3. val = IF r.file = "open"
              THEN [n \in 1..Promise!Cardinality(rows) |-> Promise!RowValue(r.ini, f, n)]
              ELSE <<>>
    BY <1>7, <2>2, SameWords DEF Promise!Resolve
  <2>4. rows \subseteq 1..Len(r.ini) /\ Len(r.ini) \in Nat
    BY DEF Promise!RowLines, IsRequest, IsSeq
  <2> HIDE DEF rows
  <2>5. /\ Cardinality(rows) \in Nat /\ (Cardinality(rows) = 0 <=> rows = {})
        /\ Promise!Cardinality(rows) = Cardinality(rows)
    <3>1. IsFiniteSet(rows)
      <4>1. PICK m \in Nat : rows \subseteq 1..m
        BY <2>4
      <4>2. IsFiniteSet(1..m)
        BY FS_Interval
      <4> QED
        BY <4>1, <4>2, FS_Subset
    <3> QED
      BY <3>1, FS_CardinalityType, FS_EmptySet, SameSize
  <2>6. ASSUME r.file = "open" PROVE val # <<>> <=> rows # {}
    <3>1. PICK n \in Nat : n = Cardinality(rows)
      BY <2>5
    <3>2. val = [m \in 1..n |-> Promise!RowValue(r.ini, f, m)]
      BY <2>3, <2>5, <2>6, <3>1
    <3>3. DOMAIN val = 1..n
      BY <3>2
    <3>4. n = 0 => val = <<>>
      BY <3>2
    <3>5. n # 0 => 1 \in DOMAIN val
      BY <3>3
    <3> QED
      BY <2>5, <3>1, <3>4, <3>5
  <2>7. r.file # "open" => val = <<>>
    BY <2>3
  <2> QED
    BY <1>1, <1>2, <1>7, <2>1, <2>6, <2>7
<1>8. CASE Kind[f] \in {"num", "bool", "ip", "enum"}
  BY <1>1, <1>2, <1>3, <1>8
<1> QED
  BY <1>5, <1>6, <1>7, <1>8, SchemaAssumption

\* What Acceptable asks of one field, with the code's look at what is required.
FieldAccepted(view, f) ==
  /\ Promise!Needed(view, f) => Present(view, f)
  /\ f \in Scalars \ Composed /\ ~(Kind[f] = "str" /\ view[f] = None) => view[f] \notin Bad
  /\ Promise!Passes(f, view[f])
  /\ Kind[f] = "tab" => \A n \in DOMAIN view[f] : Promise!RowAcceptable(view[f][n])

(* S_validate rejects a field exactly when the promise does.                 *)
LEMMA SameVerdict ==
  ASSUME TypeOK, SolidInv, Calm, NoStringCondition, NEW c \in Cfgs, NEW f \in Fields
  PROVE  Fails(c, f) <=> ~FieldAccepted(View(c), f)
<1>1. PICK slot \in Slots : slot = cfg[c][f]
  BY DEF TypeOK
<1>2. Solid(f, slot) /\ View(c)[f] = Shown(f, slot) /\ slot.rows \in Seq(Pointers)
  BY <1>1 DEF SolidInv, View, Shown, Slots
<1>3. Needs(c, f) <=> Promise!Needed(View(c), f)
  BY SameNeeds
<1>4. Kind[f] \in {"str", "num", "bool", "enum", "ip", "arr", "ints", "tab"}
  BY SchemaAssumption
<1>5. /\ f \in Composed <=> Kind[f] \in {"ip", "enum"}
      /\ f \in Lists <=> Kind[f] \in {"arr", "ints"}
      /\ f \in OfKind("tab") <=> Kind[f] = "tab"
      /\ f \in Scalars <=> Kind[f] \in {"str", "num", "bool", "ip", "enum"}
  BY DEF Composed, Lists, Scalars, OfKind
<1>6. FieldFails(c, f) <=>
        \/ Needs(c, f) /\ Kind[f] = "str" /\ slot.blk = Null
        \/ Needs(c, f) /\ f \in Lists \cup OfKind("tab") /\ slot.rows = <<>>
        \/ Kind[f] = "str" /\ slot.blk # Null /\ slot.txt \in Bad
        \/ Kind[f] \in {"num", "bool"} /\ slot.txt \in Bad
  BY <1>1 DEF FieldFails
<1>7. RowTexts(slot) = <<>> <=> slot.rows = <<>>
  <2>1. PICK rows \in Seq(Pointers) : rows = slot.rows
    BY <1>2
  <2>2. DOMAIN rows = 1..Len(rows) /\ Len(rows) \in Nat
    BY <2>1
  <2>3. rows # <<>> => 1 \in DOMAIN rows
    BY <2>2
  <2>4. DOMAIN RowTexts(slot) = DOMAIN rows
    BY <2>1 DEF RowTexts
  <2>5. 1 \in DOMAIN RowTexts(slot) => RowTexts(slot) # <<>>
    OBVIOUS
  <2> QED
    BY <2>1, <2>3, <2>4, <2>5, NoRows
<1>8. Fails(c, f) <=> \/ FieldFails(c, f) \/ ~Promise!Passes(f, View(c)[f])
                      \/ Kind[f] = "tab" /\ \E n \in DOMAIN slot.rows : RowRejected(slot.rows[n])
  BY <1>1 DEF Fails, Rejected, HookRejects, Promise!Passes
<1>9. FieldAccepted(View(c), f) <=>
        /\ Promise!Needed(View(c), f) => Present(View(c), f)
        /\ f \in Scalars \ Composed /\ ~(Kind[f] = "str" /\ View(c)[f] = None) => View(c)[f] \notin Bad
        /\ Promise!Passes(f, View(c)[f])
        /\ Kind[f] = "tab" => \A n \in DOMAIN View(c)[f] : Promise!RowAcceptable(View(c)[f][n])
  BY DEF FieldAccepted
<1>10. CASE Kind[f] = "str"
  <2>1. View(c)[f] = slot.txt /\ (slot.blk = Null <=> slot.txt = None)
    BY <1>2, <1>5, <1>10 DEF Shown, Solid
  <2> QED
    BY <1>3, <1>5, <1>6, <1>8, <1>9, <1>10, <2>1 DEF Present
<1>11. CASE Kind[f] \in {"num", "bool"}
  <2>1. View(c)[f] = slot.txt
    BY <1>2, <1>5, <1>11 DEF Shown
  <2> QED
    BY <1>5, <1>6, <1>8, <1>9, <1>11, <2>1 DEF Present
<1>12. CASE Kind[f] \in {"enum", "ip", "arr", "ints"}
  <2>1. View(c)[f] = RowTexts(slot)
    BY <1>2, <1>5, <1>12 DEF Shown
  <2> QED
    BY <1>3, <1>5, <1>6, <1>7, <1>8, <1>9, <1>12, <2>1 DEF Present
<1>13. CASE Kind[f] = "tab"
  <2>1. View(c)[f] = RowTexts(slot)
    BY <1>2, <1>5, <1>13 DEF Shown
  <2>2. DOMAIN RowTexts(slot) = DOMAIN slot.rows
        /\ \A n \in DOMAIN slot.rows : RowTexts(slot)[n] = slot.rows[n].txt
    BY DEF RowTexts
  <2>3. \A n \in DOMAIN slot.rows : slot.rows[n].blk = Null <=> slot.rows[n].txt = None
    BY <1>2, <1>13 DEF Solid
  <2>4. \A n \in DOMAIN slot.rows : RowRejected(slot.rows[n]) <=> ~Promise!RowAcceptable(slot.rows[n].txt)
    BY <2>3 DEF RowRejected, RowFails, HookRejects, Promise!RowAcceptable, Promise!Passes
  <2>5. (\E n \in DOMAIN slot.rows : RowRejected(slot.rows[n])) <=>
          ~\A n \in DOMAIN View(c)[f] : Promise!RowAcceptable(View(c)[f][n])
    BY <2>1, <2>2, <2>4
  <2>6. FieldFails(c, f) <=> Promise!Needed(View(c), f) /\ View(c)[f] = <<>>
    BY <1>3, <1>5, <1>6, <1>7, <1>13, <2>1
  <2>7. Present(View(c), f) <=> View(c)[f] # <<>>
    BY <1>5, <1>13 DEF Present
  <2> QED
    BY <1>5, <1>8, <1>9, <1>13, <2>5, <2>6, <2>7
<1> QED
  BY <1>4, <1>10, <1>11, <1>12, <1>13

(* S_validate finds nothing exactly when the promise accepts the values.     *)
LEMMA SameAcceptance ==
  ASSUME TypeOK, SolidInv, Calm, NoStringCondition, NEW c \in Cfgs,
         NEW r, IsRequest(r), r.mode = "load", Uncontested(r),
         View(c) = [g \in Fields |-> Promise!Resolve(r, g)]
  PROVE  Invalid(c) = {} <=> Promise!Acceptable(r, View(c))
<1>1. \A f \in Fields : Promise!Needed(View(c), f) =>
                          (Promise!Provided(r, f) <=> Present(View(c), f))
  BY PresentIs
<1>2. Promise!Acceptable(r, View(c)) <=> \A f \in Fields : FieldAccepted(View(c), f)
  BY <1>1, SameWords DEF Promise!Acceptable, FieldAccepted
<1>3. Invalid(c) = {} <=> \A f \in Fields : ~Fails(c, f)
  BY DEF Invalid, Fields
<1> QED
  BY <1>2, <1>3, SameVerdict

(* When nothing failed, a load ends with the resolved values. *)
LEMMA ValuesResolved ==
  ASSUME TypeOK, PlaceInv, ValueInv, Calm, pc = "validate", Uncontested(req)
  PROVE  View(cur) = [f \in Fields |-> Promise!Resolve(req, f)]
<1>1. req.mode = "load" /\ FieldsKept /\ TabKept /\ OomBudget = 0
  BY DEF PlaceInv, ValueInv, Underway, Calm
<1>2. ASSUME NEW f \in Fields
      PROVE  Shown(f, cfg[cur][f]) = Promise!Resolve(req, f)
  <2>1. CASE Kind[f] # "tab"
    <3>1. Agrees(f, cfg[cur][f], SaidNow(f), Base(f))
      BY <1>1, <2>1 DEF FieldsKept
    <3>2. Understood(req, f)
      BY <2>1, NotTab DEF Uncontested
    <3> QED
      BY <1>1, <2>1, <3>1, <3>2, MeantIsResolved DEF Agrees
  <2>2. CASE Kind[f] = "tab"
    <3>1. f \in OfKind("tab") /\ f \notin Scalars
      BY <2>2 DEF OfKind, Scalars, Composed
    <3>2. RowTexts(cfg[cur][f]) = IF req.file = "open" THEN RowsOf(req.ini, f) ELSE <<>>
      BY <1>1, <3>1 DEF TabKept, TabMeant
    <3>3. Promise!Resolve(req, f) = IF req.file = "open" THEN RowsOf(req.ini, f) ELSE <<>>
      <4>1. Promise!Cardinality(Promise!RowLines(req.ini, f)) = Cardinality(Promise!RowLines(req.ini, f))
        BY SameSize
      <4>2. f \notin Composed
        BY <2>2 DEF Composed, OfKind
      <4> QED
        BY <2>2, <4>1, <4>2, SameWords DEF Promise!Resolve, RowsOf
    <3> QED
      BY <3>1, <3>2, <3>3 DEF Shown
  <2> QED
    BY <2>1, <2>2
<1> QED
  BY <1>2 DEF View, Shown

(* A call of parse_cli ends with the values its flags override. *)
LEMMA ValuesOverridden ==
  ASSUME TypeOK, PlaceInv, ValueInv, Calm, pc = "cli", i > Len(req.cli), req.mode = "cli",
         prior = [status |-> "SUCCESS", view |-> prior.view], Uncontested(req)
  PROVE  [status |-> "SUCCESS", view |-> View(cur)] = Promise!Overridden(prior, req.cli)
<1> DEFINE kept(f, k) == IF k \in DOMAIN prior.view[f] THEN {prior.view[f][k]} ELSE {}
           value(f) ==
             IF f \in Composed
             THEN Promise!Assembled([k \in 1..4 |->
                    IF Promise!CliRaw(req.cli, f, k) = {} THEN kept(f, k)
                    ELSE Promise!PartOf(f, Promise!CliRaw(req.cli, f, k), k)])
             ELSE IF Promise!CliRaw(req.cli, f, 1) = {} \/ Kind[f] = "tab" THEN prior.view[f]
             ELSE Promise!Value(f, CHOOSE raw \in Promise!CliRaw(req.cli, f, 1) : TRUE)
<1>1. prior.status = "SUCCESS"
  OBVIOUS
<1>2. FieldsKept /\ TabKept /\ OomBudget = 0 /\ IsRequest(req) /\ i \in Nat
  BY <1>1 DEF ValueInv, Underway, Calm, TypeOK
<1>3. ASSUME NEW f \in Fields
      PROVE  Shown(f, cfg[cur][f]) = value(f)
  <2>1. CASE Kind[f] = "tab"
    <3>1. f \in OfKind("tab") /\ f \notin Scalars /\ f \notin Composed
      BY <2>1 DEF OfKind, Scalars, Composed
    <3>2. RowTexts(cfg[cur][f]) = prior.view[f]
      BY <1>2, <3>1 DEF TabKept, TabMeant
    <3> QED
      BY <2>1, <3>1, <3>2 DEF Shown
  <2>2. CASE Kind[f] # "tab"
    <3>1. Shown(f, cfg[cur][f]) = Meant(f, SaidNow(f), prior.view[f])
      BY <1>2, <2>2 DEF FieldsKept, Agrees, Base
    <3>2. \A k \in 1..4 : SaidNow(f)[k] = Promise!CliRaw(req.cli, f, k)
      <4>1. Understood(req, f)
        BY <2>2, NotTab DEF Uncontested
      <4> QED
        BY <1>2, <4>1, SaidEnd DEF SaidNow
    <3>3. CASE f \in Composed
      <4>1. MeantParts(f, SaidNow(f), prior.view[f])
              = [k \in 1..4 |-> IF Promise!CliRaw(req.cli, f, k) = {} THEN kept(f, k)
                                ELSE Promise!PartOf(f, Promise!CliRaw(req.cli, f, k), k)]
        BY <3>2 DEF MeantParts, Had
      <4> QED
        BY <3>1, <3>3, <4>1 DEF Meant
    <3>4. CASE f \notin Composed
      <4>1. SaidNow(f)[1] = Promise!CliRaw(req.cli, f, 1)
        BY <3>2
      <4> QED
        BY <2>2, <3>1, <3>4, <4>1 DEF Meant
    <3> QED
      BY <3>3, <3>4
  <2> QED
    BY <2>1, <2>2
<1>4. View(cur) = [f \in Fields |-> value(f)]
  BY <1>3 DEF View, Shown
<1>5. Promise!Overridden(prior, req.cli) = [prior EXCEPT !.view = [f \in Fields |-> value(f)]]
  BY <1>1, SameWords DEF Promise!Overridden
<1> HIDE DEF value
<1> QED
  BY <1>4, <1>5

-----------------------------------------------------------------------------
(* The mapping of the steps.                                                 *)

\* The variables of the promise.
Doing == IF pc = "idle" THEN <<>> ELSE <<cur, req, prior>>

Answers == [c \in Cfgs |-> IF pc # "idle" /\ c = cur
                           THEN [status |-> "BUSY", view |-> [f \in {} |-> None]]
                           ELSE Answered(c)]

(* What the struct answered before a parse_cli that is under way. *)
PriorInv ==
  pc # "idle" /\ req.mode = "cli" =>
    /\ status[cur] = "SUCCESS" => prior = [status |-> "SUCCESS", view |-> prior.view]
    /\ status[cur] # "SUCCESS" => prior = [status |-> status[cur], view |-> [f \in {} |-> None]]

(* A struct that is not touched answers the same.                            *)
LEMMA SameAnswer ==
  ASSUME NEW c \in Cfgs, cfg'[c] = cfg[c], status'[c] = status[c]
  PROVE  Answered(c)' = Answered(c)
BY DEF Answered, View, RowTexts

\* A step inside a call is not seen.
LEMMA InnerStep ==
  ASSUME pc # "idle", pc' # "idle", UNCHANGED <<cur, req, prior, status>>,
         \A c \in Cfgs : c # cur => cfg'[c] = cfg[c]
  PROVE  UNCHANGED Promise!promiseVars
<1>1. UNCHANGED Doing
  BY DEF Doing
<1>2. \A c \in Cfgs : c # cur => Answered(c)' = Answered(c)
  BY SameAnswer
<1>3. UNCHANGED Answers
  BY <1>2 DEF Answers
<1> QED
  BY <1>1, <1>3 DEF Promise!promiseVars, Doing, Answers

\* A call ends with its answer.
LEMMA AnswerStep ==
  ASSUME TypeOK, pc # "idle", pc' = "idle", NEW own \in Cfgs, own = cur,
         \A c \in Cfgs : c # own => cfg'[c] = cfg[c] /\ status'[c] = status[c],
         Answered(own)' = IF req.mode = "load" THEN Promise!Outcome(req)
                          ELSE Promise!Overridden(prior, req.cli)
  PROVE  Promise!Next
<1>1. Doing = <<own, req, prior>> /\ Doing' = <<>> /\ Doing # <<>>
  BY DEF Doing
<1>2. \A c \in Cfgs : c # own => Answered(c)' = Answered(c)
  BY SameAnswer
<1>3. Answers' = [c \in Cfgs |-> Answered(c)']
  BY DEF Answers
<1>4. PICK a : a = IF req.mode = "load" THEN Promise!Outcome(req)
                   ELSE Promise!Overridden(prior, req.cli)
  OBVIOUS
<1>5. Answers' = [Answers EXCEPT ![own] = a]
  BY <1>1, <1>2, <1>3, <1>4 DEF Answers
<1>6. Promise!Answer
  BY <1>1, <1>4, <1>5 DEF Promise!Answer, Doing, Answers
<1> QED
  BY <1>1, <1>6 DEF Promise!Next, Doing

\* The application calls, or frees.
LEMMA CallStep ==
  ASSUME TypeOK, pc = "idle", NEW c \in Cfgs, NEW r, pc' # "idle", cur' = c, req' = r,
         prior' = Answered(c), \A d \in Cfgs : d # c => cfg'[d] = cfg[d], UNCHANGED status
  PROVE  Promise!Next
<1>1. Doing = <<>> /\ Doing' = <<c, r, Answered(c)>> /\ Doing' # <<>>
  BY DEF Doing
<1>2. \A d \in Cfgs : d # c => Answered(d)' = Answered(d)
  BY SameAnswer
<1>3. Answers[c] = Answered(c)
  BY DEF Answers
<1>4. Answers' = [Answers EXCEPT ![c] = Promise!Busy]
  BY <1>2 DEF Answers, Promise!Busy, Promise!NoView
<1>5. Doing' = <<c, Doing'[2], Answers[c]>>
  BY <1>1, <1>3
<1>6. Promise!Call(c)
  BY <1>1, <1>4, <1>5 DEF Promise!Call, Doing, Answers
<1> QED
  BY <1>1, <1>6 DEF Promise!Next, Doing

(* S_free is the step Free of the promise.                                   *)
LEMMA FreeStep ==
  ASSUME TypeOK, pc = "idle", NEW c \in Cfgs, Free(c)
  PROVE  Promise!Next
<1>1. /\ UNCHANGED <<pc, cur, req, prior>>
      /\ status' = [status EXCEPT ![c] = "ZERO"] /\ cfg' = [cfg EXCEPT ![c] = ZeroStruct]
  BY DEF Free, Release
<1>2. \A d \in Cfgs : d # c => cfg'[d] = cfg[d] /\ status'[d] = status[d]
  BY <1>1 DEF TypeOK
<1>3. \A d \in Cfgs : d # c => Answered(d)' = Answered(d)
  BY <1>2, SameAnswer
<1>4. Answered(c)' = [status |-> "ZERO", view |-> [f \in {} |-> None]]
  BY <1>1 DEF Answered, TypeOK
<1>5. Answers' = [Answers EXCEPT ![c] = Promise!Zeroed]
  BY <1>1, <1>3, <1>4 DEF Answers, Promise!Zeroed, Promise!NoView
<1>6. Doing = <<>> /\ Doing' = <<>>
  BY <1>1 DEF Doing
<1>7. Promise!Free(c)
  BY <1>5, <1>6 DEF Promise!Free, Doing, Answers
<1> QED
  BY <1>6, <1>7 DEF Promise!Next, Doing

(* Every step keeps what the struct answered before.                         *)
LEMMA NextPrior ==
  ASSUME TypeOK, PriorInv, PlaceInv, [Next]_vars
  PROVE  PriorInv'
<1>1. CASE pc' = "idle"
  BY <1>1 DEF PriorInv
<1>2. CASE Step /\ pc' # "idle"
  <2>1. UNCHANGED <<cur, req, prior, status>> /\ pc # "idle"
    BY <1>2 DEF Step, DefaultField, OpenIni, IniLine, EndIni, EnvField, Publish, Argument,
                EndCli, Validate, FailLoad, Return, dataVars
  <2> QED
    BY <2>1 DEF PriorInv
<1>3. ASSUME pc = "idle", NEW c \in Cfgs, NEW r \in Requests, Load(c, r)
      PROVE  PriorInv'
  BY <1>3 DEF Load, PriorInv
<1>4. ASSUME pc = "idle", NEW c \in Cfgs, NEW r \in Requests, ParseCli(c, r)
      PROVE  PriorInv'
  <2>1. cur' = c /\ prior' = Answered(c) /\ status' = status
    BY <1>4 DEF ParseCli, dataVars
  <2>2. /\ status[c] = "SUCCESS" => Answered(c) = [status |-> "SUCCESS", view |-> Answered(c).view]
        /\ status[c] # "SUCCESS" => Answered(c) = [status |-> status[c], view |-> [f \in {} |-> None]]
    BY DEF Answered
  <2> QED
    BY <2>1, <2>2 DEF PriorInv
<1>5. CASE UNCHANGED vars
  BY <1>5 DEF vars, dataVars, callVars, PriorInv
<1> QED
  BY <1>1, <1>2, <1>3, <1>4, <1>5 DEF Next, Free

(* What the struct answered before, in every reachable state.                *)
LEMMA PriorInvariant == Spec => []PriorInv
<1>1. Init => PriorInv
  BY DEF Init, PriorInv
<1>2. TypeOK /\ PlaceInv /\ PriorInv /\ [Next]_vars => PriorInv'
  BY NextPrior
<1> QED
  BY <1>1, <1>2, TypeCorrect, PlaceInvariant, PTL DEF Spec

\* What the simulation rests on.
PromiseInv == TypeOK /\ HeapInv /\ PlaceInv /\ SolidInv /\ ValueInv /\ PriorInv

\* A load that ends before its validation, and why.
LEMMA FailedLoad ==
  ASSUME TypeOK, PlaceInv, NEW own \in Cfgs, own = cur, OpenIni \/ EndIni, Return
  PROVE  /\ Answered(own)' = Promise!Outcome(req) /\ req.mode = "load"
         /\ \A c \in Cfgs : c # own => cfg'[c] = cfg[c] /\ status'[c] = status[c]
<1>1. CASE OpenIni
  <2>1. req.file = "missing" /\ status' = [status EXCEPT ![own] = "OPEN_FILE"]
        /\ cfg' = cfg /\ pc = "default"
    BY <1>1 DEF OpenIni, FailLoad, Skip, Return
  <2>2. Answered(own)' = [status |-> "OPEN_FILE", view |-> [f \in {} |-> None]]
    BY <2>1 DEF Answered, TypeOK
  <2>3. Promise!Outcome(req) = [status |-> "OPEN_FILE", view |-> [f \in {} |-> None]]
    BY <2>1 DEF Promise!Outcome, Promise!NoView
  <2> QED
    BY <2>1, <2>2, <2>3 DEF PlaceInv, TypeOK
<1>2. CASE EndIni
  <2>1. pc = "ini" /\ ~good /\ status' = [status EXCEPT ![own] = "SYNTAX"]
        /\ cfg' = cfg
    BY <1>2 DEF EndIni, FailLoad, Skip, Return
  <2>2. Answered(own)' = [status |-> "SYNTAX", view |-> [f \in {} |-> None]]
    BY <2>1 DEF Answered, TypeOK
  <2>3. req.file = "open" /\ \E n \in DOMAIN req.ini : req.ini[n].k \in {"badsec", "noeq"}
    BY <2>1 DEF PlaceInv, Clean
  <2>4. Promise!Outcome(req) = [status |-> "SYNTAX", view |-> [f \in {} |-> None]]
    BY <2>3 DEF Promise!Outcome, Promise!NoView
  <2> QED
    BY <2>1, <2>2, <2>4 DEF PlaceInv, TypeOK
<1> QED
  BY <1>1, <1>2

\* A load that validates.
LEMMA ValidatedLoad ==
  ASSUME PromiseInv, Calm, NoStringCondition, NEW own \in Cfgs, own = cur, Validate, Uncontested(req)
  PROVE  /\ Answered(own)' = Promise!Outcome(req) /\ req.mode = "load"
         /\ \A c \in Cfgs : c # own => cfg'[c] = cfg[c] /\ status'[c] = status[c]
<1> USE DEF PromiseInv
<1>1. /\ pc = "validate" /\ req.mode = "load" /\ req.file # "missing"
      /\ req.file = "open" => Clean(req.ini, Len(req.ini) + 1)
      /\ IsRequest(req) /\ IsSeq(req.ini)
  BY DEF Validate, PlaceInv, TypeOK, IsRequest
<1>2. ~(req.file = "open" /\ \E n \in DOMAIN req.ini : req.ini[n].k \in {"badsec", "noeq"})
  <2>1. \A n \in DOMAIN req.ini : n < Len(req.ini) + 1
    BY <1>1 DEF IsSeq
  <2> QED
    BY <1>1, <2>1 DEF Clean
<1>3. View(own) = [f \in Fields |-> Promise!Resolve(req, f)]
  BY <1>1, ValuesResolved
<1>4. Promise!Outcome(req) =
        IF Promise!Acceptable(req, View(own)) THEN [status |-> "SUCCESS", view |-> View(own)]
        ELSE [status |-> "VALIDATION", view |-> [f \in {} |-> None]]
  BY <1>1, <1>2, <1>3, SameWords DEF Promise!Outcome, Promise!NoView
<1>5. Invalid(own) = {} <=> Promise!Acceptable(req, View(own))
  BY <1>1, <1>3, SameAcceptance
<1>6. CASE Invalid(own) = {}
  <2>1. cfg' = cfg /\ status' = [status EXCEPT ![own] = "SUCCESS"]
    BY <1>6 DEF Validate
  <2>2. Answered(own)' = [status |-> "SUCCESS", view |-> View(own)]
    BY <2>1 DEF Answered, View, RowTexts, TypeOK
  <2> QED
    BY <1>1, <1>4, <1>5, <1>6, <2>1, <2>2 DEF TypeOK
<1>7. CASE Invalid(own) # {}
  <2>1. /\ cfg' = [cfg EXCEPT ![own] = ZeroStruct]
        /\ status' = [status EXCEPT ![own] = "VALIDATION"]
    BY <1>7 DEF Validate, Release
  <2>2. Answered(own)' = [status |-> "VALIDATION", view |-> [f \in {} |-> None]]
    BY <2>1 DEF Answered, TypeOK
  <2> QED
    BY <1>1, <1>4, <1>5, <1>7, <2>1, <2>2 DEF TypeOK
<1> QED
  BY <1>6, <1>7

\* A parse_cli that returns.
LEMMA EndedCli ==
  ASSUME PromiseInv, Calm, NEW own \in Cfgs, own = cur, EndCli, Return, Uncontested(req)
  PROVE  /\ Answered(own)' = Promise!Overridden(prior, req.cli) /\ req.mode = "cli"
         /\ UNCHANGED <<cfg, status>>
<1> USE DEF PromiseInv
<1>1. pc = "cli" /\ i > Len(req.cli) /\ req.mode = "cli" /\ UNCHANGED <<cfg, status>>
  BY DEF EndCli, Return
<1>2. Answered(own)' = Answered(own)
  BY <1>1, SameAnswer
<1>3. CASE status[own] = "SUCCESS"
  <2>1. prior = [status |-> "SUCCESS", view |-> prior.view]
    BY <1>1, <1>3 DEF PriorInv
  <2>2. Promise!Overridden(prior, req.cli) = [status |-> "SUCCESS", view |-> View(cur)]
    BY <1>1, <2>1, ValuesOverridden
  <2>3. Answered(own) = [status |-> "SUCCESS", view |-> View(cur)]
    BY <1>3 DEF Answered
  <2> QED
    BY <1>1, <1>2, <2>2, <2>3
<1>4. CASE status[own] # "SUCCESS"
  <2>1. prior = [status |-> status[own], view |-> [f \in {} |-> None]]
    BY <1>1, <1>4 DEF PriorInv
  <2>2. Promise!Overridden(prior, req.cli) = prior
    <3>1. prior.status # "SUCCESS"
      BY <1>4, <2>1
    <3> QED
      BY <3>1 DEF Promise!Overridden
  <2>3. Answered(own) = [status |-> status[own], view |-> [f \in {} |-> None]]
    BY <1>4 DEF Answered
  <2> QED
    BY <1>1, <1>2, <2>1, <2>2, <2>3
<1> QED
  BY <1>3, <1>4

(* A step of a call is the answer of the promise or not seen by it.          *)
LEMMA StepKeepsPromise ==
  ASSUME PromiseInv, Calm, NoStringCondition, Step, Uncontested(req)
  PROVE  Promise!Next \/ UNCHANGED Promise!promiseVars
<1> USE DEF PromiseInv
<1>1. pc # "idle"
  BY DEF Step, DefaultField, OpenIni, IniLine, EndIni, EnvField, Publish, Argument, EndCli, Validate
<1>2. PICK own \in Cfgs : own = cur
  BY <1>1 DEF TypeOK
<1>3. CASE Validate
  <2>1. pc' = "idle"
    BY <1>3 DEF Validate, Return
  <2>2. /\ Answered(own)' = Promise!Outcome(req) /\ req.mode = "load"
        /\ \A c \in Cfgs : c # own => cfg'[c] = cfg[c] /\ status'[c] = status[c]
    BY <1>2, <1>3, ValidatedLoad
  <2> QED
    BY <1>1, <1>2, <2>1, <2>2, AnswerStep
<1>4. CASE (OpenIni \/ EndIni) /\ Return
  <2>1. pc' = "idle"
    BY <1>4 DEF Return
  <2>2. /\ Answered(own)' = Promise!Outcome(req) /\ req.mode = "load"
        /\ \A c \in Cfgs : c # own => cfg'[c] = cfg[c] /\ status'[c] = status[c]
    BY <1>2, <1>4, FailedLoad
  <2> QED
    BY <1>1, <1>2, <2>1, <2>2, AnswerStep
<1>5. CASE EndCli /\ Return
  <2>1. pc' = "idle"
    BY <1>5 DEF Return
  <2>2. /\ Answered(own)' = Promise!Overridden(prior, req.cli) /\ req.mode = "cli"
        /\ UNCHANGED <<cfg, status>>
    BY <1>2, <1>5, EndedCli
  <2> QED
    BY <1>1, <1>2, <2>1, <2>2, AnswerStep
<1>6. CASE \/ DefaultField \/ EnvField \/ IniLine \/ Argument \/ Publish
           \/ (OpenIni \/ EndIni \/ EndCli) /\ ~Return
  <2>1. UNCHANGED <<cur, req, prior, status>> /\ pc' # "idle"
    <3>1. CASE DefaultField
      BY <3>1, DefaultFieldMoves DEF DefaultField, Moves
    <3>2. CASE EnvField
      BY <3>2, EnvFieldMoves DEF EnvField, Moves
    <3>3. CASE IniLine
      BY <3>3, IniLineMoves DEF IniLine, Moves
    <3>4. CASE Argument
      BY <3>4, ArgumentMoves DEF Argument, Moves
    <3>5. CASE Publish
      BY <3>5 DEF Publish, Skip
    <3>6. CASE (OpenIni \/ EndIni \/ EndCli) /\ ~Return
      BY <3>6 DEF OpenIni, EndIni, EndCli, FailLoad, Skip, dataVars
    <3> QED
      BY <1>6, <3>1, <3>2, <3>3, <3>4, <3>5, <3>6
  <2>2. OthersKept(cur)
    BY StepKept DEF Kept
  <2>3. \A c \in Cfgs : c # cur => cfg'[c] = cfg[c]
    BY <2>2 DEF OthersKept
  <2> QED
    BY <1>1, <2>1, <2>3, InnerStep
<1> QED
  BY <1>3, <1>4, <1>5, <1>6 DEF Step

(* Every step is a step of the promise or not seen by it.                    *)
LEMMA NextKeepsPromise ==
  ASSUME PromiseInv, Calm, NoStringCondition, [Next]_vars, \A r \in Requests : Uncontested(r)
  PROVE  Promise!Next \/ UNCHANGED Promise!promiseVars
<1> USE DEF PromiseInv
<1>1. ASSUME pc = "idle", NEW c \in Cfgs, Free(c)
      PROVE  Promise!Next
  BY <1>1, FreeStep
<1>2. ASSUME pc = "idle", NEW c \in Cfgs, NEW r \in Requests, Load(c, r)
      PROVE  Promise!Next
  <2>1. /\ pc' = "default" /\ cur' = c /\ req' = r /\ prior' = Answered(c) /\ UNCHANGED status
        /\ cfg' = [cfg EXCEPT ![c] = ZeroStruct]
    BY <1>2 DEF Load, Clear
  <2>2. \A d \in Cfgs : d # c => cfg'[d] = cfg[d]
    BY <2>1 DEF TypeOK
  <2> QED
    BY <1>2, <2>1, <2>2, CallStep
<1>3. ASSUME pc = "idle", NEW c \in Cfgs, NEW r \in Requests, ParseCli(c, r)
      PROVE  Promise!Next
  <2>1. /\ pc' = "cli" /\ cur' = c /\ req' = r /\ prior' = Answered(c) /\ UNCHANGED <<cfg, status>>
    BY <1>3 DEF ParseCli, dataVars
  <2> QED
    BY <1>3, <2>1, CallStep
<1>4. CASE UNCHANGED vars
  <2>1. UNCHANGED <<pc, cur, req, prior, status, cfg>>
    BY <1>4 DEF vars, dataVars, callVars
  <2>2. UNCHANGED Doing /\ \A c \in Cfgs : Answered(c)' = Answered(c)
    BY <2>1, SameAnswer DEF Doing
  <2>3. UNCHANGED Answers
    BY <2>1, <2>2 DEF Answers
  <2> QED
    BY <2>2, <2>3 DEF Promise!promiseVars, Doing, Answers
<1>5. CASE Step
  <2>1. pc \notin {"idle", "crashed"}
    BY <1>5 DEF Step, DefaultField, OpenIni, IniLine, EndIni, EnvField, Publish, Argument,
                EndCli, Validate
  <2>2. req \in Requests
    BY <2>1 DEF PlaceInv
  <2> QED
    BY <1>5, <2>2, StepKeepsPromise
<1> QED
  BY <1>1, <1>2, <1>3, <1>4, <1>5 DEF Next

(* When no malloc fails, no flag writes over a table, no condition compares  *)
(* a string and no request is one of those about which the guide and the     *)
(* code differ, the loader implements the promise: every S_load              *)
(* answers with the status and the values that the declarative resolution of *)
(* its four layers gives, in whatever order lines, headers, rows and         *)
(* arguments come, and every S_parse_cli overrides what its flags name       *)
(* (codegen.c, S_load; emit_lifecycle.c; emit_cli.c; emit_validation.c).     *)
THEOREM ImplementsPromise ==
  ASSUME Calm, NoStringCondition, \A r \in Requests : Uncontested(r)
  PROVE  Spec => KeepsPromise
<1>1. Init => Promise!Init
  <2> SUFFICES ASSUME Init PROVE Promise!Init
    OBVIOUS
  <2>1. Doing = <<>>
    BY DEF Init, Doing
  <2>2. \A c \in Cfgs : Answered(c) = Promise!Zeroed
    BY DEF Init, Answered, Promise!Zeroed, Promise!NoView
  <2>3. Answers = [c \in Cfgs |-> Promise!Zeroed]
    BY <2>2 DEF Answers, Init
  <2> QED
    BY <2>1, <2>3 DEF Promise!Init, Doing, Answers
<1>2. PromiseInv /\ [Next]_vars => [Promise!Next]_(Promise!promiseVars)
  BY NextKeepsPromise
<1>3. Spec => []PromiseInv
  BY TypeCorrect, HeapInvariant, PlaceInvariant, SolidInvariant, ValueInvariant, PriorInvariant, PTL
     DEF PromiseInv
<1> QED
  BY <1>1, <1>2, <1>3, PTL DEF Spec, KeepsPromise, Promise!Spec
=============================================================================
