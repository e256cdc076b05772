---------------------------- MODULE PatternProofs ----------------------------
(***************************************************************************)
(* Proofs that a matcher stays in the text it is called with, whatever the *)
(* pattern it was emitted for; and that what it accepts is what the        *)
(* pattern says, and what it refuses too where no backtracking is needed.  *)
(*                                                                         *)
(* For the latter the generator is read against the places of the items in *)
(* the pattern: behind each item, the statements emitted are those of the  *)
(* items before (Emitted).  The matcher is then read against the places in *)
(* the text where it found them (Found), and these are the only ones there *)
(* could be (Forced).                                                      *)
(***************************************************************************)
EXTENDS PatternRules, WellFoundedInduction, TLAPS

\* A step back is only ever emitted behind the statement that steps on.
Ordered(o) ==
  /\ \E S : o \in Seq(S)
  /\ \A k \in DOMAIN o : o[k].do = "back" => k > 1 /\ o[k - 1].do = "one"

LEMMA OrderedConcat ==
  ASSUME NEW o, NEW s, Ordered(o), Ordered(s)
  PROVE  Ordered(o \o s)
<1>1. PICK S : o \in Seq(S)
  BY DEF Ordered
<1>2. PICK T : s \in Seq(T)
  BY DEF Ordered
<1>3. o \in Seq(S \cup T) /\ s \in Seq(S \cup T)
  BY <1>1, <1>2
<1>4. o \o s \in Seq(S \cup T) /\ Len(o \o s) = Len(o) + Len(s)
  BY <1>3
<1>5. ASSUME NEW k \in 1..Len(o \o s), (o \o s)[k].do = "back"
      PROVE  k > 1 /\ (o \o s)[k - 1].do = "one"
  <2>1. CASE k <= Len(o)
    <3>1. o[k].do = "back" /\ k \in DOMAIN o
      BY <1>3, <1>5, <2>1
    <3>2. k > 1 /\ o[k - 1].do = "one"
      BY <3>1 DEF Ordered
    <3>3. QED
      BY <1>3, <2>1, <3>2
  <2>2. CASE k > Len(o)
    <3>1. s[k - Len(o)].do = "back" /\ k - Len(o) \in DOMAIN s
      BY <1>3, <1>4, <1>5, <2>2
    <3>2. k - Len(o) > 1 /\ s[k - Len(o) - 1].do = "one"
      BY <3>1 DEF Ordered
    <3>3. (o \o s)[k - 1] = s[k - Len(o) - 1]
      BY <1>3, <1>4, <3>2
    <3>4. QED
      BY <1>3, <2>2, <3>2, <3>3
  <2>3. QED
    BY <1>3, <1>4, <2>1, <2>2
<1>6. DOMAIN (o \o s) = 1..Len(o \o s) /\ \E R : o \o s \in Seq(R)
  BY <1>4
<1>7. QED
  BY <1>5, <1>6 DEF Ordered

LEMMA OrderedEmitted ==
  /\ Ordered(<<>>)
  /\ \A set : Ordered(<<One(set)>>)
  /\ \A set, q : Ordered(Quantified(set, q))
<1>1. Ordered(<<>>)
  BY DEF Ordered
<1>2. ASSUME NEW set PROVE /\ Ordered(<<One(set)>>)
                           /\ Ordered(<<One(set), Loop(set)>>)
                           /\ Ordered(<<One(set), Back, Loop(set)>>)
  <2>1. One(set).do = "one" /\ Back.do = "back" /\ Loop(set).do = "loop"
    BY DEF One, Back, Loop
  <2>2. /\ <<One(set)>> \in Seq({One(set), Back, Loop(set)})
        /\ <<One(set), Loop(set)>> \in Seq({One(set), Back, Loop(set)})
        /\ <<One(set), Back, Loop(set)>> \in Seq({One(set), Back, Loop(set)})
    OBVIOUS
  <2>3. Ordered(<<One(set)>>)
    <3>1. \E S : <<One(set)>> \in Seq(S)
      BY <2>2
    <3>2. QED
      BY <2>1, <3>1 DEF Ordered
  <2>4. Ordered(<<One(set), Loop(set)>>)
    <3>1. \E S : <<One(set), Loop(set)>> \in Seq(S)
      BY <2>2
    <3>2. QED
      BY <2>1, <3>1 DEF Ordered
  <2>5. Ordered(<<One(set), Back, Loop(set)>>)
    <3>1. \E S : <<One(set), Back, Loop(set)>> \in Seq(S)
      BY <2>2
    <3>2. QED
      BY <2>1, <3>1 DEF Ordered
  <2>6. QED
    BY <2>3, <2>4, <2>5
<1>3. QED
  BY <1>1, <1>2 DEF Quantified

-----------------------------------------------------------------------------
\* Where the matcher stands: it looks no further back than its start, and when
\* the next statement steps back it has stepped on before.
Standing ==
  /\ text \in Seq(Chars)
  /\ pc = "emit" => start = 1 /\ p = 1 /\ n = 1
  /\ pc = "try" => start \in 1..(Len(text) + 1)
  /\ pc = "run" =>
       /\ start \in 1..(Len(text) + 1) /\ p \in start..(Len(text) + 1)
       /\ n \in Nat \ {0}
       /\ ~AnchoredStart => start <= Len(text)
       /\ n \in DOMAIN ops /\ ops[n].do = "back" => p > start

MatcherInv == Ordered(ops) /\ Standing

LEMMA InitMatcher == Init => MatcherInv
BY OrderedEmitted DEF Init, MatcherInv, Standing

LEMMA EmitMatcher ==
  ASSUME MatcherInv, NEW s, NEW next, Ordered(s), Emit(s, next), pc = "emit"
  PROVE  MatcherInv'
<1>1. Ordered(ops')
  BY OrderedConcat DEF Emit, MatcherInv
<1>2. Standing'
  BY DEF Emit, MatcherInv, Standing
<1>3. QED
  BY <1>1, <1>2 DEF MatcherInv

LEMMA MissMatcher ==
  ASSUME MatcherInv, pc = "run", Miss
  PROVE  MatcherInv'
<1>1. Ordered(ops')
  BY DEF Miss, Answer, MatcherInv
<1>2. Standing'
  BY DEF Miss, Answer, MatcherInv, Standing
<1>3. QED
  BY <1>1, <1>2 DEF MatcherInv

LEMMA NextMatcher == MatcherInv /\ [Next]_vars => MatcherInv'
<1> SUFFICES ASSUME MatcherInv, [Next]_vars PROVE MatcherInv'
  OBVIOUS
<1>1. CASE UNCHANGED vars
  BY <1>1 DEF vars, MatcherInv, Standing, Ordered, AnchoredStart, RE, re
<1>2. CASE EmitDot \/ EmitClass \/ SkipQuantifier \/ EmitChar
  BY <1>2, EmitMatcher, OrderedEmitted DEF EmitDot, EmitClass, SkipQuantifier, EmitChar
<1>3. CASE Call
  <2>1. Ordered(ops') /\ text' \in Seq(Chars)
    BY <1>3, PatternAssumption DEF Call, MatcherInv
  <2>2. QED
    BY <1>3, <2>1 DEF Call, MatcherInv, Standing
<1>4. CASE Try
  <2>1. Ordered(ops') /\ text' = text /\ ops' = ops /\ AnchoredStart' = AnchoredStart
    BY <1>4 DEF Try, Answer, MatcherInv, AnchoredStart, RE, re
  <2>2. 1 \in DOMAIN ops => ops[1].do # "back"
    BY DEF MatcherInv, Ordered
  <2>3. QED
    BY <1>4, <2>1, <2>2 DEF Try, Answer, MatcherInv, Standing
<1>5. CASE RunOne
  <2>1. CASE Miss
    BY <1>5, <2>1, MissMatcher DEF RunOne, Doing
  <2>2. CASE Sees(ops[n].set) /\ Go(p + 1, n + 1)
    <3>1. Ordered(ops') /\ AnchoredStart' = AnchoredStart
      BY <2>2 DEF Go, MatcherInv, AnchoredStart, RE, re
    <3>2. QED
      BY <1>5, <2>2, <3>1 DEF RunOne, Doing, Sees, Go, MatcherInv, Standing
  <2>3. QED
    BY <1>5, <2>1, <2>2 DEF RunOne
<1>6. ASSUME pc = "run", n \in DOMAIN ops, ops[n].do # "one"
      PROVE  n + 1 \in DOMAIN ops => ops[n + 1].do # "back"
  BY <1>6 DEF MatcherInv, Ordered
<1>7. CASE RunBack \/ RunLoop
  <2>1. pc = "run" /\ n \in DOMAIN ops /\ ops[n].do # "one"
    BY <1>7 DEF RunBack, RunLoop, Doing, MatcherInv, Standing, Ordered
  <2>2. n + 1 \in DOMAIN ops => ops[n + 1].do # "back"
    BY <1>6, <2>1
  <2>3. Ordered(ops') /\ AnchoredStart' = AnchoredStart
    BY <1>7 DEF RunBack, RunLoop, Go, MatcherInv, AnchoredStart, RE, re
  <2>4. CASE RunBack
    BY <2>1, <2>2, <2>3, <2>4 DEF RunBack, Doing, Go, MatcherInv, Standing
  <2>5. CASE RunLoop
    BY <2>1, <2>2, <2>3, <2>5 DEF RunLoop, Doing, Sees, Go, MatcherInv, Standing
  <2>6. QED
    BY <1>7, <2>4, <2>5
<1>8. CASE Finish
  <2>1. CASE Miss
    BY <1>8, <2>1, MissMatcher DEF Finish
  <2>2. CASE Answer("yes")
    BY <2>2 DEF Answer, MatcherInv, Standing
  <2>3. QED
    BY <1>8, <2>1, <2>2 DEF Finish
<1>9. QED
  BY <1>1, <1>2, <1>3, <1>4, <1>5, <1>7, <1>8 DEF Next

\* The emitted matcher reads the characters of the value and the NUL behind
\* them, for every pattern and every value: the step back of a star never goes
\* before the place where the match was started, nor a loop beyond the NUL.
THEOREM MatcherReadsTheText == Spec => []ReadsTheText
<1>1. MatcherInv => ReadsTheText
  BY DEF MatcherInv, Standing, ReadsTheText
<1>2. QED
  BY <1>1, InitMatcher, NextMatcher, PTL DEF Spec

-----------------------------------------------------------------------------
(* What the statements and the places are *)

Size == Len(means.items)

\* Statements x to before y do what the item says, or less.
Block(o, x, y, item) ==
  /\ o[x] = One(item.set)
  /\ \/ y = x + 1 /\ (item.times \in {"1", "?"} \/ item.set = Chars)
     \/ y = x + 2 /\ item.times = "+" /\ o[x + 1] = Loop(item.set)
     \/ y = x + 3 /\ item.times = "*" /\ o[x + 1] = Back /\ o[x + 2] = Loop(item.set)

\* The statements o are those of the items before the k-th; b is where each starts.
Blocks(o, m, k, b) ==
  /\ b \in [1..k -> 1..(Len(o) + 1)] /\ b[1] = 1 /\ b[k] = Len(o) + 1
  /\ \A j \in 1..(k - 1) : Block(o, b[j], b[j + 1], m.items[j])

\* The generator stands at an item, or at the quantifier of the one before it.
Emitted(k) ==
  /\ \/ at = means.at[k]
     \/ k > 1 /\ at = means.at[k] - 1 /\ RE(at) \in Quantifiers
  /\ \E b \in [1..k -> 1..(Len(ops) + 1)] : Blocks(ops, means, k, b)

Run(s, i, j, set) == \A l \in i..(j - 1) : s[l] \in set

\* Where the matcher is within item k, which it started at i.
Within(item, i, x) ==
  \/ item.times = "+" /\ n = x + 1 /\ p > i /\ Run(text, i, p, item.set)
  \/ item.times = "*" /\ n = x + 1 /\ p = i + 1
  \/ item.times = "*" /\ n = x + 2 /\ p >= i /\ Run(text, i, p, item.set)

\* The items before the k-th have been found, one after the other.
Found(k, b, cut) ==
  /\ cut[1] = start
  /\ \A j \in 1..(k - 1) : cut[j + 1] \in Ends(text, means.items[j], cut[j])
  /\ \/ n = b[k] /\ p = cut[k]
     \/ k <= Size /\ b[k + 1] > b[k] + 1 /\ Within(means.items[k], cut[k], b[k])

\* In a pattern that needs no backtracking there is no other way.
Forced(k, b, cut) ==
  Direct(means) => \A c \in Cuts(means, text) : Follows(means, text, c) /\ c[1] = start =>
    /\ k <= Size \/ means.to => \A j \in 1..k : c[j] = cut[j]
    /\ n # b[k] /\ (k < Size \/ means.to) => p <= c[k + 1]

\* No match starts before this try.
NoneBefore == Direct(means) => \A c \in Cuts(means, text) : Follows(means, text, c) => c[1] >= start

ItemsInv ==
  /\ pattern \in Patterns /\ (AnchoredStart => start = 1)
  /\ pc = "emit" => \E k \in 1..(Size + 1) : Emitted(k)
  /\ pc \in {"try", "run"} =>
       /\ NoneBefore
       /\ \E b \in [1..(Size + 1) -> 1..(Len(ops) + 1)] :
            /\ Blocks(ops, means, Size + 1, b)
            /\ pc = "run" => \E k \in 1..(Size + 1), cut \in Cuts(means, text) :
                               Found(k, b, cut) /\ Forced(k, b, cut)
  /\ AcceptedMatches /\ DirectIsComplete

-----------------------------------------------------------------------------
(* Induction over the numbers, said of sets *)

LEMMA NatMin ==
  ASSUME NEW T \in SUBSET Nat, T # {}
  PROVE  \E m \in T : \A k \in T : m <= k
<1> DEFINE R == OpToRel(<, Nat)
<1>1. IsWellFoundedOn(R, Nat)
  BY NatLessThanWellFounded
<1>2. \A x, y \in Nat : x < y => <<x, y>> \in R
  BY DEF OpToRel
<1> HIDE DEF R
<1>3. PICK m \in T : \A k \in T : ~(<<k, m>> \in R)
  BY <1>1, WFMin
<1>4. \A k \in T : ~(k < m)
  BY <1>2, <1>3
<1> QED
  BY <1>4

LEMMA SetInduction ==
  ASSUME NEW T, 0 \in T, \A m \in Nat : m \in T => m + 1 \in T
  PROVE  Nat \subseteq T
<1> SUFFICES ASSUME Nat \ T # {} PROVE FALSE
  OBVIOUS
<1>1. PICK m \in Nat \ T : \A k \in Nat \ T : m <= k
  BY NatMin
<1>2. m - 1 \in Nat /\ m - 1 \in T
  BY <1>1
<1> QED
  BY <1>1, <1>2

-----------------------------------------------------------------------------
(* What is written in a pattern *)

LEMMA CharsAre ==
  ASSUME pattern \in Patterns
  PROVE  /\ re \in Seq(Chars) /\ Len(re) \in Nat
         /\ \A i \in 1..Len(re) : RE(i) = re[i] /\ re[i] \in Chars /\ re[i] # "nul"
         /\ \A i \in Int : i > Len(re) => RE(i) = "nul"
<1>1. re \in Seq(Chars) /\ "nul" \notin Chars
  BY PatternAssumption DEF re
<1>2. Len(re) \in Nat /\ \A i \in 1..Len(re) : re[i] \in Chars
  BY <1>1
<1> QED
  BY <1>1, <1>2 DEF RE

LEMMA MeansAre ==
  ASSUME pattern \in Patterns
  PROVE  Says(re, means) /\ Size \in Nat
BY PatternRulesAssumption DEF re, means, Size, Says

\* A turn of the recursion over a class.
MembersStep(f, i) ==
  IF RE(i) \in {"nul", "]"} THEN [set |-> {}, end |-> i]
  ELSE LET lo   == Unescaped(i)
           hi   == IF IsRange(lo) THEN Unescaped(lo + 2) ELSE lo
           rest == f[hi + 1]
       IN  [set |-> Between(RE(lo), RE(hi)) \cup rest.set, end |-> rest.end]

LastOf(i) == LET lo == Unescaped(i) IN IF IsRange(lo) THEN Unescaped(lo + 2) ELSE lo

LEMMA UnescapedIs ==
  ASSUME pattern \in Patterns, NEW i \in 1..Len(re)
  PROVE  Unescaped(i) \in i..Len(re) /\ Unescaped(i) <= i + 1
<1>1. i + 1 > Len(re) => RE(i + 1) = "nul"
  BY CharsAre
<1> QED
  BY <1>1, CharsAre DEF Unescaped

LEMMA LastIs ==
  ASSUME pattern \in Patterns, NEW i \in 1..Len(re)
  PROVE  LastOf(i) \in i..Len(re)
<1> DEFINE lo == Unescaped(i)
<1>1. lo \in i..Len(re)
  BY UnescapedIs
<1>2. lo \in Int /\ lo \in 1..Len(re) /\ Len(re) \in Nat
  BY <1>1, CharsAre
<1> HIDE DEF lo
<1>3. CASE IsRange(lo)
  <2>1. lo + 2 \in 1..Len(re)
    <3>1. RE(lo + 2) # "nul"
      BY <1>3 DEF IsRange
    <3>2. ~(lo + 2 > Len(re))
      BY <3>1, <1>2, CharsAre
    <3> QED
      BY ONLY <3>2, <1>2
  <2>2. Unescaped(lo + 2) \in (lo + 2)..Len(re)
    BY <2>1, UnescapedIs
  <2>3. LastOf(i) = Unescaped(lo + 2)
    BY <1>3 DEF LastOf, lo
  <2> QED
    BY ONLY <2>2, <2>3, <1>1, <1>2, i \in 1..Len(re)
<1>4. CASE ~IsRange(lo)
  BY <1>1, <1>4 DEF LastOf, lo
<1> QED
  BY <1>3, <1>4

LEMMA StepIs ==
  ASSUME NEW f, NEW g, NEW i, RE(i) \notin {"nul", "]"} => f[LastOf(i) + 1] = g[LastOf(i) + 1]
  PROVE  MembersStep(f, i) = MembersStep(g, i)
BY DEF MembersStep, LastOf

\* The recursion of Members is well defined: it goes forward.
LEMMA MembersExists ==
  ASSUME pattern \in Patterns
  PROVE  \E f : f = [i \in 1..(Len(re) + 1) |-> MembersStep(f, i)]
<1> DEFINE last == Len(re) + 1
           T == {m \in Nat : \E f : \A i \in 1..last : i > last - m => f[i] = MembersStep(f, i)}
<1>0. last \in Nat
  BY CharsAre
<1>1. 0 \in T
  BY <1>0 DEF T
<1>n. \A i \in 1..last : RE(i) \notin {"nul", "]"} => LastOf(i) + 1 \in (i + 1)..last
  <2> SUFFICES ASSUME NEW i \in 1..last, RE(i) \notin {"nul", "]"} PROVE LastOf(i) + 1 \in (i + 1)..last
    OBVIOUS
  <2>1. i \in 1..Len(re)
    BY CharsAre
  <2>2. LastOf(i) \in i..Len(re)
    BY <2>1, LastIs
  <2> QED
    BY <2>1, <2>2, CharsAre
<1>2. ASSUME NEW m \in Nat, m \in T PROVE m + 1 \in T
  <2>1. PICK f : \A i \in 1..last : i > last - m => f[i] = MembersStep(f, i)
    BY <1>2
  <2> DEFINE here == last - m
             more == [i \in 1..last |-> IF i = here THEN MembersStep(f, here) ELSE f[i]]
  <2>2. \A i \in 1..last : i > here => more[i] = f[i]
    BY <1>0
  <2>3. here \in 1..last => more[here] = MembersStep(f, here)
    OBVIOUS
  <2>4. here \in Int /\ last \in Nat
    BY <1>0
  <2> HIDE DEF more, here, last
  <2>5. \A i \in 1..last : i >= here => MembersStep(more, i) = MembersStep(f, i)
    <3> SUFFICES ASSUME NEW i \in 1..last, i >= here PROVE MembersStep(more, i) = MembersStep(f, i)
      OBVIOUS
    <3>1. CASE RE(i) \notin {"nul", "]"}
      <4>1. LastOf(i) + 1 \in (i + 1)..last
        BY <3>1, <1>n
      <4> DEFINE l == LastOf(i) + 1
      <4>2. l \in 1..last /\ l > here
        <5> HIDE DEF l
        <5>1. l \in (i + 1)..last
          BY <4>1 DEF l
        <5> QED
          BY ONLY <5>1, <2>4, i \in 1..last, i >= here
      <4>3. more[l] = f[l]
        <5> HIDE DEF l
        <5> QED
          BY <2>2, <4>2
      <4> QED
        BY <4>3, StepIs
    <3>2. CASE RE(i) \in {"nul", "]"}
      BY <3>2, StepIs
    <3> QED
      BY <3>1, <3>2
  <2>6. \A i \in 1..last : i > last - (m + 1) => more[i] = MembersStep(more, i)
    <3> SUFFICES ASSUME NEW i \in 1..last, i > last - (m + 1) PROVE more[i] = MembersStep(more, i)
      OBVIOUS
    <3>1. (i = here \/ i > here) /\ (i > here => i > last - m)
      BY <2>4 DEF here
    <3>2. MembersStep(more, i) = MembersStep(f, i)
      BY <2>4, <2>5, <3>1
    <3>3. more[i] = MembersStep(f, i)
      BY <2>1, <2>2, <2>3, <3>1
    <3> QED
      BY <3>2, <3>3
  <2> QED
    BY <2>6 DEF T
<1> HIDE DEF T
<1>3. last \in T
  BY <1>0, <1>1, <1>2, SetInduction
<1>4. PICK f : \A i \in 1..last : i > last - last => f[i] = MembersStep(f, i)
  BY <1>3 DEF T
<1> DEFINE all == [i \in 1..last |-> f[i]]
<1>5. \A i \in 1..last : all[i] = f[i]
  OBVIOUS
<1>6. \A i \in 1..last : all[i] = MembersStep(all, i)
  <2> SUFFICES ASSUME NEW i \in 1..last PROVE all[i] = MembersStep(all, i)
    OBVIOUS
  <2>1. f[i] = MembersStep(f, i)
    BY <1>0, <1>4
  <2>2. RE(i) \notin {"nul", "]"} => LastOf(i) + 1 \in 1..last
    <3> SUFFICES ASSUME RE(i) \notin {"nul", "]"} PROVE LastOf(i) + 1 \in 1..last
      OBVIOUS
    <3>1. LastOf(i) + 1 \in (i + 1)..last
      BY <1>n
    <3> QED
      BY <1>0, <3>1
  <2> HIDE DEF all, last
  <2>3. MembersStep(all, i) = MembersStep(f, i)
    BY <1>5, <2>2, StepIs
  <2> QED
    BY <1>5, <2>1, <2>3
<1>7. all = [i \in 1..last |-> all[i]]
  OBVIOUS
<1>8. all = [i \in 1..last |-> MembersStep(all, i)]
  <2> HIDE DEF all, last
  <2> QED
    BY <1>6, <1>7
<1> HIDE DEF all
<1> QED
  BY <1>8

LEMMA MembersAre ==
  ASSUME pattern \in Patterns, NEW i \in 1..(Len(re) + 1)
  PROVE  Members[i] = MembersStep(Members, i)
<1>1. Members = CHOOSE f : f = [k \in 1..(Len(re) + 1) |-> MembersStep(f, k)]
  BY DEF Members, MembersStep
<1>2. Members = [k \in 1..(Len(re) + 1) |-> MembersStep(Members, k)]
  BY <1>1, MembersExists
<1> QED
  BY <1>2

LEMMA MemberIs ==
  ASSUME pattern \in Patterns, NEW x \in 1..Len(re), NEW y \in 1..Len(re), x < y, IsMemberAt(re, x, y)
  PROVE  /\ RE(x) \notin {"nul", "]"} /\ LastOf(x) + 1 = y
         /\ Between(RE(Unescaped(x)), RE(LastOf(x))) = MemberAt(re, x, y)
<1> DEFINE lo == Letter(re, x)
<1>1. \A i \in 1..(Len(re) - 1) : Unescaped(i) = Letter(re, i)
  BY CharsAre DEF Unescaped, Letter
<1>2. \A i \in Int : Letter(re, i) \in Int /\ Letter(re, i) >= i /\ Letter(re, i) <= i + 1
  BY DEF Letter
<1>3. Len(re) \in Nat /\ x \in 1..(Len(re) - 1)
  BY CharsAre
<1>4. Unescaped(x) = lo /\ lo \in 1..Len(re)
  <2>1. Unescaped(x) = lo
    BY <1>1, <1>3
  <2>2. lo \in Int /\ lo >= x /\ lo <= x + 1
    BY <1>2
  <2> HIDE DEF lo
  <2>3. lo \in 1..Len(re)
    BY ONLY <1>3, <2>2
  <2> QED
    BY <2>1, <2>3
<1>5. RE(x) \notin {"nul", "]"}
  BY CharsAre DEF IsMemberAt, Letter
<1>6. CASE IsRangeAt(re, x, y)
  <2>1. re[lo + 1] = "-" /\ re[lo + 2] # "]" /\ y = Letter(re, lo + 2) + 1
    BY <1>6 DEF IsRangeAt
  <2> HIDE DEF lo
  <2>2. lo \in Int /\ Letter(re, lo + 2) \in Int /\ Letter(re, lo + 2) >= lo + 2
    <3>1. lo \in Int /\ lo + 2 \in Int
      BY <1>4
    <3> QED
      BY <1>2, <3>1
  <2>3. lo + 2 \in 1..(Len(re) - 1)
    BY ONLY <1>3, <1>4, <2>1, <2>2, y \in 1..Len(re)
  <2>4. lo + 2 \in 1..Len(re) /\ lo + 1 \in 1..Len(re)
    BY ONLY <1>3, <1>4, <2>3
  <2>5. IsRange(lo)
    BY CharsAre, <2>1, <2>4 DEF IsRange
  <2>6. LastOf(x) = Letter(re, lo + 2)
    BY <1>1, <1>4, <2>3, <2>5 DEF LastOf
  <2>7. y - 1 = Letter(re, lo + 2) /\ y - 1 \in 1..Len(re)
    BY ONLY <1>3, <2>1, <2>2, <2>3, y \in 1..Len(re)
  <2>8. RE(lo) = re[lo] /\ RE(y - 1) = re[y - 1]
    BY CharsAre, <1>4, <2>7
  <2>9. MemberAt(re, x, y) = Between(re[lo], re[y - 1])
    BY <1>6 DEF MemberAt, lo
  <2>10. LastOf(x) + 1 = y
    BY ONLY <2>1, <2>6
  <2> QED
    BY <1>4, <1>5, <2>6, <2>7, <2>8, <2>9, <2>10
<1>7. CASE ~IsRangeAt(re, x, y)
  <2>1. y = lo + 1 /\ (re[y] = "-" => re[y + 1] = "]")
    BY <1>7 DEF IsMemberAt
  <2> HIDE DEF lo
  <2>2. ~IsRange(lo)
    <3>1. RE(y) = re[y]
      BY CharsAre
    <3>2. lo + 1 = y /\ lo + 2 = y + 1
      BY ONLY <2>1, <1>4, <1>3, y \in 1..Len(re)
    <3>3. CASE y + 1 > Len(re)
      BY CharsAre, <3>2, <3>3 DEF IsRange
    <3>4. CASE y + 1 <= Len(re)
      <4>1. RE(y + 1) = re[y + 1]
        BY CharsAre, <3>4
      <4> QED
        BY <2>1, <3>1, <3>2, <4>1 DEF IsRange
    <3> QED
      BY <1>3, <3>3, <3>4
  <2>3. LastOf(x) = lo
    BY <1>4, <2>2 DEF LastOf
  <2>4. RE(lo) = re[lo] /\ re[lo] \in Chars
    BY CharsAre, <1>4
  <2>5. Between(re[lo], re[lo]) = {re[lo]}
    <3>1. \A e \in Chars : Rank[e] \in Nat
      BY PatternAssumption
    <3>2. \A e \in Chars : Rank[re[lo]] <= Rank[e] /\ Rank[e] <= Rank[re[lo]] => e = re[lo]
      BY <2>4, <3>1, PatternRulesAssumption
    <3> QED
      BY <2>4, <3>1, <3>2 DEF Between
  <2>6. MemberAt(re, x, y) = {re[lo]}
    BY <1>7 DEF MemberAt, lo
  <2> QED
    BY <1>4, <1>5, <2>1, <2>3, <2>4, <2>5, <2>6
<1> QED
  BY <1>6, <1>7

LEMMA ClassIs ==
  ASSUME pattern \in Patterns, NEW item, NEW i \in 1..Len(re), NEW j \in 1..(Len(re) + 1),
         IsClassAt(re, item, i, j)
  PROVE  RE(i) = "[" /\ Class(i) = [set |-> item.set, end |-> j] /\ i < j
<1> DEFINE b == item.parts
           size == Len(b) - 1
           Rest(l) == UNION {MemberAt(re, b[k], b[k + 1]) : k \in l..size}
           Is(l) == Members[b[l]] = [set |-> Rest(l), end |-> j - 1]
           first == IF re[i + 1] = "^" THEN i + 2 ELSE i + 1
<1>1. /\ re[i] = "[" /\ re[j - 1] = "]" /\ size \in Nat \ {0}
      /\ b \in [1..(size + 1) -> 1..(j - 1)] /\ b[1] = first /\ b[size + 1] = j - 1
      /\ item.set = IF re[i + 1] = "^" THEN Chars \ Rest(1) ELSE Rest(1)
  BY DEF IsClassAt
<1>2. \A k \in 1..size : b[k] < b[k + 1] /\ IsMemberAt(re, b[k], b[k + 1])
  BY DEF IsClassAt
<1> HIDE DEF size, b
<1>3. Len(re) \in Nat /\ j - 1 \in 1..Len(re) /\ i + 1 <= j - 1
  <2>1. Len(re) \in Nat
    BY CharsAre
  <2>2. b[1] \in 1..(j - 1) /\ b[1] >= i + 1
    BY <1>1
  <2> QED
    BY ONLY <2>1, <2>2, i \in 1..Len(re), j \in 1..(Len(re) + 1)
<1>4. \A k \in 1..(size + 1) : b[k] \in 1..Len(re)
  BY <1>1, <1>3
<1>5. Is(size + 1)
  <2>1. Rest(size + 1) = {}
    BY <1>1
  <2>2. RE(j - 1) = "]"
    BY CharsAre, <1>1, <1>3
  <2>3. j - 1 \in 1..(Len(re) + 1)
    BY <1>3
  <2> HIDE DEF Rest
  <2> QED
    BY <1>1, <2>1, <2>2, <2>3, MembersAre DEF MembersStep
<1>6. ASSUME NEW k \in 1..size, Is(k + 1) PROVE Is(k)
  <2>1. k \in 1..(size + 1) /\ k + 1 \in 1..(size + 1)
    BY <1>1
  <2>2. b[k] \in 1..Len(re) /\ b[k + 1] \in 1..Len(re)
    BY <1>4, <2>1
  <2>3. /\ RE(b[k]) \notin {"nul", "]"} /\ LastOf(b[k]) + 1 = b[k + 1]
        /\ Between(RE(Unescaped(b[k])), RE(LastOf(b[k]))) = MemberAt(re, b[k], b[k + 1])
    BY <1>2, <2>2, MemberIs
  <2>4. Rest(k) = MemberAt(re, b[k], b[k + 1]) \cup Rest(k + 1)
    <3>1. k..size = {k} \cup (k + 1)..size
      BY <1>1
    <3> QED
      BY <3>1
  <2>5. b[k] \in 1..(Len(re) + 1)
    BY <1>3, <2>2
  <2>6. Members[b[k]] = MembersStep(Members, b[k])
    BY <2>5, MembersAre
  <2> HIDE DEF Rest
  <2>7. MembersStep(Members, b[k]) =
          [set |-> MemberAt(re, b[k], b[k + 1]) \cup Members[b[k + 1]].set, end |-> Members[b[k + 1]].end]
    BY <2>3 DEF MembersStep, LastOf
  <2> QED
    BY <1>6, <2>4, <2>6, <2>7
<1> HIDE DEF Is, Rest
<1>7. Is(1)
  <2> DEFINE T == {m \in Nat : m <= size => Is(size + 1 - m)}
  <2>1. 0 \in T
    BY <1>1, <1>5
  <2>2. ASSUME NEW m \in Nat, m \in T PROVE m + 1 \in T
    <3> SUFFICES ASSUME m + 1 <= size PROVE Is(size + 1 - (m + 1))
      OBVIOUS
    <3>1. size - m \in 1..size /\ size + 1 - (m + 1) = size - m /\ size - m + 1 = size + 1 - m /\ m <= size
      BY <1>1
    <3>2. Is(size - m + 1)
      BY <2>2, <3>1
    <3> QED
      BY <1>6, <3>1, <3>2
  <2> HIDE DEF T
  <2>3. size \in T
    BY <1>1, <2>1, <2>2, SetInduction
  <2>4. size <= size /\ size + 1 - size = 1
    BY <1>1
  <2> QED
    BY <2>3, <2>4 DEF T
<1>8. RE(i) = "[" /\ RE(i + 1) = re[i + 1] /\ RE(j - 1) = "]" /\ j - 1 + 1 = j /\ i < j
  <2>1. i + 1 \in 1..Len(re)
    BY <1>3
  <2> QED
    BY CharsAre, <1>1, <1>3, <2>1
<1>9. Members[first] = [set |-> Rest(1), end |-> j - 1]
  BY <1>1, <1>7 DEF Is
<1> HIDE DEF first
<1>10. (IF RE(i + 1) = "^" THEN i + 2 ELSE i + 1) = first
  BY <1>8 DEF first
<1>11. Members[first].set = Rest(1) /\ Members[first].end = j - 1
  BY <1>9
<1>12. Class(i) = [set |-> IF RE(i + 1) = "^" THEN Chars \ Rest(1) ELSE Rest(1), end |-> j]
  BY <1>8, <1>10, <1>11 DEF Class
<1> QED
  BY <1>1, <1>8, <1>12

-----------------------------------------------------------------------------
(* Where the items are *)

\* Item k is what it repeats, up to q, and then how often, unless that is once.
AtomTo(k, q) ==
  LET item == means.items[k]
  IN  /\ IsAtomAt(re, item, means.at[k], q) /\ means.at[k] < q /\ q \in 1..(Len(re) + 1)
      /\ \/ item.times = "1" /\ q = means.at[k + 1]
         \/ item.times \in Quantifiers /\ q = means.at[k + 1] - 1 /\ RE(q) = item.times

LEMMA PlacesAre ==
  ASSUME pattern \in Patterns
  PROVE  /\ Size \in Nat /\ Len(re) \in Nat /\ DOMAIN means.items = 1..Size
         /\ \A k \in 1..(Size + 1) : means.at[k] \in 1..(Len(re) + 1)
         /\ \A k \in 1..Size : means.at[k] \in 1..Len(re) /\ means.at[k] < means.at[k + 1]
<1>1. /\ Size \in Nat /\ DOMAIN means.items = 1..Size
      /\ means.at \in [1..(Size + 1) -> 1..(Len(re) + 1)]
      /\ \A k \in 1..Size : means.at[k] < means.at[k + 1]
  BY MeansAre DEF Says, Size
<1>2. Len(re) \in Nat
  BY CharsAre
<1>3. \A k \in 1..(Size + 1) : means.at[k] \in 1..(Len(re) + 1)
  BY <1>1
<1>4. ASSUME NEW k \in 1..Size PROVE means.at[k] \in 1..Len(re)
  <2>1. k \in 1..(Size + 1) /\ k + 1 \in 1..(Size + 1)
    BY <1>1
  <2>2. means.at[k] \in 1..(Len(re) + 1) /\ means.at[k + 1] \in 1..(Len(re) + 1) /\ means.at[k] < means.at[k + 1]
    BY <1>1, <1>3, <2>1
  <2> QED
    BY ONLY <1>2, <2>2
<1> QED
  BY <1>1, <1>2, <1>3, <1>4

LEMMA AtomIs ==
  ASSUME pattern \in Patterns, NEW k \in 1..Size
  PROVE  /\ \E q \in Int : AtomTo(k, q)
         /\ RE(means.at[k]) \notin Quantifiers \cup {"$"}
<1> DEFINE item == means.items[k]
           i == means.at[k]
           j == means.at[k + 1]
<1>1. IsItemAt(re, item, i, j)
  BY MeansAre DEF Says, Size
<1>2. i \in 1..Len(re) /\ j \in 1..(Len(re) + 1) /\ i < j /\ Len(re) \in Nat
  <2>1. k + 1 \in 1..(Size + 1)
    BY PlacesAre
  <2> QED
    BY <2>1, PlacesAre
<1> HIDE DEF item, i, j
<1>3. ASSUME NEW q \in 1..(Len(re) + 1), IsAtomAt(re, item, i, q)
      PROVE  i < q /\ RE(i) \notin Quantifiers \cup {"$"}
  <2>1. RE(i) = re[i]
    BY <1>2, CharsAre
  <2>2. CASE IsClassAt(re, item, i, q)
    <3>1. RE(i) = "[" /\ i < q
      BY <1>2, <2>2, ClassIs
    <3> QED
      BY <3>1 DEF Quantifiers
  <2>3. CASE ~IsClassAt(re, item, i, q)
    <3>1. re[i] \notin Quantifiers \cup {"$"} /\ (q = i + 1 \/ q = i + 2)
      BY <1>3, <2>3 DEF IsAtomAt, Special, Quantifiers
    <3> QED
      BY <1>2, <2>1, <3>1
  <2> QED
    BY <2>2, <2>3
<1>4. CASE item.times = "1" /\ IsAtomAt(re, item, i, j)
  <2>1. i < j /\ RE(i) \notin Quantifiers \cup {"$"} /\ j \in Int
    BY <1>2, <1>3, <1>4
  <2>2. AtomTo(k, j)
    BY <1>2, <1>4, <2>1 DEF AtomTo, item, i, j
  <2> QED
    BY <2>1, <2>2 DEF i
<1>5. CASE item.times \in Quantifiers /\ re[j - 1] = item.times /\ IsAtomAt(re, item, i, j - 1)
  <2>1. j - 1 \in 1..Len(re) /\ j - 1 \in 1..(Len(re) + 1) /\ j - 1 \in Int
    BY <1>2
  <2>2. i < j - 1 /\ RE(i) \notin Quantifiers \cup {"$"}
    BY <1>3, <1>5, <2>1
  <2>3. RE(j - 1) = item.times
    BY <1>5, <2>1, CharsAre
  <2>4. AtomTo(k, j - 1)
    BY <1>5, <2>1, <2>2, <2>3 DEF AtomTo, item, i, j
  <2> QED
    BY <2>1, <2>2, <2>4 DEF i
<1> QED
  BY <1>1, <1>4, <1>5 DEF IsItemAt

LEMMA NoQuantifierAt ==
  ASSUME pattern \in Patterns, NEW k \in 1..(Size + 1)
  PROVE  RE(means.at[k]) \notin Quantifiers /\ (More /\ at = means.at[k] => k <= Size)
<1>1. Size \in Nat /\ Len(re) \in Nat
  BY PlacesAre
<1>2. CASE k \in 1..Size
  BY <1>1, <1>2, AtomIs
<1>3. CASE k = Size + 1
  <2>1. /\ means.to \in BOOLEAN /\ means.at[k] = (IF means.to THEN Len(re) ELSE Len(re) + 1)
        /\ means.to => re # <<>> /\ re[Len(re)] = "$"
    BY <1>3, MeansAre DEF Says, Size
  <2>2. CASE means.to
    <3>1. re \in Seq(Chars) /\ re # <<>>
      BY <2>1, <2>2, CharsAre
    <3>2. Len(re) \in 1..Len(re)
      BY ONLY <3>1
    <3>3. RE(means.at[k]) = "$"
      BY <2>1, <2>2, <3>2, CharsAre
    <3>4. AnchoredEnd
      BY <2>1, <2>2 DEF AnchoredEnd
    <3> QED
      BY <1>1, <2>1, <2>2, <3>3, <3>4 DEF More, Quantifiers
  <2>3. CASE ~means.to
    <3>1. RE(means.at[k]) = "nul"
      BY <1>1, <2>1, <2>3, CharsAre
    <3> QED
      BY <1>1, <2>1, <2>3, <3>1 DEF More, Quantifiers
  <2> QED
    BY <2>2, <2>3
<1> QED
  BY <1>1, <1>2, <1>3

-----------------------------------------------------------------------------
(* What is emitted *)

BlockOf(s, item) ==
  \/ s = <<One(item.set)>> /\ (item.times \in {"1", "?"} \/ item.set = Chars)
  \/ s = <<One(item.set), Loop(item.set)>> /\ item.times = "+"
  \/ s = <<One(item.set), Back, Loop(item.set)>> /\ item.times = "*"

Behind(k, next) ==
  \/ next = means.at[k]
  \/ k > 1 /\ next = means.at[k] - 1 /\ RE(next) \in Quantifiers

LEMMA QuantifiedIs ==
  ASSUME pattern \in Patterns, NEW k \in 1..Size, NEW q \in Int, AtomTo(k, q)
  PROVE  /\ BlockOf(Quantified(means.items[k].set, q), means.items[k])
         /\ Behind(k + 1, After(q))
<1> DEFINE item == means.items[k]
           j == means.at[k + 1]
<1>1. k + 1 \in 1..(Size + 1) /\ k + 1 > 1 /\ j \in Int
  BY PlacesAre
<1>2. RE(j) \notin Quantifiers
  BY <1>1, NoQuantifierAt
<1> HIDE DEF item, j
<1>3. \/ item.times = "1" /\ q = j
      \/ item.times \in Quantifiers /\ q = j - 1 /\ RE(q) = item.times
  BY DEF AtomTo, item, j
<1>4. CASE item.times = "1" /\ q = j
  <2>1. Quantified(item.set, q) = <<One(item.set)>> /\ After(q) = j
    BY <1>2, <1>4 DEF Quantified, After, Quantifiers
  <2> QED
    BY <1>4, <2>1 DEF BlockOf, Behind, item, j
<1>5. CASE item.times \in Quantifiers /\ q = j - 1 /\ RE(q) = item.times
  <2>1. CASE RE(q) = "?"
    <3>1. Quantified(item.set, q) = <<One(item.set)>> /\ After(q) = j - 1
      BY <1>5, <2>1 DEF Quantified, After
    <3> QED
      BY <1>1, <1>5, <2>1, <3>1 DEF BlockOf, Behind, item, j
  <2>2. CASE RE(q) = "+"
    <3>1. Quantified(item.set, q) = <<One(item.set), Loop(item.set)>> /\ After(q) = j
      BY <1>1, <1>5, <2>2 DEF Quantified, After
    <3> QED
      BY <1>5, <2>2, <3>1 DEF BlockOf, Behind, item, j
  <2>3. CASE RE(q) = "*"
    <3>1. Quantified(item.set, q) = <<One(item.set), Back, Loop(item.set)>> /\ After(q) = j
      BY <1>1, <1>5, <2>3 DEF Quantified, After
    <3> QED
      BY <1>5, <2>3, <3>1 DEF BlockOf, Behind, item, j
  <2> QED
    BY <1>5, <2>1, <2>2, <2>3 DEF Quantifiers
<1> QED
  BY <1>3, <1>4, <1>5

\* The statements before stay, and those of the item come behind them.
LEMMA BlocksGrow ==
  ASSUME NEW o, NEW s, Ordered(o), NEW m, NEW k \in Nat \ {0}, BlockOf(s, m.items[k]),
         \E b \in [1..k -> 1..(Len(o) + 1)] : Blocks(o, m, k, b)
  PROVE  \E b \in [1..(k + 1) -> 1..(Len(o \o s) + 1)] : Blocks(o \o s, m, k + 1, b)
<1>1. PICK b \in [1..k -> 1..(Len(o) + 1)] : Blocks(o, m, k, b)
  OBVIOUS
<1>2. PICK S : o \in Seq(S)
  BY DEF Ordered
<1> DEFINE item == m.items[k]
           R == S \cup {One(item.set), Loop(item.set), Back}
           t == o \o s
           c == [j \in 1..(k + 1) |-> IF j <= k THEN b[j] ELSE Len(t) + 1]
<1>3. o \in Seq(R) /\ s \in Seq(R)
  <2> DEFINE one == One(item.set)
             loop == Loop(item.set)
  <2>1. s \in Seq({one, loop, Back})
    <3>1. s = <<one>> \/ s = <<one, loop>> \/ s = <<one, Back, loop>>
      BY DEF BlockOf
    <3> HIDE DEF one, loop
    <3>2. /\ <<one>> \in Seq({one, loop, Back})
          /\ <<one, loop>> \in Seq({one, loop, Back})
          /\ <<one, Back, loop>> \in Seq({one, loop, Back})
      OBVIOUS
    <3> QED
      BY <3>1, <3>2, Zenon
  <2> QED
    BY <1>2, <2>1
<1>4. Len(s) \in 1..3 /\ Len(o) \in Nat
  BY <1>3 DEF BlockOf
<1> HIDE DEF item, R
<1>5. Len(t) = Len(o) + Len(s) /\ Len(t) \in Nat
  BY <1>3, <1>4
<1>6. \A x \in 1..Len(o) : t[x] = o[x]
  BY <1>3
<1>7. \A x \in 1..Len(s) : t[Len(o) + x] = s[x]
  BY <1>3, <1>4
<1> HIDE DEF t
<1>8. \A j \in 1..k : b[j] \in 1..(Len(o) + 1) /\ c[j] = b[j]
  BY <1>1
<1>9. c \in [1..(k + 1) -> 1..(Len(t) + 1)] /\ c[1] = 1 /\ c[k + 1] = Len(t) + 1
  <2>1. c[1] = b[1] /\ c[k + 1] = Len(t) + 1
    OBVIOUS
  <2>2. \A j \in 1..(k + 1) : c[j] \in 1..(Len(t) + 1)
    BY <1>4, <1>5, <1>8
  <2> QED
    BY <1>1, <2>1, <2>2 DEF Blocks
<1>10. \A j \in 1..(k - 1) : c[j] = b[j] /\ c[j + 1] = b[j + 1] /\ b[j] \in 1..(Len(o) + 1) /\ b[j + 1] \in 1..(Len(o) + 1)
  BY <1>8
<1>11. c[k] = Len(o) + 1
  BY <1>1, <1>8 DEF Blocks
<1> HIDE DEF c
<1>12. ASSUME NEW j \in 1..k PROVE Block(t, c[j], c[j + 1], m.items[j])
  <2>1. CASE j \in 1..(k - 1)
    <3>1. Block(o, c[j], c[j + 1], m.items[j])
      BY <1>1, <1>10, <2>1 DEF Blocks
    <3>2. c[j] \in 1..(Len(o) + 1) /\ c[j + 1] \in 1..(Len(o) + 1)
      BY <1>10, <2>1
    <3>3. \A x \in Int : x >= c[j] /\ x < c[j + 1] => t[x] = o[x]
      <4>1. \A x \in Int : x >= c[j] /\ x < c[j + 1] => x \in 1..Len(o)
        BY <1>4, <3>2
      <4> QED
        BY <1>6, <4>1
    <3> DEFINE x == c[j]
               y == c[j + 1]
    <3> HIDE DEF x, y
    <3>4. x \in Int /\ y \in Int /\ x + 1 \in Int /\ x + 2 \in Int
      BY <3>2 DEF x, y
    <3>5. Block(o, x, y, m.items[j])
      BY <3>1 DEF x, y
    <3>6. /\ x < y => t[x] = o[x]
          /\ x + 1 < y => t[x + 1] = o[x + 1]
          /\ x + 2 < y => t[x + 2] = o[x + 2]
      <4>1. \A z \in Int : z >= x /\ z < y => t[z] = o[z]
        BY <3>3 DEF x, y
      <4> QED
        BY <3>4, <4>1
    <3>7. Block(t, x, y, m.items[j])
      BY <3>4, <3>5, <3>6 DEF Block
    <3> QED
      BY <3>7 DEF x, y
  <2>2. CASE j = k
    <3> DEFINE x == Len(o) + 1
    <3>1. \A z \in 1..Len(s) : t[Len(o) + z] = s[z]
      BY <1>7
    <3>2. Len(o) + 1 = x /\ Len(o) + 2 = x + 1 /\ Len(o) + 3 = x + 2 /\ c[k + 1] = x + Len(s)
      BY <1>4, <1>5, <1>9
    <3> HIDE DEF x
    <3>3. CASE s = <<One(item.set)>> /\ (item.times \in {"1", "?"} \/ item.set = Chars)
      <4>1. Len(s) = 1 /\ s[1] = One(item.set)
        BY <3>3
      <4> QED
        BY <1>11, <2>2, <3>1, <3>2, <3>3, <4>1 DEF Block, item, x
    <3>4. CASE s = <<One(item.set), Loop(item.set)>> /\ item.times = "+"
      <4>1. Len(s) = 2 /\ s[1] = One(item.set) /\ s[2] = Loop(item.set)
        BY <3>4
      <4>2. t[x] = s[1] /\ t[x + 1] = s[2]
        BY <3>1, <3>2, <4>1
      <4> QED
        BY <1>11, <2>2, <3>2, <3>4, <4>1, <4>2 DEF Block, item, x
    <3>5. CASE s = <<One(item.set), Back, Loop(item.set)>> /\ item.times = "*"
      <4>1. Len(s) = 3 /\ s[1] = One(item.set) /\ s[2] = Back /\ s[3] = Loop(item.set)
        BY <3>5
      <4>2. t[x] = s[1] /\ t[x + 1] = s[2] /\ t[x + 2] = s[3]
        BY <3>1, <3>2, <4>1
      <4> QED
        BY <1>11, <2>2, <3>2, <3>5, <4>1, <4>2 DEF Block, item, x
    <3> QED
      BY <3>3, <3>4, <3>5 DEF BlockOf, item
  <2> QED
    BY <2>1, <2>2
<1>13. \A j \in 1..(k + 1 - 1) : Block(t, c[j], c[j + 1], m.items[j])
  <2>1. k + 1 - 1 = k
    OBVIOUS
  <2> QED
    BY <1>12, <2>1
<1>14. Blocks(t, m, k + 1, c)
  BY <1>9, <1>13 DEF Blocks
<1> QED
  BY <1>9, <1>14 DEF t

LEMMA EmitItem ==
  ASSUME pattern \in Patterns, Ordered(ops), NEW k \in 1..Size, Emitted(k), at = means.at[k],
         NEW s, NEW next, Emit(s, next), BlockOf(s, means.items[k]), Behind(k + 1, next)
  PROVE  Emitted(k + 1)'
<1>1. k \in Nat \ {0}
  OBVIOUS
<1>2. \E b \in [1..k -> 1..(Len(ops) + 1)] : Blocks(ops, means, k, b)
  BY DEF Emitted
<1>3. \E b \in [1..(k + 1) -> 1..(Len(ops \o s) + 1)] : Blocks(ops \o s, means, k + 1, b)
  BY <1>1, <1>2, BlocksGrow
<1>4. ops' = ops \o s /\ at' = next /\ pattern' = pattern
  BY DEF Emit
<1>5. means' = means /\ RE(at)' = RE(next)
  BY <1>4 DEF means, RE, re
<1> QED
  BY <1>3, <1>4, <1>5 DEF Emitted, Behind

LEMMA EmitKeeps ==
  ASSUME pattern \in Patterns, Ordered(ops), NEW k \in 1..(Size + 1), Emitted(k),
         EmitDot \/ EmitClass \/ SkipQuantifier \/ EmitChar
  PROVE  \E l \in 1..(Size + 1) : Emitted(l)'
<1>1. Size \in Nat
  BY PlacesAre
<1>2. CASE at # means.at[k]
  <2>1. k > 1 /\ at = means.at[k] - 1 /\ RE(at) \in Quantifiers
    BY <1>2 DEF Emitted
  <2>2. SkipQuantifier
    BY <2>1 DEF EmitDot, EmitClass, EmitChar, Quantifiers
  <2>3. ops' = ops \o <<>> /\ at' = at + 1 /\ pattern' = pattern
    BY <2>2 DEF SkipQuantifier, Emit
  <2>4. ops' = ops
    BY <2>3 DEF Ordered
  <2>5. at' = means.at[k]
    <3>1. means.at[k] \in Int
      BY PlacesAre
    <3> QED
      BY <2>1, <2>3, <3>1
  <2>6. means' = means
    BY <2>3 DEF means
  <2>7. Emitted(k)'
    BY <2>4, <2>5, <2>6 DEF Emitted
  <2> QED
    BY <2>7
<1>3. CASE at = means.at[k]
  <2>1. More
    BY DEF EmitDot, EmitClass, SkipQuantifier, EmitChar
  <2>2. k \in 1..Size /\ RE(at) \notin Quantifiers
    BY <1>1, <1>3, <2>1, NoQuantifierAt
  <2>3. PICK q \in Int : AtomTo(k, q)
    BY <2>2, AtomIs
  <2> DEFINE item == means.items[k]
  <2>4. at \in 1..Len(re) /\ q \in 1..(Len(re) + 1) /\ IsAtomAt(re, item, at, q) /\ Len(re) \in Nat
    BY <1>3, <2>2, <2>3, PlacesAre DEF AtomTo
  <2>5. BlockOf(Quantified(item.set, q), item) /\ Behind(k + 1, After(q))
    BY <2>2, <2>3, QuantifiedIs
  <2>6. RE(at) = re[at]
    BY <2>4, CharsAre
  <2>7. IsClassAt(re, item, at, q) => RE(at) = "[" /\ Class(at) = [set |-> item.set, end |-> q]
    BY <2>4, ClassIs
  <2> HIDE DEF item
  <2>8. CASE EmitDot
    <3>1. RE(at) = "." /\ Emit(<<One(Chars)>>, at + 1)
      BY <2>8 DEF EmitDot
    <3>2. q = at + 1 /\ item.set = Chars
      BY <2>4, <2>6, <2>7, <3>1 DEF IsAtomAt, Special
    <3>3. BlockOf(<<One(Chars)>>, item)
      BY <3>2 DEF BlockOf
    <3>4. Behind(k + 1, q)
      BY <2>2, <2>3 DEF AtomTo, Behind
    <3>5. Emitted(k + 1)'
      BY <1>3, <2>2, <3>1, <3>2, <3>3, <3>4, EmitItem DEF item
    <3> QED
      BY <1>1, <2>2, <3>5
  <2>9. CASE EmitClass
    <3>1. RE(at) = "[" /\ Emit(Quantified(Class(at).set, Class(at).end), After(Class(at).end))
      BY <2>9 DEF EmitClass
    <3>2. IsClassAt(re, item, at, q)
      BY <2>4, <2>6, <3>1 DEF IsAtomAt, Special
    <3>3. Class(at).set = item.set /\ Class(at).end = q
      BY <2>7, <3>2
    <3>4. Emitted(k + 1)'
      BY <1>3, <2>2, <2>5, <3>1, <3>3, EmitItem DEF item
    <3> QED
      BY <1>1, <2>2, <3>4
  <2>10. CASE EmitChar
    <3> DEFINE c == IF RE(at) = "\\" /\ RE(at + 1) # "nul" THEN at + 1 ELSE at
    <3>1. RE(at) \notin {".", "["} /\ Emit(Quantified({RE(c)}, c + 1), After(c + 1))
      BY <2>10 DEF EmitChar
    <3>2. q = c + 1 /\ item.set = {RE(c)}
      <4>1. ~IsClassAt(re, item, at, q)
        BY <2>7, <3>1
      <4>2. CASE q = at + 1 /\ re[at] \notin Special /\ item.set = {re[at]}
        <5>1. c = at
          BY <2>6, <4>2 DEF Special
        <5> QED
          BY <2>6, <4>2, <5>1
      <4>3. CASE q = at + 2 /\ re[at] = "\\" /\ item.set = {re[at + 1]}
        <5>1. at + 1 \in 1..Len(re)
          BY <2>4, <4>3
        <5>2. RE(at + 1) = re[at + 1] /\ RE(at + 1) # "nul"
          BY <5>1, CharsAre
        <5>3. c = at + 1
          BY <2>6, <4>3, <5>2
        <5>4. q = c + 1
          BY <2>4, <4>3, <5>3
        <5> QED
          BY <4>3, <5>2, <5>3, <5>4
      <4> QED
        BY <2>4, <2>6, <3>1, <4>1, <4>2, <4>3 DEF IsAtomAt
    <3> HIDE DEF c
    <3>3. Emitted(k + 1)'
      BY <1>3, <2>2, <2>5, <3>1, <3>2, EmitItem DEF item
    <3> QED
      BY <1>1, <2>2, <3>3
  <2>11. ~SkipQuantifier
    BY <2>2 DEF SkipQuantifier
  <2> QED
    BY <2>8, <2>9, <2>10, <2>11
<1> QED
  BY <1>2, <1>3

LEMMA EmitEnds ==
  ASSUME pattern \in Patterns, NEW k \in 1..(Size + 1), Emitted(k), ~More
  PROVE  k = Size + 1 /\ at = means.at[k]
<1>1. /\ Size \in Nat /\ Len(re) \in Nat
      /\ means.at[k] \in 1..(Len(re) + 1)
      /\ \A j \in 1..Size : means.at[j] < means.at[j + 1]
  BY PlacesAre
<1>2. AnchoredEnd => RE(Len(re)) = "$"
  BY DEF AnchoredEnd, RE
<1>3. ASSUME at # means.at[k] PROVE FALSE
  <2>1. at = means.at[k] - 1 /\ RE(at) \in Quantifiers
    BY <1>3 DEF Emitted
  <2>2. at \in Int /\ at <= Len(re)
    BY <1>1, <2>1
  <2>3. AnchoredEnd /\ at = Len(re)
    BY <1>1, <2>2 DEF More
  <2> QED
    BY <1>2, <2>1, <2>3 DEF Quantifiers
<1>4. ASSUME k # Size + 1 PROVE FALSE
  <2>1. k \in 1..Size /\ k + 1 \in 1..(Size + 1)
    BY <1>1, <1>4
  <2>2. means.at[k] \in 1..Len(re) /\ means.at[k] < means.at[k + 1] /\ means.at[k + 1] \in 1..(Len(re) + 1)
    BY <2>1, PlacesAre
  <2>3. AnchoredEnd /\ at = Len(re)
    BY <1>1, <1>3, <2>2 DEF More
  <2>4. RE(at) # "$"
    BY <1>3, <2>1, AtomIs
  <2> QED
    BY <1>2, <2>3, <2>4
<1> QED
  BY <1>3, <1>4

-----------------------------------------------------------------------------
(* What the matcher finds *)

Placed(b) == b \in [1..(Size + 1) -> 1..(Len(ops) + 1)] /\ Blocks(ops, means, Size + 1, b)

LEMMA BlocksAre ==
  ASSUME pattern \in Patterns, Ordered(ops), NEW b, Placed(b)
  PROVE  /\ Len(ops) \in Nat /\ Size \in Nat /\ b[1] = 1 /\ b[Size + 1] = Len(ops) + 1
         /\ \A k \in 1..Size : /\ b[k] \in 1..Len(ops) /\ b[k + 1] \in 1..(Len(ops) + 1) /\ b[k] < b[k + 1]
                               /\ Block(ops, b[k], b[k + 1], means.items[k])
<1>1. Len(ops) \in Nat /\ Size \in Nat
  BY PlacesAre DEF Ordered
<1>2. b[1] = 1 /\ b[Size + 1] = Len(ops) + 1 /\ \A k \in 1..(Size + 1) : b[k] \in 1..(Len(ops) + 1)
  BY DEF Placed, Blocks
<1>3. ASSUME NEW k \in 1..Size
      PROVE  /\ b[k] \in 1..Len(ops) /\ b[k + 1] \in 1..(Len(ops) + 1) /\ b[k] < b[k + 1]
             /\ Block(ops, b[k], b[k + 1], means.items[k])
  <2>1. k \in 1..(Size + 1) /\ k + 1 \in 1..(Size + 1) /\ k \in 1..((Size + 1) - 1)
    BY <1>1
  <2>2. Block(ops, b[k], b[k + 1], means.items[k])
    <3>1. \A j \in 1..((Size + 1) - 1) : Block(ops, b[j], b[j + 1], means.items[j])
      BY DEF Placed, Blocks
    <3> QED
      BY <2>1, <3>1
  <2> DEFINE x == b[k]
             y == b[k + 1]
  <2>3. x \in 1..(Len(ops) + 1) /\ y \in 1..(Len(ops) + 1)
    BY <1>2, <2>1
  <2>4. y = x + 1 \/ y = x + 2 \/ y = x + 3
    BY <2>2 DEF Block
  <2> HIDE DEF x, y
  <2>5. x \in 1..Len(ops) /\ x < y
    BY ONLY <1>1, <2>3, <2>4
  <2> QED
    BY <2>2, <2>3, <2>5 DEF x, y
<1> QED
  BY <1>1, <1>2, <1>3

\* The statement the matcher is at.
LEMMA WhereIs ==
  ASSUME pattern \in Patterns, Ordered(ops), NEW b, Placed(b),
         NEW k \in 1..(Size + 1), NEW cut, Found(k, b, cut)
  PROVE  LET item == means.items[k] IN
         \/ k = Size + 1 /\ n = b[k] /\ n > Len(ops) /\ p = cut[k]
         \/ /\ k \in 1..Size /\ n \in 1..Len(ops)
            /\ \/ n = b[k] /\ ops[n] = One(item.set) /\ p = cut[k]
               \/ /\ item.times = "+" /\ n = b[k] + 1 /\ b[k + 1] = n + 1 /\ ops[n] = Loop(item.set)
                  /\ p > cut[k] /\ Run(text, cut[k], p, item.set)
               \/ /\ item.times = "*" /\ n = b[k] + 1 /\ b[k + 1] = n + 2 /\ ops[n] = Back
                  /\ p = cut[k] + 1
               \/ /\ item.times = "*" /\ n = b[k] + 2 /\ b[k + 1] = n + 1 /\ ops[n] = Loop(item.set)
                  /\ p >= cut[k] /\ Run(text, cut[k], p, item.set)
<1> DEFINE item == means.items[k]
<1>1. Len(ops) \in Nat /\ Size \in Nat /\ b[Size + 1] = Len(ops) + 1
  BY BlocksAre
<1>2. CASE k = Size + 1
  <2>1. n = b[k] /\ p = cut[k]
    BY <1>1, <1>2 DEF Found
  <2> QED
    BY <1>1, <1>2, <2>1
<1>3. CASE k \in 1..Size
  <2> DEFINE x == b[k]
             y == b[k + 1]
  <2>1. x \in 1..Len(ops) /\ y \in 1..(Len(ops) + 1) /\ x < y /\ Block(ops, x, y, item)
    BY <1>3, BlocksAre
  <2>2. \/ n = x /\ p = cut[k]
        \/ y > x + 1 /\ Within(item, cut[k], x)
    BY DEF Found
  <2> HIDE DEF x, y, item
  <2>3. CASE n = x /\ p = cut[k]
    BY <1>3, <2>1, <2>3 DEF Block, item, x
  <2>4. CASE y > x + 1 /\ Within(item, cut[k], x)
    <3>1. \/ y = x + 2 /\ item.times = "+" /\ ops[x + 1] = Loop(item.set)
          \/ y = x + 3 /\ item.times = "*" /\ ops[x + 1] = Back /\ ops[x + 2] = Loop(item.set)
      BY <2>1, <2>4 DEF Block
    <3>2. CASE item.times = "+"
      <4>1. y = x + 2 /\ ops[x + 1] = Loop(item.set)
        BY <3>1, <3>2
      <4>2. n = x + 1 /\ p > cut[k] /\ Run(text, cut[k], p, item.set)
        BY <2>4, <3>2 DEF Within
      <4>3. n \in 1..Len(ops) /\ y = n + 1
        BY ONLY <1>1, <2>1, <4>1, <4>2
      <4> QED
        BY <1>3, <3>2, <4>1, <4>2, <4>3 DEF item, x, y
    <3>3. CASE item.times = "*"
      <4>1. y = x + 3 /\ ops[x + 1] = Back /\ ops[x + 2] = Loop(item.set)
        BY <3>1, <3>3
      <4>2. CASE n = x + 1 /\ p = cut[k] + 1
        <5>1. n \in 1..Len(ops) /\ y = n + 2
          BY ONLY <1>1, <2>1, <4>1, <4>2
        <5> QED
          BY <1>3, <3>3, <4>1, <4>2, <5>1 DEF item, x, y
      <4>3. CASE n = x + 2 /\ p >= cut[k] /\ Run(text, cut[k], p, item.set)
        <5>1. n \in 1..Len(ops) /\ y = n + 1
          BY ONLY <1>1, <2>1, <4>1, <4>3
        <5> QED
          BY <1>3, <3>3, <4>1, <4>3, <5>1 DEF item, x, y
      <4> QED
        BY <2>4, <3>3, <4>2, <4>3 DEF Within
    <3> QED
      BY <3>1, <3>2, <3>3
  <2> QED
    BY <2>2, <2>3, <2>4
<1> QED
  BY <1>1, <1>2, <1>3

LEMMA AnchorsAre ==
  ASSUME pattern \in Patterns
  PROVE  /\ means.from <=> AnchoredStart
         /\ means.to => AnchoredEnd
<1>1. re \in Seq(Chars) /\ Len(re) \in Nat
  BY CharsAre
<1>2. RE(1) = IF re # <<>> THEN re[1] ELSE "nul"
  BY <1>1 DEF RE
<1> QED
  BY <1>2, MeansAre DEF Says, AnchoredStart, AnchoredEnd

\* What an item of a direct pattern takes.
LEMMA DirectTakes ==
  ASSUME pattern \in Patterns, text \in Seq(Chars), Direct(means), NEW c \in Cuts(means, text),
         Follows(means, text, c), NEW k \in 1..Size
  PROVE  /\ c[k] \in 1..Len(text) /\ c[k + 1] \in 1..(Len(text) + 1) /\ c[k + 1] > c[k]
         /\ \A i \in c[k]..(c[k + 1] - 1) : text[i] \in means.items[k].set
         /\ text[c[k]] \in means.items[k].set
         /\ means.items[k].times \in {"1", "+"}
         /\ means.items[k].times = "1" => c[k + 1] = c[k] + 1
<1>1. Size \in Nat /\ DOMAIN means.items = 1..Size /\ Len(text) \in Nat
  BY PlacesAre
<1> DEFINE item == means.items[k]
           x == c[k]
           y == c[k + 1]
<1>2. x \in 1..(Len(text) + 1) /\ y \in 1..(Len(text) + 1)
  BY <1>1 DEF Cuts, Size
<1>3. y \in Ends(text, item, x) /\ item.times \in {"1", "+"}
  BY <1>1 DEF Follows, Direct
<1> HIDE DEF item, x, y
<1>4. \A i \in x..(y - 1) : text[i] \in item.set
  BY <1>3 DEF Ends
<1>5. y > x /\ (item.times = "1" => y = x + 1)
  BY <1>2, <1>3 DEF Ends
<1>6. x \in 1..Len(text) /\ x \in x..(y - 1)
  BY ONLY <1>1, <1>2, <1>5
<1> QED
  BY <1>2, <1>3, <1>4, <1>5, <1>6 DEF item, x, y

\* A try that must fail may be given up.
LEMMA MissKeeps ==
  ASSUME ItemsInv, MatcherInv, pc = "run", Miss,
         ASSUME Direct(means), NEW c \in Cuts(means, text), Follows(means, text, c), c[1] = start PROVE FALSE
  PROVE  ItemsInv'
<1>1. start \in Nat /\ Len(text) \in Nat /\ pattern \in Patterns
  BY DEF MatcherInv, Standing, ItemsInv
<1>2. ASSUME Direct(means), NEW c \in Cuts(means, text), Follows(means, text, c) PROVE c[1] >= start + 1
  <2>1. c[1] >= start
    BY <1>2 DEF ItemsInv, NoneBefore
  <2>2. c[1] \in Int
    BY PlacesAre, <1>1 DEF Cuts, Size
  <2>3. c[1] # start
    BY <1>2
  <2> QED
    BY ONLY <1>1, <2>1, <2>2, <2>3
<1>3. pattern' = pattern /\ text' = text /\ ops' = ops /\ means' = means /\ Direct(means)' = Direct(means)
      /\ AnchoredStart' = AnchoredStart
  BY DEF Miss, Answer, means, Direct, AnchoredEnd, AnchoredStart, RE, re
<1>4. CASE AnchoredStart
  <2>1. pc' = "no" /\ start' = start
    BY <1>4 DEF Miss, Answer
  <2>2. ~(Direct(means) /\ Matches(means, text))
    <3> SUFFICES ASSUME Direct(means), NEW c \in Cuts(means, text), Follows(means, text, c) PROVE FALSE
      BY DEF Matches
    <3>1. c[1] = 1
      BY <1>1, <1>4, AnchorsAre DEF Follows
    <3>2. c[1] >= start + 1
      BY <1>2
    <3>3. start = 1
      BY <1>4 DEF ItemsInv
    <3> QED
      BY <3>1, <3>2, <3>3
  <2>3. AcceptedMatches' /\ DirectIsComplete'
    BY <1>3, <2>1, <2>2 DEF AcceptedMatches, DirectIsComplete
  <2> QED
    BY <1>1, <1>3, <2>1, <2>3 DEF ItemsInv
<1>5. CASE ~AnchoredStart
  <2>1. pc' = "try" /\ start' = start + 1
    BY <1>5 DEF Miss
  <2>2. NoneBefore'
    BY <1>2, <1>3, <2>1 DEF NoneBefore
  <2>3. AcceptedMatches' /\ DirectIsComplete'
    BY <2>1 DEF AcceptedMatches, DirectIsComplete
  <2>4. \E b \in [1..(Size + 1) -> 1..(Len(ops) + 1)] : Blocks(ops, means, Size + 1, b)
    BY DEF ItemsInv
  <2>5. Size' = Size
    BY <1>3 DEF Size
  <2> QED
    BY <1>1, <1>3, <1>5, <2>1, <2>2, <2>3, <2>4, <2>5 DEF ItemsInv
<1> QED
  BY <1>4, <1>5

LEMMA TryKeeps ==
  ASSUME ItemsInv, MatcherInv, Try
  PROVE  ItemsInv'
<1>1. start \in 1..(Len(text) + 1) /\ Len(text) \in Nat /\ text \in Seq(Chars) /\ pattern \in Patterns
  BY DEF MatcherInv, Standing, ItemsInv, Try
<1>2. pattern' = pattern /\ text' = text /\ ops' = ops /\ means' = means /\ Direct(means)' = Direct(means)
      /\ AnchoredStart' = AnchoredStart /\ start' = start
  BY DEF Try, Answer, means, Direct, AnchoredEnd, AnchoredStart, RE, re
<1>3. CASE ~AnchoredStart /\ start > Len(text)
  <2>1. pc' = "no"
    BY <1>3 DEF Try, Answer
  <2>2. ~(Direct(means) /\ Matches(means, text))
    <3> SUFFICES ASSUME Direct(means), NEW c \in Cuts(means, text), Follows(means, text, c) PROVE FALSE
      BY DEF Matches
    <3>1. Size \in Nat /\ Size > 0
      BY <1>1, <1>3, AnchorsAre, PlacesAre DEF Direct, Size
    <3>2. 1 \in 1..Size
      BY <3>1
    <3>3. c[1] \in 1..Len(text)
      BY <1>1, <3>2, DirectTakes
    <3>4. c[1] >= start
      BY DEF ItemsInv, NoneBefore, Try
    <3> QED
      BY <1>1, <1>3, <3>3, <3>4
  <2>3. AcceptedMatches' /\ DirectIsComplete'
    BY <1>2, <2>1, <2>2 DEF AcceptedMatches, DirectIsComplete
  <2> QED
    BY <1>1, <1>2, <1>3, <2>1, <2>3 DEF ItemsInv
<1>4. CASE ~(~AnchoredStart /\ start > Len(text))
  <2>1. p' = start /\ n' = 1 /\ pc' = "run"
    BY <1>4 DEF Try
  <2>2. PICK b \in [1..(Size + 1) -> 1..(Len(ops) + 1)] : Blocks(ops, means, Size + 1, b)
    BY DEF ItemsInv, Try
  <2>3. Size \in Nat /\ 1 \in 1..(Size + 1)
    BY <1>1, PlacesAre
  <2>4. PICK cut \in Cuts(means, text) : cut[1] = start
    <3> DEFINE d == [k \in 1..(Size + 1) |-> start]
    <3>1. d \in Cuts(means, text) /\ d[1] = start
      BY <1>1, <2>3 DEF Cuts, Size
    <3> QED
      BY <3>1
  <2>5. Size' = Size /\ Cuts(means, text)' = Cuts(means, text)
    BY <1>2 DEF Size, Cuts
  <2>6. Found(1, b, cut)'
    <3>1. b[1] = 1
      BY <2>2 DEF Blocks
    <3> QED
      BY <1>2, <2>1, <2>4, <3>1 DEF Found
  <2>7. Forced(1, b, cut)'
    <3>1. b[1] = 1
      BY <2>2 DEF Blocks
    <3>2. \A j \in 1..1 : j = 1
      OBVIOUS
    <3> QED
      BY <1>2, <2>1, <2>4, <3>1, <3>2 DEF Forced
  <2>8. NoneBefore'
    BY <1>2 DEF NoneBefore, ItemsInv, Try
  <2>9. AcceptedMatches' /\ DirectIsComplete'
    BY <2>1 DEF AcceptedMatches, DirectIsComplete
  <2>10. \E k \in 1..(Size + 1), d \in Cuts(means, text) : Found(k, b, d)' /\ Forced(k, b, d)'
    BY <2>3, <2>4, <2>6, <2>7
  <2>11. AnchoredStart => start = 1
    BY DEF ItemsInv
  <2> QED
    BY <1>1, <1>2, <2>1, <2>2, <2>5, <2>8, <2>9, <2>10, <2>11 DEF ItemsInv
<1> QED
  BY <1>3, <1>4

\* The items found, the next of them perhaps among them, after a step.
LEMMA GoKeeps ==
  ASSUME ItemsInv, pc = "run", NEW where, NEW statement, Go(where, statement),
         NEW b, Placed(b), NEW k \in 1..(Size + 1), NEW cut \in Cuts(means, text),
         Found(k, b, cut)', Forced(k, b, cut)'
  PROVE  ItemsInv'
<1>1. pattern' = pattern /\ text' = text /\ ops' = ops /\ start' = start /\ pc' = "run" /\ pattern \in Patterns
      /\ (AnchoredStart => start = 1)
  BY DEF Go, ItemsInv
<1>2. means' = means /\ AnchoredStart' = AnchoredStart /\ Direct(means)' = Direct(means) /\ Size' = Size
  BY <1>1 DEF means, Size, Direct, AnchoredStart, AnchoredEnd, RE, re
<1>3. NoneBefore'
  BY <1>1, <1>2 DEF NoneBefore, ItemsInv
<1>4. AcceptedMatches' /\ DirectIsComplete'
  BY <1>1 DEF AcceptedMatches, DirectIsComplete
<1>5. Cuts(means, text)' = Cuts(means, text) /\ Blocks(ops, means, Size + 1, b)'
  BY <1>1, <1>2 DEF Cuts, Placed
<1>6. \E l \in 1..(Size + 1), d \in Cuts(means, text) : Found(l, b, d)' /\ Forced(l, b, d)'
  OBVIOUS
<1> QED
  BY <1>1, <1>2, <1>3, <1>4, <1>5, <1>6 DEF ItemsInv, Placed

\* Item k has been found up to where.
LEMMA NextItem ==
  ASSUME ItemsInv, MatcherInv, pc = "run", NEW b, Placed(b), NEW k \in 1..Size,
         NEW cut \in Cuts(means, text), Found(k, b, cut), Forced(k, b, cut),
         NEW where, where \in Ends(text, means.items[k], cut[k]), Go(where, b[k + 1]),
         Direct(means) => \A c \in Cuts(means, text) :
           Follows(means, text, c) /\ c[1] = start /\ (k < Size \/ means.to) => c[k + 1] = where
  PROVE  ItemsInv'
<1> DEFINE d == [cut EXCEPT ![k + 1] = where]
<1>1. Size \in Nat /\ pattern \in Patterns /\ Len(text) \in Nat
  BY PlacesAre DEF ItemsInv, MatcherInv, Standing
<1>2. k \in 1..(Size + 1) /\ k + 1 \in 1..(Size + 1)
  BY <1>1
<1>3. cut \in [1..(Size + 1) -> 1..(Len(text) + 1)]
  BY DEF Cuts, Size
<1>4. where \in 1..(Len(text) + 1)
  <2>1. where \in cut[k]..(Len(text) + 1) /\ cut[k] \in 1..(Len(text) + 1)
    BY <1>2, <1>3 DEF Ends
  <2> QED
    BY <1>1, <2>1
<1>5. d \in Cuts(means, text)
  BY <1>3, <1>4 DEF Cuts, Size
<1>6. d[k + 1] = where /\ \A j \in 1..k : d[j] = cut[j]
  BY <1>2, <1>3
<1>7. pattern' = pattern /\ text' = text /\ start' = start /\ p' = where /\ n' = b[k + 1]
  BY DEF Go
<1>8. means' = means /\ Direct(means)' = Direct(means) /\ Size' = Size
  BY <1>7 DEF means, Size, Direct, AnchoredEnd, re
<1> HIDE DEF d
<1>9. Found(k + 1, b, d)'
  <2>1. d[1] = start
    BY <1>6 DEF Found
  <2>2. ASSUME NEW j \in 1..k PROVE d[j + 1] \in Ends(text, means.items[j], d[j])
    <3>1. CASE j = k
      BY <1>6, <3>1
    <3>2. CASE j # k
      <4>1. j \in 1..(k - 1) /\ j + 1 \in 1..k
        BY <3>2
      <4>2. cut[j + 1] \in Ends(text, means.items[j], cut[j])
        BY <4>1 DEF Found
      <4> QED
        BY <1>6, <4>1, <4>2
    <3> QED
      BY <3>1, <3>2
  <2>3. k + 1 - 1 = k
    OBVIOUS
  <2>4. \A j \in 1..(k + 1 - 1) : d[j + 1] \in Ends(text, means.items[j], d[j])
    BY <2>2, <2>3
  <2> QED
    BY <1>6, <1>7, <1>8, <2>1, <2>4 DEF Found
<1>10. Forced(k + 1, b, d)'
  <2>1. ASSUME Direct(means), NEW c \in Cuts(means, text), Follows(means, text, c), c[1] = start,
               k + 1 <= Size \/ means.to
        PROVE  \A j \in 1..(k + 1) : c[j] = d[j]
    <3>1. \A j \in 1..k : c[j] = cut[j]
      BY <2>1 DEF Forced
    <3>2. k < Size \/ means.to
      BY <1>1, <2>1
    <3>3. c[k + 1] = where
      BY <2>1, <3>1, <3>2
    <3>4. \A j \in 1..(k + 1) : j = k + 1 \/ j \in 1..k
      OBVIOUS
    <3> QED
      BY <1>6, <3>1, <3>3, <3>4
  <2> QED
    BY <1>7, <1>8, <2>1 DEF Forced
<1> QED
  BY <1>2, <1>5, <1>9, <1>10, GoKeeps

\* The matcher goes on within item k.
LEMMA SameItem ==
  ASSUME ItemsInv, pc = "run", NEW b, Placed(b), NEW k \in 1..Size,
         NEW cut \in Cuts(means, text), Found(k, b, cut), Forced(k, b, cut),
         NEW where, NEW statement, Go(where, statement), b[k + 1] > b[k] + 1,
         Within(means.items[k], cut[k], b[k])',
         ASSUME Direct(means), NEW c \in Cuts(means, text), Follows(means, text, c), c[1] = start,
                \A j \in 1..k : c[j] = cut[j], k < Size \/ means.to
         PROVE  where <= c[k + 1]
  PROVE  ItemsInv'
<1>1. pattern' = pattern /\ text' = text /\ start' = start /\ p' = where /\ n' = statement
  BY DEF Go
<1>2. means' = means /\ Direct(means)' = Direct(means) /\ Size' = Size
  BY <1>1 DEF means, Size, Direct, AnchoredEnd, re
<1>3. k \in 1..(Size + 1) /\ k <= Size
  BY PlacesAre DEF ItemsInv
<1>4. Found(k, b, cut)'
  BY <1>1, <1>2, <1>3 DEF Found
<1>5. Forced(k, b, cut)'
  <2>1. ASSUME Direct(means), NEW c \in Cuts(means, text), Follows(means, text, c), c[1] = start
        PROVE  /\ \A j \in 1..k : c[j] = cut[j]
               /\ k < Size \/ means.to => where <= c[k + 1]
    BY <1>3, <2>1 DEF Forced
  <2> QED
    BY <1>1, <1>2, <2>1 DEF Forced
<1> QED
  BY <1>3, <1>4, <1>5, GoKeeps

LEMMA RunOneKeeps ==
  ASSUME ItemsInv, MatcherInv, NEW b, Placed(b), NEW k \in 1..(Size + 1),
         NEW cut \in Cuts(means, text), Found(k, b, cut), Forced(k, b, cut), RunOne
  PROVE  ItemsInv'
<1> DEFINE item == means.items[k]
<1>1. /\ pattern \in Patterns /\ Ordered(ops) /\ text \in Seq(Chars) /\ Len(text) \in Nat
      /\ pc = "run" /\ n \in Nat /\ p \in 1..(Len(text) + 1) /\ n <= Len(ops) /\ ops[n].do = "one"
      /\ start \in Nat
  BY DEF ItemsInv, MatcherInv, Standing, RunOne, Doing
<1>2. k \in 1..Size /\ n = b[k] /\ ops[n] = One(item.set) /\ p = cut[k]
  <2>1. \A s : Loop(s).do # "one" /\ Back.do # "one"
    BY DEF Loop, Back
  <2> QED
    BY <1>1, <2>1, WhereIs
<1>3. ops[n].set = item.set
  BY <1>2 DEF One
<1>4. Block(ops, b[k], b[k + 1], item) /\ Len(ops) \in Nat
  BY <1>1, <1>2, BlocksAre
<1>5. ASSUME Direct(means), NEW c \in Cuts(means, text), Follows(means, text, c), c[1] = start
      PROVE  /\ c[k] = p /\ Sees(item.set) /\ c[k + 1] \in Int /\ c[k + 1] > p
             /\ item.times \in {"1", "+"} /\ (item.set = Chars => item.times = "1")
             /\ item.times = "1" => c[k + 1] = p + 1
  <2>1. c[k] = cut[k]
    BY <1>2, <1>5 DEF Forced
  <2>2. /\ c[k] \in 1..Len(text) /\ c[k + 1] \in 1..(Len(text) + 1) /\ c[k + 1] > c[k]
        /\ text[c[k]] \in item.set /\ item.times \in {"1", "+"}
        /\ item.times = "1" => c[k + 1] = c[k] + 1
    BY <1>1, <1>2, <1>5, DirectTakes
  <2>3. item.times = "+" => item.set # Chars
    BY <1>1, <1>2, <1>5, PlacesAre DEF Direct
  <2> HIDE DEF item
  <2> QED
    BY <1>1, <1>2, <2>1, <2>2, <2>3 DEF Sees
<1>6. CASE Sees(item.set)
  <2>1. Go(p + 1, n + 1)
    BY <1>3, <1>6 DEF RunOne
  <2>2. PICK where : where = p + 1
    OBVIOUS
  <2>3. PICK statement : statement = n + 1
    OBVIOUS
  <2>4. where \in Int /\ statement \in Int /\ Go(where, statement)
    BY <1>1, <2>1, <2>2, <2>3
  <2>5. p <= Len(text) /\ text[p] \in item.set
    BY <1>6 DEF Sees
  <2>6. p \in 1..Len(text) /\ where \in p..(Len(text) + 1)
    BY <1>1, <2>2, <2>5
  <2>7. \A i \in p..(where - 1) : text[i] \in item.set
    <3>1. \A i \in p..(where - 1) : i = p
      BY <2>2, <2>6
    <3> QED
      BY <2>5, <3>1
  <2>8. CASE b[k + 1] = b[k] + 1
    <3>1. Go(where, b[k + 1])
      BY <1>2, <2>3, <2>4, <2>8
    <3>2. where \in Ends(text, item, cut[k])
      BY <1>1, <1>2, <2>2, <2>6, <2>7 DEF Ends
    <3>3. b[k + 1] # b[k] + 2 /\ b[k + 1] # b[k] + 3
      BY <1>1, <1>2, <2>8
    <3>4. item.times \in {"1", "?"} \/ item.set = Chars
      BY <1>4, <3>3 DEF Block
    <3>5. ASSUME Direct(means), NEW c \in Cuts(means, text), Follows(means, text, c), c[1] = start
          PROVE  c[k + 1] = where
      <4>1. item.times = "1"
        BY <1>5, <3>4, <3>5
      <4> QED
        BY <1>5, <2>2, <3>5, <4>1
    <3>6. k \in 1..Size /\ pc = "run" /\ where \in Ends(text, means.items[k], cut[k])
      BY <1>1, <1>2, <3>2
    <3>7. Direct(means) => \A c \in Cuts(means, text) :
             Follows(means, text, c) /\ c[1] = start /\ (k < Size \/ means.to) => c[k + 1] = where
      BY <3>5
    <3> HIDE DEF item
    <3> QED
      BY <3>1, <3>6, <3>7, NextItem
  <2>9. CASE b[k + 1] # b[k] + 1
    <3>1. \/ b[k + 1] = b[k] + 2 /\ item.times = "+"
          \/ b[k + 1] = b[k] + 3 /\ item.times = "*"
      BY <1>4, <2>9 DEF Block
    <3>2. b[k + 1] > b[k] + 1
      BY <1>1, <1>2, <3>1
    <3>3. p' = where /\ n' = b[k] + 1 /\ text' = text /\ means' = means
      BY <1>2, <2>3, <2>4 DEF Go, means
    <3>4. where > cut[k] /\ where = cut[k] + 1 /\ Run(text, cut[k], where, item.set)
      BY <1>1, <1>2, <2>2, <2>7 DEF Run
    <3> HIDE DEF item
    <3>5. Within(item, cut[k], b[k])'
      BY <3>1, <3>3, <3>4 DEF Within, item
    <3>6. ASSUME Direct(means), NEW c \in Cuts(means, text), Follows(means, text, c), c[1] = start
          PROVE  where <= c[k + 1]
      BY <1>1, <1>5, <2>2, <3>6
    <3> QED
      BY <1>1, <1>2, <2>4, <3>2, <3>3, <3>5, <3>6, SameItem DEF item
  <2> QED
    BY <2>8, <2>9
<1>7. CASE ~Sees(item.set)
  <2>1. Miss
    BY <1>3, <1>7 DEF RunOne
  <2>2. ASSUME Direct(means), NEW c \in Cuts(means, text), Follows(means, text, c), c[1] = start PROVE FALSE
    BY <1>5, <1>7, <2>2
  <2> QED
    BY <1>1, <2>1, <2>2, MissKeeps
<1> QED
  BY <1>6, <1>7

LEMMA RunBackKeeps ==
  ASSUME ItemsInv, MatcherInv, NEW b, Placed(b), NEW k \in 1..(Size + 1),
         NEW cut \in Cuts(means, text), Found(k, b, cut), Forced(k, b, cut), RunBack
  PROVE  ItemsInv'
<1> DEFINE item == means.items[k]
<1>1. /\ pattern \in Patterns /\ Ordered(ops) /\ Len(text) \in Nat
      /\ pc = "run" /\ n \in Nat /\ p \in 1..(Len(text) + 1) /\ n <= Len(ops) /\ ops[n].do = "back"
  BY DEF ItemsInv, MatcherInv, Standing, RunBack, Doing
<1>2. /\ k \in 1..Size /\ item.times = "*" /\ n = b[k] + 1 /\ b[k + 1] = n + 2
      /\ p = cut[k] + 1
  <2>1. \A s : Loop(s).do # "back" /\ One(s).do # "back"
    BY DEF Loop, One
  <2> QED
    BY <1>1, <2>1, WhereIs
<1>3. PICK where : where = p - 1
  OBVIOUS
<1>4. PICK statement : statement = n + 1
  OBVIOUS
<1>5. Go(where, statement)
  BY <1>3, <1>4 DEF RunBack
<1>6. cut[k] \in Int /\ b[k] \in Int
  <2>1. cut[k] \in 1..(Len(text) + 1)
    BY DEF Cuts, Size
  <2>2. b[k] \in 1..Len(ops) /\ Len(ops) \in Nat
    BY <1>1, <1>2, BlocksAre
  <2> QED
    BY <1>1, <2>1, <2>2
<1>7. p' = where /\ n' = b[k] + 2 /\ where >= cut[k] /\ where <= cut[k] /\ text' = text /\ means' = means
  <2>1. p' = where /\ n' = statement /\ text' = text /\ means' = means
    BY <1>5 DEF Go, means
  <2>2. where = cut[k] /\ statement = b[k] + 2
    BY ONLY <1>2, <1>3, <1>4, <1>6
  <2> QED
    BY <1>6, <2>1, <2>2
<1>8. Run(text, cut[k], where, item.set)
  BY <1>1, <1>2, <1>3, <1>6 DEF Run
<1>9. Within(item, cut[k], b[k])'
  BY <1>2, <1>7, <1>8 DEF Within
<1>10. ~Direct(means)
  BY <1>1, <1>2, PlacesAre DEF Direct
<1>11. b[k + 1] > b[k] + 1
  BY <1>1, <1>2, <1>6
<1> QED
  BY <1>1, <1>2, <1>5, <1>9, <1>10, <1>11, SameItem

LEMMA RunLoopKeeps ==
  ASSUME ItemsInv, MatcherInv, NEW b, Placed(b), NEW k \in 1..(Size + 1),
         NEW cut \in Cuts(means, text), Found(k, b, cut), Forced(k, b, cut), RunLoop
  PROVE  ItemsInv'
<1> DEFINE item == means.items[k]
<1>1. /\ pattern \in Patterns /\ Ordered(ops) /\ text \in Seq(Chars) /\ Len(text) \in Nat
      /\ pc = "run" /\ n \in Nat /\ p \in 1..(Len(text) + 1) /\ n <= Len(ops) /\ ops[n].do = "loop"
  BY DEF ItemsInv, MatcherInv, Standing, RunLoop, Doing
<1>2. /\ k \in 1..Size /\ ops[n] = Loop(item.set) /\ b[k + 1] = n + 1 /\ Run(text, cut[k], p, item.set)
      /\ \/ item.times = "+" /\ n = b[k] + 1 /\ p > cut[k]
         \/ item.times = "*" /\ n = b[k] + 2 /\ p >= cut[k]
  <2>1. \A s : One(s).do # "loop" /\ Back.do # "loop"
    BY DEF One, Back
  <2> QED
    BY <1>1, <2>1, WhereIs
<1>3. ops[n].set = item.set
  BY <1>2 DEF Loop
<1>4. /\ cut[k] \in 1..(Len(text) + 1) /\ b[k] \in Int /\ n # b[k] /\ b[k + 1] > b[k] + 1 /\ k <= Size
      /\ Size \in Nat
  <2>1. cut[k] \in 1..(Len(text) + 1)
    BY DEF Cuts, Size
  <2>2. b[k] \in 1..Len(ops) /\ Len(ops) \in Nat /\ Size \in Nat
    BY <1>1, <1>2, BlocksAre
  <2>3. b[k] \in Int /\ (n = b[k] + 1 \/ n = b[k] + 2) /\ b[k + 1] = n + 1
    BY <1>2, <2>2
  <2>4. n # b[k] /\ b[k + 1] > b[k] + 1
    BY ONLY <2>3
  <2> QED
    BY <1>2, <2>1, <2>2, <2>3, <2>4
<1>5. ASSUME Direct(means), NEW c \in Cuts(means, text), Follows(means, text, c), c[1] = start,
             k < Size \/ means.to
      PROVE  /\ p <= c[k + 1] /\ c[k + 1] \in 1..(Len(text) + 1)
             /\ Sees(item.set) => p + 1 <= c[k + 1]
             /\ ~Sees(item.set) => c[k + 1] = p
  <2>1. p <= c[k + 1] /\ c[k] = cut[k]
    BY <1>2, <1>4, <1>5 DEF Forced
  <2>2. /\ c[k + 1] \in 1..(Len(text) + 1)
        /\ \A i \in c[k]..(c[k + 1] - 1) : text[i] \in item.set
        /\ item.times \in {"1", "+"}
    BY <1>1, <1>2, <1>5, DirectTakes
  <2>3. ASSUME Sees(item.set), p = c[k + 1] PROVE FALSE
    <3>1. p <= Len(text) /\ text[p] \in item.set
      BY <2>3 DEF Sees
    <3>2. CASE k < Size
      <4>1. k + 1 \in 1..Size
        BY <1>2, <1>4, <3>2
      <4>2. text[c[k + 1]] \in means.items[k + 1].set
        BY <1>1, <1>5, <4>1, DirectTakes
      <4>3. item.set \cap means.items[k + 1].set = {}
        BY <1>1, <1>2, <1>5, <2>2, <3>2, PlacesAre DEF Direct, Size
      <4> QED
        BY <2>3, <3>1, <4>2, <4>3
    <3>3. CASE ~(k < Size)
      <4>1. k = Size
        BY <1>2, <1>4, <3>3
      <4>2. c[k + 1] = Len(text) + 1
        BY <1>5, <3>3, <4>1 DEF Follows, Size
      <4> QED
        BY <1>1, <2>3, <3>1, <4>2
    <3> QED
      BY <3>2, <3>3
  <2>4. ASSUME ~Sees(item.set), p < c[k + 1] PROVE FALSE
    <3>1. p \in c[k]..(c[k + 1] - 1) /\ p <= Len(text)
      BY <1>1, <1>2, <1>4, <2>1, <2>2, <2>4
    <3> QED
      BY <2>2, <2>4, <3>1 DEF Sees
  <2>5. c[k + 1] \in Int /\ p \in Int
    BY <1>1, <2>2
  <2> QED
    BY ONLY <2>1, <2>2, <2>3, <2>4, <2>5
<1>6. CASE Sees(item.set)
  <2>1. PICK where : where = p + 1
    OBVIOUS
  <2>2. PICK statement : statement = n
    OBVIOUS
  <2>3. Go(where, statement)
    BY <1>3, <1>6, <2>1, <2>2 DEF RunLoop
  <2>4. p' = where /\ n' = n /\ text' = text /\ means' = means
    BY <2>2, <2>3 DEF Go, means
  <2>5. text[p] \in item.set
    BY <1>6 DEF Sees
  <2>6. Run(text, cut[k], where, item.set) /\ where > cut[k]
    <3>1. \A i \in cut[k]..(where - 1) : i = p \/ i \in cut[k]..(p - 1)
      BY <1>1, <1>4, <2>1
    <3>2. where > cut[k]
      BY <1>1, <1>2, <1>4, <2>1
    <3> QED
      BY <1>2, <2>5, <3>1, <3>2 DEF Run
  <2>7. where >= cut[k]
    BY <1>1, <1>4, <2>1, <2>6
  <2> HIDE DEF item
  <2>8. Within(item, cut[k], b[k])'
    BY <1>2, <2>4, <2>6, <2>7 DEF Within, item
  <2>9. ASSUME Direct(means), NEW c \in Cuts(means, text), Follows(means, text, c), c[1] = start,
               k < Size \/ means.to
        PROVE  where <= c[k + 1]
    BY <1>5, <1>6, <2>1, <2>9
  <2> QED
    BY <1>1, <1>2, <1>4, <2>3, <2>4, <2>8, <2>9, SameItem DEF item
<1>7. CASE ~Sees(item.set)
  <2>1. PICK where : where = p
    OBVIOUS
  <2>2. Go(where, b[k + 1])
    BY <1>2, <1>3, <1>7, <2>1 DEF RunLoop
  <2>3. where \in Ends(text, item, cut[k])
    <3>1. where \in cut[k]..(Len(text) + 1)
      BY <1>1, <1>2, <1>4, <2>1
    <3> QED
      BY <1>2, <2>1, <3>1 DEF Ends, Run
  <2>4. ASSUME Direct(means), NEW c \in Cuts(means, text), Follows(means, text, c), c[1] = start,
               k < Size \/ means.to
        PROVE  c[k + 1] = where
    BY <1>5, <1>7, <2>1, <2>4
  <2>5. k \in 1..Size /\ pc = "run" /\ where \in Ends(text, means.items[k], cut[k])
    BY <1>1, <1>2, <2>3
  <2>6. Direct(means) => \A c \in Cuts(means, text) :
           Follows(means, text, c) /\ c[1] = start /\ (k < Size \/ means.to) => c[k + 1] = where
    BY <2>4
  <2> HIDE DEF item
  <2> QED
    BY <2>2, <2>5, <2>6, NextItem
<1> QED
  BY <1>6, <1>7

LEMMA FinishKeeps ==
  ASSUME ItemsInv, MatcherInv, NEW b, Placed(b), NEW k \in 1..(Size + 1),
         NEW cut \in Cuts(means, text), Found(k, b, cut), Forced(k, b, cut), Finish
  PROVE  ItemsInv'
<1>1. /\ pattern \in Patterns /\ Ordered(ops) /\ text \in Seq(Chars) /\ Len(text) \in Nat
      /\ pc = "run" /\ n \in Nat /\ p \in 1..(Len(text) + 1) /\ n > Len(ops)
  BY DEF ItemsInv, MatcherInv, Standing, Finish
<1>2. k = Size + 1 /\ p = cut[Size + 1]
  <2>1. ~(n \in 1..Len(ops))
    BY <1>1
  <2> QED
    BY <1>1, <2>1, WhereIs
<1>3. Size \in Nat /\ k - 1 = Size /\ DOMAIN means.items = 1..Size
  BY <1>1, <1>2, PlacesAre
<1>4. CASE AnchoredEnd /\ p <= Len(text)
  <2>1. Miss
    BY <1>4 DEF Finish
  <2>2. ASSUME Direct(means), NEW c \in Cuts(means, text), Follows(means, text, c), c[1] = start PROVE FALSE
    <3>1. means.to
      BY <1>4, <2>2 DEF Direct
    <3>2. c[Size + 1] = Len(text) + 1
      BY <2>2, <3>1 DEF Follows, Size
    <3>3. c[Size + 1] = cut[Size + 1]
      BY <1>2, <2>2, <3>1 DEF Forced
    <3> QED
      BY <1>1, <1>2, <1>4, <3>2, <3>3
  <2> QED
    BY <1>1, <2>1, <2>2, MissKeeps
<1>5. CASE ~(AnchoredEnd /\ p <= Len(text))
  <2>1. Answer("yes")
    BY <1>5 DEF Finish
  <2>2. Follows(means, text, cut)
    <3>1. means.from => cut[1] = 1
      BY <1>1, AnchorsAre DEF Found, ItemsInv
    <3>2. means.to => cut[Size + 1] = Len(text) + 1
      BY <1>1, <1>2, <1>5, AnchorsAre
    <3>3. \A j \in 1..Size : cut[j + 1] \in Ends(text, means.items[j], cut[j])
      BY <1>3 DEF Found
    <3> QED
      BY <1>3, <3>1, <3>2, <3>3 DEF Follows, Size
  <2>3. Matches(means, text)
    BY <2>2 DEF Matches
  <2>4. pc' = "yes" /\ text' = text /\ pattern' = pattern /\ start' = start
    BY <2>1 DEF Answer
  <2>5. means' = means /\ AnchoredStart' = AnchoredStart
    BY <2>4 DEF means, AnchoredStart, RE, re
  <2>6. AcceptedMatches' /\ DirectIsComplete'
    BY <2>3, <2>4, <2>5 DEF AcceptedMatches, DirectIsComplete
  <2> QED
    BY <2>4, <2>5, <2>6 DEF ItemsInv
<1> QED
  BY <1>4, <1>5

LEMMA InitItems == Init => ItemsInv
<1> SUFFICES ASSUME Init PROVE ItemsInv
  OBVIOUS
<1>1. pattern \in Patterns /\ start = 1 /\ pc = "emit" /\ ops = <<>> /\ at = IF AnchoredStart THEN 2 ELSE 1
  BY DEF Init
<1>2. Size \in Nat /\ 1 \in 1..(Size + 1)
  BY <1>1, PlacesAre
<1>3. at = means.at[1]
  BY <1>1, AnchorsAre, MeansAre DEF Says
<1>4. \E b \in [1..1 -> 1..(Len(ops) + 1)] : Blocks(ops, means, 1, b)
  <2> DEFINE b == [j \in 1..1 |-> 1]
  <2>1. b \in [1..1 -> 1..(Len(ops) + 1)] /\ b[1] = 1 /\ Len(ops) = 0
    BY <1>1
  <2>2. 1..(1 - 1) = {}
    OBVIOUS
  <2> HIDE DEF b
  <2>3. Blocks(ops, means, 1, b)
    BY <2>1, <2>2 DEF Blocks
  <2> QED
    BY <2>1, <2>3
<1>5. Emitted(1)
  BY <1>3, <1>4 DEF Emitted
<1>6. AcceptedMatches /\ DirectIsComplete
  BY <1>1 DEF AcceptedMatches, DirectIsComplete
<1> QED
  BY <1>1, <1>2, <1>5, <1>6 DEF ItemsInv

LEMMA CallKeeps ==
  ASSUME ItemsInv, MatcherInv, Call
  PROVE  ItemsInv'
<1>1. pattern \in Patterns /\ start = 1 /\ Ordered(ops)
  BY DEF ItemsInv, MatcherInv, Standing, Call
<1>2. PICK k \in 1..(Size + 1) : Emitted(k)
  BY DEF ItemsInv, Call
<1>3. k = Size + 1
  BY <1>1, <1>2, EmitEnds DEF Call
<1>4. \E b \in [1..(Size + 1) -> 1..(Len(ops) + 1)] : Blocks(ops, means, Size + 1, b)
  BY <1>2, <1>3 DEF Emitted
<1>5. pattern' = pattern /\ start' = start /\ ops' = ops /\ pc' = "try" /\ text' \in Seq(Chars)
  BY PatternAssumption DEF Call
<1>6. means' = means /\ Size' = Size /\ AnchoredStart' = AnchoredStart
  BY <1>5 DEF means, Size, AnchoredStart, RE, re
<1>7. NoneBefore'
  <2>1. \A c \in Cuts(means, text') : c[1] >= 1
    <3>1. Len(text') \in Nat /\ 1 \in 1..(Size + 1)
      BY <1>1, <1>5, PlacesAre
    <3> QED
      BY <3>1 DEF Cuts, Size
  <2> QED
    BY <1>1, <1>5, <1>6, <2>1 DEF NoneBefore, Cuts
<1>8. AcceptedMatches' /\ DirectIsComplete'
  BY <1>5 DEF AcceptedMatches, DirectIsComplete
<1> QED
  BY <1>1, <1>4, <1>5, <1>6, <1>7, <1>8 DEF ItemsInv

LEMMA NextItems == MatcherInv /\ ItemsInv /\ [Next]_vars => ItemsInv'
<1> SUFFICES ASSUME MatcherInv, ItemsInv, [Next]_vars PROVE ItemsInv'
  OBVIOUS
<1>1. pattern \in Patterns /\ Ordered(ops)
  BY DEF ItemsInv, MatcherInv
<1>2. CASE UNCHANGED vars
  <2>1. /\ pattern' = pattern /\ at' = at /\ ops' = ops /\ text' = text /\ start' = start
        /\ p' = p /\ n' = n /\ pc' = pc
    BY <1>2 DEF vars
  <2>2. means' = means /\ AnchoredStart' = AnchoredStart /\ Direct(means)' = Direct(means) /\ Size' = Size
        /\ Cuts(means, text)' = Cuts(means, text) /\ NoneBefore' = NoneBefore
        /\ AcceptedMatches' = AcceptedMatches /\ DirectIsComplete' = DirectIsComplete
    BY <2>1 DEF means, AnchoredStart, Direct, AnchoredEnd, RE, re, Size, Cuts, NoneBefore, AcceptedMatches, DirectIsComplete
  <2>3. \A k : Emitted(k)' = Emitted(k)
    BY <2>1, <2>2 DEF Emitted, RE, re
  <2>4. \A k, b, cut : Found(k, b, cut)' = Found(k, b, cut) /\ Forced(k, b, cut)' = Forced(k, b, cut)
    BY <2>1, <2>2 DEF Found, Forced, Within
  <2> QED
    BY <2>1, <2>2, <2>3, <2>4 DEF ItemsInv
<1>3. CASE EmitDot \/ EmitClass \/ SkipQuantifier \/ EmitChar
  <2>1. pc = "emit" /\ pattern' = pattern /\ pc' = pc /\ start' = start
    BY <1>3 DEF EmitDot, EmitClass, SkipQuantifier, EmitChar, Emit
  <2>2. PICK k \in 1..(Size + 1) : Emitted(k)
    BY <2>1 DEF ItemsInv
  <2>3. \E l \in 1..(Size + 1) : Emitted(l)'
    BY <1>1, <1>3, <2>2, EmitKeeps
  <2>4. Size' = Size /\ AnchoredStart' = AnchoredStart
    BY <2>1 DEF Size, means, AnchoredStart, RE, re
  <2>5. AcceptedMatches' /\ DirectIsComplete'
    BY <2>1 DEF AcceptedMatches, DirectIsComplete
  <2> QED
    BY <1>1, <2>1, <2>3, <2>4, <2>5 DEF ItemsInv
<1>4. CASE RunOne \/ RunBack \/ RunLoop \/ Finish
  <2>1. pc = "run"
    BY <1>4 DEF RunOne, RunBack, RunLoop, Finish, Doing
  <2>2. PICK b : Placed(b) /\ \E k \in 1..(Size + 1), cut \in Cuts(means, text) :
                                Found(k, b, cut) /\ Forced(k, b, cut)
    BY <2>1 DEF ItemsInv, Placed
  <2>3. PICK k \in 1..(Size + 1), cut \in Cuts(means, text) : Found(k, b, cut) /\ Forced(k, b, cut)
    BY <2>2
  <2> QED
    BY <1>4, <2>2, <2>3, RunOneKeeps, RunBackKeeps, RunLoopKeeps, FinishKeeps
<1> QED
  BY <1>2, <1>3, <1>4, CallKeeps, TryKeeps DEF Next

\* A value gets through only if the pattern matches it, for every pattern that
\* the guide gives a meaning and every value: classes, ranges, escapes,
\* quantifiers and anchors are emitted for what they mean, or for less.
THEOREM AcceptedIsMatched == Spec => []AcceptedMatches
<1>1. ItemsInv => AcceptedMatches
  BY DEF ItemsInv
<1>2. QED
  BY <1>1, InitMatcher, NextMatcher, InitItems, NextItems, PTL DEF Spec

\* And a value that the pattern matches is never refused, when no loop can
\* swallow what must come next: there greedy loops need no way back.
THEOREM DirectNeverMisses == Spec => []DirectIsComplete
<1>1. ItemsInv => DirectIsComplete
  BY DEF ItemsInv
<1>2. QED
  BY <1>1, InitMatcher, NextMatcher, InitItems, NextItems, PTL DEF Spec

=============================================================================
