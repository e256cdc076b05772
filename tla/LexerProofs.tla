---------------------------- MODULE LexerProofs ----------------------------
(***************************************************************************)
(* Proof that the tokens are the source, for every source, alphabet and    *)
(* set of keywords and wherever memory runs out.                           *)
(*                                                                         *)
(* The rules say with TokenFrom and TokenEnd where a token starts and      *)
(* ends, looking at the whole source at once.  The scanner turns loops,    *)
(* one character or two at a time.  LexInv relates the two in the middle   *)
(* of every loop: in white space and comments the next token is where it   *)
(* was all the time (Skipping), and within a token what has been read of   *)
(* it is as far as it goes a lexeme (Reading).  The last lexeme that fits  *)
(* is then the longest because the character it stopped at can be part of  *)
(* none (WordToken to SymbolToken).                                        *)
(*                                                                         *)
(* The rules are recursive functions; that each recursion is well defined  *)
(* is proved by induction over the sets of places it is defined on.        *)
(***************************************************************************)
EXTENDS LexerRules, SequenceTheorems, FiniteSetTheorems, WellFoundedInduction, TLAPS

-----------------------------------------------------------------------------
(* The invariant *)

\* Where the source goes on after the tokens ts.
Reached(ts) == IF ts = <<>> THEN 1 ELSE ts[Len(ts)].to.at

\* p is a place of the source s, as an editor shows it.
On(s, p) == p.at \in 1..(Len(s) + 1) /\ p = PlaceOf(s, p.at)

\* In white space and comments the next token is where it was all the time.
Skipping(s, goal, loop, h) ==
  /\ loop = "skip"  => TokenFrom(s, h) = goal
  /\ loop = "line"  => TokenFrom(s, FirstFrom(s, h, <<"nl">>)) = goal
  /\ loop = "block" => TokenFrom(s, FirstFrom(s, h, <<"*", "/">>) + 2) = goal

\* What a token that starts at i has shown of itself up to j.
Reading(s, loop, i, j) ==
  /\ loop = "word"   => IsWord(s, i, j)
  /\ loop = "digits" => IsInt(s, i, j) \/ (j = i /\ i < Len(s) /\ s[i] = "-" /\ s[i + 1] \in Digit)
  /\ loop = "fraction" => \E k \in (i + 1)..j : /\ s[k] = "." /\ IsInt(s, i, k - 1)
                                                /\ k < Len(s) /\ s[k + 1] \in Digit
                                                /\ \A m \in (k + 1)..j : s[m] \in Digit
  /\ loop = "string" => /\ s[i] = Quote
                        /\ \A k \in (i + 1)..j : s[k] = Quote => Escaper(s, k - 1)
                        /\ j < Len(s) => ~Escaper(s, j)
  /\ loop = "symbol" => /\ j = i /\ s[i] \notin Alpha \cup Digit \cup Space \cup {Quote}
                        /\ s[i] = "-" /\ i < Len(s) => s[i + 1] \notin Digit

Tokenizing == {"word", "digits", "fraction", "string", "symbol"}

TokensOK ==
  \A k \in DOMAIN tokens :
    /\ InPlace(k) /\ Means(tokens[k])
    /\ (tokens[k].type = "EOF") = (k = Len(tokens) /\ pc = "done")

LexInv ==
  /\ source \in Sources /\ tokens \in Seq(Range(tokens))
  /\ pc \in {"skip", "line", "block", "done", "failed"} \cup Tokenizing
  /\ keywords \subseteq Keyword /\ (~oom => keywords = Keyword) /\ oom \in BOOLEAN
  /\ On(source, here)
  /\ Skipping(source, TokenFrom(source, Reached(tokens)), pc, here.at)
  /\ pc \in Tokenizing =>
       /\ On(source, start) /\ start.at < here.at /\ start.at = TokenFrom(source, Reached(tokens))
       /\ Reading(source, pc, start.at, here.at - 1)
  /\ TokensOK
  /\ pc = "done" => tokens # <<>>

-----------------------------------------------------------------------------
(* Induction over the numbers, said of sets *)

LEMMA NatMin ==
  ASSUME NEW T \in SUBSET Nat, T # {}
  PROVE  \E m \in T : \A k \in T : m <= k
<1> DEFINE R == OpToRel(<, Nat)
<1>1. IsWellFoundedOn(R, Nat)
  BY NatLessThanWellFounded
<1>2. \A x, y \in Nat : x < y => <<x, y>> \in R
  BY DEF OpToRel
<1> HIDE DEF R
<1>3. PICK m \in T : \A k \in T : ~(<<k, m>> \in R)
  BY <1>1, WFMin
<1>4. \A k \in T : ~(k < m)
  BY <1>2, <1>3
<1> QED
  BY <1>4

LEMMA SetInduction ==
  ASSUME NEW T, 0 \in T, \A n \in Nat : n \in T => n + 1 \in T
  PROVE  Nat \subseteq T
<1> SUFFICES ASSUME Nat \ T # {} PROVE FALSE
  OBVIOUS
<1>1. PICK m \in Nat \ T : \A k \in Nat \ T : m <= k
  BY NatMin
<1>2. m - 1 \in Nat /\ m - 1 \in T
  BY <1>1
<1> QED
  BY <1>1, <1>2

\* The least and the greatest of some places.
LEMMA LeastIs ==
  ASSUME NEW a \in Nat, NEW b \in Nat, NEW T \in SUBSET (a..b), T # {}
  PROVE  LET m == CHOOSE j \in T : \A k \in T : j <= k
         IN  m \in T /\ \A k \in T : m <= k
<1>1. \E j \in T : \A k \in T : j <= k
  <2>1. T \in SUBSET Nat
    OBVIOUS
  <2> QED
    BY <2>1, NatMin
<1> QED
  BY <1>1

LEMMA GreatestIs ==
  ASSUME NEW a \in Nat, NEW b \in Nat, NEW T \in SUBSET (a..b), T # {}
  PROVE  LET m == CHOOSE j \in T : \A k \in T : k <= j
         IN  m \in T /\ \A k \in T : k <= m
<1> DEFINE U == {b - j : j \in T}
<1>1. U \in SUBSET Nat /\ U # {}
  OBVIOUS
<1>2. PICK u \in U : \A v \in U : u <= v
  BY <1>1, NatMin
<1>3. PICK j \in T : u = b - j
  BY <1>2
<1>4. \A k \in T : k <= j
  <2> SUFFICES ASSUME NEW k \in T PROVE k <= j
    OBVIOUS
  <2>1. u <= b - k
    BY <1>2
  <2>2. b - j <= b - k /\ j \in a..b /\ k \in a..b
    BY <1>3, <2>1
  <2> QED
    BY ONLY <2>2, a \in Nat, b \in Nat
<1>5. \E l \in T : \A k \in T : k <= l
  BY <1>3, <1>4
<1> QED
  BY <1>5

-----------------------------------------------------------------------------
(* Sequences of whatever they hold *)

IsSeq(s) == s \in Seq(Range(s))

LEMMA SeqIs ==
  ASSUME NEW s, IsSeq(s)
  PROVE  Len(s) \in Nat /\ DOMAIN s = 1..Len(s)
BY DEF IsSeq

LEMMA InSeq ==
  ASSUME NEW S, NEW s \in Seq(S)
  PROVE  IsSeq(s)
<1>1. s = [k \in 1..Len(s) |-> s[k]] /\ DOMAIN s = 1..Len(s) /\ Len(s) \in Nat
  OBVIOUS
<1>2. \A k \in 1..Len(s) : s[k] \in Range(s)
  BY <1>1 DEF Range
<1> QED
  BY <1>1, <1>2 DEF IsSeq

LEMMA AppendIs ==
  ASSUME NEW s, IsSeq(s), NEW e
  PROVE  /\ IsSeq(Append(s, e))
         /\ Len(Append(s, e)) = Len(s) + 1
         /\ DOMAIN Append(s, e) = 1..(Len(s) + 1)
         /\ \A k \in 1..Len(s) : Append(s, e)[k] = s[k]
         /\ Append(s, e)[Len(s) + 1] = e
         /\ Append(s, e) # <<>>
<1> DEFINE S == Range(s) \cup {e}
<1>1. s \in Seq(S) /\ e \in S
  BY DEF IsSeq
<1> HIDE DEF S
<1>2. Append(s, e) \in Seq(S)
  BY <1>1
<1>3. IsSeq(Append(s, e))
  BY ONLY <1>2, InSeq
<1>4. /\ Len(Append(s, e)) = Len(s) + 1
      /\ DOMAIN Append(s, e) = 1..(Len(s) + 1)
      /\ \A k \in 1..Len(s) : Append(s, e)[k] = s[k]
      /\ Append(s, e)[Len(s) + 1] = e
  BY ONLY <1>1
<1>5. Append(s, e) # <<>>
  <2>1. Len(s) \in Nat
    BY ONLY <1>1
  <2>2. Len(<<>>) = 0
    OBVIOUS
  <2> QED
    BY ONLY <1>4, <2>1, <2>2
<1> QED
  BY ONLY <1>3, <1>4, <1>5

\* What is known of the source.
LEMMA SourceIs ==
  ASSUME NEW s \in Sources
  PROVE  IsSeq(s) /\ Len(s) \in Nat /\ DOMAIN s = 1..Len(s) /\ Len(s) + 2 < Width /\ Width \in Nat
BY LexerAssumption, SeqIs DEF IsSeq

LEMMA QuoteIs ==
  /\ Quote # "\\" /\ Quote # "-" /\ Quote # "." /\ Quote # "=" /\ Quote # "/" /\ Quote # "nul" /\ Quote # "*"
BY Zenon DEF Quote

-----------------------------------------------------------------------------
(* Places *)

LEMMA FirstPlace ==
  ASSUME NEW s
  PROVE  PlaceOf(s, 1) = Place(1, 1, 1)
<1>1. {j \in 1..(1 - 1) : s[j] = "nl"} = {}
  OBVIOUS
<1>2. Cardinality({}) = 0
  BY FS_EmptySet
<1> QED
  BY <1>1, <1>2 DEF PlaceOf

LEMMA PlaceIs ==
  ASSUME NEW s, NEW i, NEW breaks, breaks = {j \in 1..(i - 1) : s[j] = "nl"}
  PROVE  PlaceOf(s, i)
           = Place(i, Cardinality(breaks) + 1,
                   IF breaks = {} THEN i ELSE i - CHOOSE j \in breaks : \A k \in breaks : k <= j)
BY DEF PlaceOf

\* lexer_advance is what an editor shows.
LEMMA NextPlace ==
  ASSUME NEW s, NEW i \in Nat \ {0}, NEW n, n = i + 1
  PROVE  PlaceOf(s, n)
           = IF s[i] = "nl" THEN Place(n, PlaceOf(s, i).line + 1, 1)
             ELSE Place(n, PlaceOf(s, i).line, PlaceOf(s, i).col + 1)
<1> DEFINE old == {j \in 1..(i - 1) : s[j] = "nl"}
           new == {j \in 1..(n - 1) : s[j] = "nl"}
<1>1. n - 1 = i /\ \A j \in 1..i : j \in 1..(i - 1) \/ j = i
  OBVIOUS
<1>2. IsFiniteSet(old) /\ Cardinality(old) \in Nat
  <2>1. IsFiniteSet(1..(i - 1))
    BY FS_Interval
  <2>2. old \in SUBSET (1..(i - 1))
    OBVIOUS
  <2> HIDE DEF old
  <2>3. IsFiniteSet(old)
    BY <2>1, <2>2, FS_Subset
  <2> QED
    BY <2>3, FS_CardinalityType
<1>3. PlaceOf(s, i) = Place(i, Cardinality(old) + 1, IF old = {} THEN i ELSE i - CHOOSE j \in old : \A k \in old : k <= j)
  BY DEF PlaceOf
<1>4. PlaceOf(s, n) = Place(n, Cardinality(new) + 1,
                                IF new = {} THEN n ELSE n - CHOOSE j \in new : \A k \in new : k <= j)
  <2>1. new = {j \in 1..(n - 1) : s[j] = "nl"}
    OBVIOUS
  <2> HIDE DEF new
  <2> QED
    BY <2>1, PlaceIs
<1>5. CASE s[i] = "nl"
  <2>1. new = old \cup {i} /\ i \notin old
    BY <1>1, <1>5
  <2>2. Cardinality(new) = Cardinality(old) + 1
    BY <1>2, <2>1, FS_AddElement
  <2>3. new \in SUBSET (1..i) /\ new # {} /\ i \in new
    BY <2>1
  <2> DEFINE last == CHOOSE j \in new : \A k \in new : k <= j
  <2>4. last \in new /\ \A k \in new : k <= last
    <3>1. i \in Nat /\ 1 \in Nat
      OBVIOUS
    <3> HIDE DEF new
    <3> QED
      BY <2>3, <3>1, GreatestIs
  <2>5. last = i
    <3> HIDE DEF last, new
    <3> QED
      BY <2>3, <2>4
  <2>6. n - last = 1
    <3> HIDE DEF last
    <3> QED
      BY ONLY <2>5, i \in Nat, n = i + 1
  <2> HIDE DEF new, old, last
  <2>7. PlaceOf(s, n) = Place(n, Cardinality(old) + 1 + 1, 1)
    BY <1>4, <2>2, <2>3, <2>6 DEF last
  <2>8. PlaceOf(s, i).line = Cardinality(old) + 1
    BY <1>3 DEF Place
  <2> QED
    BY <1>5, <2>7, <2>8
<1>6. CASE s[i] # "nl"
  <2>1. new = old
    BY <1>1, <1>6
  <2> DEFINE last == CHOOSE j \in old : \A k \in old : k <= j
  <2>2. old # {} => last \in 1..(i - 1)
    <3>1. i \in Nat /\ 1 \in Nat /\ i - 1 \in Nat /\ old \in SUBSET (1..(i - 1))
      OBVIOUS
    <3> HIDE DEF old
    <3>2. old # {} => last \in old
      BY <3>1, GreatestIs
    <3> QED
      BY <3>1, <3>2
  <2>3. PlaceOf(s, n) = Place(n, Cardinality(old) + 1, IF old = {} THEN n ELSE n - last)
    BY <1>4, <2>1
  <2> HIDE DEF old, last
  <2>4. (IF old = {} THEN n ELSE n - last) = (IF old = {} THEN i ELSE i - last) + 1
    BY <2>2
  <2>5. PlaceOf(s, i).line = Cardinality(old) + 1 /\ PlaceOf(s, i).col = (IF old = {} THEN i ELSE i - last)
    BY <1>3 DEF Place, last
  <2> QED
    BY <1>6, <2>3, <2>4, <2>5
<1> QED
  BY <1>5, <1>6

LEMMA AfterIs ==
  ASSUME NEW p, source \in Sources, On(source, p)
  PROVE  /\ After(p) = PlaceOf(source, After(p).at) /\ On(source, After(p))
         /\ After(p).at = IF p.at <= Len(source) THEN p.at + 1 ELSE p.at
<1>1. Len(source) \in Nat /\ DOMAIN source = 1..Len(source)
  BY SourceIs
<1>2. p.at \in 1..(Len(source) + 1) /\ p = PlaceOf(source, p.at)
  BY DEF On
<1>3. CASE p.at > Len(source)
  <2>0. ~(p.at <= Len(source)) /\ CharAt(p.at) # "nl"
    BY <1>1, <1>2, <1>3 DEF CharAt
  <2>1. After(p) = p
    BY <1>3, <2>0 DEF After
  <2>2. ~(p.at <= Len(source))
    BY <1>1, <1>2, <1>3
  <2> QED
    BY <1>2, <2>1, <2>2 DEF On
<1>4. CASE ~(p.at > Len(source))
  <2>1. p.at <= Len(source) /\ CharAt(p.at) = source[p.at] /\ p.at \in Nat \ {0}
    BY <1>1, <1>2, <1>4 DEF CharAt
  <2>2. After(p) = IF source[p.at] = "nl" THEN Place(p.at + 1, p.line + 1, 1)
                   ELSE Place(p.at + 1, p.line, p.col + 1)
    BY <1>4, <2>1 DEF After
  <2>3. After(p) = PlaceOf(source, p.at + 1)
    BY <1>2, <2>1, <2>2, NextPlace
  <2>4. After(p).at = p.at + 1
    BY <2>2 DEF Place
  <2>5. p.at + 1 \in 1..(Len(source) + 1)
    BY <1>1, <1>2, <2>1
  <2> QED
    BY <2>1, <2>3, <2>4, <2>5 DEF On
<1> QED
  BY <1>3, <1>4

-----------------------------------------------------------------------------
(* Characters and what is found of them *)

LEMMA Classes ==
  /\ \A c \in Alpha : c \notin Digit /\ c \notin Space /\ c \notin Single /\ c \notin Marks
  /\ \A c \in Digit : c \notin Alpha /\ c \notin Space /\ c \notin Single /\ c \notin Marks
  /\ \A c \in Space : c \notin Alpha /\ c \notin Digit /\ c \notin Single /\ c \notin Marks
  /\ \A c \in Single : c \notin Alpha /\ c \notin Digit /\ c \notin Space /\ c \notin Marks
  /\ \A c \in Marks : c \notin Alpha /\ c \notin Digit /\ c \notin Space /\ c \notin Single
BY LexerAssumption

LEMMA HasOne ==
  ASSUME NEW s, Len(s) \in Nat, NEW i \in Nat, NEW a
  PROVE  Has(s, i, <<a>>) <=> i <= Len(s) /\ s[i] = a
<1> DEFINE w == <<a>>
<1>1. Len(w) = 1 /\ DOMAIN w = {1} /\ w[1] = a
  OBVIOUS
<1> HIDE DEF w
<1>2. Has(s, i, w) <=> i <= Len(s) /\ s[i] = a
  <2>1. i + Len(w) - 1 = i /\ i + 1 - 1 = i
    BY <1>1
  <2> QED
    BY <1>1, <2>1 DEF Has
<1> QED
  BY <1>2 DEF w

LEMMA HasTwo ==
  ASSUME NEW s, Len(s) \in Nat, NEW i \in Nat, NEW a, NEW b
  PROVE  Has(s, i, <<a, b>>) <=> i + 1 <= Len(s) /\ s[i] = a /\ s[i + 1] = b
<1> DEFINE w == <<a, b>>
<1>1. Len(w) = 2 /\ DOMAIN w = {1, 2} /\ w[1] = a /\ w[2] = b
  OBVIOUS
<1> HIDE DEF w
<1>2. Has(s, i, w) <=> i + 1 <= Len(s) /\ s[i] = a /\ s[i + 1] = b
  <2>1. i + Len(w) - 1 = i + 1 /\ i + 1 - 1 = i /\ i + 2 - 1 = i + 1
    BY <1>1
  <2> QED
    BY <1>1, <2>1 DEF Has
<1> QED
  BY <1>2 DEF w

\* How the first w is found character by character.
LEMMA FirstIs ==
  ASSUME NEW s, Len(s) \in Nat, NEW h \in Nat, NEW w
  PROVE  /\ h > Len(s) => FirstFrom(s, h, w) = Len(s) + 1
         /\ h <= Len(s) /\ Has(s, h, w) => FirstFrom(s, h, w) = h
         /\ h <= Len(s) /\ ~Has(s, h, w) => FirstFrom(s, h, w) = FirstFrom(s, h + 1, w)
         /\ FirstFrom(s, h, w) \in Nat
         /\ FirstFrom(s, h, w) = Len(s) + 1 \/ (FirstFrom(s, h, w) \in h..Len(s) /\ Has(s, FirstFrom(s, h, w), w))
<1> DEFINE found(i) == {j \in i..Len(s) : Has(s, j, w)}
           first(i) == CHOOSE j \in found(i) : \A k \in found(i) : j <= k
<1>1. \A i : FirstFrom(s, i, w) = IF found(i) = {} THEN Len(s) + 1 ELSE first(i)
  BY DEF FirstFrom
<1>2. found(h) # {} => first(h) \in found(h) /\ \A k \in found(h) : first(h) <= k
  <2>1. found(h) \in SUBSET (h..Len(s))
    OBVIOUS
  <2> HIDE DEF found
  <2> QED
    BY <2>1, LeastIs
<1>3. h > Len(s) => found(h) = {}
  OBVIOUS
<1>4. h <= Len(s) /\ Has(s, h, w) => h \in found(h)
  OBVIOUS
<1>5. h <= Len(s) /\ ~Has(s, h, w) => found(h) = found(h + 1)
  OBVIOUS
<1>6. \A j \in found(h) : j \in h..Len(s) /\ Has(s, j, w)
  OBVIOUS
<1> HIDE DEF found
<1>7. h <= Len(s) /\ ~Has(s, h, w) => FirstFrom(s, h, w) = FirstFrom(s, h + 1, w)
  BY <1>1, <1>5
<1> HIDE DEF first
<1>8. h <= Len(s) /\ Has(s, h, w) => FirstFrom(s, h, w) = h
  BY <1>1, <1>2, <1>4, <1>6
<1>9. FirstFrom(s, h, w) = Len(s) + 1 \/ (FirstFrom(s, h, w) \in h..Len(s) /\ Has(s, FirstFrom(s, h, w), w))
  BY <1>1, <1>2, <1>6
<1> QED
  BY <1>1, <1>3, <1>7, <1>8, <1>9

-----------------------------------------------------------------------------
(* White space and comments *)

LEMMA BeyondIs ==
  ASSUME NEW s, Len(s) \in Nat, NEW i \in Nat \ {0}, Blank(s, i)
  PROVE  Beyond(s, i) \in (i + 1)..(Len(s) + 3)
<1>1. i <= Len(s) /\ (s[i] \in Space \/ Has(s, i, <<"/", "/">>) \/ Has(s, i, <<"/", "*">>))
  BY DEF Blank
<1>2. CASE s[i] \in Space
  BY <1>1, <1>2 DEF Beyond
<1>3. CASE s[i] \notin Space /\ Has(s, i, <<"/", "/">>)
  <2>1. Beyond(s, i) = FirstFrom(s, i + 2, <<"nl">>)
    BY <1>3 DEF Beyond
  <2>2. i + 1 <= Len(s)
    BY <1>3, HasTwo
  <2> QED
    BY <2>1, <2>2, FirstIs
<1>4. CASE s[i] \notin Space /\ ~Has(s, i, <<"/", "/">>)
  <2>1. Beyond(s, i) = FirstFrom(s, i + 2, <<"*", "/">>) + 2
    BY <1>4 DEF Beyond
  <2>2. i + 1 <= Len(s)
    BY <1>1, <1>4, HasTwo
  <2> QED
    BY <2>1, <2>2, FirstIs
<1> QED
  BY <1>2, <1>3, <1>4

FromStep(s, from, k) ==
  IF Blank(s, k) THEN from[Beyond(s, k)] ELSE IF k <= Len(s) THEN k ELSE Len(s) + 1

\* The recursion of TokenFrom is well defined: it goes forward.
LEMMA FromExists ==
  ASSUME NEW s, Len(s) \in Nat
  PROVE  \E from : from = [k \in 1..(Len(s) + 3) |-> FromStep(s, from, k)]
<1> DEFINE n == Len(s) + 3
           T == {m \in Nat : \E from : \A k \in 1..n : k > n - m => from[k] = FromStep(s, from, k)}
<1>1. 0 \in T
  BY DEF T
<1>2. ASSUME NEW m \in Nat, m \in T PROVE m + 1 \in T
  <2>1. PICK from : \A k \in 1..n : k > n - m => from[k] = FromStep(s, from, k)
    BY <1>2
  <2> DEFINE at == n - m
             more == [k \in 1..n |-> IF k = at THEN FromStep(s, from, at) ELSE from[k]]
  <2>2. \A k \in 1..n : k > at => more[k] = from[k]
    OBVIOUS
  <2>3. at \in 1..n => more[at] = FromStep(s, from, at)
    OBVIOUS
  <2>4. at \in Int /\ n \in Nat
    OBVIOUS
  <2> HIDE DEF more
  <2>5. \A k \in 1..n : k >= at => FromStep(s, more, k) = FromStep(s, from, k)
    <3> SUFFICES ASSUME NEW k \in 1..n, k >= at PROVE FromStep(s, more, k) = FromStep(s, from, k)
      OBVIOUS
    <3>1. CASE Blank(s, k)
      <4>1. Beyond(s, k) \in (k + 1)..n
        BY <3>1, BeyondIs
      <4>2. Beyond(s, k) \in 1..n /\ Beyond(s, k) > at
        <5> HIDE DEF at, n
        <5> QED
          BY ONLY <2>4, <4>1, k \in 1..n, k >= at
      <4>3. more[Beyond(s, k)] = from[Beyond(s, k)]
        BY <2>2, <4>2
      <4> QED
        BY <3>1, <4>3 DEF FromStep
    <3>2. CASE ~Blank(s, k)
      BY <3>2 DEF FromStep
    <3> QED
      BY <3>1, <3>2
  <2>6. \A k \in 1..n : k > n - (m + 1) => more[k] = FromStep(s, more, k)
    <3> SUFFICES ASSUME NEW k \in 1..n, k > n - (m + 1) PROVE more[k] = FromStep(s, more, k)
      OBVIOUS
    <3>1. k = at \/ k > at
      BY <2>4
    <3>2. FromStep(s, more, k) = FromStep(s, from, k)
      <4>1. k >= at
        BY <2>4, <3>1
      <4> HIDE DEF at, n
      <4> QED
        BY <2>5, <4>1
    <3>3. more[k] = FromStep(s, from, k)
      <4> HIDE DEF at
      <4>1. k > at => k > n - m
        BY DEF at
      <4> QED
        BY <2>1, <2>2, <2>3, <3>1, <4>1
    <3> QED
      BY <3>2, <3>3
  <2> QED
    BY <2>6
<1> HIDE DEF T
<1>3. n \in T
  BY <1>1, <1>2, SetInduction
<1>4. PICK from : \A k \in 1..n : k > n - n => from[k] = FromStep(s, from, k)
  BY <1>3 DEF T
<1> DEFINE all == [k \in 1..n |-> from[k]]
<1>5. \A k \in 1..n : all[k] = from[k]
  OBVIOUS
<1>6. \A k \in 1..n : all[k] = FromStep(s, all, k)
  <2> SUFFICES ASSUME NEW k \in 1..n PROVE all[k] = FromStep(s, all, k)
    OBVIOUS
  <2>1. from[k] = FromStep(s, from, k)
    BY <1>4
  <2>2. Blank(s, k) => Beyond(s, k) \in 1..n
    BY BeyondIs
  <2> HIDE DEF all, n
  <2>3. FromStep(s, all, k) = FromStep(s, from, k)
    BY <1>5, <2>2 DEF FromStep
  <2> QED
    BY <1>5, <2>1, <2>3
<1>7. all = [k \in 1..n |-> all[k]]
  OBVIOUS
<1>8. all = [k \in 1..n |-> FromStep(s, all, k)]
  <2> HIDE DEF all, n
  <2> QED
    BY <1>6, <1>7
<1> HIDE DEF all
<1> QED
  BY <1>8

LEMMA TokenFromIs ==
  ASSUME NEW s, Len(s) \in Nat, NEW i \in 1..(Len(s) + 3)
  PROVE  /\ Blank(s, i) => TokenFrom(s, i) = TokenFrom(s, Beyond(s, i))
         /\ ~Blank(s, i) => TokenFrom(s, i) = IF i <= Len(s) THEN i ELSE Len(s) + 1
<1> DEFINE fr == CHOOSE from : from = [k \in 1..(Len(s) + 3) |-> FromStep(s, from, k)]
<1>1. \A k : TokenFrom(s, k) = fr[k]
  BY DEF TokenFrom, FromStep
<1>2. fr = [k \in 1..(Len(s) + 3) |-> FromStep(s, fr, k)]
  BY FromExists
<1> HIDE DEF fr
<1>3. fr[i] = FromStep(s, fr, i)
  BY <1>2
<1> QED
  BY <1>1, <1>3 DEF FromStep

-----------------------------------------------------------------------------
(* Strings *)

\* Every second backslash of a run stands for the character after it.
LEMMA EscaperIs ==
  ASSUME NEW s, NEW i \in Nat \ {0}
  PROVE  Escaper(s, i) = (s[i] = "\\" /\ (i = 1 \/ ~Escaper(s, i - 1)))
<1> DEFINE other(k) == {j \in 1..k : s[j] # "\\"}
           last(k) == CHOOSE j \in other(k) : \A l \in other(k) : l <= j
           run(k) == IF other(k) = {} THEN k ELSE k - last(k)
<1>1. \A k : Escaper(s, k) = (s[k] = "\\" /\ run(k) % 2 = 1)
  BY DEF Escaper
<1>2. \A k \in Nat : other(k) # {} => last(k) \in other(k) /\ \A l \in other(k) : l <= last(k)
  <2> SUFFICES ASSUME NEW k \in Nat, other(k) # {}
               PROVE  last(k) \in other(k) /\ \A l \in other(k) : l <= last(k)
    OBVIOUS
  <2>1. other(k) \in SUBSET (1..k) /\ 1 \in Nat
    OBVIOUS
  <2> HIDE DEF other
  <2> QED
    BY <2>1, GreatestIs
<1>3. \A k : \A l \in other(k) : l \in 1..k /\ s[l] # "\\"
  OBVIOUS
<1>4. CASE s[i] # "\\"
  <2> HIDE DEF run
  <2> QED
    BY <1>1, <1>4
<1>5. CASE s[i] = "\\"
  <2>1. other(i) = other(i - 1)
    <3>1. \A j \in 1..i : j \in 1..(i - 1) \/ j = i
      OBVIOUS
    <3> QED
      BY <1>5, <3>1
  <2>2. i - 1 \in Nat /\ last(i) = last(i - 1)
    <3> HIDE DEF other
    <3> QED
      BY <2>1
  <2>3. \A k \in Nat : run(k) \in 0..k
    <3> HIDE DEF other, last
    <3> QED
      BY <1>2, <1>3
  <2>4. run(i) = run(i - 1) + 1
    <3> HIDE DEF other, last
    <3> QED
      BY <1>2, <1>3, <2>1, <2>2
  <2>5. CASE i = 1
    <3>1. run(0) = 0
      <4> HIDE DEF run
      <4> QED
        BY <2>3
    <3>2. run(i) % 2 = 1
      <4> HIDE DEF run
      <4> QED
        BY <2>4, <2>5, <3>1
    <3> HIDE DEF run
    <3> QED
      BY <1>1, <1>5, <2>5, <3>2
  <2>6. CASE i # 1 /\ s[i - 1] # "\\"
    <3>1. i - 1 \in other(i - 1)
      BY <2>6
    <3>2. last(i - 1) = i - 1
      <4> HIDE DEF other, last
      <4> QED
        BY <1>2, <1>3, <2>2, <3>1
    <3>3. run(i - 1) = 0
      <4> HIDE DEF other, last
      <4> QED
        BY <3>1, <3>2
    <3> HIDE DEF run
    <3>4. run(i) % 2 = 1
      BY <2>4, <3>3
    <3> QED
      BY <1>1, <1>5, <2>6, <3>4
  <2>7. CASE i # 1 /\ s[i - 1] = "\\"
    <3> DEFINE r == run(i - 1)
    <3>1. r \in Nat /\ run(i) = r + 1
      <4> HIDE DEF run
      <4> QED
        BY <2>2, <2>3, <2>4
    <3>2. Escaper(s, i) = ((r + 1) % 2 = 1) /\ Escaper(s, i - 1) = (r % 2 = 1)
      <4> HIDE DEF run
      <4> QED
        BY <1>1, <1>5, <2>7, <3>1
    <3> HIDE DEF r
    <3>3. ((r + 1) % 2 = 1) = ~(r % 2 = 1)
      BY ONLY <3>1
    <3> QED
      BY <1>5, <2>7, <3>2, <3>3
  <2> QED
    BY <2>5, <2>6, <2>7
<1> QED
  BY <1>4, <1>5

ContentsStep(s, i, upto, k) ==
  IF k = i THEN <<>>
  ELSE IF Escaper(s, k) THEN upto[k - 1]
  ELSE Append(upto[k - 1], IF Escaper(s, k - 1) THEN Escaped(s[k]) ELSE s[k])

LEMMA ContentsExists ==
  ASSUME NEW s, NEW i \in Nat, NEW n \in Nat
  PROVE  \E upto : upto = [k \in i..n |-> ContentsStep(s, i, upto, k)]
<1> DEFINE T == {m \in Nat : \E upto : \A k \in i..n : k < i + m => upto[k] = ContentsStep(s, i, upto, k)}
<1>1. 0 \in T
  BY DEF T
<1>2. ASSUME NEW m \in Nat, m \in T PROVE m + 1 \in T
  <2>1. PICK upto : \A k \in i..n : k < i + m => upto[k] = ContentsStep(s, i, upto, k)
    BY <1>2
  <2> DEFINE at == i + m
             more == [k \in i..n |-> IF k = at THEN ContentsStep(s, i, upto, at) ELSE upto[k]]
  <2>2. \A k \in i..n : k < at => more[k] = upto[k]
    OBVIOUS
  <2>3. at \in i..n => more[at] = ContentsStep(s, i, upto, at)
    OBVIOUS
  <2>4. at \in Nat
    OBVIOUS
  <2> HIDE DEF more
  <2>5. \A k \in i..n : k <= at => ContentsStep(s, i, more, k) = ContentsStep(s, i, upto, k)
    <3> SUFFICES ASSUME NEW k \in i..n, k <= at PROVE ContentsStep(s, i, more, k) = ContentsStep(s, i, upto, k)
      OBVIOUS
    <3>1. k # i => k - 1 \in i..n /\ k - 1 < at
      <4> HIDE DEF at
      <4> QED
        BY <2>4
    <3>2. k # i => more[k - 1] = upto[k - 1]
      BY <2>2, <3>1
    <3> QED
      BY <3>2 DEF ContentsStep
  <2>6. \A k \in i..n : k < i + (m + 1) => more[k] = ContentsStep(s, i, more, k)
    <3> SUFFICES ASSUME NEW k \in i..n, k < i + (m + 1) PROVE more[k] = ContentsStep(s, i, more, k)
      OBVIOUS
    <3>1. k = at \/ k < at
      BY <2>4
    <3>2. k <= at
      BY <3>1
    <3>3. more[k] = ContentsStep(s, i, upto, k)
      <4> HIDE DEF at
      <4>1. k < at => k < i + m
        BY DEF at
      <4> QED
        BY <2>1, <2>2, <2>3, <3>1, <4>1
    <3> HIDE DEF at
    <3> QED
      BY <2>5, <3>2, <3>3
  <2> QED
    BY <2>6
<1> HIDE DEF T
<1>3. n + 1 \in T
  BY <1>1, <1>2, SetInduction
<1>4. PICK upto : \A k \in i..n : k < i + (n + 1) => upto[k] = ContentsStep(s, i, upto, k)
  BY <1>3 DEF T
<1> DEFINE all == [k \in i..n |-> upto[k]]
<1>5. \A k \in i..n : all[k] = upto[k]
  OBVIOUS
<1>6. \A k \in i..n : all[k] = ContentsStep(s, i, all, k)
  <2> SUFFICES ASSUME NEW k \in i..n PROVE all[k] = ContentsStep(s, i, all, k)
    OBVIOUS
  <2>1. upto[k] = ContentsStep(s, i, upto, k)
    BY <1>4
  <2>2. k # i => k - 1 \in i..n
    OBVIOUS
  <2> HIDE DEF all
  <2>3. ContentsStep(s, i, all, k) = ContentsStep(s, i, upto, k)
    BY <1>5, <2>2 DEF ContentsStep
  <2> QED
    BY <1>5, <2>1, <2>3
<1>7. all = [k \in i..n |-> all[k]]
  OBVIOUS
<1>8. all = [k \in i..n |-> ContentsStep(s, i, all, k)]
  <2> HIDE DEF all
  <2> QED
    BY <1>6, <1>7
<1> HIDE DEF all
<1> QED
  BY <1>8

UnescapeStep(raw, f, i) ==
  IF i > Len(raw) THEN <<>>
  ELSE IF raw[i] = "\\" /\ i < Len(raw) THEN <<Escaped(raw[i + 1])>> \o f[i + 2]
  ELSE <<raw[i]>> \o f[i + 1]

LEMMA UnescapeExists ==
  ASSUME NEW raw, Len(raw) \in Nat
  PROVE  \E f : f = [k \in 1..Len(raw) + 1 |-> UnescapeStep(raw, f, k)]
<1> DEFINE n == Len(raw) + 1
           T == {m \in Nat : \E f : \A k \in 1..n : k > n - m => f[k] = UnescapeStep(raw, f, k)}
<1>1. 0 \in T
  BY DEF T
<1>2. ASSUME NEW m \in Nat, m \in T PROVE m + 1 \in T
  <2>1. PICK f : \A k \in 1..n : k > n - m => f[k] = UnescapeStep(raw, f, k)
    BY <1>2
  <2> DEFINE at == n - m
             more == [k \in 1..n |-> IF k = at THEN UnescapeStep(raw, f, at) ELSE f[k]]
  <2>2. \A k \in 1..n : k > at => more[k] = f[k]
    OBVIOUS
  <2>3. at \in 1..n => more[at] = UnescapeStep(raw, f, at)
    OBVIOUS
  <2>4. at \in Int /\ n \in Nat
    OBVIOUS
  <2> HIDE DEF more
  <2>5. \A k \in 1..n : k >= at => UnescapeStep(raw, more, k) = UnescapeStep(raw, f, k)
    <3> SUFFICES ASSUME NEW k \in 1..n, k >= at PROVE UnescapeStep(raw, more, k) = UnescapeStep(raw, f, k)
      OBVIOUS
    <3>1. /\ k <= Len(raw) => k + 1 \in 1..n /\ k + 1 > at
          /\ k < Len(raw) => k + 2 \in 1..n /\ k + 2 > at
      <4>1. n = Len(raw) + 1
        OBVIOUS
      <4> HIDE DEF at, n
      <4> QED
        BY ONLY <2>4, <4>1, k \in 1..n, k >= at, Len(raw) \in Nat
    <3>2. /\ k <= Len(raw) => more[k + 1] = f[k + 1]
          /\ k < Len(raw) => more[k + 2] = f[k + 2]
      BY <2>2, <3>1
    <3>3. k \in Nat
      OBVIOUS
    <3> HIDE DEF at, n
    <3> QED
      BY <3>2, <3>3 DEF UnescapeStep
  <2>6. \A k \in 1..n : k > n - (m + 1) => more[k] = UnescapeStep(raw, more, k)
    <3> SUFFICES ASSUME NEW k \in 1..n, k > n - (m + 1) PROVE more[k] = UnescapeStep(raw, more, k)
      OBVIOUS
    <3>1. k = at \/ k > at
      BY <2>4
    <3>2. UnescapeStep(raw, more, k) = UnescapeStep(raw, f, k)
      <4>1. k >= at
        BY <2>4, <3>1
      <4> HIDE DEF at, n
      <4> QED
        BY <2>5, <4>1
    <3>3. more[k] = UnescapeStep(raw, f, k)
      <4> HIDE DEF at
      <4>1. k > at => k > n - m
        BY DEF at
      <4> QED
        BY <2>1, <2>2, <2>3, <3>1, <4>1
    <3> QED
      BY <3>2, <3>3
  <2> QED
    BY <2>6
<1> HIDE DEF T
<1>3. n \in T
  BY <1>1, <1>2, SetInduction
<1>4. PICK f : \A k \in 1..n : k > n - n => f[k] = UnescapeStep(raw, f, k)
  BY <1>3 DEF T
<1> DEFINE all == [k \in 1..n |-> f[k]]
<1>5. \A k \in 1..n : all[k] = f[k]
  OBVIOUS
<1>6. \A k \in 1..n : all[k] = UnescapeStep(raw, all, k)
  <2> SUFFICES ASSUME NEW k \in 1..n PROVE all[k] = UnescapeStep(raw, all, k)
    OBVIOUS
  <2>1. f[k] = UnescapeStep(raw, f, k)
    BY <1>4
  <2>2. /\ k <= Len(raw) => k + 1 \in 1..n
        /\ k < Len(raw) => k + 2 \in 1..n
        /\ k \in Nat
    OBVIOUS
  <2> HIDE DEF all, n
  <2>3. UnescapeStep(raw, all, k) = UnescapeStep(raw, f, k)
    BY <1>5, <2>2 DEF UnescapeStep
  <2> QED
    BY <1>5, <2>1, <2>3
<1>7. all = [k \in 1..n |-> all[k]]
  OBVIOUS
<1>8. all = [k \in 1..n |-> UnescapeStep(raw, all, k)]
  <2> HIDE DEF all, n
  <2> QED
    BY <1>6, <1>7
<1> HIDE DEF all
<1> QED
  BY <1>8

\* Characters of s and those that escapes make of them.
Made(s) == Range(s) \cup {"nl", "tab", "cr"}

LEMMA EscapedIs ==
  ASSUME NEW s, NEW c \in Range(s)
  PROVE  Escaped(c) \in Made(s)
<1>1. DOMAIN Escapes = {"n", "t", "r"} /\ Escapes["n"] = "nl" /\ Escapes["t"] = "tab" /\ Escapes["r"] = "cr"
  BY DEF Escapes
<1> QED
  BY <1>1 DEF Escaped, Made

\* The scanner's second pass over a string finds what its text means: where no
\* escape is open, what is read and what is to come make up the contents.
LEMMA SamePasses ==
  ASSUME NEW s, IsSeq(s), NEW i \in 1..Len(s), NEW j \in 1..Len(s), i + 1 < j,
         s[i] = Quote, ~Escaper(s, j - 1)
  PROVE  Unescape(SubSeq(s, i + 1, j - 1)) = Contents(s, i, j)
<1> DEFINE raw == SubSeq(s, i + 1, j - 1)
           L == Len(raw)
           S == Made(s)
           c == CHOOSE upto : upto = [k \in i..(j - 1) |-> ContentsStep(s, i, upto, k)]
           f == CHOOSE g : g = [k \in 1..L + 1 |-> UnescapeStep(raw, g, k)]
<1>0. Len(s) \in Nat /\ DOMAIN s = 1..Len(s) /\ i \in Nat /\ j \in Nat /\ i + 1 < j /\ j <= Len(s)
  BY SeqIs
<1>1. /\ \A k \in 1..Len(s) : s[k] \in S /\ Escaped(s[k]) \in S
      /\ <<>> \in Seq(S)
  <2>1. \A k \in 1..Len(s) : s[k] \in Range(s)
    BY <1>0 DEF Range
  <2> QED
    BY <2>1, EscapedIs DEF Made
<1>2. L \in Nat /\ L = j - i - 1 /\ \A k \in 1..L : raw[k] = s[i + k]
  <2>1. i + 1 \in Int /\ j - 1 \in Int /\ \A k \in (i + 1)..(j - 1) : s[k] \in S
    <3>1. \A k \in (i + 1)..(j - 1) : k \in 1..Len(s)
      BY ONLY <1>0
    <3> QED
      BY <1>0, <1>1, <3>1
  <2>2. /\ Len(raw) = IF i + 1 <= j - 1 THEN (j - 1) - (i + 1) + 1 ELSE 0
        /\ \A k \in 1..((j - 1) - (i + 1) + 1) : raw[k] = s[(i + 1) + k - 1]
    <3> HIDE DEF S
    <3> QED
      BY <2>1, SubSeqProperties
  <2> HIDE DEF raw
  <2>3. L = j - i - 1 /\ (j - 1) - (i + 1) + 1 = L
    BY <1>0, <2>2
  <2>4. \A k \in 1..L : (i + 1) + k - 1 = i + k
    BY <1>0
  <2> HIDE DEF L
  <2> QED
    BY <1>0, <2>2, <2>3, <2>4
<1>3. Contents(s, i, j) = c[j - 1]
  BY DEF Contents, ContentsStep
<1>4. Unescape(raw) = f[1]
  BY DEF Unescape, UnescapeStep
<1>5. \A k \in i..(j - 1) : c[k] = ContentsStep(s, i, c, k)
  <2>1. j - 1 \in Nat
    BY <1>0
  <2>2. c = [k \in i..(j - 1) |-> ContentsStep(s, i, c, k)]
    BY <1>0, <2>1, ContentsExists
  <2> HIDE DEF c
  <2> QED
    BY <2>2
<1>6. \A k \in 1..L + 1 : f[k] = UnescapeStep(raw, f, k)
  <2>1. f = [k \in 1..L + 1 |-> UnescapeStep(raw, f, k)]
    BY <1>2, UnescapeExists
  <2> HIDE DEF f, raw
  <2> QED
    BY <2>1
<1>15. Len(raw) = L
  OBVIOUS
<1> HIDE DEF raw, L, S, c, f
<1>7. \A k \in i..(j - 1) : c[k] \in Seq(S)
  <2> DEFINE T == {m \in Nat : i + m <= j - 1 => c[i + m] \in Seq(S)}
  <2>1. 0 \in T
    <3>1. i \in i..(j - 1) /\ i + 0 = i
      BY <1>0
    <3>2. c[i] = <<>>
      BY <1>5, <3>1 DEF ContentsStep
    <3> QED
      BY <1>1, <3>1, <3>2
  <2>2. ASSUME NEW m \in Nat, m \in T PROVE m + 1 \in T
    <3> SUFFICES ASSUME i + (m + 1) <= j - 1 PROVE c[i + (m + 1)] \in Seq(S)
      OBVIOUS
    <3> DEFINE k == i + (m + 1)
    <3>1. k \in i..(j - 1) /\ k # i /\ k - 1 = i + m /\ k \in 1..Len(s) /\ i + m <= j - 1
      BY <1>0
    <3> HIDE DEF k
    <3>2. c[k - 1] \in Seq(S)
      BY <2>2, <3>1
    <3>3. c[k] = ContentsStep(s, i, c, k)
      BY <1>5, <3>1
    <3>4. s[k] \in S /\ Escaped(s[k]) \in S
      BY <1>1, <3>1
    <3>5. \A x \in S : Append(c[k - 1], x) \in Seq(S)
      BY <3>2
    <3>6. c[k] \in Seq(S)
      BY <3>1, <3>2, <3>3, <3>4, <3>5 DEF ContentsStep
    <3> QED
      BY <3>6 DEF k
  <2> HIDE DEF T
  <2>3. Nat \subseteq T
    BY <2>1, <2>2, SetInduction
  <2>4. \A k \in i..(j - 1) : k - i \in Nat /\ i + (k - i) = k
    BY <1>0
  <2> QED
    BY <1>0, <2>3, <2>4 DEF T
<1> DEFINE Good(m) == f[m] \in Seq(S) /\ (~Escaper(s, i + m - 1) => c[i + m - 1] \o f[m] = c[j - 1])
<1>8. Good(L + 1)
  <2>1. f[L + 1] = <<>>
    <3>1. L + 1 \in 1..L + 1 /\ L + 1 > L
      BY <1>2
    <3>2. f[L + 1] = UnescapeStep(raw, f, L + 1)
      BY <1>6, <3>1
    <3> QED
      BY <1>15, <3>1, <3>2 DEF UnescapeStep
  <2>2. i + (L + 1) - 1 = j - 1 /\ c[j - 1] \in Seq(S)
    BY <1>0, <1>2, <1>7
  <2>3. c[j - 1] \o <<>> = c[j - 1]
    BY <2>2, ConcatEmptySeq
  <2> QED
    BY <1>1, <2>1, <2>2, <2>3
<1>9. ASSUME NEW m \in 1..L, \A l \in (m + 1)..(L + 1) : Good(l) PROVE Good(m)
  <2> DEFINE k == i + m
  <2>1. /\ k \in i..(j - 1) /\ k - 1 \in i..(j - 1) /\ k # i /\ k \in 1..Len(s) /\ m \in 1..L + 1 /\ m <= L
        /\ i + m - 1 = k - 1 /\ i + (m + 1) - 1 = k /\ i + (m + 2) - 1 = k + 1 /\ k \in Nat \ {0}
        /\ m + 1 \in (m + 1)..(L + 1) /\ ~(m > L)
    BY <1>0, <1>2
  <2>2. raw[m] = s[k]
    BY <1>2
  <2>3. f[m] = UnescapeStep(raw, f, m)
    BY <1>6, <2>1
  <2>4. c[k] = IF Escaper(s, k) THEN c[k - 1]
               ELSE Append(c[k - 1], IF Escaper(s, k - 1) THEN Escaped(s[k]) ELSE s[k])
    BY <1>5, <2>1 DEF ContentsStep
  <2>5. c[k - 1] \in Seq(S) /\ s[k] \in S
    BY <1>1, <1>7, <2>1
  <2>6. \A x \in S, rest \in Seq(S) : /\ <<x>> \o rest \in Seq(S)
                                      /\ c[k - 1] \o (<<x>> \o rest) = Append(c[k - 1], x) \o rest
    <3> SUFFICES ASSUME NEW x \in S, NEW rest \in Seq(S)
                 PROVE  /\ <<x>> \o rest \in Seq(S)
                        /\ c[k - 1] \o (<<x>> \o rest) = Append(c[k - 1], x) \o rest
      OBVIOUS
    <3> HIDE DEF k
    <3>1. <<x>> \in Seq(S)
      OBVIOUS
    <3>2. Append(c[k - 1], x) = c[k - 1] \o <<x>>
      BY <2>5, AppendIsConcat
    <3>3. (c[k - 1] \o <<x>>) \o rest = c[k - 1] \o (<<x>> \o rest)
      <4> DEFINE p == c[k - 1]
                 one == <<x>>
      <4>1. p \in Seq(S) /\ one \in Seq(S) /\ rest \in Seq(S)
        BY <2>5, <3>1
      <4> HIDE DEF p, one
      <4>2. (p \o one) \o rest = p \o (one \o rest)
        BY ONLY <4>1, ConcatAssociative
      <4> QED
        BY <4>2 DEF p, one
    <3>4. <<x>> \o rest \in Seq(S)
      BY <3>1, ConcatProperties
    <3> QED
      BY <3>2, <3>3, <3>4
  <2>7. Escaper(s, k) = (s[k] = "\\" /\ ~Escaper(s, k - 1))
    <3>1. k # 1
      BY <1>0, <2>1
    <3> QED
      BY <2>1, <3>1, EscaperIs
  <2>8. CASE s[k] = "\\" /\ m < L
    <3>1. f[m] = <<Escaped(raw[m + 1])>> \o f[m + 2]
      BY <2>1, <2>2, <2>3, <2>8, <1>2, <1>15 DEF UnescapeStep
    <3>2. m + 1 \in 1..L /\ m + 2 \in (m + 1)..(L + 1) /\ i + (m + 1) = k + 1 /\ k + 1 \in i..(j - 1) /\ k + 1 \in 1..Len(s)
          /\ k + 1 # i /\ (k + 1) - 1 = k /\ k + 1 # 1
      BY <1>0, <1>2, <2>1, <2>8
    <3>3. raw[m + 1] = s[k + 1] /\ Escaped(s[k + 1]) \in S
      BY <1>1, <1>2, <3>2
    <3>4. f[m + 2] \in Seq(S) /\ (~Escaper(s, k + 1) => c[k + 1] \o f[m + 2] = c[j - 1])
      BY <1>9, <2>1, <3>2
    <3>5. ASSUME ~Escaper(s, k - 1) PROVE c[k - 1] \o f[m] = c[j - 1]
      <4>1. Escaper(s, k)
        BY <2>7, <2>8, <3>5
      <4>2. ~Escaper(s, k + 1)
        <5>1. k + 1 \in Nat \ {0}
          BY <2>1
        <5> QED
          BY <3>2, <4>1, <5>1, EscaperIs
      <4>3. c[k + 1] = Append(c[k - 1], Escaped(s[k + 1]))
        <5>1. c[k + 1] = ContentsStep(s, i, c, k + 1)
          BY <1>5, <3>2
        <5>2. c[k + 1] = Append(c[k], Escaped(s[k + 1]))
          BY <3>2, <4>1, <4>2, <5>1 DEF ContentsStep
        <5> QED
          BY <2>4, <4>1, <5>2
      <4> HIDE DEF k
      <4> DEFINE x == Escaped(s[k + 1])
      <4>4. f[m] = <<x>> \o f[m + 2]
        BY <3>1, <3>3
      <4>5. c[k - 1] \o (<<x>> \o f[m + 2]) = Append(c[k - 1], x) \o f[m + 2]
        <5>1. x \in S /\ f[m + 2] \in Seq(S)
          BY <3>3, <3>4
        <5> HIDE DEF x
        <5> QED
          BY <2>6, <5>1
      <4> HIDE DEF x
      <4>6. c[k + 1] = Append(c[k - 1], x)
        BY <4>3 DEF x
      <4> QED
        BY <3>4, <4>2, <4>4, <4>5, <4>6
    <3>6. f[m] \in Seq(S)
      BY <2>6, <3>1, <3>3, <3>4
    <3> HIDE DEF k
    <3> QED
      BY <2>1, <3>5, <3>6
  <2>9. CASE s[k] = "\\" /\ ~(m < L)
    <3>1. m = L /\ k = j - 1
      BY <1>0, <1>2, <2>1, <2>9
    <3>2. f[m] = <<raw[m]>> \o f[m + 1]
      BY <2>1, <2>2, <2>3, <2>9, <1>15 DEF UnescapeStep
    <3>3. f[m + 1] \in Seq(S)
      BY <1>9, <2>1
    <3>4. f[m] \in Seq(S)
      BY <2>2, <2>5, <2>6, <3>2, <3>3
    <3>5. Escaper(s, k - 1)
      BY <2>7, <2>9, <3>1
    <3> HIDE DEF k
    <3> QED
      BY <2>1, <3>4, <3>5
  <2>10. CASE s[k] # "\\"
    <3>1. f[m] = <<s[k]>> \o f[m + 1]
      BY <2>1, <2>2, <2>3, <2>10, <1>15 DEF UnescapeStep
    <3>2. f[m + 1] \in Seq(S) /\ (~Escaper(s, k) => c[k] \o f[m + 1] = c[j - 1])
      BY <1>9, <2>1
    <3>3. ~Escaper(s, k)
      BY <2>7, <2>10
    <3>4. ~Escaper(s, k - 1) => c[k] = Append(c[k - 1], s[k])
      BY <2>4, <3>3
    <3>5. f[m] \in Seq(S)
      BY <2>5, <2>6, <3>1, <3>2
    <3> HIDE DEF k
    <3>6. c[k - 1] \o (<<s[k]>> \o f[m + 1]) = Append(c[k - 1], s[k]) \o f[m + 1]
      BY <2>5, <2>6, <3>2
    <3>7. ~Escaper(s, k - 1) => c[k - 1] \o f[m] = c[j - 1]
      BY <3>1, <3>2, <3>3, <3>4, <3>6
    <3> QED
      BY <2>1, <3>5, <3>7
  <2> QED
    BY <2>8, <2>9, <2>10
<1>10. \A m \in 1..(L + 1) : Good(m)
  <2> DEFINE T == {n \in Nat : \A m \in 1..(L + 1) : m >= L + 1 - n => Good(m)}
  <2>1. 0 \in T
    <3>1. \A m \in 1..(L + 1) : m >= L + 1 - 0 => m = L + 1
      BY <1>2
    <3> HIDE DEF Good
    <3> QED
      BY <1>8, <3>1
  <2>2. ASSUME NEW n \in Nat, n \in T PROVE n + 1 \in T
    <3> HIDE DEF Good
    <3> SUFFICES ASSUME NEW m \in 1..(L + 1), m >= L + 1 - (n + 1) PROVE Good(m)
      OBVIOUS
    <3>1. m >= L + 1 - n \/ (m = L - n /\ m \in 1..L)
      BY <1>2
    <3>2. CASE m >= L + 1 - n
      BY <2>2, <3>2
    <3>3. CASE m = L - n /\ m \in 1..L
      <4>1. \A l \in (m + 1)..(L + 1) : l \in 1..(L + 1) /\ l >= L + 1 - n
        BY <1>2, <3>3
      <4>2. \A l \in (m + 1)..(L + 1) : Good(l)
        BY <2>2, <4>1
      <4> QED
        BY <1>9, <3>3, <4>2
    <3> QED
      BY <3>1, <3>2, <3>3
  <2> HIDE DEF T
  <2>3. L + 1 \in T
    BY <1>2, <2>1, <2>2, SetInduction
  <2>4. \A m \in 1..(L + 1) : m >= L + 1 - (L + 1)
    BY <1>2
  <2> HIDE DEF Good
  <2> QED
    BY <2>3, <2>4 DEF T
<1>11. f[1] \in Seq(S) /\ c[i] \o f[1] = c[j - 1]
  <2>1. 1 \in 1..(L + 1) /\ i + 1 - 1 = i
    BY <1>0, <1>2
  <2>2. ~Escaper(s, i)
    <3>1. i \in Nat \ {0}
      OBVIOUS
    <3> QED
      BY <3>1, EscaperIs, QuoteIs
  <2> QED
    BY <1>10, <2>1, <2>2
<1>12. c[i] = <<>>
  <2>1. i \in i..(j - 1)
    BY <1>0
  <2> QED
    BY <1>5, <2>1 DEF ContentsStep
<1>13. f[1] = c[j - 1]
  BY <1>11, <1>12, ConcatEmptySeq
<1>14. Unescape(raw) = Contents(s, i, j)
  BY <1>3, <1>4, <1>13
<1> QED
  BY <1>14 DEF raw

-----------------------------------------------------------------------------
(* Lexemes *)

LEMMA Signs ==
  /\ Quote \in Marks /\ "\\" \in Marks /\ "-" \in Marks /\ "." \in Marks
  /\ "=" \in Marks /\ "/" \in Marks /\ "nul" \in Marks
BY DEF Marks

LEMMA AllIs ==
  ASSUME NEW s, NEW i \in Nat, NEW j \in Int, NEW S
  PROVE  All(s, i, j, S) <=> i <= j /\ s[i] \in S /\ \A k \in (i + 1)..j : s[k] \in S
BY DEF All

LEMMA IntIs ==
  ASSUME NEW s, NEW i \in Nat, NEW j \in Int, IsInt(s, i, j)
  PROVE  /\ i <= j /\ s[i] \in Digit \cup {"-"} /\ (s[i] = "-" => i < j)
         /\ \A k \in (i + 1)..j : s[k] \in Digit
<1>1. CASE All(s, i, j, Digit)
  <2>1. i <= j /\ s[i] \in Digit /\ \A k \in (i + 1)..j : s[k] \in Digit
    BY <1>1, AllIs
  <2>2. s[i] # "-"
    BY <2>1, Classes, Signs
  <2> QED
    BY <2>1, <2>2
<1>2. CASE s[i] = "-" /\ All(s, i + 1, j, Digit)
  BY <1>2 DEF All
<1> QED
  BY <1>1, <1>2 DEF IsInt

LEMMA FloatIs ==
  ASSUME NEW s, NEW i \in Nat, NEW j \in Int
  PROVE  IsFloat(s, i, j) <=>
           \E k \in (i + 1)..(j - 1) : /\ s[k] = "." /\ IsInt(s, i, k - 1)
                                       /\ \A m \in (k + 1)..j : s[m] \in Digit
<1>1. ASSUME IsFloat(s, i, j)
      PROVE  \E k \in (i + 1)..(j - 1) : /\ s[k] = "." /\ IsInt(s, i, k - 1)
                                         /\ \A m \in (k + 1)..j : s[m] \in Digit
  <2>1. PICK k \in i..j : s[k] = "." /\ IsInt(s, i, k - 1) /\ All(s, k + 1, j, Digit)
    BY <1>1 DEF IsFloat
  <2>2. i <= k - 1
    BY <2>1, IntIs
  <2>3. k + 1 <= j /\ \A m \in (k + 1)..j : s[m] \in Digit
    BY <2>1 DEF All
  <2>4. k \in (i + 1)..(j - 1)
    BY <2>2, <2>3
  <2> QED
    BY <2>1, <2>3, <2>4
<1>2. ASSUME NEW k \in (i + 1)..(j - 1), s[k] = ".", IsInt(s, i, k - 1), \A m \in (k + 1)..j : s[m] \in Digit
      PROVE  IsFloat(s, i, j)
  <2>1. k \in i..j /\ k + 1 <= j
    OBVIOUS
  <2>2. All(s, k + 1, j, Digit)
    BY <1>2, <2>1 DEF All
  <2> QED
    BY <1>2, <2>1, <2>2 DEF IsFloat
<1> QED
  BY <1>1, <1>2

\* What each lexeme starts with.
LEMMA Starts ==
  ASSUME NEW s, NEW i \in Nat, NEW j \in Int
  PROVE  /\ IsWord(s, i, j) => s[i] \in Alpha
         /\ IsInt(s, i, j) => s[i] \in Digit \cup {"-"}
         /\ IsFloat(s, i, j) => s[i] \in Digit \cup {"-"}
         /\ IsString(s, i, j) => s[i] = Quote
         /\ IsSymbol(s, i, j) => s[i] \in Single \cup {".", "="}
<1>1. IsInt(s, i, j) => s[i] \in Digit \cup {"-"}
  BY IntIs
<1>2. IsFloat(s, i, j) => s[i] \in Digit \cup {"-"}
  <2> SUFFICES ASSUME IsFloat(s, i, j) PROVE s[i] \in Digit \cup {"-"}
    OBVIOUS
  <2>1. PICK k \in (i + 1)..(j - 1) : IsInt(s, i, k - 1)
    BY FloatIs
  <2> QED
    BY <2>1, IntIs
<1> QED
  BY <1>1, <1>2 DEF IsWord, IsString, IsSymbol

LEMMA TokenEndIs ==
  ASSUME NEW s, Len(s) \in Nat, NEW i \in Nat, NEW e \in i..Len(s), Lexeme(s, i, e),
         \A j \in i..Len(s) : Lexeme(s, i, j) => j <= e
  PROVE  TokenEnd(s, i) = e
<1> DEFINE ends == {j \in i..Len(s) : Lexeme(s, i, j)}
<1>1. ends \in SUBSET (i..Len(s)) /\ e \in ends /\ ends # {} /\ \A j \in ends : j <= e
  OBVIOUS
<1>2. TokenEnd(s, i) = CHOOSE j \in ends : \A k \in ends : k <= j
  BY <1>1 DEF TokenEnd
<1> HIDE DEF ends
<1>3. TokenEnd(s, i) \in ends /\ \A k \in ends : k <= TokenEnd(s, i)
  BY <1>1, <1>2, GreatestIs
<1>4. TokenEnd(s, i) <= e /\ e <= TokenEnd(s, i) /\ TokenEnd(s, i) \in i..Len(s)
  BY <1>1, <1>3
<1> QED
  BY ONLY <1>4, i \in Nat, Len(s) \in Nat, e \in i..Len(s)

LEMMA NoLexeme ==
  ASSUME NEW s, NEW i, \A j \in i..Len(s) : ~Lexeme(s, i, j)
  PROVE  TokenEnd(s, i) = IF s[i] = Quote THEN Len(s) ELSE i
<1>1. {j \in i..Len(s) : Lexeme(s, i, j)} = {}
  OBVIOUS
<1> QED
  BY <1>1 DEF TokenEnd

\* Where each kind of token ends, h being the place after it.
LEMMA WordToken ==
  ASSUME NEW s, Len(s) \in Nat, NEW i \in Nat, NEW h \in (i + 1)..(Len(s) + 1), IsWord(s, i, h - 1),
         h <= Len(s) => s[h] \notin Alpha \cup Digit
  PROVE  TokenEnd(s, i) = h - 1
<1>1. h - 1 \in i..Len(s) /\ Lexeme(s, i, h - 1)
  BY DEF Lexeme
<1>2. s[i] \in Alpha
  BY Starts
<1>3. s[i] \notin Digit /\ s[i] \notin Single /\ s[i] # "-" /\ s[i] # Quote /\ s[i] # "." /\ s[i] # "="
  BY <1>2, Classes, Signs
<1>4. ASSUME NEW j \in i..Len(s), Lexeme(s, i, j) PROVE j <= h - 1
  <2>1. IsWord(s, i, j)
    BY <1>3, <1>4, Starts DEF Lexeme
  <2>2. \A k \in i..j : s[k] \in Alpha \cup Digit
    BY <2>1 DEF IsWord, All
  <2>3. ~(h \in i..j)
    BY <2>2
  <2> QED
    BY <2>3
<1> QED
  BY <1>1, <1>4, TokenEndIs

\* No number goes on with other characters than digits and a dot.
LEMMA IntToken ==
  ASSUME NEW s, Len(s) \in Nat, NEW i \in Nat, NEW h \in (i + 1)..(Len(s) + 1), IsInt(s, i, h - 1),
         h <= Len(s) => s[h] \notin Digit,
         ~(h < Len(s) /\ s[h] = "." /\ s[h + 1] \in Digit)
  PROVE  /\ TokenEnd(s, i) = h - 1 /\ Type(s, i, h - 1) = "INT_LIT"
         /\ ~IsWord(s, i, h - 1) /\ s[i] # Quote
<1>1. h - 1 \in i..Len(s) /\ Lexeme(s, i, h - 1)
  BY DEF Lexeme
<1>2. s[i] \in Digit \cup {"-"} /\ \A k \in (i + 1)..(h - 1) : s[k] \in Digit
  BY IntIs
<1>3. s[i] \notin Alpha /\ s[i] \notin Single /\ s[i] # Quote /\ s[i] # "." /\ s[i] # "=" /\ "." \notin Digit
  BY <1>2, Classes, Signs, QuoteIs
<1>4. \A j \in i..Len(s) : IsInt(s, i, j) => j <= h - 1
  <2> SUFFICES ASSUME NEW j \in i..Len(s), IsInt(s, i, j), j >= h PROVE FALSE
    OBVIOUS
  <2>1. \A k \in (i + 1)..j : s[k] \in Digit
    BY IntIs
  <2>2. h \in (i + 1)..j /\ h <= Len(s)
    OBVIOUS
  <2> QED
    BY <2>1, <2>2
<1>5. \A j \in i..Len(s) : ~IsFloat(s, i, j)
  <2> SUFFICES ASSUME NEW j \in i..Len(s), IsFloat(s, i, j) PROVE FALSE
    OBVIOUS
  <2>1. PICK k \in (i + 1)..(j - 1) : /\ s[k] = "." /\ IsInt(s, i, k - 1)
                                      /\ \A m \in (k + 1)..j : s[m] \in Digit
    BY FloatIs
  <2>2. k >= h
    <3>1. ~(k \in (i + 1)..(h - 1))
      BY <1>2, <1>3, <2>1
    <3> QED
      BY <3>1
  <2>3. k <= h
    <3>1. k - 1 \in i..Len(s)
      OBVIOUS
    <3>2. k - 1 <= h - 1
      BY <1>4, <2>1, <3>1
    <3> QED
      BY <3>2
  <2>4. k = h /\ h + 1 \in (k + 1)..j /\ h < Len(s)
    BY <2>2, <2>3
  <2> QED
    BY <2>1, <2>4
<1>6. ASSUME NEW j \in i..Len(s), Lexeme(s, i, j) PROVE j <= h - 1
  BY <1>3, <1>4, <1>5, <1>6, Starts DEF Lexeme
<1>7. TokenEnd(s, i) = h - 1
  BY <1>1, <1>6, TokenEndIs
<1>8. Type(s, i, h - 1) = "INT_LIT"
  BY <1>1, <1>3, <1>5 DEF Type
<1>9. ~IsWord(s, i, h - 1)
  BY <1>3, Starts
<1> QED
  BY <1>3, <1>7, <1>8, <1>9

LEMMA FloatToken ==
  ASSUME NEW s, Len(s) \in Nat, NEW i \in Nat, NEW h \in (i + 1)..(Len(s) + 1),
         NEW k \in (i + 1)..(h - 1), s[k] = ".", IsInt(s, i, k - 1),
         k < Len(s), s[k + 1] \in Digit, \A m \in (k + 1)..(h - 1) : s[m] \in Digit,
         h <= Len(s) => s[h] \notin Digit
  PROVE  /\ TokenEnd(s, i) = h - 1 /\ Type(s, i, h - 1) = "FLOAT_LIT"
         /\ ~IsWord(s, i, h - 1) /\ s[i] # Quote
<1>0. h # k + 1 /\ k \in (i + 1)..((h - 1) - 1)
  OBVIOUS
<1>1. IsFloat(s, i, h - 1)
  <2>1. h - 1 \in Int
    OBVIOUS
  <2> QED
    BY <1>0, <2>1, FloatIs
<1>2. h - 1 \in i..Len(s) /\ Lexeme(s, i, h - 1)
  BY <1>1 DEF Lexeme
<1>3. s[i] \in Digit \cup {"-"} /\ \A m \in (i + 1)..(k - 1) : s[m] \in Digit
  BY IntIs
<1>4. s[i] \notin Alpha /\ s[i] \notin Single /\ s[i] # Quote /\ s[i] # "." /\ s[i] # "=" /\ "." \notin Digit
  BY <1>3, Classes, Signs, QuoteIs
<1>5. \A j \in k..Len(s) : ~IsInt(s, i, j)
  <2> SUFFICES ASSUME NEW j \in k..Len(s), IsInt(s, i, j) PROVE FALSE
    OBVIOUS
  <2>1. \A m \in (i + 1)..j : s[m] \in Digit
    BY IntIs
  <2>2. k \in (i + 1)..j
    OBVIOUS
  <2> QED
    BY <1>4, <2>1, <2>2
<1>6. \A j \in i..Len(s) : IsInt(s, i, j) => j <= h - 1
  <2> SUFFICES ASSUME NEW j \in i..Len(s), IsInt(s, i, j) PROVE j <= h - 1
    OBVIOUS
  <2>1. ~(j \in k..Len(s))
    BY <1>5
  <2> QED
    BY <2>1
<1>7. \A j \in i..Len(s) : IsFloat(s, i, j) => j <= h - 1
  <2> SUFFICES ASSUME NEW j \in i..Len(s), IsFloat(s, i, j), j >= h PROVE FALSE
    OBVIOUS
  <2>1. PICK l \in (i + 1)..(j - 1) : /\ s[l] = "." /\ IsInt(s, i, l - 1)
                                      /\ \A m \in (l + 1)..j : s[m] \in Digit
    BY FloatIs
  <2>2. ~(l \in (i + 1)..(k - 1))
    BY <1>3, <1>4, <2>1
  <2>3. ~(l - 1 \in k..Len(s))
    BY <1>5, <2>1
  <2>4. l = k /\ h \in (l + 1)..j /\ h <= Len(s)
    BY <2>2, <2>3
  <2> QED
    BY <2>1, <2>4
<1>8. ASSUME NEW j \in i..Len(s), Lexeme(s, i, j) PROVE j <= h - 1
  BY <1>4, <1>6, <1>7, <1>8, <1>3, Starts DEF Lexeme
<1>9. TokenEnd(s, i) = h - 1
  BY <1>2, <1>8, TokenEndIs
<1>10. ~IsInt(s, i, h - 1)
  <2>1. h - 1 \in k..Len(s)
    OBVIOUS
  <2> QED
    BY <1>5, <2>1
<1>11. Type(s, i, h - 1) = "FLOAT_LIT"
  BY <1>1, <1>4, <1>10 DEF Type
<1>12. ~IsWord(s, i, h - 1)
  BY <1>4, Starts
<1> QED
  BY <1>4, <1>9, <1>11, <1>12

LEMMA StringToken ==
  ASSUME NEW s, Len(s) \in Nat, NEW i \in Nat \ {0}, NEW h \in (i + 1)..Len(s), s[i] = Quote, s[h] = Quote,
         \A k \in (i + 1)..(h - 1) : s[k] = Quote => Escaper(s, k - 1),
         ~Escaper(s, h - 1)
  PROVE  /\ TokenEnd(s, i) = h /\ Type(s, i, h) = "STRING_LIT"
         /\ ~IsWord(s, i, h) /\ IsString(s, i, h)
<1>1. s[i] \notin Alpha /\ s[i] \notin Digit /\ s[i] \notin Single /\ s[i] # "-" /\ s[i] # "." /\ s[i] # "="
  BY Classes, Signs, QuoteIs
<1>2. IsString(s, i, h)
  <2>1. \A k \in (i + 1)..h : k \in (i + 1)..(h - 1) \/ k = h
    OBVIOUS
  <2>2. \A k \in (i + 1)..h : Escaper(s, k - 1) \in BOOLEAN
    BY DEF Escaper
  <2>3. ASSUME NEW k \in (i + 1)..h, s[k] = Quote PROVE (k < h) = Escaper(s, k - 1)
    <3>1. CASE k \in (i + 1)..(h - 1)
      <4>1. k < h /\ Escaper(s, k - 1)
        BY <2>3, <3>1
      <4> QED
        BY <2>2, <4>1
    <3>2. CASE k = h
      <4>1. ~(k < h) /\ ~Escaper(s, k - 1)
        BY <3>2
      <4> QED
        BY <2>2, <4>1
    <3> QED
      BY <2>1, <3>1, <3>2
  <2>4. i < h
    OBVIOUS
  <2> QED
    BY <2>3, <2>4 DEF IsString
<1>3. ASSUME NEW j \in i..Len(s), Lexeme(s, i, j) PROVE j <= h
  <2>1. IsString(s, i, j)
    BY <1>1, <1>3, Starts DEF Lexeme
  <2> SUFFICES ASSUME j > h PROVE FALSE
    OBVIOUS
  <2>2. h \in (i + 1)..j /\ h < j
    OBVIOUS
  <2>3. (h < j) = Escaper(s, h - 1)
    BY <2>1, <2>2 DEF IsString
  <2> QED
    BY <2>2, <2>3
<1>4. TokenEnd(s, i) = h
  <2>1. h \in i..Len(s) /\ Lexeme(s, i, h)
    BY <1>2 DEF Lexeme
  <2> QED
    BY <1>3, <2>1, TokenEndIs
<1>5. ~IsInt(s, i, h) /\ ~IsFloat(s, i, h) /\ ~IsWord(s, i, h)
  BY <1>1, Starts
<1>6. Type(s, i, h) = "STRING_LIT"
  BY <1>1, <1>5 DEF Type
<1> QED
  BY <1>2, <1>4, <1>5, <1>6

\* A string that is never closed takes all the rest.
LEMMA OpenToken ==
  ASSUME NEW s, Len(s) \in Nat, NEW i \in 1..Len(s), s[i] = Quote,
         \A k \in (i + 1)..Len(s) : s[k] = Quote => Escaper(s, k - 1)
  PROVE  /\ TokenEnd(s, i) = Len(s) /\ Type(s, i, Len(s)) = "STRING_LIT"
         /\ ~IsWord(s, i, Len(s)) /\ ~IsString(s, i, Len(s))
<1>1. s[i] \notin Alpha /\ s[i] \notin Digit /\ s[i] \notin Single /\ s[i] # "-" /\ s[i] # "." /\ s[i] # "="
  BY Classes, Signs, QuoteIs
<1>2. ASSUME NEW j \in i..Len(s), IsString(s, i, j) PROVE FALSE
  <2>1. i < j /\ s[j] = Quote /\ j \in (i + 1)..j /\ j \in (i + 1)..Len(s)
    BY <1>2 DEF IsString
  <2>2. (j < j) = Escaper(s, j - 1)
    BY <1>2, <2>1 DEF IsString
  <2>3. Escaper(s, j - 1) /\ ~(j < j)
    BY <2>1
  <2>4. Escaper(s, j - 1) \in BOOLEAN
    BY DEF Escaper
  <2> QED
    BY <2>2, <2>3, <2>4
<1>3. ASSUME NEW j \in i..Len(s) PROVE ~Lexeme(s, i, j)
  BY <1>1, <1>2, Starts DEF Lexeme
<1>4. TokenEnd(s, i) = Len(s)
  BY <1>3, NoLexeme
<1>5. ~IsInt(s, i, Len(s)) /\ ~IsFloat(s, i, Len(s)) /\ ~IsWord(s, i, Len(s))
  BY <1>1, Starts
<1>6. Type(s, i, Len(s)) = "STRING_LIT"
  BY <1>1, <1>5 DEF Type
<1>7. ~IsString(s, i, Len(s))
  <2>1. Len(s) \in i..Len(s)
    OBVIOUS
  <2> QED
    BY <1>2, <2>1
<1> QED
  BY <1>4, <1>5, <1>6, <1>7

\* A symbol of one character or two, or a character no lexeme starts with.
LEMMA SymbolToken ==
  ASSUME NEW s, Len(s) \in Nat, NEW i \in 1..Len(s),
         s[i] \notin Alpha, s[i] \notin Digit, s[i] # Quote,
         s[i] = "-" /\ i < Len(s) => s[i + 1] \notin Digit
  PROVE  LET c     == s[i]
             twice == i < Len(s) /\ s[i + 1] = c
         IN  /\ c \in Single => TokenEnd(s, i) = i /\ Type(s, i, i) = c
             /\ c = "=" /\ twice => TokenEnd(s, i) = i + 1 /\ Type(s, i, i + 1) = "EQ_EQ"
             /\ c = "." /\ twice => TokenEnd(s, i) = i + 1 /\ Type(s, i, i + 1) = "RANGE"
             /\ c = "." /\ ~twice => TokenEnd(s, i) = i /\ Type(s, i, i) = "DOT"
             /\ c \notin Single \cup {"."} /\ ~(c = "=" /\ twice) => TokenEnd(s, i) = i /\ Type(s, i, i) = "UNKNOWN"
             /\ ~IsWord(s, i, i) /\ ~IsWord(s, i, i + 1)
<1> DEFINE c == s[i]
           twice == i < Len(s) /\ s[i + 1] = c
<1>1. \A j \in Int : ~IsWord(s, i, j) /\ ~IsString(s, i, j)
  BY Starts
<1>2. \A j \in i..Len(s) : ~IsInt(s, i, j)
  <2> SUFFICES ASSUME NEW j \in i..Len(s), IsInt(s, i, j) PROVE FALSE
    OBVIOUS
  <2>1. s[i] = "-" /\ i < j /\ \A k \in (i + 1)..j : s[k] \in Digit
    BY IntIs
  <2>2. i + 1 \in (i + 1)..j /\ i < Len(s)
    BY <2>1
  <2> QED
    BY <2>1, <2>2
<1>3. \A j \in i..Len(s) : ~IsFloat(s, i, j)
  <2> SUFFICES ASSUME NEW j \in i..Len(s), IsFloat(s, i, j) PROVE FALSE
    OBVIOUS
  <2>1. PICK k \in (i + 1)..(j - 1) : IsInt(s, i, k - 1)
    BY FloatIs
  <2>2. k - 1 \in i..Len(s)
    OBVIOUS
  <2> QED
    BY <1>2, <2>1, <2>2
<1>4. \A j \in i..Len(s) : Lexeme(s, i, j) <=> IsSymbol(s, i, j)
  BY <1>1, <1>2, <1>3 DEF Lexeme
<1>5. \A j \in i..Len(s) : IsSymbol(s, i, j) => j <= i + 1
  BY DEF IsSymbol
<1>6. /\ c \in Single => c # "." /\ c # "="
      /\ c = "." => c \notin Single
      /\ c = "=" => c \notin Single
  BY Classes, Signs
<1>7. ASSUME twice, c = "=" \/ c = "."
      PROVE  TokenEnd(s, i) = i + 1 /\ Type(s, i, i + 1) = IF c = "=" THEN "EQ_EQ" ELSE "RANGE"
  <2>1. i + 1 \in i..Len(s) /\ Lexeme(s, i, i + 1)
    <3>1. i + 1 \in i..Len(s) /\ IsSymbol(s, i, i + 1)
      BY <1>7 DEF IsSymbol
    <3> QED
      BY <1>4, <3>1
  <2>2. \A j \in i..Len(s) : Lexeme(s, i, j) => j <= i + 1
    BY <1>4, <1>5
  <2>3. TokenEnd(s, i) = i + 1
    BY <2>1, <2>2, TokenEndIs
  <2>4. ~IsInt(s, i, i + 1) /\ ~IsFloat(s, i, i + 1)
    BY <1>2, <1>3, <2>1
  <2>5. i + 1 # i
    OBVIOUS
  <2>6. CASE s[i] = "="
    <3>1. Type(s, i, i + 1) = "EQ_EQ"
      BY <1>6, <2>4, <2>5, <2>6, Zenon DEF Type
    <3> QED
      BY <2>3, <2>6, <3>1
  <2>7. CASE s[i] = "."
    <3>1. Type(s, i, i + 1) = "RANGE"
      BY <1>6, <2>4, <2>5, <2>7, Zenon DEF Type
    <3> QED
      BY <2>3, <2>7, <3>1
  <2> QED
    BY <1>7, <2>6, <2>7
<1>8. i \in i..Len(s) /\ ~IsInt(s, i, i) /\ ~IsFloat(s, i, i) /\ i # i + 1
  BY <1>2, <1>3
<1>9. ASSUME c \in Single \/ (c = "." /\ ~twice)
      PROVE  TokenEnd(s, i) = i /\ Type(s, i, i) = IF c = "." THEN "DOT" ELSE c
  <2>1. IsSymbol(s, i, i)
    BY <1>9 DEF IsSymbol
  <2>2. \A j \in i..Len(s) : IsSymbol(s, i, j) => j <= i
    <3> SUFFICES ASSUME NEW j \in i..Len(s), IsSymbol(s, i, j), j # i PROVE FALSE
      OBVIOUS
    <3>1. j = i + 1 /\ s[i] \in {"=", "."} /\ s[j] = s[i]
      BY DEF IsSymbol
    <3> QED
      BY <1>6, <1>9, <3>1
  <2>3. TokenEnd(s, i) = i
    BY <1>4, <1>8, <2>1, <2>2, TokenEndIs
  <2>4. CASE s[i] \in Single
    <3>1. s[i] # "." /\ s[i] # "="
      BY <1>6, <2>4
    <3>2. Type(s, i, i) = s[i]
      BY <1>8, <2>4, <3>1, Zenon DEF Type
    <3> QED
      BY <2>3, <3>1, <3>2
  <2>5. CASE s[i] = "."
    <3>1. s[i] \notin Single /\ s[i] # "="
      BY <1>6, <2>5
    <3>2. Type(s, i, i) = "DOT"
      BY <1>8, <2>5, <3>1, Zenon DEF Type
    <3> QED
      BY <2>3, <2>5, <3>2
  <2> QED
    BY <1>9, <2>4, <2>5
<1>10. ASSUME c \notin Single, c # ".", ~(c = "=" /\ twice)
       PROVE  TokenEnd(s, i) = i /\ Type(s, i, i) = "UNKNOWN"
  <2>1. \A j \in i..Len(s) : ~IsSymbol(s, i, j)
    <3> SUFFICES ASSUME NEW j \in i..Len(s), IsSymbol(s, i, j) PROVE FALSE
      OBVIOUS
    <3>1. j = i + 1 /\ s[i] = "=" /\ s[j] = s[i]
      BY <1>10 DEF IsSymbol
    <3> QED
      BY <1>10, <3>1
  <2>2. TokenEnd(s, i) = i
    BY <1>4, <2>1, NoLexeme
  <2>3. Type(s, i, i) = "UNKNOWN"
    BY <1>8, <1>10 DEF Type
  <2> QED
    BY <2>2, <2>3
<1> QED
  BY <1>1, <1>6, <1>7, <1>9, <1>10

-----------------------------------------------------------------------------
(* What a step leaves of the tokens *)

Loops == {"skip", "line", "block", "done", "failed"} \cup Tokenizing

LEMMA TokensAreKept ==
  ASSUME TokensOK, pc # "done", source' = source, oom => oom',
         NEW k, k \in DOMAIN tokens, tokens'[k] = tokens[k], k # 1 => tokens'[k - 1] = tokens[k - 1]
  PROVE  InPlace(k)' /\ Means(tokens[k])' /\ tokens'[k].type # "EOF"
<1>1. InPlace(k) /\ Means(tokens[k]) /\ (tokens[k].type = "EOF") = (k = Len(tokens) /\ pc = "done")
  BY DEF TokensOK
<1>2. InPlace(k)'
  BY <1>1 DEF InPlace
<1>3. Means(tokens[k])'
  BY <1>1 DEF Means, MeansWord, MeansString
<1>4. tokens[k].type # "EOF"
  BY <1>1
<1> QED
  BY <1>2, <1>3, <1>4

\* Without a new token nothing is to show but where the scanner is.
LEMMA QuietKeeps ==
  ASSUME LexInv, pc # "done", pc' \in Loops, pc' # "done",
         source' = source, tokens' = tokens, keywords' = keywords,
         oom => oom', oom' \in BOOLEAN,
         On(source, here'),
         Skipping(source, TokenFrom(source, Reached(tokens)), pc', here'.at),
         pc' \in Tokenizing =>
           /\ On(source, start') /\ start'.at < here'.at /\ start'.at = TokenFrom(source, Reached(tokens))
           /\ Reading(source, pc', start'.at, here'.at - 1)
  PROVE  LexInv'
<1>1. TokensOK'
  <2> SUFFICES ASSUME NEW k \in DOMAIN tokens
               PROVE  InPlace(k)' /\ Means(tokens[k])' /\ (tokens'[k].type = "EOF") = (k = Len(tokens') /\ pc' = "done")
    BY DEF TokensOK
  <2>1. TokensOK
    BY DEF LexInv
  <2>2. InPlace(k)' /\ Means(tokens[k])' /\ tokens'[k].type # "EOF"
    BY <2>1, TokensAreKept
  <2> QED
    BY <2>2
<1>2. (tokens \in Seq(Range(tokens)))'
  BY DEF LexInv
<1>3. /\ source' \in Sources /\ keywords' \subseteq Keyword /\ (~oom' => keywords' = Keyword)
  BY DEF LexInv
<1> QED
  BY <1>1, <1>2, <1>3 DEF LexInv, Loops

-----------------------------------------------------------------------------
(* A new token *)

Emitted(t) ==
  /\ source' = source /\ keywords' = keywords /\ start' = t.from /\ here' = t.to
  /\ oom' \in BOOLEAN /\ (oom => oom')
  /\ \/ tokens' = Append(tokens, t) /\ pc' = IF t.type = "EOF" THEN "done" ELSE "skip"
     \/ tokens' = tokens /\ pc' = "failed" /\ oom'

LEMMA EmitIs ==
  ASSUME oom \in BOOLEAN, NEW type, NEW rec, NEW to, NEW lost \in BOOLEAN, Emit(type, rec, to, lost)
  PROVE  \E t : /\ Emitted(t) /\ t.type = type /\ t.rec = rec /\ t.from = start' /\ t.to = to
                /\ (lost => oom')
<1>1. PICK t : t = [type |-> type, from |-> start', to |-> to, rec |-> rec]
  OBVIOUS
<1>2. t.type = type /\ t.rec = rec /\ t.from = start' /\ t.to = to
  BY <1>1
<1>3. /\ here' = to /\ source' = source /\ keywords' = keywords
      /\ \/ tokens' = Append(tokens, t) /\ pc' = (IF type = "EOF" THEN "done" ELSE "skip") /\ oom' = (oom \/ lost)
         \/ pc' = "failed" /\ oom' = TRUE /\ tokens' = tokens
  BY <1>1 DEF Emit
<1>4. oom' \in BOOLEAN /\ (oom => oom') /\ (lost => oom')
  BY <1>3
<1>5. Emitted(t)
  BY <1>2, <1>3, <1>4 DEF Emitted
<1> QED
  BY <1>2, <1>4, <1>5

\* t stands where the source goes on and ends where its token does.
Placed(t) ==
  LET from == TokenFrom(source, Reached(tokens))
      to   == IF from > Len(source) THEN from ELSE TokenEnd(source, from) + 1
  IN  t.from = PlaceOf(source, from) /\ t.to = PlaceOf(source, to)

LEMMA EmitKeeps ==
  ASSUME LexInv, pc # "done", NEW t, Emitted(t), Placed(t), Means(t)', On(source, t.to)
  PROVE  LexInv'
<1>1. CASE tokens' = tokens /\ pc' = "failed" /\ oom'
  <2>1. Skipping(source, TokenFrom(source, Reached(tokens)), pc', here'.at) /\ pc' \notin Tokenizing
    BY <1>1 DEF Skipping, Tokenizing
  <2>2. pc' \in Loops /\ pc' # "done"
    BY <1>1 DEF Loops
  <2>3. /\ source' = source /\ keywords' = keywords /\ (oom => oom') /\ oom' \in BOOLEAN
        /\ On(source, here')
    BY DEF Emitted
  <2> QED
    BY <1>1, <2>1, <2>2, <2>3, QuietKeeps
<1>2. CASE tokens' = Append(tokens, t) /\ pc' = IF t.type = "EOF" THEN "done" ELSE "skip"
  <2> DEFINE n == Len(tokens)
  <2>1. IsSeq(tokens)
    BY DEF LexInv, IsSeq
  <2>2. /\ n \in Nat /\ DOMAIN tokens = 1..n /\ IsSeq(tokens')
        /\ Len(tokens') = n + 1 /\ DOMAIN tokens' = 1..(n + 1)
        /\ \A k \in 1..n : tokens'[k] = tokens[k]
        /\ tokens'[n + 1] = t /\ tokens' # <<>>
    BY <1>2, <2>1, AppendIs, SeqIs
  <2>3. source' = source /\ keywords' = keywords /\ here' = t.to /\ oom' \in BOOLEAN /\ (oom => oom')
    BY DEF Emitted
  <2>4. Reached(tokens) = IF n = 0 THEN 1 ELSE tokens[n].to.at
    <3>1. tokens = <<>> <=> n = 0
      BY <2>1 DEF IsSeq
    <3> QED
      BY <3>1 DEF Reached
  <2>5. Reached(tokens') = t.to.at
    BY <2>2 DEF Reached
  <2>6. TokensOK'
    <3> SUFFICES ASSUME NEW k \in 1..(n + 1)
                 PROVE  InPlace(k)' /\ Means(tokens[k])' /\ (tokens'[k].type = "EOF") = (k = Len(tokens') /\ pc' = "done")
      BY <2>2 DEF TokensOK
    <3>1. CASE k \in 1..n
      <4>1. k \in DOMAIN tokens /\ tokens'[k] = tokens[k] /\ (k # 1 => tokens'[k - 1] = tokens[k - 1])
        BY <2>2, <3>1
      <4>2. TokensOK
        BY DEF LexInv
      <4>3. InPlace(k)' /\ Means(tokens[k])' /\ tokens'[k].type # "EOF"
        BY <2>3, <4>1, <4>2, TokensAreKept
      <4>4. k # Len(tokens')
        BY <2>2, <3>1
      <4> QED
        BY <4>3, <4>4
    <3>2. CASE k = n + 1
      <4>1. tokens'[k] = t /\ k = Len(tokens')
        BY <2>2, <3>2
      <4>2. Reached(tokens) = IF k = 1 THEN 1 ELSE tokens'[k - 1].to.at
        <5>1. n = 0 <=> k = 1
          BY <2>2, <3>2
        <5>2. n # 0 => n \in 1..n /\ k - 1 = n
          BY <2>2, <3>2
        <5> HIDE DEF n
        <5> QED
          BY <2>2, <2>4, <5>1, <5>2
      <4>3. InPlace(k)'
        BY <2>3, <4>1, <4>2 DEF InPlace, Placed
      <4>4. Means(tokens[k])'
        BY <4>1 DEF Means, MeansWord, MeansString
      <4>5. (t.type = "EOF") = (pc' = "done")
        BY <1>2
      <4> QED
        BY <4>1, <4>3, <4>4, <4>5
    <3> QED
      BY <3>1, <3>2
  <2>7. pc' \in {"skip", "done"}
    BY <1>2
  <2>8. pc' = "skip" => TokenFrom(source', here'.at) = TokenFrom(source', Reached(tokens'))
    BY <2>3, <2>5
  <2>9. Skipping(source', TokenFrom(source', Reached(tokens')), pc', here'.at) /\ pc' \notin Tokenizing
    BY <2>7, <2>8 DEF Skipping, Tokenizing
  <2>10. source' \in Sources /\ keywords' \subseteq Keyword /\ (~oom' => keywords' = Keyword) /\ On(source', here')
    BY <2>3 DEF LexInv
  <2> QED
    BY <2>2, <2>3, <2>6, <2>7, <2>9, <2>10 DEF LexInv, IsSeq
<1> QED
  BY <1>1, <1>2 DEF Emitted

-----------------------------------------------------------------------------
(* White space and comments are stepped over *)

LEMMA Standing ==
  ASSUME LexInv
  PROVE  /\ source \in Sources /\ IsSeq(source) /\ Len(source) \in Nat /\ here.at \in 1..(Len(source) + 1)
         /\ Ended <=> here.at = Len(source) + 1
         /\ Char = IF here.at <= Len(source) THEN source[here.at] ELSE "nul"
         /\ Following = IF here.at < Len(source) THEN source[here.at + 1] ELSE "nul"
         /\ On(source, here)
         /\ On(source, After(here)) /\ After(here).at = IF here.at <= Len(source) THEN here.at + 1 ELSE here.at
         /\ On(source, After(After(here)))
         /\ After(After(here)).at = IF here.at < Len(source) THEN here.at + 2 ELSE Len(source) + 1
<1>1. source \in Sources /\ On(source, here)
  BY DEF LexInv
<1>2. IsSeq(source) /\ Len(source) \in Nat
  BY <1>1, SourceIs
<1>3. here.at \in 1..(Len(source) + 1)
  BY <1>1 DEF On
<1>4. On(source, After(here)) /\ After(here).at = IF here.at <= Len(source) THEN here.at + 1 ELSE here.at
  BY <1>1, AfterIs
<1>5. /\ On(source, After(After(here)))
      /\ After(After(here)).at = IF After(here).at <= Len(source) THEN After(here).at + 1 ELSE After(here).at
  BY <1>1, <1>4, AfterIs
<1>6. After(After(here)).at = IF here.at < Len(source) THEN here.at + 2 ELSE Len(source) + 1
  BY <1>2, <1>3, <1>4, <1>5
<1>7. Ended <=> here.at = Len(source) + 1
  BY <1>2, <1>3 DEF Ended
<1>8. Char = IF here.at <= Len(source) THEN source[here.at] ELSE "nul"
  BY DEF Char, CharAt
<1>9. Following = IF here.at < Len(source) THEN source[here.at + 1] ELSE "nul"
  BY <1>2, <1>3 DEF Following, CharAt
<1> QED
  BY <1>1, <1>2, <1>3, <1>4, <1>5, <1>6, <1>7, <1>8, <1>9

\* A move from loop to loop outside of tokens.
LEMMA SkipKeeps ==
  ASSUME LexInv, pc # "done", NEW p, On(source, p), NEW loop \in {"skip", "line", "block"}, Move(p, loop),
         Skipping(source, TokenFrom(source, Reached(tokens)), loop, p.at)
  PROVE  LexInv'
<1>1. /\ here' = p /\ pc' = loop /\ source' = source /\ tokens' = tokens /\ keywords' = keywords /\ oom' = oom
      /\ oom \in BOOLEAN
  BY DEF Move, LexInv
<1>2. pc' \in Loops /\ pc' # "done" /\ pc' \notin Tokenizing
  BY <1>1 DEF Loops, Tokenizing
<1> QED
  BY <1>1, <1>2, QuietKeeps

LEMMA SkipSpaceKeeps ==
  ASSUME LexInv, SkipSpace
  PROVE  LexInv'
<1> DEFINE n == Len(source)
           h == here.at
           goal == TokenFrom(source, Reached(tokens))
<1>1. pc = "skip" /\ Char \in Space /\ Move(After(here), "skip")
  BY DEF SkipSpace
<1>2. h \in 1..n /\ n \in Nat /\ source[h] \in Space /\ After(here).at = h + 1 /\ On(source, After(here))
  BY <1>1, Standing, Classes, Signs
<1>3. TokenFrom(source, h) = goal
  BY <1>1 DEF LexInv, Skipping
<1>4. TokenFrom(source, h) = TokenFrom(source, h + 1)
  <2>1. Blank(source, h) /\ Beyond(source, h) = h + 1 /\ h \in 1..(n + 3)
    BY <1>2 DEF Blank, Beyond
  <2> QED
    BY <1>2, <2>1, TokenFromIs
<1>5. Skipping(source, goal, "skip", After(here).at)
  BY <1>2, <1>3, <1>4 DEF Skipping
<1> QED
  BY <1>1, <1>2, <1>5, SkipKeeps

LEMMA OpenCommentKeeps ==
  ASSUME LexInv, OpenComment
  PROVE  LexInv'
<1> DEFINE n == Len(source)
           h == here.at
           goal == TokenFrom(source, Reached(tokens))
           p == After(After(here))
<1>1. /\ pc = "skip" /\ Char = "/"
      /\ \/ Following = "/" /\ Move(p, "line")
         \/ Following = "*" /\ Move(p, "block")
  BY DEF OpenComment, Comment
<1>2. /\ h \in 1..n /\ n \in Nat /\ h < n /\ source[h] = "/" /\ source[h + 1] = Following
      /\ p.at = h + 2 /\ On(source, p)
  BY <1>1, Standing
<1>3. TokenFrom(source, h) = goal
  BY <1>1 DEF LexInv, Skipping
<1>4. source[h] \notin Space
  BY <1>2, Classes, Signs
<1>5. h \in Nat /\ h \in 1..(n + 3)
  BY <1>2
<1> HIDE DEF p, goal
<1>6. CASE Following = "/" /\ Move(p, "line")
  <2>1. Has(source, h, <<"/", "/">>)
    BY <1>2, <1>5, <1>6, HasTwo
  <2>2. Blank(source, h) /\ Beyond(source, h) = FirstFrom(source, h + 2, <<"nl">>)
    BY <1>2, <1>4, <2>1 DEF Blank, Beyond
  <2>3. TokenFrom(source, FirstFrom(source, h + 2, <<"nl">>)) = goal
    BY <1>2, <1>3, <1>5, <2>2, TokenFromIs
  <2>4. Skipping(source, goal, "line", p.at)
    BY <1>2, <2>3 DEF Skipping
  <2> QED
    BY <1>1, <1>2, <1>6, <2>4, SkipKeeps DEF goal
<1>7. CASE Following = "*" /\ Move(p, "block")
  <2>1. Has(source, h, <<"/", "*">>) /\ ~Has(source, h, <<"/", "/">>)
    BY <1>2, <1>5, <1>7, HasTwo
  <2>2. Blank(source, h) /\ Beyond(source, h) = FirstFrom(source, h + 2, <<"*", "/">>) + 2
    BY <1>2, <1>4, <2>1 DEF Blank, Beyond
  <2>3. TokenFrom(source, FirstFrom(source, h + 2, <<"*", "/">>) + 2) = goal
    BY <1>2, <1>3, <1>5, <2>2, TokenFromIs
  <2>4. Skipping(source, goal, "block", p.at)
    BY <1>2, <2>3 DEF Skipping
  <2> QED
    BY <1>1, <1>2, <1>7, <2>4, SkipKeeps DEF goal
<1> QED
  BY <1>1, <1>6, <1>7

LEMMA InLineKeeps ==
  ASSUME LexInv, InLine
  PROVE  LexInv'
<1> DEFINE n == Len(source)
           h == here.at
           goal == TokenFrom(source, Reached(tokens))
           first(i) == FirstFrom(source, i, <<"nl">>)
<1>1. pc = "line" /\ IF Ended \/ Char = "nl" THEN Move(here, "skip") ELSE Move(After(here), "line")
  BY DEF InLine
<1>2. n \in Nat /\ h \in Nat /\ h \in 1..(n + 1) /\ On(source, here) /\ On(source, After(here))
  BY Standing
<1>3. TokenFrom(source, first(h)) = goal
  BY <1>1 DEF LexInv, Skipping
<1>4. CASE Ended \/ Char = "nl"
  <2>1. first(h) = h
    <3>1. CASE Ended
      BY <1>2, <3>1, Standing, FirstIs
    <3>2. CASE ~Ended /\ Char = "nl"
      <4>1. h <= n /\ source[h] = "nl"
        BY <1>2, <3>2, Standing
      <4> QED
        BY <1>2, <4>1, HasOne, FirstIs
    <3> QED
      BY <1>4, <3>1, <3>2
  <2>2. Skipping(source, goal, "skip", h)
    BY <1>3, <2>1 DEF Skipping
  <2> QED
    BY <1>1, <1>2, <1>4, <2>2, SkipKeeps
<1>5. CASE ~(Ended \/ Char = "nl")
  <2>1. h <= n /\ source[h] # "nl" /\ After(here).at = h + 1
    BY <1>2, <1>5, Standing
  <2>2. first(h) = first(h + 1)
    BY <1>2, <2>1, HasOne, FirstIs
  <2>3. Skipping(source, goal, "line", After(here).at)
    BY <1>3, <2>1, <2>2 DEF Skipping
  <2> QED
    BY <1>1, <1>2, <1>5, <2>3, SkipKeeps
<1> QED
  BY <1>4, <1>5

LEMMA InBlockKeeps ==
  ASSUME LexInv, InBlock
  PROVE  LexInv'
<1> DEFINE n == Len(source)
           h == here.at
           goal == TokenFrom(source, Reached(tokens))
           first(i) == FirstFrom(source, i, <<"*", "/">>)
<1>1. /\ pc = "block"
      /\ \/ Ended /\ Move(here, "skip")
         \/ Char = "*" /\ Following = "/" /\ Move(After(After(here)), "skip")
         \/ ~Ended /\ ~(Char = "*" /\ Following = "/") /\ Move(After(here), "block")
  BY DEF InBlock
<1>2. /\ n \in Nat /\ h \in Nat /\ h \in 1..(n + 1)
      /\ On(source, here) /\ On(source, After(here)) /\ On(source, After(After(here)))
  BY Standing
<1>3. TokenFrom(source, first(h) + 2) = goal
  BY <1>1 DEF LexInv, Skipping
<1>4. CASE Ended /\ Move(here, "skip")
  <2>1. h = n + 1 /\ first(h) = n + 1
    BY <1>2, <1>4, Standing, FirstIs
  <2>2. TokenFrom(source, n + 1) = n + 1 /\ TokenFrom(source, (n + 1) + 2) = n + 1
    <3>1. ~Blank(source, n + 1) /\ ~Blank(source, (n + 1) + 2)
      BY <1>2 DEF Blank
    <3>2. n + 1 \in 1..(n + 3) /\ (n + 1) + 2 \in 1..(n + 3) /\ ~(n + 1 <= n) /\ ~((n + 1) + 2 <= n)
      BY <1>2
    <3> QED
      BY <1>2, <3>1, <3>2, TokenFromIs
  <2>3. Skipping(source, goal, "skip", h)
    BY <1>3, <2>1, <2>2 DEF Skipping
  <2> QED
    BY <1>1, <1>2, <1>4, <2>3, SkipKeeps
<1>5. CASE Char = "*" /\ Following = "/" /\ Move(After(After(here)), "skip")
  <2>1. h < n /\ source[h] = "*" /\ source[h + 1] = "/" /\ After(After(here)).at = h + 2
    BY <1>2, <1>5, Standing
  <2>2. first(h) = h
    <3>1. h + 1 <= n /\ h <= n
      BY <1>2, <2>1
    <3>2. Has(source, h, <<"*", "/">>)
      BY <1>2, <2>1, <3>1, HasTwo
    <3> QED
      BY <1>2, <3>1, <3>2, FirstIs
  <2>3. Skipping(source, goal, "skip", After(After(here)).at)
    BY <1>3, <2>1, <2>2 DEF Skipping
  <2> QED
    BY <1>1, <1>2, <1>5, <2>3, SkipKeeps
<1>6. CASE ~Ended /\ ~(Char = "*" /\ Following = "/") /\ Move(After(here), "block")
  <2>1. h <= n /\ After(here).at = h + 1 /\ ~(h + 1 <= n /\ source[h] = "*" /\ source[h + 1] = "/")
    BY <1>2, <1>6, Standing
  <2>2. first(h) = first(h + 1)
    <3>1. ~Has(source, h, <<"*", "/">>)
      BY <1>2, <2>1, HasTwo
    <3> QED
      BY <1>2, <2>1, <3>1, FirstIs
  <2>3. Skipping(source, goal, "block", After(here).at)
    BY <1>3, <2>1, <2>2 DEF Skipping
  <2> QED
    BY <1>1, <1>2, <1>6, <2>3, SkipKeeps
<1> QED
  BY <1>1, <1>4, <1>5, <1>6

-----------------------------------------------------------------------------
(* A token is read character by character *)

LEMMA BeginKeeps ==
  ASSUME LexInv, Begin
  PROVE  LexInv'
<1> DEFINE n == Len(source)
           h == here.at
           goal == TokenFrom(source, Reached(tokens))
           c == source[h]
<1>1. /\ pc = "skip" /\ ~Ended /\ Char \notin Space /\ ~Comment("/") /\ ~Comment("*")
      /\ start' = here /\ here' = After(here) /\ pc' = Kind
      /\ source' = source /\ tokens' = tokens /\ keywords' = keywords /\ oom' = oom
  BY DEF Begin
<1>2. /\ n \in Nat /\ h \in 1..n /\ h \in Nat /\ Char = c /\ c \notin Space
      /\ Following = (IF h < n THEN source[h + 1] ELSE "nul")
      /\ On(source, here) /\ On(source, After(here)) /\ After(here).at = h + 1
      /\ (h + 1) - 1 = h
  BY <1>1, Standing
<1>3. h = goal
  <2>1. TokenFrom(source, h) = goal
    BY <1>1 DEF LexInv, Skipping
  <2>2. ~Has(source, h, <<"/", "/">>) /\ ~Has(source, h, <<"/", "*">>)
    <3>1. \A b : Has(source, h, <<"/", b>>) <=> h + 1 <= n /\ c = "/" /\ source[h + 1] = b
      BY <1>2, HasTwo
    <3>2. \A b \in {"/", "*"} : ~(h + 1 <= n /\ c = "/" /\ source[h + 1] = b)
      BY <1>1, <1>2 DEF Comment
    <3> QED
      BY <3>1, <3>2
  <2>3. ~Blank(source, h) /\ h \in 1..(n + 3) /\ h <= n
    BY <1>2, <2>2 DEF Blank
  <2> QED
    BY <1>2, <2>1, <2>3, TokenFromIs
<1>4. Kind \in {"word", "digits", "string", "symbol"} /\ Reading(source, Kind, h, h)
  <2>0. \A k \in (h + 1)..h : FALSE
    BY <1>2
  <2>1. CASE c \in Alpha
    <3>1. c \notin Digit /\ c # "-" /\ c # Quote
      BY <2>1, Classes, Signs
    <3>2. Kind = "word"
      BY <1>2, <2>1, <3>1, Zenon DEF Kind
    <3>3. IsWord(source, h, h)
      BY <1>2, <2>1 DEF IsWord, All
    <3> QED
      BY <2>0, <3>2, <3>3 DEF Reading
  <2>2. CASE c \in Digit \/ (c = "-" /\ Following \in Digit)
    <3>1. c \notin Alpha /\ c # Quote
      BY <2>2, Classes, Signs, QuoteIs
    <3>2. Kind = "digits"
      BY <1>2, <2>2, <3>1, Zenon DEF Kind
    <3>3. CASE c \in Digit
      <4>1. IsInt(source, h, h)
        BY <1>2, <3>3 DEF IsInt, All
      <4> QED
        BY <2>0, <3>2, <4>1 DEF Reading
    <3>4. CASE c \notin Digit
      <4>1. Following \in Digit /\ h < n /\ source[h + 1] \in Digit /\ c = "-"
        BY <1>2, <2>2, <3>4, Classes, Signs
      <4> QED
        BY <1>2, <2>0, <3>2, <4>1 DEF Reading
    <3> QED
      BY <3>3, <3>4
  <2>3. CASE c = Quote
    <3>1. c \notin Alpha /\ c \notin Digit /\ c # "-" /\ c # "\\"
      BY <2>3, Classes, Signs, QuoteIs
    <3>2. Kind = "string"
      BY <1>2, <2>3, <3>1, Zenon DEF Kind
    <3>3. ~Escaper(source, h)
      BY <3>1 DEF Escaper
    <3> QED
      BY <2>0, <2>3, <3>2, <3>3 DEF Reading
  <2>4. CASE c \notin Alpha /\ ~(c \in Digit \/ (c = "-" /\ Following \in Digit)) /\ c # Quote
    <3>1. Kind = "symbol"
      BY <1>2, <2>4, Zenon DEF Kind
    <3>2. c \notin Alpha \cup Digit \cup Space \cup {Quote}
      BY <1>2, <2>4
    <3>3. c = "-" /\ h < n => source[h + 1] \notin Digit
      BY <1>2, <2>4
    <3> QED
      BY <3>1, <3>2, <3>3 DEF Reading
  <2> QED
    BY <2>1, <2>2, <2>3, <2>4
<1>5. pc' \in Loops /\ pc' # "done"
  BY <1>1, <1>4 DEF Loops, Tokenizing
<1>6. Skipping(source, goal, pc', here'.at)
  BY <1>1, <1>4 DEF Skipping
<1>7. On(source, here')
  BY <1>1, <1>2
<1>8. /\ On(source, start') /\ start'.at < here'.at /\ start'.at = goal
      /\ Reading(source, pc', start'.at, here'.at - 1)
  BY <1>1, <1>2, <1>3, <1>4
<1>9. oom \in BOOLEAN
  BY DEF LexInv
<1> HIDE DEF goal
<1> QED
  BY <1>1, <1>5, <1>6, <1>7, <1>8, <1>9, QuietKeeps DEF goal

\* A move from loop to loop within a token.
LEMMA ReadKeeps ==
  ASSUME LexInv, pc \in Tokenizing, NEW p, On(source, p), NEW loop \in Tokenizing, Move(p, loop),
         p.at > here.at, NEW j, j = p.at - 1, Reading(source, loop, start.at, j)
  PROVE  LexInv'
<1>1. /\ here' = p /\ pc' = loop /\ start' = start
      /\ source' = source /\ tokens' = tokens /\ keywords' = keywords /\ oom' = oom
      /\ oom \in BOOLEAN
  BY DEF Move, LexInv
<1>2. pc' \in Loops /\ pc' # "done" /\ pc # "done"
  BY <1>1 DEF Loops, Tokenizing
<1>3. Skipping(source, TokenFrom(source, Reached(tokens)), pc', here'.at)
  BY <1>1 DEF Skipping, Tokenizing
<1>4. On(source, start) /\ start.at < here.at /\ start.at = TokenFrom(source, Reached(tokens))
  BY DEF LexInv
<1>5. start.at < p.at
  <2>1. start.at \in Nat /\ here.at \in Nat /\ p.at \in Nat
    <3>1. Len(source) \in Nat /\ On(source, here)
      BY Standing
    <3> QED
      BY <1>4, <3>1 DEF On
  <2> QED
    BY <1>4, <2>1
<1> QED
  BY <1>1, <1>2, <1>3, <1>4, <1>5, QuietKeeps

\* What is known inside of a token.
LEMMA Inside ==
  ASSUME LexInv, pc \in Tokenizing
  PROVE  /\ Len(source) \in Nat /\ here.at \in (start.at + 1)..(Len(source) + 1) /\ start.at \in 1..Len(source)
         /\ start.at \in Nat /\ here.at \in Nat
         /\ On(source, start) /\ start.at = TokenFrom(source, Reached(tokens))
         /\ Reading(source, pc, start.at, here.at - 1)
<1>1. On(source, start) /\ start.at < here.at /\ start.at = TokenFrom(source, Reached(tokens))
      /\ Reading(source, pc, start.at, here.at - 1)
  BY DEF LexInv
<1>2. Len(source) \in Nat /\ here.at \in 1..(Len(source) + 1)
  BY Standing
<1>3. start.at \in 1..(Len(source) + 1)
  BY <1>1 DEF On
<1> QED
  BY <1>1, <1>2, <1>3

LEMMA InWordKeeps ==
  ASSUME LexInv, InWord
  PROVE  LexInv'
<1> DEFINE n == Len(source)
           h == here.at
           i == start.at
<1>1. pc = "word" /\ Char \in Alpha \cup Digit /\ Move(After(here), "word") /\ pc \in Tokenizing
  BY DEF InWord, Tokenizing
<1>2. n \in Nat /\ h \in (i + 1)..(n + 1) /\ i \in 1..n /\ IsWord(source, i, h - 1)
  BY <1>1, Inside DEF Reading
<1>3. h <= n /\ source[h] \in Alpha \cup Digit /\ After(here).at = h + 1 /\ On(source, After(here))
  BY <1>1, <1>2, Standing, Classes, Signs
<1>4. IsWord(source, i, h)
  <2>1. \A k \in i..h : k \in i..(h - 1) \/ k = h
    BY <1>2
  <2>2. i <= h
    BY <1>2
  <2> QED
    BY <1>2, <1>3, <2>1, <2>2 DEF IsWord, All
<1>5. Reading(source, "word", i, h)
  BY <1>4 DEF Reading
<1>6. h + 1 > h /\ h = (h + 1) - 1
  BY <1>2
<1> QED
  BY <1>1, <1>3, <1>5, <1>6, ReadKeeps

LEMMA InDigitsKeeps ==
  ASSUME LexInv, InDigits
  PROVE  LexInv'
<1> DEFINE n == Len(source)
           h == here.at
           i == start.at
<1>1. pc \in {"digits", "fraction"} /\ Char \in Digit /\ Move(After(here), pc) /\ pc \in Tokenizing
  BY DEF InDigits, Tokenizing
<1>2. n \in Nat /\ h \in (i + 1)..(n + 1) /\ i \in 1..n /\ Reading(source, pc, i, h - 1) /\ h \in Nat /\ i \in Nat
  BY <1>1, Inside
<1>3. h <= n /\ source[h] \in Digit /\ After(here).at = h + 1 /\ On(source, After(here))
  BY <1>1, <1>2, Standing, Classes, Signs
<1>4. h + 1 > h /\ h = (h + 1) - 1
  BY <1>2
<1>5. CASE pc = "digits"
  <2>1. IsInt(source, i, h - 1) \/ (h - 1 = i /\ i < n /\ source[i] = "-" /\ source[i + 1] \in Digit)
    BY <1>2, <1>5 DEF Reading
  <2>5. ASSUME IsInt(source, i, h) PROVE LexInv'
    <3>1. Reading(source, "digits", i, h)
      BY <2>5 DEF Reading
    <3> QED
      BY <1>1, <1>3, <1>4, <1>5, <3>1, ReadKeeps
  <2>2. CASE All(source, i, h - 1, Digit)
    <3>1. \A k \in i..h : k \in i..(h - 1) \/ k = h
      BY <1>2
    <3>2. All(source, i, h, Digit)
      BY <1>2, <1>3, <2>2, <3>1 DEF All
    <3> QED
      BY <2>5, <3>2 DEF IsInt
  <2>3. CASE source[i] = "-" /\ All(source, i + 1, h - 1, Digit)
    <3>1. \A k \in (i + 1)..h : k \in (i + 1)..(h - 1) \/ k = h
      BY <1>2
    <3>2. All(source, i + 1, h, Digit)
      BY <1>2, <1>3, <2>3, <3>1 DEF All
    <3> QED
      BY <2>5, <2>3, <3>2 DEF IsInt
  <2>4. CASE h - 1 = i /\ i < n /\ source[i] = "-" /\ source[i + 1] \in Digit
    <3>1. All(source, i + 1, h, Digit)
      BY <1>2, <2>4 DEF All
    <3> QED
      BY <2>5, <2>4, <3>1 DEF IsInt
  <2> QED
    BY <2>1, <2>2, <2>3, <2>4 DEF IsInt
<1>6. CASE pc = "fraction"
  <2>1. PICK k \in (i + 1)..(h - 1) : /\ source[k] = "." /\ IsInt(source, i, k - 1)
                                      /\ k < n /\ source[k + 1] \in Digit
                                      /\ \A m \in (k + 1)..(h - 1) : source[m] \in Digit
    BY <1>2, <1>6 DEF Reading
  <2>2. \A m \in (k + 1)..h : m \in (k + 1)..(h - 1) \/ m = h
    BY <1>2
  <2>3. k \in (i + 1)..h /\ \A m \in (k + 1)..h : source[m] \in Digit
    BY <1>2, <1>3, <2>1, <2>2
  <2>4. Reading(source, "fraction", i, h)
    BY <2>1, <2>3 DEF Reading
  <2> QED
    BY <1>1, <1>3, <1>4, <1>6, <2>4, ReadKeeps
<1> QED
  BY <1>1, <1>5, <1>6

LEMMA InStringKeeps ==
  ASSUME LexInv, InString
  PROVE  LexInv'
<1> DEFINE n == Len(source)
           h == here.at
           i == start.at
           p == IF Char = "\\" THEN After(After(here)) ELSE After(here)
<1>1. pc = "string" /\ ~Ended /\ Char # Quote /\ Move(p, "string") /\ pc \in Tokenizing /\ "string" \in Tokenizing
  BY DEF InString, Tokenizing
<1>2. n \in Nat /\ h \in (i + 1)..(n + 1) /\ i \in 1..n /\ h \in Nat /\ i \in Nat
  BY <1>1, Inside
<1>3. /\ source[i] = Quote
      /\ \A k \in (i + 1)..(h - 1) : source[k] = Quote => Escaper(source, k - 1)
      /\ h - 1 < n => ~Escaper(source, h - 1)
  BY <1>1, Inside DEF Reading
<1>4. h <= n /\ Char = source[h] /\ source[h] # Quote /\ ~Escaper(source, h - 1) /\ h # 1
  BY <1>1, <1>2, <1>3, Standing
<1>5. /\ On(source, p)
      /\ p.at = IF source[h] = "\\" /\ h < n THEN h + 2 ELSE h + 1
  BY <1>2, <1>4, Standing
<1> HIDE DEF p
<1>6. Escaper(source, h) <=> source[h] = "\\"
  <2>1. h \in Nat \ {0}
    BY <1>2
  <2> QED
    BY <1>4, <2>1, EscaperIs
<1>7. p.at > h
  BY <1>2, <1>5
<1>8. CASE source[h] = "\\" /\ h < n
  <2>1. h + 1 = p.at - 1
    BY <1>2, <1>5, <1>8
  <2>2. ~Escaper(source, h + 1)
    <3>1. h + 1 \in Nat \ {0} /\ h + 1 # 1 /\ (h + 1) - 1 = h
      BY <1>2
    <3> QED
      BY <1>6, <1>8, <3>1, EscaperIs
  <2>3. \A k \in (i + 1)..(h + 1) : source[k] = Quote => Escaper(source, k - 1)
    <3> SUFFICES ASSUME NEW k \in (i + 1)..(h + 1), source[k] = Quote PROVE Escaper(source, k - 1)
      OBVIOUS
    <3>1. k \in (i + 1)..(h - 1) \/ k = h \/ (k = h + 1 /\ k - 1 = h)
      BY <1>2
    <3> QED
      BY <1>3, <1>4, <1>6, <1>8, <3>1
  <2>4. Reading(source, "string", i, h + 1)
    BY <1>3, <2>2, <2>3 DEF Reading
  <2> QED
    BY <1>1, <1>5, <1>7, <2>1, <2>4, ReadKeeps
<1>9. CASE ~(source[h] = "\\" /\ h < n)
  <2>1. h = p.at - 1
    BY <1>2, <1>5, <1>9
  <2>2. h < n => ~Escaper(source, h)
    <3>1. h < n => source[h] # "\\"
      BY <1>2, <1>9
    <3> QED
      BY <1>6, <3>1
  <2>3. \A k \in (i + 1)..h : source[k] = Quote => Escaper(source, k - 1)
    <3> SUFFICES ASSUME NEW k \in (i + 1)..h, source[k] = Quote PROVE Escaper(source, k - 1)
      OBVIOUS
    <3>1. k \in (i + 1)..(h - 1) \/ k = h
      BY <1>2
    <3> QED
      BY <1>3, <1>4, <3>1
  <2>4. Reading(source, "string", i, h)
    BY <1>3, <2>2, <2>3 DEF Reading
  <2> QED
    BY <1>1, <1>5, <1>7, <2>1, <2>4, ReadKeeps
<1> QED
  BY <1>8, <1>9

-----------------------------------------------------------------------------
(* The end of a token *)

LEMMA AtEndKeeps ==
  ASSUME LexInv, AtEnd
  PROVE  LexInv'
<1> DEFINE n == Len(source)
<1>1. pc = "skip" /\ Ended /\ start' = here /\ Emit("EOF", <<>>, here, FALSE) /\ oom \in BOOLEAN /\ pc # "done"
  BY DEF AtEnd, LexInv
<1>2. n \in Nat /\ here.at = n + 1 /\ On(source, here)
  BY <1>1, Standing
<1>9. PICK t : Emitted(t) /\ t.type = "EOF" /\ t.rec = <<>> /\ t.from = start' /\ t.to = here
  <2> DEFINE none == <<>>
             lost == FALSE
  <2>1. lost \in BOOLEAN /\ Emit("EOF", none, here, lost)
    BY <1>1
  <2> HIDE DEF none, lost
  <2>2. PICK t : Emitted(t) /\ t.type = "EOF" /\ t.rec = none /\ t.from = start' /\ t.to = here
    BY ONLY <1>1, <2>1, EmitIs
  <2> QED
    BY <2>2 DEF none
<1>3. Emitted(t) /\ t.type = "EOF" /\ t.rec = <<>> /\ t.from = here /\ t.to = here
  BY <1>1, <1>9
<1>4. TokenFrom(source, Reached(tokens)) = n + 1
  <2>1. TokenFrom(source, here.at) = TokenFrom(source, Reached(tokens))
    BY <1>1 DEF LexInv, Skipping
  <2>2. ~Blank(source, n + 1) /\ n + 1 \in 1..(n + 3) /\ ~(n + 1 <= n)
    BY <1>2 DEF Blank
  <2> QED
    BY <1>2, <2>1, <2>2, TokenFromIs
<1>5. Placed(t)
  <2>1. n + 1 > n /\ here = PlaceOf(source, n + 1)
    BY <1>2 DEF On
  <2> QED
    BY <1>3, <1>4, <2>1 DEF Placed
<1>6. Means(t)'
  <2>1. t.from.at > t.to.at - 1
    BY <1>2, <1>3
  <2> QED
    BY <1>3, <2>1 DEF Means
<1> QED
  BY <1>1, <1>2, <1>3, <1>5, <1>6, EmitKeeps

\* A token read from start on whose last character is at e.
LEMMA EndKeeps ==
  ASSUME LexInv, pc \in Tokenizing, start' = start,
         NEW type, NEW rec, NEW to, NEW lost \in BOOLEAN, Emit(type, rec, to, lost), On(source, to),
         NEW e, e = to.at - 1, start.at <= e, TokenEnd(source, start.at) = e,
         IsWord(source, start.at, e) =>
           LET w == SubSeq(source, start.at, e)
           IN  \/ type = "KEYWORD" /\ w \in keywords /\ rec = <<w>>
               \/ type = "IDENTIFIER" /\ w \notin keywords /\ rec = <<w>>
               \/ type = "UNKNOWN" /\ rec = <<>> /\ lost,
         ~IsWord(source, start.at, e) =>
           /\ type = Type(source, start.at, e)
           /\ source[start.at] # Quote => rec = <<>>
           /\ IsString(source, start.at, e) =>
                \/ rec = IF e > start.at + 1 THEN <<Contents(source, start.at, e)>> ELSE <<>>
                \/ rec = <<>> /\ lost
  PROVE  LexInv'
<1> DEFINE i == start.at
<1>1. oom \in BOOLEAN /\ pc # "done" /\ keywords \subseteq Keyword /\ (~oom => keywords = Keyword)
  BY DEF LexInv, Tokenizing
<1>2. /\ On(source, start) /\ i = TokenFrom(source, Reached(tokens)) /\ i \in 1..Len(source) /\ Len(source) \in Nat
      /\ i \in Nat
  BY Inside
<1>3. PICK t : Emitted(t) /\ t.type = type /\ t.rec = rec /\ t.from = start /\ t.to = to /\ (lost => oom')
  BY <1>1, EmitIs
<1>4. to.at \in Nat /\ to.at = e + 1 /\ to = PlaceOf(source, e + 1) /\ start = PlaceOf(source, i)
  <2>1. to.at \in 1..(Len(source) + 1) /\ to = PlaceOf(source, to.at)
    BY DEF On
  <2>2. to.at = e + 1
    BY <1>2, <2>1
  <2> QED
    BY <1>2, <2>1, <2>2 DEF On
<1>5. Placed(t)
  <2>1. ~(i > Len(source))
    BY <1>2
  <2> QED
    BY <1>2, <1>3, <1>4, <2>1 DEF Placed
<1>6. Means(t)'
  <2>1. ~(i > e) /\ t.from.at = i /\ t.to.at - 1 = e /\ source' = source /\ (oom => oom') /\ oom' \in BOOLEAN
    BY <1>2, <1>3, <1>4 DEF Emitted
  <2>2. CASE IsWord(source, i, e)
    <3> DEFINE w == SubSeq(source, i, e)
    <3>1. \/ t.type = "KEYWORD" /\ w \in keywords /\ t.rec = <<w>>
          \/ t.type = "IDENTIFIER" /\ w \notin keywords /\ t.rec = <<w>>
          \/ t.type = "UNKNOWN" /\ t.rec = <<>> /\ lost
      BY <1>3, <2>2
    <3> HIDE DEF w
    <3>2. \/ t.type = (IF w \in Keyword THEN "KEYWORD" ELSE "IDENTIFIER") /\ t.rec = <<w>>
          \/ oom' /\ t.type = "IDENTIFIER" /\ t.rec = <<w>>
          \/ oom' /\ t.type = "UNKNOWN" /\ t.rec = <<>>
      BY <1>1, <1>3, <2>1, <3>1
    <3> QED
      BY <2>1, <2>2, <3>2 DEF Means, MeansWord, w
  <2>3. CASE ~IsWord(source, i, e)
    <3>1. t.type = Type(source, i, e) /\ (source[i] # Quote => t.rec = <<>>)
      BY <1>3, <2>3
    <3>2. IsString(source, i, e) =>
            \/ t.rec = IF e > i + 1 THEN <<Contents(source, i, e)>> ELSE <<>>
            \/ oom' /\ t.rec = <<>>
      BY <1>3, <2>3
    <3> QED
      BY <2>1, <2>3, <3>1, <3>2 DEF Means, MeansString
  <2> QED
    BY <2>2, <2>3
<1>7. On(source, t.to)
  BY <1>3
<1> QED
  BY <1>1, <1>3, <1>5, <1>6, <1>7, EmitKeeps

LEMMA EndWordKeeps ==
  ASSUME LexInv, EndWord
  PROVE  LexInv'
<1> DEFINE n == Len(source)
           h == here.at
           i == start.at
           w == SubSeq(source, i, h - 1)
<1>1. /\ pc = "word" /\ pc \in Tokenizing /\ Char \notin Alpha \cup Digit /\ start' = start
      /\ \/ w \in keywords /\ Emit("KEYWORD", <<w>>, here, FALSE)
         \/ w \notin keywords /\ Emit("IDENTIFIER", <<w>>, here, FALSE)
         \/ w \notin keywords /\ Emit("UNKNOWN", <<>>, here, TRUE)
  BY DEF EndWord, Tokenizing
<1>2. n \in Nat /\ h \in (i + 1)..(n + 1) /\ i \in Nat /\ IsWord(source, i, h - 1) /\ On(source, here)
  BY <1>1, Inside, Standing DEF Reading
<1>3. h <= n => source[h] \notin Alpha \cup Digit
  BY <1>1, Standing
<1>4. TokenEnd(source, i) = h - 1 /\ i <= h - 1
  BY <1>2, <1>3, WordToken
<1>5. TRUE \in BOOLEAN /\ FALSE \in BOOLEAN
  OBVIOUS
<1> HIDE DEF w
<1>6. CASE w \in keywords /\ Emit("KEYWORD", <<w>>, here, FALSE)
  BY <1>1, <1>2, <1>4, <1>5, <1>6, EndKeeps DEF w
<1>7. CASE w \notin keywords /\ Emit("IDENTIFIER", <<w>>, here, FALSE)
  BY <1>1, <1>2, <1>4, <1>5, <1>7, EndKeeps DEF w
<1>8. CASE w \notin keywords /\ Emit("UNKNOWN", <<>>, here, TRUE)
  BY <1>1, <1>2, <1>4, <1>5, <1>8, EndKeeps DEF w
<1> QED
  BY <1>1, <1>6, <1>7, <1>8

LEMMA EndDigitsKeeps ==
  ASSUME LexInv, EndDigits
  PROVE  LexInv'
<1> DEFINE n == Len(source)
           h == here.at
           i == start.at
<1>1. /\ pc = "digits" /\ pc \in Tokenizing /\ Char \notin Digit
      /\ IF Char = "." /\ Following \in Digit
         THEN Move(After(here), "fraction")
         ELSE start' = start /\ Emit("INT_LIT", <<>>, here, FALSE)
  BY DEF EndDigits, Tokenizing
<1>2. /\ n \in Nat /\ h \in (i + 1)..(n + 1) /\ i \in 1..n /\ i \in Nat /\ h \in Nat
      /\ Reading(source, "digits", i, h - 1) /\ On(source, here) /\ On(source, After(here))
  BY <1>1, Inside, Standing
<1>3. h <= n => source[h] \notin Digit
  BY <1>1, Standing
<1>4. IsInt(source, i, h - 1)
  <2> SUFFICES ASSUME h - 1 = i, i < n, source[i + 1] \in Digit PROVE FALSE
    BY <1>2 DEF Reading
  <2>1. i + 1 = h /\ h <= n
    BY <1>2
  <2> QED
    BY <1>3, <2>1
<1>5. CASE Char = "." /\ Following \in Digit
  <2>1. h < n /\ source[h] = "." /\ source[h + 1] \in Digit /\ After(here).at = h + 1
    BY <1>2, <1>5, Standing, Classes, Signs
  <2>2. h \in (i + 1)..h /\ h = (h + 1) - 1 /\ h + 1 > h /\ \A m \in (h + 1)..h : FALSE
    BY <1>2
  <2>3. Reading(source, "fraction", i, h)
    BY <1>4, <2>1, <2>2 DEF Reading
  <2>4. "fraction" \in Tokenizing
    BY DEF Tokenizing
  <2> QED
    BY <1>1, <1>2, <1>5, <2>1, <2>2, <2>3, <2>4, ReadKeeps
<1>6. CASE ~(Char = "." /\ Following \in Digit)
  <2>1. ~(h < n /\ source[h] = "." /\ source[h + 1] \in Digit)
    BY <1>2, <1>6, Standing
  <2>2. /\ TokenEnd(source, i) = h - 1 /\ Type(source, i, h - 1) = "INT_LIT"
        /\ ~IsWord(source, i, h - 1) /\ source[i] # Quote
    BY <1>2, <1>3, <1>4, <2>1, IntToken
  <2>3. ~IsString(source, i, h - 1) /\ i <= h - 1 /\ FALSE \in BOOLEAN
    BY <1>2, <2>2 DEF IsString
  <2> QED
    BY <1>1, <1>2, <1>6, <2>2, <2>3, EndKeeps
<1> QED
  BY <1>5, <1>6

LEMMA EndFractionKeeps ==
  ASSUME LexInv, EndFraction
  PROVE  LexInv'
<1> DEFINE n == Len(source)
           h == here.at
           i == start.at
<1>1. /\ pc = "fraction" /\ pc \in Tokenizing /\ Char \notin Digit
      /\ start' = start /\ Emit("FLOAT_LIT", <<>>, here, FALSE)
  BY DEF EndFraction, Tokenizing
<1>2. /\ n \in Nat /\ h \in (i + 1)..(n + 1) /\ i \in 1..n /\ i \in Nat /\ h \in Nat
      /\ Reading(source, "fraction", i, h - 1) /\ On(source, here)
  BY <1>1, Inside, Standing
<1>3. h <= n => source[h] \notin Digit
  BY <1>1, Standing
<1>4. PICK k \in (i + 1)..(h - 1) : /\ source[k] = "." /\ IsInt(source, i, k - 1)
                                    /\ k < n /\ source[k + 1] \in Digit
                                    /\ \A m \in (k + 1)..(h - 1) : source[m] \in Digit
  BY <1>2 DEF Reading
<1>5. /\ TokenEnd(source, i) = h - 1 /\ Type(source, i, h - 1) = "FLOAT_LIT"
      /\ ~IsWord(source, i, h - 1) /\ source[i] # Quote
  BY <1>2, <1>3, <1>4, FloatToken
<1>6. ~IsString(source, i, h - 1) /\ i <= h - 1 /\ FALSE \in BOOLEAN
  BY <1>2, <1>5 DEF IsString
<1> QED
  BY <1>1, <1>2, <1>5, <1>6, EndKeeps

LEMMA Unwrapped ==
  ASSUME NEW w \in Nat, NEW m \in 0..(w - 1)
  PROVE  m % w = m
OBVIOUS

LEMMA EndStringKeeps ==
  ASSUME LexInv, EndString
  PROVE  LexInv'
<1> DEFINE n == Len(source)
           h == here.at
           i == start.at
           end == After(here)
           length == (end.at - i - 2) % Width
           raw == SubSeq(source, i + 1, end.at - 2)
<1>1. /\ pc = "string" /\ pc \in Tokenizing /\ (Ended \/ Char = Quote) /\ start' = start
      /\ \/ length = 0 \/ (length + 1) % Width = 0
         \/ length # 0
      /\ \/ (length = 0 \/ (length + 1) % Width = 0) /\ Emit("STRING_LIT", <<>>, end, FALSE)
         \/ length # 0 /\ Emit("STRING_LIT", <<Unescape(raw)>>, end, FALSE)
         \/ Emit("STRING_LIT", <<>>, end, TRUE)
  BY DEF EndString, Tokenizing
<1>2. /\ n \in Nat /\ h \in (i + 1)..(n + 1) /\ i \in 1..n /\ i \in Nat \ {0} /\ h \in Nat
      /\ IsSeq(source) /\ n + 2 < Width /\ Width \in Nat
      /\ Reading(source, "string", i, h - 1) /\ On(source, end)
  BY <1>1, Inside, Standing, SourceIs
<1>3. /\ source[i] = Quote
      /\ \A k \in (i + 1)..(h - 1) : source[k] = Quote => Escaper(source, k - 1)
      /\ h - 1 < n => ~Escaper(source, h - 1)
  BY <1>2 DEF Reading
<1>4. TRUE \in BOOLEAN /\ FALSE \in BOOLEAN
  OBVIOUS
<1>5. CASE Ended
  <2>1. h = n + 1 /\ end.at = n + 1 /\ h - 1 = n /\ n = end.at - 1 /\ i <= n
    BY <1>2, <1>5, Standing
  <2>2. /\ TokenEnd(source, i) = n /\ Type(source, i, n) = "STRING_LIT"
        /\ ~IsWord(source, i, n) /\ ~IsString(source, i, n)
    BY <1>2, <1>3, <2>1, OpenToken
  <2> HIDE DEF end, raw, length
  <2> QED
    BY <1>1, <1>2, <1>3, <1>4, <2>1, <2>2, EndKeeps
<1>6. CASE ~Ended
  <2>1. h <= n /\ source[h] = Quote /\ end.at = h + 1 /\ h = end.at - 1 /\ i <= h
    BY <1>1, <1>2, <1>6, Standing
  <2>2. /\ TokenEnd(source, i) = h /\ Type(source, i, h) = "STRING_LIT"
        /\ ~IsWord(source, i, h) /\ IsString(source, i, h)
    <3>1. ~Escaper(source, h - 1) /\ h \in (i + 1)..n
      BY <1>2, <1>3, <2>1
    <3> QED
      BY <1>2, <1>3, <2>1, <3>1, StringToken
  <2>3. length = h - i - 1 /\ length + 1 = h - i /\ (length + 1) % Width # 0
    <3> DEFINE m == end.at - i - 2
    <3>1. m = h - i - 1 /\ h - i - 1 \in 0..(Width - 1) /\ h - i \in 0..(Width - 1) /\ h - i # 0
      <4> HIDE DEF end
      <4>1. end.at = h + 1 /\ h \in Nat /\ i \in Nat /\ n \in Nat /\ Width \in Nat
            /\ i + 1 <= h /\ h <= n /\ n + 2 < Width
        BY <1>2, <2>1
      <4> HIDE DEF h, i, n
      <4> QED
        BY ONLY <4>1
    <3>2. (h - i - 1) % Width = h - i - 1 /\ (h - i) % Width = h - i
      BY <1>2, <3>1, Unwrapped
    <3>3. length = h - i - 1
      <4> HIDE DEF end
      <4> QED
        BY <3>1, <3>2
    <3> HIDE DEF length
    <3>4. length + 1 = h - i
      BY <1>2, <3>3
    <3> QED
      BY <3>1, <3>2, <3>3, <3>4
  <2>4. i + 1 < h => Unescape(raw) = Contents(source, i, h)
    <3> SUFFICES ASSUME i + 1 < h PROVE Unescape(raw) = Contents(source, i, h)
      OBVIOUS
    <3>1. end.at - 2 = h - 1 /\ h \in 1..n /\ h - 1 < n
      BY <1>2, <2>1
    <3> QED
      BY <1>2, <1>3, <3>1, SamePasses
  <2>5. length = 0 => ~(h > i + 1)
    BY <1>2, <2>3
  <2>6. length # 0 => h > i + 1 /\ i + 1 < h
    BY <1>2, <2>3
  <2> HIDE DEF end, raw, length
  <2>7. CASE length = 0 /\ Emit("STRING_LIT", <<>>, end, FALSE)
    BY <1>1, <1>2, <1>3, <1>4, <2>1, <2>2, <2>5, <2>7, EndKeeps
  <2>8. CASE length # 0 /\ Emit("STRING_LIT", <<Unescape(raw)>>, end, FALSE)
    <3>1. Emit("STRING_LIT", <<Contents(source, i, h)>>, end, FALSE) /\ h > i + 1
      BY <2>4, <2>6, <2>8
    <3> QED
      BY <1>1, <1>2, <1>3, <1>4, <2>1, <2>2, <3>1, EndKeeps
  <2>9. CASE Emit("STRING_LIT", <<>>, end, TRUE)
    BY <1>1, <1>2, <1>3, <1>4, <2>1, <2>2, <2>9, EndKeeps
  <2> QED
    BY <1>1, <2>3, <2>7, <2>8, <2>9
<1> QED
  BY <1>5, <1>6

LEMMA SymbolKeeps ==
  ASSUME LexInv, Symbol
  PROVE  LexInv'
<1> DEFINE n == Len(source)
           h == here.at
           i == start.at
           c == source[i]
           twice == i < n /\ source[i + 1] = c
<1>1. /\ pc = "symbol" /\ pc \in Tokenizing /\ start' = start
      /\ \/ c \in Single /\ Emit(c, <<>>, here, FALSE)
         \/ c = "=" /\ Char = "=" /\ Emit("EQ_EQ", <<>>, After(here), FALSE)
         \/ c = "." /\ Char = "." /\ Emit("RANGE", <<>>, After(here), FALSE)
         \/ c = "." /\ Char # "." /\ Emit("DOT", <<>>, here, FALSE)
         \/ /\ c \notin Single \cup {"."} /\ ~(c = "=" /\ Char = "=")
            /\ Emit("UNKNOWN", <<>>, here, FALSE)
  BY DEF Symbol, Tokenizing
<1>2. /\ n \in Nat /\ h \in (i + 1)..(n + 1) /\ i \in 1..n /\ i \in Nat /\ h \in Nat
      /\ Reading(source, "symbol", i, h - 1) /\ On(source, here) /\ On(source, After(here))
  BY <1>1, Inside, Standing
<1>3. /\ h - 1 = i /\ h = i + 1 /\ c \notin Alpha /\ c \notin Digit /\ c # Quote
      /\ c = "-" /\ i < n => source[i + 1] \notin Digit
  BY <1>2 DEF Reading
<1>4. /\ Char = IF i < n THEN source[i + 1] ELSE "nul"
      /\ h <= n => After(here).at = h + 1
  BY <1>2, <1>3, Standing
<1>5. /\ c = "=" => (Char = "=" <=> twice)
      /\ c = "." => (Char = "." <=> twice)
  BY <1>4
<1>6. /\ ~IsWord(source, i, i) /\ ~IsWord(source, i, i + 1)
      /\ ~IsString(source, i, i) /\ ~IsString(source, i, i + 1)
  BY <1>2, <1>3, SymbolToken DEF IsString
<1>7. FALSE \in BOOLEAN /\ i <= i /\ i <= i + 1 /\ i = h - 1
  BY <1>2, <1>3
<1>8. ASSUME NEW type, Emit(type, <<>>, here, FALSE), TokenEnd(source, i) = i, type = Type(source, i, i)
      PROVE  LexInv'
  BY <1>1, <1>2, <1>6, <1>7, <1>8, EndKeeps
<1>9. ASSUME NEW type, Emit(type, <<>>, After(here), FALSE), twice,
             TokenEnd(source, i) = i + 1, type = Type(source, i, i + 1)
      PROVE  LexInv'
  <2>1. i + 1 = After(here).at - 1
    BY <1>2, <1>3, <1>4, <1>9
  <2> QED
    BY <1>1, <1>2, <1>3, <1>6, <1>7, <1>9, <2>1, EndKeeps
<1>15. /\ c \in Single => TokenEnd(source, i) = i /\ Type(source, i, i) = c
       /\ c = "=" /\ twice => TokenEnd(source, i) = i + 1 /\ Type(source, i, i + 1) = "EQ_EQ"
       /\ c = "." /\ twice => TokenEnd(source, i) = i + 1 /\ Type(source, i, i + 1) = "RANGE"
       /\ c = "." /\ ~twice => TokenEnd(source, i) = i /\ Type(source, i, i) = "DOT"
       /\ c \notin Single \cup {"."} /\ ~(c = "=" /\ twice) => TokenEnd(source, i) = i /\ Type(source, i, i) = "UNKNOWN"
  BY <1>2, <1>3, SymbolToken
<1> HIDE DEF twice, c
<1>10. CASE c \in Single /\ Emit(c, <<>>, here, FALSE)
  BY <1>8, <1>10, <1>15
<1>11. CASE c = "=" /\ Char = "=" /\ Emit("EQ_EQ", <<>>, After(here), FALSE)
  BY <1>5, <1>9, <1>11, <1>15
<1>12. CASE c = "." /\ Char = "." /\ Emit("RANGE", <<>>, After(here), FALSE)
  BY <1>5, <1>9, <1>12, <1>15
<1>13. CASE c = "." /\ Char # "." /\ Emit("DOT", <<>>, here, FALSE)
  BY <1>5, <1>8, <1>13, <1>15
<1>14. CASE c \notin Single \cup {"."} /\ ~(c = "=" /\ Char = "=") /\ Emit("UNKNOWN", <<>>, here, FALSE)
  BY <1>5, <1>8, <1>14, <1>15
<1> QED
  BY <1>1, <1>10, <1>11, <1>12, <1>13, <1>14

-----------------------------------------------------------------------------
(* The theorem *)

LEMMA InitHolds == Init => LexInv
<1> SUFFICES ASSUME Init PROVE LexInv
  OBVIOUS
<1>1. /\ source \in Sources /\ here = Place(1, 1, 1) /\ tokens = <<>> /\ pc \in {"skip", "failed"}
      /\ keywords \subseteq Keyword /\ (~oom => keywords = Keyword) /\ oom \in BOOLEAN
  BY DEF Init
<1>2. Len(source) \in Nat
  BY <1>1, SourceIs
<1>3. On(source, here)
  <2>1. here.at = 1
    BY <1>1 DEF Place
  <2>2. here = PlaceOf(source, 1)
    BY <1>1, FirstPlace
  <2> QED
    BY <1>2, <2>1, <2>2 DEF On
<1>4. Skipping(source, TokenFrom(source, Reached(tokens)), pc, here.at)
  <2>1. here.at = 1 /\ Reached(tokens) = 1
    BY <1>1 DEF Place, Reached
  <2> QED
    BY <1>1, <2>1 DEF Skipping
<1>5. TokensOK /\ tokens \in Seq(Range(tokens))
  BY <1>1 DEF TokensOK
<1>6. pc \notin Tokenizing /\ pc # "done"
  BY <1>1 DEF Tokenizing
<1> QED
  BY <1>1, <1>3, <1>4, <1>5, <1>6 DEF LexInv

LEMMA StutterKeeps ==
  ASSUME LexInv, UNCHANGED vars
  PROVE  LexInv'
<1>1. /\ source' = source /\ here' = here /\ pc' = pc /\ start' = start
      /\ tokens' = tokens /\ keywords' = keywords /\ oom' = oom
  BY DEF vars
<1>2. TokensOK'
  <2> SUFFICES ASSUME NEW k \in DOMAIN tokens
               PROVE  InPlace(k)' /\ Means(tokens[k])' /\ (tokens'[k].type = "EOF") = (k = Len(tokens') /\ pc' = "done")
    BY <1>1 DEF TokensOK
  <2>1. InPlace(k) /\ Means(tokens[k]) /\ (tokens[k].type = "EOF") = (k = Len(tokens) /\ pc = "done")
    BY DEF LexInv, TokensOK
  <2>2. InPlace(k)'
    BY <1>1, <2>1 DEF InPlace
  <2>3. Means(tokens[k])'
    BY <1>1, <2>1 DEF Means, MeansWord, MeansString
  <2> QED
    BY <1>1, <2>1, <2>2, <2>3
<1> QED
  BY <1>1, <1>2 DEF LexInv

LEMMA NextHolds == LexInv /\ [Next]_vars => LexInv'
<1> SUFFICES ASSUME LexInv, [Next]_vars PROVE LexInv'
  OBVIOUS
<1>1. CASE SkipSpace
  BY <1>1, SkipSpaceKeeps
<1>2. CASE OpenComment
  BY <1>2, OpenCommentKeeps
<1>3. CASE InLine
  BY <1>3, InLineKeeps
<1>4. CASE InBlock
  BY <1>4, InBlockKeeps
<1>5. CASE AtEnd
  BY <1>5, AtEndKeeps
<1>6. CASE Begin
  BY <1>6, BeginKeeps
<1>7. CASE InWord
  BY <1>7, InWordKeeps
<1>8. CASE EndWord
  BY <1>8, EndWordKeeps
<1>9. CASE InDigits
  BY <1>9, InDigitsKeeps
<1>10. CASE EndDigits
  BY <1>10, EndDigitsKeeps
<1>11. CASE EndFraction
  BY <1>11, EndFractionKeeps
<1>12. CASE InString
  BY <1>12, InStringKeeps
<1>13. CASE EndString
  BY <1>13, EndStringKeeps
<1>14. CASE Symbol
  BY <1>14, SymbolKeeps
<1>15. CASE UNCHANGED vars
  BY <1>15, StutterKeeps
<1> QED
  BY <1>1, <1>2, <1>3, <1>4, <1>5, <1>6, <1>7, <1>8, <1>9, <1>10, <1>11, <1>12, <1>13, <1>14, <1>15 DEF Next

LEMMA InvImplies == LexInv => TokensAreTheSource
BY DEF LexInv, TokensOK, TokensAreTheSource

\* The scanner's tokens are the source, whatever the source, the alphabet, the
\* keywords and the allocations that fail: each token starts where white space
\* and comments end, is the longest lexeme there, and carries the line, the
\* column, the type and the contents of its text (lexer_next_token,
\* lexer_lex_all, unescape_string_into_arena).
THEOREM TokensAreRead == Spec => []TokensAreTheSource
<1>1. Init => LexInv
  BY InitHolds
<1>2. LexInv /\ [Next]_vars => LexInv'
  BY NextHolds
<1>3. LexInv => TokensAreTheSource
  BY InvImplies
<1> QED
  BY <1>1, <1>2, <1>3, PTL DEF Spec
=============================================================================
