---------------------------- MODULE PatternMatch ----------------------------
(***************************************************************************)
(* The pattern property of a string: emit_regex_validator (tools/src/      *)
(* codegen/emit_validation.c) turns the pattern into a C function, which   *)
(* the generated loader calls with the value of the field.  A step is a    *)
(* turn of the generator's loop, or a statement of the emitted function.   *)
(*                                                                         *)
(* Patterns and texts are sequences of characters.  A class without a      *)
(* member is left out: what is emitted for it does not compile.            *)
(***************************************************************************)
EXTENDS Integers, Sequences

CONSTANTS
  Chars,      \* the characters there are
  Rank,       \* their order, a number for each
  Patterns,   \* [re, means]: a pattern, and (history) what its author means
  Texts       \* the values to call it with

ASSUME PatternAssumption ==
  /\ Rank \in [Chars -> Nat]
  /\ "nul" \notin Chars /\ \A e \in Patterns : e.re \in Seq(Chars)
  /\ Texts \subseteq Seq(Chars)

VARIABLES
  pattern,
  at,        \* re_p, what the generator looks at
  ops,       \* the statements emitted for it
  text,      \* s
  start,     \* where in s the match is tried
  p, n,      \* what the matcher looks at, and its statement
  pc         \* "emit", "try", "run", "yes" or "no"

vars == <<pattern, at, ops, text, start, p, n, pc>>

re    == pattern.re
RE(i) == IF i <= Len(re) THEN re[i] ELSE "nul"

AnchoredStart == RE(1) = "^"
AnchoredEnd   == re # <<>> /\ re[Len(re)] = "$"

-----------------------------------------------------------------------------
(* emit_char_class_check: from i to the closing bracket, the characters and *)
(* where it is.  A backslash stands for itself before the bracket.          *)

Unescaped(i) == IF RE(i) = "\\" /\ RE(i + 1) \notin {"nul", "]"} THEN i + 1 ELSE i

IsRange(i) == RE(i + 1) = "-" /\ RE(i + 2) \notin {"nul", "]"}

Between(c, d) == {e \in Chars : Rank[c] <= Rank[e] /\ Rank[e] <= Rank[d]}

Members ==
  LET f[i \in 1..(Len(re) + 1)] ==
        IF RE(i) \in {"nul", "]"} THEN [set |-> {}, end |-> i]
        ELSE LET lo   == Unescaped(i)
                 hi   == IF IsRange(lo) THEN Unescaped(lo + 2) ELSE lo
                 rest == f[hi + 1]
             IN  [set |-> Between(RE(lo), RE(hi)) \cup rest.set, end |-> rest.end]
  IN  f

\* The class whose bracket opens at i, and where the pattern goes on after it.
Class(i) ==
  LET negated == RE(i + 1) = "^"
      m == Members[IF negated THEN i + 2 ELSE i + 1]
  IN  [set |-> IF negated THEN Chars \ m.set ELSE m.set,
       end |-> IF RE(m.end) = "]" THEN m.end + 1 ELSE m.end]

-----------------------------------------------------------------------------
(* emit_regex_validator *)
Init ==
  /\ pattern \in Patterns
  /\ at = IF AnchoredStart THEN 2 ELSE 1
  /\ ops = <<>> /\ text = <<>>
  /\ start = 1 /\ p = 1 /\ n = 1
  /\ pc = "emit"

One(set)  == [do |-> "one", set |-> set]     \* if (no member of set) miss; p++
Back      == [do |-> "back", set |-> {}]     \* p--
Loop(set) == [do |-> "loop", set |-> set]    \* while (a member of set) p++

\* Fault: a star asks for nothing first and steps back all the same.
Quantified_Bare(set, q) ==
  CASE RE(q) = "+" -> <<One(set), Loop(set)>>
    [] RE(q) = "*" -> <<Back, Loop(set)>>
    [] OTHER       -> <<One(set)>>

\* A character of set, and the quantifier at q.
Quantified(set, q) ==
  CASE RE(q) = "+" -> <<One(set), Loop(set)>>
    [] RE(q) = "*" -> <<One(set), Back, Loop(set)>>
    [] OTHER       -> <<One(set)>>

After(q) == IF RE(q) \in {"+", "*"} THEN q + 1 ELSE q

Quantifiers == {"*", "+", "?"}

\* A last dollar is the end, whatever is before it.
More == at <= Len(re) /\ (AnchoredEnd => at < Len(re))

Emit(statements, next) ==
  /\ ops' = ops \o statements /\ at' = next
  /\ UNCHANGED <<pattern, text, start, p, n, pc>>

EmitDot ==
  pc = "emit" /\ More /\ RE(at) = "." /\ Emit(<<One(Chars)>>, at + 1)

EmitClass ==
  /\ pc = "emit" /\ More /\ RE(at) = "["
  /\ Emit(Quantified(Class(at).set, Class(at).end), After(Class(at).end))

\* What no character or class took: a question mark, and any after a dot.
SkipQuantifier ==
  pc = "emit" /\ More /\ RE(at) \in Quantifiers /\ Emit(<<>>, at + 1)

EmitChar ==
  /\ pc = "emit" /\ More /\ RE(at) \notin Quantifiers \cup {".", "["}
  /\ LET c == IF RE(at) = "\\" /\ RE(at + 1) # "nul" THEN at + 1 ELSE at
     IN  Emit(Quantified({RE(c)}, c + 1), After(c + 1))

\* The header is there; the loader calls the function.
Call ==
  /\ pc = "emit" /\ ~More
  /\ text' \in Texts /\ pc' = "try"
  /\ UNCHANGED <<pattern, at, ops, start, p, n>>

-----------------------------------------------------------------------------
(* cfg_pattern_match, as emitted *)
Sees(set) == p <= Len(text) /\ text[p] \in set

Go(where, statement) ==
  /\ p' = where /\ n' = statement
  /\ UNCHANGED <<pattern, at, ops, text, start, pc>>

Answer(a) == pc' = a /\ UNCHANGED <<pattern, at, ops, text, start, p, n>>

\* Fault: the first miss is final.
Miss_Once == Answer("no")

\* Fault: the next try is the same one.
Miss_Stay ==
  IF AnchoredStart THEN Answer("no") ELSE Answer("try")

\* goto next, or return false.
Miss ==
  IF AnchoredStart THEN Answer("no")
  ELSE /\ start' = start + 1 /\ pc' = "try"
       /\ UNCHANGED <<pattern, at, ops, text, p, n>>

\* The loop over the starts, which is not there when the start is anchored.
Try ==
  /\ pc = "try"
  /\ IF ~AnchoredStart /\ start > Len(text) THEN Answer("no")
     ELSE /\ p' = start /\ n' = 1 /\ pc' = "run"
          /\ UNCHANGED <<pattern, at, ops, text, start>>

Doing(what) == pc = "run" /\ n <= Len(ops) /\ ops[n].do = what

RunOne  == Doing("one") /\ IF Sees(ops[n].set) THEN Go(p + 1, n + 1) ELSE Miss
RunBack == Doing("back") /\ Go(p - 1, n + 1)
RunLoop == Doing("loop") /\ IF Sees(ops[n].set) THEN Go(p + 1, n) ELSE Go(p, n + 1)

\* Fault: the end is not looked at.
Finish_Open == pc = "run" /\ n > Len(ops) /\ Answer("yes")

Finish ==
  /\ pc = "run" /\ n > Len(ops)
  /\ IF AnchoredEnd /\ p <= Len(text) THEN Miss ELSE Answer("yes")

Next ==
  \/ EmitDot \/ EmitClass \/ SkipQuantifier \/ EmitChar \/ Call
  \/ Try \/ RunOne \/ RunBack \/ RunLoop \/ Finish

Spec     == Init /\ [][Next]_vars
FairSpec == Spec /\ WF_vars(Next)

-----------------------------------------------------------------------------
\* Whatever the pattern and the text, the matcher looks at the characters of
\* the text and at the NUL behind them, never before or beyond.
ReadsTheText ==
  pc = "run" => start \in 1..(Len(text) + 1) /\ p \in start..(Len(text) + 1)

\* The generator and the matcher come to an end.
MatchReturns == <>(pc \in {"yes", "no"})
=============================================================================
