------------------------- MODULE SchemaCheckProofs -------------------------
(***************************************************************************)
(* The type checker, for every set of programs.                            *)
(*                                                                         *)
(* First its types, and that its stack is exactly the schemas that are     *)
(* being gone through, so that the recursion is bounded by the number of   *)
(* schemas and a schema is marked only when all of it has been seen        *)
(* (IInv). The argument needs one more fact: a schema symbol stands under  *)
(* its own name. What Descend enters is then the schema it found neither   *)
(* marked nor on the stack.                                                *)
(*                                                                         *)
(* Then what it finds out. The global scope is what was declared so far,   *)
(* and nothing is reported only as long as the names differ (PassInv); a   *)
(* schema was gone into once if it is marked or on the stack, else never   *)
(* (BodiesInv). Along the frames the schemas descend in every order there  *)
(* is, so a cycle that is reported leaves none (TextInv). As long as no    *)
(* cycle is reported, and nothing else either or no field hides a schema,  *)
(* the types that a frame has passed are marked or reported, and the       *)
(* marked schemas have an order: the one whose frame ends comes last       *)
(* (OrderInv).                                                             *)
(*                                                                         *)
(* Last, that it decides what SchemaRules says of the text, with the       *)
(* exception it names: a property is taken if it fits its field and is not *)
(* among those the checker refuses against the guide (Taken).  As long as  *)
(* nothing is reported a scope holds the names that its frame has defined, *)
(* each with the type of its item (FilledInv), and the scopes from a       *)
(* schema's frame on are a chain of the text (ChainOfFrame).  So a type, a *)
(* condition and a property mean to the checker what they mean in the      *)
(* text, and what is well-formed is not reported (AcceptInv).  Written     *)
(* bottom-up, no schema is entered inside another (BottomInv): all that    *)
(* the frames have passed without a report is right (FineInv).             *)
(***************************************************************************)
EXTENDS SchemaRules, SequenceTheorems, FiniteSetTheorems, WellFoundedInduction, TLAPS

-----------------------------------------------------------------------------
(* Sequences of whatever they hold *)

IsSeq(s) == s \in Seq(Range(s))

LEMMA SeqIs ==
  ASSUME NEW s, IsSeq(s)
  PROVE  Len(s) \in Nat /\ DOMAIN s = 1..Len(s)
BY DEF IsSeq

LEMMA InSeq ==
  ASSUME NEW S, NEW s \in Seq(S)
  PROVE  IsSeq(s)
<1>1. s = [k \in 1..Len(s) |-> s[k]] /\ DOMAIN s = 1..Len(s) /\ Len(s) \in Nat
  OBVIOUS
<1>2. \A k \in 1..Len(s) : s[k] \in Range(s)
  BY <1>1 DEF Range
<1> QED
  BY <1>1, <1>2 DEF IsSeq

\* Both sequences are over one set, so the library's facts apply.
LEMMA AppendIs ==
  ASSUME NEW s, IsSeq(s), NEW e
  PROVE  /\ IsSeq(Append(s, e))
         /\ Len(Append(s, e)) = Len(s) + 1
         /\ DOMAIN Append(s, e) = 1..(Len(s) + 1)
         /\ \A k \in 1..Len(s) : Append(s, e)[k] = s[k]
         /\ Append(s, e)[Len(s) + 1] = e
<1> DEFINE S == Range(s) \cup {e}
<1>1. s \in Seq(S) /\ e \in S
  BY DEF IsSeq
<1> HIDE DEF S
<1>2. Append(s, e) \in Seq(S)
  BY <1>1
<1>3. IsSeq(Append(s, e))
  BY ONLY <1>2, InSeq
<1>4. /\ Len(Append(s, e)) = Len(s) + 1
      /\ DOMAIN Append(s, e) = 1..(Len(s) + 1)
      /\ \A k \in 1..Len(s) : Append(s, e)[k] = s[k]
      /\ Append(s, e)[Len(s) + 1] = e
  BY ONLY <1>1
<1> QED
  BY ONLY <1>3, <1>4

LEMMA FrontIs ==
  ASSUME NEW s, IsSeq(s), s # <<>>
  PROVE  /\ IsSeq(Front(s)) /\ Len(s) - 1 \in Nat
         /\ Len(Front(s)) = Len(s) - 1
         /\ DOMAIN Front(s) = 1..(Len(s) - 1)
         /\ \A k \in 1..(Len(s) - 1) : Front(s)[k] = s[k]
<1> DEFINE S == Range(s)
<1>1. s \in Seq(S)
  BY DEF IsSeq
<1> HIDE DEF S
<1>1a. Len(s) - 1 \in Nat
  BY ONLY <1>1, s # <<>>, EmptySeq
<1>2. /\ SubSeq(s, 1, Len(s) - 1) \in Seq(S)
      /\ Len(SubSeq(s, 1, Len(s) - 1)) = Len(s) - 1
      /\ \A k \in 1..(Len(s) - 1) : SubSeq(s, 1, Len(s) - 1)[k] = s[k]
  <2> DEFINE n == Len(s) - 1
  <2>1. n \in Int /\ 1 \in Int /\ \A i \in 1..n : s[i] \in S
    BY ONLY <1>1, <1>1a
  <2>2. n \in Nat
    BY ONLY <1>1a
  <2> HIDE DEF n
  <2>3. /\ SubSeq(s, 1, n) \in Seq(S)
        /\ Len(SubSeq(s, 1, n)) = IF 1 <= n THEN n - 1 + 1 ELSE 0
        /\ \A k \in 1..(n - 1 + 1) : SubSeq(s, 1, n)[k] = s[1 + k - 1]
    BY ONLY <2>1, SubSeqProperties
  <2>4. /\ SubSeq(s, 1, n) \in Seq(S)
        /\ Len(SubSeq(s, 1, n)) = n
        /\ \A k \in 1..n : SubSeq(s, 1, n)[k] = s[k]
    BY ONLY <2>2, <2>3
  <2> QED
    BY ONLY <2>4 DEF n
<1>3. IsSeq(SubSeq(s, 1, Len(s) - 1))
  BY ONLY <1>2, InSeq
<1>4. DOMAIN SubSeq(s, 1, Len(s) - 1) = 1..(Len(s) - 1)
  BY ONLY <1>2
<1> QED
  BY ONLY <1>1a, <1>2, <1>3, <1>4 DEF Front

LEMMA ConcatIs ==
  ASSUME NEW s, NEW t, IsSeq(s), IsSeq(t)
  PROVE  /\ IsSeq(s \o t)
         /\ \A k \in DOMAIN (s \o t) : (s \o t)[k] \in Range(s) \cup Range(t)
<1> DEFINE S == Range(s) \cup Range(t)
<1>1. s \in Seq(S) /\ t \in Seq(S)
  BY DEF IsSeq
<1> HIDE DEF S
<1>2. s \o t \in Seq(S)
  BY <1>1
<1>3. \A k \in DOMAIN (s \o t) : (s \o t)[k] \in S
  BY <1>2
<1> QED
  BY <1>2, <1>3, InSeq DEF S

\* The last element is replaced by another.
LEMMA ExceptIs ==
  ASSUME NEW s, IsSeq(s), s # <<>>, NEW e
  PROVE  /\ IsSeq([s EXCEPT ![Len(s)] = e])
         /\ Len([s EXCEPT ![Len(s)] = e]) = Len(s)
         /\ DOMAIN [s EXCEPT ![Len(s)] = e] = 1..Len(s)
         /\ Len(s) \in 1..Len(s)
         /\ \A k \in 1..Len(s) :
              [s EXCEPT ![Len(s)] = e][k] = IF k = Len(s) THEN e ELSE s[k]
<1> DEFINE S == Range(s) \cup {e}
<1>1. s \in Seq(S) /\ e \in S
  BY DEF IsSeq
<1> HIDE DEF S
<1>2. Len(s) \in 1..Len(s) /\ DOMAIN s = 1..Len(s)
  BY <1>1
<1>3. [s EXCEPT ![Len(s)] = e] \in Seq(S)
  BY <1>1, <1>2
<1>4. \A k \in 1..Len(s) :
        [s EXCEPT ![Len(s)] = e][k] = IF k = Len(s) THEN e ELSE s[k]
  BY <1>2
<1>5. DOMAIN [s EXCEPT ![Len(s)] = e] = 1..Len(s)
  BY <1>2
<1>6. Len([s EXCEPT ![Len(s)] = e]) = Len(s)
  BY <1>3, <1>5, <1>1
<1> QED
  BY <1>2, <1>3, <1>4, <1>5, <1>6, InSeq
-----------------------------------------------------------------------------
(* The stack against the frames *)

\* pos[k] is the frame of the k-th schema on the stack st.
Places(p, fr, st, pos) ==
  /\ pos \in [DOMAIN st -> DOMAIN fr]
  /\ \A k, l \in DOMAIN pos : k < l => pos[k] < pos[l]
  /\ \A k \in DOMAIN pos : /\ fr[pos[k]].decl # 0
                           /\ p[fr[pos[k]].decl].name = st[k]
  /\ \A m \in DOMAIN fr : fr[m].decl # 0 => \E k \in DOMAIN pos : pos[k] = m

Follows(p, fr, st) == \E pos \in [DOMAIN st -> DOMAIN fr] : Places(p, fr, st, pos)

\* Only which schema a frame is of matters, and sections do not.
LEMMA FollowsKept ==
  ASSUME NEW p, NEW fr, NEW gr, NEW st, Follows(p, fr, st),
         DOMAIN fr \subseteq DOMAIN gr,
         \A m \in DOMAIN fr : gr[m].decl = fr[m].decl,
         \A m \in DOMAIN gr \ DOMAIN fr : gr[m].decl = 0
  PROVE  Follows(p, gr, st)
<1>1. PICK pos \in [DOMAIN st -> DOMAIN fr] : Places(p, fr, st, pos)
  BY DEF Follows
<1>2. pos \in [DOMAIN st -> DOMAIN gr]
  OBVIOUS
<1>3. Places(p, gr, st, pos)
  BY <1>1, <1>2 DEF Places
<1> QED
  BY <1>2, <1>3 DEF Follows

\* A schema is entered: it goes on the stack with its frame.
LEMMA FollowsEnter ==
  ASSUME NEW p, NEW fr, NEW st, Follows(p, fr, st), IsSeq(fr), IsSeq(st),
         NEW f, f.decl # 0
  PROVE  Follows(p, Append(fr, f), Append(st, p[f.decl].name))
<1>1. PICK pos \in [DOMAIN st -> DOMAIN fr] : Places(p, fr, st, pos)
  BY DEF Follows
<1> DEFINE gr == Append(fr, f)
           tt == Append(st, p[f.decl].name)
           new == [k \in 1..(Len(st) + 1) |-> IF k = Len(st) + 1 THEN Len(fr) + 1 ELSE pos[k]]
<1>2. /\ Len(fr) \in Nat /\ DOMAIN fr = 1..Len(fr) /\ DOMAIN gr = 1..(Len(fr) + 1)
      /\ \A m \in 1..Len(fr) : gr[m] = fr[m]
      /\ gr[Len(fr) + 1] = f
  BY AppendIs, SeqIs
<1>3. /\ Len(st) \in Nat /\ DOMAIN st = 1..Len(st) /\ DOMAIN tt = 1..(Len(st) + 1)
      /\ \A k \in 1..Len(st) : tt[k] = st[k]
      /\ tt[Len(st) + 1] = p[f.decl].name
  BY AppendIs, SeqIs
<1>4. \A k \in 1..Len(st) : pos[k] \in 1..Len(fr)
  BY <1>2, <1>3
<1>5. /\ DOMAIN new = 1..(Len(st) + 1)
      /\ \A k \in 1..Len(st) : new[k] = pos[k]
      /\ new[Len(st) + 1] = Len(fr) + 1
  BY <1>3
<1> HIDE DEF gr, tt, new
<1>6. new \in [DOMAIN tt -> DOMAIN gr]
  <2>1. \A k \in 1..(Len(st) + 1) : new[k] \in 1..(Len(fr) + 1)
    BY <1>2, <1>3, <1>4, <1>5
  <2>2. new = [k \in DOMAIN tt |-> new[k]]
    BY <1>3 DEF new
  <2> QED
    BY <2>1, <2>2, <1>2, <1>3
<1>7. ASSUME NEW k \in DOMAIN new, NEW l \in DOMAIN new, k < l
      PROVE  new[k] < new[l]
  <2>1. k \in 1..Len(st)
    BY <1>3, <1>5, <1>7
  <2>2. CASE l \in 1..Len(st)
    BY <1>1, <1>3, <1>5, <1>7, <2>1, <2>2 DEF Places
  <2>3. CASE l = Len(st) + 1
    BY <1>2, <1>4, <1>5, <2>1, <2>3
  <2> QED
    BY <1>3, <1>5, <2>2, <2>3
<1>8. ASSUME NEW k \in DOMAIN new
      PROVE  gr[new[k]].decl # 0 /\ p[gr[new[k]].decl].name = tt[k]
  <2>1. CASE k \in 1..Len(st)
    BY <1>1, <1>2, <1>3, <1>4, <1>5, <2>1 DEF Places
  <2>2. CASE k = Len(st) + 1
    BY <1>2, <1>3, <1>5, <2>2
  <2> QED
    BY <1>3, <1>5, <2>1, <2>2
<1>9. ASSUME NEW m \in DOMAIN gr, gr[m].decl # 0
      PROVE  \E k \in DOMAIN new : new[k] = m
  <2>1. CASE m \in 1..Len(fr)
    <3>1. PICK k \in 1..Len(st) : pos[k] = m
      BY <1>1, <1>2, <1>3, <1>9, <2>1 DEF Places
    <3> QED
      BY <1>3, <1>5, <3>1
  <2>2. CASE m = Len(fr) + 1
    BY <1>3, <1>5, <2>2
  <2> QED
    BY <1>2, <2>1, <2>2
<1>10. Places(p, gr, tt, new)
  BY ONLY <1>6, <1>7, <1>8, <1>9 DEF Places
<1> QED
  BY ONLY <1>6, <1>10 DEF Follows, gr, tt

\* A section is left: the stack stays.
LEMMA FollowsLeaveSection ==
  ASSUME NEW p, NEW fr, NEW st, Follows(p, fr, st), IsSeq(fr),
         fr # <<>>, fr[Len(fr)].decl = 0
  PROVE  Follows(p, Front(fr), st)
<1>1. PICK pos \in [DOMAIN st -> DOMAIN fr] : Places(p, fr, st, pos)
  BY DEF Follows
<1>2. /\ Len(fr) \in Nat /\ DOMAIN fr = 1..Len(fr)
      /\ DOMAIN Front(fr) = 1..(Len(fr) - 1)
      /\ \A m \in 1..(Len(fr) - 1) : Front(fr)[m] = fr[m]
  BY FrontIs, SeqIs
<1>3. \A k \in DOMAIN st : pos[k] \in 1..(Len(fr) - 1)
  <2> SUFFICES ASSUME NEW k \in DOMAIN st PROVE pos[k] \in 1..(Len(fr) - 1)
    OBVIOUS
  <2>1. pos[k] \in 1..Len(fr) /\ fr[pos[k]].decl # 0
    BY <1>1, <1>2 DEF Places
  <2> QED
    BY <1>2, <2>1
<1>4. pos \in [DOMAIN st -> DOMAIN Front(fr)]
  BY <1>2, <1>3
<1>5. Places(p, Front(fr), st, pos)
  BY <1>1, <1>2, <1>3, <1>4 DEF Places
<1> QED
  BY <1>4, <1>5 DEF Follows

\* A schema is left: it is the last on the stack and goes with its frame.
LEMMA FollowsLeaveSchema ==
  ASSUME NEW p, NEW fr, NEW st, Follows(p, fr, st), IsSeq(fr), IsSeq(st),
         fr # <<>>, fr[Len(fr)].decl # 0
  PROVE  /\ st # <<>>
         /\ st[Len(st)] = p[fr[Len(fr)].decl].name
         /\ Follows(p, Front(fr), Front(st))
<1>1. PICK pos \in [DOMAIN st -> DOMAIN fr] : Places(p, fr, st, pos)
  BY DEF Follows
<1>2. /\ Len(fr) \in Nat /\ Len(fr) \in 1..Len(fr) /\ DOMAIN fr = 1..Len(fr)
      /\ DOMAIN Front(fr) = 1..(Len(fr) - 1)
      /\ \A m \in 1..(Len(fr) - 1) : Front(fr)[m] = fr[m]
  BY FrontIs, SeqIs
<1>3. Len(st) \in Nat /\ DOMAIN st = 1..Len(st) /\ DOMAIN pos = 1..Len(st)
  BY SeqIs
<1>a. \A k, l \in 1..Len(st) : k < l => pos[k] < pos[l]
  BY ONLY <1>1, <1>3 DEF Places
<1>b. \A k \in 1..Len(st) : fr[pos[k]].decl # 0 /\ p[fr[pos[k]].decl].name = st[k]
  BY ONLY <1>1, <1>3 DEF Places
<1>4. PICK last \in 1..Len(st) : pos[last] = Len(fr)
  BY <1>1, <1>2, <1>3 DEF Places
<1>5. \A k \in 1..Len(st) : pos[k] \in 1..Len(fr)
  BY <1>2, <1>3
<1>6. \A k \in 1..Len(st) : k <= last
  <2> SUFFICES ASSUME NEW k \in 1..Len(st), last < k PROVE FALSE
    BY <1>3
  <2>1. pos[last] < pos[k]
    BY ONLY <1>a, <1>3, last < k
  <2> QED
    BY ONLY <1>2, <1>4, <1>5, <2>1
<1>7. last = Len(st) /\ Len(st) \in 1..Len(st)
  <2>1. Len(st) \in Nat /\ last \in Nat /\ 1 <= last /\ last <= Len(st)
    BY ONLY <1>3, <1>4
  <2>2. Len(st) \in 1..Len(st)
    BY ONLY <2>1
  <2>3. Len(st) <= last
    BY ONLY <1>6, <2>2
  <2> QED
    BY ONLY <2>1, <2>2, <2>3
<1>8. st # <<>>
  BY <1>3, <1>7
<1>9. st[Len(st)] = p[fr[Len(fr)].decl].name
  BY ONLY <1>b, <1>4, <1>7
<1>10. /\ DOMAIN Front(st) = 1..(Len(st) - 1)
       /\ \A k \in 1..(Len(st) - 1) : Front(st)[k] = st[k]
  BY <1>8, FrontIs
<1> DEFINE new == [k \in 1..(Len(st) - 1) |-> pos[k]]
<1>11. DOMAIN new = 1..(Len(st) - 1) /\ \A k \in 1..(Len(st) - 1) : new[k] = pos[k]
  OBVIOUS
<1>12. \A k \in 1..(Len(st) - 1) : k \in 1..Len(st) /\ k < Len(st)
  BY <1>3
<1>13. \A k \in 1..(Len(st) - 1) : pos[k] < Len(fr)
  BY ONLY <1>a, <1>3, <1>4, <1>7, <1>12
<1>14. \A k \in 1..(Len(st) - 1) : pos[k] \in 1..(Len(fr) - 1)
  BY <1>2, <1>5, <1>12, <1>13
<1>15. new \in [DOMAIN Front(st) -> DOMAIN Front(fr)]
  BY <1>2, <1>10, <1>14
<1> HIDE DEF new
<1>16. ASSUME NEW k \in DOMAIN new, NEW l \in DOMAIN new, k < l
       PROVE  new[k] < new[l]
  BY ONLY <1>a, <1>11, <1>12, <1>16
<1>17. ASSUME NEW k \in DOMAIN new
       PROVE  Front(fr)[new[k]].decl # 0 /\ p[Front(fr)[new[k]].decl].name = Front(st)[k]
  <2>1. k \in 1..(Len(st) - 1) /\ new[k] = pos[k] /\ Front(st)[k] = st[k]
    BY ONLY <1>10, <1>11, <1>17
  <2>2. Front(fr)[pos[k]] = fr[pos[k]]
    BY ONLY <1>2, <1>14, <2>1
  <2> QED
    BY ONLY <1>b, <1>12, <2>1, <2>2
<1>18. ASSUME NEW m \in DOMAIN Front(fr), Front(fr)[m].decl # 0
       PROVE  \E k \in DOMAIN new : new[k] = m
  <2>1. m \in 1..Len(fr) /\ m # Len(fr) /\ fr[m].decl # 0
    BY <1>2, <1>18
  <2>2. PICK k \in 1..Len(st) : pos[k] = m
    BY <1>1, <1>2, <1>3, <2>1 DEF Places
  <2>3. k \in 1..(Len(st) - 1)
    BY <1>3, <1>4, <1>7, <2>1, <2>2
  <2> QED
    BY <1>11, <2>2, <2>3
<1>19. Places(p, Front(fr), Front(st), new)
  BY ONLY <1>15, <1>16, <1>17, <1>18 DEF Places
<1> QED
  BY <1>8, <1>9, <1>15, <1>19 DEF Follows
-----------------------------------------------------------------------------
(* The invariant *)

SymbolTypes == BuiltIn \cup {"schema", "section", "array", "paths"}

\* A symbol, and a schema's stands under its own name.
SymbolOK(p, x, s) ==
  /\ s.type \in SymbolTypes /\ s.decl \in 0..Len(p)
  /\ s.decl # 0 => p[s.decl].name = x

ScopesOK(p, sc) ==
  /\ IsSeq(sc)
  /\ \A k \in DOMAIN sc : \A x \in DOMAIN sc[k] : SymbolOK(p, x, sc[k][x])

FrameOK(p, f) ==
  /\ f = [decl |-> f.decl, items |-> f.items, n |-> f.n, pass |-> f.pass]
  /\ f.decl \in 0..Len(p)

FramesOK(p, fr) ==
  /\ IsSeq(fr)
  /\ \A m \in DOMAIN fr : FrameOK(p, fr[m])

ErrorsOK(es) ==
  /\ IsSeq(es)
  /\ \A k \in DOMAIN es : es[k].kind \in Kinds

Unmarked(st, marked) ==
  /\ \A k, l \in DOMAIN st : st[k] = st[l] => k = l
  /\ \A k \in DOMAIN st : st[k] \notin marked

StackOK(p, fr, st, marked) ==
  /\ IsSeq(st) /\ \A k \in DOMAIN st : st[k] \in Name
  /\ marked \subseteq Name
  /\ Follows(p, fr, st)
  /\ Unmarked(st, marked)

CountersOK ==
  /\ program \in Programs
  /\ pc \in {"declare", "check", "done"} /\ at \in 1..(Len(program) + 1)

IInv ==
  /\ CountersOK
  /\ ScopesOK(program, scopes)
  /\ FramesOK(program, frames)
  /\ Len(scopes) = Len(frames) + 1
  /\ ErrorsOK(errors)
  /\ StackOK(program, frames, resolving_stack, resolved)

\* The invariant says what the two properties say.
LEMMA InvIsEnough == IInv => (prop \in Nat \ {0} => TypeOK) /\ StackIsOpen
<1> SUFFICES ASSUME IInv PROVE (prop \in Nat \ {0} => TypeOK) /\ StackIsOpen
  OBVIOUS
<1>1. prop \in Nat \ {0} => TypeOK
  BY DEF IInv, CountersOK, ScopesOK, SymbolOK, SymbolTypes, ErrorsOK, StackOK, TypeOK
<1>2. StackIsOpen
  BY DEF IInv, StackOK, Follows, Places, Unmarked, StackIsOpen
<1> QED
  BY <1>1, <1>2

\* A schema of the program is a declaration of it under a name.
LEMMA ProgramIs ==
  ASSUME CountersOK
  PROVE  /\ Len(program) \in Nat /\ DOMAIN program = 1..Len(program)
         /\ \A d \in 1..Len(program) : program[d].name \in Name
BY SchemaCheckAssumption DEF CountersOK

LEMMA EmptyIs == IsSeq(<<>>) /\ Len(<<>>) = 0 /\ DOMAIN <<>> = {}
<1>1. <<>> \in Seq({}) /\ Len(<<>>) = 0 /\ DOMAIN <<>> = {}
  OBVIOUS
<1> QED
  BY <1>1, InSeq

LEMMA OneIs ==
  ASSUME NEW e
  PROVE  IsSeq(<<e>>) /\ Len(<<e>>) = 1 /\ DOMAIN <<e>> = 1..1 /\ <<e>>[1] = e
<1>1. <<e>> \in Seq({e}) /\ Len(<<e>>) = 1 /\ DOMAIN <<e>> = 1..1 /\ <<e>>[1] = e
  OBVIOUS
<1> QED
  BY <1>1, InSeq

\* Nothing is declared, in progress or reported at first.
LEMMA InitInv == Init => IInv
<1> SUFFICES ASSUME Init PROVE IInv
  OBVIOUS
<1>1. CountersOK
  BY SchemaCheckAssumption DEF Init, CountersOK
<1>2. ScopesOK(program, scopes) /\ Len(scopes) = 1
  <2>1. scopes = <<NoSymbols>>
    BY DEF Init
  <2>2. DOMAIN NoSymbols = {}
    BY DEF NoSymbols
  <2> QED
    BY <2>1, <2>2, OneIs DEF ScopesOK
<1>3. FramesOK(program, frames) /\ Len(frames) = 0 /\ ErrorsOK(errors)
  BY EmptyIs DEF Init, FramesOK, ErrorsOK
<1>4. Follows(program, frames, resolving_stack)
  <2>1. frames = <<>> /\ resolving_stack = <<>>
    BY DEF Init
  <2> DEFINE pos == [k \in {} |-> 0]
  <2>2. pos \in [{} -> {}] /\ DOMAIN pos = {}
    OBVIOUS
  <2>3. Places(program, <<>>, <<>>, pos)
    BY <2>2, EmptyIs DEF Places
  <2> QED
    BY <2>1, <2>2, <2>3, EmptyIs DEF Follows
<1>5. StackOK(program, frames, resolving_stack, resolved)
  BY <1>4, EmptyIs DEF Init, StackOK, Unmarked
<1> QED
  BY <1>1, <1>2, <1>3, <1>5 DEF IInv

-----------------------------------------------------------------------------
(* What the steps have in common *)

\* The innermost of the scopes that hold x is one of them.
LEMMA LookupIs ==
  ASSUME IsSeq(scopes), NEW x, Visible(x)
  PROVE  \E k \in DOMAIN scopes : x \in DOMAIN scopes[k] /\ Lookup(x) = scopes[k][x]
<1> DEFINE depths == {Len(scopes) - k : k \in Holding(x)}
<1>1. Len(scopes) \in Nat /\ Holding(x) \subseteq 1..Len(scopes) /\ Holding(x) # {}
  BY SeqIs DEF Holding, Visible
<1>2. depths \subseteq Nat /\ depths # {}
  BY <1>1
<1>3. PICK n \in depths : \A m \in depths : ~(<<m, n>> \in OpToRel(<, Nat))
  BY ONLY <1>2, WFMin, NatLessThanWellFounded
<1>4. \A m \in depths : n <= m
  <2>1. \A m \in depths : m \in Nat /\ n \in Nat /\ ~(m < n)
    BY <1>2, <1>3 DEF OpToRel
  <2> QED
    BY <2>1
<1>5. PICK k \in Holding(x) : n = Len(scopes) - k
  OBVIOUS
<1>6. \A l \in Holding(x) : l <= k
  <2> SUFFICES ASSUME NEW l \in Holding(x) PROVE l <= k
    OBVIOUS
  <2>1. n <= Len(scopes) - l
    BY <1>4
  <2> QED
    BY <1>1, <1>5, <2>1
<1> DEFINE top == CHOOSE j \in Holding(x) : \A l \in Holding(x) : l <= j
<1>7. top \in Holding(x)
  BY <1>6
<1> HIDE DEF top
<1>8. top \in DOMAIN scopes /\ x \in DOMAIN scopes[top]
  BY <1>7 DEF Holding
<1>9. Lookup(x) = scopes[top][x]
  BY DEF Lookup, top
<1> QED
  BY <1>8, <1>9

\* A schema that is looked up is one of the program, under that name.
LEMMA SchemaIs ==
  ASSUME IInv, NEW x, IsSchema(x)
  PROVE  Lookup(x).decl \in 1..Len(program) /\ program[Lookup(x).decl].name = x
<1>1. PICK k \in DOMAIN scopes : x \in DOMAIN scopes[k] /\ Lookup(x) = scopes[k][x]
  BY LookupIs DEF IInv, ScopesOK, IsSchema
<1>2. SymbolOK(program, x, Lookup(x))
  BY <1>1 DEF IInv, ScopesOK
<1>3. Lookup(x).decl # 0
  BY DEF IsSchema
<1>4. Len(program) \in Nat
  BY ProgramIs DEF IInv
<1> QED
  BY <1>2, <1>3, <1>4 DEF SymbolOK
LEMMA ErrorsAppended ==
  ASSUME NEW es, NEW fs, ErrorsOK(es), ErrorsOK(fs)
  PROVE  ErrorsOK(es \o fs)
<1>1. IsSeq(es \o fs) /\ \A k \in DOMAIN (es \o fs) : (es \o fs)[k] \in Range(es) \cup Range(fs)
  BY ConcatIs DEF ErrorsOK
<1>2. \A e \in Range(es) \cup Range(fs) : e.kind \in Kinds
  BY DEF Range, ErrorsOK
<1> QED
  BY <1>1, <1>2 DEF ErrorsOK

LEMMA OneError ==
  ASSUME NEW kind \in Kinds, NEW x
  PROVE  ErrorsOK(<<Error(kind, x)>>)
<1>1. Error(kind, x).kind = kind
  BY DEF Error
<1> QED
  BY <1>1, OneIs DEF ErrorsOK

LEMMA NoError == ErrorsOK(<<>>)
BY EmptyIs DEF ErrorsOK

\* A declaration adds a symbol to the innermost scope or reports one error.
LEMMA DefineKeeps ==
  ASSUME IInv, NEW x, NEW symbol, SymbolOK(program, x, symbol),
         NEW reported, ErrorsOK(reported), Define(x, symbol, reported)
  PROVE  /\ ScopesOK(program, scopes') /\ Len(scopes') = Len(scopes)
         /\ ErrorsOK(errors')
<1>1. ErrorsOK(errors) /\ ScopesOK(program, scopes) /\ IsSeq(scopes)
  BY DEF IInv, ScopesOK
<1>2. ErrorsOK(errors \o reported)
  BY <1>1, ErrorsAppended
<1>3. CASE x \notin DOMAIN Scope
  <2> DEFINE scope == [y \in DOMAIN Scope \cup {x} |-> IF y = x THEN symbol ELSE Scope[y]]
  <2>1. scopes' = [scopes EXCEPT ![Len(scopes)] = scope] /\ errors' = errors \o reported
    BY <1>3 DEF Define
  <2>2. scopes # <<>> /\ Len(scopes) \in DOMAIN scopes
    <3>1. Len(scopes) \in Nat /\ DOMAIN scopes = 1..Len(scopes)
      BY <1>1, SeqIs
    <3>2. Len(scopes) # 0
      BY SeqIs DEF IInv, FramesOK
    <3> QED
      BY <3>1, <3>2
  <2>3. \A y \in DOMAIN scope : SymbolOK(program, y, scope[y])
    <3> SUFFICES ASSUME NEW y \in DOMAIN Scope \cup {x} PROVE SymbolOK(program, y, scope[y])
      OBVIOUS
    <3>1. CASE y = x
      BY <3>1
    <3>2. CASE y # x
      BY <1>1, <2>2, <3>2 DEF ScopesOK, Scope
    <3> QED
      BY <3>1, <3>2
  <2> HIDE DEF scope
  <2>4. /\ IsSeq(scopes') /\ Len(scopes') = Len(scopes) /\ DOMAIN scopes' = 1..Len(scopes)
        /\ \A k \in 1..Len(scopes) : scopes'[k] = IF k = Len(scopes) THEN scope ELSE scopes[k]
    BY <1>1, <2>1, <2>2, ExceptIs
  <2>5. DOMAIN scopes = 1..Len(scopes)
    BY <1>1, SeqIs
  <2>6. \A k \in DOMAIN scopes' : \A y \in DOMAIN scopes'[k] : SymbolOK(program, y, scopes'[k][y])
    BY <1>1, <2>3, <2>4, <2>5 DEF ScopesOK
  <2> QED
    BY <1>2, <2>1, <2>4, <2>6 DEF ScopesOK
<1>4. CASE x \in DOMAIN Scope
  <2>1. scopes' = scopes /\ errors' = errors \o reported \o <<Error("REDECLARATION", x)>>
    BY <1>4 DEF Define
  <2>2. ErrorsOK(<<Error("REDECLARATION", x)>>)
    BY OneError DEF Kinds
  <2> QED
    BY <1>1, <1>2, <2>1, <2>2, ErrorsAppended
<1> QED
  BY <1>3, <1>4

LEMMA FrameIs ==
  ASSUME IInv, NEW decl \in 0..Len(program), NEW items
  PROVE  FrameOK(program, Frame(decl, items)) /\ Frame(decl, items).decl = decl
BY DEF FrameOK, Frame

\* A scope without symbols is opened.
LEMMA ScopeOpened ==
  ASSUME IInv
  PROVE  /\ ScopesOK(program, Append(scopes, NoSymbols))
         /\ Len(Append(scopes, NoSymbols)) = Len(scopes) + 1
<1> DEFINE sc == Append(scopes, NoSymbols)
<1>1. IsSeq(scopes) /\ DOMAIN scopes = 1..Len(scopes) /\ ScopesOK(program, scopes)
  BY SeqIs DEF IInv, ScopesOK
<1>2. /\ IsSeq(sc) /\ Len(sc) = Len(scopes) + 1 /\ DOMAIN sc = 1..(Len(scopes) + 1)
      /\ \A k \in 1..Len(scopes) : sc[k] = scopes[k]
      /\ sc[Len(scopes) + 1] = NoSymbols
  BY <1>1, AppendIs
<1>3. DOMAIN NoSymbols = {}
  BY DEF NoSymbols
<1> HIDE DEF sc
<1>4. Len(scopes) \in Nat
  BY <1>1, SeqIs
<1>5. \A k \in DOMAIN sc : \A x \in DOMAIN sc[k] : SymbolOK(program, x, sc[k][x])
  <2> SUFFICES ASSUME NEW k \in 1..(Len(scopes) + 1), NEW x \in DOMAIN sc[k]
               PROVE  SymbolOK(program, x, sc[k][x])
    BY <1>2
  <2>1. CASE k \in 1..Len(scopes)
    BY <1>1, <1>2, <2>1 DEF ScopesOK
  <2>2. CASE k = Len(scopes) + 1
    BY <1>2, <1>3, <2>2
  <2> QED
    BY <1>4, <2>1, <2>2
<1> QED
  BY <1>2, <1>5 DEF ScopesOK, sc

\* A frame on top of good ones.
LEMMA FramePushed ==
  ASSUME NEW p, NEW fr, FramesOK(p, fr), NEW f, FrameOK(p, f)
  PROVE  /\ FramesOK(p, Append(fr, f)) /\ Len(Append(fr, f)) = Len(fr) + 1
         /\ DOMAIN Append(fr, f) = 1..(Len(fr) + 1) /\ DOMAIN fr = 1..Len(fr)
         /\ Len(fr) \in Nat
         /\ \A m \in 1..Len(fr) : Append(fr, f)[m] = fr[m]
         /\ Append(fr, f)[Len(fr) + 1] = f
<1> DEFINE gr == Append(fr, f)
<1>1. IsSeq(fr) /\ DOMAIN fr = 1..Len(fr) /\ Len(fr) \in Nat
  BY SeqIs DEF FramesOK
<1>2. /\ IsSeq(gr) /\ Len(gr) = Len(fr) + 1 /\ DOMAIN gr = 1..(Len(fr) + 1)
      /\ \A m \in 1..Len(fr) : gr[m] = fr[m]
      /\ gr[Len(fr) + 1] = f
  BY <1>1, AppendIs
<1> HIDE DEF gr
<1>3. \A m \in DOMAIN gr : FrameOK(p, gr[m])
  <2> SUFFICES ASSUME NEW m \in 1..(Len(fr) + 1) PROVE FrameOK(p, gr[m])
    BY <1>2
  <2>1. CASE m \in 1..Len(fr)
    BY <1>1, <1>2, <2>1 DEF FramesOK
  <2>2. CASE m = Len(fr) + 1
    BY <1>2, <2>2
  <2> QED
    BY <1>1, <2>1, <2>2
<1> QED
  BY <1>1, <1>2, <1>3 DEF FramesOK, gr

\* A schema that is neither marked nor on the stack is entered.
LEMMA EnterKeeps ==
  ASSUME IInv, NEW d \in 1..Len(program), program[d].name \notin resolved,
         ~Resolving(program[d].name), Enter(d)
  PROVE  /\ ScopesOK(program, scopes') /\ FramesOK(program, frames')
         /\ Len(scopes') = Len(frames') + 1
         /\ StackOK(program, frames', resolving_stack', resolved')
<1> DEFINE f == Frame(d, program[d].items)
<1>1. FrameOK(program, f) /\ f.decl = d /\ d # 0
  <2>1. d \in 0..Len(program) /\ d # 0
    BY ProgramIs DEF IInv
  <2> QED
    BY <2>1, FrameIs
<1> HIDE DEF f
<1>2. /\ scopes' = Append(scopes, NoSymbols) /\ frames' = Append(frames, f)
      /\ resolving_stack' = Append(resolving_stack, program[d].name)
      /\ resolved' = resolved
  BY DEF Enter, f
<1>3. /\ FramesOK(program, frames) /\ IsSeq(frames)
      /\ StackOK(program, frames, resolving_stack, resolved)
      /\ IsSeq(resolving_stack) /\ Follows(program, frames, resolving_stack)
      /\ Unmarked(resolving_stack, resolved) /\ Len(scopes) = Len(frames) + 1
  BY DEF IInv, FramesOK, StackOK
<1>4. FramesOK(program, frames') /\ Len(frames') = Len(frames) + 1
  BY <1>1, <1>2, <1>3, FramePushed
<1>5. ScopesOK(program, scopes') /\ Len(scopes') = Len(scopes) + 1
  BY <1>2, ScopeOpened
<1>6. Follows(program, frames', resolving_stack')
  <2>1. Follows(program, Append(frames, f), Append(resolving_stack, program[f.decl].name))
    BY <1>1, <1>3, FollowsEnter
  <2> QED
    BY <1>1, <1>2, <2>1
<1>7. /\ Len(resolving_stack) \in Nat /\ DOMAIN resolving_stack = 1..Len(resolving_stack)
      /\ IsSeq(resolving_stack') /\ DOMAIN resolving_stack' = 1..(Len(resolving_stack) + 1)
      /\ \A k \in 1..Len(resolving_stack) : resolving_stack'[k] = resolving_stack[k]
      /\ resolving_stack'[Len(resolving_stack) + 1] = program[d].name
  BY <1>2, <1>3, AppendIs, SeqIs
<1>8. \A k \in 1..Len(resolving_stack) : resolving_stack[k] # program[d].name
  BY <1>7 DEF Resolving
<1>9. \A k \in 1..(Len(resolving_stack) + 1) :
        k \in 1..Len(resolving_stack) \/ k = Len(resolving_stack) + 1
  BY <1>7
<1>10. Unmarked(resolving_stack', resolved')
  <2>1. \A k, l \in 1..Len(resolving_stack) : resolving_stack[k] = resolving_stack[l] => k = l
    BY <1>3, <1>7 DEF Unmarked
  <2>2. \A k \in 1..Len(resolving_stack) : resolving_stack[k] \notin resolved
    BY <1>3, <1>7 DEF Unmarked
  <2>3. ASSUME NEW k \in DOMAIN resolving_stack', NEW l \in DOMAIN resolving_stack',
               resolving_stack'[k] = resolving_stack'[l]
        PROVE  k = l
    BY <1>7, <1>8, <1>9, <2>1, <2>3
  <2>4. \A k \in DOMAIN resolving_stack' : resolving_stack'[k] \notin resolved'
    BY <1>2, <1>7, <1>9, <2>2
  <2> QED
    BY ONLY <2>3, <2>4 DEF Unmarked
<1>11. /\ \A k \in DOMAIN resolving_stack' : resolving_stack'[k] \in Name
       /\ resolved' \subseteq Name
  <2>1. program[d].name \in Name
    BY ProgramIs DEF IInv
  <2>2. resolved \subseteq Name /\ \A k \in DOMAIN resolving_stack : resolving_stack[k] \in Name
    BY <1>3 DEF StackOK
  <2> QED
    BY <1>2, <1>7, <1>9, <2>1, <2>2
<1>12. StackOK(program, frames', resolving_stack', resolved')
  BY ONLY <1>6, <1>7, <1>10, <1>11 DEF StackOK
<1> QED
  BY <1>3, <1>4, <1>5, <1>12, SeqIs DEF FramesOK
\* The innermost frame moves on.
LEMMA FrameMoves ==
  ASSUME IInv, frames # <<>>, NEW n, NEW pass, NEW gr,
         gr = [frames EXCEPT ![Len(frames)] =
                 [decl |-> Top.decl, items |-> Top.items, n |-> n, pass |-> pass]]
  PROVE  /\ FramesOK(program, gr) /\ Len(gr) = Len(frames)
         /\ StackOK(program, gr, resolving_stack, resolved)
<1> DEFINE f == [decl |-> Top.decl, items |-> Top.items, n |-> n, pass |-> pass]
<1>1. FramesOK(program, frames) /\ IsSeq(frames) /\ DOMAIN frames = 1..Len(frames)
  BY SeqIs DEF IInv, FramesOK
<1>a. gr = [frames EXCEPT ![Len(frames)] = f]
  OBVIOUS
<1>b. Len(frames) \in DOMAIN frames
  BY <1>1, ExceptIs
<1>3. FrameOK(program, f) /\ f.decl = frames[Len(frames)].decl
  BY <1>1, <1>b DEF FramesOK, FrameOK, Top
<1> HIDE DEF f
<1>2. /\ IsSeq(gr) /\ Len(gr) = Len(frames) /\ DOMAIN gr = 1..Len(frames)
      /\ Len(frames) \in 1..Len(frames)
      /\ \A m \in 1..Len(frames) : gr[m] = IF m = Len(frames) THEN f ELSE frames[m]
  BY ONLY <1>1, <1>a, frames # <<>>, ExceptIs
<1>4. FramesOK(program, gr)
  <2>1. \A m \in 1..Len(frames) : FrameOK(program, frames[m])
    BY <1>1 DEF FramesOK
  <2>2. \A m \in DOMAIN gr : FrameOK(program, gr[m])
    BY ONLY <1>2, <1>3, <2>1
  <2> QED
    BY <1>2, <2>2 DEF FramesOK
<1>5. Follows(program, gr, resolving_stack)
  <2>1. Follows(program, frames, resolving_stack)
    BY DEF IInv, StackOK
  <2>2. \A m \in DOMAIN frames : gr[m].decl = frames[m].decl
    BY <1>1, <1>2, <1>3
  <2> QED
    BY <1>1, <1>2, <2>1, <2>2, FollowsKept
<1> QED
  BY <1>2, <1>4, <1>5 DEF IInv, StackOK

LEMMA AdvancedIs ==
  ASSUME IInv, frames # <<>>
  PROVE  Advanced = [frames EXCEPT ![Len(frames)] =
           [decl |-> Top.decl, items |-> Top.items, n |-> Top.n + 1, pass |-> Top.pass]]
<1>1. Len(frames) \in DOMAIN frames
  BY SeqIs, ExceptIs DEF IInv, FramesOK
<1>2. Top = [decl |-> Top.decl, items |-> Top.items, n |-> Top.n, pass |-> Top.pass]
  BY <1>1 DEF IInv, FramesOK, FrameOK, Top
<1> DEFINE f == [decl |-> Top.decl, items |-> Top.items, n |-> Top.n + 1, pass |-> Top.pass]
<1>3. [Top EXCEPT !.n = @ + 1] = f
  BY <1>2
<1>4. Advanced = [frames EXCEPT ![Len(frames)] = [Top EXCEPT !.n = @ + 1]]
  BY DEF Advanced, Top
<1> QED
  BY <1>3, <1>4

\* What a step leaves alone stays as it is.
LEMMA StackAlone ==
  ASSUME IInv, UNCHANGED <<frames, resolving_stack, resolved>>
  PROVE  /\ FramesOK(program, frames') /\ Len(frames') = Len(frames)
         /\ StackOK(program, frames', resolving_stack', resolved')
BY DEF IInv

LEMMA CountersAlone ==
  ASSUME IInv, UNCHANGED <<program, pc, at>>
  PROVE  CountersOK'
BY DEF IInv, CountersOK

\* The parts of the invariant after a step that keeps the program.
LEMMA Assemble ==
  ASSUME program' = program, CountersOK',
         ScopesOK(program, scopes'), FramesOK(program, frames'),
         Len(scopes') = Len(frames') + 1, ErrorsOK(errors'),
         StackOK(program, frames', resolving_stack', resolved')
  PROVE  IInv'
BY DEF IInv

-----------------------------------------------------------------------------
(* The steps *)

LEMMA DeclareStep == IInv /\ Declare => IInv'
<1> SUFFICES ASSUME IInv, Declare PROVE IInv'
  OBVIOUS
<1>1. at \in 1..Len(program) /\ at + 1 \in 1..(Len(program) + 1)
  BY ProgramIs DEF IInv, CountersOK, Declare
<1>2. CountersOK'
  BY <1>1 DEF IInv, CountersOK, Declare
<1>3. SymbolOK(program, program[at].name, Symbol("schema", at))
  BY <1>1, ProgramIs DEF IInv, SymbolOK, Symbol, SymbolTypes
<1>4. Define(program[at].name, Symbol("schema", at), <<>>)
  BY DEF Declare
<1>5. ScopesOK(program, scopes') /\ Len(scopes') = Len(scopes) /\ ErrorsOK(errors')
  BY <1>3, <1>4, NoError, DefineKeeps
<1>6. program' = program /\ UNCHANGED <<frames, resolving_stack, resolved>>
  BY DEF Declare
<1>7. Len(scopes) = Len(frames) + 1
  BY DEF IInv
<1> QED
  BY <1>2, <1>5, <1>6, <1>7, StackAlone, Assemble

LEMMA LoopStep == IInv /\ (Declared \/ Finish) => IInv'
<1> SUFFICES ASSUME IInv, Declared \/ Finish PROVE IInv'
  OBVIOUS
<1>1. UNCHANGED <<program, scopes, resolving_stack, frames, resolved, errors>>
  BY DEF Declared, Finish
<1>2. /\ pc' \in {"declare", "check", "done"} /\ at' \in {1, at}
  BY DEF Declared, Finish
<1>3. CountersOK'
  BY <1>1, <1>2, ProgramIs DEF IInv, CountersOK
<1>4. ScopesOK(program, scopes') /\ ErrorsOK(errors') /\ Len(scopes') = Len(frames') + 1
  BY <1>1 DEF IInv
<1> QED
  BY <1>1, <1>3, <1>4, StackAlone, Assemble

LEMMA StartSchemaStep == IInv /\ StartSchema => IInv'
<1> SUFFICES ASSUME IInv, StartSchema PROVE IInv'
  OBVIOUS
<1>1. at \in 1..Len(program) /\ at + 1 \in 1..(Len(program) + 1)
  BY ProgramIs DEF IInv, CountersOK, StartSchema
<1>2. CountersOK'
  BY <1>1 DEF IInv, CountersOK, StartSchema
<1>3. program' = program /\ errors' = errors
  BY DEF StartSchema
<1>4. ErrorsOK(errors')
  BY <1>3 DEF IInv
<1>5. CASE program[at].name \notin resolved /\ Enter(at)
  <2>1. resolving_stack = <<>>
    <3>1. frames = <<>> /\ Follows(program, frames, resolving_stack) /\ IsSeq(resolving_stack)
      BY DEF IInv, StackOK, StartSchema
    <3>2. PICK pos \in [DOMAIN resolving_stack -> {}] : TRUE
      BY <3>1, EmptyIs DEF Follows
    <3>3. DOMAIN resolving_stack = {}
      BY <3>2
    <3>4. Len(resolving_stack) = 0
      BY <3>1, <3>3, SeqIs
    <3> QED
      BY <3>1, <3>4, EmptySeq DEF IsSeq
  <2>2. ~Resolving(program[at].name)
    BY <2>1, EmptyIs DEF Resolving
  <2> QED
    BY <1>1, <1>2, <1>3, <1>4, <1>5, <2>2, EnterKeeps, Assemble
<1>6. CASE UNCHANGED <<scopes, resolving_stack, frames, resolved>>
  <2>1. ScopesOK(program, scopes') /\ Len(scopes') = Len(frames') + 1
    BY <1>6 DEF IInv
  <2> QED
    BY <1>2, <1>3, <1>4, <1>6, <2>1, StackAlone, Assemble
<1> QED
  BY <1>5, <1>6 DEF StartSchema

LEMMA DescendStep == IInv /\ Descend => IInv'
<1> SUFFICES ASSUME IInv, Descend PROVE IInv'
  OBVIOUS
<1> DEFINE d == Lookup(Item.type).decl
<1>1. d \in 1..Len(program) /\ program[d].name = Item.type
  BY SchemaIs DEF Descend, Unresolved
<1>2. program[d].name \notin resolved /\ ~Resolving(program[d].name) /\ Enter(d)
  BY <1>1 DEF Descend, Unresolved
<1>3. UNCHANGED <<program, pc, at>> /\ ErrorsOK(errors')
  BY DEF Descend, IInv
<1> HIDE DEF d
<1> QED
  BY <1>1, <1>2, <1>3, CountersAlone, EnterKeeps, Assemble

\* The frames of a step that only goes on to the next item.
LEMMA Advances ==
  ASSUME IInv, frames # <<>>, frames' = Advanced, UNCHANGED <<resolving_stack, resolved>>
  PROVE  /\ FramesOK(program, frames') /\ Len(frames') = Len(frames)
         /\ StackOK(program, frames', resolving_stack', resolved')
BY AdvancedIs, FrameMoves

LEMMA DefineFieldStep == IInv /\ DefineField => IInv'
<1> SUFFICES ASSUME IInv, DefineField PROVE IInv'
  OBVIOUS
<1>1. FieldType(Item) \in SymbolTypes
  BY DEF FieldType, SymbolTypes, BuiltIn
<1>2. SymbolOK(program, Item.name, Symbol(FieldType(Item), 0))
  BY <1>1, ProgramIs DEF IInv, SymbolOK, Symbol
<1>3. ErrorsOK(TypeErrors(Item.type))
  <2>1. CASE TypeErrors(Item.type) = <<>>
    BY <2>1, NoError
  <2>2. CASE TypeErrors(Item.type) = <<Error("CIRCULAR_DEPENDENCY", Item.type)>>
    BY <2>2, OneError DEF Kinds
  <2>3. CASE TypeErrors(Item.type) = <<Error("UNKNOWN_TYPE", Item.type)>>
    BY <2>3, OneError DEF Kinds
  <2> QED
    BY <2>1, <2>2, <2>3 DEF TypeErrors
<1>4. Define(Item.name, Symbol(FieldType(Item), 0), TypeErrors(Item.type))
  BY DEF DefineField
<1>5. ScopesOK(program, scopes') /\ Len(scopes') = Len(scopes) /\ ErrorsOK(errors')
  BY <1>2, <1>3, <1>4, DefineKeeps
<1>6. /\ frames # <<>> /\ frames' = Advanced
      /\ UNCHANGED <<program, pc, at>> /\ UNCHANGED <<resolving_stack, resolved>>
  BY DEF DefineField, Defining
<1>7. Len(scopes) = Len(frames) + 1
  BY DEF IInv
<1> QED
  BY <1>5, <1>6, <1>7, Advances, CountersAlone, Assemble

LEMMA DefineSectionStep == IInv /\ DefineSection => IInv'
<1> SUFFICES ASSUME IInv, DefineSection PROVE IInv'
  OBVIOUS
<1>1. SymbolOK(program, Item.name, Symbol("section", 0))
  BY ProgramIs DEF IInv, SymbolOK, Symbol, SymbolTypes
<1>2. Define(Item.name, Symbol("section", 0), <<>>)
  BY DEF DefineSection
<1>3. ScopesOK(program, scopes') /\ Len(scopes') = Len(scopes) /\ ErrorsOK(errors')
  BY <1>1, <1>2, NoError, DefineKeeps
<1>4. /\ frames # <<>> /\ frames' = Advanced
      /\ UNCHANGED <<program, pc, at>> /\ UNCHANGED <<resolving_stack, resolved>>
  BY DEF DefineSection, Defining
<1>5. Len(scopes) = Len(frames) + 1
  BY DEF IInv
<1> QED
  BY <1>3, <1>4, <1>5, Advances, CountersAlone, Assemble

\* Both fields of a frame are set at once.
LEMMA TurnedIs ==
  ASSUME NEW f, f = [decl |-> f.decl, items |-> f.items, n |-> f.n, pass |-> f.pass]
  PROVE  [f EXCEPT !.n = 1, !.pass = "check"]
           = [decl |-> f.decl, items |-> f.items, n |-> 1, pass |-> "check"]
<1> DEFINE rec(n, pass) == [decl |-> f.decl, items |-> f.items, n |-> n, pass |-> pass]
<1>1. [rec(f.n, f.pass) EXCEPT !.n = 1] = rec(1, f.pass)
  OBVIOUS
<1>2. [rec(1, f.pass) EXCEPT !.pass = "check"] = rec(1, "check")
  OBVIOUS
<1>3. [f EXCEPT !.n = 1, !.pass = "check"] = [[f EXCEPT !.n = 1] EXCEPT !.pass = "check"]
  BY Zenon
<1>4. f = rec(f.n, f.pass)
  OBVIOUS
<1> HIDE DEF rec
<1>5. [f EXCEPT !.n = 1] = rec(1, f.pass)
  BY ONLY <1>1, <1>4, Zenon
<1>6. [f EXCEPT !.n = 1, !.pass = "check"] = rec(1, "check")
  BY ONLY <1>2, <1>3, <1>5, Zenon
<1> QED
  BY ONLY <1>6 DEF rec

LEMMA EndDefineStep == IInv /\ EndDefine => IInv'
<1> SUFFICES ASSUME IInv, EndDefine PROVE IInv'
  OBVIOUS
<1>1. /\ frames # <<>> /\ UNCHANGED <<program, pc, at>>
      /\ UNCHANGED <<scopes, resolving_stack, resolved, errors>>
      /\ frames' = [frames EXCEPT ![Len(frames)] = [Top EXCEPT !.n = 1, !.pass = "check"]]
  BY DEF EndDefine, Top
<1>2. Len(frames) \in DOMAIN frames
  BY <1>1, SeqIs, ExceptIs DEF IInv, FramesOK
<1>3. Top = [decl |-> Top.decl, items |-> Top.items, n |-> Top.n, pass |-> Top.pass]
  BY <1>2 DEF IInv, FramesOK, FrameOK, Top
<1>4. [Top EXCEPT !.n = 1, !.pass = "check"]
        = [decl |-> Top.decl, items |-> Top.items, n |-> 1, pass |-> "check"]
  BY <1>3, TurnedIs
<1>5. /\ FramesOK(program, frames') /\ Len(frames') = Len(frames)
      /\ StackOK(program, frames', resolving_stack, resolved)
  BY <1>1, <1>4, FrameMoves
<1>6. ScopesOK(program, scopes') /\ ErrorsOK(errors') /\ Len(scopes') = Len(frames') + 1
  BY <1>1, <1>5 DEF IInv
<1> QED
  BY <1>1, <1>5, <1>6, CountersAlone, Assemble

\* A property reports a redeclaration or not, and then one error or none.
LEMMA PropertyErrorsOK ==
  ASSUME NEW type, NEW props, NEW n
  PROVE  ErrorsOK(PropertyErrors(type, props, n))
<1> DEFINE name == props[n].name
           again == IF \E m \in 1..(n - 1) : props[m].name = name
                    THEN <<Error("REDECLARATION", name)>> ELSE <<>>
           value == ValueErrors(type, name, props[n].value)
           fault == IF name \notin DOMAIN PropertyDefs(type)
                    THEN <<Error("UNEXPECTED_PROPERTY", name)>> ELSE value
<1>1. ErrorsOK(again)
  <2>1. ErrorsOK(<<Error("REDECLARATION", name)>>)
    BY OneError DEF Kinds
  <2> QED
    BY <2>1, NoError
<1>2. ErrorsOK(value)
  <2>1. ErrorsOK(<<Error("UNDECLARED", props[n].value.left)>>)
    BY OneError DEF Kinds
  <2>2. ErrorsOK(<<Error("TYPE_MISMATCH", name)>>)
    BY OneError DEF Kinds
  <2> QED
    BY <2>1, <2>2, NoError DEF ValueErrors
<1>3. ErrorsOK(fault)
  <2>1. ErrorsOK(<<Error("UNEXPECTED_PROPERTY", name)>>)
    BY OneError DEF Kinds
  <2> HIDE DEF value
  <2> QED
    BY <1>2, <2>1
<1>4. PropertyErrors(type, props, n) = again \o fault
  BY DEF PropertyErrors
<1> HIDE DEF again, fault
<1> QED
  BY <1>1, <1>3, <1>4, ErrorsAppended

LEMMA CheckPropertyStep == IInv /\ CheckProperty => IInv'
<1> SUFFICES ASSUME IInv, CheckProperty PROVE IInv'
  OBVIOUS
<1>1. /\ frames' = frames /\ UNCHANGED <<program, pc, at>> /\ UNCHANGED <<resolving_stack, resolved>>
      /\ scopes' = scopes
      /\ errors' = errors \o PropertyErrors(Scope[Item.name].type, Item.props, prop)
  BY DEF CheckProperty
<1>2. ErrorsOK(errors')
  BY <1>1, PropertyErrorsOK, ErrorsAppended DEF IInv
<1>3. CountersOK'
  BY <1>1 DEF IInv, CountersOK
<1> QED
  BY <1>1, <1>2, <1>3 DEF IInv

LEMMA CheckFieldStep == IInv /\ CheckField => IInv'
<1> SUFFICES ASSUME IInv, CheckField PROVE IInv'
  OBVIOUS
<1>1. /\ frames # <<>> /\ frames' = Advanced
      /\ UNCHANGED <<program, pc, at>> /\ UNCHANGED <<resolving_stack, resolved>>
      /\ scopes' = scopes /\ errors' = errors
  BY DEF CheckField, Checking
<1>2. ScopesOK(program, scopes') /\ Len(scopes') = Len(frames) + 1 /\ ErrorsOK(errors')
  BY <1>1 DEF IInv
<1> QED
  BY <1>1, <1>2, Advances, CountersAlone, Assemble

LEMMA CheckSectionStep == IInv /\ CheckSection => IInv'
<1> SUFFICES ASSUME IInv, CheckSection PROVE IInv'
  OBVIOUS
<1> DEFINE f == Frame(0, Item.items)
           gr == Advanced
<1>1. /\ frames # <<>> /\ frames' = Append(gr, f) /\ scopes' = Append(scopes, NoSymbols)
      /\ UNCHANGED <<program, pc, at>> /\ UNCHANGED <<resolving_stack, resolved, errors>>
  BY DEF CheckSection, Checking
<1>2. /\ FramesOK(program, gr) /\ Len(gr) = Len(frames)
      /\ StackOK(program, gr, resolving_stack, resolved)
  BY <1>1, AdvancedIs, FrameMoves
<1>3. FrameOK(program, f) /\ f.decl = 0
  <2>1. 0 \in 0..Len(program)
    BY ProgramIs DEF IInv
  <2> QED
    BY <2>1, FrameIs
<1> HIDE DEF f, gr
<1>4. /\ FramesOK(program, frames') /\ Len(frames') = Len(gr) + 1
      /\ DOMAIN frames' = 1..(Len(gr) + 1) /\ DOMAIN gr = 1..Len(gr) /\ Len(gr) \in Nat
      /\ \A m \in 1..Len(gr) : frames'[m] = gr[m]
      /\ frames'[Len(gr) + 1] = f
  BY <1>1, <1>2, <1>3, FramePushed
<1>5. Follows(program, frames', resolving_stack)
  <2>1. DOMAIN gr \subseteq DOMAIN frames'
    BY <1>4
  <2>2. \A m \in DOMAIN gr : frames'[m].decl = gr[m].decl
    BY <1>4
  <2>3. \A m \in DOMAIN frames' \ DOMAIN gr : frames'[m].decl = 0
    BY <1>3, <1>4
  <2>4. Follows(program, gr, resolving_stack)
    BY <1>2 DEF StackOK
  <2> QED
    BY <2>1, <2>2, <2>3, <2>4, FollowsKept
<1>6. StackOK(program, frames', resolving_stack', resolved')
  BY <1>1, <1>2, <1>5 DEF StackOK
<1>7. ScopesOK(program, scopes') /\ Len(scopes') = Len(frames') + 1 /\ ErrorsOK(errors')
  BY <1>1, <1>2, <1>4, ScopeOpened DEF IInv
<1> QED
  BY <1>1, <1>4, <1>6, <1>7, CountersAlone, Assemble

LEMMA LastIsApart ==
  ASSUME NEW m \in Nat
  PROVE  \A k \in 1..(m - 1) : k \in 1..m /\ k # m
OBVIOUS

LEMMA LeaveStep == IInv /\ Leave => IInv'
<1> SUFFICES ASSUME IInv, Leave PROVE IInv'
  OBVIOUS
<1>1. /\ frames # <<>> /\ frames' = Front(frames) /\ scopes' = Front(scopes)
      /\ UNCHANGED <<program, pc, at>> /\ errors' = errors
  BY DEF Leave, Finished
<1>2. /\ FramesOK(program, frames) /\ IsSeq(frames) /\ Len(frames) \in Nat
      /\ DOMAIN frames = 1..Len(frames)
      /\ ScopesOK(program, scopes) /\ IsSeq(scopes) /\ Len(scopes) = Len(frames) + 1
      /\ DOMAIN scopes = 1..Len(scopes)
  BY SeqIs DEF IInv, FramesOK, ScopesOK
<1>3. scopes # <<>>
  BY <1>2, EmptyIs
<1>4. /\ IsSeq(Front(frames)) /\ Len(Front(frames)) = Len(frames) - 1
      /\ DOMAIN Front(frames) = 1..(Len(frames) - 1)
      /\ \A m \in 1..(Len(frames) - 1) : Front(frames)[m] = frames[m]
  BY <1>1, <1>2, FrontIs
<1>5. /\ IsSeq(Front(scopes)) /\ Len(Front(scopes)) = Len(scopes) - 1
      /\ DOMAIN Front(scopes) = 1..(Len(scopes) - 1)
      /\ \A m \in 1..(Len(scopes) - 1) : Front(scopes)[m] = scopes[m]
  BY <1>2, <1>3, FrontIs
<1>6. FramesOK(program, frames')
  BY <1>1, <1>2, <1>4 DEF FramesOK
<1>7. ScopesOK(program, scopes') /\ Len(scopes') = Len(frames') + 1
  BY <1>1, <1>2, <1>4, <1>5 DEF ScopesOK
<1>8. /\ Follows(program, frames, resolving_stack) /\ IsSeq(resolving_stack)
      /\ \A k \in DOMAIN resolving_stack : resolving_stack[k] \in Name
      /\ resolved \subseteq Name /\ Unmarked(resolving_stack, resolved)
  BY DEF IInv, StackOK
<1>9. CASE Top.decl = 0
  <2>1. UNCHANGED <<resolved, resolving_stack>>
    BY <1>9 DEF Leave
  <2>2. Follows(program, frames', resolving_stack)
    BY <1>1, <1>2, <1>8, <1>9, FollowsLeaveSection DEF Top
  <2>3. StackOK(program, frames', resolving_stack', resolved')
    BY <1>8, <2>1, <2>2 DEF StackOK
  <2> QED
    BY <1>1, <1>6, <1>7, <2>3, CountersAlone, Assemble DEF IInv
<1>10. CASE Top.decl # 0
  <2> DEFINE x == program[Top.decl].name
  <2>1. resolved' = resolved \cup {x} /\ resolving_stack' = Front(resolving_stack)
    BY <1>10 DEF Leave
  <2>2. /\ resolving_stack # <<>> /\ resolving_stack[Len(resolving_stack)] = x
        /\ Follows(program, frames', resolving_stack')
    BY <1>1, <1>2, <1>8, <1>10, <2>1, FollowsLeaveSchema DEF Top
  <2> HIDE DEF x
  <2>3. /\ IsSeq(resolving_stack') /\ DOMAIN resolving_stack' = 1..(Len(resolving_stack) - 1)
        /\ \A k \in 1..(Len(resolving_stack) - 1) : resolving_stack'[k] = resolving_stack[k]
    BY <1>8, <2>1, <2>2, FrontIs
  <2>4. /\ DOMAIN resolving_stack = 1..Len(resolving_stack) /\ Len(resolving_stack) \in Nat
        /\ Len(resolving_stack) \in 1..Len(resolving_stack)
    BY <1>8, <2>2, ExceptIs, SeqIs
  <2>5. \A k \in 1..(Len(resolving_stack) - 1) :
          k \in 1..Len(resolving_stack) /\ k # Len(resolving_stack)
    BY ONLY <2>4, LastIsApart
  <2>6. x \in Name
    BY <1>8, <2>2, <2>4
  <2>7. \A k \in 1..(Len(resolving_stack) - 1) : resolving_stack[k] # x
    BY <1>8, <2>2, <2>4, <2>5 DEF Unmarked
  <2>8. Unmarked(resolving_stack', resolved')
    <3>1. \A k, l \in 1..Len(resolving_stack) : resolving_stack[k] = resolving_stack[l] => k = l
      BY <1>8, <2>4 DEF Unmarked
    <3>2. \A k \in 1..Len(resolving_stack) : resolving_stack[k] \notin resolved
      BY <1>8, <2>4 DEF Unmarked
    <3>3. \A k, l \in DOMAIN resolving_stack' :
            resolving_stack'[k] = resolving_stack'[l] => k = l
      BY ONLY <2>3, <2>5, <3>1
    <3>4. \A k \in DOMAIN resolving_stack' : resolving_stack'[k] \notin resolved'
      BY ONLY <2>1, <2>3, <2>5, <2>7, <3>2
    <3> QED
      BY ONLY <3>3, <3>4 DEF Unmarked
  <2>9. /\ \A k \in DOMAIN resolving_stack' : resolving_stack'[k] \in Name
        /\ resolved' \subseteq Name
    BY <1>8, <2>1, <2>3, <2>4, <2>5, <2>6
  <2>10. StackOK(program, frames', resolving_stack', resolved')
    BY ONLY <2>2, <2>3, <2>8, <2>9 DEF StackOK
  <2> QED
    BY <1>1, <1>6, <1>7, <2>10, CountersAlone, Assemble DEF IInv
<1> QED
  BY <1>9, <1>10

\* No step leaves the invariant.
LEMMA StepKeepsInv == IInv /\ [Next]_vars => IInv'
<1> SUFFICES ASSUME IInv, [Next]_vars PROVE IInv'
  OBVIOUS
<1>1. CASE UNCHANGED vars
  BY <1>1 DEF vars, IInv, CountersOK
<1>2. CASE Declare
  BY <1>2, DeclareStep
<1>3. CASE Declared \/ Finish
  BY <1>3, LoopStep
<1>4. CASE StartSchema
  BY <1>4, StartSchemaStep
<1>5. CASE Descend
  BY <1>5, DescendStep
<1>6. CASE DefineField
  BY <1>6, DefineFieldStep
<1>7. CASE DefineSection
  BY <1>7, DefineSectionStep
<1>8. CASE EndDefine
  BY <1>8, EndDefineStep
<1>9. CASE CheckProperty
  BY <1>9, CheckPropertyStep
<1>12. CASE CheckField
  BY <1>12, CheckFieldStep
<1>10. CASE CheckSection
  BY <1>10, CheckSectionStep
<1>11. CASE Leave
  BY <1>11, LeaveStep
<1> QED
  BY <1>1, <1>2, <1>3, <1>4, <1>5, <1>6, <1>7, <1>8, <1>9, <1>10, <1>11, <1>12 DEF Next

\* The loop over the properties of a field counts from one.
PropOK == prop \in Nat \ {0}

LEMMA PropIsCounted == PropOK /\ [Next]_vars => PropOK'
BY DEF PropOK, vars, Next, Declare, Declared, StartSchema, Finish, Descend, DefineField, DefineSection,
       EndDefine, CheckProperty, CheckField, CheckSection, Leave

\* The scopes, frames and marks are what the source says they are, and there is
\* one scope for each call of typecheck_scope_items besides the global one.
THEOREM TypeCorrect == Spec => []TypeOK
<1>1. IInv /\ PropOK => TypeOK
  BY InvIsEnough DEF PropOK
<1>2. Init => PropOK
  BY DEF Init, PropOK
<1> QED
  BY InitInv, StepKeepsInv, PropIsCounted, <1>1, <1>2, PTL DEF Spec

\* For every program, however its schemas refer to each other, the resolving
\* stack of typecheck_schema is the chain of schemas in progress, without a
\* repetition and without a marked one.
THEOREM StackIsTheOpenChain == Spec => []StackIsOpen
<1>1. IInv => StackIsOpen
  BY InvIsEnough
<1> QED
  BY InitInv, StepKeepsInv, <1>1, PTL DEF Spec

-----------------------------------------------------------------------------
(* Induction over the numbers, said of sets *)

LEMMA NatMin ==
  ASSUME NEW T \in SUBSET Nat, T # {}
  PROVE  \E m \in T : \A k \in T : m <= k
<1> DEFINE R == OpToRel(<, Nat)
<1>1. IsWellFoundedOn(R, Nat)
  BY NatLessThanWellFounded
<1>2. \A x, y \in Nat : x < y => <<x, y>> \in R
  BY DEF OpToRel
<1> HIDE DEF R
<1>3. PICK m \in T : \A k \in T : ~(<<k, m>> \in R)
  BY <1>1, WFMin
<1>4. \A k \in T : ~(k < m)
  BY <1>2, <1>3
<1> QED
  BY <1>4

LEMMA SetInduction ==
  ASSUME NEW T, 0 \in T, \A n \in Nat : n \in T => n + 1 \in T
  PROVE  Nat \subseteq T
<1> SUFFICES ASSUME Nat \ T # {} PROVE FALSE
  OBVIOUS
<1>1. PICK m \in Nat \ T : \A k \in Nat \ T : m <= k
  BY NatMin
<1>2. m - 1 \in Nat /\ m - 1 \in T
  BY <1>1
<1> QED
  BY <1>1, <1>2

-----------------------------------------------------------------------------
(* The parts of a scope *)

LevelStep(items, level, k) == IF k = 0 THEN {items} ELSE UNION {Sub(l) : l \in level[k - 1]}

\* The recursion of Level is well defined, to any depth.
LEMMA LevelExists ==
  ASSUME NEW items, NEW n \in Nat
  PROVE  \E level : level = [k \in 0..n |-> LevelStep(items, level, k)]
<1> DEFINE T == {m \in Nat : \E level : level = [k \in 0..m |-> LevelStep(items, level, k)]}
<1>1. 0 \in T
  <2> DEFINE one == [k \in 0..0 |-> {items}]
  <2>1. one = [k \in 0..0 |-> LevelStep(items, one, k)]
    BY DEF LevelStep
  <2> QED
    BY <2>1
<1>2. ASSUME NEW m \in Nat, m \in T PROVE m + 1 \in T
  <2>1. PICK level : level = [k \in 0..m |-> LevelStep(items, level, k)]
    BY <1>2
  <2> DEFINE next == UNION {Sub(l) : l \in level[m]}
             more == [k \in 0..(m + 1) |-> IF k = m + 1 THEN next ELSE level[k]]
  <2>2. \A k \in 0..m : more[k] = level[k]
    OBVIOUS
  <2>3. \A k \in 0..(m + 1) : more[k] = LevelStep(items, more, k)
    <3> SUFFICES ASSUME NEW k \in 0..(m + 1) PROVE more[k] = LevelStep(items, more, k)
      OBVIOUS
    <3>1. CASE k = m + 1
      <4>1. more[k] = next /\ k # 0 /\ k - 1 = m /\ more[m] = level[m]
        BY <3>1
      <4> QED
        BY <4>1 DEF LevelStep
    <3>2. CASE k # m + 1
      <4>1. k \in 0..m /\ more[k] = LevelStep(items, level, k)
        BY <2>1, <2>2, <3>2
      <4>2. k # 0 => more[k - 1] = level[k - 1]
        BY <4>1, <2>2
      <4> HIDE DEF more
      <4> QED
        BY <4>1, <4>2 DEF LevelStep
    <3> QED
      BY <3>1, <3>2
  <2>4. more = [k \in 0..(m + 1) |-> LevelStep(items, more, k)]
    <3>1. more = [k \in 0..(m + 1) |-> more[k]]
      OBVIOUS
    <3> HIDE DEF more
    <3> QED
      BY <2>3, <3>1
  <2> HIDE DEF more
  <2> QED
    BY <2>4
<1> HIDE DEF T
<1>3. n \in T
  BY <1>1, <1>2, SetInduction
<1> QED
  BY <1>3 DEF T

LEMMA LevelIs ==
  ASSUME NEW items
  PROVE  /\ Level(items)[0] = {items}
         /\ \A k \in 0..Nesting : k # 0 => Level(items)[k] = UNION {Sub(l) : l \in Level(items)[k - 1]}
<1>0. Nesting \in Nat
  BY SchemaOrderAssumption
<1> DEFINE lv == CHOOSE level : level = [k \in 0..Nesting |-> LevelStep(items, level, k)]
<1>1. Level(items) = lv
  BY DEF Level, LevelStep
<1>2. lv = [k \in 0..Nesting |-> LevelStep(items, lv, k)]
  BY <1>0, LevelExists
<1> HIDE DEF lv
<1>3. \A k \in 0..Nesting : lv[k] = LevelStep(items, lv, k)
  BY <1>2
<1>4. Level(items)[0] = {items}
  <2>1. 0 \in 0..Nesting
    BY <1>0
  <2>2. Level(items)[0] = LevelStep(items, Level(items), 0)
    BY ONLY <1>1, <1>3, <2>1
  <2> QED
    BY ONLY <2>2 DEF LevelStep
<1>5. ASSUME NEW k \in 0..Nesting, k # 0
      PROVE  Level(items)[k] = UNION {Sub(l) : l \in Level(items)[k - 1]}
  <2>1. Level(items)[k] = LevelStep(items, Level(items), k)
    BY <1>1, <1>3
  <2> QED
    BY ONLY <2>1, <1>5 DEF LevelStep
<1> QED
  BY ONLY <1>4, <1>5

\* The items of a schema and what holds of all its parts: they have no sections
\* below the last level, and each is a sequence.
Shallow(items) ==
  /\ \A l \in Level(items)[Nesting] : Sub(l) = {}
  /\ \A l \in Parts(items) : Len(l) \in Nat /\ DOMAIN l = 1..Len(l)

LEMMA PartsHoldItems ==
  ASSUME NEW items
  PROVE  items \in Parts(items)
<1>1. 0 \in 0..Nesting /\ items \in Level(items)[0]
  BY LevelIs, SchemaOrderAssumption
<1> QED
  BY <1>1 DEF Parts

LEMMA PartsHoldSections ==
  ASSUME NEW items, Shallow(items), NEW l \in Parts(items), NEW s \in Sub(l)
  PROVE  s \in Parts(items)
<1>1. PICK k \in 0..Nesting : l \in Level(items)[k]
  BY DEF Parts
<1>2. k # Nesting
  BY <1>1 DEF Shallow
<1>3. k + 1 \in 0..Nesting /\ k + 1 # 0 /\ (k + 1) - 1 = k
  BY <1>1, <1>2, SchemaOrderAssumption
<1>4. Level(items)[k + 1] = UNION {Sub(m) : m \in Level(items)[k]}
  BY <1>3, LevelIs
<1>5. s \in Level(items)[k + 1]
  BY <1>1, <1>4
<1> QED
  BY <1>3, <1>5 DEF Parts

\* There is nothing else: what holds the items and is closed under going into a
\* section holds all parts.
LEMMA PartsAreLeast ==
  ASSUME NEW items, NEW T, items \in T, \A l \in T : Sub(l) \subseteq T
  PROVE  Parts(items) \subseteq T
<1>0. Nesting \in Nat
  BY SchemaOrderAssumption
<1> DEFINE K == {k \in Nat : k \in 0..Nesting => Level(items)[k] \subseteq T}
<1>1. 0 \in K
  BY LevelIs
<1>2. ASSUME NEW k \in Nat, k \in K PROVE k + 1 \in K
  <2> SUFFICES ASSUME k + 1 \in 0..Nesting PROVE Level(items)[k + 1] \subseteq T
    OBVIOUS
  <2>1. k \in 0..Nesting /\ k + 1 # 0 /\ (k + 1) - 1 = k
    BY <1>0
  <2>2. Level(items)[k + 1] = UNION {Sub(l) : l \in Level(items)[k]}
    BY <2>1, LevelIs
  <2>3. Level(items)[k] \subseteq T
    BY <1>2, <2>1
  <2> QED
    BY <2>2, <2>3
<1> HIDE DEF K
<1>3. Nat \subseteq K
  BY <1>1, <1>2, SetInduction
<1>4. \A k \in 0..Nesting : Level(items)[k] \subseteq T
  BY <1>0, <1>3 DEF K
<1> QED
  BY <1>4 DEF Parts

\* What a section has k levels down, the items have one level further.
LEMMA LevelBelow ==
  ASSUME NEW items, NEW s \in Sub(items), NEW k \in Nat, k + 1 \in 0..Nesting
  PROVE  Level(s)[k] \subseteq Level(items)[k + 1]
<1> DEFINE K == {n \in Nat : n + 1 \in 0..Nesting => Level(s)[n] \subseteq Level(items)[n + 1]}
<1>0. Nesting \in Nat
  BY SchemaOrderAssumption
<1>1. 0 \in K
  <2> SUFFICES ASSUME 0 + 1 \in 0..Nesting PROVE Level(s)[0] \subseteq Level(items)[0 + 1]
    OBVIOUS
  <2>1. Level(items)[1] = UNION {Sub(l) : l \in Level(items)[1 - 1]}
    BY LevelIs
  <2>2. Level(items)[1] = Sub(items)
    BY <2>1, LevelIs
  <2> QED
    BY <2>2, LevelIs
<1>2. ASSUME NEW n \in Nat, n \in K PROVE n + 1 \in K
  <2> SUFFICES ASSUME n + 1 + 1 \in 0..Nesting PROVE Level(s)[n + 1] \subseteq Level(items)[n + 1 + 1]
    OBVIOUS
  <2>1. n + 1 \in 0..Nesting /\ n + 1 # 0 /\ n + 1 + 1 # 0 /\ (n + 1) - 1 = n /\ (n + 1 + 1) - 1 = n + 1
    BY <1>0
  <2>2. /\ Level(s)[n + 1] = UNION {Sub(l) : l \in Level(s)[n]}
        /\ Level(items)[n + 1 + 1] = UNION {Sub(l) : l \in Level(items)[n + 1]}
    BY <2>1, LevelIs
  <2>3. Level(s)[n] \subseteq Level(items)[n + 1]
    BY <1>2, <2>1
  <2> QED
    BY <2>2, <2>3
<1> HIDE DEF K
<1>3. k \in K
  BY <1>1, <1>2, SetInduction
<1> QED
  BY <1>3 DEF K

LEMMA SectionsAreShallow ==
  ASSUME NEW items, Shallow(items), NEW s \in Sub(items)
  PROVE  Shallow(s) /\ Parts(s) \subseteq Parts(items)
<1>0. Nesting \in Nat
  BY SchemaOrderAssumption
<1>1. Parts(s) \subseteq Parts(items)
  <2>1. \A l \in Parts(items) : Sub(l) \subseteq Parts(items)
    BY PartsHoldSections
  <2>2. s \in Parts(items)
    BY PartsHoldItems, PartsHoldSections
  <2> QED
    BY <2>1, <2>2, PartsAreLeast
<1>2. Nesting # 0
  BY LevelIs DEF Shallow
<1>3. Nesting - 1 \in Nat /\ (Nesting - 1) + 1 = Nesting /\ Nesting \in 0..Nesting
  BY <1>0, <1>2
<1>4. Level(s)[Nesting - 1] \subseteq Level(items)[Nesting]
  <2> DEFINE n == Nesting - 1
  <2>1. n \in Nat /\ n + 1 = Nesting /\ n + 1 \in 0..Nesting
    BY <1>3
  <2> HIDE DEF n
  <2>2. Level(s)[n] \subseteq Level(items)[n + 1]
    BY <2>1, LevelBelow
  <2> QED
    BY <2>1, <2>2 DEF n
<1>5. Level(s)[Nesting] = UNION {Sub(l) : l \in Level(s)[Nesting - 1]}
  BY <1>2, <1>3, LevelIs
<1>6. Level(s)[Nesting] = {}
  BY <1>4, <1>5 DEF Shallow
<1> QED
  BY <1>1, <1>6 DEF Shallow

LEMMA PartsAreShallow ==
  ASSUME NEW items, Shallow(items), NEW l \in Parts(items)
  PROVE  Shallow(l) /\ Parts(l) \subseteq Parts(items)
<1> DEFINE T == {m \in Parts(items) : Shallow(m) /\ Parts(m) \subseteq Parts(items)}
<1>1. items \in T
  BY PartsHoldItems
<1>2. \A m \in T : Sub(m) \subseteq T
  <2> SUFFICES ASSUME NEW m \in T, NEW s \in Sub(m) PROVE s \in T
    OBVIOUS
  <2>1. Shallow(s) /\ Parts(s) \subseteq Parts(m)
    BY SectionsAreShallow
  <2>2. s \in Parts(items)
    BY PartsHoldSections
  <2> QED
    BY <2>1, <2>2
<1> HIDE DEF T
<1>3. Parts(items) \subseteq T
  BY <1>1, <1>2, PartsAreLeast
<1> QED
  BY <1>3 DEF T

\* The parts of a scope are itself and those of its sections.
LEMMA PartsAre ==
  ASSUME NEW items, Shallow(items), NEW l \in Parts(items)
  PROVE  l = items \/ \E s \in Sub(items) : l \in Parts(s)
<1> DEFINE T == {items} \cup {m \in Parts(items) : \E s \in Sub(items) : m \in Parts(s)}
<1>1. \A m \in T : Sub(m) \subseteq T
  <2> SUFFICES ASSUME NEW m \in T, NEW t \in Sub(m) PROVE t \in T
    OBVIOUS
  <2>1. m \in Parts(items) /\ t \in Parts(items)
    BY PartsHoldItems, PartsHoldSections
  <2>2. CASE m = items
    <3>1. t \in Sub(items) /\ t \in Parts(t)
      BY <2>2, PartsHoldItems
    <3> QED
      BY <2>1, <3>1
  <2>3. CASE \E s \in Sub(items) : m \in Parts(s)
    <3>1. PICK s \in Sub(items) : m \in Parts(s)
      BY <2>3
    <3> QED
      BY <2>1, <3>1, PartsHoldSections, SectionsAreShallow
  <2> QED
    BY <2>2, <2>3
<1>2. items \in T
  OBVIOUS
<1> HIDE DEF T
<1>3. Parts(items) \subseteq T
  BY <1>1, <1>2, PartsAreLeast
<1> QED
  BY <1>3 DEF T

LEMMA SubIs ==
  ASSUME NEW items, NEW n \in DOMAIN items, items[n].k = "section"
  PROVE  items[n].items \in Sub(items)
BY DEF Sub

\* The schemas of the program.
LEMMA SchemasAreShallow ==
  ASSUME CountersOK, NEW d \in DOMAIN program
  PROVE  Shallow(program[d].items)
BY SchemaOrderAssumption DEF CountersOK, Shallow

LEMMA PartIsSeq ==
  ASSUME CountersOK, NEW d \in DOMAIN program, NEW l \in Parts(program[d].items)
  PROVE  Len(l) \in Nat /\ DOMAIN l = 1..Len(l)
BY SchemasAreShallow DEF Shallow

LEMMA MentionsIs ==
  ASSUME NEW items, NEW l \in Parts(items), NEW n \in DOMAIN l, l[n].k = "field",
         l[n].type \notin BuiltIn
  PROVE  l[n].type \in Mentions(items)
BY DEF Mentions

LEMMA MentionedIs ==
  ASSUME NEW items, NEW y \in Mentions(items)
  PROVE  /\ y \notin BuiltIn
         /\ \E l \in Parts(items) : \E n \in DOMAIN l : l[n].k = "field" /\ l[n].type = y
BY DEF Mentions

LEMMA AllNamesHold ==
  ASSUME NEW items, NEW l \in Parts(items)
  PROVE  NamesOf(l) \subseteq AllNames(items)
BY DEF AllNames

-----------------------------------------------------------------------------
(* The passes and the marks *)

\* How many schemas have been declared.
Upto == IF pc = "declare" THEN at - 1 ELSE Len(program)

\* The global scope holds the first n schemas, each by its first declaration,
\* and no other scope holds one.
GlobalOK(p, sc, n) ==
  /\ DOMAIN sc[1] = {p[e].name : e \in 1..n}
  /\ \A x \in DOMAIN sc[1] : sc[1][x].decl \in 1..Len(p) /\ IsFirst(p, sc[1][x].decl)
  /\ \A k \in DOMAIN sc \ {1} : \A x \in DOMAIN sc[k] : sc[k][x].decl = 0

DistinctUpto(p, n) == \A d, e \in 1..n : p[d].name = p[e].name => d = e

PassInv ==
  /\ GlobalOK(program, scopes, Upto)
  /\ errors = <<>> => DistinctUpto(program, Upto)
  /\ pc = "declare" => frames = <<>> /\ resolved = {}
  /\ pc = "done" => frames = <<>> /\ at = Len(program) + 1
  /\ resolved \subseteq SchemaNames(program)

\* A schema has been gone into when it is marked or on the stack.
Among(st, x) == \E k \in DOMAIN st : st[k] = x
Entered(st, marked, x) == x \in marked \/ Among(st, x)

\* Then it was gone into once, by its first declaration.
BodiesOK(p, st, marked, bs) ==
  bs = [d \in DOMAIN p |-> IF IsFirst(p, d) /\ Entered(st, marked, p[d].name) THEN 1 ELSE 0]

BodiesInv ==
  /\ BodiesOK(program, resolving_stack, resolved, bodies)
  /\ pc # "declare" =>
       \A e \in 1..(at - 1) : Entered(resolving_stack, resolved, program[e].name)

-----------------------------------------------------------------------------
(* The frames against the text *)

\* The section that a frame went into last.
Gone(f) == f.items[f.n - 1]

\* A schema is entered from the first pass over a scope, a section from the
\* second.
Link(f, g) ==
  \/ g.decl # 0 /\ f.pass = "define"
  \/ /\ g.decl = 0 /\ f.pass = "check" /\ f.n - 1 \in DOMAIN f.items
     /\ Gone(f).k = "section" /\ g.items = Gone(f).items

Placed(f) == f.n \in 1..(Len(f.items) + 1) /\ f.pass \in {"define", "check"}

Linked(fr) ==
  /\ \A m \in DOMAIN fr : Placed(fr[m])
  /\ fr # <<>> => fr[1].decl # 0
  /\ \A m \in DOMAIN fr \ {1} : Link(fr[m - 1], fr[m])

\* A scope holds names of its own items only.
Named(fr, sc) == \A m \in DOMAIN fr : DOMAIN sc[m + 1] \subseteq NamesOf(fr[m].items)

\* own[m] is the schema that the m-th frame is about; along the frames each is
\* the one before or a schema that one mentions.
Owns(p, fr, own) ==
  \A m \in DOMAIN fr :
    /\ fr[m].items \in Parts(p[own[m]].items)
    /\ fr[m].decl # 0 => own[m] = fr[m].decl /\ fr[m].items = p[own[m]].items
    /\ \A rank \in [DOMAIN p -> DOMAIN p] :
         Orders(p, rank) => \A l \in 1..m : rank[own[m]] <= rank[own[l]]

Owned(p, fr) == \E own \in [DOMAIN fr -> DOMAIN p] : Owns(p, fr, own)

Cyclic(es) == \E k \in DOMAIN es : es[k].kind = "CIRCULAR_DEPENDENCY"

TextInv ==
  /\ Linked(frames)
  /\ Named(frames, scopes)
  /\ Owned(program, frames)
  /\ Cyclic(errors) => ~Layered(program)

-----------------------------------------------------------------------------
(* The order *)

\* A type that has been resolved: marked, or reported to be unknown.
Settled(p, es, marked, x) ==
  x \in BuiltIn \cup marked \/ (es # <<>> /\ x \notin SchemaNames(p))

FieldSettled(p, es, marked, item) == item.k = "field" => Settled(p, es, marked, item.type)

AllSettled(p, es, marked, items) ==
  \A l \in Parts(items) : \A n \in DOMAIN l : FieldSettled(p, es, marked, l[n])

\* What the frame has been over, but for the section it is in.
FrameSettled(p, es, marked, f, last) ==
  /\ \A n \in DOMAIN f.items :
       f.pass = "check" \/ n < f.n => FieldSettled(p, es, marked, f.items[n])
  /\ f.pass = "check" =>
       \A n \in DOMAIN f.items :
         f.items[n].k = "section" /\ n < (IF last THEN f.n ELSE f.n - 1) =>
           AllSettled(p, es, marked, f.items[n].items)

\* The marked schemas are in order.
MarkedInOrder(p, es, marked) ==
  \E rank \in [marked -> 1..Cardinality(marked)] :
    \A d \in DOMAIN p : p[d].name \in marked =>
      /\ AllSettled(p, es, marked, p[d].items)
      /\ \A y \in Mentions(p[d].items) \cap marked : rank[y] < rank[p[d].name]

\* What the order is claimed of: programs nothing was reported of, and those
\* without a reported cycle where no field hides a schema.
Clean(p, es) == Distinct(p) /\ ~Cyclic(es) /\ (es = <<>> \/ Unhidden(p))

OrderInv ==
  Clean(program, errors) =>
    /\ \A m \in DOMAIN frames :
         FrameSettled(program, errors, resolved, frames[m], m = Len(frames))
    /\ MarkedInOrder(program, errors, resolved)

OInv == IInv /\ PassInv /\ BodiesInv /\ TextInv /\ OrderInv

-----------------------------------------------------------------------------
(* What the steps do to the scopes, the errors and the stack *)

LEMMA ConcatEmpty ==
  ASSUME NEW s, NEW t, IsSeq(s), IsSeq(t)
  PROVE  /\ s \o t = <<>> => s = <<>> /\ t = <<>>
         /\ Cyclic(s \o t) <=> Cyclic(s) \/ Cyclic(t)
<1> DEFINE S == Range(s) \cup Range(t)
<1>1. s \in Seq(S) /\ t \in Seq(S)
  BY DEF IsSeq
<1> HIDE DEF S
<1>2. /\ s \o t \in Seq(S) /\ Len(s \o t) = Len(s) + Len(t)
      /\ Len(s) \in Nat /\ Len(t) \in Nat
      /\ DOMAIN s = 1..Len(s) /\ DOMAIN t = 1..Len(t) /\ DOMAIN (s \o t) = 1..(Len(s) + Len(t))
      /\ \A k \in 1..(Len(s) + Len(t)) : (s \o t)[k] = IF k <= Len(s) THEN s[k] ELSE t[k - Len(s)]
  BY <1>1
<1>3. s \o t = <<>> => s = <<>> /\ t = <<>>
  <2> SUFFICES ASSUME s \o t = <<>> PROVE Len(s) = 0 /\ Len(t) = 0
    BY <1>1, EmptySeq
  <2> QED
    BY <1>2, EmptyIs
<1>4. ASSUME Cyclic(s \o t) PROVE Cyclic(s) \/ Cyclic(t)
  <2>1. PICK k \in 1..(Len(s) + Len(t)) : (s \o t)[k].kind = "CIRCULAR_DEPENDENCY"
    BY <1>2, <1>4 DEF Cyclic
  <2>2. CASE k <= Len(s)
    <3>1. k \in DOMAIN s /\ s[k].kind = "CIRCULAR_DEPENDENCY"
      BY <1>2, <2>1, <2>2
    <3> QED
      BY <3>1 DEF Cyclic
  <2>3. CASE ~(k <= Len(s))
    <3>1. k - Len(s) \in DOMAIN t /\ t[k - Len(s)].kind = "CIRCULAR_DEPENDENCY"
      BY <1>2, <2>1, <2>3
    <3> QED
      BY <3>1 DEF Cyclic
  <2> QED
    BY <2>2, <2>3
<1>5. ASSUME Cyclic(s) PROVE Cyclic(s \o t)
  <2>1. PICK k \in 1..Len(s) : s[k].kind = "CIRCULAR_DEPENDENCY"
    BY <1>2, <1>5 DEF Cyclic
  <2>2. k \in DOMAIN (s \o t) /\ (s \o t)[k] = s[k]
    BY <1>2
  <2> QED
    BY <2>1, <2>2 DEF Cyclic
<1>6. ASSUME Cyclic(t) PROVE Cyclic(s \o t)
  <2>1. PICK k \in 1..Len(t) : t[k].kind = "CIRCULAR_DEPENDENCY"
    BY <1>2, <1>6 DEF Cyclic
  <2>2. Len(s) + k \in DOMAIN (s \o t) /\ (s \o t)[Len(s) + k] = t[k]
    BY <1>2
  <2> QED
    BY <2>1, <2>2 DEF Cyclic
<1> QED
  BY <1>3, <1>4, <1>5, <1>6

LEMMA OneCyclic ==
  ASSUME NEW kind, NEW x
  PROVE  /\ Cyclic(<<Error(kind, x)>>) <=> kind = "CIRCULAR_DEPENDENCY"
         /\ ~Cyclic(<<>>)
         /\ <<Error(kind, x)>> # <<>>
<1>1. Error(kind, x).kind = kind
  BY DEF Error
<1> QED
  BY <1>1, OneIs, EmptyIs DEF Cyclic

\* A declaration touches the innermost scope only, and adds one name to it.
LEMMA DefineIs ==
  ASSUME IInv, NEW x, NEW symbol, NEW reported, ErrorsOK(reported), Define(x, symbol, reported)
  PROVE  /\ IsSeq(scopes') /\ Len(scopes') = Len(scopes)
         /\ \A k \in 1..Len(scopes) : k # Len(scopes) => scopes'[k] = scopes[k]
         /\ DOMAIN scopes'[Len(scopes)] = DOMAIN Scope \cup {x}
         /\ \A y \in DOMAIN Scope : scopes'[Len(scopes)][y] = Scope[y]
         /\ x \notin DOMAIN Scope => scopes'[Len(scopes)][x] = symbol
         /\ errors' = <<>> => errors = <<>> /\ reported = <<>> /\ x \notin DOMAIN Scope
         /\ Cyclic(errors') <=> Cyclic(errors) \/ Cyclic(reported)
<1>1. /\ IsSeq(errors) /\ IsSeq(reported) /\ IsSeq(scopes) /\ Len(scopes) \in Nat
      /\ IsSeq(errors \o reported) /\ scopes # <<>>
  <2>1. /\ IsSeq(errors) /\ IsSeq(reported) /\ IsSeq(scopes) /\ IsSeq(frames)
        /\ Len(scopes) = Len(frames) + 1
    BY DEF IInv, ErrorsOK, ScopesOK, FramesOK
  <2>2. Len(scopes) \in Nat /\ Len(frames) \in Nat /\ Len(scopes) # 0
    BY <2>1, SeqIs
  <2> QED
    BY <2>1, <2>2, ConcatIs, EmptyIs
<1>2. CASE x \notin DOMAIN Scope
  <2> DEFINE scope == [y \in DOMAIN Scope \cup {x} |-> IF y = x THEN symbol ELSE Scope[y]]
  <2>1. scopes' = [scopes EXCEPT ![Len(scopes)] = scope] /\ errors' = errors \o reported
    BY <1>2 DEF Define
  <2>2. /\ DOMAIN scope = DOMAIN Scope \cup {x} /\ scope[x] = symbol
        /\ \A y \in DOMAIN Scope : scope[y] = Scope[y]
    BY <1>2
  <2> HIDE DEF scope
  <2>3. /\ IsSeq(scopes') /\ Len(scopes') = Len(scopes) /\ Len(scopes) \in 1..Len(scopes)
        /\ \A k \in 1..Len(scopes) : scopes'[k] = IF k = Len(scopes) THEN scope ELSE scopes[k]
    BY ONLY <1>1, <2>1, ExceptIs
  <2>4. scopes'[Len(scopes)] = scope
    BY <2>3
  <2> QED
    BY <1>1, <1>2, <2>1, <2>2, <2>3, <2>4, ConcatEmpty
<1>3. CASE x \in DOMAIN Scope
  <2>1. scopes' = scopes /\ errors' = (errors \o reported) \o <<Error("REDECLARATION", x)>>
    BY <1>3 DEF Define
  <2>2. DOMAIN scopes'[Len(scopes)] = DOMAIN Scope \cup {x} /\ scopes'[Len(scopes)] = Scope
    BY <1>3, <2>1 DEF Scope
  <2>3. /\ IsSeq(<<Error("REDECLARATION", x)>>) /\ <<Error("REDECLARATION", x)>> # <<>>
        /\ ~Cyclic(<<Error("REDECLARATION", x)>>)
    BY OneIs, OneCyclic
  <2>4. errors' # <<>> /\ (Cyclic(errors') <=> Cyclic(errors) \/ Cyclic(reported))
    BY <1>1, <2>1, <2>3, ConcatEmpty
  <2> QED
    BY <1>1, <1>3, <2>1, <2>2, <2>4
<1> QED
  BY <1>2, <1>3

\* A field is looked at: what it reports is a cycle only if its type is one.
LEMMA TypeErrorsAre ==
  ASSUME NEW x
  PROVE  /\ ErrorsOK(TypeErrors(x))
         /\ TypeErrors(x) = <<>> => x \in BuiltIn \/ (IsSchema(x) /\ x \in resolved)
         /\ Cyclic(TypeErrors(x)) <=> x \notin BuiltIn /\ IsSchema(x) /\ x \notin resolved
<1>1. CASE x \in BuiltIn \/ (IsSchema(x) /\ x \in resolved)
  <2>1. TypeErrors(x) = <<>>
    BY <1>1 DEF TypeErrors
  <2> QED
    BY <1>1, <2>1, NoError, OneCyclic
<1>2. CASE x \notin BuiltIn /\ IsSchema(x) /\ x \notin resolved
  <2>1. TypeErrors(x) = <<Error("CIRCULAR_DEPENDENCY", x)>>
    BY <1>2 DEF TypeErrors
  <2>2. ErrorsOK(<<Error("CIRCULAR_DEPENDENCY", x)>>)
    BY OneError DEF Kinds
  <2> QED
    BY <1>2, <2>1, <2>2, OneCyclic
<1>3. CASE x \notin BuiltIn /\ ~IsSchema(x)
  <2>1. TypeErrors(x) = <<Error("UNKNOWN_TYPE", x)>>
    BY <1>3 DEF TypeErrors
  <2>2. ErrorsOK(<<Error("UNKNOWN_TYPE", x)>>)
    BY OneError DEF Kinds
  <2> QED
    BY <1>3, <2>1, <2>2, OneCyclic
<1> QED
  BY <1>1, <1>2, <1>3

\* A property never reports a cycle.
LEMMA PropertyErrorsAre ==
  ASSUME NEW type, NEW props, NEW n
  PROVE  ~Cyclic(PropertyErrors(type, props, n))
<1> DEFINE name == props[n].name
           again == IF \E m \in 1..(n - 1) : props[m].name = name
                    THEN <<Error("REDECLARATION", name)>> ELSE <<>>
           value == ValueErrors(type, name, props[n].value)
           fault == IF name \notin DOMAIN PropertyDefs(type)
                    THEN <<Error("UNEXPECTED_PROPERTY", name)>> ELSE value
<1>1. IsSeq(again) /\ ~Cyclic(again)
  <2>1. IsSeq(<<Error("REDECLARATION", name)>>) /\ ~Cyclic(<<Error("REDECLARATION", name)>>)
    BY OneIs, OneCyclic
  <2>2. IsSeq(<<>>) /\ ~Cyclic(<<>>)
    BY EmptyIs, OneCyclic
  <2> QED
    BY <2>1, <2>2
<1>2. IsSeq(value) /\ ~Cyclic(value)
  <2>1. /\ IsSeq(<<Error("UNDECLARED", props[n].value.left)>>)
        /\ ~Cyclic(<<Error("UNDECLARED", props[n].value.left)>>)
    BY OneIs, OneCyclic
  <2>2. IsSeq(<<Error("TYPE_MISMATCH", name)>>) /\ ~Cyclic(<<Error("TYPE_MISMATCH", name)>>)
    BY OneIs, OneCyclic
  <2>3. IsSeq(<<>>) /\ ~Cyclic(<<>>)
    BY EmptyIs, OneCyclic
  <2> QED
    BY <2>1, <2>2, <2>3 DEF ValueErrors
<1>3. IsSeq(fault) /\ ~Cyclic(fault)
  <2>1. IsSeq(<<Error("UNEXPECTED_PROPERTY", name)>>) /\ ~Cyclic(<<Error("UNEXPECTED_PROPERTY", name)>>)
    BY OneIs, OneCyclic
  <2> HIDE DEF value
  <2> QED
    BY <1>2, <2>1
<1>4. PropertyErrors(type, props, n) = again \o fault
  BY DEF PropertyErrors
<1> HIDE DEF again, fault
<1> QED
  BY <1>1, <1>3, <1>4, ConcatEmpty

-----------------------------------------------------------------------------
(* The passes *)

\* The sequences of a state, and their lengths.
LEMMA StateIs ==
  ASSUME IInv
  PROVE  /\ IsSeq(scopes) /\ IsSeq(frames) /\ IsSeq(errors) /\ IsSeq(resolving_stack)
         /\ Len(program) \in Nat /\ DOMAIN program = 1..Len(program)
         /\ Len(frames) \in Nat /\ DOMAIN frames = 1..Len(frames)
         /\ Len(scopes) = Len(frames) + 1 /\ DOMAIN scopes = 1..(Len(frames) + 1)
         /\ frames # <<>> => Len(frames) \in 1..Len(frames)
         /\ scopes # <<>> /\ 1 \in DOMAIN scopes
<1>1. /\ IsSeq(scopes) /\ IsSeq(frames) /\ IsSeq(errors) /\ IsSeq(resolving_stack)
      /\ Len(scopes) = Len(frames) + 1
  BY DEF IInv, ScopesOK, FramesOK, ErrorsOK, StackOK
<1>2. Len(program) \in Nat /\ DOMAIN program = 1..Len(program)
  BY ProgramIs DEF IInv
<1>3. Len(frames) \in Nat /\ DOMAIN frames = 1..Len(frames) /\ DOMAIN scopes = 1..Len(scopes)
  BY <1>1, SeqIs
<1>4. frames # <<>> => Len(frames) \in 1..Len(frames)
  BY <1>1, ExceptIs
<1> QED
  BY <1>1, <1>2, <1>3, <1>4, EmptyIs

\* While items are gone through, all schemas have been declared.
LEMMA InsideIs ==
  ASSUME IInv, PassInv, frames # <<>>
  PROVE  pc = "check" /\ Upto = Len(program) /\ Len(frames) \in Nat \ {0}
<1>1. pc = "check"
  BY DEF IInv, CountersOK, PassInv
<1> QED
  BY <1>1, StateIs DEF Upto

\* A name that means a schema means its first declaration.
LEMMA SchemaFound ==
  ASSUME IInv, PassInv, NEW x, IsSchema(x)
  PROVE  /\ Lookup(x).decl \in 1..Len(program) /\ program[Lookup(x).decl].name = x
         /\ IsFirst(program, Lookup(x).decl) /\ x \in SchemaNames(program)
<1>1. Lookup(x).decl \in 1..Len(program) /\ program[Lookup(x).decl].name = x
  BY SchemaIs
<1>2. PICK k \in DOMAIN scopes : x \in DOMAIN scopes[k] /\ Lookup(x) = scopes[k][x]
  BY LookupIs, StateIs DEF IsSchema
<1>3. k = 1
  BY <1>2 DEF PassInv, GlobalOK, IsSchema
<1>4. IsFirst(program, Lookup(x).decl)
  BY <1>2, <1>3 DEF PassInv, GlobalOK
<1>5. x \in SchemaNames(program)
  BY <1>1, StateIs DEF SchemaNames, NamesOf
<1> QED
  BY <1>1, <1>4, <1>5

\* A schema that no open scope hides is found.
LEMMA SchemaSeen ==
  ASSUME IInv, PassInv, pc # "declare", NEW x \in SchemaNames(program), x \notin BuiltIn,
         \A k \in DOMAIN scopes \ {1} : x \notin DOMAIN scopes[k]
  PROVE  IsSchema(x)
<1>1. x \in DOMAIN scopes[1]
  BY StateIs DEF PassInv, GlobalOK, Upto, SchemaNames, NamesOf
<1>2. Visible(x)
  BY <1>1, StateIs DEF Visible, Holding
<1>3. PICK k \in DOMAIN scopes : x \in DOMAIN scopes[k] /\ Lookup(x) = scopes[k][x]
  BY <1>2, LookupIs, StateIs
<1>4. Lookup(x).decl # 0
  BY <1>3 DEF PassInv, GlobalOK
<1> QED
  BY <1>2, <1>4 DEF IsSchema

\* A scope without a schema changes nothing for the global one.
LEMMA GlobalKept ==
  ASSUME NEW p, NEW sc, NEW tc, NEW n, GlobalOK(p, sc, n), tc[1] = sc[1],
         \A k \in DOMAIN tc \ {1} :
           (k \in DOMAIN sc /\ tc[k] = sc[k]) \/ \A x \in DOMAIN tc[k] : tc[k][x].decl = 0
  PROVE  GlobalOK(p, tc, n)
BY DEF GlobalOK

\* The passes after a step that goes through items.
LEMMA InsideKeepsPass ==
  ASSUME IInv, PassInv, pc = "check",
         UNCHANGED <<program, pc, at>>,
         GlobalOK(program, scopes', Len(program)),
         errors' = <<>> => errors = <<>>,
         resolved' \subseteq SchemaNames(program)
  PROVE  PassInv'
<1>1. Upto' = Len(program) /\ Upto = Len(program)
  BY DEF Upto
<1> QED
  BY <1>1 DEF PassInv

LEMMA DeclarePass == IInv /\ PassInv /\ Declare => PassInv'
<1> SUFFICES ASSUME IInv, PassInv, Declare PROVE PassInv'
  OBVIOUS
<1> DEFINE x == program[at].name
<1>1. /\ pc = "declare" /\ pc' = "declare" /\ at \in 1..Len(program) /\ at' = at + 1
      /\ UNCHANGED <<program, frames, resolved>>
      /\ Define(x, Symbol("schema", at), <<>>)
  BY StateIs DEF Declare, IInv, CountersOK
<1>2. frames = <<>> /\ resolved = {} /\ Len(scopes) = 1 /\ DOMAIN scopes = 1..1
  BY <1>1, StateIs, EmptyIs DEF PassInv
<1>3. Upto = at - 1 /\ Upto' = at
  BY <1>1 DEF Upto
<1>4. /\ IsSeq(scopes') /\ Len(scopes') = 1
      /\ DOMAIN scopes'[1] = DOMAIN scopes[1] \cup {x}
      /\ \A y \in DOMAIN scopes[1] : scopes'[1][y] = scopes[1][y]
      /\ x \notin DOMAIN scopes[1] => scopes'[1][x] = Symbol("schema", at)
      /\ errors' = <<>> => errors = <<>> /\ x \notin DOMAIN scopes[1]
  BY <1>1, <1>2, DefineIs, NoError DEF Scope
<1>5. /\ DOMAIN scopes[1] = {program[e].name : e \in 1..(at - 1)}
      /\ \A y \in DOMAIN scopes[1] :
           scopes[1][y].decl \in 1..Len(program) /\ IsFirst(program, scopes[1][y].decl)
  BY <1>3 DEF PassInv, GlobalOK
<1>6. x \notin DOMAIN scopes[1] => IsFirst(program, at)
  BY <1>5 DEF IsFirst
<1>7. GlobalOK(program, scopes', at)
  <2>1. DOMAIN scopes'[1] = {program[e].name : e \in 1..at}
    <3>1. 1..at = 1..(at - 1) \cup {at}
      BY <1>1
    <3> QED
      BY <1>4, <1>5, <3>1
  <2>2. ASSUME NEW y \in DOMAIN scopes'[1]
        PROVE  scopes'[1][y].decl \in 1..Len(program) /\ IsFirst(program, scopes'[1][y].decl)
    <3>1. CASE y \in DOMAIN scopes[1]
      BY <1>4, <1>5, <3>1
    <3>2. CASE y \notin DOMAIN scopes[1]
      <4>1. y = x /\ scopes'[1][y] = Symbol("schema", at)
        BY <1>4, <3>2
      <4> QED
        BY <1>1, <1>6, <3>2, <4>1 DEF Symbol
    <3> QED
      BY <3>1, <3>2
  <2>3. DOMAIN scopes' \ {1} = {}
    BY <1>4, SeqIs
  <2> QED
    BY <2>1, <2>2, <2>3 DEF GlobalOK
<1>8. errors' = <<>> => DistinctUpto(program, at)
  <2> SUFFICES ASSUME errors' = <<>>, NEW d \in 1..at, NEW e \in 1..at,
                      program[d].name = program[e].name
               PROVE  d = e
    BY DEF DistinctUpto
  <2>1. errors = <<>> /\ x \notin DOMAIN scopes[1] /\ DistinctUpto(program, at - 1)
    BY <1>3, <1>4 DEF PassInv
  <2>2. \A c \in 1..(at - 1) : program[c].name # x
    BY <1>5, <2>1
  <2>3. CASE d = at
    BY <1>1, <2>2, <2>3
  <2>4. CASE e = at
    BY <1>1, <2>2, <2>4
  <2>5. CASE d # at /\ e # at
    BY <1>1, <2>1, <2>5 DEF DistinctUpto
  <2> QED
    BY <2>3, <2>4, <2>5
<1> HIDE DEF x
<1> QED
  BY <1>1, <1>2, <1>3, <1>7, <1>8 DEF PassInv

LEMMA LoopPass == IInv /\ PassInv /\ (Declared \/ Finish) => PassInv'
<1> SUFFICES ASSUME IInv, PassInv, Declared \/ Finish PROVE PassInv'
  OBVIOUS
<1>1. UNCHANGED <<program, scopes, frames, resolved, errors>> /\ pc' # "declare"
  BY DEF Declared, Finish
<1>2. at \in 1..(Len(program) + 1) /\ Len(program) \in Nat
  BY StateIs DEF IInv, CountersOK
<1>3. Upto = Len(program)
  BY <1>2 DEF Declared, Finish, Upto
<1>4. Upto' = Len(program)
  BY <1>1 DEF Upto
<1>5. pc' = "done" => frames' = <<>> /\ at' = Len(program) + 1
  BY <1>1, <1>2 DEF Declared, Finish
<1> QED
  BY <1>1, <1>3, <1>4, <1>5 DEF PassInv

\* A scope is opened, for a schema or for a section.
LEMMA OpenedPass ==
  ASSUME IInv, PassInv, pc = "check", scopes' = Append(scopes, NoSymbols)
  PROVE  GlobalOK(program, scopes', Len(program))
<1>1. /\ DOMAIN scopes' = 1..(Len(scopes) + 1) /\ \A k \in 1..Len(scopes) : scopes'[k] = scopes[k]
      /\ scopes'[Len(scopes) + 1] = NoSymbols
  BY StateIs, AppendIs
<1>2. \A k \in DOMAIN scopes' : (k \in DOMAIN scopes /\ scopes'[k] = scopes[k]) \/ scopes'[k] = NoSymbols
  BY <1>1, StateIs
<1>3. DOMAIN NoSymbols = {} /\ scopes'[1] = scopes[1]
  BY <1>1, StateIs DEF NoSymbols
<1>4. GlobalOK(program, scopes, Len(program))
  BY DEF PassInv, Upto
<1> QED
  BY <1>2, <1>3, <1>4, GlobalKept

LEMMA StartSchemaPass == IInv /\ PassInv /\ StartSchema => PassInv'
<1> SUFFICES ASSUME IInv, PassInv, StartSchema PROVE PassInv'
  OBVIOUS
<1>1. pc = "check" /\ pc' = "check" /\ UNCHANGED <<program, resolved, errors>>
  BY DEF StartSchema, Enter
<1>2. scopes' = Append(scopes, NoSymbols) \/ scopes' = scopes
  BY DEF StartSchema, Enter
<1>3. GlobalOK(program, scopes', Len(program))
  BY <1>1, <1>2, OpenedPass DEF PassInv, Upto
<1>4. Upto' = Len(program) /\ Upto = Len(program)
  BY <1>1 DEF Upto
<1> QED
  BY <1>1, <1>3, <1>4 DEF PassInv

LEMMA DescendPass == IInv /\ PassInv /\ Descend => PassInv'
<1> SUFFICES ASSUME IInv, PassInv, Descend PROVE PassInv'
  OBVIOUS
<1>1. frames # <<>> /\ UNCHANGED <<program, pc, at, resolved, errors>> /\ scopes' = Append(scopes, NoSymbols)
  BY DEF Descend, Defining, Enter
<1>2. pc = "check"
  BY <1>1, InsideIs
<1> QED
  BY <1>1, <1>2, OpenedPass, InsideKeepsPass DEF PassInv

\* A name is added to the innermost scope, which is not the global one.
LEMMA AddedPass ==
  ASSUME IInv, PassInv, frames # <<>>, NEW x, NEW symbol, symbol.decl = 0,
         NEW reported, ErrorsOK(reported), Define(x, symbol, reported)
  PROVE  GlobalOK(program, scopes', Len(program)) /\ (errors' = <<>> => errors = <<>>)
<1>1. /\ IsSeq(scopes') /\ Len(scopes') = Len(scopes)
      /\ \A k \in 1..Len(scopes) : k # Len(scopes) => scopes'[k] = scopes[k]
      /\ DOMAIN scopes'[Len(scopes)] = DOMAIN Scope \cup {x}
      /\ \A y \in DOMAIN Scope : scopes'[Len(scopes)][y] = Scope[y]
      /\ x \notin DOMAIN Scope => scopes'[Len(scopes)][x] = symbol
      /\ errors' = <<>> => errors = <<>>
  BY DefineIs
<1>2. /\ Len(scopes) \in Nat /\ Len(scopes) # 1 /\ 1 \in 1..Len(scopes) /\ Len(scopes) \in 1..Len(scopes)
      /\ DOMAIN scopes = 1..Len(scopes)
  BY StateIs, InsideIs
<1>3. DOMAIN scopes' = 1..Len(scopes)
  BY <1>1, SeqIs
<1>4. GlobalOK(program, scopes, Len(program))
  BY InsideIs DEF PassInv
<1>5. \A y \in DOMAIN Scope : Scope[y].decl = 0
  BY <1>2, <1>4 DEF GlobalOK, Scope
<1>6. \A y \in DOMAIN scopes'[Len(scopes)] : scopes'[Len(scopes)][y].decl = 0
  BY <1>1, <1>5
<1>7. \A k \in DOMAIN scopes' \ {1} :
        (k \in DOMAIN scopes /\ scopes'[k] = scopes[k]) \/ \A y \in DOMAIN scopes'[k] : scopes'[k][y].decl = 0
  BY <1>1, <1>2, <1>3, <1>6
<1>8. scopes'[1] = scopes[1]
  BY <1>1, <1>2
<1> QED
  BY <1>1, <1>4, <1>7, <1>8, GlobalKept

LEMMA DefinePass == IInv /\ PassInv /\ (DefineField \/ DefineSection) => PassInv'
<1> SUFFICES ASSUME IInv, PassInv, DefineField \/ DefineSection PROVE PassInv'
  OBVIOUS
<1>1. frames # <<>> /\ UNCHANGED <<program, pc, at, resolved>>
  BY DEF DefineField, DefineSection, Defining
<1>2. PICK type, reported : ErrorsOK(reported) /\ Define(Item.name, Symbol(type, 0), reported)
  <2>1. CASE DefineField
    BY <2>1, TypeErrorsAre DEF DefineField
  <2>2. CASE DefineSection
    BY <2>2, NoError DEF DefineSection
  <2> QED
    BY <2>1, <2>2
<1>3. Symbol(type, 0).decl = 0
  BY DEF Symbol
<1>4. GlobalOK(program, scopes', Len(program)) /\ (errors' = <<>> => errors = <<>>)
  BY <1>1, <1>2, <1>3, AddedPass
<1> QED
  BY <1>1, <1>4, InsideIs, InsideKeepsPass DEF PassInv

\* Steps that leave the scopes and the marks alone.
LEMMA QuietPass == IInv /\ PassInv /\ (EndDefine \/ CheckProperty \/ CheckField \/ CheckSection) => PassInv'
<1> SUFFICES ASSUME IInv, PassInv, EndDefine \/ CheckProperty \/ CheckField \/ CheckSection PROVE PassInv'
  OBVIOUS
<1>1. frames # <<>> /\ UNCHANGED <<program, pc, at, resolved>>
  BY DEF EndDefine, CheckProperty, CheckField, CheckSection, Checking
<1>2. pc = "check" /\ Upto = Len(program)
  BY <1>1, InsideIs
<1>3. GlobalOK(program, scopes', Len(program))
  <2>1. scopes' = Append(scopes, NoSymbols) \/ scopes' = scopes
    BY DEF EndDefine, CheckProperty, CheckField, CheckSection
  <2> QED
    BY <1>2, <2>1, OpenedPass DEF PassInv
<1>4. errors' = <<>> => errors = <<>>
  <2>1. CASE CheckProperty
    <3>1. errors' = errors \o PropertyErrors(Scope[Item.name].type, Item.props, prop)
      BY <2>1 DEF CheckProperty
    <3>2. IsSeq(PropertyErrors(Scope[Item.name].type, Item.props, prop))
      BY PropertyErrorsOK DEF ErrorsOK
    <3> QED
      BY <3>1, <3>2, ConcatEmpty, StateIs
  <2>2. CASE EndDefine \/ CheckField \/ CheckSection
    BY <2>2 DEF EndDefine, CheckField, CheckSection
  <2> QED
    BY <2>1, <2>2
<1> QED
  BY <1>1, <1>2, <1>3, <1>4, InsideKeepsPass DEF PassInv

LEMMA LeavePass == IInv /\ PassInv /\ Leave => PassInv'
<1> SUFFICES ASSUME IInv, PassInv, Leave PROVE PassInv'
  OBVIOUS
<1>1. frames # <<>> /\ UNCHANGED <<program, pc, at, errors>> /\ scopes' = Front(scopes)
  BY DEF Leave, Finished
<1>2. pc = "check" /\ Upto = Len(program) /\ Len(frames) \in Nat \ {0}
  BY <1>1, InsideIs
<1>3. /\ DOMAIN scopes' = 1..Len(frames) /\ \A k \in 1..Len(frames) : scopes'[k] = scopes[k]
      /\ 1 \in 1..Len(frames) /\ \A k \in 1..Len(frames) : k \in DOMAIN scopes
  <2>1. Len(scopes) - 1 = Len(frames)
    BY <1>2, StateIs
  <2>2. /\ DOMAIN Front(scopes) = 1..(Len(scopes) - 1)
        /\ \A k \in 1..(Len(scopes) - 1) : Front(scopes)[k] = scopes[k]
    BY StateIs, FrontIs
  <2>3. 1 \in 1..Len(frames) /\ \A k \in 1..Len(frames) : k \in DOMAIN scopes
    BY <1>2, StateIs
  <2> QED
    BY <1>1, <2>1, <2>2, <2>3
<1>4. GlobalOK(program, scopes', Len(program))
  BY <1>2, <1>3, GlobalKept DEF PassInv
<1>5. resolved' \subseteq SchemaNames(program)
  <2>1. CASE Top.decl = 0
    BY <2>1 DEF Leave, PassInv
  <2>2. CASE Top.decl # 0
    <3>1. Top.decl \in 0..Len(program)
      BY <1>1, StateIs DEF IInv, FramesOK, FrameOK, Top
    <3>2. Top.decl \in DOMAIN program
      BY <2>2, <3>1, StateIs
    <3>3. resolved' = resolved \cup {program[Top.decl].name}
      BY <2>2 DEF Leave
    <3> QED
      BY <3>2, <3>3 DEF PassInv, SchemaNames, NamesOf
  <2> QED
    BY <2>1, <2>2
<1> QED
  BY <1>1, <1>2, <1>4, <1>5, InsideKeepsPass

LEMMA InitPass == Init => PassInv
<1> SUFFICES ASSUME Init PROVE PassInv
  OBVIOUS
<1>1. /\ pc = "declare" /\ at = 1 /\ scopes = <<NoSymbols>> /\ frames = <<>> /\ resolved = {}
      /\ Upto = 0
  BY DEF Init, Upto
<1>2. DOMAIN scopes = 1..1 /\ scopes[1] = NoSymbols /\ DOMAIN NoSymbols = {}
  BY <1>1, OneIs DEF NoSymbols
<1>3. GlobalOK(program, scopes, 0)
  BY <1>2 DEF GlobalOK
<1>4. DistinctUpto(program, 0)
  BY DEF DistinctUpto
<1> QED
  BY <1>1, <1>3, <1>4 DEF PassInv

LEMMA StepKeepsPass == IInv /\ PassInv /\ [Next]_vars => PassInv'
<1> SUFFICES ASSUME IInv, PassInv, [Next]_vars PROVE PassInv'
  OBVIOUS
<1>1. CASE UNCHANGED vars
  BY <1>1 DEF vars, PassInv, Upto
<1>2. CASE Next
  BY <1>2, DeclarePass, LoopPass, StartSchemaPass, DescendPass, DefinePass, QuietPass, LeavePass DEF Next
<1> QED
  BY <1>1, <1>2

-----------------------------------------------------------------------------
(* Once through each schema *)

LEMMA LastOrBefore ==
  ASSUME NEW m \in Nat
  PROVE  /\ \A k \in 1..m : k \in 1..(m - 1) \/ k = m
         /\ \A k \in 1..(m - 1) : k \in 1..m
OBVIOUS

LEMMA EnteredMore ==
  ASSUME NEW st, IsSeq(st), NEW marked, NEW x, NEW y
  PROVE  Entered(Append(st, x), marked, y) <=> Entered(st, marked, y) \/ y = x
<1>1. /\ DOMAIN Append(st, x) = 1..(Len(st) + 1) /\ DOMAIN st = 1..Len(st) /\ Len(st) \in Nat
      /\ \A k \in 1..Len(st) : Append(st, x)[k] = st[k]
      /\ Append(st, x)[Len(st) + 1] = x
  BY AppendIs, SeqIs
<1>2. Among(Append(st, x), y) <=> Among(st, y) \/ y = x
  BY <1>1 DEF Among
<1> QED
  BY <1>2 DEF Entered

\* What leaves the stack is marked, so it stays entered.
LEMMA EnteredStays ==
  ASSUME NEW st, IsSeq(st), st # <<>>, NEW marked, NEW y
  PROVE  Entered(Front(st), marked \cup {st[Len(st)]}, y) <=> Entered(st, marked, y)
<1>1. /\ DOMAIN Front(st) = 1..(Len(st) - 1) /\ DOMAIN st = 1..Len(st) /\ Len(st) \in Nat
      /\ \A k \in 1..(Len(st) - 1) : Front(st)[k] = st[k]
      /\ Len(st) \in 1..Len(st)
  BY FrontIs, SeqIs, ExceptIs
<1>2. Among(st, y) <=> Among(Front(st), y) \/ y = st[Len(st)]
  <2>1. /\ \A k \in 1..Len(st) : k \in 1..(Len(st) - 1) \/ k = Len(st)
        /\ \A k \in 1..(Len(st) - 1) : k \in 1..Len(st)
    BY ONLY <1>1, LastOrBefore
  <2> QED
    BY ONLY <1>1, <2>1 DEF Among
<1> QED
  BY <1>2 DEF Entered

LEMMA NothingEntered ==
  ASSUME IInv, frames = <<>>
  PROVE  resolving_stack = <<>> /\ \A x : ~Among(resolving_stack, x)
<1>1. Follows(program, <<>>, resolving_stack) /\ IsSeq(resolving_stack)
  BY DEF IInv, StackOK
<1>2. PICK pos \in [DOMAIN resolving_stack -> {}] : TRUE
  BY <1>1, EmptyIs DEF Follows
<1>3. DOMAIN resolving_stack = {}
  BY <1>2
<1>4. Len(resolving_stack) = 0
  BY <1>1, <1>3, SeqIs
<1> QED
  BY <1>1, <1>3, <1>4, EmptySeq DEF IsSeq, Among

LEMMA EnterBodies ==
  ASSUME IInv, BodiesInv, NEW d \in DOMAIN program, IsFirst(program, d),
         ~Entered(resolving_stack, resolved, program[d].name), Enter(d), program' = program
  PROVE  /\ BodiesOK(program, resolving_stack', resolved', bodies')
         /\ \A y : Entered(resolving_stack', resolved', y)
                     <=> Entered(resolving_stack, resolved, y) \/ y = program[d].name
<1>1. /\ resolving_stack' = Append(resolving_stack, program[d].name) /\ resolved' = resolved
      /\ bodies' = [bodies EXCEPT ![d] = @ + 1]
  BY DEF Enter
<1>2. \A y : Entered(resolving_stack', resolved', y)
               <=> Entered(resolving_stack, resolved, y) \/ y = program[d].name
  BY <1>1, EnteredMore, StateIs
<1>3. bodies = [e \in DOMAIN program |->
        IF IsFirst(program, e) /\ Entered(resolving_stack, resolved, program[e].name) THEN 1 ELSE 0]
  BY DEF BodiesInv, BodiesOK
<1>4. bodies[d] = 0 /\ DOMAIN bodies = DOMAIN program
  BY <1>3
<1>5. ASSUME NEW e \in DOMAIN program, e # d, IsFirst(program, e)
      PROVE  program[e].name # program[d].name
  <2>1. d \in Nat /\ e \in Nat /\ d >= 1 /\ e >= 1
    BY StateIs
  <2>2. e \in 1..(d - 1) \/ d \in 1..(e - 1)
    BY <1>5, <2>1
  <2> QED
    BY <1>5, <2>2 DEF IsFirst
<1>6. \A e \in DOMAIN program :
        bodies'[e] = IF IsFirst(program, e) /\ Entered(resolving_stack', resolved', program[e].name)
                     THEN 1 ELSE 0
  <2> SUFFICES ASSUME NEW e \in DOMAIN program
               PROVE  bodies'[e] = IF IsFirst(program, e) /\ Entered(resolving_stack', resolved', program[e].name)
                                   THEN 1 ELSE 0
    OBVIOUS
  <2>1. CASE e = d
    <3>1. bodies'[d] = 1
      BY <1>1, <1>4
    <3> QED
      BY <1>2, <2>1, <3>1
  <2>2. CASE e # d
    <3>1. bodies'[e] = bodies[e]
      BY <1>1, <1>4, <2>2
    <3>2. bodies[e] = IF IsFirst(program, e) /\ Entered(resolving_stack, resolved, program[e].name) THEN 1 ELSE 0
      BY <1>3
    <3> QED
      BY <1>2, <1>5, <2>2, <3>1, <3>2
  <2> QED
    BY <2>1, <2>2
<1>7. bodies' = [e \in DOMAIN program |-> bodies'[e]]
  BY <1>1, <1>4
<1>8. BodiesOK(program, resolving_stack', resolved', bodies')
  BY ONLY <1>6, <1>7 DEF BodiesOK
<1> QED
  BY <1>2, <1>8

\* The bodies while the marks, the stack and the loop stay.
LEMMA QuietBodies ==
  ASSUME BodiesInv, UNCHANGED <<program, pc, at, resolving_stack, resolved, bodies>>
  PROVE  BodiesInv'
BY DEF BodiesInv

LEMMA LoopBodies == IInv /\ PassInv /\ BodiesInv /\ (Declare \/ Declared \/ Finish) => BodiesInv'
<1> SUFFICES ASSUME IInv, PassInv, BodiesInv, Declare \/ Declared \/ Finish PROVE BodiesInv'
  OBVIOUS
<1>1. UNCHANGED <<program, resolving_stack, resolved, bodies>>
  BY DEF Declare, Declared, Finish
<1>2. pc' # "declare" => \A e \in 1..(at' - 1) : Entered(resolving_stack, resolved, program[e].name)
  <2>1. CASE Declare
    BY <2>1 DEF Declare
  <2>2. CASE Declared
    BY <2>2 DEF Declared
  <2>3. CASE Finish
    BY <2>3 DEF Finish, BodiesInv
  <2> QED
    BY <2>1, <2>2, <2>3
<1> QED
  BY <1>1, <1>2 DEF BodiesInv

LEMMA StartSchemaBodies == IInv /\ PassInv /\ BodiesInv /\ StartSchema => BodiesInv'
<1> SUFFICES ASSUME IInv, PassInv, BodiesInv, StartSchema PROVE BodiesInv'
  OBVIOUS
<1>1. /\ pc = "check" /\ pc' = "check" /\ frames = <<>> /\ at \in DOMAIN program /\ at' = at + 1
      /\ program' = program
  BY StateIs DEF StartSchema, IInv, CountersOK
<1>2. \A y : Entered(resolving_stack, resolved, y) <=> y \in resolved
  BY <1>1, NothingEntered DEF Entered
<1>3. \A e \in 1..(at - 1) : program[e].name \in resolved
  BY <1>1, <1>2 DEF BodiesInv
<1>4. \A e \in 1..(at' - 1) : e \in 1..(at - 1) \/ e = at
  BY <1>1, StateIs
<1>5. CASE program[at].name \notin resolved /\ Enter(at)
  <2>1. IsFirst(program, at)
    BY <1>3, <1>5 DEF IsFirst
  <2>2. /\ BodiesOK(program, resolving_stack', resolved', bodies')
        /\ \A y : Entered(resolving_stack', resolved', y)
                    <=> Entered(resolving_stack, resolved, y) \/ y = program[at].name
    BY <1>1, <1>2, <1>5, <2>1, EnterBodies
  <2>3. \A e \in 1..(at' - 1) : Entered(resolving_stack', resolved', program[e].name)
    BY <1>2, <1>3, <1>4, <2>2
  <2> QED
    BY <1>1, <2>2, <2>3 DEF BodiesInv
<1>6. CASE program[at].name \in resolved /\ UNCHANGED <<resolving_stack, resolved, bodies>>
  <2>1. \A e \in 1..(at' - 1) : Entered(resolving_stack, resolved, program[e].name)
    BY <1>2, <1>3, <1>4, <1>6
  <2> QED
    BY <1>1, <1>6, <2>1 DEF BodiesInv
<1> QED
  BY <1>5, <1>6 DEF StartSchema

LEMMA DescendBodies == IInv /\ PassInv /\ BodiesInv /\ Descend => BodiesInv'
<1> SUFFICES ASSUME IInv, PassInv, BodiesInv, Descend PROVE BodiesInv'
  OBVIOUS
<1> DEFINE d == Lookup(Item.type).decl
<1>1. /\ IsSchema(Item.type) /\ Item.type \notin resolved /\ ~Resolving(Item.type)
      /\ Enter(d) /\ UNCHANGED <<program, pc, at>>
  BY DEF Descend, Unresolved
<1>2. d \in DOMAIN program /\ program[d].name = Item.type /\ IsFirst(program, d)
  BY <1>1, SchemaFound, StateIs
<1> HIDE DEF d
<1>3. ~Entered(resolving_stack, resolved, program[d].name)
  BY <1>1, <1>2 DEF Entered, Among, Resolving
<1>4. /\ BodiesOK(program, resolving_stack', resolved', bodies')
      /\ \A y : Entered(resolving_stack', resolved', y)
                  <=> Entered(resolving_stack, resolved, y) \/ y = program[d].name
  BY <1>1, <1>2, <1>3, EnterBodies
<1> QED
  BY <1>1, <1>4 DEF BodiesInv

\* The schema that is left, and what that does to the marks.
LEMMA LeaveIs ==
  ASSUME IInv, Leave
  PROVE  /\ frames # <<>> /\ UNCHANGED <<program, pc, at, errors, bodies>>
         /\ \/ Top.decl = 0 /\ UNCHANGED <<resolved, resolving_stack>>
            \/ /\ Top.decl \in DOMAIN program /\ Top.decl # 0
               /\ resolving_stack # <<>>
               /\ resolving_stack[Len(resolving_stack)] = program[Top.decl].name
               /\ resolving_stack' = Front(resolving_stack)
               /\ resolved' = resolved \cup {program[Top.decl].name}
               /\ program[Top.decl].name \notin resolved
<1>1. frames # <<>> /\ UNCHANGED <<program, pc, at, errors, bodies>>
  BY DEF Leave, Finished
<1>2. CASE Top.decl = 0
  BY <1>1, <1>2 DEF Leave
<1>3. CASE Top.decl # 0
  <2>1. Top.decl \in 0..Len(program)
    BY <1>1, StateIs DEF IInv, FramesOK, FrameOK, Top
  <2>2. Top.decl \in DOMAIN program
    BY <1>3, <2>1, StateIs
  <2>3. resolving_stack # <<>> /\ resolving_stack[Len(resolving_stack)] = program[Top.decl].name
    BY <1>1, <1>3, StateIs, FollowsLeaveSchema DEF IInv, StackOK, Top
  <2>4. Len(resolving_stack) \in DOMAIN resolving_stack
    BY <2>3, StateIs, SeqIs, ExceptIs
  <2>5. program[Top.decl].name \notin resolved
    BY <2>3, <2>4 DEF IInv, StackOK, Unmarked
  <2> QED
    BY <1>1, <1>3, <2>2, <2>3, <2>5 DEF Leave
<1> QED
  BY <1>2, <1>3

LEMMA LeaveBodies == IInv /\ PassInv /\ BodiesInv /\ Leave => BodiesInv'
<1> SUFFICES ASSUME IInv, PassInv, BodiesInv, Leave PROVE BodiesInv'
  OBVIOUS
<1>1. UNCHANGED <<program, pc, at, bodies>>
  BY LeaveIs
<1>2. \A y : Entered(resolving_stack', resolved', y) <=> Entered(resolving_stack, resolved, y)
  <2>1. CASE UNCHANGED <<resolved, resolving_stack>>
    BY <2>1
  <2>2. CASE /\ resolving_stack # <<>>
             /\ resolving_stack[Len(resolving_stack)] = program[Top.decl].name
             /\ resolving_stack' = Front(resolving_stack)
             /\ resolved' = resolved \cup {program[Top.decl].name}
    BY <2>2, EnteredStays, StateIs
  <2> QED
    BY <2>1, <2>2, LeaveIs
<1>3. BodiesOK(program, resolving_stack', resolved', bodies')
  BY <1>1, <1>2 DEF BodiesInv, BodiesOK
<1> QED
  BY <1>1, <1>2, <1>3 DEF BodiesInv

LEMMA StepKeepsBodies == IInv /\ PassInv /\ BodiesInv /\ [Next]_vars => BodiesInv'
<1> SUFFICES ASSUME IInv, PassInv, BodiesInv, [Next]_vars PROVE BodiesInv'
  OBVIOUS
<1>1. CASE UNCHANGED vars
  BY <1>1, QuietBodies DEF vars
<1>2. CASE DefineField \/ DefineSection \/ EndDefine \/ CheckProperty \/ CheckField \/ CheckSection
  BY <1>2, QuietBodies DEF DefineField, DefineSection, EndDefine, CheckProperty, CheckField, CheckSection
<1> QED
  BY <1>1, <1>2, LoopBodies, StartSchemaBodies, DescendBodies, LeaveBodies DEF Next

LEMMA InitBodies == Init => BodiesInv
<1> SUFFICES ASSUME Init PROVE BodiesInv
  OBVIOUS
<1>1. \A y : ~Entered(resolving_stack, resolved, y)
  BY EmptyIs DEF Init, Entered, Among
<1>2. BodiesOK(program, resolving_stack, resolved, bodies)
  BY <1>1 DEF Init, BodiesOK
<1> QED
  BY <1>2 DEF Init, BodiesInv

\* At the end every schema has been entered.
LEMMA DoneIsAll ==
  ASSUME IInv, PassInv, BodiesInv, Done
  PROVE  \A d \in DOMAIN program : program[d].name \in resolved
<1>1. frames = <<>> /\ at = Len(program) + 1 /\ pc # "declare"
  BY DEF PassInv, Done
<1>2. \A d \in 1..(at - 1) : Entered(resolving_stack, resolved, program[d].name)
  BY <1>1 DEF BodiesInv
<1>3. \A x : Entered(resolving_stack, resolved, x) => x \in resolved
  BY <1>1, NothingEntered DEF Entered
<1> QED
  BY <1>1, <1>2, <1>3, StateIs

\* However the schemas refer to each other, the checker goes through the items
\* of each exactly once and of a redeclared one never (typecheck_schema).
THEOREM EachIsCheckedOnce == Spec => []CheckedOnce
<1>1. IInv /\ PassInv /\ BodiesInv => CheckedOnce
  <2> SUFFICES ASSUME IInv, PassInv, BodiesInv, Done, NEW d \in DOMAIN program
               PROVE  bodies[d] = IF IsFirst(program, d) THEN 1 ELSE 0
    BY DEF CheckedOnce
  <2>1. Entered(resolving_stack, resolved, program[d].name)
    BY DoneIsAll DEF Entered
  <2> QED
    BY <2>1 DEF BodiesInv, BodiesOK
<1> QED
  BY InitInv, StepKeepsInv, InitPass, StepKeepsPass, InitBodies, StepKeepsBodies, <1>1, PTL DEF Spec

-----------------------------------------------------------------------------
(* How the frames change *)

LEMMA FirstOrAfter ==
  ASSUME NEW m \in Nat, m \in 1..m
  PROVE  1 \in 1..m /\ \A k \in 1..m \ {1} : k - 1 \in 1..m /\ k - 1 # m
OBVIOUS

\* A frame is pushed.
LEMMA PushLinked ==
  ASSUME NEW fr, IsSeq(fr), Linked(fr), NEW f, Placed(f),
         fr = <<>> => f.decl # 0,
         fr # <<>> => Link(fr[Len(fr)], f)
  PROVE  Linked(Append(fr, f))
<1> DEFINE gr == Append(fr, f)
<1>1. /\ Len(fr) \in Nat /\ DOMAIN fr = 1..Len(fr) /\ DOMAIN gr = 1..(Len(fr) + 1)
      /\ \A m \in 1..Len(fr) : gr[m] = fr[m]
      /\ gr[Len(fr) + 1] = f /\ (fr = <<>> <=> Len(fr) = 0)
  <2>1. fr = <<>> <=> Len(fr) = 0
    BY EmptyIs, EmptySeq DEF IsSeq
  <2> QED
    BY <2>1, AppendIs, SeqIs
<1> HIDE DEF gr
<1>2. \A m \in DOMAIN gr : Placed(gr[m])
  <2> SUFFICES ASSUME NEW m \in DOMAIN gr PROVE Placed(gr[m])
    OBVIOUS
  <2>1. m \in 1..Len(fr) \/ m = Len(fr) + 1
    BY <1>1
  <2> QED
    BY <1>1, <2>1 DEF Linked
<1>3. gr[1].decl # 0
  BY <1>1 DEF Linked
<1>4. ASSUME NEW m \in DOMAIN gr \ {1} PROVE Link(gr[m - 1], gr[m])
  <2>1. CASE m \in 1..Len(fr)
    <3>1. m - 1 \in 1..Len(fr) /\ m \in DOMAIN fr \ {1}
      BY <1>1, <1>4, <2>1
    <3> QED
      BY <1>1, <2>1, <3>1 DEF Linked
  <2>2. CASE m = Len(fr) + 1
    <3>1. m - 1 = Len(fr) /\ Len(fr) # 0
      BY <1>1, <1>4, <2>2
    <3>2. Len(fr) \in 1..Len(fr)
      BY <1>1, <3>1
    <3> QED
      BY <1>1, <2>2, <3>1, <3>2
  <2> QED
    BY <1>1, <2>1, <2>2
<1> QED
  BY <1>2, <1>3, <1>4 DEF Linked, gr

\* The innermost frame goes on over the same items.
LEMMA MoveLinked ==
  ASSUME NEW fr, IsSeq(fr), Linked(fr), fr # <<>>, NEW f, Placed(f),
         f.decl = fr[Len(fr)].decl, f.items = fr[Len(fr)].items
  PROVE  Linked([fr EXCEPT ![Len(fr)] = f])
<1> DEFINE gr == [fr EXCEPT ![Len(fr)] = f]
<1>1. /\ Len(fr) \in Nat /\ DOMAIN fr = 1..Len(fr) /\ DOMAIN gr = 1..Len(fr) /\ Len(fr) \in 1..Len(fr)
      /\ \A m \in 1..Len(fr) : gr[m] = IF m = Len(fr) THEN f ELSE fr[m]
  BY ExceptIs, SeqIs
<1> HIDE DEF gr
<1>2. \A m \in DOMAIN gr : Placed(gr[m])
  BY <1>1 DEF Linked
<1>a. 1 \in 1..Len(fr) /\ \A m \in 1..Len(fr) \ {1} : m - 1 \in 1..Len(fr) /\ m - 1 # Len(fr)
  BY ONLY <1>1, FirstOrAfter
<1>3. gr[1].decl # 0
  BY <1>1, <1>a DEF Linked
<1>4. ASSUME NEW m \in DOMAIN gr \ {1} PROVE Link(gr[m - 1], gr[m])
  <2>1. m - 1 \in 1..Len(fr) /\ m - 1 # Len(fr)
    BY ONLY <1>1, <1>a, <1>4
  <2>2. gr[m - 1] = fr[m - 1] /\ gr[m].decl = fr[m].decl /\ gr[m].items = fr[m].items
    BY <1>1, <1>4, <2>1
  <2>3. Link(fr[m - 1], fr[m])
    BY <1>1, <1>4 DEF Linked
  <2> QED
    BY <2>2, <2>3 DEF Link
<1> QED
  BY <1>2, <1>3, <1>4 DEF Linked, gr

LEMMA PopLinked ==
  ASSUME NEW fr, IsSeq(fr), Linked(fr), fr # <<>>
  PROVE  Linked(Front(fr))
<1>1. /\ Len(fr) \in Nat /\ DOMAIN fr = 1..Len(fr) /\ IsSeq(Front(fr))
      /\ DOMAIN Front(fr) = 1..(Len(fr) - 1) /\ Len(Front(fr)) = Len(fr) - 1
      /\ \A m \in 1..(Len(fr) - 1) : Front(fr)[m] = fr[m]
  BY FrontIs, SeqIs
<1>2. \A m \in 1..(Len(fr) - 1) : m \in 1..Len(fr)
  BY <1>1, LastOrBefore
<1>3. Front(fr) # <<>> => 1 \in 1..(Len(fr) - 1)
  BY <1>1, EmptySeq, LastOrBefore DEF IsSeq
<1>4. \A m \in DOMAIN Front(fr) : Placed(Front(fr)[m])
  BY <1>1, <1>2 DEF Linked
<1>5. ASSUME NEW m \in DOMAIN Front(fr) \ {1} PROVE Link(Front(fr)[m - 1], Front(fr)[m])
  <2>1. m - 1 \in 1..(Len(fr) - 1) /\ m \in 1..(Len(fr) - 1) /\ m \in DOMAIN fr \ {1}
    BY <1>1, <1>2, <1>5
  <2>2. Front(fr)[m - 1] = fr[m - 1] /\ Front(fr)[m] = fr[m]
    BY <1>1, <2>1
  <2> QED
    BY <2>1, <2>2 DEF Linked
<1>6. Front(fr) # <<>> => Front(fr)[1].decl # 0
  BY <1>1, <1>3 DEF Linked
<1> QED
  BY <1>4, <1>5, <1>6 DEF Linked

\* A frame is pushed for the schema of the one below, or for one that mentions.
LEMMA PushOwned ==
  ASSUME NEW p, Len(p) \in Nat, DOMAIN p = 1..Len(p),
         NEW fr, IsSeq(fr), NEW own \in [DOMAIN fr -> DOMAIN p], Owns(p, fr, own),
         NEW f, NEW e \in DOMAIN p, f.items \in Parts(p[e].items),
         f.decl # 0 => e = f.decl /\ f.items = p[e].items,
         fr = <<>> \/ e = own[Len(fr)] \/ p[e].name \in Mentions(p[own[Len(fr)]].items)
  PROVE  Owned(p, Append(fr, f))
<1> DEFINE gr == Append(fr, f)
           new == [m \in 1..(Len(fr) + 1) |-> IF m = Len(fr) + 1 THEN e ELSE own[m]]
<1>1. /\ Len(fr) \in Nat /\ DOMAIN fr = 1..Len(fr) /\ DOMAIN gr = 1..(Len(fr) + 1)
      /\ \A m \in 1..Len(fr) : gr[m] = fr[m]
      /\ gr[Len(fr) + 1] = f /\ (fr = <<>> => Len(fr) = 0)
  BY AppendIs, SeqIs, EmptyIs
<1>2. /\ new \in [DOMAIN gr -> DOMAIN p] /\ new[Len(fr) + 1] = e
      /\ \A m \in 1..Len(fr) : new[m] = own[m]
  BY <1>1
<1> HIDE DEF gr, new
<1>3. ASSUME NEW rank \in [DOMAIN p -> DOMAIN p], Orders(p, rank), NEW l \in 1..(Len(fr) + 1)
      PROVE  rank[e] <= rank[new[l]]
  <2>1. \A d \in DOMAIN p : rank[d] \in Nat
    BY <1>3
  <2>2. CASE l = Len(fr) + 1
    BY <1>2, <2>1, <2>2
  <2>3. CASE l # Len(fr) + 1
    <3>1. l \in 1..Len(fr) /\ Len(fr) \in 1..Len(fr) /\ fr # <<>>
      BY <1>1, <2>3
    <3>2. rank[own[Len(fr)]] <= rank[own[l]] /\ own[l] \in DOMAIN p /\ own[Len(fr)] \in DOMAIN p
      BY <1>1, <1>3, <3>1 DEF Owns
    <3>3. rank[e] <= rank[own[Len(fr)]]
      <4>1. CASE e = own[Len(fr)]
        BY <2>1, <4>1
      <4>2. CASE p[e].name \in Mentions(p[own[Len(fr)]].items)
        <5>1. rank[e] < rank[own[Len(fr)]]
          BY <1>3, <3>2, <4>2 DEF Orders
        <5> QED
          BY <2>1, <3>2, <5>1
      <4> QED
        BY <3>1, <4>1, <4>2
    <3>4. rank[e] \in Nat /\ rank[own[Len(fr)]] \in Nat /\ rank[own[l]] \in Nat /\ new[l] = own[l]
      BY <1>2, <2>1, <3>1, <3>2
    <3> QED
      BY ONLY <3>2, <3>3, <3>4
  <2> QED
    BY <2>2, <2>3
<1>4. ASSUME NEW m \in DOMAIN gr
      PROVE  /\ gr[m].items \in Parts(p[new[m]].items)
             /\ gr[m].decl # 0 => new[m] = gr[m].decl /\ gr[m].items = p[new[m]].items
             /\ \A rank \in [DOMAIN p -> DOMAIN p] :
                  Orders(p, rank) => \A l \in 1..m : rank[new[m]] <= rank[new[l]]
  <2>1. CASE m = Len(fr) + 1
    BY <1>1, <1>2, <1>3, <2>1
  <2>2. CASE m # Len(fr) + 1
    <3>1. m \in 1..Len(fr) /\ \A l \in 1..m : l \in 1..Len(fr)
      BY <1>1, <2>2
    <3>2. gr[m] = fr[m] /\ new[m] = own[m] /\ \A l \in 1..m : new[l] = own[l]
      BY <1>1, <1>2, <3>1
    <3> QED
      BY <1>1, <3>1, <3>2 DEF Owns
  <2> QED
    BY <2>1, <2>2
<1>5. Owns(p, gr, new)
  BY <1>4 DEF Owns
<1> QED
  BY <1>2, <1>5 DEF Owned, gr

LEMMA MoveOwned ==
  ASSUME NEW p, NEW fr, Owned(p, fr), IsSeq(fr), fr # <<>>,
         NEW f, f.decl = fr[Len(fr)].decl, f.items = fr[Len(fr)].items
  PROVE  Owned(p, [fr EXCEPT ![Len(fr)] = f])
<1> DEFINE gr == [fr EXCEPT ![Len(fr)] = f]
<1>1. PICK own \in [DOMAIN fr -> DOMAIN p] : Owns(p, fr, own)
  BY DEF Owned
<1>2. /\ DOMAIN gr = DOMAIN fr
      /\ \A m \in DOMAIN fr : gr[m].decl = fr[m].decl /\ gr[m].items = fr[m].items
  BY ExceptIs, SeqIs
<1> HIDE DEF gr
<1>3. Owns(p, gr, own)
  BY <1>1, <1>2 DEF Owns
<1> QED
  BY <1>2, <1>3 DEF Owned, gr

LEMMA PopOwned ==
  ASSUME NEW p, NEW fr, Owned(p, fr), IsSeq(fr), fr # <<>>
  PROVE  Owned(p, Front(fr))
<1>1. PICK own \in [DOMAIN fr -> DOMAIN p] : Owns(p, fr, own)
  BY DEF Owned
<1>2. /\ Len(fr) \in Nat /\ DOMAIN fr = 1..Len(fr)
      /\ DOMAIN Front(fr) = 1..(Len(fr) - 1)
      /\ \A m \in 1..(Len(fr) - 1) : Front(fr)[m] = fr[m] /\ m \in 1..Len(fr)
  BY FrontIs, SeqIs, LastOrBefore
<1> DEFINE new == [m \in DOMAIN Front(fr) |-> own[m]]
<1>3. new \in [DOMAIN Front(fr) -> DOMAIN p] /\ \A m \in 1..(Len(fr) - 1) : new[m] = own[m]
  BY <1>2
<1> HIDE DEF new
<1>4. ASSUME NEW m \in DOMAIN Front(fr)
      PROVE  /\ Front(fr)[m].items \in Parts(p[new[m]].items)
             /\ Front(fr)[m].decl # 0 => /\ new[m] = Front(fr)[m].decl
                                         /\ Front(fr)[m].items = p[new[m]].items
             /\ \A rank \in [DOMAIN p -> DOMAIN p] :
                  Orders(p, rank) => \A l \in 1..m : rank[new[m]] <= rank[new[l]]
  <2>1. \A l \in 1..m : l \in 1..(Len(fr) - 1)
    BY <1>2, <1>4
  <2>2. Front(fr)[m] = fr[m] /\ m \in DOMAIN fr /\ new[m] = own[m] /\ \A l \in 1..m : new[l] = own[l]
    BY <1>2, <1>3, <2>1
  <2> QED
    BY <1>1, <2>2 DEF Owns
<1>5. Owns(p, Front(fr), new)
  BY <1>4 DEF Owns
<1> QED
  BY <1>3, <1>5 DEF Owned

\* The items of a frame are a sequence, of the schema it is about.
LEMMA ItemsAre ==
  ASSUME IInv, TextInv, NEW own \in [DOMAIN frames -> DOMAIN program], Owns(program, frames, own),
         NEW m \in DOMAIN frames
  PROVE  /\ Len(frames[m].items) \in Nat /\ DOMAIN frames[m].items = 1..Len(frames[m].items)
         /\ frames[m].items \in Parts(program[own[m]].items) /\ own[m] \in DOMAIN program
         /\ Shallow(frames[m].items)
<1>1. frames[m].items \in Parts(program[own[m]].items) /\ own[m] \in DOMAIN program
  BY DEF Owns
<1>2. CountersOK
  BY DEF IInv
<1>3. Len(frames[m].items) \in Nat /\ DOMAIN frames[m].items = 1..Len(frames[m].items)
  BY <1>1, <1>2, PartIsSeq
<1>4. Shallow(frames[m].items)
  BY <1>1, <1>2, SchemasAreShallow, PartsAreShallow
<1> QED
  BY <1>1, <1>3, <1>4

-----------------------------------------------------------------------------
(* The frames stay within the text *)

\* The innermost frame, somewhere in the schema it is about.
LEMMA TopIs ==
  ASSUME IInv, TextInv, frames # <<>>
  PROVE  /\ Top = frames[Len(frames)] /\ Len(frames) \in DOMAIN frames
         /\ Top = [decl |-> Top.decl, items |-> Top.items, n |-> Top.n, pass |-> Top.pass]
         /\ Len(Top.items) \in Nat /\ DOMAIN Top.items = 1..Len(Top.items) /\ Shallow(Top.items)
         /\ Top.n \in 1..(Len(Top.items) + 1) /\ Top.pass \in {"define", "check"}
         /\ More => Top.n \in DOMAIN Top.items /\ Top.n + 1 \in 1..(Len(Top.items) + 1)
         /\ ~More => Top.n = Len(Top.items) + 1
<1>1. Top = frames[Len(frames)] /\ Len(frames) \in DOMAIN frames
  BY StateIs DEF Top
<1>2. Top = [decl |-> Top.decl, items |-> Top.items, n |-> Top.n, pass |-> Top.pass]
  BY <1>1 DEF IInv, FramesOK, FrameOK
<1>3. PICK own \in [DOMAIN frames -> DOMAIN program] : Owns(program, frames, own)
  BY DEF TextInv, Owned
<1>4. Len(Top.items) \in Nat /\ DOMAIN Top.items = 1..Len(Top.items) /\ Shallow(Top.items)
  BY <1>1, <1>3, ItemsAre
<1>5. Top.n \in 1..(Len(Top.items) + 1) /\ Top.pass \in {"define", "check"}
  BY <1>1 DEF TextInv, Linked, Placed
<1>6. /\ More => Top.n \in DOMAIN Top.items /\ Top.n + 1 \in 1..(Len(Top.items) + 1)
      /\ ~More => Top.n = Len(Top.items) + 1
  BY <1>4, <1>5 DEF More
<1> QED
  BY <1>1, <1>2, <1>4, <1>5, <1>6

\* The innermost frame at another item, or in the other pass.
Moved(n, pass) ==
  [frames EXCEPT ![Len(frames)] = [decl |-> Top.decl, items |-> Top.items, n |-> n, pass |-> pass]]

LEMMA MovedIs ==
  ASSUME IInv, frames # <<>>, NEW n, NEW pass
  PROVE  /\ IsSeq(Moved(n, pass)) /\ Len(Moved(n, pass)) = Len(frames)
         /\ DOMAIN Moved(n, pass) = DOMAIN frames
         /\ \A m \in DOMAIN frames : m # Len(frames) => Moved(n, pass)[m] = frames[m]
         /\ Moved(n, pass)[Len(frames)] = [decl |-> Top.decl, items |-> Top.items, n |-> n, pass |-> pass]
<1> DEFINE f == [decl |-> Top.decl, items |-> Top.items, n |-> n, pass |-> pass]
           gr == [frames EXCEPT ![Len(frames)] = f]
<1>1. Moved(n, pass) = gr
  BY DEF Moved
<1> HIDE DEF f
<1>3. /\ IsSeq(gr) /\ Len(gr) = Len(frames) /\ DOMAIN gr = 1..Len(frames)
      /\ Len(frames) \in 1..Len(frames)
      /\ \A m \in 1..Len(frames) : gr[m] = IF m = Len(frames) THEN f ELSE frames[m]
  BY StateIs, ExceptIs
<1> HIDE DEF gr
<1>4. DOMAIN frames = 1..Len(frames)
  BY StateIs
<1>5. Moved(n, pass)[Len(frames)] = f
  BY <1>1, <1>3, <1>4
<1> QED
  BY <1>1, <1>3, <1>4, <1>5 DEF f

LEMMA MovedItems ==
  ASSUME IInv, frames # <<>>, NEW n, NEW pass
  PROVE  /\ DOMAIN Moved(n, pass) = DOMAIN frames
         /\ \A m \in DOMAIN frames : Moved(n, pass)[m].items = frames[m].items
<1> DEFINE f == [decl |-> Top.decl, items |-> Top.items, n |-> n, pass |-> pass]
<1>1. /\ DOMAIN Moved(n, pass) = DOMAIN frames
      /\ \A m \in DOMAIN frames : m # Len(frames) => Moved(n, pass)[m] = frames[m]
      /\ Moved(n, pass)[Len(frames)] = f
  BY MovedIs
<1>2. f.items = frames[Len(frames)].items
  BY DEF Top
<1> HIDE DEF f
<1> QED
  BY <1>1, <1>2

LEMMA MoveText ==
  ASSUME IInv, TextInv, frames # <<>>,
         NEW n \in 1..(Len(Top.items) + 1), NEW pass \in {"define", "check"}
  PROVE  Linked(Moved(n, pass)) /\ Owned(program, Moved(n, pass))
<1> DEFINE f == [decl |-> Top.decl, items |-> Top.items, n |-> n, pass |-> pass]
<1>1. /\ f.decl = frames[Len(frames)].decl /\ f.items = frames[Len(frames)].items
      /\ f.items = Top.items /\ f.n = n /\ f.pass = pass
  BY DEF Top
<1>2. Moved(n, pass) = [frames EXCEPT ![Len(frames)] = f]
  BY DEF Moved
<1> HIDE DEF f
<1>3. Placed(f)
  BY <1>1 DEF Placed
<1>4. IsSeq(frames) /\ Linked(frames) /\ Owned(program, frames)
  BY StateIs DEF TextInv
<1>5. Linked([frames EXCEPT ![Len(frames)] = f])
  BY ONLY <1>1, <1>3, <1>4, frames # <<>>, MoveLinked
<1>6. Owned(program, [frames EXCEPT ![Len(frames)] = f])
  BY ONLY <1>1, <1>4, frames # <<>>, MoveOwned
<1> QED
  BY <1>2, <1>5, <1>6

\* A step that goes on to the next item.
LEMMA AdvancedMoved ==
  ASSUME IInv, frames # <<>>
  PROVE  Advanced = Moved(Top.n + 1, Top.pass)
BY AdvancedIs DEF Moved

LEMMA EndDefineMoved ==
  ASSUME IInv, EndDefine
  PROVE  frames # <<>> /\ frames' = Moved(1, "check")
<1>1. frames # <<>> /\ frames' = [frames EXCEPT ![Len(frames)] = [Top EXCEPT !.n = 1, !.pass = "check"]]
  BY DEF EndDefine, Top
<1>2. Len(frames) \in DOMAIN frames
  BY <1>1, StateIs
<1>3. Top = [decl |-> Top.decl, items |-> Top.items, n |-> Top.n, pass |-> Top.pass]
  BY <1>2 DEF IInv, FramesOK, FrameOK, Top
<1>4. [Top EXCEPT !.n = 1, !.pass = "check"]
        = [decl |-> Top.decl, items |-> Top.items, n |-> 1, pass |-> "check"]
  BY <1>3, TurnedIs
<1> QED
  BY <1>1, <1>4 DEF Moved

\* Names of a scope while no scope is opened or closed.
LEMMA NamedKept ==
  ASSUME NEW fr, NEW sc, NEW gr, NEW tc, Named(fr, sc), DOMAIN gr = DOMAIN fr,
         \A m \in DOMAIN fr : gr[m].items = fr[m].items,
         \A m \in DOMAIN fr : DOMAIN tc[m + 1] \subseteq DOMAIN sc[m + 1] \cup NamesOf(fr[m].items)
  PROVE  Named(gr, tc)
BY DEF Named

LEMMA NamedPush ==
  ASSUME NEW fr, NEW sc, IsSeq(fr), IsSeq(sc), Len(sc) = Len(fr) + 1, Named(fr, sc), NEW f
  PROVE  Named(Append(fr, f), Append(sc, NoSymbols))
<1>1. /\ Len(fr) \in Nat /\ DOMAIN fr = 1..Len(fr) /\ DOMAIN Append(fr, f) = 1..(Len(fr) + 1)
      /\ \A m \in 1..Len(fr) : Append(fr, f)[m] = fr[m]
  BY AppendIs, SeqIs
<1>2. /\ \A m \in 1..Len(sc) : Append(sc, NoSymbols)[m] = sc[m]
      /\ Append(sc, NoSymbols)[Len(sc) + 1] = NoSymbols /\ DOMAIN NoSymbols = {}
  BY AppendIs DEF NoSymbols
<1>3. \A m \in 1..(Len(fr) + 1) : (m \in 1..Len(fr) /\ m + 1 \in 1..Len(sc)) \/ m + 1 = Len(sc) + 1
  BY <1>1
<1> QED
  BY <1>1, <1>2, <1>3 DEF Named

LEMMA NamedPop ==
  ASSUME NEW fr, NEW sc, IsSeq(fr), IsSeq(sc), Len(sc) = Len(fr) + 1, Named(fr, sc), fr # <<>>
  PROVE  Named(Front(fr), Front(sc))
<1>1. /\ Len(fr) \in Nat /\ DOMAIN fr = 1..Len(fr) /\ DOMAIN Front(fr) = 1..(Len(fr) - 1)
      /\ \A m \in 1..(Len(fr) - 1) : Front(fr)[m] = fr[m]
  BY FrontIs, SeqIs
<1>2. sc # <<>>
  BY <1>1, EmptyIs
<1>3. \A m \in 1..(Len(sc) - 1) : Front(sc)[m] = sc[m]
  BY <1>2, FrontIs
<1>4. \A m \in 1..(Len(fr) - 1) : m \in 1..Len(fr) /\ m + 1 \in 1..(Len(sc) - 1)
  BY <1>1
<1> QED
  BY <1>1, <1>3, <1>4 DEF Named

\* A schema is entered at the start or for a field that mentions it.
LEMMA EnterText ==
  ASSUME IInv, TextInv, NEW own \in [DOMAIN frames -> DOMAIN program], Owns(program, frames, own),
         NEW d \in DOMAIN program, Enter(d),
         \/ frames = <<>>
         \/ Top.pass = "define" /\ program[d].name \in Mentions(program[own[Len(frames)]].items)
  PROVE  Linked(frames') /\ Named(frames', scopes') /\ Owned(program, frames')
<1> DEFINE f == Frame(d, program[d].items)
<1>1. frames' = Append(frames, f) /\ scopes' = Append(scopes, NoSymbols)
  BY DEF Enter
<1>2. f.decl = d /\ d # 0 /\ f.items = program[d].items /\ f.n = 1 /\ f.pass = "define"
  BY StateIs DEF Frame
<1> HIDE DEF f
<1>3. f.items \in Parts(program[d].items)
  BY <1>2, PartsHoldItems
<1>4. Placed(f)
  <2>1. Len(f.items) \in Nat
    BY <1>3, PartIsSeq DEF IInv
  <2> QED
    BY <1>2, <2>1 DEF Placed
<1>5. Linked(frames')
  <2>1. frames # <<>> => Link(frames[Len(frames)], f)
    BY <1>2 DEF Link, Top
  <2> QED
    BY <1>1, <1>2, <1>4, <2>1, StateIs, PushLinked DEF TextInv
<1>6. Named(frames', scopes')
  BY <1>1, StateIs, NamedPush DEF TextInv
<1>7. Owned(program, frames')
  BY <1>1, <1>2, <1>3, StateIs, PushOwned
<1> QED
  BY <1>5, <1>6, <1>7

LEMMA LoopText == IInv /\ PassInv /\ TextInv /\ (Declare \/ Declared \/ Finish) => TextInv'
<1> SUFFICES ASSUME IInv, PassInv, TextInv, Declare \/ Declared \/ Finish PROVE TextInv'
  OBVIOUS
<1>1. CASE Declare
  <2>1. frames = <<>> /\ UNCHANGED <<program, frames>>
    BY <1>1 DEF Declare, PassInv
  <2>2. Named(frames', scopes')
    BY <2>1, EmptyIs DEF Named
  <2>3. Cyclic(errors') <=> Cyclic(errors)
    BY <1>1, DefineIs, NoError, OneCyclic DEF Declare
  <2> QED
    BY <2>1, <2>2, <2>3 DEF TextInv
<1>2. CASE Declared \/ Finish
  BY <1>2 DEF Declared, Finish, TextInv
<1> QED
  BY <1>1, <1>2

LEMMA StartSchemaText == IInv /\ PassInv /\ TextInv /\ StartSchema => TextInv'
<1> SUFFICES ASSUME IInv, PassInv, TextInv, StartSchema PROVE TextInv'
  OBVIOUS
<1>1. frames = <<>> /\ at \in DOMAIN program /\ UNCHANGED <<program, errors>>
  BY StateIs DEF StartSchema, IInv, CountersOK
<1>2. CASE Enter(at)
  <2>1. PICK own \in [DOMAIN frames -> DOMAIN program] : Owns(program, frames, own)
    BY DEF TextInv, Owned
  <2> QED
    BY <1>1, <1>2, <2>1, EnterText DEF TextInv
<1>3. CASE UNCHANGED <<scopes, frames>>
  BY <1>1, <1>3 DEF TextInv
<1> QED
  BY <1>2, <1>3 DEF StartSchema

\* The type of the field at hand is one that its schema mentions.
LEMMA ItemIs ==
  ASSUME IInv, TextInv, NEW own \in [DOMAIN frames -> DOMAIN program], Owns(program, frames, own),
         frames # <<>>, More
  PROVE  /\ own[Len(frames)] \in DOMAIN program
         /\ Top.items \in Parts(program[own[Len(frames)]].items)
         /\ Item.name \in NamesOf(Top.items)
         /\ Item.k = "field" /\ Item.type \notin BuiltIn
              => Item.type \in Mentions(program[own[Len(frames)]].items)
<1>1. Top = frames[Len(frames)] /\ Len(frames) \in DOMAIN frames /\ Top.n \in DOMAIN Top.items
  BY TopIs
<1>2. Top.items \in Parts(program[own[Len(frames)]].items) /\ own[Len(frames)] \in DOMAIN program
  BY <1>1, ItemsAre
<1> QED
  BY <1>1, <1>2, MentionsIs DEF Item, NamesOf

LEMMA DescendText == IInv /\ PassInv /\ TextInv /\ Descend => TextInv'
<1> SUFFICES ASSUME IInv, PassInv, TextInv, Descend PROVE TextInv'
  OBVIOUS
<1> DEFINE d == Lookup(Item.type).decl
<1>1. /\ IsSchema(Item.type) /\ Enter(d) /\ UNCHANGED <<program, errors>>
      /\ frames # <<>> /\ More /\ Item.k = "field" /\ Top.pass = "define"
  BY DEF Descend, Unresolved, Defining
<1>2. d \in DOMAIN program /\ program[d].name = Item.type /\ Item.type \notin BuiltIn
  BY <1>1, SchemaFound, StateIs DEF IsSchema
<1> HIDE DEF d
<1>3. PICK own \in [DOMAIN frames -> DOMAIN program] : Owns(program, frames, own)
  BY DEF TextInv, Owned
<1>4. program[d].name \in Mentions(program[own[Len(frames)]].items)
  BY <1>1, <1>2, <1>3, ItemIs
<1> QED
  BY <1>1, <1>2, <1>3, <1>4, EnterText DEF TextInv

\* A field whose type is on the stack: the schemas have no order.
LEMMA CycleIsReal ==
  ASSUME IInv, PassInv, TextInv, DefineField, Cyclic(TypeErrors(Item.type))
  PROVE  ~Layered(program)
<1> DEFINE x == Item.type
<1>1. /\ frames # <<>> /\ More /\ Item.k = "field" /\ ~Unresolved(x)
      /\ x \notin BuiltIn /\ IsSchema(x) /\ x \notin resolved
  BY TypeErrorsAre DEF DefineField, Defining
<1>2. PICK k \in DOMAIN resolving_stack : resolving_stack[k] = x
  BY <1>1 DEF Unresolved, Resolving
<1>3. PICK own \in [DOMAIN frames -> DOMAIN program] : Owns(program, frames, own)
  BY DEF TextInv, Owned
<1>4. /\ own[Len(frames)] \in DOMAIN program /\ x \in Mentions(program[own[Len(frames)]].items)
  BY <1>1, <1>3, ItemIs
<1> HIDE DEF x
<1>5. PICK pos \in [DOMAIN resolving_stack -> DOMAIN frames] :
        Places(program, frames, resolving_stack, pos)
  BY DEF IInv, StackOK, Follows
<1> DEFINE j == pos[k]
<1>6. j \in DOMAIN frames /\ frames[j].decl # 0 /\ program[frames[j].decl].name = x
  BY <1>2, <1>5 DEF Places
<1> HIDE DEF j
<1>7. own[j] \in DOMAIN program /\ program[own[j]].name = x
  BY <1>3, <1>6 DEF Owns
<1>8. SUFFICES ASSUME NEW rank \in [DOMAIN program -> DOMAIN program], Orders(program, rank) PROVE FALSE
  BY DEF Layered
<1>9. rank[own[j]] < rank[own[Len(frames)]]
  BY <1>4, <1>7, <1>8 DEF Orders
<1>10. Len(frames) \in DOMAIN frames /\ j \in 1..Len(frames)
  BY <1>1, <1>6, StateIs
<1>11. rank[own[Len(frames)]] <= rank[own[j]]
  BY <1>3, <1>8, <1>10 DEF Owns
<1>12. rank[own[j]] \in Nat /\ rank[own[Len(frames)]] \in Nat
  BY <1>4, <1>7, <1>8, StateIs
<1> QED
  BY ONLY <1>9, <1>11, <1>12

LEMMA DefineText == IInv /\ PassInv /\ TextInv /\ (DefineField \/ DefineSection) => TextInv'
<1> SUFFICES ASSUME IInv, PassInv, TextInv, DefineField \/ DefineSection PROVE TextInv'
  OBVIOUS
<1>1. frames # <<>> /\ More /\ program' = program /\ frames' = Advanced
  BY DEF DefineField, DefineSection, Defining
<1>2. frames' = Moved(Top.n + 1, Top.pass)
  BY <1>1, AdvancedMoved
<1>3. Linked(frames') /\ Owned(program, frames')
  BY <1>1, <1>2, TopIs, MoveText
<1>4. DOMAIN frames' = DOMAIN frames /\ \A m \in DOMAIN frames : frames'[m].items = frames[m].items
  <2>1. /\ DOMAIN Moved(Top.n + 1, Top.pass) = DOMAIN frames
        /\ \A m \in DOMAIN frames : Moved(Top.n + 1, Top.pass)[m].items = frames[m].items
    BY <1>1, MovedItems
  <2> QED
    BY ONLY <1>2, <2>1
<1>5. PICK type, reported : /\ ErrorsOK(reported) /\ Define(Item.name, Symbol(type, 0), reported)
                            /\ Cyclic(reported) => ~Layered(program)
  <2>1. CASE DefineField
    BY <2>1, TypeErrorsAre, CycleIsReal DEF DefineField
  <2>2. CASE DefineSection
    BY <2>2, NoError, OneCyclic DEF DefineSection
  <2> QED
    BY <2>1, <2>2
<1>6. /\ \A k \in 1..Len(scopes) : k # Len(scopes) => scopes'[k] = scopes[k]
      /\ DOMAIN scopes'[Len(scopes)] = DOMAIN Scope \cup {Item.name}
      /\ Cyclic(errors') <=> Cyclic(errors) \/ Cyclic(reported)
  BY <1>5, DefineIs
<1>7. Item.name \in NamesOf(Top.items)
  <2>1. PICK own \in [DOMAIN frames -> DOMAIN program] : Owns(program, frames, own)
    BY DEF TextInv, Owned
  <2> QED
    BY <1>1, <2>1, ItemIs
<1>8. \A m \in DOMAIN frames : DOMAIN scopes'[m + 1] \subseteq DOMAIN scopes[m + 1] \cup NamesOf(frames[m].items)
  <2> SUFFICES ASSUME NEW m \in DOMAIN frames
               PROVE  DOMAIN scopes'[m + 1] \subseteq DOMAIN scopes[m + 1] \cup NamesOf(frames[m].items)
    OBVIOUS
  <2>1. CASE m = Len(frames)
    <3>1. m + 1 = Len(scopes) /\ frames[m] = Top /\ scopes[m + 1] = Scope
      BY <2>1, StateIs DEF Top, Scope
    <3> QED
      BY <1>6, <1>7, <3>1
  <2>2. CASE m # Len(frames)
    <3>1. m + 1 \in 1..Len(scopes) /\ m + 1 # Len(scopes)
      BY <2>2, StateIs
    <3> QED
      BY <1>6, <3>1
  <2> QED
    BY <2>1, <2>2
<1>9. Named(frames', scopes')
  BY <1>4, <1>8, NamedKept DEF TextInv
<1>10. Cyclic(errors') => ~Layered(program)
  BY <1>5, <1>6 DEF TextInv
<1> QED
  BY <1>1, <1>3, <1>9, <1>10 DEF TextInv

\* Steps that open and close no scope and declare nothing.
LEMMA QuietText == IInv /\ PassInv /\ TextInv /\ (EndDefine \/ CheckProperty \/ CheckField) => TextInv'
<1> SUFFICES ASSUME IInv, PassInv, TextInv, EndDefine \/ CheckProperty \/ CheckField PROVE TextInv'
  OBVIOUS
<1>1. frames # <<>> /\ UNCHANGED <<program, scopes>>
  BY DEF EndDefine, CheckProperty, CheckField, Checking
<1>2. \/ frames' = frames
      \/ \E n \in 1..(Len(Top.items) + 1) : \E pass \in {"define", "check"} : frames' = Moved(n, pass)
  <2>1. CASE EndDefine
    <3>1. frames' = Moved(1, "check") /\ 1 \in 1..(Len(Top.items) + 1)
      BY <1>1, <2>1, EndDefineMoved, TopIs
    <3> QED
      BY <3>1
  <2>2. CASE CheckField
    <3>1. frames' = Moved(Top.n + 1, Top.pass) /\ Top.n + 1 \in 1..(Len(Top.items) + 1)
      BY <1>1, <2>2, AdvancedMoved, TopIs DEF CheckField, Checking
    <3> QED
      BY <1>1, <3>1, TopIs
  <2>3. CASE CheckProperty
    BY <2>3 DEF CheckProperty
  <2> QED
    BY <2>1, <2>2, <2>3
<1>3. Linked(frames') /\ Owned(program, frames')
  BY <1>1, <1>2, MoveText DEF TextInv
<1>4. DOMAIN frames' = DOMAIN frames /\ \A m \in DOMAIN frames : frames'[m].items = frames[m].items
  <2>1. ASSUME NEW n, NEW pass, frames' = Moved(n, pass)
        PROVE  DOMAIN frames' = DOMAIN frames /\ \A m \in DOMAIN frames : frames'[m].items = frames[m].items
    <3>1. /\ DOMAIN Moved(n, pass) = DOMAIN frames
          /\ \A m \in DOMAIN frames : Moved(n, pass)[m].items = frames[m].items
      BY <1>1, MovedItems
    <3> QED
      BY ONLY <2>1, <3>1
  <2> QED
    BY <1>2, <2>1
<1>5. Named(frames', scopes')
  BY <1>1, <1>4, NamedKept DEF TextInv
<1>6. Cyclic(errors') <=> Cyclic(errors)
  <2>1. CASE CheckProperty
    <3>1. errors' = errors \o PropertyErrors(Scope[Item.name].type, Item.props, prop)
      BY <2>1 DEF CheckProperty
    <3>2. /\ IsSeq(PropertyErrors(Scope[Item.name].type, Item.props, prop))
          /\ ~Cyclic(PropertyErrors(Scope[Item.name].type, Item.props, prop))
      BY PropertyErrorsOK, PropertyErrorsAre DEF ErrorsOK
    <3> QED
      BY <3>1, <3>2, ConcatEmpty, StateIs
  <2>2. CASE EndDefine \/ CheckField
    BY <2>2 DEF EndDefine, CheckField
  <2> QED
    BY <2>1, <2>2
<1> QED
  BY <1>1, <1>3, <1>5, <1>6 DEF TextInv

LEMMA CheckSectionText == IInv /\ PassInv /\ TextInv /\ CheckSection => TextInv'
<1> SUFFICES ASSUME IInv, PassInv, TextInv, CheckSection PROVE TextInv'
  OBVIOUS
<1> DEFINE f == Frame(0, Item.items)
           gr == Moved(Top.n + 1, Top.pass)
<1>1. /\ frames # <<>> /\ More /\ Item.k = "section" /\ Top.pass = "check"
      /\ UNCHANGED <<program, errors>>
      /\ scopes' = Append(scopes, NoSymbols)
      /\ frames' = Append(gr, f)
  BY AdvancedMoved DEF CheckSection, Checking
<1>2. f.decl = 0 /\ f.items = Item.items /\ f.n = 1 /\ f.pass = "define"
  BY DEF Frame
<1>3. /\ IsSeq(gr) /\ Len(gr) = Len(frames) /\ DOMAIN gr = DOMAIN frames
      /\ gr[Len(frames)] = [decl |-> Top.decl, items |-> Top.items, n |-> Top.n + 1, pass |-> Top.pass]
      /\ \A m \in DOMAIN frames : gr[m].items = frames[m].items
  BY <1>1, MovedIs, MovedItems
<1>4. Linked(gr) /\ Owned(program, gr)
  BY <1>1, TopIs, MoveText
<1> HIDE DEF f, gr
<1>5. Top.n \in DOMAIN Top.items /\ Top.n \in Nat /\ Item = Top.items[Top.n]
  BY <1>1, TopIs DEF Item
<1>6. PICK own \in [DOMAIN gr -> DOMAIN program] : Owns(program, gr, own)
  BY <1>4 DEF Owned
<1>7. /\ gr # <<>> /\ Len(frames) \in DOMAIN gr
      /\ own[Len(gr)] \in DOMAIN program /\ Top.items \in Parts(program[own[Len(gr)]].items)
  <2>1. Len(frames) \in DOMAIN gr
    BY <1>1, <1>3, TopIs
  <2>2. gr[Len(frames)].items = Top.items
    BY <1>3
  <2> QED
    BY <1>3, <1>6, <2>1, <2>2, EmptyIs DEF Owns
<1>8. f.items \in Parts(program[own[Len(gr)]].items)
  <2>1. f.items \in Sub(Top.items)
    BY <1>1, <1>2, <1>5, SubIs
  <2> QED
    BY <1>7, <2>1, SchemasAreShallow, PartsHoldSections DEF IInv
<1>9. Owned(program, frames')
  BY <1>1, <1>2, <1>3, <1>6, <1>7, <1>8, StateIs, PushOwned
<1>10. Placed(f)
  <2>1. Len(f.items) \in Nat
    BY <1>7, <1>8, PartIsSeq DEF IInv
  <2> QED
    BY <1>2, <2>1 DEF Placed
<1>11. Link(gr[Len(gr)], f)
  <2>1. /\ gr[Len(gr)].pass = "check" /\ gr[Len(gr)].items = Top.items /\ gr[Len(gr)].n = Top.n + 1
    BY <1>1, <1>3
  <2>2. gr[Len(gr)].n - 1 = Top.n
    BY <1>5, <2>1
  <2> QED
    BY <1>1, <1>2, <1>5, <2>1, <2>2 DEF Link, Gone
<1>12. Linked(frames')
  BY <1>1, <1>3, <1>4, <1>7, <1>10, <1>11, PushLinked
<1>13. Named(frames', scopes')
  <2>1. Named(gr, scopes)
    BY <1>3, NamedKept DEF TextInv
  <2> QED
    BY <1>1, <1>3, <2>1, StateIs, NamedPush
<1> QED
  BY <1>1, <1>9, <1>12, <1>13 DEF TextInv

LEMMA LeaveText == IInv /\ PassInv /\ TextInv /\ Leave => TextInv'
<1> SUFFICES ASSUME IInv, PassInv, TextInv, Leave PROVE TextInv'
  OBVIOUS
<1>1. frames # <<>> /\ UNCHANGED <<program, errors>> /\ frames' = Front(frames) /\ scopes' = Front(scopes)
  BY DEF Leave, Finished
<1> QED
  BY <1>1, StateIs, PopLinked, PopOwned, NamedPop DEF TextInv

LEMMA InitText == Init => TextInv
<1> SUFFICES ASSUME Init PROVE TextInv
  OBVIOUS
<1>1. frames = <<>> /\ errors = <<>> /\ DOMAIN frames = {}
  BY EmptyIs DEF Init
<1>2. Owned(program, frames)
  <2> DEFINE own == [m \in {} |-> 0]
  <2>1. own \in [DOMAIN frames -> DOMAIN program]
    BY <1>1
  <2>2. Owns(program, frames, own)
    BY <1>1 DEF Owns
  <2> QED
    BY <2>1, <2>2 DEF Owned
<1> QED
  BY <1>1, <1>2, OneCyclic DEF TextInv, Linked, Named

LEMMA StepKeepsText == IInv /\ PassInv /\ TextInv /\ [Next]_vars => TextInv'
<1> SUFFICES ASSUME IInv, PassInv, TextInv, [Next]_vars PROVE TextInv'
  OBVIOUS
<1>1. CASE UNCHANGED vars
  BY <1>1 DEF vars, TextInv
<1> QED
  BY <1>1, LoopText, StartSchemaText, DescendText, DefineText, QuietText, CheckSectionText, LeaveText
     DEF Next

-----------------------------------------------------------------------------
(* What has been settled stays so *)

\* Reports and marks only become more.
Grown(es, marked, fs, more) == marked \subseteq more /\ (es # <<>> => fs # <<>>)

LEMMA FieldStays ==
  ASSUME NEW p, NEW es, NEW marked, NEW fs, NEW more, Grown(es, marked, fs, more),
         NEW item, FieldSettled(p, es, marked, item)
  PROVE  FieldSettled(p, fs, more, item)
BY DEF FieldSettled, Settled, Grown

LEMMA AllStays ==
  ASSUME NEW p, NEW es, NEW marked, NEW fs, NEW more, Grown(es, marked, fs, more),
         NEW items, AllSettled(p, es, marked, items)
  PROVE  AllSettled(p, fs, more, items)
BY FieldStays DEF AllSettled

\* A frame that is no longer the last one answers for less.
LEMMA FrameStays ==
  ASSUME NEW p, NEW es, NEW marked, NEW fs, NEW more, Grown(es, marked, fs, more),
         NEW f, NEW last \in BOOLEAN, FrameSettled(p, es, marked, f, last),
         DOMAIN f.items \subseteq Nat, f.n \in Nat
  PROVE  FrameSettled(p, fs, more, f, last) /\ FrameSettled(p, fs, more, f, FALSE)
<1>1. \A n \in DOMAIN f.items :
        f.pass = "check" \/ n < f.n => FieldSettled(p, fs, more, f.items[n])
  BY FieldStays DEF FrameSettled
<1>2. ASSUME f.pass = "check", NEW n \in DOMAIN f.items, f.items[n].k = "section",
             n < (IF last THEN f.n ELSE f.n - 1)
      PROVE  AllSettled(p, fs, more, f.items[n].items)
  BY <1>2, AllStays DEF FrameSettled
<1>3. ASSUME f.pass = "check", NEW n \in DOMAIN f.items, f.items[n].k = "section", n < f.n - 1
      PROVE  AllSettled(p, fs, more, f.items[n].items)
  <2>1. n < (IF last THEN f.n ELSE f.n - 1)
    BY <1>3
  <2> QED
    BY <1>2, <1>3, <2>1
<1> QED
  BY <1>1, <1>2, <1>3 DEF FrameSettled

LEMMA OrderStays ==
  ASSUME NEW p, NEW es, NEW marked, NEW fs, es # <<>> => fs # <<>>, MarkedInOrder(p, es, marked)
  PROVE  MarkedInOrder(p, fs, marked)
<1>1. Grown(es, marked, fs, marked)
  BY DEF Grown
<1>2. PICK rank \in [marked -> 1..Cardinality(marked)] :
        \A d \in DOMAIN p : p[d].name \in marked =>
          /\ AllSettled(p, es, marked, p[d].items)
          /\ \A y \in Mentions(p[d].items) \cap marked : rank[y] < rank[p[d].name]
  BY DEF MarkedInOrder
<1>3. \A d \in DOMAIN p : p[d].name \in marked =>
        /\ AllSettled(p, fs, marked, p[d].items)
        /\ \A y \in Mentions(p[d].items) \cap marked : rank[y] < rank[p[d].name]
  BY <1>1, <1>2, AllStays
<1> QED
  BY <1>3 DEF MarkedInOrder

LEMMA NoneInOrder ==
  ASSUME NEW p, NEW es
  PROVE  MarkedInOrder(p, es, {})
<1> DEFINE rank == [x \in {} |-> 0]
<1>1. rank \in [{} -> 1..Cardinality({})]
  OBVIOUS
<1> QED
  BY <1>1 DEF MarkedInOrder

\* A scope that has been gone over is settled with all its sections.
LEMMA WholeSettled ==
  ASSUME NEW p, NEW es, NEW marked, NEW f, FrameSettled(p, es, marked, f, TRUE),
         f.pass = "check", Shallow(f.items), Len(f.items) \in Nat, DOMAIN f.items = 1..Len(f.items),
         f.n = Len(f.items) + 1
  PROVE  AllSettled(p, es, marked, f.items)
<1> SUFFICES ASSUME NEW l \in Parts(f.items), NEW n \in DOMAIN l
             PROVE  FieldSettled(p, es, marked, l[n])
  BY DEF AllSettled
<1>1. CASE l = f.items
  BY <1>1 DEF FrameSettled
<1>2. CASE \E s \in Sub(f.items) : l \in Parts(s)
  <2>1. PICK k \in DOMAIN f.items : f.items[k].k = "section" /\ l \in Parts(f.items[k].items)
    BY <1>2 DEF Sub
  <2>2. k < f.n
    OBVIOUS
  <2>3. AllSettled(p, es, marked, f.items[k].items)
    BY <2>1, <2>2 DEF FrameSettled
  <2> QED
    BY <2>1, <2>3 DEF AllSettled
<1> QED
  BY <1>1, <1>2, PartsAre

LEMMA MentionsSettled ==
  ASSUME NEW p, NEW es, NEW marked, NEW items, AllSettled(p, es, marked, items),
         NEW y \in Mentions(items)
  PROVE  y \in marked \/ (es # <<>> /\ y \notin SchemaNames(p))
<1>1. PICK l \in Parts(items) : \E n \in DOMAIN l : l[n].k = "field" /\ l[n].type = y
  BY MentionedIs
<1>2. PICK n \in DOMAIN l : l[n].k = "field" /\ l[n].type = y
  BY <1>1
<1>3. FieldSettled(p, es, marked, l[n])
  BY DEF AllSettled
<1>4. y \notin BuiltIn
  BY MentionedIs
<1> QED
  BY <1>2, <1>3, <1>4 DEF FieldSettled, Settled

\* There are no more names than schemas.
LEMMA NamesAreFinite ==
  ASSUME NEW p, Len(p) \in Nat, DOMAIN p = 1..Len(p), NEW marked, marked \subseteq SchemaNames(p)
  PROVE  /\ IsFiniteSet(marked) /\ Cardinality(marked) \in Nat
         /\ Cardinality(marked) <= Len(p)
<1> DEFINE f == [d \in 1..Len(p) |-> p[d].name]
<1>1. f \in Surjection(1..Len(p), SchemaNames(p))
  <2>1. SchemaNames(p) = {p[d].name : d \in 1..Len(p)}
    BY DEF SchemaNames, NamesOf
  <2>2. f \in [1..Len(p) -> SchemaNames(p)] /\ \A y \in SchemaNames(p) : \E d \in 1..Len(p) : f[d] = y
    BY <2>1
  <2> HIDE DEF f
  <2> QED
    BY <2>2 DEF Surjection
<1>2. IsFiniteSet(1..Len(p)) /\ Cardinality(1..Len(p)) = Len(p)
  <2>1. ASSUME NEW n \in Nat PROVE IsFiniteSet(1..n) /\ Cardinality(1..n) = n
    <3>1. 1 \in Int /\ n \in Int
      OBVIOUS
    <3>2. IsFiniteSet(1..n) /\ Cardinality(1..n) = IF 1 > n THEN 0 ELSE n - 1 + 1
      BY ONLY <3>1, FS_Interval
    <3> QED
      BY <3>2
  <2> QED
    BY <2>1
<1>3. IsFiniteSet(SchemaNames(p)) /\ Cardinality(SchemaNames(p)) <= Len(p)
  BY <1>1, <1>2, FS_Surjection
<1>4. IsFiniteSet(marked) /\ Cardinality(marked) <= Cardinality(SchemaNames(p))
  BY <1>3, FS_Subset
<1>5. Cardinality(marked) \in Nat /\ Cardinality(SchemaNames(p)) \in Nat
  BY <1>3, <1>4, FS_CardinalityType
<1> QED
  BY <1>3, <1>4, <1>5

\* A schema is marked after all it mentions.
LEMMA MarkInOrder ==
  ASSUME NEW p, Len(p) \in Nat, DOMAIN p = 1..Len(p), Distinct(p),
         NEW es, NEW marked, marked \subseteq SchemaNames(p), MarkedInOrder(p, es, marked),
         NEW d \in DOMAIN p, p[d].name \notin marked, AllSettled(p, es, marked, p[d].items)
  PROVE  MarkedInOrder(p, es, marked \cup {p[d].name})
<1> DEFINE y == p[d].name
           more == marked \cup {y}
           c == Cardinality(marked)
<1>1. PICK rank \in [marked -> 1..c] :
        \A e \in DOMAIN p : p[e].name \in marked =>
          /\ AllSettled(p, es, marked, p[e].items)
          /\ \A z \in Mentions(p[e].items) \cap marked : rank[z] < rank[p[e].name]
  BY DEF MarkedInOrder
<1>2. c \in Nat /\ Cardinality(more) = c + 1
  BY NamesAreFinite, FS_AddElement
<1>3. y \in SchemaNames(p)
  BY DEF SchemaNames, NamesOf
<1>4. \A e \in DOMAIN p : p[e].name = y => e = d
  BY DEF Distinct
<1>5. \A e \in DOMAIN p : p[e].name \in more => AllSettled(p, es, marked, p[e].items)
  BY <1>1, <1>4
<1>6. y \notin marked
  OBVIOUS
<1> DEFINE new == [x \in more |-> IF x = y THEN c + 1 ELSE rank[x]]
<1>7. /\ new[y] = c + 1 /\ \A x \in marked : new[x] = rank[x] /\ rank[x] \in 1..c
      /\ DOMAIN new = more
  BY <1>1, <1>6
<1>8. new \in [more -> 1..Cardinality(more)]
  <2>1. \A x \in more : new[x] \in 1..(c + 1)
    BY <1>2, <1>7
  <2>2. new = [x \in more |-> new[x]]
    OBVIOUS
  <2> HIDE DEF new, more, c
  <2> QED
    BY <1>2, <2>1, <2>2
<1>9. ASSUME NEW e \in DOMAIN p, p[e].name \in more
      PROVE  /\ AllSettled(p, es, more, p[e].items)
             /\ \A z \in Mentions(p[e].items) \cap more : new[z] < new[p[e].name]
  <2>1. AllSettled(p, es, marked, p[e].items)
    BY <1>5, <1>9
  <2>2. AllSettled(p, es, more, p[e].items)
    BY <2>1, AllStays DEF Grown
  <2>3. ASSUME NEW z \in Mentions(p[e].items), z \in more PROVE new[z] < new[p[e].name]
    <3>1. z \in marked
      BY <1>3, <2>1, <2>3, MentionsSettled
    <3>2. CASE p[e].name = y
      BY <1>2, <1>7, <3>1, <3>2
    <3>3. CASE p[e].name \in marked
      BY <1>1, <1>7, <3>1, <3>3
    <3> QED
      BY <1>9, <3>2, <3>3
  <2> QED
    BY <2>2, <2>3
<1> HIDE DEF new, y
<1> QED
  BY <1>8, <1>9 DEF MarkedInOrder, y

\* In the end that is an order of all schemas.
LEMMA OrderIsLayered ==
  ASSUME NEW p, Len(p) \in Nat, DOMAIN p = 1..Len(p),
         NEW es, NEW marked, marked \subseteq SchemaNames(p), MarkedInOrder(p, es, marked),
         \A d \in DOMAIN p : p[d].name \in marked
  PROVE  Layered(p)
<1>1. PICK rank \in [marked -> 1..Cardinality(marked)] :
        \A d \in DOMAIN p : p[d].name \in marked =>
          /\ AllSettled(p, es, marked, p[d].items)
          /\ \A y \in Mentions(p[d].items) \cap marked : rank[y] < rank[p[d].name]
  BY DEF MarkedInOrder
<1> DEFINE new == [d \in DOMAIN p |-> rank[p[d].name]]
<1>2. Cardinality(marked) \in Nat /\ Cardinality(marked) <= Len(p)
  BY NamesAreFinite
<1>3. \A d \in DOMAIN p : rank[p[d].name] \in 1..Len(p)
  <2>1. \A d \in DOMAIN p : rank[p[d].name] \in 1..Cardinality(marked)
    OBVIOUS
  <2>2. \A k \in 1..Cardinality(marked) : k \in 1..Len(p)
    BY <1>2
  <2> QED
    BY <2>1, <2>2
<1>4. new \in [DOMAIN p -> DOMAIN p]
  BY <1>3
<1>5. Orders(p, new)
  BY <1>1 DEF Orders
<1> QED
  BY <1>4, <1>5 DEF Layered

-----------------------------------------------------------------------------
(* The marked schemas are in order *)

\* What is claimed after a step was claimed before it.
LEMMA CleanBefore ==
  ASSUME NEW p, NEW es, NEW fs, fs = <<>> => es = <<>>, Cyclic(es) => Cyclic(fs), Clean(p, fs)
  PROVE  Clean(p, es)
BY DEF Clean

\* Every frame is settled, the innermost as the last one.
FramesSettled(p, es, marked, fr) ==
  \A m \in DOMAIN fr : FrameSettled(p, es, marked, fr[m], m = Len(fr))

LEMMA FrameIsPlaced ==
  ASSUME IInv, TextInv, NEW m \in DOMAIN frames
  PROVE  /\ DOMAIN frames[m].items \subseteq Nat /\ frames[m].n \in Nat
         /\ Len(frames[m].items) \in Nat /\ DOMAIN frames[m].items = 1..Len(frames[m].items)
         /\ Shallow(frames[m].items)
<1>1. PICK own \in [DOMAIN frames -> DOMAIN program] : Owns(program, frames, own)
  BY DEF TextInv, Owned
<1>2. /\ Len(frames[m].items) \in Nat /\ DOMAIN frames[m].items = 1..Len(frames[m].items)
      /\ Shallow(frames[m].items)
  BY <1>1, ItemsAre
<1>3. frames[m].n \in 1..(Len(frames[m].items) + 1)
  BY DEF TextInv, Linked, Placed
<1> QED
  BY <1>2, <1>3

\* The frames a step leaves alone.
LEMMA FramesStay ==
  ASSUME IInv, TextInv, FramesSettled(program, errors, resolved, frames),
         NEW fs, NEW more, Grown(errors, resolved, fs, more), NEW m \in DOMAIN frames
  PROVE  /\ FrameSettled(program, fs, more, frames[m], m = Len(frames))
         /\ FrameSettled(program, fs, more, frames[m], FALSE)
<1>1. FrameSettled(program, errors, resolved, frames[m], m = Len(frames))
  BY DEF FramesSettled
<1>2. DOMAIN frames[m].items \subseteq Nat /\ frames[m].n \in Nat
  BY FrameIsPlaced
<1>3. (m = Len(frames)) \in BOOLEAN
  OBVIOUS
<1> QED
  BY ONLY <1>1, <1>2, <1>3, Grown(errors, resolved, fs, more), FrameStays

\* A new frame has been over nothing.
LEMMA PushSettled ==
  ASSUME NEW p, NEW es, NEW marked, NEW fr, IsSeq(fr),
         \A m \in DOMAIN fr : FrameSettled(p, es, marked, fr[m], FALSE),
         NEW f, f.pass = "define", f.n = 1, Len(f.items) \in Nat, DOMAIN f.items = 1..Len(f.items)
  PROVE  FramesSettled(p, es, marked, Append(fr, f))
<1> DEFINE gr == Append(fr, f)
<1>1. /\ Len(fr) \in Nat /\ DOMAIN fr = 1..Len(fr) /\ DOMAIN gr = 1..(Len(fr) + 1)
      /\ Len(gr) = Len(fr) + 1
      /\ \A m \in 1..Len(fr) : gr[m] = fr[m]
      /\ gr[Len(fr) + 1] = f
  BY AppendIs, SeqIs
<1> HIDE DEF gr
<1>2. FrameSettled(p, es, marked, f, TRUE)
  <2>1. ASSUME NEW n \in DOMAIN f.items, f.pass = "check" \/ n < f.n PROVE FALSE
    BY <2>1
  <2> QED
    BY <2>1 DEF FrameSettled
<1>3. ASSUME NEW m \in DOMAIN gr PROVE FrameSettled(p, es, marked, gr[m], m = Len(gr))
  <2>1. CASE m \in 1..Len(fr)
    <3>1. (m = Len(gr)) = FALSE
      BY <1>1, <2>1
    <3> QED
      BY <1>1, <2>1, <3>1
  <2>2. CASE m = Len(fr) + 1
    <3>1. (m = Len(gr)) = TRUE
      BY <1>1, <2>2
    <3> QED
      BY <1>1, <1>2, <2>2, <3>1
  <2> QED
    BY <1>1, <2>1, <2>2
<1> QED
  BY <1>3 DEF FramesSettled, gr

\* The innermost frame moves, over what is settled.
LEMMA MoveSettled ==
  ASSUME IInv, TextInv, frames # <<>>, FramesSettled(program, errors, resolved, frames),
         NEW fs, Grown(errors, resolved, fs, resolved), NEW n, NEW pass,
         FrameSettled(program, fs, resolved,
           [decl |-> Top.decl, items |-> Top.items, n |-> n, pass |-> pass], TRUE)
  PROVE  FramesSettled(program, fs, resolved, Moved(n, pass))
<1> DEFINE f == [decl |-> Top.decl, items |-> Top.items, n |-> n, pass |-> pass]
<1>1. /\ Len(Moved(n, pass)) = Len(frames) /\ DOMAIN Moved(n, pass) = DOMAIN frames
      /\ \A m \in DOMAIN frames : m # Len(frames) => Moved(n, pass)[m] = frames[m]
      /\ Moved(n, pass)[Len(frames)] = f
  BY MovedIs
<1>2. FrameSettled(program, fs, resolved, f, TRUE)
  OBVIOUS
<1> HIDE DEF f
<1> SUFFICES ASSUME NEW m \in DOMAIN frames
             PROVE  FrameSettled(program, fs, resolved, Moved(n, pass)[m], m = Len(frames))
  BY <1>1 DEF FramesSettled
<1>3. CASE m = Len(frames)
  <2>1. (m = Len(frames)) = TRUE
    BY <1>3
  <2> QED
    BY <1>1, <1>2, <1>3, <2>1
<1>4. CASE m # Len(frames)
  BY <1>1, <1>4, FramesStay
<1> QED
  BY <1>3, <1>4

\* A schema is entered.
LEMMA EnterOrder ==
  ASSUME IInv, TextInv, FramesSettled(program, errors, resolved, frames),
         NEW d \in DOMAIN program, Enter(d)
  PROVE  FramesSettled(program, errors, resolved, frames')
<1> DEFINE f == Frame(d, program[d].items)
<1>1. frames' = Append(frames, f)
  BY DEF Enter
<1>2. f.items = program[d].items /\ f.n = 1 /\ f.pass = "define"
  BY DEF Frame
<1> HIDE DEF f
<1>3. Len(f.items) \in Nat /\ DOMAIN f.items = 1..Len(f.items)
  BY <1>2, PartsHoldItems, PartIsSeq DEF IInv
<1>4. \A m \in DOMAIN frames : FrameSettled(program, errors, resolved, frames[m], FALSE)
  BY FramesStay DEF Grown
<1> QED
  BY <1>1, <1>2, <1>3, <1>4, StateIs, PushSettled

\* A type that is passed over is settled.
LEMMA TypeIsSettled ==
  ASSUME IInv, PassInv, TextInv, DefineField, Clean(program, errors')
  PROVE  Settled(program, errors', resolved, Item.type)
<1> DEFINE x == Item.type
<1>1. /\ frames # <<>> /\ More /\ Item.k = "field"
      /\ Define(Item.name, Symbol(FieldType(Item), 0), TypeErrors(x))
  BY DEF DefineField, Defining
<1>2. /\ errors' = <<>> => TypeErrors(x) = <<>>
      /\ Cyclic(TypeErrors(x)) => Cyclic(errors')
  BY <1>1, TypeErrorsAre, DefineIs
<1>3. /\ TypeErrors(x) = <<>> => x \in BuiltIn \/ (IsSchema(x) /\ x \in resolved)
      /\ Cyclic(TypeErrors(x)) <=> x \notin BuiltIn /\ IsSchema(x) /\ x \notin resolved
  BY TypeErrorsAre
<1> HIDE DEF x
<1>4. CASE errors' = <<>>
  BY <1>2, <1>3, <1>4 DEF Settled, x
<1>5. CASE errors' # <<>> /\ x \notin BuiltIn /\ x \in SchemaNames(program)
  <2>1. PICK own \in [DOMAIN frames -> DOMAIN program] : Owns(program, frames, own)
    BY DEF TextInv, Owned
  <2>2. \A k \in DOMAIN scopes \ {1} : x \notin DOMAIN scopes[k]
    <3> SUFFICES ASSUME NEW k \in DOMAIN scopes \ {1}, x \in DOMAIN scopes[k] PROVE FALSE
      OBVIOUS
    <3>1. k - 1 \in DOMAIN frames /\ (k - 1) + 1 = k
      BY StateIs
    <3>2. x \in NamesOf(frames[k - 1].items)
      BY <3>1 DEF TextInv, Named
    <3>3. /\ own[k - 1] \in DOMAIN program
          /\ frames[k - 1].items \in Parts(program[own[k - 1]].items)
      BY <2>1, <3>1 DEF Owns
    <3>4. x \in AllNames(program[own[k - 1]].items)
      BY <3>2, <3>3, AllNamesHold
    <3> QED
      BY <1>5, <3>3, <3>4 DEF Clean, Unhidden
  <2>3. IsSchema(x)
    BY <1>1, <1>5, <2>2, InsideIs, SchemaSeen
  <2>4. x \in resolved
    BY <1>2, <1>3, <1>5, <2>3 DEF Clean
  <2> QED
    BY <2>4 DEF Settled, x
<1>6. CASE errors' # <<>> /\ (x \in BuiltIn \/ x \notin SchemaNames(program))
  BY <1>6 DEF Settled, x
<1> QED
  BY <1>4, <1>5, <1>6

\* The frame goes on to the next item, which is settled.
LEMMA NextSettled ==
  ASSUME NEW p, NEW es, NEW marked, NEW f, f.n \in Nat, DOMAIN f.items \subseteq Nat,
         FrameSettled(p, es, marked, f, TRUE), NEW g, g.items = f.items, g.n = f.n + 1, g.pass = f.pass,
         FieldSettled(p, es, marked, f.items[f.n]),
         f.pass = "check" => f.items[f.n].k # "section"
  PROVE  FrameSettled(p, es, marked, g, TRUE)
<1>1. ASSUME NEW n \in DOMAIN f.items, n < f.n + 1
      PROVE  n < f.n \/ n = f.n
  BY <1>1
<1> QED
  BY <1>1 DEF FrameSettled

-----------------------------------------------------------------------------
(* Every step keeps the order *)

LEMMA ReportsGrow ==
  ASSUME IInv, Next
  PROVE  /\ program' = program
         /\ errors' = <<>> => errors = <<>>
         /\ Cyclic(errors) => Cyclic(errors')
<1>1. CASE Declare
  BY <1>1, DefineIs, NoError DEF Declare
<1>2. CASE DefineField
  BY <1>2, DefineIs, TypeErrorsAre DEF DefineField
<1>3. CASE DefineSection
  BY <1>3, DefineIs, NoError DEF DefineSection
<1>4. CASE CheckProperty
  <2> DEFINE more == PropertyErrors(Scope[Item.name].type, Item.props, prop)
  <2>1. program' = program /\ errors' = errors \o more
    BY <1>4 DEF CheckProperty
  <2>2. IsSeq(more)
    BY PropertyErrorsOK DEF ErrorsOK
  <2> HIDE DEF more
  <2> QED
    BY <2>1, <2>2, ConcatEmpty, StateIs
<1>5. CASE Declared \/ StartSchema \/ Finish \/ Descend \/ EndDefine \/ CheckField \/ CheckSection \/ Leave
  BY <1>5 DEF Declared, StartSchema, Finish, Descend, EndDefine, CheckField, CheckSection, Leave
<1> QED
  BY <1>1, <1>2, <1>3, <1>4, <1>5 DEF Next

\* What may be used of the state before a step, and what must be shown of the
\* one after it.
LEMMA OrderBefore ==
  ASSUME IInv, OrderInv, Next, Clean(program, errors')
  PROVE  /\ FramesSettled(program, errors, resolved, frames)
         /\ MarkedInOrder(program, errors, resolved)
         /\ Grown(errors, resolved, errors', resolved)
         /\ MarkedInOrder(program, errors', resolved)
<1>1. errors # <<>> => errors' # <<>>
  BY ReportsGrow
<1>2. Clean(program, errors)
  BY ReportsGrow, CleanBefore
<1>3. FramesSettled(program, errors, resolved, frames) /\ MarkedInOrder(program, errors, resolved)
  BY <1>2 DEF OrderInv, FramesSettled
<1> QED
  BY <1>1, <1>3, OrderStays DEF Grown

LEMMA OrderAfter ==
  ASSUME program' = program,
         Clean(program, errors') => /\ FramesSettled(program, errors', resolved', frames')
                                    /\ MarkedInOrder(program, errors', resolved')
  PROVE  OrderInv'
BY DEF OrderInv, FramesSettled

\* Steps that leave the frames alone.
LEMMA StillOrder ==
  ASSUME IInv, PassInv, TextInv, OrderInv, Next, UNCHANGED <<frames, resolved>>
  PROVE  OrderInv'
<1>1. program' = program
  BY ReportsGrow
<1>2. ASSUME Clean(program, errors')
      PROVE  /\ FramesSettled(program, errors', resolved, frames)
             /\ MarkedInOrder(program, errors', resolved)
  <2>1. /\ FramesSettled(program, errors, resolved, frames)
        /\ Grown(errors, resolved, errors', resolved)
        /\ MarkedInOrder(program, errors', resolved)
    BY <1>2, OrderBefore
  <2>2. FramesSettled(program, errors', resolved, frames)
    <3> SUFFICES ASSUME NEW m \in DOMAIN frames
                 PROVE  FrameSettled(program, errors', resolved, frames[m], m = Len(frames))
      BY DEF FramesSettled
    <3> QED
      BY <2>1, FramesStay
  <2> QED
    BY <2>1, <2>2
<1> QED
  BY <1>1, <1>2, OrderAfter

\* Steps that enter a schema.
LEMMA EnteringOrder ==
  ASSUME IInv, PassInv, TextInv, OrderInv, Next, UNCHANGED errors,
         NEW d \in DOMAIN program, Enter(d)
  PROVE  OrderInv'
<1>1. program' = program /\ resolved' = resolved
  BY ReportsGrow DEF Enter
<1>2. ASSUME Clean(program, errors')
      PROVE  /\ FramesSettled(program, errors, resolved, frames')
             /\ MarkedInOrder(program, errors, resolved)
  BY <1>2, OrderBefore, EnterOrder
<1> QED
  BY <1>1, <1>2, OrderAfter

\* Steps that go on in the innermost frame.
LEMMA MovingOrder ==
  ASSUME IInv, PassInv, TextInv, OrderInv, Next, frames # <<>>, UNCHANGED resolved,
         NEW n, NEW pass, frames' = Moved(n, pass),
         Clean(program, errors') /\ FrameSettled(program, errors', resolved, Top, TRUE) =>
           FrameSettled(program, errors', resolved,
             [decl |-> Top.decl, items |-> Top.items, n |-> n, pass |-> pass], TRUE)
  PROVE  OrderInv'
<1>1. program' = program
  BY ReportsGrow
<1>2. ASSUME Clean(program, errors')
      PROVE  /\ FramesSettled(program, errors', resolved, Moved(n, pass))
             /\ MarkedInOrder(program, errors', resolved)
  <2>1. /\ FramesSettled(program, errors, resolved, frames)
        /\ Grown(errors, resolved, errors', resolved)
        /\ MarkedInOrder(program, errors', resolved)
    BY <1>2, OrderBefore
  <2>2. FrameSettled(program, errors', resolved, Top, TRUE)
    <3>1. Len(frames) \in DOMAIN frames /\ Top = frames[Len(frames)]
      BY TopIs
    <3>2. FrameSettled(program, errors', resolved, frames[Len(frames)], Len(frames) = Len(frames))
      BY ONLY IInv, TextInv, <2>1, <3>1, FramesStay
    <3> QED
      BY <3>1, <3>2
  <2> QED
    BY <1>2, <2>1, <2>2, MoveSettled
<1> QED
  BY <1>1, <1>2, OrderAfter

\* The innermost frame goes on to its next item.
LEMMA NextOrder ==
  ASSUME IInv, PassInv, TextInv, OrderInv, Next, frames # <<>>, UNCHANGED resolved,
         frames' = Advanced, More,
         Clean(program, errors') => FieldSettled(program, errors', resolved, Item),
         Top.pass = "check" => Item.k # "section"
  PROVE  OrderInv'
<1>1. frames' = Moved(Top.n + 1, Top.pass)
  BY AdvancedMoved
<1>2. ASSUME Clean(program, errors'), FrameSettled(program, errors', resolved, Top, TRUE)
      PROVE  FrameSettled(program, errors', resolved,
               [decl |-> Top.decl, items |-> Top.items, n |-> Top.n + 1, pass |-> Top.pass], TRUE)
  <2> DEFINE g == [decl |-> Top.decl, items |-> Top.items, n |-> Top.n + 1, pass |-> Top.pass]
  <2>1. g.items = Top.items /\ g.n = Top.n + 1 /\ g.pass = Top.pass
    OBVIOUS
  <2> HIDE DEF g
  <2>2. Top.n \in Nat /\ DOMAIN Top.items \subseteq Nat
    BY TopIs
  <2>3. /\ FieldSettled(program, errors', resolved, Top.items[Top.n])
        /\ Top.pass = "check" => Top.items[Top.n].k # "section"
    BY <1>2 DEF Item
  <2>4. FrameSettled(program, errors', resolved, g, TRUE)
    BY ONLY <1>2, <2>1, <2>2, <2>3, NextSettled
  <2> QED
    BY <2>4 DEF g
<1> QED
  BY <1>1, <1>2, MovingOrder

LEMMA DefineOrder == IInv /\ PassInv /\ TextInv /\ OrderInv /\ (DefineField \/ DefineSection) => OrderInv'
<1> SUFFICES ASSUME IInv, PassInv, TextInv, OrderInv, DefineField \/ DefineSection PROVE OrderInv'
  OBVIOUS
<1>1. /\ frames # <<>> /\ More /\ frames' = Advanced /\ UNCHANGED resolved
      /\ Top.pass = "define" /\ Next
  BY DEF DefineField, DefineSection, Defining, Next
<1>2. ASSUME Clean(program, errors') PROVE FieldSettled(program, errors', resolved, Item)
  <2>1. CASE DefineField
    BY <1>2, <2>1, TypeIsSettled DEF FieldSettled
  <2>2. CASE DefineSection
    <3>1. Item.k = "section"
      BY <2>2 DEF DefineSection, Defining
    <3> QED
      BY <3>1 DEF FieldSettled
  <2> QED
    BY <2>1, <2>2
<1> QED
  BY <1>1, <1>2, NextOrder

LEMMA EndDefineOrder == IInv /\ PassInv /\ TextInv /\ OrderInv /\ EndDefine => OrderInv'
<1> SUFFICES ASSUME IInv, PassInv, TextInv, OrderInv, EndDefine PROVE OrderInv'
  OBVIOUS
<1>1. frames # <<>> /\ frames' = Moved(1, "check") /\ UNCHANGED resolved /\ ~More /\ Next
  BY EndDefineMoved DEF EndDefine, Next
<1>2. ASSUME FrameSettled(program, errors', resolved, Top, TRUE)
      PROVE  FrameSettled(program, errors', resolved,
               [decl |-> Top.decl, items |-> Top.items, n |-> 1, pass |-> "check"], TRUE)
  <2> DEFINE g == [decl |-> Top.decl, items |-> Top.items, n |-> 1, pass |-> "check"]
  <2>1. g.items = Top.items /\ g.n = 1
    OBVIOUS
  <2> HIDE DEF g
  <2>2. Top.n = Len(Top.items) + 1 /\ Len(Top.items) \in Nat /\ DOMAIN Top.items = 1..Len(Top.items)
    BY <1>1, TopIs
  <2>3. \A n \in DOMAIN Top.items : n < Top.n /\ ~(n < 1)
    BY ONLY <2>2
  <2>4. FrameSettled(program, errors', resolved, g, TRUE)
    BY <1>2, <2>1, <2>3 DEF FrameSettled
  <2> QED
    BY <2>4 DEF g
<1> QED
  BY <1>1, <1>2, MovingOrder

LEMMA CheckOrder == IInv /\ PassInv /\ TextInv /\ OrderInv /\ CheckField => OrderInv'
<1> SUFFICES ASSUME IInv, PassInv, TextInv, OrderInv, CheckField PROVE OrderInv'
  OBVIOUS
<1>1. /\ frames # <<>> /\ More /\ frames' = Advanced /\ UNCHANGED <<resolved, program, errors>>
      /\ Top.pass = "check" /\ Item.k = "field" /\ Next
  BY DEF CheckField, Checking, Next
<1>2. ASSUME Clean(program, errors') PROVE FieldSettled(program, errors', resolved, Item)
  <2>1. FramesSettled(program, errors, resolved, frames)
    BY <1>1, <1>2, OrderBefore
  <2>2. Len(frames) \in DOMAIN frames /\ Top = frames[Len(frames)] /\ Top.n \in DOMAIN Top.items
    BY <1>1, TopIs
  <2>3. FrameSettled(program, errors, resolved, Top, Len(frames) = Len(frames))
    BY <2>1, <2>2 DEF FramesSettled
  <2> QED
    BY <1>1, <2>2, <2>3 DEF FrameSettled, Item
<1> QED
  BY <1>1, <1>2, NextOrder

\* The section that is entered is no longer asked for.
LEMMA CheckSectionOrder == IInv /\ PassInv /\ TextInv /\ OrderInv /\ CheckSection => OrderInv'
<1> SUFFICES ASSUME IInv, PassInv, TextInv, OrderInv, CheckSection PROVE OrderInv'
  OBVIOUS
<1> DEFINE f == Frame(0, Item.items)
           gr == Moved(Top.n + 1, Top.pass)
           g == [decl |-> Top.decl, items |-> Top.items, n |-> Top.n + 1, pass |-> Top.pass]
<1>1. /\ frames # <<>> /\ More /\ Item.k = "section" /\ Top.pass = "check" /\ Next
      /\ UNCHANGED <<program, errors, resolved>> /\ frames' = Append(gr, f)
  BY AdvancedMoved DEF CheckSection, Checking, Next
<1>2. f.items = Item.items /\ f.n = 1 /\ f.pass = "define"
  BY DEF Frame
<1>3. /\ IsSeq(gr) /\ DOMAIN gr = DOMAIN frames /\ gr[Len(frames)] = g
      /\ \A m \in DOMAIN frames : m # Len(frames) => gr[m] = frames[m]
  BY <1>1, MovedIs
<1>4. g.items = Top.items /\ g.n = Top.n + 1 /\ g.pass = Top.pass
  OBVIOUS
<1> HIDE DEF f, gr, g
<1>5. Top.n \in Nat /\ Top.n \in DOMAIN Top.items /\ DOMAIN Top.items \subseteq Nat /\ Shallow(Top.items)
  BY <1>1, TopIs
<1>6. Len(f.items) \in Nat /\ DOMAIN f.items = 1..Len(f.items)
  <2>1. f.items \in Sub(Top.items)
    BY <1>1, <1>2, <1>5, SubIs DEF Item
  <2>2. Shallow(f.items) /\ f.items \in Parts(f.items)
    BY <1>5, <2>1, SectionsAreShallow, PartsHoldItems
  <2> QED
    BY <2>2 DEF Shallow
<1>7. ASSUME Clean(program, errors')
      PROVE  /\ FramesSettled(program, errors, resolved, frames')
             /\ MarkedInOrder(program, errors, resolved)
  <2>1. FramesSettled(program, errors, resolved, frames) /\ MarkedInOrder(program, errors, resolved)
    BY <1>1, <1>7, OrderBefore
  <2>2. FrameSettled(program, errors, resolved, Top, TRUE)
    <3>1. Len(frames) \in DOMAIN frames /\ Top = frames[Len(frames)]
      BY <1>1, TopIs
    <3>2. FrameSettled(program, errors, resolved, Top, Len(frames) = Len(frames))
      BY <2>1, <3>1 DEF FramesSettled
    <3> QED
      BY <3>2
  <2>3. FrameSettled(program, errors, resolved, g, FALSE)
    <3>1. \A n \in DOMAIN Top.items : n < g.n - 1 => n < Top.n
      BY <1>4, <1>5
    <3> QED
      BY <1>1, <1>4, <2>2, <3>1 DEF FrameSettled
  <2>4. \A m \in DOMAIN gr : FrameSettled(program, errors, resolved, gr[m], FALSE)
    <3> SUFFICES ASSUME NEW m \in DOMAIN frames PROVE FrameSettled(program, errors, resolved, gr[m], FALSE)
      BY <1>3
    <3>1. Grown(errors, resolved, errors, resolved)
      BY DEF Grown
    <3> QED
      BY <1>3, <2>1, <2>3, <3>1, FramesStay
  <2>5. FramesSettled(program, errors, resolved, Append(gr, f))
    BY ONLY <1>2, <1>3, <1>6, <2>4, PushSettled
  <2> QED
    BY <1>1, <2>1, <2>5
<1> QED
  BY <1>1, <1>7, OrderAfter

\* The section a frame was in has been gone through.
LEMMA LastSettled ==
  ASSUME NEW p, NEW es, NEW marked, NEW f, FrameSettled(p, es, marked, f, FALSE),
         f.n \in Nat, DOMAIN f.items \subseteq Nat,
         f.pass = "check" => AllSettled(p, es, marked, Gone(f).items)
  PROVE  FrameSettled(p, es, marked, f, TRUE)
<1>1. \A n \in DOMAIN f.items : n < f.n => n < f.n - 1 \/ n = f.n - 1
  OBVIOUS
<1> QED
  BY <1>1 DEF FrameSettled, Gone

LEMMA LeaveOrder == IInv /\ PassInv /\ TextInv /\ OrderInv /\ Leave => OrderInv'
<1> SUFFICES ASSUME IInv, PassInv, TextInv, OrderInv, Leave PROVE OrderInv'
  OBVIOUS
<1>1. /\ frames # <<>> /\ Top.pass = "check" /\ ~More /\ frames' = Front(frames) /\ Next
      /\ UNCHANGED <<program, errors>>
  BY DEF Leave, Finished, Next
<1>2. /\ Top = frames[Len(frames)] /\ Len(frames) \in DOMAIN frames /\ Top.n = Len(Top.items) + 1
      /\ Len(Top.items) \in Nat /\ DOMAIN Top.items = 1..Len(Top.items) /\ Shallow(Top.items)
  BY <1>1, TopIs
<1>3. resolved \subseteq resolved'
  BY LeaveIs
<1> SUFFICES ASSUME Clean(program, errors')
             PROVE  /\ FramesSettled(program, errors, resolved', frames')
                    /\ MarkedInOrder(program, errors, resolved')
  BY <1>1, OrderAfter
<1>4. FramesSettled(program, errors, resolved, frames) /\ MarkedInOrder(program, errors, resolved)
  BY <1>1, OrderBefore
<1>5. AllSettled(program, errors, resolved, Top.items)
  <2>1. FrameSettled(program, errors, resolved, Top, Len(frames) = Len(frames))
    BY <1>2, <1>4 DEF FramesSettled
  <2>2. FrameSettled(program, errors, resolved, Top, TRUE)
    BY <2>1
  <2> QED
    BY <1>1, <1>2, <2>2, WholeSettled
<1>6. Grown(errors, resolved, errors, resolved')
  BY <1>3 DEF Grown
<1>7. AllSettled(program, errors, resolved', Top.items)
  BY <1>5, <1>6, AllStays
<1>8. MarkedInOrder(program, errors, resolved')
  <2>1. CASE Top.decl = 0 /\ UNCHANGED resolved
    BY <1>4, <2>1
  <2>2. CASE /\ Top.decl \in DOMAIN program /\ Top.decl # 0
             /\ resolved' = resolved \cup {program[Top.decl].name}
             /\ program[Top.decl].name \notin resolved
    <3>1. PICK own \in [DOMAIN frames -> DOMAIN program] : Owns(program, frames, own)
      BY DEF TextInv, Owned
    <3>2. Top.items = program[Top.decl].items
      BY <1>2, <2>2, <3>1 DEF Owns
    <3>3. /\ Len(program) \in Nat /\ DOMAIN program = 1..Len(program) /\ Distinct(program)
          /\ resolved \subseteq SchemaNames(program)
      BY StateIs DEF Clean, PassInv
    <3>4. AllSettled(program, errors, resolved, program[Top.decl].items)
      BY <1>5, <3>2
    <3>5. MarkedInOrder(program, errors, resolved \cup {program[Top.decl].name})
      BY ONLY <1>4, <2>2, <3>3, <3>4, MarkInOrder
    <3> QED
      BY <2>2, <3>5
  <2> QED
    BY <2>1, <2>2, LeaveIs
<1>9. FramesSettled(program, errors, resolved', Front(frames))
  <2>1. /\ Len(frames) \in Nat /\ DOMAIN frames = 1..Len(frames)
        /\ DOMAIN Front(frames) = 1..(Len(frames) - 1) /\ Len(Front(frames)) = Len(frames) - 1
        /\ \A m \in 1..(Len(frames) - 1) : Front(frames)[m] = frames[m] /\ m \in 1..Len(frames)
    BY <1>1, StateIs, FrontIs, LastOrBefore
  <2> SUFFICES ASSUME NEW m \in 1..(Len(frames) - 1)
               PROVE  FrameSettled(program, errors, resolved', frames[m], m = Len(frames) - 1)
    BY <2>1 DEF FramesSettled
  <2>2. m \in DOMAIN frames
    BY <2>1
  <2>3. FrameSettled(program, errors, resolved', frames[m], FALSE)
    BY <1>4, <1>6, <2>2, FramesStay
  <2>4. CASE m # Len(frames) - 1
    <3>1. (m = Len(frames) - 1) = FALSE
      BY <2>4
    <3> QED
      BY <2>3, <3>1
  <2>5. CASE m = Len(frames) - 1
    <3>1. (m = Len(frames) - 1) = TRUE
      BY <2>5
    <3>2. Len(frames) \in DOMAIN frames \ {1} /\ Len(frames) - 1 = m
      BY <2>1, <2>5
    <3>3. Link(frames[m], Top)
      BY <1>2, <3>2 DEF TextInv, Linked
    <3>4. frames[m].pass = "check" => AllSettled(program, errors, resolved', Gone(frames[m]).items)
      BY <1>7, <3>3 DEF Link
    <3>5. frames[m].n \in Nat /\ DOMAIN frames[m].items \subseteq Nat
      BY <2>2, FrameIsPlaced
    <3>6. FrameSettled(program, errors, resolved', frames[m], TRUE)
      BY ONLY <2>3, <3>4, <3>5, LastSettled
    <3> QED
      BY <3>1, <3>6
  <2> QED
    BY <2>4, <2>5
<1> QED
  BY <1>1, <1>8, <1>9

LEMMA InitOrder == Init => OrderInv
<1> SUFFICES ASSUME Init PROVE OrderInv
  OBVIOUS
<1>1. frames = <<>> /\ resolved = {} /\ DOMAIN frames = {}
  BY EmptyIs DEF Init
<1> QED
  BY <1>1, NoneInOrder DEF OrderInv

LEMMA StepKeepsOrder == IInv /\ PassInv /\ TextInv /\ OrderInv /\ [Next]_vars => OrderInv'
<1> SUFFICES ASSUME IInv, PassInv, TextInv, OrderInv, [Next]_vars PROVE OrderInv'
  OBVIOUS
<1>1. CASE UNCHANGED vars
  <2>1. UNCHANGED <<program, errors, resolved, frames>>
    BY <1>1 DEF vars
  <2> QED
    BY <2>1 DEF OrderInv
<1>2. CASE Declare \/ Declared \/ Finish \/ CheckProperty
  <2>1. Next /\ UNCHANGED <<frames, resolved>>
    BY <1>2 DEF Next, Declare, Declared, Finish, CheckProperty
  <2> QED
    BY <2>1, StillOrder
<1>3. CASE StartSchema
  <2>1. Next /\ UNCHANGED errors /\ at \in DOMAIN program
    BY <1>3, StateIs DEF Next, StartSchema, IInv, CountersOK
  <2>2. Enter(at) \/ UNCHANGED <<frames, resolved>>
    BY <1>3 DEF StartSchema
  <2> QED
    BY <2>1, <2>2, EnteringOrder, StillOrder
<1>4. CASE Descend
  <2> DEFINE d == Lookup(Item.type).decl
  <2>1. IsSchema(Item.type) /\ Enter(d) /\ UNCHANGED errors /\ Next
    BY <1>4 DEF Descend, Unresolved, Next
  <2>2. d \in DOMAIN program
    BY <2>1, SchemaFound, StateIs
  <2> HIDE DEF d
  <2> QED
    BY <2>1, <2>2, EnteringOrder
<1> QED
  BY <1>1, <1>2, <1>3, <1>4, DefineOrder, EndDefineOrder, CheckOrder, CheckSectionOrder, LeaveOrder
     DEF Next

-----------------------------------------------------------------------------
(* What the order is good for *)

\* When the checker is through and nothing is against it, all schemas are in
\* order.
LEMMA DoneIsLayered ==
  ASSUME IInv, PassInv, BodiesInv, OrderInv, Done, Clean(program, errors)
  PROVE  Layered(program)
<1>1. \A d \in DOMAIN program : program[d].name \in resolved
  BY DoneIsAll
<1>2. /\ Len(program) \in Nat /\ DOMAIN program = 1..Len(program)
      /\ resolved \subseteq SchemaNames(program) /\ MarkedInOrder(program, errors, resolved)
  BY StateIs DEF PassInv, OrderInv
<1> QED
  BY <1>1, <1>2, OrderIsLayered

\* Whatever the schemas are and in whichever order they are declared, once the
\* checker reports nothing (typecheck_program) their names are distinct, every
\* type is one of them, and the structs of the generated header can be put in an
\* order in which each comes after those it holds.
THEOREM AcceptedCanBeEmitted == Spec => []AcceptedIsEmittable
<1>1. IInv /\ PassInv /\ BodiesInv /\ OrderInv => AcceptedIsEmittable
  <2> SUFFICES ASSUME IInv, PassInv, BodiesInv, OrderInv, Accepted
               PROVE  /\ Distinct(program) /\ Layered(program)
                      /\ \A d \in DOMAIN program : Mentions(program[d].items) \subseteq SchemaNames(program)
    BY DEF AcceptedIsEmittable
  <2>1. Done /\ errors = <<>> /\ pc # "declare"
    BY DEF Accepted, Done
  <2>2. DistinctUpto(program, Len(program)) /\ resolved \subseteq SchemaNames(program)
    BY <2>1 DEF PassInv, Upto
  <2>3. Distinct(program)
    BY <2>2, StateIs DEF Distinct, DistinctUpto
  <2>4. Clean(program, errors)
    BY <2>1, <2>3, OneCyclic DEF Clean
  <2>5. \A d \in DOMAIN program : program[d].name \in resolved
    BY <2>1, DoneIsAll
  <2>6. ASSUME NEW d \in DOMAIN program, NEW y \in Mentions(program[d].items)
        PROVE  y \in SchemaNames(program)
    <3>1. MarkedInOrder(program, errors, resolved)
      BY <2>4 DEF OrderInv
    <3>2. AllSettled(program, errors, resolved, program[d].items)
      BY <2>5, <3>1 DEF MarkedInOrder
    <3> QED
      BY <2>1, <2>2, <3>2, MentionsSettled
  <2> QED
    BY <2>1, <2>3, <2>4, <2>6, DoneIsLayered
<1> QED
  BY InitInv, StepKeepsInv, InitPass, StepKeepsPass, InitBodies, StepKeepsBodies, InitText,
     StepKeepsText, InitOrder, StepKeepsOrder, <1>1, PTL DEF Spec

\* Of schemas with distinct names that no field or section hides, the checker
\* reports a circular dependency exactly when they have no order: a cycle is
\* never missed, however it is reached, and a schema that is merely used twice
\* is never taken for one (resolve_ast_type, is_resolving).
THEOREM CyclesAreFound == Spec => []CyclesAreReported
<1>1. IInv /\ PassInv /\ BodiesInv /\ TextInv /\ OrderInv => CyclesAreReported
  <2> SUFFICES ASSUME IInv, PassInv, BodiesInv, TextInv, OrderInv,
                      Done, Distinct(program), Unhidden(program)
               PROVE  Cyclic(errors) <=> ~Layered(program)
    BY DEF CyclesAreReported, Reported, Cyclic
  <2>1. Cyclic(errors) => ~Layered(program)
    BY DEF TextInv
  <2>2. ~Cyclic(errors) => Layered(program)
    BY DoneIsLayered DEF Clean
  <2> QED
    BY <2>1, <2>2
<1> QED
  BY InitInv, StepKeepsInv, InitPass, StepKeepsPass, InitBodies, StepKeepsBodies, InitText,
     StepKeepsText, InitOrder, StepKeepsOrder, <1>1, PTL DEF Spec
-----------------------------------------------------------------------------
(* The property tables *)

LEMMA JoinedIs ==
  ASSUME NEW f, NEW g
  PROVE  /\ DOMAIN Joined(f, g) = DOMAIN f \cup DOMAIN g
         /\ \A x \in DOMAIN f : Joined(f, g)[x] = f[x]
         /\ \A x \in DOMAIN g \ DOMAIN f : Joined(f, g)[x] = g[x]
BY DEF Joined

LEMMA GenericAre ==
  /\ DOMAIN GenericProps = {"default", "required", "required_if", "env", "secret", "hook", "short"}
  /\ GenericProps["default"] = "own" /\ GenericProps["required"] = "bool"
  /\ GenericProps["required_if"] = "condition" /\ GenericProps["env"] = "string"
  /\ GenericProps["secret"] = "bool" /\ GenericProps["hook"] = "string"
  /\ GenericProps["short"] = "string"
BY DEF GenericProps

LEMMA NumericAre ==
  /\ DOMAIN NumericProps = {"range", "min", "max"}
  /\ NumericProps["range"] = "range" /\ NumericProps["min"] = "own" /\ NumericProps["max"] = "own"
BY DEF NumericProps

LEMMA ArrayAre ==
  /\ DOMAIN ArrayProps = {"min_length", "max_length", "required", "required_if"}
  /\ ArrayProps["min_length"] = "int" /\ ArrayProps["max_length"] = "int"
BY DEF ArrayProps

LEMMA StringAre ==
  /\ DOMAIN StringProps = {"min_length", "max_length", "pattern"}
  /\ StringProps["min_length"] = "int" /\ StringProps["max_length"] = "int"
  /\ StringProps["pattern"] = "string"
BY DEF StringProps

LEMMA PathAre == DOMAIN PathProps = {"exists"} /\ PathProps["exists"] = "bool"
BY DEF PathProps

LEMMA OwnAre ==
  /\ DOMAIN OwnProps = {"int", "float", "string", "path", "array", "paths"}
  /\ OwnProps["int"] = NumericProps /\ OwnProps["float"] = NumericProps
  /\ OwnProps["string"] = StringProps /\ OwnProps["path"] = PathProps
  /\ OwnProps["array"] = ArrayProps /\ OwnProps["paths"] = Joined(ArrayProps, PathProps)
BY DEF OwnProps

LEMMA OwnLit ==
  ASSUME NEW type
  PROVE  /\ type \in {"int", "float", "bool"} => OwnLiteral(type) = type
         /\ type \in {"string", "path", "ipv4"} => OwnLiteral(type) = "string"
         /\ type = "enum" => OwnLiteral(type) = "identifier"
         /\ type \notin {"int", "float", "bool", "string", "path", "ipv4", "enum"} => OwnLiteral(type) = "none"
BY DEF OwnLiteral

\* The properties that only some types have.
Special(type) ==
  IF type \in {"int", "float"} THEN {"range", "min", "max"}
  ELSE IF type = "string" THEN {"min_length", "max_length", "pattern"}
  ELSE IF type = "path" THEN {"exists"}
  ELSE IF type = "array" THEN {"min_length", "max_length"}
  ELSE IF type = "paths" THEN {"min_length", "max_length", "exists"}
  ELSE {}

\* What a property has, whatever the type.
SpecialDef(name, def) ==
  /\ name = "range" => def = "range"
  /\ name \in {"min", "max"} => def = "own"
  /\ name \in {"min_length", "max_length"} => def = "int"
  /\ name = "pattern" => def = "string"
  /\ name = "exists" => def = "bool"

LEMMA SpecialIs ==
  ASSUME NEW type, NEW f, DOMAIN f = {"required", "required_if"} \cup Special(type) \/ DOMAIN f = Special(type),
         \A name \in Special(type) : SpecialDef(name, f[name]), PropertyDefs(type) = Joined(GenericProps, f)
  PROVE  /\ \A name : name \in DOMAIN PropertyDefs(type) <=> name \in DOMAIN GenericProps \/ name \in Special(type)
         /\ \A name \in DOMAIN GenericProps : PropertyDefs(type)[name] = GenericProps[name]
         /\ \A name \in Special(type) : SpecialDef(name, PropertyDefs(type)[name])
<1>1. \A name \in Special(type) : name \notin DOMAIN GenericProps
  BY GenericAre DEF Special
<1>2. {"required", "required_if"} \subseteq DOMAIN GenericProps
  BY GenericAre
<1>3. /\ DOMAIN PropertyDefs(type) = DOMAIN GenericProps \cup DOMAIN f
      /\ \A name \in DOMAIN GenericProps : PropertyDefs(type)[name] = GenericProps[name]
      /\ \A name \in DOMAIN f \ DOMAIN GenericProps : PropertyDefs(type)[name] = f[name]
  <2> DEFINE all == Joined(GenericProps, f)
  <2>1. /\ DOMAIN all = DOMAIN GenericProps \cup DOMAIN f
        /\ \A name \in DOMAIN GenericProps : all[name] = GenericProps[name]
        /\ \A name \in DOMAIN f \ DOMAIN GenericProps : all[name] = f[name]
    BY ONLY JoinedIs
  <2> HIDE DEF all
  <2>2. PropertyDefs(type) = all
    BY DEF all
  <2> QED
    BY ONLY <2>1, <2>2
<1>4. DOMAIN PropertyDefs(type) = DOMAIN GenericProps \cup Special(type)
  BY ONLY <1>2, <1>3, DOMAIN f = {"required", "required_if"} \cup Special(type) \/ DOMAIN f = Special(type)
<1>5. \A name \in Special(type) : name \in DOMAIN f
  OBVIOUS
<1> QED
  BY <1>1, <1>3, <1>4, <1>5

LEMMA DefsAre ==
  ASSUME NEW type
  PROVE  /\ \A name : name \in DOMAIN PropertyDefs(type) <=> name \in DOMAIN GenericProps \/ name \in Special(type)
         /\ \A name \in DOMAIN GenericProps : PropertyDefs(type)[name] = GenericProps[name]
         /\ \A name \in Special(type) : SpecialDef(name, PropertyDefs(type)[name])
<1>1. CASE type \notin DOMAIN OwnProps
  <2>1. PropertyDefs(type) = GenericProps
    BY <1>1 DEF PropertyDefs
  <2>2. Special(type) = {}
    BY <1>1, OwnAre DEF Special
  <2> QED
    BY <2>1, <2>2
<1>2. CASE type \in DOMAIN OwnProps
  <2> DEFINE f == OwnProps[type]
  <2>1. PropertyDefs(type) = Joined(GenericProps, f)
    BY <1>2 DEF PropertyDefs
  <2>2. /\ type \in {"int", "float"} => f = NumericProps
        /\ type = "string" => f = StringProps
        /\ type = "path" => f = PathProps
        /\ type = "array" => f = ArrayProps
        /\ type = "paths" => f = Joined(ArrayProps, PathProps)
    BY OwnAre
  <2>8. type \in {"int", "float"} \/ type = "string" \/ type = "path" \/ type = "array" \/ type = "paths"
    BY <1>2, OwnAre
  <2> HIDE DEF f
  <2> SUFFICES /\ DOMAIN f = {"required", "required_if"} \cup Special(type) \/ DOMAIN f = Special(type)
               /\ \A name \in Special(type) : SpecialDef(name, f[name])
    BY <2>1, SpecialIs
  <2>3. CASE type \in {"int", "float"}
    BY <2>2, <2>3, NumericAre DEF Special, SpecialDef
  <2>4. CASE type = "string"
    BY <2>2, <2>4, StringAre DEF Special, SpecialDef
  <2>5. CASE type = "path"
    BY <2>2, <2>5, PathAre DEF Special, SpecialDef
  <2>6. CASE type = "array"
    BY <2>2, <2>6, ArrayAre DEF Special, SpecialDef
  <2>7. CASE type = "paths"
    <3> DEFINE both == Joined(ArrayProps, PathProps)
    <3>1. /\ DOMAIN both = DOMAIN ArrayProps \cup DOMAIN PathProps
          /\ \A name \in DOMAIN ArrayProps : both[name] = ArrayProps[name]
          /\ \A name \in DOMAIN PathProps \ DOMAIN ArrayProps : both[name] = PathProps[name]
      BY JoinedIs
    <3>2. both["min_length"] = "int" /\ both["max_length"] = "int" /\ both["exists"] = "bool"
      BY ONLY <3>1, ArrayAre, PathAre
    <3>3. DOMAIN both = {"required", "required_if"} \cup {"min_length", "max_length", "exists"}
      BY ONLY <3>1, ArrayAre, PathAre
    <3> HIDE DEF both
    <3> QED
      BY <2>2, <2>7, <3>2, <3>3 DEF Special, SpecialDef, both
  <2> QED
    BY ONLY <2>8, <2>3, <2>4, <2>5, <2>6, <2>7
<1> QED
  BY <1>1, <1>2
-----------------------------------------------------------------------------
(* What a property means, and what the checker asks of it *)

\* The type of the symbol that a well-formed item gets.
TextType(item) ==
  IF item.k = "section" THEN "section"
  ELSE IF item.arr THEN IF item.type = "path" THEN "paths" ELSE "array"
  ELSE IF item.type \in BuiltIn THEN item.type ELSE "schema"

\* What a property table asks of a value; cond says whether a condition holds good.
Suits(type, name, value, cond) ==
  /\ name \in DOMAIN PropertyDefs(type)
  /\ IF PropertyDefs(type)[name] = "condition" THEN value.k = "condition" /\ cond
     ELSE IF PropertyDefs(type)[name] = "range" THEN RangeMatches(type, value)
     ELSE LiteralMatches(type, name, value)

LEMMA DenotesIs ==
  ASSUME NEW type, NEW literal
  PROVE  /\ type \in {"int", "float", "bool"} => (Denotes(type, literal) <=> literal.type = type)
         /\ type \in {"string", "path"} => (Denotes(type, literal) <=> literal.type = "string")
         /\ type = "ipv4" => (Denotes(type, literal) <=> literal.type = "string" /\ literal.value = "address")
         /\ type = "enum" => (Denotes(type, literal) <=> literal.type = "identifier" /\ literal.value = "member")
         /\ type \notin {"int", "float", "bool", "string", "path", "ipv4", "enum"} => ~Denotes(type, literal)
BY DEF Denotes

\* What the checker takes a property for: all that fits, without what it refuses.
Taken(chain, field, p) == Fits(chain, field, p) /\ ~Refused(field, p)

LEMMA TakenIs ==
  ASSUME NEW chain, NEW field, NEW p
  PROVE  /\ p.name = "default" => (Taken(chain, field, p) <=>
              ~field.arr /\ IsLiteral(p.value, p.value.type) /\ Denotes(field.type, p.value))
         /\ p.name = "required_if" => (Taken(chain, field, p) <=>
              p.value.k = "condition" /\ Comparable(chain, p.value.left, p.value.right))
         /\ p.name \in {"required", "secret"} => (Taken(chain, field, p) <=>
              IsLiteral(p.value, "bool") /\ ~(~field.arr /\ field.type = "enum"))
         /\ p.name \in {"hook", "short"} => (Taken(chain, field, p) <=>
              IsLiteral(p.value, "string") /\ ~(~field.arr /\ field.type = "enum"))
         /\ p.name = "env" => (Taken(chain, field, p) <=>
              IsLiteral(p.value, "string") /\ p.value.value = "name" /\ ~(~field.arr /\ field.type = "enum"))
         /\ p.name \in {"min", "max"} => (Taken(chain, field, p) <=>
              ~field.arr /\ field.type \in {"int", "float"} /\ IsLiteral(p.value, field.type))
         /\ p.name = "range" => (Taken(chain, field, p) <=>
              /\ ~field.arr /\ field.type \in {"int", "float"} /\ p.value.k = "range"
              /\ Denotes(field.type, p.value.min) /\ Denotes(field.type, p.value.max)
              /\ p.value.min.value <= p.value.max.value)
         /\ p.name \in {"min_length", "max_length"} => (Taken(chain, field, p) <=>
              (field.arr \/ field.type = "string") /\ IsLength(p.value))
         /\ p.name = "pattern" => (Taken(chain, field, p) <=>
              ~field.arr /\ field.type = "string" /\ IsLiteral(p.value, "string"))
         /\ p.name = "exists" => (Taken(chain, field, p) <=> field.type = "path" /\ IsLiteral(p.value, "bool"))
         /\ p.name \notin {"default", "required_if", "required", "secret", "hook", "short", "env", "min",
                           "max", "range", "min_length", "max_length", "pattern", "exists"}
              => ~Taken(chain, field, p)
BY DEF Taken, Fits, Refused

PropertiesTaken(chain, field) ==
  /\ Distinct(field.props)
  /\ \A m \in DOMAIN field.props : Taken(chain, field, field.props[m])

LexicalTaken(p, chain) ==
  LET items == chain[Len(chain)]
  IN  /\ Distinct(items)
      /\ \A n \in DOMAIN items :
           items[n].k = "field" => TypeFits(p, chain, n) /\ PropertiesTaken(chain, items[n])

WellTaken(p) ==
  /\ Distinct(p)
  /\ \A d \in DOMAIN p : \A chain \in Chains(p[d].items) : LexicalTaken(p, chain)
  /\ Layered(p)

LEMMA WellTakenIs ==
  ASSUME NEW p
  PROVE  WellTaken(p) <=> WellFormed(p) /\ Supported(p)
<1> DEFINE SupportedIn(items) == \A n \in DOMAIN items : items[n].k = "field" =>
                                   \A m \in DOMAIN items[n].props : ~Refused(items[n], items[n].props[m])
<1>1. ASSUME NEW chain
      PROVE  LexicalTaken(p, chain) <=> Lexical(p, chain) /\ SupportedIn(chain[Len(chain)])
  <2> DEFINE items == chain[Len(chain)]
  <2>1. ASSUME NEW n \in DOMAIN items
        PROVE  PropertiesTaken(chain, items[n])
                 <=> /\ PropertiesFit(chain, items[n])
                     /\ \A m \in DOMAIN items[n].props : ~Refused(items[n], items[n].props[m])
    BY DEF PropertiesTaken, PropertiesFit, Taken
  <2> HIDE DEF items
  <2>2. LexicalTaken(p, chain)
          <=> /\ Distinct(items)
              /\ \A n \in DOMAIN items :
                   items[n].k = "field" => TypeFits(p, chain, n) /\ PropertiesTaken(chain, items[n])
    BY DEF LexicalTaken, items
  <2>3. Lexical(p, chain)
          <=> /\ Distinct(items)
              /\ \A n \in DOMAIN items :
                   items[n].k = "field" => TypeFits(p, chain, n) /\ PropertiesFit(chain, items[n])
    BY DEF Lexical, items
  <2>4. LexicalTaken(p, chain) <=> Lexical(p, chain) /\ SupportedIn(items)
    BY ONLY <2>1, <2>2, <2>3
  <2> QED
    BY <2>4 DEF items
<1>2. Supported(p) <=> \A d \in DOMAIN p : \A chain \in Chains(p[d].items) : SupportedIn(chain[Len(chain)])
  BY DEF Supported
<1> HIDE DEF SupportedIn
<1> QED
  BY <1>1, <1>2 DEF WellTaken, WellFormed

\* The properties by name: those of every type, and the others.
GenericNames == {"default", "required", "required_if", "env", "secret", "hook", "short"}
SpecialNames == {"range", "min", "max", "min_length", "max_length", "pattern", "exists"}

\* The type of a field and of its symbol.
LEMMA TextTypeIs ==
  ASSUME NEW field, field.k = "field"
  PROVE  LET t == TextType(field)
         IN  /\ \A b \in BuiltIn \ {"path"} : t = b <=> ~field.arr /\ field.type = b
             /\ t = "path" <=> ~field.arr /\ field.type = "path"
             /\ t = "paths" <=> field.arr /\ field.type = "path"
             /\ t = "array" <=> field.arr /\ field.type # "path"
             /\ t = "schema" <=> ~field.arr /\ field.type \notin BuiltIn
             /\ t \in BuiltIn \cup {"paths", "array", "schema"}
BY DEF TextType, BuiltIn

LEMMA TakenGeneric ==
  ASSUME NEW chain, NEW field, field.k = "field", NEW p, p.name \in GenericNames,
         p.value.k = "literal" => p.value.type \in LiteralTypes
  PROVE  Taken(chain, field, p)
           <=> Suits(TextType(field), p.name, p.value, Comparable(chain, p.value.left, p.value.right))
<1> DEFINE t == TextType(field)
           cond == Comparable(chain, p.value.left, p.value.right)
<1>1. /\ p.name \in DOMAIN PropertyDefs(t)
      /\ PropertyDefs(t)[p.name] = GenericProps[p.name]
  <2>1. p.name \in DOMAIN GenericProps
    BY GenericAre DEF GenericNames
  <2> QED
    BY <2>1, DefsAre
<1>2. /\ \A b \in BuiltIn \ {"path"} : t = b <=> ~field.arr /\ field.type = b
      /\ t = "path" <=> ~field.arr /\ field.type = "path"
      /\ t = "paths" <=> field.arr /\ field.type = "path"
      /\ t = "array" <=> field.arr /\ field.type # "path"
      /\ t = "schema" <=> ~field.arr /\ field.type \notin BuiltIn
      /\ t \in BuiltIn \cup {"paths", "array", "schema"}
  BY TextTypeIs
<1>3. t = "enum" <=> ~field.arr /\ field.type = "enum"
  BY <1>2 DEF BuiltIn
<1> HIDE DEF t
<1>4. CASE p.name = "required_if"
  <2>1. PropertyDefs(t)[p.name] = "condition"
    BY <1>1, <1>4, GenericAre
  <2>2. Taken(chain, field, p) <=> p.value.k = "condition" /\ cond
    BY ONLY <1>4, TakenIs
  <2> HIDE DEF cond
  <2> QED
    BY <1>1, <2>1, <2>2 DEF Suits, t, cond
<1>5. CASE p.name # "required_if"
  <2>1. /\ PropertyDefs(t)[p.name] = GenericProps[p.name]
        /\ GenericProps[p.name] # "condition" /\ GenericProps[p.name] # "range"
    BY <1>1, <1>5, GenericAre DEF GenericNames
  <2>2. Suits(t, p.name, p.value, cond) <=> LiteralMatches(t, p.name, p.value)
    BY ONLY <1>1, <2>1 DEF Suits
  <2> SUFFICES Taken(chain, field, p) <=> LiteralMatches(t, p.name, p.value)
    BY <2>2 DEF t
  <2>3. CASE p.name = "default"
    <3>1. LiteralMatches(t, p.name, p.value) <=>
            /\ p.value.k = "literal" /\ p.value.type = OwnLiteral(t)
            /\ t = "enum" => IsMember(p.value)
            /\ t = "ipv4" => IsAddress(p.value)
      BY <2>1, <2>3, GenericAre DEF LiteralMatches, WellFormatted
    <3>2. Taken(chain, field, p) <=>
            ~field.arr /\ IsLiteral(p.value, p.value.type) /\ Denotes(field.type, p.value)
      BY ONLY <2>3, TakenIs
    <3>3. CASE t \in {"paths", "array", "schema", "void"}
      <4>1. field.arr \/ field.type \notin {"int", "float", "bool", "string", "path", "ipv4", "enum"}
        BY <1>2, <3>3 DEF BuiltIn
      <4>2. ~Taken(chain, field, p)
        BY ONLY <3>2, <4>1, DenotesIs
      <4>3. OwnLiteral(t) = "none"
        BY ONLY <3>3, OwnLit
      <4> QED
        BY <3>1, <4>2, <4>3 DEF LiteralTypes
    <3>4. CASE t \notin {"paths", "array", "schema", "void"}
      <4>1. ~field.arr /\ field.type = t /\ t \in {"int", "float", "bool", "string", "path", "ipv4", "enum"}
        BY <1>2, <3>4 DEF BuiltIn
      <4>2. Taken(chain, field, p) <=> p.value.k = "literal" /\ Denotes(t, p.value)
        BY ONLY <3>2, <4>1 DEF IsLiteral
      <4> QED
        BY <3>1, <4>1, <4>2, DenotesIs, OwnLit DEF IsMember, IsAddress
    <3> QED
      BY <3>3, <3>4
  <2>4. CASE p.name # "default"
    <3>1. LiteralMatches(t, p.name, p.value) <=>
            /\ p.value.k = "literal" /\ p.value.type = GenericProps[p.name]
            /\ t = "enum" => IsMember(p.value)
            /\ t # "enum" /\ p.name = "env" => IsVariable(p.value)
      BY <1>5, <2>1, <2>4, GenericAre DEF LiteralMatches, WellFormatted, GenericNames
    <3>2. Taken(chain, field, p) <=>
            /\ p.value.k = "literal" /\ p.value.type = GenericProps[p.name]
            /\ t # "enum"
            /\ p.name = "env" => p.value.value = "name"
      BY <1>3, <1>5, <2>4, TakenIs, GenericAre DEF GenericNames, IsLiteral
    <3>3. GenericProps[p.name] # "identifier"
      BY <1>5, <2>4, GenericAre DEF GenericNames
    <3> QED
      BY ONLY <3>1, <3>2, <3>3 DEF IsMember, IsVariable
  <2> QED
    BY <2>3, <2>4
<1> QED
  BY <1>4, <1>5

LEMMA TakenSpecial ==
  ASSUME NEW chain, NEW field, field.k = "field", NEW p, p.name \in SpecialNames
  PROVE  Taken(chain, field, p)
           <=> Suits(TextType(field), p.name, p.value, Comparable(chain, p.value.left, p.value.right))
<1> DEFINE t == TextType(field)
           cond == Comparable(chain, p.value.left, p.value.right)
<1>1. /\ p.name \in DOMAIN PropertyDefs(t) <=> p.name \in Special(t)
      /\ p.name \in Special(t) => SpecialDef(p.name, PropertyDefs(t)[p.name])
  <2>1. p.name \notin DOMAIN GenericProps
    BY GenericAre DEF SpecialNames
  <2> QED
    BY <2>1, DefsAre
<1>2. /\ t = "int" <=> ~field.arr /\ field.type = "int"
      /\ t = "float" <=> ~field.arr /\ field.type = "float"
      /\ t = "string" <=> ~field.arr /\ field.type = "string"
      /\ t = "path" <=> ~field.arr /\ field.type = "path"
      /\ t = "paths" <=> field.arr /\ field.type = "path"
      /\ t = "array" <=> field.arr /\ field.type # "path"
  BY TextTypeIs DEF BuiltIn
<1> HIDE DEF t, cond
<1>a. Suits(t, p.name, p.value, cond) => p.name \in Special(t)
  BY <1>1 DEF Suits
<1> SUFFICES Taken(chain, field, p) <=> Suits(t, p.name, p.value, cond)
  BY DEF t, cond
<1>3. CASE p.name = "range"
  <2>1. p.name \in Special(t) <=> t \in {"int", "float"}
    BY <1>3 DEF Special
  <2>2. p.name \in Special(t) => (Suits(t, p.name, p.value, cond) <=> RangeMatches(t, p.value))
    BY <1>1, <1>3 DEF Suits, SpecialDef
  <2>3. Taken(chain, field, p) <=>
              /\ ~field.arr /\ field.type \in {"int", "float"} /\ p.value.k = "range"
              /\ Denotes(field.type, p.value.min) /\ Denotes(field.type, p.value.max)
              /\ p.value.min.value <= p.value.max.value
    BY ONLY <1>3, TakenIs
  <2>4. CASE t \in {"int", "float"}
    <3>1. field.type = t /\ ~field.arr
      BY <1>2, <2>4
    <3>2. /\ Denotes(t, p.value.min) <=> p.value.min.type = t
          /\ Denotes(t, p.value.max) <=> p.value.max.type = t
      BY ONLY <2>4, DenotesIs
    <3>3. OwnLiteral(t) = t
      BY ONLY <2>4, OwnLit
    <3> QED
      BY <2>1, <2>2, <2>3, <2>4, <3>1, <3>2, <3>3 DEF RangeMatches
  <2>5. CASE t \notin {"int", "float"}
    BY <1>2, <1>a, <2>1, <2>3, <2>5
  <2> QED
    BY <2>4, <2>5
<1>4. CASE p.name \in {"min", "max"}
  <2>1. p.name \in Special(t) <=> t \in {"int", "float"}
    BY <1>4 DEF Special
  <2>2. p.name \in Special(t) => (Suits(t, p.name, p.value, cond) <=> p.value.k = "literal" /\ p.value.type = OwnLiteral(t))
    BY <1>1, <1>4, <2>1 DEF Suits, SpecialDef, LiteralMatches, WellFormatted
  <2>3. Taken(chain, field, p) <=>
              ~field.arr /\ field.type \in {"int", "float"} /\ p.value.k = "literal" /\ p.value.type = field.type
    BY ONLY <1>4, TakenIs DEF IsLiteral
  <2>4. t \in {"int", "float"} => OwnLiteral(t) = t
    BY OwnLit
  <2> QED
    BY <1>2, <1>a, <2>1, <2>2, <2>3, <2>4
<1>5. CASE p.name \in {"min_length", "max_length"}
  <2>1. p.name \in Special(t) <=> t \in {"string", "array", "paths"}
    BY <1>5 DEF Special
  <2>2. p.name \in Special(t) =>
          (Suits(t, p.name, p.value, cond) <=> p.value.k = "literal" /\ p.value.type = "int" /\ p.value.value >= 0)
    BY <1>1, <1>5, <2>1 DEF Suits, SpecialDef, LiteralMatches, WellFormatted
  <2>3. Taken(chain, field, p) <=>
          (field.arr \/ field.type = "string") /\ p.value.k = "literal" /\ p.value.type = "int" /\ p.value.value >= 0
    BY ONLY <1>5, TakenIs DEF IsLiteral, IsLength
  <2> QED
    BY <1>2, <1>a, <2>1, <2>2, <2>3
<1>6. CASE p.name = "pattern"
  <2>1. p.name \in Special(t) <=> t = "string"
    BY <1>6 DEF Special
  <2>2. p.name \in Special(t) => (Suits(t, p.name, p.value, cond) <=> p.value.k = "literal" /\ p.value.type = "string")
    BY <1>1, <1>6, <2>1 DEF Suits, SpecialDef, LiteralMatches, WellFormatted
  <2>3. Taken(chain, field, p) <=>
          ~field.arr /\ field.type = "string" /\ p.value.k = "literal" /\ p.value.type = "string"
    BY ONLY <1>6, TakenIs DEF IsLiteral
  <2> QED
    BY <1>2, <1>a, <2>1, <2>2, <2>3
<1>7. CASE p.name = "exists"
  <2>1. p.name \in Special(t) <=> t \in {"path", "paths"}
    BY <1>7 DEF Special
  <2>2. p.name \in Special(t) => (Suits(t, p.name, p.value, cond) <=> p.value.k = "literal" /\ p.value.type = "bool")
    BY <1>1, <1>7, <2>1 DEF Suits, SpecialDef, LiteralMatches, WellFormatted
  <2>3. Taken(chain, field, p) <=> field.type = "path" /\ p.value.k = "literal" /\ p.value.type = "bool"
    BY ONLY <1>7, TakenIs DEF IsLiteral
  <2> QED
    BY <1>2, <1>a, <2>1, <2>2, <2>3
<1> QED
  BY <1>3, <1>4, <1>5, <1>6, <1>7 DEF SpecialNames

LEMMA TakenIsSuits ==
  ASSUME NEW chain, NEW field, field.k = "field", NEW p,
         p.value.k = "literal" => p.value.type \in LiteralTypes
  PROVE  Taken(chain, field, p)
           <=> Suits(TextType(field), p.name, p.value, Comparable(chain, p.value.left, p.value.right))
<1>1. CASE p.name \notin GenericNames \cup SpecialNames
  <2>1. ~Taken(chain, field, p)
    BY ONLY <1>1, TakenIs DEF GenericNames, SpecialNames
  <2>2. p.name \notin DOMAIN GenericProps /\ p.name \notin Special(TextType(field))
    BY <1>1, GenericAre DEF GenericNames, SpecialNames, Special
  <2>3. p.name \notin DOMAIN PropertyDefs(TextType(field))
    BY <2>2, DefsAre
  <2> QED
    BY <2>1, <2>3 DEF Suits
<1> QED
  BY <1>1, TakenGeneric, TakenSpecial
-----------------------------------------------------------------------------
(* The chains of scopes *)

\* A sequence of scopes, each a section of the one before.
Descends(c, n) ==
  /\ Len(c) = n /\ DOMAIN c = 1..n
  /\ \A k \in 1..(n - 1) : c[k + 1] \in Sub(c[k])

\* Its scopes lie ever deeper, so there are not more of them than levels.
LEMMA DescendsDown ==
  ASSUME NEW items, Shallow(items), NEW n \in Nat \ {0}, NEW c, Descends(c, n), c[1] = items
  PROVE  n \in 1..(Nesting + 1) /\ \A k \in 1..n : c[k] \in Parts(items)
<1>0. Nesting \in Nat
  BY SchemaOrderAssumption
<1> DEFINE T == {k \in Nat : k + 1 \in 1..n /\ k \in 0..Nesting => c[k + 1] \in Level(items)[k]}
<1>1. 0 \in T
  BY LevelIs
<1>2. ASSUME NEW k \in Nat, k \in T PROVE k + 1 \in T
  <2> SUFFICES ASSUME (k + 1) + 1 \in 1..n, k + 1 \in 0..Nesting PROVE c[(k + 1) + 1] \in Level(items)[k + 1]
    OBVIOUS
  <2>1. /\ k + 1 \in 1..n /\ k \in 0..Nesting /\ k + 1 \in 1..(n - 1)
        /\ k + 1 # 0 /\ (k + 1) - 1 = k
    BY <1>0
  <2>2. c[k + 1] \in Level(items)[k] /\ c[(k + 1) + 1] \in Sub(c[k + 1])
    BY <1>2, <2>1 DEF Descends
  <2>3. Level(items)[k + 1] = UNION {Sub(l) : l \in Level(items)[k]}
    BY <2>1, LevelIs
  <2> QED
    BY <2>2, <2>3
<1> HIDE DEF T
<1>3. \A k \in Nat : k + 1 \in 1..n /\ k \in 0..Nesting => c[k + 1] \in Level(items)[k]
  <2>1. Nat \subseteq T
    BY <1>1, <1>2, SetInduction
  <2> QED
    BY <2>1 DEF T
<1>4. n <= Nesting + 1
  <2> SUFFICES ASSUME n > Nesting + 1 PROVE FALSE
    BY <1>0
  <2>1. Nesting + 1 \in 1..n /\ Nesting \in 0..Nesting /\ Nesting + 1 \in 1..(n - 1)
    BY <1>0
  <2>2. c[Nesting + 1] \in Level(items)[Nesting]
    BY <1>0, <1>3, <2>1
  <2>3. c[(Nesting + 1) + 1] \in Sub(c[Nesting + 1])
    BY <2>1 DEF Descends
  <2> QED
    BY <2>2, <2>3 DEF Shallow
<1>5. ASSUME NEW k \in 1..n PROVE c[k] \in Parts(items)
  <2> DEFINE j == k - 1
  <2>1. j \in Nat /\ j + 1 = k /\ j \in 0..Nesting
    BY <1>0, <1>4
  <2> HIDE DEF j
  <2>2. c[j + 1] \in Level(items)[j]
    BY <1>3, <2>1
  <2> QED
    BY <2>1, <2>2 DEF Parts
<1> QED
  BY <1>0, <1>4, <1>5

LEMMA SameRange ==
  ASSUME NEW l \in Nat, NEW n \in Nat, 1..l = 1..n
  PROVE  l = n
<1>1. l # 0 => l \in 1..n
  OBVIOUS
<1>2. n # 0 => n \in 1..l
  OBVIOUS
<1> QED
  BY ONLY <1>1, <1>2, l \in Nat, n \in Nat

\* The chains are these sequences.
LEMMA ChainsAre ==
  ASSUME NEW items, NEW c, c \in Chains(items)
  PROVE  /\ Len(c) \in 1..(Nesting + 1) /\ Len(c) \in Nat \ {0}
         /\ Descends(c, Len(c)) /\ c[1] = items
         /\ c = [k \in 1..Len(c) |-> c[k]]
         /\ \A k \in 1..Len(c) : c[k] \in Parts(items)
<1>0. Nesting \in Nat
  BY SchemaOrderAssumption
<1>1. PICK n \in 1..(Nesting + 1) : c \in [1..n -> Parts(items)]
  BY DEF Chains
<1>2. c[1] = items /\ \A k \in 1..(Len(c) - 1) : c[k + 1] \in Sub(c[k])
  BY DEF Chains
<1>3. n \in Nat /\ n # 0
  BY <1>0
<1>4. Len(c) = n /\ DOMAIN c = 1..n
  <2>1. c \in Seq(Parts(items))
    BY ONLY <1>1, <1>3
  <2>2. Len(c) \in Nat /\ DOMAIN c = 1..Len(c) /\ DOMAIN c = 1..n
    BY <1>1, <2>1
  <2>3. Len(c) = n
    <3>1. PICK l \in Nat : l = Len(c) /\ 1..l = 1..n
      BY ONLY <2>2
    <3> QED
      BY ONLY <1>3, <3>1, SameRange
  <2> QED
    BY ONLY <2>2, <2>3
<1> QED
  BY <1>1, <1>2, <1>3, <1>4 DEF Descends

LEMMA ChainsHold ==
  ASSUME NEW items, Shallow(items), NEW n \in Nat \ {0}, NEW c, c = [k \in 1..n |-> c[k]],
         c[1] = items, \A k \in 1..(n - 1) : c[k + 1] \in Sub(c[k])
  PROVE  c \in Chains(items) /\ Len(c) = n
<1>1. DOMAIN c = 1..n
  OBVIOUS
<1>2. Len(c) = n
  <2>1. c \in Seq({c[k] : k \in 1..n})
    OBVIOUS
  <2>2. Len(c) \in Nat /\ DOMAIN c = 1..Len(c)
    BY <2>1
  <2> QED
    BY ONLY <1>1, <2>2, n \in Nat \ {0}
<1>3. Descends(c, n)
  BY <1>1, <1>2 DEF Descends
<1>4. n \in 1..(Nesting + 1) /\ \A k \in 1..n : c[k] \in Parts(items)
  BY <1>3, DescendsDown
<1>5. c \in [1..n -> Parts(items)]
  BY <1>4
<1> QED
  BY <1>2, <1>4, <1>5 DEF Chains
-----------------------------------------------------------------------------
(* The chain of a frame *)

\* The b-th frame is the schema that the m-th lies in.
Based(fr, b, m) == b \in 1..m /\ fr[b].decl # 0 /\ \A j \in (b + 1)..m : fr[j].decl = 0

\* The scopes from that schema to that frame.
Chain(fr, b, m) == [j \in 1..((m - b) + 1) |-> fr[(b + j) - 1].items]

LEMMA BaseExists ==
  ASSUME NEW fr, fr # <<>>, Linked(fr), NEW m \in Nat, m # 0
  PROVE  \E b : Based(fr, b, m)
<1> DEFINE T == {k \in 0..(m - 1) : fr[m - k].decl # 0}
<1>1. m - 1 \in T
  BY DEF Linked
<1>2. PICK k \in T : \A l \in T : k <= l
  <2>1. \A l \in T : l \in Nat
    OBVIOUS
  <2> HIDE DEF T
  <2> QED
    BY <1>1, <2>1, NatMin
<1>3. m - k \in 1..m /\ fr[m - k].decl # 0 /\ k \in Nat
  OBVIOUS
<1>4. ASSUME NEW j \in ((m - k) + 1)..m PROVE fr[j].decl = 0
  <2>1. m - j \in 0..(m - 1) /\ m - (m - j) = j /\ ~(k <= m - j)
    BY <1>3
  <2> QED
    BY <1>2, <2>1
<1>5. Based(fr, m - k, m)
  BY <1>3, <1>4 DEF Based
<1> QED
  BY <1>5

LEMMA ChainIs ==
  ASSUME NEW fr, NEW m \in Nat, NEW b \in 1..m
  PROVE  LET c == Chain(fr, b, m)
             n == (m - b) + 1
         IN  /\ n \in Nat \ {0} /\ DOMAIN c = 1..n /\ c = [k \in 1..n |-> c[k]]
             /\ c[1] = fr[b].items /\ c[n] = fr[m].items
             /\ \A k \in 1..n : (b + k) - 1 \in b..m /\ c[k] = fr[(b + k) - 1].items
<1> DEFINE c == Chain(fr, b, m)
           n == (m - b) + 1
<1>1. n \in Nat \ {0} /\ 1 \in 1..n /\ n \in 1..n /\ (b + 1) - 1 = b /\ (b + n) - 1 = m
  OBVIOUS
<1>2. c = [j \in 1..n |-> fr[(b + j) - 1].items]
  BY DEF Chain
<1>a. \A k \in 1..n : (b + k) - 1 \in b..m
  OBVIOUS
<1> HIDE DEF c, n
<1>3. DOMAIN c = 1..n /\ \A k \in 1..n : c[k] = fr[(b + k) - 1].items
  BY <1>2
<1>4. c = [k \in 1..n |-> c[k]]
  BY <1>2
<1>5. c[1] = fr[b].items /\ c[n] = fr[m].items
  BY <1>1, <1>3
<1> QED
  BY <1>1, <1>a, <1>3, <1>4, <1>5 DEF c, n

\* It is a chain of the text, and only its last scope may still be filling.
LEMMA ChainOfFrame ==
  ASSUME IInv, TextInv, NEW m \in DOMAIN frames, NEW b, Based(frames, b, m)
  PROVE  /\ frames[b].decl \in DOMAIN program
         /\ Chain(frames, b, m) \in Chains(program[frames[b].decl].items)
         /\ Len(Chain(frames, b, m)) = (m - b) + 1
         /\ \A j \in b..(m - 1) : frames[j].pass = "check"
         /\ b \in DOMAIN frames /\ b \in 1..m /\ m \in Nat
         /\ Chain(frames, b, m)[(m - b) + 1] = frames[m].items
         /\ frames[m].items \in Parts(program[frames[b].decl].items)
         /\ \A k \in 1..((m - b) + 1) : Chain(frames, b, m)[k] = frames[(b + k) - 1].items
<1> DEFINE c == Chain(frames, b, m)
           n == (m - b) + 1
           d == frames[b].decl
<1>1. b \in 1..m /\ m \in Nat /\ b \in DOMAIN frames /\ \A j \in (b + 1)..m : frames[j].decl = 0
  BY StateIs DEF Based
<1>2. d \in DOMAIN program
  <2>1. d \in 0..Len(program) /\ d # 0
    BY <1>1 DEF IInv, FramesOK, FrameOK, Based
  <2> QED
    BY <2>1, StateIs
<1>3. frames[b].items = program[d].items
  <2>1. PICK own \in [DOMAIN frames -> DOMAIN program] : Owns(program, frames, own)
    BY DEF TextInv, Owned
  <2> QED
    BY <1>1, <2>1 DEF Owns, Based
<1>4. ASSUME NEW j \in b..(m - 1)
      PROVE  frames[j].pass = "check" /\ frames[j + 1].items \in Sub(frames[j].items)
  <2>1. j + 1 \in DOMAIN frames \ {1} /\ (j + 1) - 1 = j /\ j + 1 \in (b + 1)..m
    BY <1>1, StateIs
  <2>2. Link(frames[j], frames[j + 1]) /\ frames[j + 1].decl = 0
    BY <1>1, <2>1 DEF TextInv, Linked
  <2> QED
    BY <2>2, SubIs DEF Link, Gone
<1>5. /\ n \in Nat \ {0} /\ DOMAIN c = 1..n /\ c = [k \in 1..n |-> c[k]]
      /\ c[1] = frames[b].items /\ c[n] = frames[m].items
      /\ \A k \in 1..n : (b + k) - 1 \in b..m /\ c[k] = frames[(b + k) - 1].items
  BY ONLY <1>1, ChainIs
<1>6. ASSUME NEW k \in 1..(n - 1) PROVE c[k + 1] \in Sub(c[k])
  <2> DEFINE j == (b + k) - 1
  <2>1. j \in b..(m - 1) /\ k \in 1..n /\ k + 1 \in 1..n /\ (b + (k + 1)) - 1 = j + 1
    BY <1>1
  <2>2. c[k] = frames[j].items
    BY <1>5, <2>1
  <2>3. c[k + 1] = frames[j + 1].items
    BY <1>5, <2>1
  <2> HIDE DEF c, j
  <2> QED
    BY <1>4, <2>1, <2>2, <2>3
<1> HIDE DEF c, n, d
<1>7. Shallow(program[d].items)
  BY <1>2, SchemasAreShallow DEF IInv
<1>8. c \in Chains(program[d].items) /\ Len(c) = n
  BY <1>3, <1>5, <1>6, <1>7, ChainsHold
<1>9. c[n] \in Parts(program[d].items)
  <2>1. n \in 1..Len(c)
    BY <1>5, <1>8
  <2> QED
    BY <1>8, <2>1, ChainsAre
<1> QED
  BY <1>1, <1>2, <1>4, <1>5, <1>8, <1>9 DEF c, n, d
-----------------------------------------------------------------------------
(* What the scopes hold *)

\* The items whose names a frame has defined.
Handled(f) == {n \in DOMAIN f.items : f.pass = "check" \/ n < f.n}

\* As long as nothing is reported, a scope holds the names of those items, each
\* with the type of its item.
Filled(f, scope) ==
  /\ DOMAIN scope = {f.items[n].name : n \in Handled(f)}
  /\ \A n \in Handled(f) : scope[f.items[n].name].type = TextType(f.items[n])
  /\ \A l, n \in Handled(f) : f.items[l].name = f.items[n].name => l = n

FilledAll(fr, sc) == \A m \in DOMAIN fr : Filled(fr[m], sc[m + 1])

FilledInv == errors = <<>> => FilledAll(frames, scopes)

\* A new scope is empty.
LEMMA FilledPush ==
  ASSUME NEW fr, NEW sc, IsSeq(fr), IsSeq(sc), Len(sc) = Len(fr) + 1, FilledAll(fr, sc),
         NEW f, f.pass = "define", f.n = 1, DOMAIN f.items = 1..Len(f.items)
  PROVE  FilledAll(Append(fr, f), Append(sc, NoSymbols))
<1> DEFINE gr == Append(fr, f)
           tc == Append(sc, NoSymbols)
<1>1. /\ Len(fr) \in Nat /\ DOMAIN fr = 1..Len(fr) /\ DOMAIN gr = 1..(Len(fr) + 1)
      /\ \A m \in 1..Len(fr) : gr[m] = fr[m]
      /\ gr[Len(fr) + 1] = f
  BY AppendIs, SeqIs
<1>2. /\ \A m \in 1..Len(sc) : tc[m] = sc[m]
      /\ tc[Len(sc) + 1] = NoSymbols /\ DOMAIN NoSymbols = {}
  BY AppendIs DEF NoSymbols
<1> HIDE DEF gr, tc
<1>3. Handled(f) = {}
  BY DEF Handled
<1>4. Filled(f, NoSymbols)
  BY <1>2, <1>3 DEF Filled
<1>5. ASSUME NEW m \in DOMAIN gr PROVE Filled(gr[m], tc[m + 1])
  <2>1. CASE m \in 1..Len(fr)
    <3>1. m + 1 \in 1..Len(sc)
      BY <1>1, <2>1
    <3> QED
      BY <1>1, <1>2, <2>1, <3>1 DEF FilledAll
  <2>2. CASE m = Len(fr) + 1
    <3>1. m + 1 = Len(sc) + 1
      BY <2>2
    <3> QED
      BY <1>1, <1>2, <1>4, <2>2, <3>1
  <2> QED
    BY <1>1, <2>1, <2>2
<1> QED
  BY <1>5 DEF FilledAll, gr, tc

LEMMA FilledPop ==
  ASSUME NEW fr, NEW sc, IsSeq(fr), IsSeq(sc), Len(sc) = Len(fr) + 1, FilledAll(fr, sc), fr # <<>>
  PROVE  FilledAll(Front(fr), Front(sc))
<1>1. /\ Len(fr) \in Nat /\ DOMAIN fr = 1..Len(fr) /\ DOMAIN Front(fr) = 1..(Len(fr) - 1)
      /\ \A m \in 1..(Len(fr) - 1) : Front(fr)[m] = fr[m]
  BY FrontIs, SeqIs
<1>2. sc # <<>>
  BY <1>1, EmptyIs
<1>3. \A m \in 1..(Len(sc) - 1) : Front(sc)[m] = sc[m]
  BY <1>2, FrontIs
<1>4. \A m \in 1..(Len(fr) - 1) : m \in 1..Len(fr) /\ m + 1 \in 1..(Len(sc) - 1)
  BY <1>1
<1> QED
  BY <1>1, <1>3, <1>4 DEF FilledAll

\* The innermost frame moves; its scope may have grown.
LEMMA FilledMove ==
  ASSUME IInv, frames # <<>>, FilledAll(frames, scopes), NEW n, NEW pass, NEW tc,
         \A k \in 1..Len(scopes) : k # Len(scopes) => tc[k] = scopes[k],
         Filled([decl |-> Top.decl, items |-> Top.items, n |-> n, pass |-> pass], tc[Len(scopes)])
  PROVE  FilledAll(Moved(n, pass), tc)
<1> DEFINE f == [decl |-> Top.decl, items |-> Top.items, n |-> n, pass |-> pass]
<1>1. /\ DOMAIN Moved(n, pass) = DOMAIN frames
      /\ \A m \in DOMAIN frames : m # Len(frames) => Moved(n, pass)[m] = frames[m]
      /\ Moved(n, pass)[Len(frames)] = f
  BY MovedIs
<1>2. Filled(f, tc[Len(scopes)])
  OBVIOUS
<1> HIDE DEF f
<1> SUFFICES ASSUME NEW m \in DOMAIN frames PROVE Filled(Moved(n, pass)[m], tc[m + 1])
  BY <1>1 DEF FilledAll
<1>3. CASE m = Len(frames)
  <2>1. m + 1 = Len(scopes)
    BY <1>3, StateIs
  <2> QED
    BY <1>1, <1>2, <1>3, <2>1
<1>4. CASE m # Len(frames)
  <2>1. m + 1 \in 1..Len(scopes) /\ m + 1 # Len(scopes)
    BY <1>4, StateIs
  <2> QED
    BY <1>1, <1>4, <2>1 DEF FilledAll
<1> QED
  BY <1>3, <1>4

\* The scope of the innermost frame.
LEMMA TopFilled ==
  ASSUME IInv, frames # <<>>, FilledAll(frames, scopes)
  PROVE  Filled(Top, Scope)
<1>1. Len(frames) \in DOMAIN frames /\ Len(frames) + 1 = Len(scopes)
  BY StateIs
<1> QED
  BY <1>1 DEF FilledAll, Top, Scope

\* The next item is defined.
LEMMA FilledNext ==
  ASSUME NEW f, NEW scope, Filled(f, scope), f.n \in DOMAIN f.items, DOMAIN f.items \subseteq Nat,
         f.pass = "define", NEW g, g.items = f.items, g.n = f.n + 1, g.pass = f.pass,
         NEW more, f.items[f.n].name \notin DOMAIN scope,
         DOMAIN more = DOMAIN scope \cup {f.items[f.n].name},
         \A y \in DOMAIN scope : more[y] = scope[y],
         more[f.items[f.n].name].type = TextType(f.items[f.n])
  PROVE  Filled(g, more)
<1>1. Handled(g) = Handled(f) \cup {f.n}
  BY DEF Handled
<1>2. \A n \in Handled(f) : f.items[n].name \in DOMAIN scope
  BY DEF Filled
<1>3. DOMAIN more = {g.items[n].name : n \in Handled(g)}
  BY <1>1 DEF Filled
<1>4. \A n \in Handled(g) : more[g.items[n].name].type = TextType(g.items[n])
  BY <1>1, <1>2 DEF Filled
<1>5. \A l, n \in Handled(g) : g.items[l].name = g.items[n].name => l = n
  BY <1>1, <1>2 DEF Filled
<1> QED
  BY <1>3, <1>4, <1>5 DEF Filled

LEMMA EnterFilled ==
  ASSUME IInv, FilledAll(frames, scopes), NEW d \in DOMAIN program, Enter(d)
  PROVE  FilledAll(frames', scopes')
<1> DEFINE f == Frame(d, program[d].items)
<1>1. frames' = Append(frames, f) /\ scopes' = Append(scopes, NoSymbols)
  BY DEF Enter
<1>2. f.items = program[d].items /\ f.n = 1 /\ f.pass = "define"
  BY DEF Frame
<1> HIDE DEF f
<1>3. DOMAIN f.items = 1..Len(f.items)
  BY <1>2, PartsHoldItems, PartIsSeq DEF IInv
<1> QED
  BY <1>1, <1>2, <1>3, StateIs, FilledPush

\* What DefineField and DefineSection define.
LEMMA DefinedTypeIs ==
  ASSUME IInv, TextInv, errors' = <<>>, DefineField \/ DefineSection
  PROVE  \E symbol, reported :
           /\ ErrorsOK(reported) /\ Define(Item.name, symbol, reported)
           /\ symbol.type = TextType(Item)
<1>1. CASE DefineSection
  <2>1. Define(Item.name, Symbol("section", 0), <<>>) /\ Item.k = "section"
    BY <1>1 DEF DefineSection, Defining
  <2>2. Symbol("section", 0).type = TextType(Item)
    BY <2>1 DEF Symbol, TextType
  <2> QED
    BY <2>1, <2>2, NoError
<1>2. CASE DefineField
  <2>1. Define(Item.name, Symbol(FieldType(Item), 0), TypeErrors(Item.type)) /\ Item.k = "field"
    BY <1>2 DEF DefineField, Defining
  <2>2. TypeErrors(Item.type) = <<>>
    BY <2>1, TypeErrorsAre, DefineIs
  <2>3. Item.type \in BuiltIn \/ IsSchema(Item.type)
    BY <2>2, TypeErrorsAre
  <2>4. FieldType(Item) = TextType(Item)
    BY <2>1, <2>3 DEF FieldType, TextType
  <2>5. Symbol(FieldType(Item), 0).type = TextType(Item)
    BY <2>4 DEF Symbol
  <2> QED
    BY <2>1, <2>5, TypeErrorsAre
<1> QED
  BY <1>1, <1>2

LEMMA DefineFilled == IInv /\ TextInv /\ FilledInv /\ (DefineField \/ DefineSection) => FilledInv'
<1> SUFFICES ASSUME IInv, TextInv, FilledInv, DefineField \/ DefineSection, errors' = <<>>
             PROVE  FilledAll(frames', scopes')
  BY DEF FilledInv
<1>1. frames # <<>> /\ More /\ Top.pass = "define" /\ frames' = Moved(Top.n + 1, Top.pass)
  BY AdvancedMoved DEF DefineField, DefineSection, Defining
<1>2. PICK symbol, reported : /\ ErrorsOK(reported) /\ Define(Item.name, symbol, reported)
                              /\ symbol.type = TextType(Item)
  BY DefinedTypeIs
<1>3. /\ \A k \in 1..Len(scopes) : k # Len(scopes) => scopes'[k] = scopes[k]
      /\ DOMAIN scopes'[Len(scopes)] = DOMAIN Scope \cup {Item.name}
      /\ \A y \in DOMAIN Scope : scopes'[Len(scopes)][y] = Scope[y]
      /\ Item.name \notin DOMAIN Scope
      /\ scopes'[Len(scopes)][Item.name] = symbol
      /\ errors = <<>>
  BY <1>2, DefineIs
<1>4. FilledAll(frames, scopes)
  BY <1>3 DEF FilledInv
<1>5. Filled(Top, Scope) /\ Top.n \in DOMAIN Top.items /\ DOMAIN Top.items \subseteq Nat
  BY <1>1, <1>4, TopFilled, TopIs
<1> DEFINE g == [decl |-> Top.decl, items |-> Top.items, n |-> Top.n + 1, pass |-> Top.pass]
           more == scopes'[Len(scopes)]
<1>6. g.items = Top.items /\ g.n = Top.n + 1 /\ g.pass = Top.pass
  OBVIOUS
<1>7. /\ DOMAIN more = DOMAIN Scope \cup {Item.name} /\ more[Item.name].type = TextType(Item)
      /\ \A y \in DOMAIN Scope : more[y] = Scope[y]
      /\ Item = Top.items[Top.n]
  BY <1>2, <1>3 DEF Item
<1> HIDE DEF g, more
<1>8. Filled(g, more)
  <2>1. /\ Top.items[Top.n].name \notin DOMAIN Scope
        /\ DOMAIN more = DOMAIN Scope \cup {Top.items[Top.n].name}
        /\ more[Top.items[Top.n].name].type = TextType(Top.items[Top.n])
    BY <1>3, <1>7
  <2> QED
    BY ONLY <1>1, <1>5, <1>6, <1>7, <2>1, FilledNext
<1> QED
  BY <1>1, <1>3, <1>4, <1>8, FilledMove DEF g, more

LEMMA EndDefineFilled == IInv /\ TextInv /\ FilledInv /\ EndDefine => FilledInv'
<1> SUFFICES ASSUME IInv, TextInv, FilledInv, EndDefine, errors' = <<>>
             PROVE  FilledAll(frames', scopes')
  BY DEF FilledInv
<1>1. frames # <<>> /\ frames' = Moved(1, "check") /\ ~More /\ UNCHANGED <<errors, scopes>>
  BY EndDefineMoved DEF EndDefine
<1>2. FilledAll(frames, scopes)
  BY <1>1 DEF FilledInv
<1>3. Filled(Top, Scope)
  BY <1>1, <1>2, TopFilled
<1> DEFINE g == [decl |-> Top.decl, items |-> Top.items, n |-> 1, pass |-> "check"]
<1>4. g.items = Top.items /\ g.pass = "check"
  OBVIOUS
<1> HIDE DEF g
<1>5. Top.n = Len(Top.items) + 1 /\ Len(Top.items) \in Nat /\ DOMAIN Top.items = 1..Len(Top.items)
  BY <1>1, TopIs
<1>6. Handled(g) = Handled(Top)
  BY <1>4, <1>5 DEF Handled
<1>7. Filled(g, Scope)
  BY <1>3, <1>4, <1>6 DEF Filled
<1> QED
  BY <1>1, <1>2, <1>7, FilledMove DEF g, Scope

\* In the second pass a frame has handled all items.
LEMMA CheckMoveFilled ==
  ASSUME IInv, FilledAll(frames, scopes), frames # <<>>, Top.pass = "check", NEW n
  PROVE  FilledAll(Moved(n, Top.pass), scopes)
<1> DEFINE g == [decl |-> Top.decl, items |-> Top.items, n |-> n, pass |-> Top.pass]
<1>1. g.items = Top.items /\ g.pass = Top.pass
  OBVIOUS
<1> HIDE DEF g
<1>2. Handled(g) = Handled(Top)
  BY <1>1 DEF Handled
<1>3. Filled(g, Scope)
  BY <1>1, <1>2, TopFilled DEF Filled
<1> QED
  BY <1>3, FilledMove DEF g, Scope

LEMMA CheckSectionFilled == IInv /\ TextInv /\ FilledInv /\ CheckSection => FilledInv'
<1> SUFFICES ASSUME IInv, TextInv, FilledInv, CheckSection, errors' = <<>>
             PROVE  FilledAll(frames', scopes')
  BY DEF FilledInv
<1> DEFINE f == Frame(0, Item.items)
           gr == Moved(Top.n + 1, Top.pass)
<1>1. /\ frames # <<>> /\ More /\ Item.k = "section" /\ Top.pass = "check" /\ UNCHANGED errors
      /\ scopes' = Append(scopes, NoSymbols) /\ frames' = Append(gr, f)
  BY AdvancedMoved DEF CheckSection, Checking
<1>2. f.items = Item.items /\ f.n = 1 /\ f.pass = "define"
  BY DEF Frame
<1>3. FilledAll(gr, scopes)
  BY <1>1, CheckMoveFilled DEF FilledInv
<1>4. IsSeq(gr) /\ Len(gr) = Len(frames)
  BY <1>1, MovedIs
<1> HIDE DEF f, gr
<1>5. DOMAIN f.items = 1..Len(f.items)
  <2>1. Shallow(Top.items) /\ Top.n \in DOMAIN Top.items
    BY <1>1, TopIs
  <2>2. f.items \in Sub(Top.items)
    BY <1>1, <1>2, <2>1, SubIs DEF Item
  <2>3. Shallow(f.items) /\ f.items \in Parts(f.items)
    BY <2>1, <2>2, SectionsAreShallow, PartsHoldItems
  <2> QED
    BY <2>3 DEF Shallow
<1> QED
  BY <1>1, <1>2, <1>3, <1>4, <1>5, StateIs, FilledPush

LEMMA StepKeepsFilled == IInv /\ PassInv /\ TextInv /\ FilledInv /\ [Next]_vars => FilledInv'
<1> SUFFICES ASSUME IInv, PassInv, TextInv, FilledInv, [Next]_vars PROVE FilledInv'
  OBVIOUS
<1>1. CASE UNCHANGED vars
  BY <1>1 DEF vars, FilledInv
<1>2. CASE Declare \/ Declared \/ Finish
  <2>1. frames = <<>> /\ frames' = frames
    BY <1>2 DEF Declare, Declared, Finish, PassInv
  <2> QED
    BY <2>1, EmptyIs DEF FilledInv, FilledAll
<1>3. CASE StartSchema
  <2>1. at \in DOMAIN program /\ UNCHANGED errors /\ (Enter(at) \/ UNCHANGED <<scopes, frames>>)
    BY <1>3, StateIs DEF StartSchema, IInv, CountersOK
  <2> QED
    BY <2>1, EnterFilled DEF FilledInv
<1>4. CASE Descend
  <2> DEFINE d == Lookup(Item.type).decl
  <2>1. IsSchema(Item.type) /\ Enter(d) /\ UNCHANGED errors
    BY <1>4 DEF Descend, Unresolved
  <2>2. d \in DOMAIN program
    BY <2>1, SchemaFound, StateIs
  <2> HIDE DEF d
  <2> QED
    BY <2>1, <2>2, EnterFilled DEF FilledInv
<1>5. CASE CheckProperty
  <2>1. errors' = <<>> => errors = <<>>
    BY <1>5, ReportsGrow DEF Next
  <2>2. UNCHANGED <<frames, scopes>>
    BY <1>5 DEF CheckProperty
  <2> QED
    BY <2>1, <2>2 DEF FilledInv
<1>6. CASE CheckField
  <2>1. /\ frames # <<>> /\ Top.pass = "check" /\ UNCHANGED <<errors, scopes>>
        /\ frames' = Moved(Top.n + 1, Top.pass)
    BY <1>6, AdvancedMoved DEF CheckField, Checking
  <2> QED
    BY <2>1, CheckMoveFilled DEF FilledInv
<1>7. CASE Leave
  <2>1. frames # <<>> /\ UNCHANGED errors /\ frames' = Front(frames) /\ scopes' = Front(scopes)
    BY <1>7 DEF Leave, Finished
  <2> QED
    BY <2>1, StateIs, FilledPop DEF FilledInv
<1> QED
  BY <1>1, <1>2, <1>3, <1>4, <1>5, <1>6, <1>7, DefineFilled, EndDefineFilled, CheckSectionFilled
     DEF Next
-----------------------------------------------------------------------------
(* The global scope, and programs written bottom-up *)

\* The symbols of the global scope are those of schemas.
GlobalInv == \A x \in DOMAIN scopes[1] : scopes[1][x].type = "schema"

LEMMA StepKeepsGlobal == IInv /\ PassInv /\ GlobalInv /\ [Next]_vars => GlobalInv'
<1> SUFFICES ASSUME IInv, PassInv, GlobalInv, [Next]_vars PROVE GlobalInv'
  OBVIOUS
<1>1. CASE Declare
  <2> DEFINE x == program[at].name
  <2>1. Define(x, Symbol("schema", at), <<>>) /\ frames = <<>> /\ Len(scopes) = 1
    BY <1>1, StateIs, EmptyIs DEF Declare, PassInv
  <2>2. /\ DOMAIN scopes'[1] = DOMAIN scopes[1] \cup {x}
        /\ \A y \in DOMAIN scopes[1] : scopes'[1][y] = scopes[1][y]
        /\ x \notin DOMAIN scopes[1] => scopes'[1][x] = Symbol("schema", at)
    BY <2>1, DefineIs, NoError DEF Scope
  <2>3. Symbol("schema", at).type = "schema"
    BY DEF Symbol
  <2> HIDE DEF x
  <2> QED
    BY <2>2, <2>3 DEF GlobalInv
<1>2. CASE DefineField \/ DefineSection
  <2>1. PICK type, reported : ErrorsOK(reported) /\ Define(Item.name, Symbol(type, 0), reported)
    <3>1. CASE DefineField
      BY <3>1, TypeErrorsAre DEF DefineField
    <3>2. CASE DefineSection
      BY <3>2, NoError DEF DefineSection
    <3> QED
      BY <1>2, <3>1, <3>2
  <2>2. frames # <<>>
    BY <1>2 DEF DefineField, DefineSection, Defining
  <2>3. 1 \in 1..Len(scopes) /\ Len(scopes) # 1
    BY <2>2, StateIs
  <2>4. scopes'[1] = scopes[1]
    BY <2>1, <2>3, DefineIs
  <2> QED
    BY <2>4 DEF GlobalInv
<1>3. ASSUME scopes' = Append(scopes, NoSymbols) PROVE GlobalInv'
  <2>1. scopes'[1] = scopes[1]
    BY <1>3, StateIs, AppendIs
  <2> QED
    BY <2>1 DEF GlobalInv
<1>4. CASE Leave
  <2>1. frames # <<>> /\ scopes' = Front(scopes)
    BY <1>4 DEF Leave, Finished
  <2>2. 1 \in 1..(Len(scopes) - 1)
    BY <2>1, StateIs
  <2>3. scopes'[1] = scopes[1]
    BY <2>1, <2>2, StateIs, FrontIs
  <2> QED
    BY <2>3 DEF GlobalInv
<1>5. ASSUME scopes' = scopes PROVE GlobalInv'
  BY <1>5 DEF GlobalInv
<1>6. CASE StartSchema \/ Descend \/ CheckSection
  BY <1>3, <1>5, <1>6 DEF StartSchema, Descend, CheckSection, Enter
<1>7. CASE Declared \/ Finish \/ EndDefine \/ CheckProperty \/ CheckField \/ UNCHANGED vars
  BY <1>5, <1>7 DEF Declared, Finish, EndDefine, CheckProperty, CheckField, vars
<1> QED
  BY <1>1, <1>2, <1>4, <1>6, <1>7 DEF Next

\* Written bottom-up, no schema is entered inside another.
BottomInv ==
  BottomUp(program) =>
    /\ \A m \in DOMAIN frames \ {1} : frames[m].decl = 0
    /\ frames # <<>> => frames[1].decl = at - 1

LEMMA OneBase ==
  ASSUME IInv, TextInv, BottomInv, BottomUp(program), NEW m \in DOMAIN frames
  PROVE  Based(frames, 1, m) /\ frames[1].decl = at - 1
<1>1. frames # <<>> /\ 1 \in 1..m /\ \A j \in 2..m : j \in DOMAIN frames \ {1}
  BY StateIs, EmptyIs
<1>2. frames[1].decl # 0
  BY <1>1 DEF TextInv, Linked
<1>3. 1 + 1 = 2
  OBVIOUS
<1> QED
  BY <1>1, <1>2, <1>3 DEF Based, BottomInv

LEMMA NoDescent ==
  ASSUME IInv, PassInv, BodiesInv, TextInv, BottomInv, BottomUp(program)
  PROVE  ~Descend
<1> SUFFICES ASSUME Descend PROVE FALSE
  OBVIOUS
<1> DEFINE x == Item.type
           e == Lookup(x).decl
           d == frames[1].decl
<1>1. /\ frames # <<>> /\ More /\ Item.k = "field"
      /\ IsSchema(x) /\ x \notin resolved /\ ~Resolving(x) /\ x \notin BuiltIn
  BY DEF Descend, Defining, Unresolved, IsSchema
<1>2. e \in DOMAIN program /\ program[e].name = x
  BY <1>1, SchemaFound, StateIs
<1>3. Top = frames[Len(frames)] /\ Len(frames) \in DOMAIN frames /\ Top.n \in DOMAIN Top.items
  BY <1>1, TopIs
<1>4. Based(frames, 1, Len(frames)) /\ d = at - 1
  BY <1>3, OneBase
<1>5. /\ d \in DOMAIN program
      /\ Chain(frames, 1, Len(frames)) \in Chains(program[d].items)
      /\ Len(Chain(frames, 1, Len(frames))) = (Len(frames) - 1) + 1
      /\ Len(frames) \in Nat /\ 1 \in 1..Len(frames)
  BY <1>3, <1>4, ChainOfFrame
<1>6. Top.items \in Parts(program[d].items)
  BY <1>3, <1>4, ChainOfFrame
<1>7. x \in Mentions(program[d].items)
  BY <1>1, <1>3, <1>6, MentionsIs DEF Item
<1> HIDE DEF x, e, d
<1>8. e < d
  BY <1>2, <1>5, <1>7 DEF BottomUp
<1>9. e \in 1..(at - 1) /\ pc # "declare"
  <2>1. pc = "check" /\ at \in Nat /\ e \in Nat /\ e # 0
    BY <1>1, <1>2, InsideIs, StateIs DEF IInv, CountersOK
  <2> QED
    BY <1>4, <1>8, <2>1
<1>10. Entered(resolving_stack, resolved, x)
  BY <1>2, <1>9 DEF BodiesInv
<1> QED
  BY <1>1, <1>10 DEF Entered, Among, Resolving, x

LEMMA StepKeepsBottom == IInv /\ PassInv /\ BodiesInv /\ TextInv /\ BottomInv /\ [Next]_vars => BottomInv'
<1> SUFFICES ASSUME IInv, PassInv, BodiesInv, TextInv, BottomInv, [Next]_vars, BottomUp(program)'
             PROVE  /\ \A m \in DOMAIN frames' \ {1} : frames'[m].decl = 0
                    /\ frames' # <<>> => frames'[1].decl = at' - 1
  BY DEF BottomInv
<1>0. program' = program
  BY ReportsGrow DEF vars
<1>1. /\ \A m \in DOMAIN frames \ {1} : frames[m].decl = 0
      /\ frames # <<>> => frames[1].decl = at - 1
      /\ BottomUp(program)
  BY <1>0 DEF BottomInv, BottomUp
<1>2. CASE Declare \/ Declared \/ Finish
  <2>1. frames = <<>> /\ frames' = <<>>
    BY <1>2 DEF Declare, Declared, Finish, PassInv
  <2> QED
    BY <2>1, EmptyIs
<1>3. CASE StartSchema
  <2>1. frames = <<>> /\ at' = at + 1 /\ at \in Nat
    BY <1>3 DEF StartSchema, IInv, CountersOK
  <2>2. CASE Enter(at)
    <3> DEFINE f == Frame(at, program[at].items)
    <3>1. frames' = Append(frames, f) /\ f.decl = at
      BY <2>2 DEF Enter, Frame
    <3> HIDE DEF f
    <3>2. DOMAIN frames' = 1..1 /\ frames'[1] = f
      <4>1. IsSeq(frames) /\ Len(frames) = 0
        BY <2>1, EmptyIs
      <4>2. DOMAIN Append(frames, f) = 1..(Len(frames) + 1) /\ Append(frames, f)[Len(frames) + 1] = f
        BY <4>1, AppendIs
      <4> QED
        BY <3>1, <4>1, <4>2
    <3>3. f.decl = at' - 1
      BY <2>1, <3>1
    <3> QED
      BY <3>2, <3>3
  <2>3. CASE UNCHANGED frames
    BY <2>1, <2>3, EmptyIs
  <2> QED
    BY <1>3, <2>2, <2>3 DEF StartSchema
<1>4. CASE Descend
  BY <1>1, <1>4, NoDescent
<1>5. ASSUME NEW n, NEW pass, frames # <<>>
      PROVE  /\ DOMAIN Moved(n, pass) = DOMAIN frames
             /\ \A m \in DOMAIN frames : Moved(n, pass)[m].decl = frames[m].decl
  <2> DEFINE f == [decl |-> Top.decl, items |-> Top.items, n |-> n, pass |-> pass]
  <2>1. /\ DOMAIN Moved(n, pass) = DOMAIN frames
        /\ \A m \in DOMAIN frames : m # Len(frames) => Moved(n, pass)[m] = frames[m]
        /\ Moved(n, pass)[Len(frames)] = f
    BY <1>5, MovedIs
  <2>2. f.decl = frames[Len(frames)].decl
    BY DEF Top
  <2> HIDE DEF f
  <2> QED
    BY <2>1, <2>2
<1>6. CASE DefineField \/ DefineSection \/ EndDefine \/ CheckField
  <2>1. frames # <<>> /\ at' = at
    BY <1>6 DEF DefineField, DefineSection, EndDefine, CheckField, Defining, Checking
  <2>2. PICK n, pass : frames' = Moved(n, pass)
    BY <1>6, <2>1, AdvancedMoved, EndDefineMoved DEF DefineField, DefineSection, CheckField
  <2>3. /\ DOMAIN frames' = DOMAIN frames /\ 1 \in DOMAIN frames
        /\ \A m \in DOMAIN frames : frames'[m].decl = frames[m].decl
    BY <1>5, <2>1, <2>2, StateIs
  <2> QED
    BY <1>1, <2>1, <2>3
<1>7. CASE CheckSection
  <2> DEFINE f == Frame(0, Item.items)
             gr == Moved(Top.n + 1, Top.pass)
  <2>1. frames # <<>> /\ frames' = Append(gr, f) /\ at' = at /\ f.decl = 0
    BY <1>7, AdvancedMoved DEF CheckSection, Checking, Frame
  <2>2. /\ IsSeq(gr) /\ DOMAIN gr = DOMAIN frames /\ Len(gr) = Len(frames)
        /\ \A m \in DOMAIN frames : gr[m].decl = frames[m].decl
    <3>1. IsSeq(gr) /\ Len(gr) = Len(frames)
      BY <2>1, MovedIs
    <3>2. DOMAIN gr = DOMAIN frames /\ \A m \in DOMAIN frames : gr[m].decl = frames[m].decl
      BY ONLY <1>5, <2>1
    <3> QED
      BY ONLY <3>1, <3>2
  <2> HIDE DEF f, gr
  <2>3. /\ DOMAIN frames' = 1..(Len(frames) + 1) /\ \A m \in 1..Len(frames) : frames'[m] = gr[m]
        /\ frames'[Len(frames) + 1] = f
    BY <2>1, <2>2, AppendIs
  <2>4. /\ DOMAIN frames = 1..Len(frames) /\ 1 \in 1..Len(frames)
        /\ \A m \in 1..(Len(frames) + 1) : m \in 1..Len(frames) \/ m = Len(frames) + 1
    BY <2>1, StateIs
  <2> QED
    BY <1>1, <2>1, <2>2, <2>3, <2>4
<1>8. CASE Leave
  <2>1. frames # <<>> /\ frames' = Front(frames) /\ at' = at
    BY <1>8 DEF Leave, Finished
  <2>2. /\ DOMAIN frames' = 1..(Len(frames) - 1) /\ DOMAIN frames = 1..Len(frames)
        /\ \A m \in 1..(Len(frames) - 1) : frames'[m] = frames[m] /\ m \in 1..Len(frames)
        /\ IsSeq(frames') /\ Len(frames') = Len(frames) - 1 /\ Len(frames) \in Nat
    BY <2>1, StateIs, FrontIs, LastOrBefore
  <2>3. frames' # <<>> => 1 \in 1..(Len(frames) - 1)
    BY <2>2, EmptySeq, LastOrBefore DEF IsSeq
  <2> QED
    BY <1>1, <2>1, <2>2, <2>3
<1>9. CASE CheckProperty \/ UNCHANGED vars
  <2>1. frames' = frames /\ at' = at
    BY <1>9 DEF CheckProperty, vars
  <2> QED
    BY <1>1, <2>1
<1> QED
  BY <1>2, <1>3, <1>4, <1>6, <1>7, <1>8, <1>9 DEF Next

-----------------------------------------------------------------------------
(* What a name means *)

LEMMA LookupInnermost ==
  ASSUME IInv, NEW x, NEW k \in DOMAIN scopes, x \in DOMAIN scopes[k],
         \A l \in DOMAIN scopes : x \in DOMAIN scopes[l] => l <= k
  PROVE  Visible(x) /\ Lookup(x) = scopes[k][x]
<1> DEFINE top == CHOOSE j \in Holding(x) : \A l \in Holding(x) : l <= j
<1>1. k \in Holding(x) /\ \A l \in Holding(x) : l <= k
  BY DEF Holding
<1>2. top \in Holding(x) /\ \A l \in Holding(x) : l <= top
  BY <1>1
<1>3. Lookup(x) = scopes[top][x]
  BY DEF Lookup
<1> HIDE DEF top
<1>4. top \in Nat /\ k \in Nat /\ top <= k /\ k <= top
  BY <1>1, <1>2, StateIs DEF Holding
<1>5. top = k
  BY ONLY <1>4
<1> QED
  BY <1>1, <1>3, <1>5 DEF Visible

\* A scope that holds all its names.
Whole(items, scope) ==
  /\ DOMAIN scope = NamesOf(items)
  /\ \A n \in DOMAIN items : scope[items[n].name].type = TextType(items[n])
  /\ Distinct(items)

LEMMA FilledWhole ==
  ASSUME NEW f, NEW scope, Filled(f, scope), f.pass = "check"
  PROVE  Whole(f.items, scope)
<1>1. Handled(f) = DOMAIN f.items
  BY DEF Handled
<1> QED
  BY <1>1 DEF Filled, Whole, NamesOf, Distinct

LEMMA Greatest ==
  ASSUME NEW n \in Nat, NEW S \in SUBSET (1..n), S # {}
  PROVE  \E k \in S : \A l \in S : l <= k
<1> DEFINE T == {n - k : k \in S}
<1>1. T \in SUBSET Nat /\ T # {}
  <2>1. \A k \in S : n - k \in Nat
    OBVIOUS
  <2> QED
    BY <2>1
<1>2. PICK m \in T : \A k \in T : m <= k
  <2> HIDE DEF T
  <2> QED
    BY <1>1, NatMin
<1>3. PICK k \in S : m = n - k
  OBVIOUS
<1>4. \A l \in S : n - l \in T /\ l \in 1..n
  OBVIOUS
<1>5. \A l \in S : n - k <= n - l /\ l \in 1..n /\ k \in 1..n
  BY <1>2, <1>3, <1>4
<1>6. \A l \in S : l <= k
  BY ONLY <1>5, n \in Nat
<1> QED
  BY <1>6

LEMMA InnermostIs ==
  ASSUME NEW c, NEW n \in Nat, DOMAIN c = 1..n, NEW x, \E k \in 1..n : x \in NamesOf(c[k])
  PROVE  /\ Innermost(c, x) \in 1..n /\ x \in NamesOf(c[Innermost(c, x)])
         /\ \A l \in 1..n : x \in NamesOf(c[l]) => l <= Innermost(c, x)
<1> DEFINE S == {k \in 1..n : x \in NamesOf(c[k])}
<1>1. PICK k \in S : \A l \in S : l <= k
  <2>1. S \in SUBSET (1..n) /\ S # {}
    OBVIOUS
  <2> HIDE DEF S
  <2> QED
    BY <2>1, Greatest
<1>2. k \in DOMAIN c /\ x \in NamesOf(c[k]) /\ \A l \in DOMAIN c : x \in NamesOf(c[l]) => l <= k
  BY <1>1
<1> QED
  BY <1>2 DEF Innermost

\* A literal matches a condition on an item as it denotes a value of its type.
LEMMA MatchIs ==
  ASSUME NEW item, item.k \in {"field", "section"}, NEW literal, literal.type \in LiteralTypes
  PROVE  ConditionMatches(TextType(item), literal)
           <=> /\ item.k = "field" /\ ~item.arr
               /\ Denotes(IF item.type = "ipv4" THEN "string" ELSE item.type, literal)
<1>1. literal.type # "none"
  BY DEF LiteralTypes
<1>2. CASE item.k = "section"
  <2>1. TextType(item) = "section"
    BY <1>2 DEF TextType
  <2>2. OwnLiteral("section") = "none"
    BY OwnLit
  <2> QED
    BY <1>1, <1>2, <2>1, <2>2 DEF ConditionMatches
<1>3. CASE item.k = "field"
  <2> DEFINE t == TextType(item)
  <2>1. /\ \A b \in BuiltIn \ {"path"} : t = b <=> ~item.arr /\ item.type = b
        /\ t = "path" <=> ~item.arr /\ item.type = "path"
        /\ t = "paths" <=> item.arr /\ item.type = "path"
        /\ t = "array" <=> item.arr /\ item.type # "path"
        /\ t = "schema" <=> ~item.arr /\ item.type \notin BuiltIn
        /\ t \in BuiltIn \cup {"paths", "array", "schema"}
    BY <1>3, TextTypeIs
  <2> HIDE DEF t
  <2>2. CASE t \in {"paths", "array", "schema", "void"}
    <3>1. OwnLiteral(t) = "none"
      BY <2>2, OwnLit
    <3>2. item.arr \/ item.type \notin {"int", "float", "bool", "string", "path", "ipv4", "enum"}
      BY <2>1, <2>2 DEF BuiltIn
    <3>3. ~item.arr => ~Denotes(IF item.type = "ipv4" THEN "string" ELSE item.type, literal)
      BY <3>2, DenotesIs
    <3> QED
      BY <1>1, <3>1, <3>3 DEF ConditionMatches, t
  <2>3. CASE t \notin {"paths", "array", "schema", "void"}
    <3>1. ~item.arr /\ item.type = t /\ t \in {"int", "float", "bool", "string", "path", "ipv4", "enum"}
      BY <2>1, <2>3 DEF BuiltIn
    <3>2. ConditionMatches(t, literal)
            <=> Denotes(IF t = "ipv4" THEN "string" ELSE t, literal)
      BY <3>1, DenotesIs, OwnLit DEF ConditionMatches, IsMember
    <3> QED
      BY <1>3, <3>1, <3>2 DEF t
  <2> QED
    BY <2>2, <2>3
<1> QED
  BY <1>2, <1>3

LEMMA ScopeMatches ==
  ASSUME NEW items, NEW scope, Whole(items, scope), \A n \in DOMAIN items : items[n].k \in {"field", "section"},
         NEW x \in NamesOf(items), NEW literal, literal.type \in LiteralTypes
  PROVE  ConditionMatches(scope[x].type, literal)
           <=> \E n \in DOMAIN items :
                 /\ items[n].name = x /\ items[n].k = "field" /\ ~items[n].arr
                 /\ Denotes(IF items[n].type = "ipv4" THEN "string" ELSE items[n].type, literal)
<1>1. PICK n \in DOMAIN items : items[n].name = x
  BY DEF NamesOf
<1>2. scope[x].type = TextType(items[n])
  BY <1>1 DEF Whole
<1>3. \A m \in DOMAIN items : items[m].name = x => m = n
  BY <1>1 DEF Whole, Distinct
<1> DEFINE good(item) == /\ item.k = "field" /\ ~item.arr
                         /\ Denotes(IF item.type = "ipv4" THEN "string" ELSE item.type, literal)
<1>4. ConditionMatches(scope[x].type, literal) <=> good(items[n])
  BY <1>2, MatchIs
<1>5. (\E m \in DOMAIN items : items[m].name = x /\ good(items[m])) <=> good(items[n])
  <2> HIDE DEF good
  <2> QED
    BY <1>1, <1>3
<1> QED
  BY <1>4, <1>5

\* The items of a frame are fields and sections.
LEMMA ItemsAreOK ==
  ASSUME IInv, TextInv, NEW m \in DOMAIN frames, NEW n \in DOMAIN frames[m].items
  PROVE  ItemOK(frames[m].items[n])
<1>1. PICK own \in [DOMAIN frames -> DOMAIN program] : Owns(program, frames, own)
  BY DEF TextInv, Owned
<1>2. frames[m].items \in Parts(program[own[m]].items) /\ own[m] \in DOMAIN program
  BY <1>1, ItemsAre
<1>3. program \in Programs
  BY DEF IInv, CountersOK
<1> QED
  BY <1>2, <1>3, SchemaRulesAssumption

\* What the scopes of a chain hold.
LEMMA ChainScopes ==
  ASSUME IInv, TextInv, FilledAll(frames, scopes), frames # <<>>,
         NEW b, Based(frames, b, Len(frames))
  PROVE  LET c == Chain(frames, b, Len(frames))
             n == (Len(frames) - b) + 1
         IN  /\ n \in Nat \ {0} /\ Len(c) = n /\ DOMAIN c = 1..n /\ b \in Nat \ {0}
             /\ c[n] = Top.items
             /\ \A k \in 1..n : b + k \in DOMAIN scopes
             /\ \A k \in 1..(n - 1) : Whole(c[k], scopes[b + k])
             /\ Top.pass = "check" => \A k \in 1..n : Whole(c[k], scopes[b + k])
             /\ \A k \in 1..n : \A i \in DOMAIN c[k] : ItemOK(c[k][i])
             /\ \A l \in DOMAIN scopes : l > b => l - b \in 1..n /\ b + (l - b) = l
<1>0. PICK m \in Nat : m = Len(frames)
  BY StateIs
<1>1. /\ m \in DOMAIN frames /\ DOMAIN frames = 1..m /\ DOMAIN scopes = 1..(m + 1)
      /\ Based(frames, b, m)
  BY <1>0, StateIs
<1>a. /\ Len(Chain(frames, b, m)) = (m - b) + 1
      /\ \A j \in b..(m - 1) : frames[j].pass = "check"
      /\ b \in 1..m
      /\ Chain(frames, b, m)[(m - b) + 1] = frames[m].items
      /\ \A k \in 1..((m - b) + 1) : Chain(frames, b, m)[k] = frames[(b + k) - 1].items
  BY ONLY IInv, TextInv, <1>1, ChainOfFrame
<1>b. DOMAIN Chain(frames, b, m) = 1..((m - b) + 1)
  BY ONLY DEF Chain
<1> DEFINE c == Chain(frames, b, m)
           n == (m - b) + 1
<1>2. /\ Len(c) = n
      /\ \A j \in b..(m - 1) : frames[j].pass = "check"
      /\ b \in 1..m
      /\ \A k \in 1..n : c[k] = frames[(b + k) - 1].items
  BY ONLY <1>a
<1>3. n \in Nat \ {0} /\ DOMAIN c = 1..n /\ c[n] = frames[m].items
  <2>1. n \in Nat \ {0}
    BY ONLY <1>a, m \in Nat
  <2> QED
    BY ONLY <1>a, <1>b, <2>1
<1>4. \A k \in 1..n : (b + k) - 1 \in 1..m /\ ((b + k) - 1) + 1 = b + k /\ b + k \in 1..(m + 1)
  BY <1>1, <1>2
<1>5. \A k \in 1..(n - 1) : (b + k) - 1 \in b..(m - 1) /\ k \in 1..n
  BY <1>1, <1>2
<1>6. \A l \in 1..(m + 1) : l > b => l - b \in 1..n /\ b + (l - b) = l
  BY <1>1, <1>2
<1>7. \A k \in 1..n : k \in 1..(n - 1) \/ k = n
  BY <1>3
<1>8. (b + n) - 1 = m
  BY <1>1, <1>2
<1> HIDE DEF c, n
<1>9. ASSUME NEW k \in 1..n, frames[(b + k) - 1].pass = "check" PROVE Whole(c[k], scopes[b + k])
  <2>1. Filled(frames[(b + k) - 1], scopes[b + k])
    BY <1>1, <1>4 DEF FilledAll
  <2> QED
    BY <1>2, <1>9, <2>1, FilledWhole
<1>10. \A k \in 1..n : \A i \in DOMAIN c[k] : ItemOK(c[k][i])
  BY <1>1, <1>2, <1>4, ItemsAreOK
<1>11. \A k \in 1..(n - 1) : Whole(c[k], scopes[b + k])
  BY <1>2, <1>5, <1>9
<1>12. Top = frames[m]
  BY <1>0 DEF Top
<1>13. Top.pass = "check" => \A k \in 1..n : Whole(c[k], scopes[b + k])
  BY <1>7, <1>8, <1>9, <1>11, <1>12
<1> QED
  BY <1>0, <1>1, <1>2, <1>3, <1>4, <1>6, <1>10, <1>11, <1>12, <1>13 DEF c, n

Matched(x, literal) == Visible(x) /\ ConditionMatches(Lookup(x).type, literal)

LEMMA ConditionIs ==
  ASSUME IInv, TextInv, FilledAll(frames, scopes), frames # <<>>, Top.pass = "check",
         NEW b, Based(frames, b, Len(frames)), NEW x, NEW literal, literal.type \in LiteralTypes
  PROVE  LET c == Chain(frames, b, Len(frames))
         IN  /\ Comparable(c, x, literal) => Matched(x, literal)
             /\ b = 1 /\ GlobalInv /\ Matched(x, literal) => Comparable(c, x, literal)
<1> DEFINE c == Chain(frames, b, Len(frames))
           n == (Len(frames) - b) + 1
<1>1. /\ n \in Nat \ {0} /\ DOMAIN c = 1..n /\ b \in Nat \ {0}
      /\ \A k \in 1..n : b + k \in DOMAIN scopes
      /\ \A k \in 1..n : Whole(c[k], scopes[b + k])
      /\ \A k \in 1..n : \A i \in DOMAIN c[k] : ItemOK(c[k][i])
      /\ \A l \in DOMAIN scopes : l > b => l - b \in 1..n /\ b + (l - b) = l
  BY ChainScopes
<1>a. DOMAIN scopes = 1..Len(scopes) /\ Len(scopes) \in Nat /\ IsSeq(scopes)
  BY StateIs
<1> HIDE DEF c, n
<1> SUFFICES /\ Comparable(c, x, literal) => Matched(x, literal)
             /\ b = 1 /\ GlobalInv /\ Matched(x, literal) => Comparable(c, x, literal)
  BY DEF c
<1>2. CASE \E k \in 1..n : x \in NamesOf(c[k])
  <2> DEFINE k == Innermost(c, x)
             j == b + k
  <2>1. /\ k \in 1..n /\ x \in NamesOf(c[k])
        /\ \A l \in 1..n : x \in NamesOf(c[l]) => l <= k
    BY <1>1, <1>2, InnermostIs
  <2>2. j \in DOMAIN scopes /\ x \in DOMAIN scopes[j]
    BY <1>1, <2>1 DEF Whole
  <2>3. ASSUME NEW l \in DOMAIN scopes, x \in DOMAIN scopes[l] PROVE l <= j
    <3>1. CASE l > b
      <4>1. l - b \in 1..n /\ b + (l - b) = l
        BY <1>1, <3>1
      <4>2. x \in NamesOf(c[l - b])
        BY <1>1, <2>3, <4>1 DEF Whole
      <4>3. l - b <= k /\ l \in Nat /\ k \in Nat
        BY <1>a, <2>1, <4>1, <4>2
      <4> QED
        BY <1>1, <4>3
    <3>2. CASE ~(l > b)
      BY <1>1, <1>a, <2>1, <3>2
    <3> QED
      BY <3>1, <3>2
  <2> HIDE DEF j, k
  <2>4. Visible(x) /\ Lookup(x) = scopes[j][x]
    BY <2>2, <2>3, LookupInnermost
  <2>5. \A i \in DOMAIN c[k] : c[k][i].k \in {"field", "section"}
    BY <1>1, <2>1 DEF ItemOK
  <2>6. Whole(c[k], scopes[j])
    BY <1>1, <2>1 DEF j
  <2> DEFINE items == c[k]
             scope == scopes[j]
             found == \E i \in DOMAIN items :
                        /\ items[i].name = x /\ items[i].k = "field" /\ ~items[i].arr
                        /\ Denotes(IF items[i].type = "ipv4" THEN "string" ELSE items[i].type, literal)
  <2>7. ConditionMatches(scope[x].type, literal) <=> found
    <3>1. Whole(items, scope) /\ x \in NamesOf(items) /\ \A i \in DOMAIN items : items[i].k \in {"field", "section"}
      BY <2>1, <2>5, <2>6
    <3> HIDE DEF items, scope
    <3>2. ConditionMatches(scope[x].type, literal) <=>
            \E i \in DOMAIN items :
              /\ items[i].name = x /\ items[i].k = "field" /\ ~items[i].arr
              /\ Denotes(IF items[i].type = "ipv4" THEN "string" ELSE items[i].type, literal)
      BY <3>1, ScopeMatches
    <3> QED
      BY <3>2
  <2>8. Comparable(c, x, literal) <=> found
    BY <1>1, <1>2 DEF Comparable, k
  <2> QED
    BY <2>4, <2>7, <2>8 DEF Matched
<1>3. CASE ~\E k \in 1..n : x \in NamesOf(c[k])
  <2>1. ~Comparable(c, x, literal)
    BY <1>1, <1>3 DEF Comparable
  <2>2. ASSUME b = 1, GlobalInv, Matched(x, literal) PROVE FALSE
    <3>1. PICK l \in DOMAIN scopes : x \in DOMAIN scopes[l] /\ Lookup(x) = scopes[l][x]
      BY <1>a, <2>2, LookupIs DEF Matched
    <3>2. l = 1
      <4> SUFFICES ASSUME l # 1 PROVE FALSE
        OBVIOUS
      <4>1. l > b
        BY <1>a, <2>2
      <4>2. l - b \in 1..n /\ b + (l - b) = l
        BY <1>1, <4>1
      <4> QED
        BY <1>1, <1>3, <3>1, <4>2 DEF Whole
    <3>3. Lookup(x).type = "schema"
      BY <2>2, <3>1, <3>2 DEF GlobalInv
    <3>4. OwnLiteral("schema") = "none"
      BY OwnLit
    <3> QED
      BY <2>2, <3>3, <3>4 DEF Matched, ConditionMatches, LiteralTypes
  <2> QED
    BY <2>1, <2>2
<1> QED
  BY <1>2, <1>3
-----------------------------------------------------------------------------
(* What the checker finds of a type and of a property *)

LEMMA TypeErrorsNone ==
  ASSUME NEW x
  PROVE  TypeErrors(x) = <<>> <=> x \in BuiltIn \/ (IsSchema(x) /\ x \in resolved)
<1>1. x \in BuiltIn \/ (IsSchema(x) /\ x \in resolved) => TypeErrors(x) = <<>>
  BY DEF TypeErrors
<1> QED
  BY <1>1, TypeErrorsAre

\* A schema that is seen is the one in the global scope.
LEMMA SchemaIsGlobal ==
  ASSUME IInv, PassInv, NEW x, IsSchema(x), NEW k \in DOMAIN scopes \ {1}
  PROVE  x \notin DOMAIN scopes[k]
<1>1. IsSeq(scopes) /\ DOMAIN scopes = 1..Len(scopes) /\ Len(scopes) \in Nat
  BY StateIs
<1>2. Holding(x) \in SUBSET (1..Len(scopes)) /\ Holding(x) # {}
  BY <1>1 DEF IsSchema, Visible, Holding
<1>3. PICK j \in Holding(x) : \A l \in Holding(x) : l <= j
  BY <1>1, <1>2, Greatest
<1>4. j \in DOMAIN scopes /\ x \in DOMAIN scopes[j]
  BY <1>3 DEF Holding
<1>5. Lookup(x) = scopes[j][x]
  BY <1>3, <1>4, LookupInnermost DEF Holding
<1>6. Lookup(x).decl # 0
  BY DEF IsSchema
<1>7. j = 1
  BY <1>4, <1>5, <1>6 DEF PassInv, GlobalOK
<1>8. k \notin Holding(x)
  <2> SUFFICES ASSUME k \in Holding(x) PROVE FALSE
    OBVIOUS
  <2>1. k <= 1 /\ k \in 1..Len(scopes) /\ k # 1
    BY <1>1, <1>3, <1>7
  <2> QED
    BY ONLY <1>1, <2>1
<1> QED
  BY <1>8 DEF Holding

\* The names that the innermost scope holds during the first pass.
LEMMA DefinedNames ==
  ASSUME IInv, TextInv, FilledAll(frames, scopes), frames # <<>>, Top.pass = "define", More
  PROVE  /\ DOMAIN Scope = {Top.items[m].name : m \in 1..(Top.n - 1)}
         /\ Scope = scopes[Len(frames) + 1]
<1>1. Filled(Top, Scope)
  BY TopFilled
<1>2. Top.n \in DOMAIN Top.items /\ DOMAIN Top.items = 1..Len(Top.items) /\ Len(Top.items) \in Nat
  BY TopIs
<1>3. Handled(Top) = 1..(Top.n - 1)
  BY <1>2 DEF Handled
<1>4. Scope = scopes[Len(frames) + 1]
  BY StateIs DEF Scope
<1> QED
  BY <1>1, <1>3, <1>4 DEF Filled

LEMMA TypeSeen ==
  ASSUME IInv, PassInv, TextInv, FilledAll(frames, scopes), Defining("field"),
         NEW b, Based(frames, b, Len(frames)), Item.type \in BuiltIn \/ IsSchema(Item.type)
  PROVE  TypeFits(program, Chain(frames, b, Len(frames)), Top.n)
<1> DEFINE c == Chain(frames, b, Len(frames))
           n == (Len(frames) - b) + 1
           x == Item.type
<1>1. frames # <<>> /\ Top.pass = "define" /\ More
  BY DEF Defining
<1>2. /\ n \in Nat \ {0} /\ Len(c) = n /\ b \in Nat \ {0}
      /\ c[n] = Top.items
      /\ \A k \in 1..n : b + k \in DOMAIN scopes
      /\ \A k \in 1..(n - 1) : Whole(c[k], scopes[b + k])
  BY <1>1, ChainScopes
<1>3. Item = Top.items[Top.n]
  BY DEF Item
<1>4. /\ DOMAIN Scope = {Top.items[m].name : m \in 1..(Top.n - 1)}
      /\ Scope = scopes[Len(frames) + 1]
  BY <1>1, DefinedNames
<1>5. Len(frames) + 1 \in DOMAIN scopes \ {1} /\ Len(frames) \in Nat
  BY <1>1, StateIs
<1> HIDE DEF c, n
<1>6. ASSUME x \notin BuiltIn
      PROVE  /\ x \in SchemaNames(program)
             /\ \A m \in 1..(Top.n - 1) : Top.items[m].name # x
             /\ \A k \in 1..(n - 1) : x \notin NamesOf(c[k])
  <2>1. IsSchema(x)
    BY <1>6
  <2>2. x \in SchemaNames(program)
    BY <2>1, SchemaFound
  <2>3. x \notin DOMAIN Scope
    BY <1>4, <1>5, <2>1, SchemaIsGlobal
  <2>4. ASSUME NEW k \in 1..(n - 1) PROVE x \notin NamesOf(c[k])
    <3>1. k \in 1..n /\ b + k # 1
      BY <1>2
    <3>2. b + k \in DOMAIN scopes \ {1}
      BY <1>2, <3>1
    <3>3. x \notin DOMAIN scopes[b + k]
      BY <2>1, <3>2, SchemaIsGlobal
    <3> QED
      BY <1>2, <3>3 DEF Whole
  <2> QED
    BY <1>4, <2>2, <2>3, <2>4
<1>7. TypeFits(program, c, Top.n)
  BY <1>2, <1>3, <1>6 DEF TypeFits
<1> QED
  BY <1>7 DEF c

LEMMA TypeAccepted ==
  ASSUME IInv, PassInv, TextInv, FilledAll(frames, scopes), Defining("field"),
         NEW b, Based(frames, b, Len(frames)), Unhidden(program) \/ b = 1,
         TypeFits(program, Chain(frames, b, Len(frames)), Top.n)
  PROVE  Item.type \in BuiltIn \/ IsSchema(Item.type)
<1> DEFINE c == Chain(frames, b, Len(frames))
           n == (Len(frames) - b) + 1
           x == Item.type
<1> SUFFICES ASSUME x \notin BuiltIn PROVE IsSchema(x)
  OBVIOUS
<1>1. frames # <<>> /\ Top.pass = "define" /\ More
  BY DEF Defining
<1>2. /\ n \in Nat \ {0} /\ Len(c) = n /\ b \in Nat \ {0}
      /\ c[n] = Top.items
      /\ \A k \in 1..(n - 1) : Whole(c[k], scopes[b + k])
      /\ \A l \in DOMAIN scopes : l > b => l - b \in 1..n /\ b + (l - b) = l
  BY <1>1, ChainScopes
<1>3. Item = Top.items[Top.n]
  BY DEF Item
<1>4. /\ DOMAIN Scope = {Top.items[m].name : m \in 1..(Top.n - 1)}
      /\ Scope = scopes[Len(frames) + 1]
  BY <1>1, DefinedNames
<1>a. Len(frames) \in Nat /\ DOMAIN scopes = 1..(Len(frames) + 1) /\ DOMAIN frames = 1..Len(frames)
  BY StateIs
<1>b. n = (Len(frames) - b) + 1
  OBVIOUS
<1> HIDE DEF c, n
<1>5. /\ x \in SchemaNames(program)
      /\ \A m \in 1..(Top.n - 1) : Top.items[m].name # x
      /\ \A k \in 1..(n - 1) : x \notin NamesOf(c[k])
  <2>1. TypeFits(program, c, Top.n)
    BY DEF c
  <2> QED
    BY <1>2, <1>3, <2>1 DEF TypeFits
<1>6. ASSUME NEW k \in DOMAIN scopes \ {1} PROVE x \notin DOMAIN scopes[k]
  <2>1. CASE Unhidden(program)
    <3>1. PICK m : m = k - 1
      OBVIOUS
    <3>2. m \in DOMAIN frames /\ k = m + 1
      BY <1>a, <3>1
    <3>3. PICK own \in [DOMAIN frames -> DOMAIN program] : Owns(program, frames, own)
      BY DEF TextInv, Owned
    <3>4. frames[m].items \in Parts(program[own[m]].items) /\ own[m] \in DOMAIN program
      BY <3>2, <3>3, ItemsAre
    <3>5. DOMAIN scopes[m + 1] \subseteq NamesOf(frames[m].items)
      BY <3>2 DEF TextInv, Named
    <3>6. NamesOf(frames[m].items) \subseteq AllNames(program[own[m]].items)
      BY <3>4, AllNamesHold
    <3> QED
      BY <1>5, <2>1, <3>2, <3>4, <3>5, <3>6 DEF Unhidden
  <2>2. CASE b = 1
    <3>1. k > b
      BY <1>a, <2>2
    <3>2. k - b \in 1..n /\ b + (k - b) = k
      BY <1>2, <3>1
    <3>3. CASE k - b \in 1..(n - 1)
      <4>1. x \notin NamesOf(c[k - b]) /\ Whole(c[k - b], scopes[k])
        BY <1>2, <1>5, <3>2, <3>3
      <4> QED
        BY <4>1 DEF Whole
    <3>4. CASE k - b = n
      <4>1. k = Len(frames) + 1
        BY <1>a, <1>b, <2>2, <3>4
      <4> QED
        BY <1>4, <1>5, <4>1
    <3> QED
      BY <1>2, <3>2, <3>3, <3>4
  <2> QED
    BY <2>1, <2>2
<1>7. pc # "declare"
  BY <1>1, InsideIs
<1> QED
  BY <1>5, <1>6, <1>7, SchemaSeen

LEMMA ValueErrorsNone ==
  ASSUME NEW type, NEW name, name \in DOMAIN PropertyDefs(type), NEW value
  PROVE  ValueErrors(type, name, value) = <<>>
           <=> Suits(type, name, value, Matched(value.left, value.right))
<1>1. \A kind, y : <<Error(kind, y)>> # <<>>
  OBVIOUS
<1>2. ValueErrors(type, name, value) = <<>>
        <=> /\ ~(PropertyDefs(type)[name] = "condition" /\ value.k = "condition" /\ ~Visible(value.left))
            /\ ValueMatches(type, name, value)
  BY <1>1 DEF ValueErrors
<1> QED
  BY <1>2 DEF ValueMatches, Suits, Matched

LEMMA PropertyErrorsNone ==
  ASSUME NEW type, NEW props, NEW n
  PROVE  PropertyErrors(type, props, n) = <<>>
           <=> /\ \A m \in 1..(n - 1) : props[m].name # props[n].name
               /\ Suits(type, props[n].name, props[n].value,
                        Matched(props[n].value.left, props[n].value.right))
<1> DEFINE name == props[n].name
           value == props[n].value
           first == IF \E m \in 1..(n - 1) : props[m].name = name THEN <<Error("REDECLARATION", name)>> ELSE <<>>
           second == IF name \notin DOMAIN PropertyDefs(type) THEN <<Error("UNEXPECTED_PROPERTY", name)>>
                     ELSE ValueErrors(type, name, value)
<1>1. PropertyErrors(type, props, n) = first \o second
  BY DEF PropertyErrors
<1>2. \A kind, y : <<Error(kind, y)>> # <<>>
  OBVIOUS
<1>3. first = <<>> <=> \A m \in 1..(n - 1) : props[m].name # name
  BY <1>2
<1>4. second = <<>> <=> Suits(type, name, value, Matched(value.left, value.right))
  BY <1>2, ValueErrorsNone DEF Suits
<1>5. IsSeq(first) /\ IsSeq(second)
  <2>1. IsSeq(<<>>) /\ \A e : IsSeq(<<e>>)
    BY EmptyIs, OneIs
  <2> QED
    BY <2>1 DEF ValueErrors
<1> HIDE DEF first, second
<1>6. first \o second = <<>> <=> first = <<>> /\ second = <<>>
  <2>1. first \o second = <<>> => first = <<>> /\ second = <<>>
    BY <1>5, ConcatEmpty
  <2>2. <<>> \o <<>> = <<>>
    OBVIOUS
  <2> QED
    BY <2>1, <2>2
<1> QED
  BY <1>1, <1>3, <1>4, <1>6

LEMMA PropertyTaken ==
  ASSUME IInv, TextInv, FilledAll(frames, scopes), Checking("field"), prop \in DOMAIN Item.props,
         NEW b, Based(frames, b, Len(frames))
  PROVE  LET c == Chain(frames, b, Len(frames))
             quiet == PropertyErrors(Scope[Item.name].type, Item.props, prop) = <<>>
         IN  /\ PropertiesTaken(c, Item) => quiet
             /\ b = 1 /\ GlobalInv /\ quiet => Taken(c, Item, Item.props[prop])
             /\ quiet => \A m \in 1..(prop - 1) : Item.props[m].name # Item.props[prop].name
             /\ Item.k = "field" /\ ItemOK(Item)
<1> DEFINE c == Chain(frames, b, Len(frames))
           p == Item.props[prop]
           v == p.value
<1>1. frames # <<>> /\ Top.pass = "check" /\ More /\ Item.k = "field"
  BY DEF Checking
<1>2. /\ Top = frames[Len(frames)] /\ Len(frames) \in DOMAIN frames
      /\ Top.n \in DOMAIN Top.items /\ Item = Top.items[Top.n]
  BY <1>1, TopIs DEF Item
<1>3. ItemOK(Item)
  BY <1>2, ItemsAreOK
<1>4. Whole(Top.items, Scope)
  BY <1>1, TopFilled, FilledWhole
<1>5. Scope[Item.name].type = TextType(Item)
  BY <1>2, <1>4 DEF Whole
<1>6. /\ v.k = "literal" => v.type \in LiteralTypes
      /\ v.k = "condition" => v.right.type \in LiteralTypes
  BY <1>1, <1>3 DEF ItemOK
<1>7. DOMAIN Item.props = 1..Len(Item.props) /\ Len(Item.props) \in Nat
  BY <1>1, <1>3 DEF ItemOK
<1>8. v.k = "condition" =>
        /\ Comparable(c, v.left, v.right) => Matched(v.left, v.right)
        /\ b = 1 /\ GlobalInv /\ Matched(v.left, v.right) => Comparable(c, v.left, v.right)
  BY <1>1, <1>6, ConditionIs
<1> HIDE DEF c, p
<1>9. Taken(c, Item, p) <=> Suits(TextType(Item), p.name, v, Comparable(c, v.left, v.right))
  BY <1>1, <1>6, TakenIsSuits
<1>10. /\ Suits(TextType(Item), p.name, v, Comparable(c, v.left, v.right))
            => Suits(TextType(Item), p.name, v, Matched(v.left, v.right))
       /\ b = 1 /\ GlobalInv /\ Suits(TextType(Item), p.name, v, Matched(v.left, v.right))
            => Suits(TextType(Item), p.name, v, Comparable(c, v.left, v.right))
  BY <1>8 DEF Suits
<1> DEFINE quiet == PropertyErrors(Scope[Item.name].type, Item.props, prop) = <<>>
<1>11. quiet <=> /\ \A m \in 1..(prop - 1) : Item.props[m].name # p.name
                 /\ Suits(TextType(Item), p.name, v, Matched(v.left, v.right))
  BY <1>5, PropertyErrorsNone DEF p
<1> HIDE DEF quiet
<1>12. ASSUME PropertiesTaken(c, Item) PROVE quiet
  <2>1. Taken(c, Item, p) /\ Distinct(Item.props)
    BY <1>12 DEF PropertiesTaken, p
  <2>2. ASSUME NEW m \in 1..(prop - 1) PROVE Item.props[m].name # p.name
    <3>1. m \in DOMAIN Item.props /\ m # prop
      BY <1>7
    <3> QED
      BY <2>1, <3>1 DEF Distinct, p
  <2> QED
    BY <1>9, <1>10, <1>11, <2>1, <2>2
<1>13. b = 1 /\ GlobalInv /\ quiet => Taken(c, Item, p)
  BY <1>9, <1>10, <1>11
<1> QED
  BY <1>1, <1>3, <1>11, <1>12, <1>13 DEF c, p, quiet
-----------------------------------------------------------------------------
(* What is well-formed is accepted *)

AcceptInv == WellTaken(program) /\ (Unhidden(program) \/ BottomUp(program)) => errors = <<>>

\* The schema that the innermost frame lies in.
LEMMA SomeBase ==
  ASSUME IInv, TextInv, BottomInv, frames # <<>>
  PROVE  \E b : Based(frames, b, Len(frames)) /\ (BottomUp(program) => b = 1)
<1>1. PICK m \in Nat : m = Len(frames) /\ m # 0 /\ m \in DOMAIN frames
  <2>1. Len(frames) \in Nat /\ Len(frames) \in 1..Len(frames) /\ DOMAIN frames = 1..Len(frames)
    BY StateIs
  <2>2. Len(frames) # 0
    BY ONLY <2>1
  <2> QED
    BY ONLY <2>1, <2>2
<1>2. CASE BottomUp(program)
  <2>1. Based(frames, 1, m)
    BY <1>1, <1>2, OneBase
  <2> QED
    BY <1>1, <2>1
<1>3. CASE ~BottomUp(program)
  <2>1. \E b : Based(frames, b, m)
    BY ONLY <1>1, BaseExists, TextInv, frames # <<>> DEF TextInv
  <2> QED
    BY <1>1, <1>3, <2>1
<1> QED
  BY <1>2, <1>3

\* In a well-formed program the scopes around the innermost frame are right.
LEMMA FrameIsLexical ==
  ASSUME IInv, TextInv, WellTaken(program), frames # <<>>, NEW b, Based(frames, b, Len(frames))
  PROVE  /\ Distinct(Top.items)
         /\ More /\ Item.k = "field" => /\ TypeFits(program, Chain(frames, b, Len(frames)), Top.n)
                                        /\ PropertiesTaken(Chain(frames, b, Len(frames)), Item)
<1>1. PICK m \in Nat : m = Len(frames) /\ m \in DOMAIN frames
  BY StateIs
<1> DEFINE c == Chain(frames, b, m)
<1>2. /\ frames[b].decl \in DOMAIN program
      /\ c \in Chains(program[frames[b].decl].items)
      /\ Len(c) = (m - b) + 1 /\ c[(m - b) + 1] = frames[m].items
  BY <1>1, ChainOfFrame
<1> HIDE DEF c
<1>3. LexicalTaken(program, c)
  BY <1>2 DEF WellTaken
<1>4. Top = frames[m] /\ (More => Top.n \in DOMAIN Top.items) /\ Item = Top.items[Top.n]
  BY <1>1, TopIs DEF Item
<1>5. c[Len(c)] = Top.items
  BY <1>2, <1>4
<1> QED
  BY <1>1, <1>3, <1>4, <1>5 DEF LexicalTaken, c

\* A new name is declared without a report.
LEMMA QuietDefine ==
  ASSUME NEW x, NEW symbol, errors = <<>>, x \notin DOMAIN Scope, Define(x, symbol, <<>>)
  PROVE  errors' = <<>>
<1>1. errors' = <<>> \o <<>>
  BY DEF Define
<1>2. <<>> \o <<>> = <<>>
  OBVIOUS
<1> QED
  BY <1>1, <1>2

LEMMA DeclareAccept ==
  ASSUME IInv, PassInv, errors = <<>>, Distinct(program), Declare
  PROVE  errors' = <<>>
<1>1. pc = "declare" /\ at <= Len(program) /\ Define(program[at].name, Symbol("schema", at), <<>>)
  BY DEF Declare
<1>2. frames = <<>> /\ Len(scopes) = 1 /\ at \in DOMAIN program /\ at \in Nat
  <2>1. frames = <<>> /\ Len(frames) = 0
    BY <1>1, EmptyIs DEF PassInv
  <2>2. at \in 1..Len(program) /\ Len(program) \in Nat
    BY <1>1, StateIs DEF IInv, CountersOK
  <2> QED
    BY <2>1, <2>2, StateIs
<1>3. DOMAIN scopes[1] = {program[e].name : e \in 1..(at - 1)}
  BY <1>1 DEF PassInv, GlobalOK, Upto
<1>4. \A e \in 1..(at - 1) : e \in DOMAIN program /\ e # at
  BY <1>2, StateIs
<1>5. program[at].name \notin DOMAIN scopes[1]
  BY <1>2, <1>3, <1>4 DEF Distinct
<1>6. Scope = scopes[1]
  BY <1>2 DEF Scope
<1> QED
  BY <1>1, <1>5, <1>6, QuietDefine

\* The name of an item that is defined next is new.
LEMMA NameIsNew ==
  ASSUME IInv, TextInv, FilledAll(frames, scopes), frames # <<>>, Top.pass = "define", More,
         Distinct(Top.items)
  PROVE  Item.name \notin DOMAIN Scope
<1>1. DOMAIN Scope = {Top.items[m].name : m \in 1..(Top.n - 1)}
  BY DefinedNames
<1>2. Top.n \in DOMAIN Top.items /\ DOMAIN Top.items = 1..Len(Top.items) /\ Len(Top.items) \in Nat
  BY TopIs
<1>3. \A m \in 1..(Top.n - 1) : m \in DOMAIN Top.items /\ m # Top.n
  BY <1>2
<1> QED
  BY <1>1, <1>2, <1>3 DEF Distinct, Item

LEMMA DefineFieldAccept ==
  ASSUME IInv, PassInv, TextInv, BottomInv, FilledAll(frames, scopes), errors = <<>>,
         WellTaken(program), Unhidden(program) \/ BottomUp(program), DefineField
  PROVE  errors' = <<>>
<1>1. /\ frames # <<>> /\ Top.pass = "define" /\ More /\ Item.k = "field" /\ Defining("field")
      /\ ~Unresolved(Item.type)
      /\ Define(Item.name, Symbol(FieldType(Item), 0), TypeErrors(Item.type))
  BY DEF DefineField, Defining
<1>2. PICK b : Based(frames, b, Len(frames)) /\ (BottomUp(program) => b = 1)
  BY <1>1, SomeBase
<1>3. Distinct(Top.items) /\ TypeFits(program, Chain(frames, b, Len(frames)), Top.n)
  BY <1>1, <1>2, FrameIsLexical
<1>4. Item.type \in BuiltIn \/ IsSchema(Item.type)
  <2>1. Unhidden(program) \/ b = 1
    BY <1>2
  <2> QED
    BY <1>1, <1>2, <1>3, <2>1, TypeAccepted
<1>5. TypeErrors(Item.type) = <<>>
  <2> SUFFICES ASSUME Item.type \notin BuiltIn, IsSchema(Item.type), Item.type \notin resolved PROVE FALSE
    BY <1>4, TypeErrorsNone
  <2>1. Cyclic(TypeErrors(Item.type))
    BY TypeErrorsAre
  <2>2. ~Layered(program)
    BY <2>1, CycleIsReal
  <2> QED
    BY <2>2 DEF WellTaken
<1>6. Item.name \notin DOMAIN Scope
  BY <1>1, <1>3, NameIsNew
<1> QED
  BY <1>1, <1>5, <1>6, QuietDefine

LEMMA DefineSectionAccept ==
  ASSUME IInv, TextInv, BottomInv, FilledAll(frames, scopes), errors = <<>>,
         WellTaken(program), DefineSection
  PROVE  errors' = <<>>
<1>1. /\ frames # <<>> /\ Top.pass = "define" /\ More
      /\ Define(Item.name, Symbol("section", 0), <<>>)
  BY DEF DefineSection, Defining
<1>2. PICK b : Based(frames, b, Len(frames))
  BY <1>1, SomeBase
<1>3. Distinct(Top.items)
  BY <1>1, <1>2, FrameIsLexical
<1>4. Item.name \notin DOMAIN Scope
  BY <1>1, <1>3, NameIsNew
<1> QED
  BY <1>1, <1>4, QuietDefine

LEMMA CheckPropertyAccept ==
  ASSUME IInv, TextInv, BottomInv, PropOK, FilledAll(frames, scopes), errors = <<>>,
         WellTaken(program), CheckProperty
  PROVE  errors' = <<>>
<1>1. /\ frames # <<>> /\ Top.pass = "check" /\ More /\ Item.k = "field" /\ Checking("field")
      /\ prop <= Len(Item.props)
      /\ errors' = errors \o PropertyErrors(Scope[Item.name].type, Item.props, prop)
  BY DEF CheckProperty, Checking
<1>2. PICK b : Based(frames, b, Len(frames))
  BY <1>1, SomeBase
<1>3. PropertiesTaken(Chain(frames, b, Len(frames)), Item)
  BY <1>1, <1>2, FrameIsLexical
<1>4. prop \in DOMAIN Item.props
  <2>1. /\ Top = frames[Len(frames)] /\ Len(frames) \in DOMAIN frames
        /\ Top.n \in DOMAIN Top.items /\ Item = Top.items[Top.n]
    BY <1>1, TopIs DEF Item
  <2>2. ItemOK(Item)
    BY <2>1, ItemsAreOK
  <2> QED
    BY <1>1, <2>2 DEF ItemOK, PropOK
<1>5. PropertyErrors(Scope[Item.name].type, Item.props, prop) = <<>>
  BY <1>1, <1>2, <1>3, <1>4, PropertyTaken
<1>6. errors' = <<>> \o <<>>
  BY <1>1, <1>5
<1>7. <<>> \o <<>> = <<>>
  OBVIOUS
<1> QED
  BY <1>6, <1>7

LEMMA StepKeepsAccept ==
  IInv /\ PassInv /\ TextInv /\ BottomInv /\ PropOK /\ FilledInv /\ AcceptInv /\ [Next]_vars => AcceptInv'
<1> SUFFICES ASSUME IInv, PassInv, TextInv, BottomInv, PropOK, FilledInv, AcceptInv, [Next]_vars,
                    (WellTaken(program) /\ (Unhidden(program) \/ BottomUp(program)))'
             PROVE  errors' = <<>>
  BY DEF AcceptInv
<1>1. program' = program
  BY ReportsGrow DEF vars
<1>2. WellTaken(program) /\ (Unhidden(program) \/ BottomUp(program))
  BY <1>1 DEF WellTaken, LexicalTaken, TypeFits, Layered, Orders, Unhidden, BottomUp
<1>3. errors = <<>> /\ FilledAll(frames, scopes)
  BY <1>2 DEF AcceptInv, FilledInv
<1>4. CASE Declare
  BY <1>2, <1>3, <1>4, DeclareAccept DEF WellTaken
<1>5. CASE DefineField
  BY <1>2, <1>3, <1>5, DefineFieldAccept
<1>6. CASE DefineSection
  BY <1>2, <1>3, <1>6, DefineSectionAccept
<1>7. CASE CheckProperty
  BY <1>2, <1>3, <1>7, CheckPropertyAccept
<1>8. ASSUME UNCHANGED errors PROVE errors' = <<>>
  BY <1>3, <1>8
<1>9. CASE Declared \/ StartSchema \/ Finish \/ Descend \/ EndDefine \/ CheckField \/ CheckSection \/ Leave \/ UNCHANGED vars
  BY <1>8, <1>9 DEF Declared, StartSchema, Finish, Descend, EndDefine, CheckField, CheckSection, Leave, vars
<1> QED
  BY <1>4, <1>5, <1>6, <1>7, <1>9 DEF Next
-----------------------------------------------------------------------------
(* What is accepted is well-formed *)

\* All chains that begin with this one are right.
Extends(chain, c) == Len(c) <= Len(chain) /\ \A k \in 1..Len(c) : chain[k] = c[k]

Beyond(p, c) == \A chain \in Chains(c[1]) : Extends(chain, c) => LexicalTaken(p, chain)

\* What a frame has found right; last if it is the innermost.
FrameFine(p, c, f, last) ==
  /\ \A n \in Handled(f) : f.items[n].k = "field" => TypeFits(p, c, n)
  /\ f.pass = "check" =>
       \A n \in DOMAIN f.items :
         /\ f.items[n].k = "field" /\ n < f.n => PropertiesTaken(c, f.items[n])
         /\ f.items[n].k = "section" /\ n < (IF last THEN f.n ELSE f.n - 1) =>
              Beyond(p, Append(c, f.items[n].items))

FramesFine(p, fr) == \A m \in DOMAIN fr : FrameFine(p, Chain(fr, 1, m), fr[m], m = Len(fr))

\* The properties before the n-th fit and are distinct.
SoFar(c, field, n) ==
  \A m \in DOMAIN field.props : m < n =>
    /\ Taken(c, field, field.props[m])
    /\ \A l \in 1..(m - 1) : field.props[l].name # field.props[m].name

PropsFine == prop = 1 \/ (Checking("field") /\ SoFar(Chain(frames, 1, Len(frames)), Item, prop))

MarkedFine(p, marked) ==
  \A d \in DOMAIN p : p[d].name \in marked => \A chain \in Chains(p[d].items) : LexicalTaken(p, chain)

FineInv ==
  errors = <<>> /\ BottomUp(program) =>
    MarkedFine(program, resolved) /\ FramesFine(program, frames) /\ PropsFine

LEMMA ChainsAreSeqs ==
  ASSUME NEW items, NEW c, c \in Chains(items)
  PROVE  IsSeq(c)
<1>1. Len(c) \in Nat /\ c = [k \in 1..Len(c) |-> c[k]]
  BY ChainsAre
<1> DEFINE n == Len(c)
<1>2. n \in Nat /\ c = [k \in 1..n |-> c[k]]
  BY <1>1
<1> HIDE DEF n
<1>3. c \in Seq({c[k] : k \in 1..n})
  BY <1>2
<1> QED
  BY <1>3, InSeq

\* A chain from the first frame.
LEMMA ChainFromOne ==
  ASSUME NEW fr, NEW m \in Nat
  PROVE  Chain(fr, 1, m) = [k \in 1..m |-> fr[k].items]
<1>1. (m - 1) + 1 = m /\ \A k \in 1..m : (1 + k) - 1 = k
  OBVIOUS
<1> QED
  BY <1>1 DEF Chain

LEMMA ChainSame ==
  ASSUME NEW fr, NEW gr, NEW m \in Nat, \A k \in 1..m : gr[k].items = fr[k].items
  PROVE  Chain(gr, 1, m) = Chain(fr, 1, m)
BY ChainFromOne

LEMMA SeqIsItself ==
  ASSUME NEW s, NEW n, IsSeq(s), Len(s) = n
  PROVE  s = [k \in 1..n |-> s[k]]
<1> DEFINE S == Range(s)
<1>1. s \in Seq(S)
  BY DEF IsSeq
<1> HIDE DEF S
<1>2. s = [k \in 1..Len(s) |-> s[k]]
  BY ONLY <1>1
<1> QED
  BY ONLY <1>2, Len(s) = n

LEMMA ChainNext ==
  ASSUME NEW fr, NEW m \in Nat
  PROVE  Chain(fr, 1, m + 1) = Append(Chain(fr, 1, m), fr[m + 1].items)
<1> DEFINE c == [k \in 1..m |-> fr[k].items]
           e == fr[m + 1].items
           d == [k \in 1..(m + 1) |-> fr[k].items]
<1>1. c \in Seq({fr[k].items : k \in 1..m}) /\ Len(c) = m /\ \A k \in 1..m : c[k] = d[k]
  OBVIOUS
<1>2. IsSeq(c)
  BY <1>1, InSeq
<1>a. d[m + 1] = e /\ d = [k \in 1..(m + 1) |-> d[k]]
  OBVIOUS
<1>b. Chain(fr, 1, m) = c /\ Chain(fr, 1, m + 1) = d
  BY ChainFromOne
<1> HIDE DEF c, e, d
<1>3. /\ IsSeq(Append(c, e)) /\ Len(Append(c, e)) = m + 1
      /\ \A k \in 1..m : Append(c, e)[k] = c[k]
      /\ Append(c, e)[m + 1] = e
  BY <1>1, <1>2, AppendIs
<1>4. Append(c, e) = [k \in 1..(m + 1) |-> Append(c, e)[k]]
  BY ONLY <1>3, SeqIsItself
<1>5. \A k \in 1..(m + 1) : k \in 1..m \/ k = m + 1
  OBVIOUS
<1>6. \A k \in 1..(m + 1) : Append(c, e)[k] = d[k]
  BY <1>1, <1>a, <1>3, <1>5
<1>7. Append(c, e) = d
  BY <1>a, <1>4, <1>6
<1> QED
  BY <1>b, <1>7 DEF e

\* A frame that has seen all its items leaves all chains through it right.
LEMMA WholeBeyond ==
  ASSUME NEW p, NEW c, NEW items, c \in Chains(items), NEW f, FrameFine(p, c, f, TRUE), f.pass = "check",
         c[Len(c)] = f.items, Len(f.items) \in Nat, DOMAIN f.items = 1..Len(f.items),
         f.n = Len(f.items) + 1, Distinct(f.items)
  PROVE  Beyond(p, c)
<1>1. /\ Len(c) \in Nat \ {0} /\ c[1] = items /\ c = [k \in 1..Len(c) |-> c[k]] /\ IsSeq(c)
  BY ChainsAre, ChainsAreSeqs
<1>2. \A n \in DOMAIN f.items : n < f.n
  OBVIOUS
<1> SUFFICES ASSUME NEW chain \in Chains(items), Extends(chain, c) PROVE LexicalTaken(p, chain)
  BY <1>1 DEF Beyond
<1>3. /\ Len(chain) \in Nat \ {0} /\ Descends(chain, Len(chain))
      /\ chain = [k \in 1..Len(chain) |-> chain[k]]
  BY ChainsAre
<1>4. Len(c) <= Len(chain) /\ \A k \in 1..Len(c) : chain[k] = c[k]
  BY DEF Extends
<1>5. CASE Len(chain) = Len(c)
  <2>1. chain = c
    BY <1>1, <1>3, <1>4, <1>5
  <2>2. Handled(f) = DOMAIN f.items
    BY DEF Handled
  <2>3. \A n \in DOMAIN f.items : f.items[n].k = "field" => TypeFits(p, c, n) /\ PropertiesTaken(c, f.items[n])
    BY <1>2, <2>2 DEF FrameFine
  <2> QED
    BY <2>1, <2>3 DEF LexicalTaken
<1>6. CASE Len(chain) # Len(c)
  <2> DEFINE k == Len(c)
  <2>1. k \in 1..(Len(chain) - 1) /\ k \in 1..Len(c) /\ k + 1 <= Len(chain)
    <3>1. PICK i \in Nat, j \in Nat : i = Len(c) /\ i # 0 /\ j = Len(chain)
      BY ONLY <1>1, <1>3
    <3>2. i <= j /\ i # j
      BY ONLY <1>4, <1>6, <3>1
    <3>3. i \in 1..(j - 1) /\ i \in 1..i /\ i + 1 <= j
      BY ONLY <3>1, <3>2
    <3> QED
      BY ONLY <3>1, <3>3
  <2>2. chain[k + 1] \in Sub(f.items)
    BY <1>3, <1>4, <2>1 DEF Descends
  <2>3. PICK n \in DOMAIN f.items : f.items[n].k = "section" /\ chain[k + 1] = f.items[n].items
    BY <2>2 DEF Sub
  <2> DEFINE d == Append(c, f.items[n].items)
  <2>4. Beyond(p, d)
    BY <1>2, <2>3 DEF FrameFine
  <2>5. /\ Len(d) = Len(c) + 1 /\ \A j \in 1..Len(c) : d[j] = c[j]
        /\ d[Len(c) + 1] = f.items[n].items
    BY <1>1, AppendIs
  <2> HIDE DEF d
  <2>6. 1 \in 1..Len(c) /\ \A j \in 1..(Len(c) + 1) : j \in 1..Len(c) \/ j = Len(c) + 1
    BY <1>1
  <2>7. Extends(chain, d)
    BY <1>4, <2>1, <2>3, <2>5, <2>6 DEF Extends
  <2>8. d[1] = items
    BY <1>1, <2>5, <2>6
  <2> QED
    BY <2>4, <2>7, <2>8 DEF Beyond
<1> QED
  BY <1>5, <1>6

LEMMA FinePush ==
  ASSUME NEW p, NEW fr, IsSeq(fr), \A m \in DOMAIN fr : FrameFine(p, Chain(fr, 1, m), fr[m], FALSE),
         NEW f, f.pass = "define", f.n = 1, DOMAIN f.items = 1..Len(f.items)
  PROVE  FramesFine(p, Append(fr, f))
<1>1. Len(fr) \in Nat /\ DOMAIN fr = 1..Len(fr)
  BY SeqIs
<1> DEFINE gr == Append(fr, f)
<1>2. /\ Len(gr) = Len(fr) + 1 /\ DOMAIN gr = 1..(Len(fr) + 1)
      /\ \A m \in 1..Len(fr) : gr[m] = fr[m]
      /\ gr[Len(fr) + 1] = f
  BY AppendIs
<1> HIDE DEF gr
<1>3. ASSUME NEW m \in DOMAIN gr PROVE FrameFine(p, Chain(gr, 1, m), gr[m], m = Len(gr))
  <2>1. CASE m \in 1..Len(fr)
    <3>1. m \in Nat /\ m # Len(gr) /\ \A k \in 1..m : k \in 1..Len(fr)
      BY <1>1, <1>2, <2>1
    <3>2. \A k \in 1..m : gr[k].items = fr[k].items
      BY <1>2, <3>1
    <3>3. Chain(gr, 1, m) = Chain(fr, 1, m)
      BY ONLY <3>1, <3>2, ChainSame
    <3>4. (m = Len(gr)) = FALSE
      BY <3>1
    <3>5. FrameFine(p, Chain(fr, 1, m), fr[m], FALSE)
      BY <1>1, <2>1
    <3> QED
      BY <1>2, <2>1, <3>3, <3>4, <3>5
  <2>2. CASE m = Len(fr) + 1
    <3>1. Handled(f) = {}
      BY DEF Handled
    <3> QED
      BY <1>2, <2>2, <3>1 DEF FrameFine
  <2> QED
    BY <1>1, <1>2, <2>1, <2>2
<1> QED
  BY <1>3 DEF FramesFine, gr

LEMMA FineMove ==
  ASSUME IInv, frames # <<>>, FramesFine(program, frames), NEW n, NEW pass,
         FrameFine(program, Chain(frames, 1, Len(frames)),
           [decl |-> Top.decl, items |-> Top.items, n |-> n, pass |-> pass], TRUE)
  PROVE  FramesFine(program, Moved(n, pass))
<1> DEFINE f == [decl |-> Top.decl, items |-> Top.items, n |-> n, pass |-> pass]
           gr == Moved(n, pass)
<1>1. /\ Len(gr) = Len(frames) /\ DOMAIN gr = DOMAIN frames
      /\ \A m \in DOMAIN frames : m # Len(frames) => gr[m] = frames[m]
      /\ gr[Len(frames)] = f
  BY MovedIs
<1>2. \A m \in DOMAIN frames : gr[m].items = frames[m].items
  BY MovedItems
<1>3. DOMAIN frames = 1..Len(frames) /\ Len(frames) \in Nat
  BY StateIs
<1>4. FrameFine(program, Chain(frames, 1, Len(frames)), f, TRUE)
  OBVIOUS
<1> HIDE DEF gr, f
<1>5. ASSUME NEW m \in DOMAIN gr PROVE FrameFine(program, Chain(gr, 1, m), gr[m], m = Len(gr))
  <2>1. m \in Nat /\ \A k \in 1..m : gr[k].items = frames[k].items
    BY <1>1, <1>2, <1>3
  <2>2. Chain(gr, 1, m) = Chain(frames, 1, m)
    BY ONLY <2>1, ChainSame
  <2>3. CASE m = Len(frames)
    <3>1. (m = Len(gr)) = TRUE
      BY <1>1, <2>3
    <3> QED
      BY <1>1, <1>4, <2>2, <2>3, <3>1
  <2>4. CASE m # Len(frames)
    <3>1. (m = Len(gr)) = (m = Len(frames))
      BY <1>1
    <3>2. FrameFine(program, Chain(frames, 1, m), frames[m], m = Len(frames))
      BY <1>1 DEF FramesFine
    <3> QED
      BY <1>1, <2>2, <2>4, <3>1, <3>2
  <2> QED
    BY <2>3, <2>4
<1> QED
  BY <1>5 DEF FramesFine, gr

LEMMA FineBefore ==
  ASSUME IInv, FilledInv, FineInv, Next, errors' = <<>>, BottomUp(program)
  PROVE  /\ errors = <<>> /\ FilledAll(frames, scopes)
         /\ MarkedFine(program, resolved) /\ FramesFine(program, frames) /\ PropsFine
<1>1. errors = <<>>
  BY ReportsGrow
<1> QED
  BY <1>1 DEF FilledInv, FineInv

\* The innermost frame and its chain.
LEMMA TopFine ==
  ASSUME IInv, TextInv, BottomInv, BottomUp(program), frames # <<>>, FramesFine(program, frames)
  PROVE  LET c == Chain(frames, 1, Len(frames))
         IN  /\ Based(frames, 1, Len(frames)) /\ frames[1].decl = at - 1
             /\ FrameFine(program, c, Top, TRUE)
             /\ frames[1].decl \in DOMAIN program
             /\ c \in Chains(program[frames[1].decl].items)
             /\ c[Len(c)] = Top.items
<1>1. PICK m \in Nat : m = Len(frames) /\ m \in DOMAIN frames
  BY StateIs
<1>2. Based(frames, 1, m) /\ frames[1].decl = at - 1
  BY <1>1, OneBase
<1> DEFINE c == Chain(frames, 1, m)
<1>3. /\ frames[1].decl \in DOMAIN program
      /\ c \in Chains(program[frames[1].decl].items)
      /\ Len(c) = (m - 1) + 1 /\ c[(m - 1) + 1] = frames[m].items
  BY <1>1, <1>2, ChainOfFrame
<1>4. Top = frames[m]
  BY <1>1 DEF Top
<1>5. FrameFine(program, c, frames[m], m = Len(frames))
  BY <1>1 DEF FramesFine
<1>6. (m = Len(frames)) = TRUE
  BY <1>1
<1> HIDE DEF c
<1>7. FrameFine(program, c, Top, TRUE)
  BY <1>4, <1>5, <1>6
<1>8. c[Len(c)] = Top.items
  BY <1>3, <1>4
<1> QED
  BY <1>1, <1>2, <1>3, <1>7, <1>8 DEF c

LEMMA DefineFine ==
  ASSUME IInv, PassInv, TextInv, BottomInv, FilledInv, FineInv, DefineField \/ DefineSection
  PROVE  FineInv'
<1>0. program' = program /\ UNCHANGED <<prop, resolved>>
  BY DEF DefineField, DefineSection
<1> SUFFICES ASSUME errors' = <<>>, BottomUp(program)
             PROVE  MarkedFine(program, resolved) /\ FramesFine(program, frames') /\ prop = 1
  BY <1>0 DEF FineInv, BottomUp, PropsFine
<1>1. /\ errors = <<>> /\ FilledAll(frames, scopes)
      /\ MarkedFine(program, resolved) /\ FramesFine(program, frames) /\ PropsFine
  BY FineBefore DEF Next
<1>2. /\ frames # <<>> /\ Top.pass = "define" /\ More
      /\ frames' = Moved(Top.n + 1, Top.pass)
  BY AdvancedMoved DEF DefineField, DefineSection, Defining
<1>3. prop = 1
  BY <1>1, <1>2 DEF PropsFine, Checking
<1> DEFINE c == Chain(frames, 1, Len(frames))
           g == [decl |-> Top.decl, items |-> Top.items, n |-> Top.n + 1, pass |-> Top.pass]
<1>4. Based(frames, 1, Len(frames)) /\ FrameFine(program, c, Top, TRUE)
  BY <1>1, <1>2, TopFine
<1>5. Top.n \in DOMAIN Top.items /\ DOMAIN Top.items \subseteq Nat
  BY <1>2, TopIs
<1>6. g.items = Top.items /\ g.n = Top.n + 1 /\ g.pass = "define"
  BY <1>2
<1>7. Top.items[Top.n].k = "field" => TypeFits(program, c, Top.n)
  <2> SUFFICES ASSUME Item.k = "field" PROVE TypeFits(program, c, Top.n)
    BY DEF Item
  <2>1. /\ Defining("field")
        /\ Define(Item.name, Symbol(FieldType(Item), 0), TypeErrors(Item.type))
    BY DEF DefineField, DefineSection, Defining
  <2>2. TypeErrors(Item.type) = <<>>
    BY <2>1, TypeErrorsAre, DefineIs
  <2>3. Item.type \in BuiltIn \/ IsSchema(Item.type)
    BY <2>2, TypeErrorsNone
  <2> QED
    BY <1>1, <1>4, <2>1, <2>3, TypeSeen
<1> HIDE DEF c, g
<1>8. FrameFine(program, c, g, TRUE)
  <2>1. \A n \in Handled(g) : n \in Handled(Top) \/ n = Top.n
    BY <1>2, <1>5, <1>6 DEF Handled
  <2> QED
    BY <1>4, <1>6, <1>7, <2>1 DEF FrameFine
<1>9. FramesFine(program, frames')
  BY <1>1, <1>2, <1>8, FineMove DEF c, g
<1> QED
  BY <1>1, <1>3, <1>9

LEMMA EndDefineFine ==
  ASSUME IInv, PassInv, TextInv, BottomInv, FilledInv, FineInv, EndDefine
  PROVE  FineInv'
<1>0. program' = program /\ UNCHANGED <<prop, resolved>>
  BY DEF EndDefine
<1> SUFFICES ASSUME errors' = <<>>, BottomUp(program)
             PROVE  MarkedFine(program, resolved) /\ FramesFine(program, frames') /\ prop = 1
  BY <1>0 DEF FineInv, BottomUp, PropsFine
<1>1. /\ MarkedFine(program, resolved) /\ FramesFine(program, frames) /\ PropsFine
  BY FineBefore DEF Next
<1>2. frames # <<>> /\ Top.pass = "define" /\ ~More /\ frames' = Moved(1, "check")
  BY EndDefineMoved DEF EndDefine
<1>3. prop = 1
  BY <1>1, <1>2 DEF PropsFine, Checking
<1> DEFINE c == Chain(frames, 1, Len(frames))
           g == [decl |-> Top.decl, items |-> Top.items, n |-> 1, pass |-> "check"]
<1>4. FrameFine(program, c, Top, TRUE)
  BY <1>1, <1>2, TopFine
<1>5. g.items = Top.items /\ g.n = 1 /\ g.pass = "check"
  OBVIOUS
<1>6. Top.n = Len(Top.items) + 1 /\ Len(Top.items) \in Nat /\ DOMAIN Top.items = 1..Len(Top.items)
  BY <1>2, TopIs
<1> HIDE DEF c, g
<1>7. FrameFine(program, c, g, TRUE)
  <2>1. \A n \in DOMAIN Top.items : n \in Handled(Top) /\ ~(n < 1)
    BY <1>6 DEF Handled
  <2>2. Handled(g) = DOMAIN Top.items
    BY <1>5 DEF Handled
  <2> QED
    BY <1>4, <1>5, <2>1, <2>2 DEF FrameFine
<1>8. FramesFine(program, frames')
  BY <1>1, <1>2, <1>7, FineMove DEF c, g
<1> QED
  BY <1>1, <1>3, <1>8

LEMMA CheckPropertyFine ==
  ASSUME IInv, PassInv, TextInv, BottomInv, GlobalInv, PropOK, FilledInv, FineInv, CheckProperty
  PROVE  FineInv'
<1>0. program' = program /\ UNCHANGED <<frames, resolved>> /\ prop' = prop + 1
  BY DEF CheckProperty
<1>a. Checking("field")' <=> Checking("field")
  BY <1>0 DEF Checking, More, Item, Top
<1>b. Item' = Item
  BY <1>0 DEF Item, Top
<1> DEFINE c == Chain(frames, 1, Len(frames))
<1> SUFFICES ASSUME errors' = <<>>, BottomUp(program)
             PROVE  /\ MarkedFine(program, resolved) /\ FramesFine(program, frames)
                    /\ Checking("field") /\ SoFar(c, Item, prop + 1)
  BY <1>0, <1>a, <1>b DEF FineInv, BottomUp, PropsFine
<1>1. /\ errors = <<>> /\ FilledAll(frames, scopes)
      /\ MarkedFine(program, resolved) /\ FramesFine(program, frames) /\ PropsFine
  BY FineBefore DEF Next
<1>2. /\ frames # <<>> /\ Checking("field") /\ prop <= Len(Item.props)
      /\ errors' = errors \o PropertyErrors(Scope[Item.name].type, Item.props, prop)
      /\ More /\ Item.k = "field"
  BY DEF CheckProperty, Checking
<1>3. Based(frames, 1, Len(frames))
  BY <1>1, <1>2, TopFine
<1>4. prop \in DOMAIN Item.props /\ DOMAIN Item.props = 1..Len(Item.props) /\ Len(Item.props) \in Nat
  <2>1. /\ Top = frames[Len(frames)] /\ Len(frames) \in DOMAIN frames
        /\ Top.n \in DOMAIN Top.items /\ Item = Top.items[Top.n]
    BY <1>2, TopIs DEF Item
  <2>2. ItemOK(Item)
    BY <2>1, ItemsAreOK
  <2> QED
    BY <1>2, <2>2 DEF ItemOK, PropOK
<1>5. PropertyErrors(Scope[Item.name].type, Item.props, prop) = <<>>
  <2>1. IsSeq(PropertyErrors(Scope[Item.name].type, Item.props, prop)) /\ IsSeq(errors)
    BY PropertyErrorsOK, StateIs DEF ErrorsOK
  <2> QED
    BY <1>2, <2>1, ConcatEmpty
<1>6. /\ Taken(c, Item, Item.props[prop])
      /\ \A m \in 1..(prop - 1) : Item.props[m].name # Item.props[prop].name
  BY <1>2, <1>1, <1>3, <1>4, <1>5, PropertyTaken
<1> HIDE DEF c
<1>7. SoFar(c, Item, prop)
  <2>1. prop = 1 => \A m \in DOMAIN Item.props : ~(m < prop)
    BY <1>4
  <2> QED
    BY <1>1, <2>1 DEF PropsFine, SoFar, c
<1>8. SoFar(c, Item, prop + 1)
  <2>1. \A m \in DOMAIN Item.props : m < prop + 1 => m < prop \/ m = prop
    BY <1>4
  <2> QED
    BY <1>6, <1>7, <2>1 DEF SoFar
<1> QED
  BY <1>1, <1>2, <1>8 DEF c

\* One more item of the second pass.
LEMMA NextFine ==
  ASSUME NEW p, NEW c, NEW f, FrameFine(p, c, f, TRUE), f.pass = "check", f.n \in DOMAIN f.items,
         DOMAIN f.items \subseteq Nat, NEW g, g.items = f.items, g.n = f.n + 1, g.pass = f.pass,
         f.items[f.n].k = "field" => PropertiesTaken(c, f.items[f.n]),
         NEW last \in BOOLEAN, last => f.items[f.n].k # "section"
  PROVE  FrameFine(p, c, g, last)
<1>1. Handled(g) = Handled(f)
  BY DEF Handled
<1>2. \A n \in DOMAIN f.items : n < g.n => n < f.n \/ n = f.n
  OBVIOUS
<1>3. (g.n - 1) = f.n
  OBVIOUS
<1>4. \A n \in DOMAIN f.items :
        /\ f.items[n].k = "field" /\ n < f.n => PropertiesTaken(c, f.items[n])
        /\ f.items[n].k = "section" /\ n < f.n => Beyond(p, Append(c, f.items[n].items))
  BY DEF FrameFine
<1>5. \A n \in DOMAIN f.items : f.items[n].k = "section" /\ n < (IF last THEN g.n ELSE g.n - 1) => n < f.n
  BY <1>2, <1>3
<1> QED
  BY <1>1, <1>2, <1>4, <1>5 DEF FrameFine

LEMMA CheckFieldFine ==
  ASSUME IInv, PassInv, TextInv, BottomInv, PropOK, FilledInv, FineInv, CheckField
  PROVE  FineInv'
<1>0. program' = program /\ UNCHANGED resolved /\ prop' = 1
  BY DEF CheckField
<1> SUFFICES ASSUME errors' = <<>>, BottomUp(program)
             PROVE  MarkedFine(program, resolved) /\ FramesFine(program, frames')
  BY <1>0 DEF FineInv, BottomUp, PropsFine
<1>1. /\ MarkedFine(program, resolved) /\ FramesFine(program, frames) /\ PropsFine
  BY FineBefore DEF Next
<1>2. /\ frames # <<>> /\ Top.pass = "check" /\ More /\ Item.k = "field"
      /\ prop > Len(Item.props) /\ frames' = Moved(Top.n + 1, Top.pass)
  BY AdvancedMoved DEF CheckField, Checking
<1> DEFINE c == Chain(frames, 1, Len(frames))
           g == [decl |-> Top.decl, items |-> Top.items, n |-> Top.n + 1, pass |-> Top.pass]
<1>3. FrameFine(program, c, Top, TRUE)
  BY <1>1, <1>2, TopFine
<1>4. /\ Top = frames[Len(frames)] /\ Len(frames) \in DOMAIN frames
      /\ Top.n \in DOMAIN Top.items /\ Item = Top.items[Top.n] /\ DOMAIN Top.items \subseteq Nat
  BY <1>2, TopIs DEF Item
<1>5. g.items = Top.items /\ g.n = Top.n + 1 /\ g.pass = Top.pass
  OBVIOUS
<1>6. PropertiesTaken(c, Item)
  <2>1. ItemOK(Item)
    BY <1>4, ItemsAreOK
  <2>2. DOMAIN Item.props = 1..Len(Item.props) /\ Len(Item.props) \in Nat
    BY <1>2, <2>1 DEF ItemOK
  <2>3. SoFar(c, Item, prop)
    <3>1. prop = 1 => DOMAIN Item.props = {}
      BY <1>2, <2>2
    <3> QED
      BY <1>1, <3>1 DEF PropsFine, SoFar
  <2>4. \A m \in DOMAIN Item.props : m < prop
    BY <1>2, <2>2 DEF PropOK
  <2>5. ASSUME NEW l \in DOMAIN Item.props, NEW m \in DOMAIN Item.props,
               Item.props[l].name = Item.props[m].name
        PROVE  l = m
    <3>1. /\ \A i \in 1..(m - 1) : Item.props[i].name # Item.props[m].name
          /\ \A i \in 1..(l - 1) : Item.props[i].name # Item.props[l].name
      BY <2>3, <2>4 DEF SoFar
    <3>2. l \notin 1..(m - 1) /\ m \notin 1..(l - 1)
      BY <2>5, <3>1
    <3> QED
      BY <2>2, <3>2
  <2> QED
    BY <2>3, <2>4, <2>5 DEF SoFar, PropertiesTaken, Distinct
<1> HIDE DEF c, g
<1>7. FrameFine(program, c, g, TRUE)
  BY <1>2, <1>3, <1>4, <1>5, <1>6, NextFine
<1>8. FramesFine(program, frames')
  BY <1>1, <1>2, <1>7, FineMove DEF c, g
<1> QED
  BY <1>1, <1>8

\* A frame that is right is so with its last section still open.
LEMMA FineNotLast ==
  ASSUME NEW p, NEW c, NEW f, FrameFine(p, c, f, TRUE), f.n \in Nat, DOMAIN f.items \subseteq Nat
  PROVE  FrameFine(p, c, f, FALSE)
<1>1. \A n \in DOMAIN f.items : n < f.n - 1 => n < f.n
  OBVIOUS
<1> QED
  BY <1>1 DEF FrameFine

LEMMA CheckSectionFine ==
  ASSUME IInv, PassInv, TextInv, BottomInv, FilledInv, FineInv, CheckSection
  PROVE  FineInv'
<1>0. program' = program /\ UNCHANGED <<prop, resolved, errors>>
  BY DEF CheckSection
<1> SUFFICES ASSUME errors' = <<>>, BottomUp(program)
             PROVE  MarkedFine(program, resolved) /\ FramesFine(program, frames') /\ prop = 1
  BY <1>0 DEF FineInv, BottomUp, PropsFine
<1>1. /\ MarkedFine(program, resolved) /\ FramesFine(program, frames) /\ PropsFine
  BY FineBefore DEF Next
<1> DEFINE f == Frame(0, Item.items)
           gr == Moved(Top.n + 1, Top.pass)
           c == Chain(frames, 1, Len(frames))
           g == [decl |-> Top.decl, items |-> Top.items, n |-> Top.n + 1, pass |-> Top.pass]
<1>2. /\ frames # <<>> /\ More /\ Item.k = "section" /\ Top.pass = "check"
      /\ frames' = Append(gr, f)
  BY AdvancedMoved DEF CheckSection, Checking
<1>3. f.items = Item.items /\ f.n = 1 /\ f.pass = "define"
  BY DEF Frame
<1>4. prop = 1
  BY <1>1, <1>2 DEF PropsFine, Checking
<1>5. FrameFine(program, c, Top, TRUE)
  BY <1>1, <1>2, TopFine
<1>6. g.items = Top.items /\ g.n = Top.n + 1 /\ g.pass = Top.pass
  OBVIOUS
<1>7. /\ IsSeq(gr) /\ DOMAIN gr = DOMAIN frames
      /\ \A m \in DOMAIN frames : m # Len(frames) => gr[m] = frames[m]
      /\ gr[Len(frames)] = g
  BY <1>2, MovedIs
<1>8. \A m \in DOMAIN frames : gr[m].items = frames[m].items
  BY <1>2, MovedItems
<1>9. /\ Shallow(Top.items) /\ Top.n \in DOMAIN Top.items /\ DOMAIN Top.items \subseteq Nat
      /\ Item = Top.items[Top.n]
  BY <1>2, TopIs DEF Item
<1>10. DOMAIN frames = 1..Len(frames) /\ Len(frames) \in Nat
  BY StateIs
<1> HIDE DEF f, gr, c, g
<1>11. DOMAIN f.items = 1..Len(f.items)
  <2>1. f.items \in Sub(Top.items)
    BY <1>2, <1>3, <1>9, SubIs
  <2>2. Shallow(f.items) /\ f.items \in Parts(f.items)
    BY <1>9, <2>1, SectionsAreShallow, PartsHoldItems
  <2> QED
    BY <2>2 DEF Shallow
<1>12. FrameFine(program, c, g, FALSE)
  BY <1>2, <1>5, <1>6, <1>9, NextFine
<1>13. ASSUME NEW m \in DOMAIN gr PROVE FrameFine(program, Chain(gr, 1, m), gr[m], FALSE)
  <2>1. m \in Nat /\ \A k \in 1..m : gr[k].items = frames[k].items
    BY <1>7, <1>8, <1>10
  <2>2. Chain(gr, 1, m) = Chain(frames, 1, m)
    BY ONLY <2>1, ChainSame
  <2>3. CASE m = Len(frames)
    BY <1>7, <1>12, <2>2, <2>3 DEF c
  <2>4. CASE m # Len(frames)
    <3>1. FrameFine(program, Chain(frames, 1, m), frames[m], m = Len(frames))
      BY <1>1, <1>7 DEF FramesFine
    <3>2. (m = Len(frames)) = FALSE
      BY <2>4
    <3> QED
      BY <1>7, <2>2, <2>4, <3>1, <3>2
  <2> QED
    BY <2>3, <2>4
<1>14. FramesFine(program, Append(gr, f))
  BY <1>3, <1>7, <1>11, <1>13, FinePush
<1> QED
  BY <1>1, <1>2, <1>4, <1>14

LEMMA StartSchemaFine ==
  ASSUME IInv, PassInv, TextInv, BottomInv, FilledInv, FineInv, StartSchema
  PROVE  FineInv'
<1>0. program' = program /\ UNCHANGED <<prop, errors>> /\ frames = <<>> /\ pc = "check" /\ at \in DOMAIN program
  BY StateIs DEF StartSchema, IInv, CountersOK
<1> SUFFICES ASSUME errors' = <<>>, BottomUp(program)
             PROVE  MarkedFine(program, resolved') /\ FramesFine(program, frames') /\ prop = 1
  BY <1>0 DEF FineInv, BottomUp, PropsFine
<1>1. /\ MarkedFine(program, resolved) /\ FramesFine(program, frames) /\ PropsFine
  BY FineBefore DEF Next
<1>2. prop = 1
  BY <1>0, <1>1 DEF PropsFine, Checking
<1>3. CASE Enter(at)
  <2> DEFINE f == Frame(at, program[at].items)
  <2>1. frames' = Append(frames, f) /\ resolved' = resolved
    BY <1>3 DEF Enter
  <2>2. f.items = program[at].items /\ f.n = 1 /\ f.pass = "define"
    BY DEF Frame
  <2> HIDE DEF f
  <2>3. DOMAIN f.items = 1..Len(f.items)
    <3>1. Shallow(f.items) /\ f.items \in Parts(f.items)
      BY <1>0, <2>2, SchemasAreShallow, PartsHoldItems DEF IInv
    <3> QED
      BY <3>1 DEF Shallow
  <2>4. IsSeq(frames) /\ DOMAIN frames = {}
    BY <1>0, EmptyIs
  <2>5. FramesFine(program, Append(frames, f))
    BY <2>2, <2>3, <2>4, FinePush
  <2> QED
    BY <1>1, <1>2, <2>1, <2>5
<1>4. CASE UNCHANGED <<frames, resolved>>
  BY <1>1, <1>2, <1>4
<1> QED
  BY <1>3, <1>4 DEF StartSchema

LEMMA LeaveFine ==
  ASSUME IInv, PassInv, TextInv, BottomInv, FilledInv, FineInv, Leave
  PROVE  FineInv'
<1>0. program' = program /\ UNCHANGED <<prop, errors>>
  BY DEF Leave
<1> SUFFICES ASSUME errors' = <<>>, BottomUp(program)
             PROVE  MarkedFine(program, resolved') /\ FramesFine(program, frames') /\ prop = 1
  BY <1>0 DEF FineInv, BottomUp, PropsFine
<1>1. /\ errors = <<>> /\ FilledAll(frames, scopes)
      /\ MarkedFine(program, resolved) /\ FramesFine(program, frames) /\ PropsFine
  BY FineBefore DEF Next
<1>2. /\ frames # <<>> /\ Top.pass = "check" /\ ~More /\ frames' = Front(frames)
  BY DEF Leave, Finished
<1>3. prop = 1
  BY <1>1, <1>2 DEF PropsFine, Checking
<1>4. PICK m \in Nat : m = Len(frames)
  BY StateIs
<1>5. m \in 1..m /\ m \in DOMAIN frames /\ DOMAIN frames = 1..m /\ IsSeq(frames)
  BY <1>2, <1>4, StateIs
<1> DEFINE c == Chain(frames, 1, m)
           d == frames[1].decl
<1>6. /\ Based(frames, 1, m) /\ d = at - 1
      /\ FrameFine(program, c, Top, TRUE)
      /\ d \in DOMAIN program
      /\ c \in Chains(program[d].items)
      /\ c[Len(c)] = Top.items
  BY <1>1, <1>2, <1>4, TopFine
<1>7. /\ Top = frames[m] /\ Len(Top.items) \in Nat /\ DOMAIN Top.items = 1..Len(Top.items)
      /\ Top.n = Len(Top.items) + 1
  BY <1>2, <1>4, TopIs
<1>8. Distinct(Top.items)
  BY <1>1, <1>2, TopFilled, FilledWhole DEF Whole
<1> HIDE DEF c, d
<1>9. Beyond(program, c)
  BY <1>2, <1>6, <1>7, <1>8, WholeBeyond
<1>10. /\ DOMAIN frames' = 1..(m - 1) /\ Len(frames') = m - 1 /\ IsSeq(frames')
       /\ \A k \in 1..(m - 1) : frames'[k] = frames[k] /\ k \in 1..m
  <2>1. /\ IsSeq(Front(frames)) /\ Len(Front(frames)) = m - 1
        /\ DOMAIN Front(frames) = 1..(m - 1)
        /\ \A k \in 1..(m - 1) : Front(frames)[k] = frames[k]
    BY <1>2, <1>4, <1>5, FrontIs
  <2>2. \A k \in 1..(m - 1) : k \in 1..m
    BY <1>4
  <2> QED
    BY <1>2, <2>1, <2>2
<1>11. MarkedFine(program, resolved')
  <2>1. CASE Top.decl = 0
    <3>1. resolved' = resolved
      BY <2>1, LeaveIs
    <3> QED
      BY <1>1, <3>1
  <2>2. CASE Top.decl # 0
    <3>1. m = 1
      BY <1>5, <1>6, <1>7, <2>2 DEF BottomInv
    <3>2. Top.decl = d /\ resolved' = resolved \cup {program[d].name}
      BY <1>7, <2>2, <3>1, LeaveIs DEF d
    <3>3. c = [k \in 1..1 |-> frames[k].items]
      BY <3>1, ChainFromOne DEF c
    <3>4. Len(c) = 1 /\ c[1] = program[d].items
      <4>1. c[1] = program[d].items
        BY <1>6, ChainsAre
      <4>2. DOMAIN c = 1..1 /\ Len(c) \in Nat /\ DOMAIN c = 1..Len(c)
        <5>1. IsSeq(c)
          BY <1>6, ChainsAreSeqs
        <5> QED
          BY <3>3, <5>1, SeqIs
      <4>3. Len(c) = 1
        <5>1. PICK l \in Nat : l = Len(c) /\ 1..l = 1..1
          BY ONLY <4>2
        <5>2. 1 \in Nat
          OBVIOUS
        <5> QED
          BY ONLY <5>1, <5>2, SameRange
      <4> QED
        BY <4>1, <4>3
    <3>5. ASSUME NEW chain \in Chains(program[d].items) PROVE LexicalTaken(program, chain)
      <4>1. Len(chain) \in Nat \ {0} /\ chain[1] = program[d].items
        BY ChainsAre
      <4>2. \A k \in 1..1 : k = 1
        OBVIOUS
      <4>3. Extends(chain, c)
        BY <3>4, <4>1, <4>2 DEF Extends
      <4> QED
        BY <1>9, <3>4, <4>3 DEF Beyond
    <3>6. \A e \in DOMAIN program : program[e].name = program[d].name => e = d
      <4>1. pc = "check" /\ Upto = Len(program)
        BY <1>2, InsideIs
      <4>2. DistinctUpto(program, Len(program)) /\ DOMAIN program = 1..Len(program)
        BY <1>1, <4>1, StateIs DEF PassInv
      <4> QED
        BY <1>6, <4>2 DEF DistinctUpto
    <3> QED
      BY <1>1, <3>2, <3>5, <3>6 DEF MarkedFine
  <2> QED
    BY <2>1, <2>2
<1>12. ASSUME NEW k \in DOMAIN frames'
       PROVE  FrameFine(program, Chain(frames', 1, k), frames'[k], k = Len(frames'))
  <2>1. k \in 1..(m - 1) /\ k \in Nat /\ frames'[k] = frames[k] /\ k # m /\ k \in DOMAIN frames
    BY <1>5, <1>10
  <2>2. PICK gr : gr = frames'
    OBVIOUS
  <2>3. \A j \in 1..k : gr[j].items = frames[j].items
    <3>1. \A j \in 1..k : j \in 1..(m - 1)
      BY <2>1, <1>4
    <3> QED
      BY <1>10, <2>2, <3>1
  <2>4. Chain(gr, 1, k) = Chain(frames, 1, k)
    BY ONLY <2>1, <2>3, ChainSame
  <2>5. FrameFine(program, Chain(frames, 1, k), frames[k], FALSE)
    <3>1. FrameFine(program, Chain(frames, 1, k), frames[k], k = Len(frames))
      BY <1>1, <2>1 DEF FramesFine
    <3>2. (k = Len(frames)) = FALSE
      BY <1>4, <2>1
    <3> QED
      BY <3>1, <3>2
  <2>6. CASE k # m - 1
    <3>1. (k = Len(frames')) = FALSE
      BY <1>10, <2>6
    <3> QED
      BY <2>1, <2>2, <2>4, <2>5, <3>1
  <2>7. CASE k = m - 1
    <3>1. (k = Len(frames')) = TRUE /\ m = k + 1
      BY <1>4, <1>10, <2>7
    <3>2. c = Append(Chain(frames, 1, k), frames[m].items)
      BY <2>1, <3>1, ChainNext DEF c
    <3>3. frames[m].decl = 0 /\ Link(frames[k], frames[m])
      <4>1. m \in DOMAIN frames \ {1} /\ m - 1 = k
        BY <1>5, <2>1, <3>1
      <4> QED
        BY <4>1 DEF BottomInv, TextInv, Linked
    <3>4. /\ frames[k].pass = "check" /\ frames[k].n - 1 \in DOMAIN frames[k].items
          /\ Gone(frames[k]).k = "section" /\ frames[m].items = Gone(frames[k]).items
      BY <3>3 DEF Link
    <3>5. /\ DOMAIN frames[k].items \subseteq Nat /\ frames[k].n \in Nat
      BY <2>1, FrameIsPlaced
    <3> DEFINE f == frames[k]
               j == f.n - 1
               b == Chain(frames, 1, k)
    <3>6. Beyond(program, Append(b, f.items[j].items))
      BY <1>9, <3>2, <3>4 DEF Gone
    <3>7. \A n \in DOMAIN f.items : n < f.n => n < f.n - 1 \/ n = j
      BY <3>5
    <3>8. FrameFine(program, b, f, TRUE)
      <4>1. FrameFine(program, b, f, FALSE)
        BY <2>5
      <4> HIDE DEF b, f
      <4> QED
        BY <3>6, <3>7, <4>1 DEF FrameFine
    <3> QED
      BY <2>1, <2>2, <2>4, <3>1, <3>8
  <2> QED
    BY <2>6, <2>7
<1> QED
  BY <1>3, <1>11, <1>12 DEF FramesFine

LEMMA StepKeepsFine ==
  IInv /\ PassInv /\ BodiesInv /\ TextInv /\ PropOK /\ FilledInv /\ GlobalInv /\ BottomInv /\ FineInv /\ [Next]_vars
    => FineInv'
<1> SUFFICES ASSUME IInv, PassInv, BodiesInv, TextInv, PropOK, FilledInv, GlobalInv, BottomInv, FineInv, [Next]_vars
             PROVE  FineInv'
  OBVIOUS
<1>1. CASE UNCHANGED vars
  <2>1. Checking("field")' <=> Checking("field")
    BY <1>1 DEF vars, Checking, More, Item, Top
  <2>2. Item' = Item
    BY <1>1 DEF vars, Item, Top
  <2> QED
    BY <1>1, <2>1, <2>2 DEF vars, FineInv, BottomUp, PropsFine
<1>2. CASE Declare \/ Declared \/ Finish
  <2>1. /\ program' = program /\ frames = <<>> /\ UNCHANGED <<frames, resolved, prop>>
    BY <1>2 DEF Declare, Declared, Finish, PassInv
  <2> SUFFICES ASSUME errors' = <<>>, BottomUp(program)
               PROVE  MarkedFine(program, resolved) /\ FramesFine(program, frames) /\ prop = 1
    BY <2>1 DEF FineInv, BottomUp, PropsFine
  <2>2. MarkedFine(program, resolved) /\ FramesFine(program, frames) /\ PropsFine
    BY <1>2, FineBefore DEF Next
  <2> QED
    BY <2>1, <2>2 DEF PropsFine, Checking
<1>3. CASE Descend
  <2>1. program' = program /\ errors' = errors
    BY <1>3 DEF Descend
  <2>2. ~BottomUp(program)
    BY <1>3, NoDescent
  <2> QED
    BY <2>1, <2>2 DEF FineInv, BottomUp
<1> QED
  BY <1>1, <1>2, <1>3, StartSchemaFine, DefineFine, EndDefineFine, CheckPropertyFine, CheckFieldFine,
     CheckSectionFine, LeaveFine DEF Next

RulesInv == FilledInv /\ GlobalInv /\ BottomInv /\ AcceptInv /\ FineInv

LEMMA InitRules == Init => RulesInv
<1> SUFFICES ASSUME Init PROVE RulesInv
  OBVIOUS
<1>1. frames = <<>> /\ errors = <<>> /\ resolved = {} /\ prop = 1 /\ DOMAIN frames = {}
  BY EmptyIs DEF Init
<1>2. GlobalInv
  <2>1. scopes[1] = NoSymbols /\ DOMAIN NoSymbols = {}
    BY DEF Init, NoSymbols
  <2> QED
    BY <2>1 DEF GlobalInv
<1> QED
  BY <1>1, <1>2 DEF RulesInv, FilledInv, FilledAll, BottomInv, AcceptInv, FineInv, MarkedFine, FramesFine, PropsFine

LEMMA StepKeepsRules ==
  IInv /\ PassInv /\ BodiesInv /\ TextInv /\ PropOK /\ RulesInv /\ [Next]_vars => RulesInv'
BY StepKeepsFilled, StepKeepsGlobal, StepKeepsBottom, StepKeepsAccept, StepKeepsFine DEF RulesInv

\* Nothing was reported of a program written bottom-up: its text is taken.
LEMMA DoneIsTaken ==
  ASSUME IInv, PassInv, BodiesInv, FineInv, Done, BottomUp(program), errors = <<>>
  PROVE  WellTaken(program)
<1>1. DOMAIN program = 1..Len(program) /\ Upto = Len(program)
  BY StateIs DEF Done, Upto
<1>2. Distinct(program)
  BY <1>1 DEF PassInv, DistinctUpto, Distinct
<1>3. \A d \in DOMAIN program : \A chain \in Chains(program[d].items) : LexicalTaken(program, chain)
  BY DoneIsAll DEF FineInv, MarkedFine
<1>4. Layered(program)
  <2> DEFINE rank == [d \in DOMAIN program |-> d]
  <2>1. rank \in [DOMAIN program -> DOMAIN program] /\ \A d \in DOMAIN program : rank[d] = d
    OBVIOUS
  <2> HIDE DEF rank
  <2>2. Orders(program, rank)
    BY <2>1 DEF BottomUp, Orders
  <2> QED
    BY <2>1, <2>2 DEF Layered
<1> QED
  BY <1>2, <1>3, <1>4 DEF WellTaken

\* All of it together.
LEMMA RulesHold == Spec => [](IInv /\ PassInv /\ BodiesInv /\ TextInv /\ PropOK /\ RulesInv)
<1>1. Init => IInv /\ PassInv /\ BodiesInv /\ TextInv /\ PropOK /\ RulesInv
  BY InitInv, InitPass, InitBodies, InitText, InitRules DEF Init, PropOK
<1>2. IInv /\ PassInv /\ BodiesInv /\ TextInv /\ PropOK /\ RulesInv /\ [Next]_vars
        => (IInv /\ PassInv /\ BodiesInv /\ TextInv /\ PropOK /\ RulesInv)'
  BY StepKeepsInv, StepKeepsPass, StepKeepsBodies, StepKeepsText, PropIsCounted, StepKeepsRules
<1> QED
  BY <1>1, <1>2, PTL DEF Spec

\* Where no field hides a schema, a well-formed program is refused for nothing
\* but the properties that the checker does not support (Refused), in whatever
\* order its schemas are written and whichever way each is reached
\* (typecheck_program, resolve_ast_type).
THEOREM NoneIsRefused == Spec => []WellFormedIsAccepted
<1>1. RulesInv => WellFormedIsAccepted
  BY WellTakenIs DEF RulesInv, AcceptInv, WellFormedIsAccepted
<1> QED
  BY RulesHold, <1>1, PTL

\* Written bottom-up, a program is accepted exactly when it is well-formed and
\* none of its properties is among those the checker does not support: the scopes
\* and tables of the checker decide what the rules say of the text, down to each
\* property and each condition of each field (typecheck_scope_items,
\* typecheck_field_properties, check_value_matches).
THEOREM BottomUpIsExact == Spec => []ExactBottomUp
<1>1. IInv /\ PassInv /\ BodiesInv /\ RulesInv => ExactBottomUp
  BY DoneIsTaken, WellTakenIs DEF RulesInv, AcceptInv, ExactBottomUp
<1> QED
  BY RulesHold, <1>1, PTL
=============================================================================
