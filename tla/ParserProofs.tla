---------------------------- MODULE ParserProofs ----------------------------
(***************************************************************************)
(* Proofs about Parser: whatever the tokens, their end is never consumed,  *)
(* and whoever is given no tree is told why.                               *)
(***************************************************************************)
EXTENDS Parser, TLAPS

\* The text ends in "eof", which is nowhere else in it.
TextOK ==
  /\ text \in Seq(STRING) /\ text # <<>>
  /\ text[Len(text)] = "eof"
  /\ \A n \in DOMAIN text : n < Len(text) => text[n] # "eof"

CursorOK == cur \in 1..Len(text)

\* A token that is not the last one has another behind it.
LEMMA NotTheLast ==
  ASSUME TextOK, NEW n \in 1..Len(text), text[n] # "eof"
  PROVE  n + 1 \in 1..Len(text)
BY DEF TextOK

LEMMA InitText == Init => TextOK /\ CursorOK
<1>1. SUFFICES ASSUME Init PROVE TextOK /\ CursorOK
  OBVIOUS
<1>2. PICK i \in Inputs : text = i.text
  BY <1>1 DEF Init
<1>3. text \in Seq(STRING) /\ text # <<>> /\ \A n \in DOMAIN text : n < Len(text) => text[n] # "eof"
  BY <1>2, ParserAssumption
<1>4. text[Len(text)] = "eof"
  BY <1>2, ParserAssumption DEF Last
<1>5. Len(text) \in Nat \ {0} /\ cur = 1
  BY <1>1, <1>3 DEF Init
<1>6. QED
  BY <1>3, <1>4, <1>5 DEF TextOK, CursorOK

\* Every step leaves the cursor where it was or moves it behind a token that
\* is not the last one.
LEMMA NextCursor == TextOK /\ CursorOK /\ [Next]_vars => TextOK' /\ CursorOK'
<1> SUFFICES ASSUME TextOK, CursorOK, [Next]_vars PROVE TextOK' /\ CursorOK'
  OBVIOUS
<1>1. text' = text
  BY DEF Next, vars, Start, NewNode, NewList, Consume, Imports, Schemas, Items, Open, Props,
         Type, Members, Suffix, Value, Dots, LiteralCall, Token, Return
<1>2. ASSUME NEW t, Is(t), t # "eof" PROVE cur + 1 \in 1..Len(text)
  BY <1>2, NotTheLast DEF Is, CursorOK
<1>3. CursorOK'
  <2>1. CASE UNCHANGED cur
    BY <1>1, <2>1 DEF CursorOK
  <2>2. CASE Consume
    <3>1. Inst(Top) # "eof"
      BY <2>2 DEF Consume, Punctuation
    <3>2. QED
      BY <1>1, <1>2, <2>1, <2>2, <3>1 DEF Consume, CursorOK
  <2>3. CASE Items \/ Open \/ Props
    BY <1>1, <1>2, <2>1, <2>3 DEF Items, Open, Props, CursorOK
  <2>4. CASE Members
    <3>1. ASSUME Is("id"), Ahead(")") \/ Ahead(",") PROVE cur + 2 \in 1..Len(text)
      <4>1. cur + 1 \in 1..Len(text) /\ text[cur + 1] # "eof"
        BY <1>2, <3>1 DEF Ahead
      <4>2. cur + 1 + 1 \in 1..Len(text)
        BY <4>1, NotTheLast
      <4>3. QED
        BY <4>2 DEF CursorOK
    <3>2. QED
      BY <1>1, <1>2, <2>1, <2>4, <3>1 DEF Members, CursorOK
  <2>5. CASE Suffix \/ Dots \/ Return
    BY <1>1, <1>2, <2>1, <2>5 DEF Suffix, Dots, Return, CursorOK
  <2>6. CASE Token
    <3>1. ASSUME IsLiteral PROVE cur + 1 \in 1..Len(text)
      BY <1>2, <3>1, NotTheLast, ParserAssumption DEF IsLiteral, IsInt, CursorOK
    <3>2. QED
      BY <1>1, <2>1, <2>6, <3>1 DEF Token, CursorOK
  <2>7. QED
    BY <2>1, <2>2, <2>3, <2>4, <2>5, <2>6 DEF Next, vars, Start, NewNode, NewList, Imports, Schemas,
       Type, Value, LiteralCall
<1>4. QED
  BY <1>1, <1>3 DEF TextOK

\* The cursor never leaves the tokens: parser.c gives NULL for the token there
\* only where nobody asks.
THEOREM CursorStays == Spec => []TokensInReach
<1>1. TextOK /\ CursorOK => TokensInReach
  BY DEF TextOK, CursorOK, TokensInReach
<1>2. QED
  BY <1>1, InitText, NextCursor, PTL DEF Spec

-----------------------------------------------------------------------------
\* What memory is asked for.
Needs == {"parser", "node", "list", "push", "float", "message"}

FailedOK == failed \in Seq(Needs)

LEMMA Reasons ==
  /\ <<>> \in Seq(Needs) /\ <<"parser">> \in Seq(Needs) /\ <<"node">> \in Seq(Needs)
  /\ <<"list">> \in Seq(Needs) /\ <<"push">> \in Seq(Needs) /\ <<"float">> \in Seq(Needs)
BY DEF Needs

\* What Tell and Failing leave: the message, or the failure to make it.
LEMMA TellTells ==
  ASSUME FailedOK, NEW at, NEW why \in Seq(Needs), Tell(at, why)
  PROVE  FailedOK' /\ (err.told' \/ MemoryFailed("message")')
<1>1. CASE Failing(why) /\ err'.told
  BY <1>1 DEF Failing, FailedOK
<1>2. CASE Failing(Append(why, "message"))
  <2>1. Append(why, "message") \in Seq(Needs)
    BY DEF Needs
  <2>2. failed' = failed \o Append(why, "message")
    BY <1>2 DEF Failing
  <2>3. Len(failed') = Len(failed) + Len(why) + 1 /\ failed' \in Seq(Needs)
    BY <2>1, <2>2 DEF FailedOK
  <2>4. failed'[Len(failed')] = "message"
    BY <2>1, <2>2, <2>3 DEF FailedOK
  <2>5. QED
    BY <2>3, <2>4 DEF MemoryFailed, FailedOK
<1>3. QED
  BY <1>1, <1>2 DEF Tell

\* Failures are only ever added.
LEMMA FailingAdds ==
  ASSUME FailedOK, NEW why \in Seq(Needs), Failing(why)
  PROVE  FailedOK'
BY DEF Failing, FailedOK

TreeOK == FailedOK /\ NullIsTold

\* A frame's own node is a node.
LEMMA TreeIsNotNull == ASSUME TextOK, CursorOK, NEW f PROVE Tree(f) # Null
<1>1. Tree(f).to # 0
  BY DEF Tree, Node, CursorOK, TextOK
<1>2. Null.to = 0
  BY DEF Null, Node
<1>3. QED
  BY <1>1, <1>2

\* The steps that tell an error, one that ends the parsing, and the rest.
LEMMA NextTold == TextOK /\ CursorOK /\ TreeOK /\ [Next]_vars => TreeOK'
<1> SUFFICES ASSUME TextOK, CursorOK, TreeOK, [Next]_vars PROVE TreeOK'
  OBVIOUS
<1> USE DEF TreeOK
<1>1. ASSUME NEW at, NEW why \in Seq(Needs), Tell(at, why) PROVE TreeOK'
  BY <1>1, TellTells DEF NullIsTold
<1>2. ASSUME UNCHANGED failed \/ \E why \in Seq(Needs) : Failing(why), pc' # "returned"
      PROVE  TreeOK'
  BY <1>2, FailingAdds DEF NullIsTold, FailedOK
<1>3. CASE UNCHANGED vars
  BY <1>3 DEF vars, NullIsTold, FailedOK, MemoryFailed
<1>4. ASSUME NEW f, Go(f) \/ \E is : Call(is), pc = "parse" PROVE pc' # "returned"
  BY <1>4 DEF Go, Call
<1>5. CASE Start
  BY <1>2, <1>5, Reasons DEF Start
<1>6. CASE NewNode \/ NewList \/ Consume \/ Schemas \/ Members \/ Token
  <2>1. CASE NewNode
    BY <1>1, <1>2, <1>4, <2>1, Reasons DEF NewNode, Doing
  <2>2. CASE NewList
    BY <1>1, <1>2, <1>4, <2>2, Reasons DEF NewList, Doing
  <2>3. CASE Consume
    BY <1>1, <1>2, <1>4, <2>3, Reasons DEF Consume
  <2>4. CASE Schemas
    BY <1>1, <1>2, <1>4, <2>4, Reasons DEF Schemas, Doing
  <2>5. CASE Members
    <3>1. CASE \E at : Tell(at, <<>>)
      BY <1>1, <3>1, Reasons
    <3>2. CASE UNCHANGED pc /\ \E f, node : Push(f, Callers, 1, node)
      BY <1>2, <2>5, <3>2, Reasons DEF Members, Doing, Push
    <3>3. QED
      BY <2>5, <3>1, <3>2 DEF Members
  <2>6. CASE Token
    BY <1>1, <1>2, <1>4, <2>6, Reasons DEF Token, Doing
  <2>7. QED
    BY <1>6, <2>1, <2>2, <2>3, <2>4, <2>5, <2>6
<1>7. CASE Imports \/ Items \/ Open \/ Props \/ Type \/ Suffix \/ Value \/ Dots \/ LiteralCall
  BY <1>2, <1>4, <1>7 DEF Imports, Items, Open, Props, Type, Suffix, Value, Dots, LiteralCall, Doing
<1>8. CASE Return
  <2>1. CASE tree' = Tree(Top) /\ UNCHANGED failed
    BY <2>1, TreeIsNotNull DEF NullIsTold, FailedOK
  <2>2. CASE Deliver /\ pc' = pc
    BY <1>2, <1>8, <2>2, Reasons DEF Return, Doing, Deliver, Push
  <2>3. QED
    BY <1>8, <2>1, <2>2 DEF Return
<1>9. QED
  BY <1>3, <1>5, <1>6, <1>7, <1>8 DEF Next

\* No parse function gives NULL in silence, but when even the message finds no
\* room: main, which looks at the message alone, is not left with no program.
THEOREM NullIsAlwaysTold == Spec => []NullIsTold
<1>1. Init => TreeOK
  BY DEF Init, TreeOK, FailedOK, NullIsTold
<1>2. TreeOK => NullIsTold
  BY DEF TreeOK
<1>3. QED
  BY <1>1, <1>2, InitText, NextCursor, NextTold, PTL DEF Spec
=============================================================================
