---------------------------- MODULE ParserRules ----------------------------
(***************************************************************************)
(* The language of cfg-gen as a grammar, and what the parser owes to it:   *)
(* the tree it gives is that of the text, the error it tells is where the  *)
(* text stops being one.  The grammar is that of lang.bnf, with what       *)
(* docs/schema_guide.md writes beside it: a field may go without a block,  *)
(* and commas may stand between properties.                                *)
(***************************************************************************)
EXTENDS Parser

Ints == DOMAIN Numeral

\* What the digits denote.
Exact(n) ==
  LET sum == FoldLeft(LAMBDA v, d : 10 * v + d, 0, n.digits)
  IN  IF n.neg THEN -sum ELSE sum

Readable == {t \in Ints : Exact(Numeral[t]) \in -(IntMax + 1)..IntMax}

\* The grammar: of each nonterminal what it may stand for.  A type in quotes
\* is itself; repetitions recur on the right.
Alternatives ==
  [ Program  |-> {<<"Imports", "Schemas">>},
    Imports  |-> {<<>>, <<"import", "str", "Imports">>},
    Schemas  |-> {<<"eof">>, <<"schema", "id", "Block", "Schemas">>},
    Block    |-> {<<"{", "Items">>},
    Items    |-> {<<"}">>, <<"section", "id", "Block", "Items">>,
                  <<"id", ":", "Atom", "Array", "Props", "Items">>},
    Atom     |-> {<<"id">>, <<"enum", "(", "id", "Members">>},
    Members  |-> {<<")">>, <<",", "id", "Members">>},
    Array    |-> {<<>>, <<"[", "]">>},
    Props    |-> {<<>>, <<"{", "List">>},
    List     |-> {<<"}">>, <<"id", ":", "Prop", "Comma", "List">>},
    Comma    |-> {<<>>, <<",">>},
    Prop     |-> {<<"Lit">>, <<"Num", "..", "Num">>, <<"id", "==", "Lit">>},
    Num      |-> {<<"float">>} \cup {<<t>> : t \in Readable},
    Lit      |-> {<<t>> : t \in {"str", "float", "true", "false", "id"} \cup Readable} ]

\* What may stand in front: pending sequences of symbols, their first one a token.
RECURSIVE Expanded(_)
Expanded(pending) ==
  LET open == {s \in pending : s # <<>> /\ Head(s) \in DOMAIN Alternatives}
  IN  IF open = {} THEN pending
      ELSE Expanded((pending \ open)
                      \cup UNION {{a \o Tail(s) : a \in Alternatives[Head(s)]} : s \in open})

\* What may follow the first n tokens of s.
Pending(s) ==
  LET f[n \in 0..Len(s)] ==
        IF n = 0 THEN Expanded({<<"Program">>})
        ELSE Expanded({Tail(q) : q \in {r \in f[n - 1] : r # <<>> /\ Head(r) = s[n]}})
  IN  f

\* The first token with which s is no longer the beginning of a program, or 0.
Offence(s) ==
  LET bad == {n \in DOMAIN s : Pending(s)[n] = {}}
  IN  IF bad = {} THEN 0 ELSE CHOOSE n \in bad : \A k \in bad : n <= k

\* Somewhere the text has a range up to a literal that is no number.
EndsInNoNumber(s) ==
  LET Number == {"float"} \cup Readable
  IN  \E n \in 2..(Len(s) - 1) :
        s[n - 1] \in Number /\ s[n] = ".." /\ s[n + 1] \in {"str", "true", "false", "id"}

-----------------------------------------------------------------------------
(* A text and a tree as the same thing: the sequence of the tokens, each    *)
(* with its place when it is a name or a literal, without what is optional. *)

Content == {"id", "str", "float", "true", "false"} \cup Ints
Shown(t, at) == <<t, IF t \in Content THEN at ELSE 0>>

\* A comma never matters, nor does a field's block when it is empty.
Optional(s, n) ==
  \/ s[n] = ","
  \/ \E m \in {n - 1, n} : /\ m > 2 /\ m < Len(s) /\ s[m] = "{" /\ s[m + 1] = "}"
                           /\ s[m - 2] \notin {"schema", "section"}

Essence(s) ==
  LET keep == SelectSeq([n \in DOMAIN s |-> n], LAMBDA n : ~Optional(s, n))
  IN  [n \in DOMAIN keep |-> Shown(s[keep[n]], keep[n])]

Marks(types) == [n \in DOMAIN types |-> Shown(types[n], 0)]

\* A leaf shows its token, or that its value is another.
ShownLeaf(s, t) ==
  IF s[t.from] \in Ints /\ t.val # Exact(Numeral[s[t.from]]) THEN <<"wrong", t.from>>
  ELSE Shown(s[t.from], t.from)

RECURSIVE Unparsed(_, _)
Unparsed(s, t) ==
  LET k == t.kids
      From(n) == FlattenSeq([m \in 1..(Len(k) + 1 - n) |-> Unparsed(s, k[n + m - 1])])
      Only(n) == Unparsed(s, k[n])
  IN  CASE t.is = "program"   -> From(1) \o Marks(<<"eof">>)
        [] t.is = "import"    -> Marks(<<"import">>) \o From(1)
        [] t.is \in {"schema", "section"} ->
             Marks(<<t.is>>) \o Only(1) \o Marks(<<"{">>) \o From(2) \o Marks(<<"}">>)
        [] t.is = "field"     ->
             Only(1) \o Marks(<<":">>) \o Only(2)
               \o IF Len(k) = 2 THEN <<>> ELSE Marks(<<"{">>) \o From(3) \o Marks(<<"}">>)
        [] t.is = "property"  -> Only(1) \o Marks(<<":">>) \o From(2)
        [] t.is = "enum"      -> Marks(<<"enum", "(">>) \o From(1) \o Marks(<<")">>)
        [] t.is = "array"     -> From(1) \o Marks(<<"[", "]">>)
        [] t.is = "range"     -> Only(1) \o Marks(<<"..">>) \o From(2)
        [] t.is = "condition" -> Only(1) \o Marks(<<"==">>) \o From(2)
        [] t.is \in {"primitive", "literal"} -> From(1)
        [] OTHER              -> <<ShownLeaf(s, t)>>

\* Every node lies in its parent, behind the node before it.
RECURSIVE InPlace(_)
InPlace(t) ==
  /\ t.from <= t.to
  /\ \A n \in DOMAIN t.kids :
       /\ t.from <= t.kids[n].from /\ t.kids[n].to <= t.to
       /\ n > 1 => t.kids[n - 1].to < t.kids[n].from
       /\ InPlace(t.kids[n])

-----------------------------------------------------------------------------
(* main goes on with the tree when there is no message. *)
Accepted == pc = "returned" /\ ~err.told

\* A text that gets to the type checker is a program, ranges that end in no
\* number aside, and the tree that gets there is the tree of this text, whole:
\* no item lost, doubled or swapped, no number changed.  It takes two failures
\* for less: a list that cannot grow loses the item and nobody looks, and an
\* error whose message finds no room is no error to main.
AcceptedIsTheText ==
  Accepted /\ ~MemoryFailed("push") /\ ~MemoryFailed("message") =>
    /\ tree # Null
    /\ Offence(text) = 0 \/ EndsInNoNumber(text)
    /\ Unparsed(text, tree) = Essence(text)
    /\ InPlace(tree)

\* With memory enough, a text that is no program is refused, and the error
\* blames the first token with which no program begins; a program is not.
\* Texts with a range that ends in no number are left to InTheGrammar.
ErrorIsFirstOffence ==
  pc \in {"returned", "crashed"} /\ failed = <<>> /\ ~EndsInNoNumber(text) =>
    /\ pc = "returned"
    /\ err.told = (Offence(text) # 0)
    /\ err.told => err.at = Offence(text)

\* What is accepted is in the grammar, as lang.bnf:34 has it: a range is of two
\* numbers.
InTheGrammar == Accepted /\ failed = <<>> => Offence(text) = 0

\* parse_program comes back, whatever the text.
ParseReturns == <>(pc \in {"returned", "crashed"})
=============================================================================
