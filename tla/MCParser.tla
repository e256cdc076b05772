------------------------------ MODULE MCParser ------------------------------
(***************************************************************************)
(* Small texts for the parser: programs that use every construct, each of  *)
(* them cut short and with one token dropped, replaced or put in, every    *)
(* short text where the grammar branches, and failing allocations.         *)
(***************************************************************************)
EXTENDS ParserRules

D(neg, digits) == [neg |-> neg, digits |-> digits]
MCNumeral == [one |-> D(FALSE, <<1>>), max |-> D(FALSE, <<0, 1, 2, 7>>), over |-> D(FALSE, <<1, 2, 8>>),
              min |-> D(TRUE, <<1, 2, 8>>), under |-> D(TRUE, <<1, 2, 9>>), huge |-> D(FALSE, <<2, 5, 7>>)]

Words == {"import", "schema", "section", "enum", "id", "str", "one", "huge", "float", "true",
          "{", "}", "(", ")", "[", "]", ":", ",", "..", "==", "other"}

InSchema(s)   == <<"schema", "id", "{">> \o s \o <<"}">>
InSection(s)  == <<"section", "id", "{">> \o s \o <<"}">>
WithProps(s)  == <<"id", ":", "id", "{">> \o s \o <<"}">>
Prop(s)       == <<"id", ":">> \o s
F             == <<"id", ":", "id">>

Values == {<<v>> : v \in {"id", "str", "true", "false"} \cup DOMAIN MCNumeral}
            \cup {<<"one", "..", "float">>, <<"float", "..", "max">>, <<"id", "==", "min">>}

Sound ==
  { <<>>, <<"import", "str", "import", "str">> \o InSchema(F) \o InSchema(<<>>),
    InSchema(InSection(InSection(F)) \o F),
    InSchema(<<"id", ":", "enum", "(", "id", ",", "id", ",", "id", ")", "[", "]", "{", "}">>),
    InSchema(<<"id", ":", "id", "[", "]">> \o F),
    InSchema(WithProps(Prop(<<"id">>) \o <<",">> \o Prop(<<"str">>) \o Prop(<<"true">>))) }
  \cup { InSchema(WithProps(Prop(v))) : v \in Values }

Changed(s) ==
  {SubSeq(s, 1, n) : n \in 0..Len(s)} \cup
  { SubSeq(s, 1, n - 1) \o m \o SubSeq(s, n + d, Len(s)) :
      n \in 1..(Len(s) + 1), d \in {0, 1}, m \in {<<>>} \cup {<<w>> : w \in Words} }

UpTo(S, n) == UNION {[1..m -> S] : m \in 0..n}

Short == UpTo(Words, 2)
           \cup {InSchema(WithProps(Prop(v))) : v \in UpTo({"id", "one", "over", "..", "==", ",", ":"}, 4)}

Ending(s) == Append(s, "eof")

MCInputs ==
  {[text |-> Ending(s), budget |-> 0] : s \in UNION {Changed(t) : t \in Sound} \cup Short}
    \cup {[text |-> Ending(s), budget |-> 3] : s \in Sound}
=============================================================================
