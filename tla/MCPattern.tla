----------------------------- MODULE MCPattern -----------------------------
(***************************************************************************)
(* Every pattern of up to two items, and some of three, over the atoms and *)
(* the quantifiers of the guide, with the texts of up to three characters. *)
(***************************************************************************)
EXTENDS PatternRules

MCChars == {"a", "b", "c", "-", "$", "^", "[", "]", ".", "+", "*", "?", "\\"}
MCRank  == [c \in MCChars |->
              CASE c = "a" -> 20 [] c = "b" -> 21 [] c = "c" -> 22
                [] c = "$" -> 0 [] c = "*" -> 1 [] c = "+" -> 2 [] c = "-" -> 3 [] c = "." -> 4
                [] c = "?" -> 10 [] c = "[" -> 11 [] c = "\\" -> 12 [] c = "]" -> 13 [] OTHER -> 14]

Letters == {"a", "b", "c"}

\* parts: where in w the members of a class are.
ClassOf(w, set, parts) == [text |-> w, set |-> set, parts |-> parts]
Atom(w, set) == ClassOf(w, set, <<>>)
Atoms ==
  { Atom(<<"a">>, {"a"}), Atom(<<"b">>, {"b"}), Atom(<<".">>, MCChars),
    Atom(<<"\\", "$">>, {"$"}),
    ClassOf(<<"[", "a", "-", "b", "]">>, {"a", "b"}, <<2, 5>>) }
Classes ==
  { ClassOf(<<"[", "^", "a", "]">>, MCChars \ {"a"}, <<3, 4>>),
    ClassOf(<<"[", "b", "a", "]">>, {"a", "b"}, <<2, 3, 4>>),
    ClassOf(<<"[", "^", "b", "-", "c", "]">>, MCChars \ {"b", "c"}, <<3, 6>>),
    ClassOf(<<"[", "a", "-", "\\", "c", "$", "]">>, Letters \cup {"$"}, <<2, 6, 7>>),
    ClassOf(<<"[", "\\", "^", "-", "]">>, {"^", "-"}, <<2, 4, 5>>),
    ClassOf(<<"[", "b", "\\", "]">>, {"b", "\\"}, <<2, 3, 4>>),
    Atom(<<"\\", "\\">>, {"\\"}), Atom(<<"\\", "^">>, {"^"}) }

Items(S, times) ==
  {[text |-> a.text \o (IF t = "1" THEN <<>> ELSE <<t>>), set |-> a.set, parts |-> a.parts, times |-> t] :
     a \in S, t \in times}
UpTo(S, size) == UNION {[1..m -> S] : m \in 0..size}

Sequences ==
  UpTo(Items(Atoms, {"1", "+", "*", "?"}), 2)
    \cup UpTo(Items(Classes, {"1", "+", "*", "?"}), 1)
    \cup [1..3 -> Items({Atom(<<"a">>, {"a"}), ClassOf(<<"[", "a", "-", "b", "]">>, {"a", "b"}, <<2, 5>>)}, {"1", "+"})]

Places(from, items) ==
  LET place[k \in 1..(Len(items) + 1)] ==
        IF k = 1 THEN IF from THEN 2 ELSE 1 ELSE place[k - 1] + Len(items[k - 1].text)
  IN  place

Pattern(from, to, items) ==
  LET places == Places(from, items)
  IN  [re |-> (IF from THEN <<"^">> ELSE <<>>) \o FlattenSeq([k \in DOMAIN items |-> items[k].text])
                \o (IF to THEN <<"$">> ELSE <<>>),
       means |-> [from |-> from, to |-> to, at |-> places,
                  items |-> [k \in DOMAIN items |->
                    [set |-> items[k].set, times |-> items[k].times,
                     parts |-> [m \in DOMAIN items[k].parts |-> places[k] + items[k].parts[m] - 1]]]]]

MCPatterns == {Pattern(from, to, items) : from, to \in BOOLEAN, items \in Sequences}
MCTexts    == UpTo({"a", "b"}, 3) \cup UpTo({"a", "$"}, 2) \cup {<<"\\">>, <<"^">>, <<"a", "^">>, <<"c", "b">>}
=============================================================================
