------------------------------- MODULE Parser -------------------------------
(***************************************************************************)
(* The recursive descent parser of cfg-gen (tools/src/parser/              *)
(* parse_statements.c and parser.c).  A parse function is a sequence of    *)
(* instructions, one call of it a frame of the stack; an instruction that  *)
(* is a token type consumes that token.                                    *)
(*                                                                         *)
(* A text is a sequence of tokens, of which only the type counts, and of   *)
(* an integer the digits; the last one is "eof".  A node of the tree has   *)
(* the places of its first and last token and the nodes below it; a record *)
(* is the place of its token.                                              *)
(***************************************************************************)
EXTENDS DynArray, SequencesExt

CONSTANTS
  Inputs,     \* [text, budget]: the tokens, and how many allocations may fail
  Numeral,    \* of each integer token: [neg, digits]
  IntMax      \* LLONG_MAX

ASSUME ParserAssumption ==
  /\ IntMax \in Nat /\ "eof" \notin DOMAIN Numeral
  /\ \A i \in Inputs : /\ i.text \in Seq(STRING) /\ i.text # <<>> /\ Last(i.text) = "eof"
                       /\ \A n \in DOMAIN i.text : n < Len(i.text) => i.text[n] # "eof"
                       /\ i.budget \in Nat

VARIABLES
  text, budget,
  cur,      \* the parser's current
  stack,    \* the calls, innermost first: [is, at, from, parts, lists]
  err,      \* told: err.message is set; at: the token it blames
  failed,   \* (history) what the failed allocations were for
  pc,       \* "start", "parse", "returned" or "crashed"
  tree      \* what parse_program returned

vars == <<text, budget, cur, stack, err, failed, pc, tree>>

-----------------------------------------------------------------------------
(* The parse functions                                                     *)

Program       == <<"NEW", "LIST", "LIST", "IMPORTS", "SCHEMAS">>
ImportDecl    == <<"import", "str", "NEW">>
SchemaDecl    == <<"schema", "id", "{", "NEW", "LIST", "ITEMS">>
SectionDecl   == <<"section", "id", "{", "NEW", "LIST", "ITEMS">>
FieldDecl     == <<"id", ":", "TYPE", "NEW", "LIST", "OPEN", "PROPS">>
PropertyDecl  == <<"id", ":", "VALUE", "NEW">>
EnumType      == <<"enum", "(", "NEW", "LIST", "MEMBERS", "NEW", "SUFFIX">>
PrimitiveType == <<"id", "NEW", "SUFFIX">>
ArrayType     == <<"]", "NEW">>
RangeExpr     == <<"MIN", "DOTS", "LITERAL", "NEW">>
Condition     == <<"id", "==", "LITERAL", "NEW">>
Literal       == <<"NEW", "TOKEN">>

Code == [program |-> Program, import |-> ImportDecl, schema |-> SchemaDecl,
         section |-> SectionDecl, field |-> FieldDecl, property |-> PropertyDecl,
         enum |-> EnumType, primitive |-> PrimitiveType, array |-> ArrayType,
         range |-> RangeExpr, condition |-> Condition, literal |-> Literal]

Node(is, from, to, kids, val) == [is |-> is, from |-> from, to |-> to, kids |-> kids, val |-> val]
Null     == Node("null", 0, 0, <<>>, 0)
Leaf     == Node(text[cur], cur, cur, <<>>, 0)
NoArray  == Array(<<>>, -1)

Frame(is) == [is |-> is, at |-> 1, from |-> cur, parts |-> <<>>, lists |-> <<>>]
Top       == Head(stack)
Callers   == Tail(stack)
Inst(f)   == IF f.at > Len(Code[f.is]) THEN "RETURN" ELSE Code[f.is][f.at]
Doing(i)  == pc = "parse" /\ Inst(Top) = i

\* The frame f with one more part, and its next instruction.
Done(f, parts) == [f EXCEPT !.at = @ + 1, !.parts = @ \o parts]

\* current_token and peek(p, 1), which give NULL behind the last token.
Ended    == cur > Len(text)
Is(t)    == ~Ended /\ text[cur] = t
Ahead(t) == cur < Len(text) /\ text[cur + 1] = t
IsInt    == ~Ended /\ text[cur] \in DOMAIN Numeral

\* The node of a call: list items follow the parts.
Tree(f) ==
  Node(f.is, f.from, IF cur = 1 THEN 1 ELSE cur - 1,
       f.parts \o FlattenSeq([n \in DOMAIN f.lists |-> f.lists[n].items]), 0)

\* parse_int_lit: the digits as an unsigned number, -1 when it does not fit.
Magnitude(n) ==
  LET Add(v, d) == IF v = -1 \/ v > (2 * IntMax + 1 - d) \div 10 THEN -1 ELSE v * 10 + d
  IN  FoldLeft(Add, 0, n.digits)

\* Fault: the sign bit is not looked at.
Fits_Unsigned(n) == Magnitude(n) # -1

Fits(n) == Magnitude(n) \in 0..(IF n.neg THEN IntMax + 1 ELSE IntMax)

\* Negating LLONG_MIN gives LLONG_MIN in the builds.
Val(n) == IF n.neg THEN -Magnitude(n) ELSE Magnitude(n)

IsLiteral ==
  \/ Is("float") \/ Is("str") \/ Is("true") \/ Is("false") \/ Is("id")
  \/ IsInt /\ Fits(Numeral[text[cur]])

-----------------------------------------------------------------------------
(* Memory and errors                                                       *)

\* The allocations for the things of why fail as well.
Failing(why) == Len(failed) + Len(why) <= budget /\ failed' = failed \o why

\* create_parse_error: the first message stays, and may itself find no memory.
Tell(at, why) ==
  IF err.told THEN UNCHANGED err /\ Failing(why)
  ELSE \/ err' = [told |-> TRUE, at |-> at] /\ Failing(why)
       \/ err' = [told |-> FALSE, at |-> at] /\ Failing(Append(why, "message"))

\* The top frame gives NULL, and so does every caller, but for a range that
\* does not look whether its first literal is there.
Fail ==
  IF Len(stack) > 1 /\ Inst(stack[2]) = "MIN"
  THEN stack' = <<Done(stack[2], <<Null>>)>> \o Tail(Callers) /\ UNCHANGED <<pc, tree>>
  ELSE stack' = <<>> /\ pc' = "returned" /\ tree' = Null

Go(f) == stack' = <<f>> \o Callers /\ UNCHANGED <<pc, tree>>
Call(is) == stack' = <<Frame(is)>> \o stack /\ UNCHANGED <<pc, tree>>

\* dynarray_push_value to a list of the frame f, whose result nobody looks at.
Push(f, below, slot, node) ==
  LET a == f.lists[slot] IN
  \/ /\ a # NoArray
     /\ stack' = <<[f EXCEPT !.lists[slot] = Pushed(a, node)]>> \o below
     /\ UNCHANGED failed
  \/ /\ stack' = <<f>> \o below
     /\ IF a = NoArray THEN UNCHANGED failed ELSE Full(a) /\ Failing(<<"push">>)

-----------------------------------------------------------------------------
(* parser_create, whose result nobody looks at either *)
Init ==
  /\ \E i \in Inputs : text = i.text /\ budget = i.budget
  /\ cur = 1 /\ stack = <<>>
  /\ err = [told |-> FALSE, at |-> 0]
  /\ failed = <<>>
  /\ pc = "start" /\ tree = Null

Start ==
  /\ pc = "start"
  /\ \/ pc' = "parse" /\ stack' = <<Frame("program")>> /\ UNCHANGED failed
     \/ pc' = "crashed" /\ UNCHANGED stack /\ Failing(<<"parser">>)
  /\ UNCHANGED <<text, budget, cur, err, tree>>

\* new_node_or_err.  A range joins the spans of its two literals.
NewNode ==
  /\ Doing("NEW")
  /\ \/ /\ IF Top.is = "range" /\ Top.parts[1] = Null
           THEN pc' = "crashed" /\ UNCHANGED <<stack, tree>>
           ELSE Go(Done(Top, <<>>))
        /\ UNCHANGED <<err, failed>>
     \/ Fail /\ Tell(cur, <<"node">>)
  /\ UNCHANGED <<text, budget, cur>>

\* alloc_dynarray: what was to be filled is then missing, and parsing goes on.
NewList ==
  /\ Doing("LIST")
  /\ \E list \in {Array(<<>>, Grown(0)), NoArray} :
       /\ Go([Done(Top, <<>>) EXCEPT !.lists = Append(@, list)])
       /\ IF list = NoArray THEN Tell(cur, <<"list">>) ELSE UNCHANGED <<err, failed>>
  /\ UNCHANGED <<text, budget, cur>>

Punctuation == {":", "{", "(", "]", "==", "import", "schema", "section", "enum"}

\* consume, and the error when the token is not there.
Consume ==
  /\ pc = "parse" /\ Inst(Top) \in Punctuation \cup {"id", "str"}
  /\ IF Is(Inst(Top))
     THEN /\ cur' = cur + 1 /\ UNCHANGED <<err, failed>>
          /\ Go(Done(Top, IF Inst(Top) \in Punctuation THEN <<>> ELSE <<Leaf>>))
     ELSE /\ Fail /\ Tell(cur, <<>>) /\ UNCHANGED cur
  /\ UNCHANGED <<text, budget>>

-----------------------------------------------------------------------------
(* parse_program *)
Imports ==
  /\ Doing("IMPORTS")
  /\ IF Is("import") THEN Call("import") ELSE Go(Done(Top, <<>>))
  /\ UNCHANGED <<text, budget, cur, err, failed>>

\* Fault: the end of the text does not end the loop.
Schemas_On ==
  /\ Doing("SCHEMAS")
  /\ \/ Is("schema") /\ Call("schema") /\ UNCHANGED <<err, failed>>
     \/ (Ended \/ Is("eof")) /\ Go(Top) /\ UNCHANGED <<err, failed>>
     \/ ~(Ended \/ Is("eof") \/ Is("schema")) /\ Fail /\ Tell(cur, <<>>)
  /\ UNCHANGED <<text, budget, cur>>

Schemas ==
  /\ Doing("SCHEMAS")
  /\ \/ Is("schema") /\ Call("schema") /\ UNCHANGED <<err, failed>>
     \/ (Ended \/ Is("eof")) /\ Go(Done(Top, <<>>)) /\ UNCHANGED <<err, failed>>
     \/ ~(Ended \/ Is("eof") \/ Is("schema")) /\ Fail /\ Tell(cur, <<>>)
  /\ UNCHANGED <<text, budget, cur>>

\* The loop of parse_schema_decl and of parse_section_decl.
Items ==
  /\ Doing("ITEMS")
  /\ IF Ended \/ Is("}")
     THEN Go(Done(Top, <<>>)) /\ cur' = IF Ended THEN cur ELSE cur + 1
     ELSE Call(IF Is("section") THEN "section" ELSE "field") /\ UNCHANGED cur
  /\ UNCHANGED <<text, budget, err, failed>>

\* parse_field_decl: a field need not have a block of properties.
Open ==
  /\ Doing("OPEN")
  /\ Go(IF Is("{") THEN Done(Top, <<>>) ELSE Done(Done(Top, <<>>), <<>>))
  /\ cur' = IF Is("{") THEN cur + 1 ELSE cur
  /\ UNCHANGED <<text, budget, err, failed>>

Props ==
  /\ Doing("PROPS")
  /\ IF Ended \/ Is("}")
     THEN Go(Done(Top, <<>>)) /\ cur' = IF Ended THEN cur ELSE cur + 1
     ELSE Call("property") /\ UNCHANGED cur
  /\ UNCHANGED <<text, budget, err, failed>>

\* parse_type_expr
Type ==
  /\ Doing("TYPE")
  /\ Call(IF Is("enum") THEN "enum" ELSE "primitive")
  /\ UNCHANGED <<text, budget, cur, err, failed>>

\* A turn of its loop over the members of an enum.
Members ==
  /\ Doing("MEMBERS")
  /\ \/ ~Is("id") /\ Fail /\ Tell(cur, <<>>) /\ UNCHANGED cur
     \/ /\ Is("id") /\ (Ahead(")") \/ Ahead(","))
        /\ Push(IF Ahead(")") THEN Done(Top, <<>>) ELSE Top, Callers, 1, Leaf)
        /\ cur' = cur + 2 /\ UNCHANGED <<err, pc, tree>>
     \/ /\ Is("id") /\ ~(Ahead(")") \/ Ahead(","))
        /\ Fail /\ Tell(cur + 1, <<>>) /\ cur' = cur + 1
  /\ UNCHANGED <<text, budget>>

\* Its brackets: the type read so far is that of the elements.
Suffix ==
  /\ Doing("SUFFIX")
  /\ IF Is("[")
     THEN /\ Go([Frame("array") EXCEPT !.from = Top.from, !.parts = <<Tree(Top)>>])
          /\ cur' = cur + 1
     ELSE Go(Done(Top, <<>>)) /\ UNCHANGED cur
  /\ UNCHANGED <<text, budget, err, failed>>

-----------------------------------------------------------------------------
(* parse_property_value *)
\* Fault: a number is taken for a literal before the dots are seen.
Value_Eager ==
  /\ Doing("VALUE")
  /\ Call(IF Is("id") /\ Ahead("==") THEN "condition" ELSE "literal")
  /\ UNCHANGED <<text, budget, cur, err, failed>>

Value ==
  /\ Doing("VALUE")
  /\ Call(CASE (IsInt \/ Is("float")) /\ Ahead("..") -> "range"
            [] Is("id") /\ Ahead("==") -> "condition"
            [] OTHER -> "literal")
  /\ UNCHANGED <<text, budget, cur, err, failed>>

\* consume(p, TOKEN_RANGE), which may find the first literal still there.
Dots ==
  /\ Doing("DOTS")
  /\ Go(Done(Top, <<>>))
  /\ cur' = IF Is("..") THEN cur + 1 ELSE cur
  /\ UNCHANGED <<text, budget, err, failed>>

LiteralCall ==
  /\ pc = "parse" /\ Inst(Top) \in {"LITERAL", "MIN"}
  /\ Call("literal")
  /\ UNCHANGED <<text, budget, cur, err, failed>>

\* Fault: any token will do.
Token_Any ==
  /\ Doing("TOKEN")
  /\ Go(Done(Top, <<Leaf>>)) /\ cur' = cur + 1
  /\ UNCHANGED <<text, budget, err, failed>>

\* The switch of parse_literal.  parse_float_lit copies to what malloc gave.
Token ==
  /\ Doing("TOKEN")
  /\ \/ /\ IsLiteral
        /\ Go(Done(Top, <<[Leaf EXCEPT !.val = IF IsInt THEN Val(Numeral[text[cur]]) ELSE 0]>>))
        /\ cur' = cur + 1 /\ UNCHANGED <<err, failed>>
     \/ /\ Is("float") /\ pc' = "crashed" /\ Failing(<<"float">>)
        /\ UNCHANGED <<cur, stack, err, tree>>
     \/ ~IsLiteral /\ Fail /\ Tell(cur, <<>>) /\ UNCHANGED cur
  /\ UNCHANGED <<text, budget>>

-----------------------------------------------------------------------------
(* The end of a parse function, and what its caller does with the node. *)
Deliver ==
  LET f == stack[2] IN
  CASE Inst(f) \in {"IMPORTS", "ITEMS", "PROPS"} -> Push(f, Tail(Callers), 1, Tree(Top))
    [] Inst(f) = "SCHEMAS" -> Push(f, Tail(Callers), 2, Tree(Top))
    [] OTHER -> stack' = <<Done(f, <<Tree(Top)>>)>> \o Tail(Callers) /\ UNCHANGED failed

Return ==
  /\ Doing("RETURN")
  /\ IF Len(stack) = 1
     THEN stack' = <<>> /\ pc' = "returned" /\ tree' = Tree(Top) /\ UNCHANGED <<cur, failed>>
     ELSE /\ Deliver /\ UNCHANGED <<pc, tree>>
          /\ cur' = IF Inst(stack[2]) = "PROPS" /\ Is(",") THEN cur + 1 ELSE cur
  /\ UNCHANGED <<text, budget, err>>

Next ==
  \/ Start \/ NewNode \/ NewList \/ Consume
  \/ Imports \/ Schemas \/ Items \/ Open \/ Props
  \/ Type \/ Members \/ Suffix
  \/ Value \/ Dots \/ LiteralCall \/ Token \/ Return

Spec     == Init /\ [][Next]_vars
FairSpec == Spec /\ WF_vars(Next)

-----------------------------------------------------------------------------
MemoryFailed(why) == \E n \in DOMAIN failed : failed[n] = why

\* Whoever gets NULL is told why, or there was no room to say it.
NullIsTold == pc = "returned" /\ tree = Null => err.told \/ MemoryFailed("message")

\* The parser stays before the end of its tokens: whatever it is given, it never
\* consumes the last one, so current_token and the token behind it are there.
TokensInReach == cur \in DOMAIN text
=============================================================================
