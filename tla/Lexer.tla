------------------------------- MODULE Lexer -------------------------------
(***************************************************************************)
(* The scanner of cfg-gen, tools/src/lexer/lexer.c: lexer_create and       *)
(* lexer_lex_all with every turn of its loops as a step.                   *)
(*                                                                         *)
(* A source is a sequence of characters; "nl" is the newline, and a        *)
(* character outside the classes below is one the scanner does not know.   *)
(* A place is a position in the source, counted from 1, with its line and  *)
(* column.  A token holds the places where it starts and ends, and rec,    *)
(* what its record says: <<>> is the NULL record, <<w>> a record of w.     *)
(* Which record that is among several of w is DenseInterner's business.    *)
(***************************************************************************)
EXTENDS Integers, SequencesExt

CONSTANTS
  Alpha,      \* letters and "_"
  Digit,
  Space,      \* isspace; holds "nl"
  Single,     \* the characters that are tokens by themselves
  Keyword,    \* words
  Width,      \* slice lengths are taken modulo this, 2^32 in the code
  Sources     \* the sources to scan

Quote == "\""

\* The characters that the scanner tells apart one by one, and the NUL that
\* read_file put behind the source.
Marks == {Quote, "\\", "-", ".", "=", "/", "nul"}

\* No character is of two classes.
ASSUME LexerAssumption ==
  /\ "nl" \in Space /\ "EOF" \notin Single
  /\ Alpha \cap (Digit \cup Space \cup Single \cup Marks) = {}
  /\ Digit \cap (Space \cup Single \cup Marks) = {}
  /\ Space \cap (Single \cup Marks) = {} /\ Single \cap Marks = {}
  /\ Width \in Nat /\ \A s \in Sources : s \in Seq(Range(s)) /\ Len(s) + 2 < Width

VARIABLES
  source,
  here,       \* where the cursor stands
  pc,         \* the loop the scanner is in, "done" or "failed"
  start,      \* where the token being read started
  tokens,
  keywords,   \* the words interned as keywords
  oom         \* has an allocation failed?

vars == <<source, here, pc, start, tokens, keywords, oom>>

Escapes == [n |-> "nl", t |-> "tab", r |-> "cr"]

Place(at, line, col) == [at |-> at, line |-> line, col |-> col]

Ended == here.at > Len(source)

\* lexer_peek
CharAt(o)   == IF o <= Len(source) THEN source[o] ELSE "nul"
Char        == CharAt(here.at)
Following   == CharAt(here.at + 1)

\* lexer_advance: a newline starts a line, the end of the source stays.
After(p) ==
  CASE p.at > Len(source)    -> p
    [] CharAt(p.at) = "nl"   -> Place(p.at + 1, p.line + 1, 1)
    [] OTHER                 -> Place(p.at + 1, p.line, p.col + 1)

-----------------------------------------------------------------------------
(* lexer_create: the keyword table may lose words when memory is short, and *)
(* without an arena there is no lexer, which lexer_lex_all refuses.         *)
Init ==
  /\ source \in Sources
  /\ here = Place(1, 1, 1) /\ start = here
  /\ tokens = <<>>
  /\ \/ pc = "skip" /\ keywords = Keyword /\ oom = FALSE
     \/ pc = "skip" /\ keywords \in SUBSET Keyword \ {Keyword} /\ oom = TRUE
     \/ pc = "failed" /\ keywords = {} /\ oom = TRUE

\* One turn of a loop that consumes the characters up to p.
Move(p, then) ==
  /\ here' = p /\ pc' = then
  /\ UNCHANGED <<source, start, tokens, keywords, oom>>

\* lexer_add_token.  lost: an allocation for this token failed before.
Emit(type, rec, to, lost) ==
  /\ here' = to
  /\ \/ /\ tokens' = Append(tokens, [type |-> type, from |-> start', to |-> to, rec |-> rec])
        /\ pc' = IF type = "EOF" THEN "done" ELSE "skip"
        /\ oom' = (oom \/ lost)
     \/ pc' = "failed" /\ oom' = TRUE /\ UNCHANGED tokens
  /\ UNCHANGED <<source, keywords>>

-----------------------------------------------------------------------------
(* lexer_skip_whitespace *)
Comment(mark) == Char = "/" /\ Following = mark

SkipSpace == pc = "skip" /\ Char \in Space /\ Move(After(here), "skip")

OpenComment ==
  /\ pc = "skip"
  /\ \/ Comment("/") /\ Move(After(After(here)), "line")
     \/ Comment("*") /\ Move(After(After(here)), "block")

InLine ==
  /\ pc = "line"
  /\ IF Ended \/ Char = "nl" THEN Move(here, "skip") ELSE Move(After(here), "line")

\* Fault: only a closed comment ends.
InBlock_Closed ==
  /\ pc = "block"
  /\ \/ Char = "*" /\ Following = "/" /\ Move(After(After(here)), "skip")
     \/ ~(Char = "*" /\ Following = "/") /\ Move(After(here), "block")

\* A block comment that the source ends in is as good as a closed one.
InBlock ==
  /\ pc = "block"
  /\ \/ Ended /\ Move(here, "skip")
     \/ Char = "*" /\ Following = "/" /\ Move(After(After(here)), "skip")
     \/ ~Ended /\ ~(Char = "*" /\ Following = "/") /\ Move(After(here), "block")

-----------------------------------------------------------------------------
(* lexer_next_token *)
AtEnd == pc = "skip" /\ Ended /\ start' = here /\ Emit("EOF", <<>>, here, FALSE)

Kind ==
  CASE Char \in Alpha -> "word"
    [] Char \in Digit \/ (Char = "-" /\ Following \in Digit) -> "digits"
    [] Char = Quote -> "string"
    [] OTHER -> "symbol"

Begin ==
  /\ pc = "skip" /\ ~Ended
  /\ Char \notin Space /\ ~Comment("/") /\ ~Comment("*")
  /\ start' = here /\ here' = After(here) /\ pc' = Kind
  /\ UNCHANGED <<source, tokens, keywords, oom>>

InWord == pc = "word" /\ Char \in Alpha \cup Digit /\ Move(After(here), "word")

\* intern finds the word again, unless memory was too short to file it.
Interned(word) == \E k \in DOMAIN tokens : tokens[k].type = "IDENTIFIER" /\ tokens[k].rec = <<word>>

\* lexer_lex_identifier: a keyword is looked up and never inserted.
EndWord ==
  LET word == SubSeq(source, start.at, here.at - 1) IN
  /\ pc = "word" /\ Char \notin Alpha \cup Digit
  /\ UNCHANGED start
  /\ \/ word \in keywords /\ Emit("KEYWORD", <<word>>, here, FALSE)
     \/ word \notin keywords /\ Emit("IDENTIFIER", <<word>>, here, FALSE)
     \/ word \notin keywords /\ (oom \/ ~Interned(word)) /\ Emit("UNKNOWN", <<>>, here, TRUE)

InDigits == pc \in {"digits", "fraction"} /\ Char \in Digit /\ Move(After(here), pc)

\* Fault: any dot belongs to the number.
EndDigits_AnyDot ==
  /\ pc = "digits" /\ Char \notin Digit
  /\ IF Char = "."
     THEN Move(After(here), "fraction")
     ELSE UNCHANGED start /\ Emit("INT_LIT", <<>>, here, FALSE)

\* The dot of a fraction is told from the dot of a range by what follows it.
EndDigits ==
  /\ pc = "digits" /\ Char \notin Digit
  /\ IF Char = "." /\ Following \in Digit
     THEN Move(After(here), "fraction")
     ELSE UNCHANGED start /\ Emit("INT_LIT", <<>>, here, FALSE)

EndFraction ==
  pc = "fraction" /\ Char \notin Digit /\ UNCHANGED start /\ Emit("FLOAT_LIT", <<>>, here, FALSE)

\* A backslash takes the next character with it.
InString ==
  /\ pc = "string" /\ ~Ended /\ Char # Quote
  /\ Move(IF Char = "\\" THEN After(After(here)) ELSE After(here), "string")

Escaped(c) == IF c \in DOMAIN Escapes THEN Escapes[c] ELSE c

\* unescape_string_into_arena.  The last backslash of raw stands for itself.
Unescape(raw) ==
  LET f[i \in 1..Len(raw) + 1] ==
        IF i > Len(raw) THEN <<>>
        ELSE IF raw[i] = "\\" /\ i < Len(raw) THEN <<Escaped(raw[i + 1])>> \o f[i + 2]
        ELSE <<raw[i]>> \o f[i + 1]
  IN  f[1]

\* What lies between the quotes, whether the last character is one or not: a
\* source that ends in a single quote gives a length of -1, for which the arena
\* is asked for no bytes and gives none.  Empty contents have no record.
EndString ==
  LET end    == After(here)
      length == (end.at - start.at - 2) % Width
      raw    == SubSeq(source, start.at + 1, end.at - 2)
  IN  /\ pc = "string" /\ (Ended \/ Char = Quote)
      /\ UNCHANGED start
      /\ \/ /\ length = 0 \/ (length + 1) % Width = 0
            /\ Emit("STRING_LIT", <<>>, end, FALSE)
         \/ /\ length # 0 /\ (length + 1) % Width # 0
            /\ \/ Emit("STRING_LIT", <<Unescape(raw)>>, end, FALSE)
               \/ Emit("STRING_LIT", <<>>, end, TRUE)

Symbol ==
  LET c == source[start.at] IN
  /\ pc = "symbol" /\ UNCHANGED start
  /\ \/ c \in Single /\ Emit(c, <<>>, here, FALSE)
     \/ c = "=" /\ Char = "=" /\ Emit("EQ_EQ", <<>>, After(here), FALSE)
     \/ c = "." /\ Char = "." /\ Emit("RANGE", <<>>, After(here), FALSE)
     \/ c = "." /\ Char # "." /\ Emit("DOT", <<>>, here, FALSE)
     \/ /\ c \notin Single \cup {"."} /\ ~(c = "=" /\ Char = "=")
        /\ Emit("UNKNOWN", <<>>, here, FALSE)

-----------------------------------------------------------------------------
Next ==
  \/ SkipSpace \/ OpenComment \/ InLine \/ InBlock
  \/ AtEnd \/ Begin
  \/ InWord \/ EndWord \/ InDigits \/ EndDigits \/ EndFraction
  \/ InString \/ EndString \/ Symbol

Spec == Init /\ [][Next]_vars

\* One thread runs the scanner to its end.
FairSpec == Spec /\ WF_vars(Next)

\* lexer_lex_all returns, whatever the source and wherever memory runs out.
LexReturns == <>(pc \in {"done", "failed"})
=============================================================================
