----------------------------- MODULE LexerRules -----------------------------
(***************************************************************************)
(* What the tokens of a source are, from the source alone: white space and *)
(* comments apart, each is the longest lexeme at its place.                *)
(*                                                                         *)
(* s is a source, and i and j are the places of a first and a last         *)
(* character in it.                                                        *)
(***************************************************************************)
EXTENDS Lexer

Has(s, i, w) == i + Len(w) - 1 <= Len(s) /\ \A k \in DOMAIN w : s[i + k - 1] = w[k]

\* The first place from i on that holds w, or the end of s.
FirstFrom(s, i, w) ==
  LET found == {j \in i..Len(s) : Has(s, j, w)}
  IN  IF found = {} THEN Len(s) + 1 ELSE CHOOSE j \in found : \A k \in found : j <= k

\* White space or a comment starts at i, and where s goes on after it.
Blank(s, i) ==
  i <= Len(s) /\ (s[i] \in Space \/ Has(s, i, <<"/", "/">>) \/ Has(s, i, <<"/", "*">>))

Beyond(s, i) ==
  IF s[i] \in Space THEN i + 1
  ELSE IF Has(s, i, <<"/", "/">>) THEN FirstFrom(s, i + 2, <<"nl">>)
  ELSE FirstFrom(s, i + 2, <<"*", "/">>) + 2

\* The place of the first character from i on that is part of a token.
TokenFrom(s, i) ==
  LET from[k \in 1..Len(s) + 3] ==
        IF Blank(s, k) THEN from[Beyond(s, k)] ELSE IF k <= Len(s) THEN k ELSE Len(s) + 1
  IN  from[i]

\* The character at i is a backslash that stands for the one after it: an even
\* number of backslashes leads up to it.
Escaper(s, i) ==
  LET other == {j \in 1..i : s[j] # "\\"}
      run   == IF other = {} THEN i ELSE i - CHOOSE j \in other : \A k \in other : k <= j
  IN  s[i] = "\\" /\ run % 2 = 1

All(s, i, j, S) == i <= j /\ \A k \in i..j : s[k] \in S

IsWord(s, i, j)  == s[i] \in Alpha /\ All(s, i, j, Alpha \cup Digit)
IsInt(s, i, j)   == All(s, i, j, Digit) \/ (s[i] = "-" /\ All(s, i + 1, j, Digit))
IsFloat(s, i, j) == \E k \in i..j : s[k] = "." /\ IsInt(s, i, k - 1) /\ All(s, k + 1, j, Digit)

\* Quoted, and no quote inside but escaped ones.
IsString(s, i, j) ==
  /\ i < j /\ s[i] = Quote /\ s[j] = Quote
  /\ \A k \in i + 1..j : s[k] = Quote => (k < j) = Escaper(s, k - 1)

IsSymbol(s, i, j) ==
  \/ j = i /\ s[i] \in Single \cup {"."}
  \/ j = i + 1 /\ s[i] \in {"=", "."} /\ s[j] = s[i]

Lexeme(s, i, j) ==
  IsWord(s, i, j) \/ IsInt(s, i, j) \/ IsFloat(s, i, j) \/ IsString(s, i, j) \/ IsSymbol(s, i, j)

\* Where the token at i ends: a string that is never closed takes all the rest,
\* and a character no lexeme starts with is a token by itself.
TokenEnd(s, i) ==
  LET ends == {j \in i..Len(s) : Lexeme(s, i, j)}
  IN  IF ends # {} THEN CHOOSE j \in ends : \A k \in ends : k <= j
      ELSE IF s[i] = Quote THEN Len(s) ELSE i

\* The type of a token but for a word.
Type(s, i, j) ==
  CASE IsInt(s, i, j)   -> "INT_LIT"
    [] IsFloat(s, i, j) -> "FLOAT_LIT"
    [] s[i] = Quote      -> "STRING_LIT"     \* closed or not
    [] s[i] = "." -> IF j = i THEN "DOT" ELSE "RANGE"
    [] s[i] = "=" /\ j = i + 1 -> "EQ_EQ"
    [] s[i] \in Single -> s[i]
    [] OTHER -> "UNKNOWN"

\* The characters a closed string stands for, escapes replaced.
Contents(s, i, j) ==
  LET upto[k \in i..j - 1] ==
        IF k = i THEN <<>>
        ELSE IF Escaper(s, k) THEN upto[k - 1]
        ELSE Append(upto[k - 1], IF Escaper(s, k - 1) THEN Escaped(s[k]) ELSE s[k])
  IN  upto[j - 1]

\* Lines and columns as an editor shows them.
PlaceOf(s, i) ==
  LET breaks == {j \in 1..i - 1 : s[j] = "nl"}
  IN  Place(i, Cardinality(breaks) + 1,
            IF breaks = {} THEN i ELSE i - CHOOSE j \in breaks : \A k \in breaks : k <= j)

-----------------------------------------------------------------------------
\* The k-th token starts where the source goes on after the one before it, and
\* both its ends are where an editor would show them.
InPlace(k) ==
  LET from == TokenFrom(source, IF k = 1 THEN 1 ELSE tokens[k - 1].to.at)
      to   == IF from > Len(source) THEN from ELSE TokenEnd(source, from) + 1
  IN  tokens[k].from = PlaceOf(source, from) /\ tokens[k].to = PlaceOf(source, to)

\* A word has its record and is a keyword if it is one of them.  Without memory
\* it may be no keyword or lose its record.
MeansWord(t, w) ==
  \/ t.type = (IF w \in Keyword THEN "KEYWORD" ELSE "IDENTIFIER") /\ t.rec = <<w>>
  \/ oom /\ t.type = "IDENTIFIER" /\ t.rec = <<w>>
  \/ oom /\ t.type = "UNKNOWN" /\ t.rec = <<>>

\* The contents of a string that is closed and not empty are its record, unless
\* there was no memory for them.
MeansString(t, i, j) ==
  IsString(source, i, j) =>
    \/ t.rec = IF j > i + 1 THEN <<Contents(source, i, j)>> ELSE <<>>
    \/ oom /\ t.rec = <<>>

\* The type and the record of a token are those of its text.
Means(t) ==
  LET i == t.from.at
      j == t.to.at - 1
  IN  IF i > j THEN t.type = "EOF" /\ t.rec = <<>>
      ELSE IF IsWord(source, i, j) THEN MeansWord(t, SubSeq(source, i, j))
      ELSE /\ t.type = Type(source, i, j)
           /\ IF source[i] = Quote THEN MeansString(t, i, j) ELSE t.rec = <<>>

\* The tokens are the source: nothing but white space and comments between them,
\* each the longest lexeme where it stands, with the line and column, the type
\* and the contents of its text, and the end of the source the last and only
\* the last (lexer_next_token and lexer_lex_all).  An error message underlines
\* these places, and the parser reads the source through nothing else.
TokensAreTheSource ==
  /\ \A k \in DOMAIN tokens :
       /\ InPlace(k) /\ Means(tokens[k])
       /\ (tokens[k].type = "EOF") = (k = Len(tokens) /\ pc = "done")
  /\ pc = "done" => tokens # <<>>
=============================================================================
