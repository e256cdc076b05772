------------------------------ MODULE MCLexer ------------------------------
(***************************************************************************)
(* Small sources for the scanner.                                          *)
(***************************************************************************)
EXTENDS LexerRules

Over(S, n) == UNION {[1..m -> S] : m \in 0..n}

Every == {"a", "n", "0", " ", "nl", "/", "*", "\"", "\\", "-", ".", "=", "{", "#"}

\* Every source of three characters, and longer ones over the characters that
\* a comment, a string, a number and a word are made of.
MCSources ==
  Over(Every, 3)
    \cup Over({"/", "*", "nl", "a"}, 5)
    \cup Over({"\"", "\\", "n", " "}, 5)
    \cup Over({"-", "0", ".", "="}, 5)
    \cup Over({"a", "n", "0", "nl"}, 5)

MCKeyword == {<<"a", "n">>, <<"n">>}
=============================================================================
