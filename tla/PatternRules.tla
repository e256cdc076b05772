---------------------------- MODULE PatternRules ----------------------------
(***************************************************************************)
(* What docs/schema_guide.md says a pattern means.  A meaning is a record  *)
(* of items between two anchors that may be there, from and to.  An item   *)
(* is a set of characters and how often one comes, times.  at are the      *)
(* places in the pattern where the items are written, the last of them     *)
(* where they end, and parts those of the members of a class likewise.     *)
(***************************************************************************)
EXTENDS PatternMatch, SequencesExt

Special == Quantifiers \cup {"^", "$", ".", "[", "\\"}

\* Where the character is that is written at i in a class, escaped or not.
Letter(w, i) == IF w[i] = "\\" /\ w[i + 1] # "]" THEN i + 1 ELSE i

\* From i to before j, w has a member of a class: one character or a range.
IsRangeAt(w, i, j) ==
  LET lo == Letter(w, i)
  IN  w[lo + 1] = "-" /\ w[lo + 2] # "]" /\ j = Letter(w, lo + 2) + 1

IsMemberAt(w, i, j) ==
  /\ w[Letter(w, i)] # "]"
  /\ \/ IsRangeAt(w, i, j)
     \/ j = Letter(w, i) + 1 /\ (w[j] = "-" => w[j + 1] = "]")

MemberAt(w, i, j) ==
  IF IsRangeAt(w, i, j) THEN Between(w[Letter(w, i)], w[j - 1]) ELSE {w[Letter(w, i)]}

IsClassAt(w, item, i, j) ==
  LET b       == item.parts
      size    == Len(b) - 1
      negated == w[i + 1] = "^"
      members == UNION {MemberAt(w, b[k], b[k + 1]) : k \in 1..size}
  IN  /\ w[i] = "[" /\ w[j - 1] = "]"
      /\ size \in Nat \ {0} /\ b \in [1..(size + 1) -> 1..(j - 1)]
      /\ b[1] = (IF negated THEN i + 2 ELSE i + 1) /\ b[size + 1] = j - 1
      /\ \A k \in 1..size : b[k] < b[k + 1] /\ IsMemberAt(w, b[k], b[k + 1])
      /\ item.set = IF negated THEN Chars \ members ELSE members

\* From i to before j, w has what the item is a repetition of.
IsAtomAt(w, item, i, j) ==
  \/ j = i + 1 /\ w[i] \notin Special /\ item.set = {w[i]}
  \/ j = i + 1 /\ w[i] = "." /\ item.set = Chars
  \/ j = i + 2 /\ w[i] = "\\" /\ item.set = {w[i + 1]}
  \/ IsClassAt(w, item, i, j)

IsItemAt(w, item, i, j) ==
  \/ item.times = "1" /\ IsAtomAt(w, item, i, j)
  \/ item.times \in Quantifiers /\ w[j - 1] = item.times /\ IsAtomAt(w, item, i, j - 1)

\* w says m.
Says(w, m) ==
  LET size == Len(m.items)
  IN  /\ size \in Nat /\ DOMAIN m.items = 1..size /\ m.at \in [1..(size + 1) -> 1..(Len(w) + 1)]
      /\ m.from = (w # <<>> /\ w[1] = "^") /\ m.at[1] = (IF m.from THEN 2 ELSE 1)
      /\ m.to \in BOOLEAN /\ m.at[size + 1] = (IF m.to THEN Len(w) ELSE Len(w) + 1)
      /\ m.to => w # <<>> /\ w[Len(w)] = "$"
      /\ \A k \in 1..size : /\ m.at[k] < m.at[k + 1]
                         /\ IsItemAt(w, m.items[k], m.at[k], m.at[k + 1])

ASSUME PatternRulesAssumption ==
  /\ \A c, d \in Chars : Rank[c] = Rank[d] => c = d
  /\ \A e \in Patterns : Says(e.re, e.means)

-----------------------------------------------------------------------------
\* Where in s an item may end that starts at i.
Ends(s, item, i) ==
  {j \in i..(Len(s) + 1) : /\ \A k \in i..(j - 1) : s[k] \in item.set
                           /\ CASE item.times = "1" -> j = i + 1
                                [] item.times = "?" -> j <= i + 1
                                [] item.times = "+" -> j > i
                                [] OTHER            -> TRUE}

\* cut are places in s between which the items are, one after the other.
Follows(m, s, cut) ==
  /\ m.from => cut[1] = 1
  /\ m.to => cut[Len(m.items) + 1] = Len(s) + 1
  /\ \A k \in DOMAIN m.items : cut[k + 1] \in Ends(s, m.items[k], cut[k])

Cuts(m, s) == [1..(Len(m.items) + 1) -> 1..(Len(s) + 1)]

Matches(m, s) == \E cut \in Cuts(m, s) : Follows(m, s, cut)

means == pattern.means

\* The patterns the matcher can do: nothing that may be absent, no repeated
\* dot, no repetition that could swallow what must come next, no dollar of
\* the text's own at the end, and something to look for when not anchored.
Direct(m) ==
  LET last == Len(m.items) IN
  /\ last > 0 \/ m.from
  /\ \A k \in DOMAIN m.items :
       /\ m.items[k].times \in {"1", "+"}
       /\ m.items[k].times = "+" => /\ m.items[k].set # Chars
                                    /\ k < last => m.items[k].set \cap m.items[k + 1].set = {}
  /\ AnchoredEnd => m.to

-----------------------------------------------------------------------------
\* No value that the pattern does not match gets through, whatever it is made of.
AcceptedMatches == pc = "yes" => Matches(means, text)

\* A pattern of the kind the matcher can do refuses no value that it matches:
\* for these, greedy loops without backtracking are enough.
DirectIsComplete == pc = "no" /\ Direct(means) => ~Matches(means, text)

\* docs/schema_guide.md:451 has a star stand for zero or more: ^a* does not
\* refuse a value without an a.
StarIsZeroOrMore ==
  pc = "no" /\ means.from /\ Len(means.items) = 1 /\ means.items[1].times = "*"
    => ~Matches(means, text)
=============================================================================
