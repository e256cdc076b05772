--------------------------- MODULE LayeredConfig ---------------------------
(***************************************************************************)
(* What a generated loader promises its application: every load answers    *)
(* with a status, and a successful one with the value each field resolves  *)
(* to over the four layers CLI > environment > INI > default               *)
(* (docs/schema_guide.md, "The Load Sequence").  The definitions are       *)
(* declarative: they say which line or argument wins, not how a loop over  *)
(* them arrives at the winner.                                             *)
(***************************************************************************)
EXTENDS ConfigSchema, FiniteSetsExt

CONSTANT Cfgs

VARIABLES
  pending,   \* <<cfg, request, its answer so far>> of the call in progress, or <<>>
  answer     \* cfg -> [status, view]

promiseVars == <<pending, answer>>

NoView == [f \in {} |-> None]
Zeroed == [status |-> "ZERO", view |-> NoView]
Busy   == [status |-> "BUSY", view |-> NoView]

Last(S) == IF S = {} THEN 0 ELSE Max(S)

-----------------------------------------------------------------------------
(* The INI layer *)

\* The header in force at line n: the last one before it that closes.
HeaderAt(ini, n) == Last({h \in 1..n : ini[h].k \in {"sec", "row"}})

SectionAt(ini, n) ==
  IF HeaderAt(ini, n) = 0 THEN Other ELSE ini[HeaderAt(ini, n)].sec

KeyLines(ini, s, key) ==
  {n \in DOMAIN ini : ini[n].k = "key" /\ ini[n].key = key /\ SectionAt(ini, n) = s}

RowLines(ini, t) == {n \in DOMAIN ini : ini[n].k = "row" /\ ini[n].sec = t}

\* A key belongs to the last row opened before it, whatever came in between.
RowValue(ini, t, r) ==
  LET mine == {n \in KeyLines(ini, t, RowKey) :
                 Cardinality({m \in RowLines(ini, t) : m <= n}) = r}
  IN  IF mine = {} THEN RowDefault ELSE ini[Max(mine)].val.txt

-----------------------------------------------------------------------------
(* The CLI layer *)

\* The arguments that are the value of the option before them.
Swallowed(cli) ==
  CHOOSE S \in SUBSET DOMAIN cli :
    \A n \in DOMAIN cli : n \in S <=> n > 1 /\ TakesNext(cli[n - 1]) /\ n - 1 \notin S

\* What argument n gives to field f: {} or one raw value.
Given(cli, f, n) ==
  IF n \in Swallowed(cli) \/ cli[n].t = "word" THEN {}
  ELSE IF cli[n].f # f THEN {}
  ELSE IF cli[n].t = "assign" THEN {cli[n].val}
  ELSE IF Kind[f] = "bool" THEN {[txt |-> CHOOSE t \in TrueTexts : TRUE, elems |-> <<>>]}
  ELSE IF n < Len(cli) THEN {AsRaw(cli[n + 1])} ELSE {}

-----------------------------------------------------------------------------
(* Resolution, part by part: an address has four parts, which a source may  *)
(* set up to one that is out of range, and every other field has one.       *)

Says(f, raw, k) == IF f \in Composed THEN k <= Len(Parts[f][raw.txt]) ELSE k = 1

CliRaw(cli, f, k) ==
  LET wins == {n \in DOMAIN cli : \E raw \in Given(cli, f, n) : Says(f, raw, k)}
  IN  IF wins = {} THEN {} ELSE Given(cli, f, Max(wins))

IniRaw(ini, f, k) ==
  LET wins == {n \in KeyLines(ini, Home[f], Name[f]) : Says(f, ini[n].val, k)}
  IN  IF wins = {} \/ Kind[f] = "tab" THEN {} ELSE {ini[Max(wins)].val}

\* The layers that say part k of field f, highest first; each is {} or one raw value.
Layers(r, f, k) ==
  << CliRaw(r.cli, f, k),
     {raw \in (IF f \in EnvFields \cap DOMAIN r.env THEN {r.env[f]} ELSE {}) : Says(f, raw, k)},
     IF r.file = "open" THEN IniRaw(r.ini, f, k) ELSE {},
     {raw \in (IF f \in DOMAIN Default THEN {[txt |-> Default[f], elems |-> <<>>]} ELSE {}) :
        Says(f, raw, k)} >>

\* What the highest of them says.
Winner(r, f, k) ==
  LET giving == {n \in 1..4 : Layers(r, f, k)[n] # {}}
  IN  IF giving = {} THEN {} ELSE Layers(r, f, k)[Min(giving)]

\* The parts w[1], w[2], .. up to the first there is not.
Assembled(w) == [k \in {n \in 1..4 : w[n] # {}} |-> CHOOSE t \in w[k] : TRUE]

PartOf(f, raws, k) == {Parts[f][raw.txt][k] : raw \in raws}

Value(f, raw) ==
  CASE Kind[f] = "arr"  -> raw.elems
    [] Kind[f] = "ints" -> [n \in DOMAIN raw.elems |-> Number(raw.elems[n])]
    [] OTHER            -> Convert(f, raw.txt)

Resolve(r, f) ==
  CASE Kind[f] = "tab" ->
         IF r.file = "open"
         THEN [n \in 1..Cardinality(RowLines(r.ini, f)) |-> RowValue(r.ini, f, n)]
         ELSE <<>>
    [] f \in Composed -> Assembled([k \in 1..4 |-> PartOf(f, Winner(r, f, k), k)])
    [] OTHER ->
         IF Winner(r, f, 1) # {} THEN Value(f, CHOOSE raw \in Winner(r, f, 1) : TRUE)
         ELSE IF f \in Lists THEN <<>> ELSE None

\* The field must be there; a condition compares a field with a literal.
Needed(view, f) ==
  \/ f \in Required
  \/ f \in DOMAIN RequiredIf /\ view[RequiredIf[f].left] = RequiredIf[f].right

\* Some source has the field, be it with an empty string or an empty array.
Provided(r, f) ==
  IF Kind[f] = "tab" THEN r.file = "open" /\ RowLines(r.ini, f) # {}
  ELSE \/ f \in DOMAIN Default \cup (EnvFields \cap DOMAIN r.env)
       \/ \E n \in DOMAIN r.cli : Given(r.cli, f, n) # {}
       \/ r.file = "open" /\ KeyLines(r.ini, Home[f], Name[f]) # {}

\* A string that was not provided is held against no constraint but its hook.
Passes(f, val) == f \in DOMAIN Hook => val \notin Hook[f]

RowAcceptable(t) ==
  /\ IF t = None THEN ~RowRequired ELSE t \notin Bad
  /\ Passes(RowKey, t)

Acceptable(r, view) ==
  \A f \in Fields :
    /\ Needed(view, f) => Provided(r, f)
    /\ f \in Scalars \ Composed /\ ~(Kind[f] = "str" /\ view[f] = None) => view[f] \notin Bad
    /\ Passes(f, view[f])
    /\ Kind[f] = "tab" => \A n \in DOMAIN view[f] : RowAcceptable(view[f][n])

Outcome(r) ==
  LET view == [f \in Fields |-> Resolve(r, f)]
  IN  IF r.file = "missing" THEN [status |-> "OPEN_FILE", view |-> NoView]
      ELSE IF r.file = "open" /\ \E n \in DOMAIN r.ini : r.ini[n].k \in {"badsec", "noeq"}
           THEN [status |-> "SYNTAX", view |-> NoView]
      ELSE IF Acceptable(r, view) THEN [status |-> "SUCCESS", view |-> view]
      ELSE [status |-> "VALIDATION", view |-> NoView]

\* parse_cli on a loaded configuration: its flags override, nothing is checked.
Overridden(a, cli) ==
  LET kept(f, k) == IF k \in DOMAIN a.view[f] THEN {a.view[f][k]} ELSE {}
      value(f) ==
        IF f \in Composed
        THEN Assembled([k \in 1..4 |->
               IF CliRaw(cli, f, k) = {} THEN kept(f, k) ELSE PartOf(f, CliRaw(cli, f, k), k)])
        ELSE IF CliRaw(cli, f, 1) = {} \/ Kind[f] = "tab" THEN a.view[f]
        ELSE Value(f, CHOOSE raw \in CliRaw(cli, f, 1) : TRUE)
  IN  IF a.status # "SUCCESS" THEN a ELSE [a EXCEPT !.view = [f \in Fields |-> value(f)]]

-----------------------------------------------------------------------------
Init ==
  /\ pending = <<>>
  /\ answer = [c \in Cfgs |-> Zeroed]

\* The application may ask for anything: the promise has no list of requests.
Call(c) ==
  /\ pending' # <<>>
  /\ pending' = <<c, pending'[2], answer[c]>>
  /\ answer' = [answer EXCEPT ![c] = Busy]

Free(c) ==
  /\ answer' = [answer EXCEPT ![c] = Zeroed]
  /\ UNCHANGED pending

Answer ==
  /\ pending' = <<>>
  /\ LET c == pending[1]
         r == pending[2]
     IN  answer' = [answer EXCEPT ![c] =
           IF r.mode = "load" THEN Outcome(r) ELSE Overridden(pending[3], r.cli)]

Next ==
  \/ /\ pending = <<>>
     /\ \E c \in Cfgs : Free(c) \/ Call(c)
  \/ /\ pending # <<>>
     /\ Answer

Spec == Init /\ [][Next]_promiseVars
=============================================================================
