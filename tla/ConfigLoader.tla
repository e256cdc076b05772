---------------------------- MODULE ConfigLoader ----------------------------
(***************************************************************************)
(* The loader cfg-gen writes for a schema S: S_load, S_parse_cli, S_free   *)
(* and the pool they allocate from.  The emitters are                      *)
(* tools/src/codegen/codegen.c (runtime, _load, _free),                    *)
(* emit_lifecycle.c (defaults, INI handler, environment, parse_cli),       *)
(* emit_cli.c (flags) and emit_validation.c (S_validate).                  *)
(*                                                                         *)
(* One application thread calls the functions on the structs in Cfgs, in   *)
(* any order.  A call runs step by step: one field, one INI line or one    *)
(* argument at a time, and every malloc of a step may fail while           *)
(* oom < OomBudget.  Memory blocks are numbered and never reused, so a     *)
(* pointer to a freed block is recognised for ever.                        *)
(***************************************************************************)
EXTENDS ConfigSchema

CONSTANTS
  Cfgs,        \* the configuration structs of the application
  Requests,    \* the calls it makes: [mode, file, ini, env, cli]
  MaxCalls,    \* bound on the number of calls
  OomBudget,   \* bound on the steps in which malloc fails
  Reload       \* may S_load be called on a struct that was not freed?

IsSeq(s) == Len(s) \in Nat /\ DOMAIN s = 1..Len(s)

IsRequest(r) ==
  /\ r.mode \in {"load", "cli"} /\ r.file \in {"none", "missing", "open"}
  /\ IsSeq(r.ini) /\ \A n \in DOMAIN r.ini : IsLine(r.ini[n])
  /\ IsSeq(r.cli) /\ \A n \in DOMAIN r.cli : IsToken(r.cli[n])
  /\ \A f \in DOMAIN r.env : r.env[f] \in Raw

ASSUME LoaderAssumption ==
  /\ \A r \in Requests : IsRequest(r)
  /\ MaxCalls \in Nat /\ OomBudget \in Nat /\ Reload \in BOOLEAN
  /\ None \notin Cfgs

VARIABLES
  live,        \* allocated blocks
  next,        \* the next block number
  cfg,         \* struct -> field -> slot
  pool,        \* struct -> the blocks internal_pool reaches
  status,      \* struct -> what the last S_load on it returned
  err,         \* the cfg_error_t of the last S_load: [code, field], the code
               \* standing for the kind of message it holds, "none" for none
  pc, cur, req, \* the call in progress: where it is, its struct, its arguments
  i,           \* its loop index
  ctx,         \* the blocks its context's pool reaches
  sec,         \* the section cfg_parse_ini is in
  good,        \* cfg_parse_ini's success
  prior,       \* (history) what the struct answered when the call began
  oom, calls

heapVars == <<live, next, oom>>
dataVars == <<cfg, pool, status, err>>
callVars == <<pc, cur, req, i, ctx, sec, good, prior, calls>>
vars == <<heapVars, dataVars, callVars>>

Null == 0
Wild == -1     \* an indeterminate pointer: memory read before it was written

Ptr(b, t) == [blk |-> b, txt |-> t]
NullPtr   == Ptr(Null, None)

\* blk is the string, or the data of an array; rows are an array's elements, or
\* the parts of an address or an enum that were written, the others being zero.
Slot(b, t, rows) == [blk |-> b, txt |-> t, rows |-> rows]
ZeroSlot   == Slot(Null, None, <<>>)
ZeroStruct == [f \in Fields |-> ZeroSlot]

Reach(slot) ==
  ({slot.blk} \cup {slot.rows[n].blk : n \in DOMAIN slot.rows}) \ {Null}

Reachable(c) == UNION {Reach(cfg[c][f]) : f \in Fields}

RowTexts(slot) == [n \in DOMAIN slot.rows |-> slot.rows[n].txt]

View(c) == [f \in Fields |->
  IF f \in Scalars \ Composed THEN cfg[c][f].txt ELSE RowTexts(cfg[c][f])]

NoError == [code |-> "none", field |-> None]
Error(code, f) == [code |-> code, field |-> f]
NoCall == [mode |-> "none"]

-----------------------------------------------------------------------------
(* Writing a field.  An effect is the slot left behind, the blocks the     *)
(* pool gained (fewer than used, numbered from next on), whether a malloc  *)
(* failed and whether the code then dereferences NULL.                     *)

Effect(slot, new, used, failed, crash) ==
  [slot |-> slot, new |-> new, used |-> used, failed |-> failed, crash |-> crash]

\* cfg_intern_string: a fresh copy, or NULL.
InternEffects(t) ==
  { Effect(Slot(next, t, <<>>), {next}, 1, FALSE, FALSE),
    Effect(ZeroSlot, {}, 0, TRUE, FALSE) }

\* new over old: cfg_parse_ipv4 leaves the octets it does not get to.
Patched(old, new) ==
  [k \in 1..(IF Len(old) < Len(new) THEN Len(new) ELSE Len(old)) |->
     IF k <= Len(new) THEN Ptr(Null, new[k]) ELSE old[k]]

\* What is not a pointer needs no memory.
ValueEffects(f, t) ==
  { Effect(IF f \in Composed THEN Slot(Null, None, Patched(cfg[cur][f].rows, Parts[f][t]))
           ELSE Slot(Null, Convert(f, t), <<>>), {}, 0, FALSE, FALSE) }

\* Fault: when the copy fails the field keeps the string it had.
ScalarEffects_KeepOld(f, t) ==
  IF Kind[f] = "str"
  THEN { Effect(Slot(next, t, <<>>), {next}, 1, FALSE, FALSE),
         Effect(cfg[cur][f], {}, 0, TRUE, FALSE) }
  ELSE ValueEffects(f, t)

ScalarEffects(f, t) ==
  IF Kind[f] = "str" THEN InternEffects(t) ELSE ValueEffects(f, t)

\* cfg_parse_array_string: count the elements, allocate the data, intern each.
ArrayEffects(old, elems) ==
  LET n == Len(elems)
      filled(E) == [m \in 1..n |-> IF m \in E THEN NullPtr ELSE Ptr(next + m, elems[m])]
      unread == [m \in 1..n |-> Ptr(Wild, None)]
  IN  {Effect(old, {}, 0, TRUE, FALSE)} \cup
      IF n = 0 THEN {Effect(ZeroSlot, {}, 0, FALSE, FALSE)}
      ELSE {Effect(Slot(next, None, filled(E)), {next} \cup {next + m : m \in (1..n) \ E},
                   n + 1, E # {}, FALSE) : E \in SUBSET (1..n)}
           \cup {Effect(Slot(next, None, unread), {next}, 1, TRUE, FALSE),
                 Effect(Slot(Null, None, unread), {}, 0, TRUE, FALSE),
                 Effect(old, {}, 0, TRUE, TRUE)}

\* cfg_parse_array_int: the same, and the numbers are written to whatever data is.
IntsEffects(old, elems) ==
  LET n == Len(elems)
      read == [m \in 1..n |-> Ptr(Null, Number(elems[m]))]
      junk == [1..n -> {Ptr(Null, t) : t \in Numeric \cup {None}}]
  IN  {Effect(old, {}, 0, TRUE, FALSE)} \cup
      IF n = 0 THEN {Effect(ZeroSlot, {}, 0, FALSE, FALSE)}
      ELSE {Effect(Slot(next, None, read), {next}, 1, FALSE, FALSE),
            Effect(old, {}, 0, TRUE, TRUE)}
           \cup {Effect(Slot(next, None, u), {next}, 1, TRUE, FALSE) : u \in junk}
           \cup {Effect(Slot(Null, None, u), {}, 0, TRUE, FALSE) : u \in junk}

ListEffects(f, elems) ==
  IF Kind[f] = "arr" THEN ArrayEffects(cfg[cur][f], elems) ELSE IntsEffects(cfg[cur][f], elems)

\* A flag on an array of schemas writes an array of strings over the structs.
MistypedEffects(old, elems) ==
  {[e EXCEPT !.slot.rows = [m \in DOMAIN e.slot.rows |-> Ptr(Wild, None)]] :
     e \in ArrayEffects(old, elems)}

\* [[S.f]]: copy the rows to a larger block and append a row of defaults.
AppendRowEffects(old) ==
  LET grown(p) == Slot(next, None, Append(old.rows, p))
  IN  {Effect(old, {}, 0, TRUE, TRUE)} \cup
      IF RowDefault = None
      THEN {Effect(grown(NullPtr), {next}, 1, FALSE, FALSE)}
      ELSE {Effect(grown(Ptr(next + 1, RowDefault)), {next, next + 1}, 2, FALSE, FALSE),
            Effect(grown(NullPtr), {next}, 1, TRUE, FALSE)}

\* Fault: the key goes to the first row.
LastRowEffects_First(old, t) ==
  { Effect([old EXCEPT !.rows = [old.rows EXCEPT ![1] = Ptr(next, t)]], {next}, 1, FALSE, FALSE) }

\* A key under [[S.f]] goes to the last row.
LastRowEffects(old, t) ==
  LET put(p) == [old EXCEPT !.rows = [old.rows EXCEPT ![Len(old.rows)] = p]]
  IN  { Effect(put(Ptr(next, t)), {next}, 1, FALSE, FALSE),
        Effect(put(NullPtr), {}, 0, TRUE, FALSE) }

\* Apply one of the effects to field f of the struct and go on at label l.
Write(f, effects, l) ==
  \E e \in effects :
    /\ e.failed => oom < OomBudget
    /\ oom' = IF e.failed THEN oom + 1 ELSE oom
    /\ live' = live \cup e.new
    /\ ctx' = ctx \cup e.new
    /\ next' = next + e.used
    /\ cfg' = [cfg EXCEPT ![cur][f] = e.slot]
    /\ pc' = IF e.crash THEN "crashed" ELSE l

\* The step changes no memory.
Skip(l) == pc' = l /\ UNCHANGED <<live, next, oom, ctx, cfg>>

-----------------------------------------------------------------------------
Init ==
  /\ live = {} /\ next = 1 /\ oom = 0
  /\ cfg = [c \in Cfgs |-> ZeroStruct]
  /\ pool = [c \in Cfgs |-> {}]
  /\ status = [c \in Cfgs |-> "ZERO"]
  /\ err = NoError
  /\ pc = "idle" /\ cur = None /\ req = NoCall /\ i = 1
  /\ ctx = {} /\ sec = Other /\ good = TRUE /\ prior = <<>> /\ calls = 0

\* The call is over; its locals are gone.
Return ==
  /\ pc' = "idle" /\ cur' = None /\ req' = NoCall /\ i' = 1
  /\ ctx' = {} /\ sec' = Other /\ good' = TRUE /\ prior' = <<>>

Answered(c) == [status |-> status[c],
                view   |-> IF status[c] = "SUCCESS" THEN View(c) ELSE [f \in {} |-> None]]

\* Fault: the struct is not zeroed.
Clear_Dirty(c) ==
  pool' = [pool EXCEPT ![c] = {}] /\ err' = NoError /\ UNCHANGED cfg

\* Fault: the error of an earlier load stays.
Clear_StaleError(c) ==
  /\ cfg' = [cfg EXCEPT ![c] = ZeroStruct]
  /\ pool' = [pool EXCEPT ![c] = {}]
  /\ UNCHANGED err

\* The struct zeroed, its pool empty, the error clear.
Clear(c) ==
  /\ cfg' = [cfg EXCEPT ![c] = ZeroStruct]
  /\ pool' = [pool EXCEPT ![c] = {}]
  /\ err' = NoError

\* S_load; on a struct that still owns a pool only if the application dares to.
Load(c, r) ==
  /\ r.mode = "load"
  /\ Reload \/ pool[c] = {}
  /\ Clear(c)
  /\ pc' = "default" /\ cur' = c /\ req' = r /\ prior' = Answered(c)
  /\ calls' = calls + 1
  /\ UNCHANGED <<heapVars, status, i, ctx, sec, good>>

\* Each field with a default is assigned it.
DefaultField ==
  /\ pc = "default" /\ i <= Len(FieldSeq)
  /\ LET f == FieldSeq[i]
     IN  IF f \in DOMAIN Default THEN Write(f, ScalarEffects(f, Default[f]), pc)
         ELSE Skip(pc)
  /\ i' = i + 1
  /\ UNCHANGED <<pool, status, err, cur, req, sec, good, prior, calls>>

\* Fault: the early return forgets the context's pool.
FailLoad_Leak(code) ==
  /\ status' = [status EXCEPT ![cur] = code]
  /\ Return
  /\ UNCHANGED <<heapVars, cfg, pool, calls>>

\* A failed load: free what the context holds, leave the struct as it is.
FailLoad(code) ==
  /\ live' = live \ ctx
  /\ status' = [status EXCEPT ![cur] = code]
  /\ Return
  /\ UNCHANGED <<next, oom, cfg, pool, calls>>

OpenIni ==
  /\ pc = "default" /\ i > Len(FieldSeq)
  /\ \/ /\ req.file = "missing"
        /\ err' = Error("OPEN_FILE", None)
        /\ FailLoad("OPEN_FILE")
     \/ /\ req.file # "missing"
        /\ Skip(IF req.file = "open" THEN "ini" ELSE "env")
        /\ i' = 1
        /\ UNCHANGED <<dataVars, cur, req, sec, good, prior, calls>>

\* What S_ini_handler does with key = val in section sec: the parts of the section
\* lead to the fields of one struct, and the key to one of them.
StoreField(f, val) ==
  \/ f \in Scalars /\ Write(f, ScalarEffects(f, val.txt), pc)
  \/ f \in Lists /\ Write(f, ListEffects(f, val.elems), pc)
  \/ f \in OfKind("tab") /\ Skip(pc)

Declared(s, key) == {f \in Fields : Home[f] = s /\ Name[f] = key}

StoreKey(line) ==
  \/ \E f \in Declared(sec, line.key) : StoreField(f, line.val)
  \/ /\ sec \in OfKind("tab") /\ line.key = RowKey /\ cfg[cur][sec].rows # <<>>
     /\ Write(sec, LastRowEffects(cfg[cur][sec], line.val.txt), pc)
  \/ /\ Declared(sec, line.key) = {}
     /\ ~(sec \in OfKind("tab") /\ line.key = RowKey /\ cfg[cur][sec].rows # <<>>)
     /\ Skip(pc)

\* [[section]] calls the handler with no key; where there are fields it compares it.
OpenRow(s) ==
  \/ s \in OfKind("tab") /\ Write(s, AppendRowEffects(cfg[cur][s]), pc)
  \/ s \in Homes /\ Skip("crashed")
  \/ s \notin OfKind("tab") \cup Homes /\ Skip(pc)

IniLine ==
  /\ pc = "ini" /\ i <= Len(req.ini)
  /\ LET line == req.ini[i]
     IN  \/ /\ line.k = "sec" /\ sec' = line.sec
            /\ Skip(pc) /\ UNCHANGED <<good, err>>
         \/ /\ line.k = "row" /\ sec' = line.sec
            /\ OpenRow(line.sec) /\ UNCHANGED <<good, err>>
         \/ /\ line.k \in {"badsec", "noeq"}
            /\ good' = FALSE /\ err' = Error("SYNTAX", None)
            /\ Skip(pc) /\ UNCHANGED sec
         \/ /\ line.k = "key"
            /\ StoreKey(line) /\ UNCHANGED <<sec, good, err>>
  /\ i' = i + 1
  /\ UNCHANGED <<pool, status, cur, req, prior, calls>>

\* Errors do not stop the reading; the load fails at the end of the file.
EndIni ==
  /\ pc = "ini" /\ i > Len(req.ini)
  /\ \/ ~good /\ FailLoad("SYNTAX") /\ UNCHANGED err
     \/ /\ good /\ Skip("env") /\ i' = 1
        /\ UNCHANGED <<dataVars, cur, req, sec, good, prior, calls>>

\* Scalars with an env property; arrays and enums have none of their code emitted.
EnvField ==
  /\ pc = "env" /\ i <= Len(FieldSeq)
  /\ LET f == FieldSeq[i]
     IN  IF f \in Envable \cap DOMAIN req.env
         THEN Write(f, ScalarEffects(f, req.env[f].txt), pc)
         ELSE Skip(pc)
  /\ i' = i + 1
  /\ UNCHANGED <<pool, status, err, cur, req, sec, good, prior, calls>>

\* cfg->internal_pool = ctx.pool, then parse_cli takes it up again.
Publish ==
  /\ pc = "env" /\ i > Len(FieldSeq)
  /\ pool' = [pool EXCEPT ![cur] = ctx]
  /\ Skip("cli") /\ i' = 1
  /\ UNCHANGED <<cfg, status, err, cur, req, sec, good, prior, calls>>

\* S_parse_cli called by the application itself.
ParseCli(c, r) ==
  /\ r.mode = "cli"
  /\ pc' = "cli" /\ cur' = c /\ req' = r /\ prior' = Answered(c)
  /\ ctx' = pool[c]
  /\ calls' = calls + 1
  /\ UNCHANGED <<heapVars, dataVars, i, sec, good>>

\* Fault: an argument that names nothing is looked at again.
Consumed_Stuck(a, valued) == IF valued THEN 2 ELSE IF a.t = "word" THEN 0 ELSE 1

\* What S_parse_arg returns: the arguments it used, at least the one looked at.
Consumed(a, valued) == IF valued THEN 2 ELSE 1

\* S_parse_arg on one argument.
Argument ==
  /\ pc = "cli" /\ i <= Len(req.cli)
  /\ LET a == req.cli[i]
         valued == TakesNext(a) /\ i < Len(req.cli)
         raw == IF valued THEN AsRaw(req.cli[i + 1]) ELSE a.val
     IN  /\ i' = i + Consumed(a, valued)
         /\ \/ /\ a.t = "opt" /\ Kind[a.f] = "bool"
               /\ Write(a.f, ScalarEffects(a.f, CHOOSE t \in TrueTexts : TRUE), pc)
            \/ /\ valued \/ a.t = "assign"
               /\ a.f \in Assignable \/ (valued /\ Kind[a.f] = "enum")
               /\ Write(a.f, ScalarEffects(a.f, raw.txt), pc)
            \/ /\ valued /\ a.f \in Lists
               /\ Write(a.f, ListEffects(a.f, raw.elems), pc)
            \/ /\ valued /\ Kind[a.f] = "tab"
               /\ Write(a.f, MistypedEffects(cfg[cur][a.f], raw.elems), pc)
            \/ /\ \/ a.t = "word"
                  \/ TakesNext(a) /\ ~valued
                  \/ a.t = "assign" /\ a.f \notin Assignable
               /\ Skip(pc)
  /\ UNCHANGED <<pool, status, err, cur, req, sec, good, prior, calls>>

\* Fault: what parse_cli allocated is not handed back.
EndCli_Lost ==
  /\ pc = "cli" /\ i > Len(req.cli)
  /\ \/ req.mode = "load" /\ pc' = "validate" /\ UNCHANGED <<cur, req, i, ctx, sec, good, prior>>
     \/ req.mode = "cli" /\ Return
  /\ UNCHANGED <<heapVars, cfg, pool, status, err, calls>>

\* parse_cli hands the pool back; S_load goes on to validate.
EndCli ==
  /\ pc = "cli" /\ i > Len(req.cli)
  /\ pool' = [pool EXCEPT ![cur] = ctx]
  /\ \/ req.mode = "load" /\ pc' = "validate" /\ UNCHANGED <<cur, req, i, ctx, sec, good, prior>>
     \/ req.mode = "cli" /\ Return
  /\ UNCHANGED <<heapVars, cfg, status, err, calls>>

-----------------------------------------------------------------------------
(* S_validate: the fields in order, the rows of a table after its checks.  *)

\* A string is compared by address, which is never that of the literal.
Holds(c, cond) == Kind[cond.left] # "str" /\ cfg[c][cond.left].txt = cond.right

Needs(c, f) == f \in Required \/ (f \in DOMAIN RequiredIf /\ Holds(c, RequiredIf[f]))

FieldFails(c, f) ==
  LET slot == cfg[c][f] IN
  \/ Needs(c, f) /\ Kind[f] = "str" /\ slot.blk = Null
  \/ Needs(c, f) /\ f \in Lists \cup OfKind("tab") /\ slot.rows = <<>>
  \/ Kind[f] = "str" /\ slot.blk # Null /\ slot.txt \in Bad
  \/ Kind[f] \in {"num", "bool"} /\ slot.txt \in Bad

RowFails(p) ==
  \/ RowRequired /\ p.blk = Null
  \/ p.blk # Null /\ p.txt \in Bad

\* A hook is called with the string, be it NULL, or with the address of the value.
HookRejects(f, val) == f \in DOMAIN Hook /\ val \in Hook[f]

Rejected(c, f) == FieldFails(c, f) \/ HookRejects(f, View(c)[f])
RowRejected(p) == RowFails(p) \/ HookRejects(RowKey, p.txt)

Fails(c, f) ==
  \/ Rejected(c, f)
  \/ Kind[f] = "tab" /\ \E n \in DOMAIN cfg[c][f].rows : RowRejected(cfg[c][f].rows[n])

Invalid(c) == {n \in DOMAIN FieldSeq : Fails(c, FieldSeq[n])}

\* What a hook that rejects leaves in err: nothing, or a message of its own.
HookErrors == {NoError, Error("HOOK", None)}

\* A constraint puts the leaf of the field's path in err->field, a hook only
\* returns; the properties of a field are checked in the order of the schema.
Messages(name, fails, rejects) ==
  {e \in {Error("VALIDATION", name)} : fails} \cup {e \in HookErrors : rejects}

LeastOf(S) == CHOOSE n \in S : \A m \in S : n <= m

\* What err may hold after the first failing check.
Reports(c) ==
  LET f == FieldSeq[LeastOf(Invalid(c))]
      rows == cfg[c][f].rows
      p == rows[LeastOf({n \in DOMAIN rows : RowRejected(rows[n])})]
  IN  IF Rejected(c, f)
      THEN Messages(Name[f], FieldFails(c, f), HookRejects(f, View(c)[f]))
      ELSE Messages(RowKey, RowFails(p), HookRejects(RowKey, p.txt))

\* Faults: the freed pool stays in the struct; the struct keeps its pointers.
Release_KeepPool(c) ==
  /\ live' = live \ pool[c]
  /\ cfg' = [cfg EXCEPT ![c] = ZeroStruct]
  /\ UNCHANGED <<next, oom, pool>>

Release_KeepStruct(c) ==
  /\ live' = live \ pool[c]
  /\ pool' = [pool EXCEPT ![c] = {}]
  /\ UNCHANGED <<next, oom, cfg>>

\* S_free: every block of the pool is freed and the struct zeroed.
Release(c) ==
  /\ live' = live \ pool[c]
  /\ pool' = [pool EXCEPT ![c] = {}]
  /\ cfg' = [cfg EXCEPT ![c] = ZeroStruct]
  /\ UNCHANGED <<next, oom>>

Validate ==
  /\ pc = "validate"
  /\ \/ /\ Invalid(cur) = {}
        /\ status' = [status EXCEPT ![cur] = "SUCCESS"]
        /\ UNCHANGED <<heapVars, cfg, pool, err>>
     \/ /\ Invalid(cur) # {}
        /\ status' = [status EXCEPT ![cur] = "VALIDATION"]
        /\ err' \in Reports(cur)
        /\ Release(cur)
  /\ Return
  /\ UNCHANGED calls

Free(c) ==
  /\ Release(c)
  /\ status' = [status EXCEPT ![c] = "ZERO"]
  /\ calls' = calls + 1
  /\ UNCHANGED <<err, pc, cur, req, i, ctx, sec, good, prior>>

Step ==
  \/ DefaultField \/ OpenIni \/ IniLine \/ EndIni \/ EnvField
  \/ Publish \/ Argument \/ EndCli \/ Validate

\* The application calls a function once the one before it has returned.
Next ==
  \/ /\ pc = "idle" /\ calls < MaxCalls
     /\ \E c \in Cfgs : \/ Free(c)
                       \/ \E r \in Requests : Load(c, r) \/ ParseCli(c, r)
  \/ Step

Spec == Init /\ [][Next]_vars

\* A call runs to its end: nothing in the loader waits.
FairSpec == Spec /\ WF_vars(Step)

-----------------------------------------------------------------------------
(* Properties *)

Block == Nat \ {Null}
Pointers == [blk : Block \cup {Null, Wild}, txt : Text \cup {FlagText, None}]
Slots == [blk : Block \cup {Null, Wild}, txt : Text \cup {FlagText, Yes, None},
          rows : Seq(Pointers)]

\* A slot of field f holds what a member of its C type can.
Fits(f, slot) ==
  /\ Kind[f] # "str" => slot.txt \in Numeric \cup {Yes, None}
  /\ Kind[f] = "bool" => slot.txt \in {Yes, None}
  /\ Kind[f] \in {"num", "bool", "enum", "ip"} => slot.blk = Null
  /\ Kind[f] \in {"str", "num", "bool"} => slot.rows = <<>>
  /\ f \in Composed => \A n \in DOMAIN slot.rows : slot.rows[n].blk = Null

\* Every variable has its type, and every field of a struct holds a value of
\* its own C type, whichever layer wrote it.
TypeOK ==
  /\ live \in SUBSET Block /\ next \in Block /\ oom \in 0..OomBudget
  /\ cfg \in [Cfgs -> [Fields -> Slots]]
  /\ \A c \in Cfgs : \A f \in Fields : Fits(f, cfg[c][f])
  /\ pool \in [Cfgs -> SUBSET Block]
  /\ status \in [Cfgs -> {"ZERO", "SUCCESS", "OPEN_FILE", "SYNTAX", "VALIDATION"}]
  /\ pc \in {"idle", "default", "ini", "env", "cli", "validate", "crashed"}
  /\ pc = "idle" => cur = None /\ ctx = {}
  /\ pc # "idle" => cur \in Cfgs /\ IsRequest(req)
  /\ sec \in Sections
  /\ i \in Nat \ {0} /\ ctx \in SUBSET Block /\ good \in BOOLEAN /\ calls \in 0..MaxCalls

\* The pools share no block and hold only allocated ones: cfg_pool_free never
\* frees a block twice, whatever the order of loads, parse_cli and frees.
PoolsPartitionHeap ==
  /\ \A c \in Cfgs : pool[c] \subseteq live
  /\ ctx \subseteq live
  /\ \A c, d \in Cfgs : c # d => pool[c] \cap pool[d] = {}
  /\ \A c \in Cfgs : c # cur => pool[c] \cap ctx = {}

\* A struct that S_load filled points only into its own pool, so one S_free
\* gives everything back and nothing before it dangles.
SuccessIsPooled ==
  \A c \in Cfgs : status[c] = "SUCCESS" /\ c # cur => Reachable(c) \subseteq pool[c]

\* A struct S_free or a failed validation has zeroed points nowhere, also when
\* parse_cli is then called on it.
ZeroedPointsIntoPool ==
  \A c \in Cfgs : status[c] \in {"ZERO", "VALIDATION"} /\ c # cur
                   => Reachable(c) \subseteq pool[c]

\* Nothing is allocated that no pool reaches.
NoLeak ==
  pc # "crashed" => \A b \in live : b \in ctx \/ \E c \in Cfgs : b \in pool[c]

HookFound(c) ==
  \E f \in Fields :
    \/ HookRejects(f, View(c)[f])
    \/ Kind[f] = "tab" /\ \E n \in DOMAIN cfg[c][f].rows : HookRejects(RowKey, cfg[c][f].rows[n].txt)

\* The error struct of a load agrees with its status: a success leaves it
\* clear whatever an earlier load on it reported, and a failure names its kind,
\* except where a hook rejected a value: then it holds what the hook wrote, or
\* nothing, and never the message of an earlier load.
ErrorMatchesStatus ==
  [][pc # "idle" /\ pc' = "idle" /\ req.mode = "load" =>
       \/ err'.code = IF status'[cur] = "SUCCESS" THEN "none" ELSE status'[cur]
       \/ status'[cur] = "VALIDATION" /\ HookFound(cur) /\ err' \in HookErrors]_vars

OthersKept(c) ==
  \A d \in Cfgs \ {c} : /\ cfg'[d] = cfg[d] /\ pool'[d] = pool[d]
                        /\ live \cap pool[d] \subseteq live'

\* Every step of a call, and S_free, touches one struct: what the others hold
\* stays, and no block they reach is freed.
StructsIndependent ==
  [][\E c \in Cfgs : (pc # "idle" => c = cur) /\ OthersKept(c)]_vars

\* Every call returns.
CallsReturn == (pc # "idle") ~> (pc = "idle")
=============================================================================
