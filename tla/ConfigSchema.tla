---------------------------- MODULE ConfigSchema ----------------------------
(***************************************************************************)
(* The vocabulary shared by the promise of a generated loader              *)
(* (LayeredConfig) and by the loader itself (ConfigLoader): one compiled   *)
(* schema, the inputs a load can see, and the conversions of the runtime.  *)
(*                                                                         *)
(* Texts are abstract.  A raw value (the right-hand side of an INI line,   *)
(* the value of a flag) is a pair: the text itself and the elements it     *)
(* splits into at commas, because the code reads it one way for a scalar   *)
(* and the other way for an array.                                         *)
(***************************************************************************)
EXTENDS Integers, Sequences, FiniteSets

CONSTANTS
  FieldSeq,    \* the fields of the root schema and its sections, in declaration order
  Kind,        \* field -> "str" | "num" | "bool" | "enum" | "ip" (ipv4)
               \*          | "arr" (string[]) | "ints" (int[]) | "tab" (schema[])
  Home, Name,  \* field -> the section it is declared in, and its name there
  Default,     \* partial function: fields with a default property -> text
  EnvFields,   \* fields with an env property
  Required,    \* fields with required: true
  RequiredIf,  \* partial function: fields with required_if -> [left, right]
  RowKey,      \* the string field of the element schema of a "tab" field
  RowDefault,  \* its default, or None
  RowRequired, \* whether it is required: true
  Root, Other, \* the section of the root schema itself; one naming nothing of it
  Text,        \* texts
  Numeric,     \* texts strtoll reads as a number
  TrueTexts,   \* "true" and "1"
  Parts,       \* "ip" or "enum" field -> text -> what the text sets, see below
  Yes,         \* the value of a bool that is set
  Bad,         \* strings, numbers and bools a built-in constraint rejects
  Hook,        \* partial function: fields with a hook -> the values it rejects
  FlagText,    \* what a "--Schema.field" argument looks like when read as a value
  None         \* NULL for a string, 0 for a number, false for a bool

Fields == {FieldSeq[n] : n \in DOMAIN FieldSeq}

OfKind(k) == {f \in Fields : Kind[f] = k}

(***************************************************************************)
(* An address has four octets, of which cfg_parse_ipv4 writes those before *)
(* the first that is out of range; an enum is one member or, when the text *)
(* names none, left alone.  Parts says what a text sets, from the first    *)
(* part on; a part that nothing sets is zero.                              *)
(***************************************************************************)
Composed == OfKind("ip") \cup OfKind("enum")

Scalars == OfKind("str") \cup OfKind("num") \cup OfKind("bool") \cup Composed
Lists   == OfKind("arr") \cup OfKind("ints")

\* No code reads an array or an enum from the environment.
Envable == EnvFields \cap (Scalars \ OfKind("enum"))

\* The kinds whose value the code takes after an equals sign.
Assignable == OfKind("str") \cup OfKind("num") \cup OfKind("ip")

Raw == [txt : Text \cup {FlagText}, elems : Seq(Text \cup {FlagText})]

(***************************************************************************)
(* One line of an INI file after trimming.  "sec" is [S], "row" is [[S]],  *)
(* "badsec" lacks its closing bracket, "noeq" lacks '=', "key" is          *)
(* key = val.  Blank lines and comments are skipped by the code before     *)
(* anything else and are left out.                                         *)
(***************************************************************************)
Homes    == {Home[f] : f \in Fields}
Sections == {Root, Other} \cup Homes \cup OfKind("tab")
Keys     == {Name[f] : f \in Fields}

IsLine(l) ==
  \/ l.k \in {"sec", "row"} /\ l.sec \in Sections
  \/ l.k \in {"badsec", "noeq"}
  \/ l.k = "key" /\ l.key \in Keys \cup {RowKey, Other} /\ l.val \in Raw

(***************************************************************************)
(* One element of argv after argv[0].  "opt" is --S.f (or its short form), *)
(* "assign" is --S.f=val, "word" is anything that names no field.          *)
(***************************************************************************)
IsToken(a) ==
  \/ a.t = "opt" /\ a.f \in Fields
  \/ a.t = "assign" /\ a.f \in Fields /\ a.val \in Raw
  \/ a.t = "word" /\ a.val \in Raw

\* What an argument is when the option before it takes it as its value.
AsRaw(a) == IF a.t = "word" THEN a.val
            ELSE [txt |-> FlagText, elems |-> <<FlagText>>]

\* A bool option never takes the next argument.
TakesNext(a) == a.t = "opt" /\ Kind[a.f] # "bool"

\* strtoll
Number(txt) == IF txt \in Numeric THEN txt ELSE None

\* strtoll, strcmp(.., "true") / "1", or a copy of the text.
Convert(f, txt) ==
  CASE Kind[f] = "num"  -> Number(txt)
    [] Kind[f] = "bool" -> IF txt \in TrueTexts THEN Yes ELSE None
    [] OTHER            -> txt

ASSUME SchemaAssumption ==
  /\ FieldSeq \in Seq(Fields)
  /\ \A m, n \in DOMAIN FieldSeq : FieldSeq[m] = FieldSeq[n] => m = n
  /\ Kind \in [Fields -> {"str", "num", "bool", "enum", "ip", "arr", "ints", "tab"}]
  /\ DOMAIN Home = Fields /\ DOMAIN Name = Fields
  /\ \A f, g \in Fields : Home[f] = Home[g] /\ Name[f] = Name[g] => f = g
  /\ DOMAIN Default \subseteq Scalars /\ \A f \in DOMAIN Default : Default[f] \in Text
  /\ EnvFields \subseteq Fields /\ Required \subseteq Fields
  /\ \A f \in DOMAIN RequiredIf :
       /\ f \in Fields /\ RequiredIf[f].left \in Scalars \ Composed
       /\ Home[RequiredIf[f].left] = Home[f]
  /\ RowRequired \in BOOLEAN /\ RowDefault \in Text \cup {None}
  /\ DOMAIN Hook \subseteq (Fields \ OfKind("enum")) \cup {RowKey}
  /\ Parts \in [Composed -> [Text \cup {FlagText} -> Seq(Text)]]
  /\ \A f \in Composed, t \in Text \cup {FlagText} : Len(Parts[f][t]) <= 4
  /\ Numeric \subseteq Text /\ TrueTexts \subseteq Text /\ TrueTexts # {}
  /\ None \notin Text \cup {FlagText, Yes}
  /\ (Homes \cup {Root, Other, RowKey}) \cap Fields = {} /\ Other \notin Homes \cup {Root}
=============================================================================
