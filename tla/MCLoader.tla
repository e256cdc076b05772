------------------------------ MODULE MCLoader ------------------------------
(***************************************************************************)
(* Instances of the loader for TLC: one schema with a field of every kind  *)
(*                                                                         *)
(*   schema S {                                                            *)
(*     name:  string { default: "d", env: "NAME", required: true, .. }     *)
(*     alias: string                     // not in every run               *)
(*     port:  int    { env: "PORT", max: .. }                              *)
(*     debug: bool                                                         *)
(*     nodes: string[] { env: "NODES" }                                    *)
(*     ups:   Up[]                                                         *)
(*     section net {                                                       *)
(*       port:  int                                                        *)
(*       bind:  ipv4 { default: "1.1.1.1", env: "BIND", hook: .. }         *)
(*       mode:  enum(on, off)                                              *)
(*       codes: int[] { required_if: port == 8 }                           *)
(*     }                                                                   *)
(*   }                                                                     *)
(*   schema Up { host: string { required: true, hook: .., .. } }           *)
(*                                                                         *)
(* and the requests of each run.                                           *)
(***************************************************************************)
EXTENDS LoaderPromise, TLC

Plain == <<"name", "port", "debug", "nodes", "ups">>
Net   == <<"net.port", "net.bind", "net.mode", "net.codes">>
MCFieldSeq == Plain \o Net

\* Two strings, one of them without a default.
TwoSeq == <<"name", "alias", "port", "debug", "nodes", "ups", "net.port", "net.codes">>

Kinds == [name |-> "str", alias |-> "str", port |-> "num", debug |-> "bool", nodes |-> "arr", ups |-> "tab"]
           @@ ("net.port" :> "num") @@ ("net.bind" :> "ip") @@ ("net.mode" :> "enum") @@ ("net.codes" :> "ints")
InNet == [f \in {"net.port", "net.bind", "net.mode", "net.codes"} |->
            CASE f = "net.port" -> "port" [] f = "net.bind" -> "bind" [] f = "net.mode" -> "mode" [] OTHER -> "codes"]

Of(table)  == [f \in Fields |-> table[f]]
MCKind     == Of(Kinds)
MCHome     == [f \in Fields |-> IF f \in DOMAIN InNet THEN "net" ELSE "root"]
MCName     == [f \in Fields |-> IF f \in DOMAIN InNet THEN InNet[f] ELSE f]
MCDefault  == [f \in Fields \cap {"name", "net.bind"} |-> IF f = "name" THEN "d" ELSE "1.1.1.1"]
MCRequiredIf == [f \in Fields \cap {"net.codes"} |-> [left |-> "net.port", right |-> "8"]]

MCText == {"1", "2", "3", "4", "a", "b", "7", "8", "true", "d", "on", "1.1.1.1", "2.2.2.2", "3.3.300.3", "4.-4.4.4"}

\* The octets a text writes, and the member it names.
Octets(t) == CASE t = "1.1.1.1"   -> <<"1", "1", "1", "1">>
               [] t = "2.2.2.2"   -> <<"2", "2", "2", "2">>
               [] t = "3.3.300.3" -> <<"3", "3">>
               [] t = "4.-4.4.4"  -> <<"4">>
               [] OTHER           -> <<>>
MCParts == [f \in Fields \cap {"net.bind", "net.mode"} |-> [t \in Text \cup {FlagText} |->
              IF f = "net.bind" THEN Octets(t) ELSE IF t \in {"on", "a"} THEN <<t>> ELSE <<>>]]

\* A hook on an address, and one that wants a host.
MCHook == [f \in {RowKey} \cup (Fields \cap {"net.bind"}) |->
             IF f = RowKey THEN {None} ELSE {<<"3", "3", "1", "1">>}]

T(t) == [txt |-> t, elems |-> <<t>>]
AB   == [txt |-> "b", elems |-> <<"a", "b">>]
Nil  == [txt |-> "b", elems |-> <<>>]

Sec(s)    == [k |-> "sec", sec |-> s]
Row(s)    == [k |-> "row", sec |-> s]
NoEq      == [k |-> "noeq"]
BadSec    == [k |-> "badsec"]
Key(f, v) == [k |-> "key", key |-> f, val |-> v]

Opt(f)       == [t |-> "opt", f |-> f]
Assign(f, v) == [t |-> "assign", f |-> f, val |-> v]
Word(v)      == [t |-> "word", val |-> v]

NoEnv == [f \in {} |-> T("a")]
UpTo(S, n) == UNION {[1..m -> S] : m \in 0..n}

LoadOf(file, ini, env, cli) ==
  [mode |-> "load", file |-> file, ini |-> ini, env |-> env, cli |-> cli]
CliOf(cli) == [mode |-> "cli", file |-> "none", ini |-> <<>>, env |-> NoEnv, cli |-> cli]

-----------------------------------------------------------------------------
(* Every short file, every short command line, and the layers together.    *)

Lines == {Sec("root"), Sec("ups"), Sec("other"), Row("ups"), Row("other"), BadSec, NoEq,
          Key("name", T("a")), Key("nodes", AB), Key("host", T("a")), Key("host", T("b"))}
TableLines == {Sec("root"), Sec("ups"), Row("ups"), Row("other"), Key("name", T("a")),
             Key("host", T("a")), Key("host", T("b"))}
RootLines == {Key("name", T("b")), Key("port", T("7")), Key("port", T("a")),
              Key("debug", T("true")), Key("nodes", Nil), Key("ups", T("a"))}
Tokens == {Opt("name"), Opt("port"), Opt("debug"), Opt("nodes"), Assign("name", T("a")),
           Assign("port", T("7")), Word(AB)}

Files == { LoadOf("open", ini, NoEnv, <<>>) :
             ini \in UpTo(Lines, 3) \cup [1..4 -> TableLines]
                                    \cup {<<Sec("root")>> \o s : s \in UpTo(RootLines, 3)} }
CommandLines == { LoadOf("open", <<Sec("root"), Key("nodes", Nil), Key("name", T("b"))>>, NoEnv, cli) :
                    cli \in UpTo(Tokens, 3) }
Layered == { LoadOf(file, <<Sec("root")>> \o ini, env, cli) :
               file \in {"none", "missing", "open"}, ini \in UpTo(RootLines, 1),
               env \in {NoEnv, [name |-> T("b")], [port |-> T("7")]},
               cli \in UpTo({Assign("name", T("a")), Opt("port"), Opt("debug"), Word(T("7"))}, 2) }

\* The nested section: its keys, its flags, texts that set part of a field.
Codes    == [txt |-> "b", elems |-> <<"7", "b">>]
NetLines == {Key("port", T("8")), Key("port", T("a")), Key("mode", T("on")), Key("mode", T("b")),
             Key("bind", T("2.2.2.2")), Key("bind", T("3.3.300.3")), Key("bind", T("4.-4.4.4")),
             Key("codes", Codes), Key("codes", Nil), Sec("root"), Sec("net")}
NetTokens == {Assign("net.bind", T("3.3.300.3")), Assign("net.bind", T("2.2.2.2")), Opt("net.bind"),
              Opt("net.port"), Opt("net.mode"), Opt("net.codes"),
              Word(T("on")), Word(Codes), Word(T("8"))}
Nested == { LoadOf("open", <<Sec("net")>> \o ini, NoEnv, <<>>) : ini \in UpTo(NetLines, 3) }
NestedLayers ==
  { LoadOf("open", <<Sec("net")>> \o ini, env, cli) :
      ini \in UpTo(NetLines, 1), cli \in UpTo(NetTokens, 2),
      env \in {NoEnv, ("net.bind" :> T("4.-4.4.4")), ("net.bind" :> T("2.2.2.2"))} }

InputRequests ==
  {r \in Files \cup CommandLines \cup Layered \cup Nested \cup NestedLayers : Uncontested(r)}

-----------------------------------------------------------------------------
(* Few requests, many calls on two structs.                                *)

Good1 == LoadOf("open", <<Sec("root"), Key("name", T("a")), Row("ups"), Key("host", T("a"))>>,
                NoEnv, <<Opt("nodes"), Word(AB)>>)
Syntax == LoadOf("open", <<Sec("root"), Key("name", T("a")), Row("ups"), NoEq>>, NoEnv, <<>>)
Missing == LoadOf("missing", <<>>, NoEnv, <<>>)
Invalid1 == LoadOf("none", <<>>, [name |-> T("b")], <<Assign("name", T("b"))>>)
Flags == CliOf(<<Word(T("a")), Assign("name", T("b"))>>)
NetFlags == CliOf(<<Assign("net.bind", T("3.3.300.3")), Opt("net.codes"), Word(Codes), Opt("net.mode"), Word(T("on"))>>)
Hooked == LoadOf("open", <<Sec("net"), Key("bind", T("3.3.300.3"))>>, NoEnv, <<>>)
SequenceRequests == {Good1, Syntax, Missing, Invalid1, Hooked, Flags, NetFlags}

-----------------------------------------------------------------------------
(* Few requests, failing mallocs, and inputs the code does not expect.     *)

OverEnv == LoadOf("open", <<Sec("root"), Key("alias", T("a")), Key("nodes", AB)>>,
                  [alias |-> T("d"), nodes |-> T("a")], <<Opt("nodes"), Word(T("a"))>>)
TableFlag == LoadOf("none", <<>>, NoEnv, <<Opt("ups"), Word(AB)>>)
RootRow == LoadOf("open", <<Row("root")>>, NoEnv, <<>>)
NetRow  == LoadOf("open", <<Row("net")>>, NoEnv, <<>>)
NetOom  == LoadOf("open", <<Sec("net"), Key("codes", Codes)>>, NoEnv, <<Opt("net.codes"), Word(Codes)>>)
Unheard == LoadOf("none", <<>>, [nodes |-> AB], <<Assign("nodes", AB)>>)
OomRequests == {Good1, OverEnv, Syntax, TableFlag, RootRow, NetRow, NetOom, Unheard, Flags}

-----------------------------------------------------------------------------
(* The requests behind the claim of the documentation.                     *)

SyntaxRequests == {Syntax, Good1}
=============================================================================
