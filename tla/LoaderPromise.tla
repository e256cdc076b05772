--------------------------- MODULE LoaderPromise ---------------------------
(***************************************************************************)
(* The loader against its promise: ConfigLoader implements LayeredConfig   *)
(* when no malloc fails, on the requests about which the code and the      *)
(* guide do not differ.  Next to that, a claim of the documentation that   *)
(* the code does not keep.                                                 *)
(***************************************************************************)
EXTENDS ConfigLoader

\* Between calls a struct answers with its last status and, after a success,
\* with its fields; during a call its answer is not to be looked at.
Promise == INSTANCE LayeredConfig WITH
  pending <- IF pc = "idle" THEN <<>> ELSE <<cur, req, prior>>,
  answer  <- [c \in Cfgs |-> IF pc # "idle" /\ c = cur
                             THEN [status |-> "BUSY", view |-> [f \in {} |-> None]]
                             ELSE Answered(c)]

\* docs/schema_guide.md, "The Load Sequence", "env": every flag may be written
\* --S.f=val and every field may have a variable; the code knows --S.f=val for
\* strings, numbers and addresses only and reads no variable for an array or enum.
Understood(r, f) ==
  /\ \A n \in DOMAIN r.cli : r.cli[n].t = "assign" /\ r.cli[n].f = f => f \in Assignable
  /\ f \in EnvFields \cap DOMAIN r.env => f \in Envable

\* docs/schema_guide.md, "required": a required field must come from some source,
\* and an empty array counts; the code wants a required array not to be empty and
\* asks nothing of a number, a bool, an enum or an address.
Ensured(r, f) ==
  Promise!Needed([g \in Fields |-> Promise!Resolve(r, g)], f) =>
    /\ f \in Lists /\ Promise!Provided(r, f) => Promise!Resolve(r, f) # <<>>
    /\ f \in Scalars \ OfKind("str") => Promise!Provided(r, f)

\* The requests about which the guide and the code agree.
Uncontested(r) ==
  \A f \in Scalars \cup Lists : Understood(r, f) /\ (r.mode = "load" => Ensured(r, f))

\* Every load answers as the declarative resolution of its four layers says,
\* and every parse_cli overrides exactly the fields its flags name, when the
\* requests are uncontested.
KeepsPromise == Promise!Spec

Succeeds == pc = "validate" /\ pc' = "idle" /\ status'[cur] = "SUCCESS"

\* When malloc fails a string may be lost, but a successful load never leaves
\* a string of a layer that a higher one overrides.
LostNotStale ==
  [][Succeeds => \A f \in OfKind("str") :
       cfg[cur][f].txt \in {Promise!Resolve(req, f), None}]_vars

-----------------------------------------------------------------------------
(* A claim of the documentation *)

\* README.md, "memory-safe": a struct that a call returned never points to
\* memory that was freed.
NothingDangles ==
  pc = "idle" => \A c \in Cfgs : Reachable(c) \subseteq live
=============================================================================
