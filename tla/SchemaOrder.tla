----------------------------- MODULE SchemaOrder -----------------------------
(***************************************************************************)
(* The order among the schemas of a program and what the type checker has  *)
(* to do with it: it goes through each of them once, whichever way it is   *)
(* reached, reports a cycle exactly when there is one, and accepts only    *)
(* what the generator can write down as structs, one after the other.      *)
(***************************************************************************)
EXTENDS SchemaCheck

CONSTANT Nesting   \* how deep the sections of a program nest

NamesOf(items) == {items[n].name : n \in DOMAIN items}
SchemaNames(p) == NamesOf(p)

Distinct(items) == \A m, n \in DOMAIN items : items[m].name = items[n].name => m = n

\* What the sections among these items hold.
Sub(items) == {items[n].items : n \in {m \in DOMAIN items : items[m].k = "section"}}

\* What the sections k levels down hold.
Level(items) ==
  LET level[k \in 0..Nesting] ==
        IF k = 0 THEN {items} ELSE UNION {Sub(l) : l \in level[k - 1]}
  IN  level

\* These items and those of every section in them, at any depth.
Parts(items) == UNION {Level(items)[k] : k \in 0..Nesting}

\* Sections nest no deeper than this, and each holds a sequence.
ASSUME SchemaOrderAssumption ==
  /\ Nesting \in Nat
  /\ \A p \in Programs : \A d \in DOMAIN p :
       /\ \A l \in Level(p[d].items)[Nesting] : Sub(l) = {}
       /\ \A l \in Parts(p[d].items) : Len(l) \in Nat /\ DOMAIN l = 1..Len(l)

\* The names that the types of these items mention.
Mentions(items) ==
  (UNION {{l[n].type : n \in {m \in DOMAIN l : l[m].k = "field"}} : l \in Parts(items)}) \ BuiltIn

\* The names of these fields and sections, at any depth.
AllNames(items) == UNION {NamesOf(l) : l \in Parts(items)}

\* Each schema comes after those it mentions, as the structs of the generated
\* header must.
Orders(p, rank) ==
  \A d, e \in DOMAIN p : p[e].name \in Mentions(p[d].items) => rank[e] < rank[d]

Layered(p) == \E rank \in [DOMAIN p -> DOMAIN p] : Orders(p, rank)

\* No field or section has the name of a schema.
Unhidden(p) == \A d \in DOMAIN p : AllNames(p[d].items) \cap SchemaNames(p) = {}

\* Only the first declaration of a name counts.
IsFirst(p, d) == \A e \in 1..(d - 1) : p[e].name # p[d].name

-----------------------------------------------------------------------------
(* Properties *)

Done     == pc = "done"
Accepted == Done /\ errors = <<>>
Reported(kind) == \E k \in DOMAIN errors : errors[k].kind = kind

\* The items of a schema are gone through once, whichever way it was reached;
\* those of a redeclared one never.
CheckedOnce ==
  Done => \A d \in DOMAIN program : bodies[d] = IF IsFirst(program, d) THEN 1 ELSE 0

\* What is accepted can be emitted: every type is a schema of the program and
\* the schemas can be put in order.
AcceptedIsEmittable ==
  Accepted => /\ Distinct(program) /\ Layered(program)
              /\ \A d \in DOMAIN program : Mentions(program[d].items) \subseteq SchemaNames(program)

\* Where no field hides a schema, a cycle is reported exactly when there is one.
CyclesAreReported ==
  Done /\ Distinct(program) /\ Unhidden(program) =>
    (Reported("CIRCULAR_DEPENDENCY") <=> ~Layered(program))
=============================================================================
