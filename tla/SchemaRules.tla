----------------------------- MODULE SchemaRules -----------------------------
(***************************************************************************)
(* What a well-formed program is, said of its text alone, and what that    *)
(* has to do with the errors of the type checker.  In the text a name      *)
(* belongs to the scopes around it in its own schema and to the schemas of *)
(* the program; the checker looks it up in the scopes that are open, which *)
(* are also those of the schemas that led to this one.                     *)
(***************************************************************************)
EXTENDS SchemaOrder

\* chain: the items of the scopes around, outermost first.
Innermost(chain, x) ==
  CHOOSE k \in DOMAIN chain : /\ x \in NamesOf(chain[k])
                              /\ \A l \in DOMAIN chain : x \in NamesOf(chain[l]) => l <= k

\* A literal that denotes a value of this type.
Denotes(type, literal) ==
  CASE type \in {"int", "float", "bool"} -> literal.type = type
    [] type \in {"string", "path"} -> literal.type = "string"
    [] type = "ipv4" -> literal.type = "string" /\ literal.value = "address"
    [] type = "enum" -> literal.type = "identifier" /\ literal.value = "member"
    [] OTHER -> FALSE

\* A condition compares a field that is in scope with a literal of its type; an
\* address may be compared with any string.
Comparable(chain, x, literal) ==
  /\ \E k \in DOMAIN chain : x \in NamesOf(chain[k])
  /\ \E n \in DOMAIN chain[Innermost(chain, x)] :
       LET item == chain[Innermost(chain, x)][n]
       IN  /\ item.name = x /\ item.k = "field" /\ ~item.arr
           /\ Denotes(IF item.type = "ipv4" THEN "string" ELSE item.type, literal)

\* Literals have one of these types.
LiteralTypes == {"int", "float", "bool", "string", "identifier"}

\* An item is a field or a section; a field has a sequence of properties.
ItemOK(item) ==
  /\ item.k \in {"field", "section"}
  /\ item.k = "field" =>
       /\ Len(item.props) \in Nat /\ DOMAIN item.props = 1..Len(item.props)
       /\ \A m \in DOMAIN item.props :
            /\ item.props[m].value.k = "literal" => item.props[m].value.type \in LiteralTypes
            /\ item.props[m].value.k = "condition" => item.props[m].value.right.type \in LiteralTypes

ASSUME SchemaRulesAssumption ==
  \A p \in Programs : \A d \in DOMAIN p : \A l \in Parts(p[d].items) : \A n \in DOMAIN l :
    ItemOK(l[n])

IsLiteral(value, type) == value.k = "literal" /\ value.type = type
IsLength(value) == IsLiteral(value, "int") /\ value.value >= 0

\* On which fields a property means something, and with which values: what the
\* guide's property reference says (docs/schema_guide.md:784-798).  Of short,
\* which it does not have, every field is assumed to take one.
Fits(chain, field, p) ==
  LET scalar(types) == ~field.arr /\ field.type \in types
  IN  CASE p.name = "default"  -> ~field.arr /\ IsLiteral(p.value, p.value.type) /\ Denotes(field.type, p.value)
        [] p.name = "required_if" -> p.value.k = "condition" /\ Comparable(chain, p.value.left, p.value.right)
        [] p.name \in {"required", "secret"} -> IsLiteral(p.value, "bool")
        [] p.name \in {"hook", "short"} -> IsLiteral(p.value, "string")
        [] p.name = "env" -> IsLiteral(p.value, "string") /\ p.value.value = "name"
        [] p.name \in {"min", "max"} -> scalar({"int", "float"}) /\ IsLiteral(p.value, field.type)
        [] p.name = "range" -> /\ scalar({"int", "float"}) /\ p.value.k = "range"
                               /\ Denotes(field.type, p.value.min) /\ Denotes(field.type, p.value.max)
                               /\ p.value.min.value <= p.value.max.value
        [] p.name \in {"min_length", "max_length"} ->
             (field.arr \/ scalar({"string", "path"})) /\ IsLength(p.value)
        [] p.name = "pattern" -> scalar({"string", "path"}) /\ IsLiteral(p.value, "string")
        [] p.name = "exists"  -> field.type = "path" /\ IsLiteral(p.value, "bool")
        [] OTHER -> FALSE

\* What the guide allows and the checker refuses, whatever the value: the length
\* and the pattern of a path, and on an enum all but its default and its
\* required_if.
Refused(field, p) ==
  /\ ~field.arr
  /\ \/ field.type = "path" /\ p.name \in {"min_length", "max_length", "pattern"}
     \/ field.type = "enum" /\ p.name \in {"required", "env", "secret", "hook", "short"}

\* The scopes among these items, each after those around it.
Chains(items) ==
  {c \in UNION {[1..k -> Parts(items)] : k \in 1..(Nesting + 1)} :
     c[1] = items /\ \A k \in 1..(Len(c) - 1) : c[k + 1] \in Sub(c[k])}

\* A type is built in or a schema no field or section hides.
TypeFits(p, chain, n) ==
  LET items == chain[Len(chain)]
  IN  items[n].type \notin BuiltIn =>
        /\ items[n].type \in SchemaNames(p)
        /\ \A m \in 1..(n - 1) : items[m].name # items[n].type
        /\ \A k \in 1..(Len(chain) - 1) : items[n].type \notin NamesOf(chain[k])

\* The properties of a field are distinct and fit it.
PropertiesFit(chain, field) ==
  /\ Distinct(field.props)
  /\ \A m \in DOMAIN field.props : Fits(chain, field, field.props[m])

\* Names are unique in a scope, and its fields are right.
Lexical(p, chain) ==
  LET items == chain[Len(chain)]
  IN  /\ Distinct(items)
      /\ \A n \in DOMAIN items :
           items[n].k = "field" => TypeFits(p, chain, n) /\ PropertiesFit(chain, items[n])

WellFormed(p) ==
  /\ Distinct(p)
  /\ \A d \in DOMAIN p : \A chain \in Chains(p[d].items) : Lexical(p, chain)
  /\ Layered(p)

\* No field of the program has a property that the checker refuses.
Supported(p) ==
  \A d \in DOMAIN p : \A chain \in Chains(p[d].items) : \A n \in DOMAIN chain[Len(chain)] :
    chain[Len(chain)][n].k = "field" =>
      \A m \in DOMAIN chain[Len(chain)][n].props :
        ~Refused(chain[Len(chain)][n], chain[Len(chain)][n].props[m])

\* The text itself is in such an order.
BottomUp(p) ==
  \A d, e \in DOMAIN p : p[e].name \in Mentions(p[d].items) => e < d

-----------------------------------------------------------------------------
(* Properties *)

\* Where no field hides a schema, the order of the text does not matter to a
\* well-formed program: it is accepted, unless one of its properties is among
\* those the checker refuses against the guide.
WellFormedIsAccepted ==
  Done /\ WellFormed(program) /\ Supported(program) /\ Unhidden(program) => errors = <<>>

\* Written bottom-up, what is accepted is exactly what is well-formed and has no
\* such property, down to each property of each field: then no schema is checked
\* inside the scopes of another.
ExactBottomUp ==
  Done /\ BottomUp(program) => (errors = <<>> <=> WellFormed(program) /\ Supported(program))

\* The checker comes to an end, cycles or not.
Finishes == <>Done
=============================================================================
