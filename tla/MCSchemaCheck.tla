---------------------------- MODULE MCSchemaCheck ----------------------------
(***************************************************************************)
(* Small programs for the type checker.                                    *)
(***************************************************************************)
EXTENDS SchemaRules

UpTo(S, n) == UNION {[1..m -> S] : m \in 0..n}

Literal(t, v) == [k |-> "literal", type |-> t, value |-> v]
When(x, l)    == [k |-> "condition", left |-> x, right |-> l]
Span(a, b)    == [k |-> "range", min |-> a, max |-> b]
Prop(x, v)    == [name |-> x, value |-> v]

Rich(x, t, a, ps) == [k |-> "field", name |-> x, type |-> t, arr |-> a, props |-> ps]
\* c is the field that a required_if compares, or "none".
Field(x, t, c) ==
  Rich(x, t, FALSE, IF c = "none" THEN <<>> ELSE <<Prop("required_if", When(c, Literal("int", 1)))>>)
Array(x, t)    == Rich(x, t, TRUE, <<>>)
Section(x, b)  == [k |-> "section", name |-> x, items |-> b]
Schemas(x, bs) == {[name |-> x, items |-> b] : b \in bs}

Types == {"int", "A", "B", "C"}

\* Every graph of three schemas with two fields each.
Graphs3 ==
  LET body == {<<>>} \cup {<<Field("x", t, "none")>> : t \in Types}
                \cup {<<Field("x", t, "none"), Array("y", u)>> : t, u \in Types \ {"int"}}
  IN  Schemas("A", body) \X Schemas("B", body) \X Schemas("C", body)

\* Two schemas in either order whose fields take each other's names, repeat
\* names, mention an undeclared one and compare fields.
Hidden ==
  LET plain == {Field(x, t, "none") : x \in {"x", "B"}, t \in {"int", "B", "D"}}
      rich  == {Field(x, t, c) : x \in {"x", "A"}, t \in {"int", "A"}, c \in {"none", "x", "y", "A"}}
      A == Schemas("A", UpTo(plain, 2))
      B == Schemas("B", UpTo(rich, 2))
  IN  (A \X B) \cup (B \X A)

\* Sections, what they see of the scopes around them, and redeclared schemas.
Nested ==
  LET inner == {<<>>} \cup {<<Field(x, t, c)>> : x \in {"x", "s"}, t \in {"int", "B"}, c \in {"none", "x", "y"}}
      body == {<<Field("x", t, c), Section(x, i)>> : t \in {"int", "B"}, c \in {"none", "s"},
                                                    x \in {"s", "x", "B"}, i \in inner}
              \cup {<<Section("s", i), Array("x", "int")>> : i \in inner}
  IN  Schemas("A", body)
        \X Schemas("B", {<<>>, <<Field("y", "int", "x")>>, <<Section("s", <<Field("z", "C", "none")>>)>>})
        \X UNION {Schemas(x, {<<Field("y", "A", "none")>>}) : x \in {"A", "B", "C"}}

\* Every property with every kind of value on every kind of field; twice on one
\* field, on a field that is declared twice, and compared with another field.
Properties ==
  LET ints     == {Literal("int", n) : n \in {-1, 1}}
      floats   == {Literal("float", n) : n \in {1, 2}}
      texts    == {Literal("string", s) : s \in {"address", "name", "text"}}
      words    == {Literal("identifier", s) : s \in {"member", "other"}}
      literals == ints \cup floats \cup texts \cup words \cup {Literal("bool", TRUE)}
      values   == literals \cup {Span(Literal(t, 2), Literal(t, 1)) : t \in {"int", "float"}}
                    \cup {Span(Literal(t, 1), Literal(u, n)) : t, u \in {"int", "float"}, n \in {1, 2}}
                    \cup {When("x", Literal("int", 1)), When("z", Literal("int", 1))}
      names    == {"default", "required", "required_if", "env", "secret", "hook", "short", "range", "min",
                   "max", "min_length", "max_length", "pattern", "exists", "colour"}
      types    == BuiltIn \cup {"B"}
      shapes   == {<<t, a>> : t \in types, a \in BOOLEAN}
      few      == {Prop("required", Literal("bool", TRUE)), Prop("min", Literal("int", 1)),
                   Prop("env", Literal("string", "text")), Prop("exists", Literal("bool", TRUE)),
                   Prop("default", Literal("identifier", "member"))}
      single   == {<<Rich("x", s[1], s[2], <<Prop(n, v)>>)>> : s \in shapes, n \in names, v \in values}
      double   == {<<Rich("x", t, FALSE, <<p, q>>)>> : t \in {"int", "enum", "path"}, p, q \in few}
      twice    == {<<Rich("x", s[1], s[2], <<>>), Rich("x", t, FALSE, <<p>>)>> :
                     s \in shapes, t \in {"int", "enum"}, p \in few}
                  \cup {<<Section("x", <<>>), Rich("x", "int", FALSE, <<p>>)>> : p \in few}
      compared == {<<Rich("y", "int", FALSE, <<Prop("required_if", When("x", l))>>), Rich("x", s[1], s[2], <<>>)>> :
                     s \in shapes, l \in literals}
  IN  Schemas("B", {<<>>}) \X Schemas("A", single \cup double \cup twice \cup compared)

MCPrograms == Nested \cup Graphs3 \cup Properties \cup Hidden
=============================================================================
