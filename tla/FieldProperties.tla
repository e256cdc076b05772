--------------------------- MODULE FieldProperties ---------------------------
(***************************************************************************)
(* The properties of a field as tools/src/typecheck/properties.c knows     *)
(* them: which there are for a type, and which value each may have.        *)
(*                                                                         *)
(* A property is [name, value].  A value is a literal, a range of two      *)
(* literals or a condition left == right.  A literal is [type, value]: the *)
(* value of an int or a float is an integer; of a string "address", "name" *)
(* or "text", as it has the form of an IPv4 address, of the name of an     *)
(* environment variable or of neither; of an identifier "member" or        *)
(* "other", for all enums here have the same members.                      *)
(***************************************************************************)
EXTENDS Integers, Sequences

\* The types that need no declaration.
BuiltIn == {"int", "float", "bool", "string", "path", "ipv4", "void", "enum"}

\* The property tables.  A property has a range, a condition or a literal; the
\* literal is of the type named here, or of the field's own.
GenericProps ==
  [default |-> "own", required |-> "bool", required_if |-> "condition", env |-> "string",
   secret |-> "bool", hook |-> "string", short |-> "string"]

NumericProps == [range |-> "range", min |-> "own", max |-> "own"]
StringProps  == [min_length |-> "int", max_length |-> "int", pattern |-> "string"]
PathProps    == [exists |-> "bool"]
ArrayProps   ==
  [min_length |-> "int", max_length |-> "int", required |-> "bool", required_if |-> "condition"]

\* The properties of f, and those of g that f does not have.
Joined(f, g) == [name \in DOMAIN f \cup DOMAIN g |-> IF name \in DOMAIN f THEN f[name] ELSE g[name]]

\* is_property_valid_for_type: what may be said of a field of this type, and how.
\* A "paths" is an array of paths, an "array" one of anything else.
OwnProps ==
  [int |-> NumericProps, float |-> NumericProps, string |-> StringProps, path |-> PathProps,
   array |-> ArrayProps, paths |-> Joined(ArrayProps, PathProps)]

PropertyDefs(type) ==
  IF type \in DOMAIN OwnProps THEN Joined(GenericProps, OwnProps[type]) ELSE GenericProps

\* The literals that a field of this type is compared with or defaults to.
OwnLiteral(type) ==
  CASE type \in {"int", "float", "bool"}    -> type
    [] type \in {"string", "path", "ipv4"}  -> "string"
    [] type = "enum"                        -> "identifier"
    [] OTHER                                -> "none"

IsMember(literal)   == literal.type = "identifier" /\ literal.value = "member"
IsAddress(literal)  == literal.value = "address"
IsVariable(literal) == literal.value = "name"

\* The formats that a literal is checked for, by the property it is given to.
WellFormatted(type, name, literal) ==
  /\ type = "ipv4" /\ name = "default" => IsAddress(literal)
  /\ name = "env" => IsVariable(literal)
  /\ name \in {"min_length", "max_length"} => literal.value >= 0

\* check_value_matches, the case of a literal.  Whatever the property, a literal
\* given to an enum field is looked for among its members.
LiteralMatches(type, name, value) ==
  LET def == PropertyDefs(type)[name]
  IN  /\ value.k = "literal"
      /\ value.type = (IF def = "own" THEN OwnLiteral(type) ELSE def)
      /\ IF type = "enum" THEN IsMember(value)
         ELSE WellFormatted(type, name, value)

\* Fault: an empty range is let through.
RangeMatches_Any(type, value) ==
  /\ value.k = "range"
  /\ value.min.type = OwnLiteral(type) /\ value.max.type = OwnLiteral(type)

\* The case of a range.
RangeMatches(type, value) ==
  /\ value.k = "range"
  /\ value.min.type = OwnLiteral(type) /\ value.max.type = OwnLiteral(type)
  /\ value.min.value <= value.max.value

\* The case of a condition on a field of this type.
ConditionMatches(type, literal) ==
  /\ literal.type = OwnLiteral(type)
  /\ type = "enum" => IsMember(literal)
=============================================================================
