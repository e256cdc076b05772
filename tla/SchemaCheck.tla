----------------------------- MODULE SchemaCheck -----------------------------
(***************************************************************************)
(* The type checker of cfg-gen: tools/src/typecheck/typecheck.c with the   *)
(* scopes of symbol_table.c and the field properties of properties.c.      *)
(*                                                                         *)
(* typecheck_program declares every schema and then checks each; resolving *)
(* a field whose type names a schema checks that schema on the way, inside *)
(* the scopes that are open at that moment.  The C recursion is a stack of *)
(* frames here, one for each typecheck_scope_items in progress, so that    *)
(* every step sees what the calls around it have left half-done.           *)
(*                                                                         *)
(* A schema is [name, items].  An item is a field, whose type is built in  *)
(* or a name, arr if it is an array of that, and props its properties; or  *)
(* a section with items of its own.                                        *)
(***************************************************************************)
EXTENDS FieldProperties, SequencesExt

CONSTANTS
  Name,       \* identifiers
  Programs    \* the programs to check: sequences of schemas

ASSUME SchemaCheckAssumption ==
  /\ BuiltIn \cap Name = {}
  /\ \A p \in Programs :
       /\ Len(p) \in Nat /\ DOMAIN p = 1..Len(p)
       /\ \A d \in DOMAIN p : p[d].name \in Name

VARIABLES
  program,
  pc,               \* "declare", "check" or "done": the pass of typecheck_program
  at,               \* its loop index
  scopes,           \* symbol table, global scope first: name -> symbol
  resolving_stack,  \* the schemas being checked
  frames,           \* typecheck_scope_items in progress, the innermost last
  prop,             \* the loop index of typecheck_field_properties
  resolved,         \* the schemas whose symbol is marked
  errors,           \* reported so far: [kind, name]
  bodies            \* (history) how often each schema was gone into

vars == <<program, pc, at, scopes, resolving_stack, frames, prop, resolved, errors, bodies>>

\* A symbol: decl is the schema it declares, or 0.
Symbol(type, decl) == [type |-> type, decl |-> decl]

NoSymbols == [x \in {} |-> Symbol("void", 0)]

\* decl is the schema whose items these are, or 0 for a section.
Frame(decl, items) == [decl |-> decl, items |-> items, n |-> 1, pass |-> "define"]

\* What a report names; one of a mismatch names the property it is about.
Error(kind, name) == [kind |-> kind, name |-> name]

Top   == frames[Len(frames)]
Item  == Top.items[Top.n]
More  == Top.n <= Len(Top.items)
Scope == scopes[Len(scopes)]

\* symbol_table_lookup: from the innermost scope outwards, whoever opened it.
Holding(x) == {k \in DOMAIN scopes : x \in DOMAIN scopes[k]}

\* Fault: only the current scope and the global one are searched.
Visible_Local(x) == Holding(x) \cap {1, Len(scopes)} # {}

Visible(x) == Holding(x) # {}

Lookup(x) == scopes[CHOOSE k \in Holding(x) : \A l \in Holding(x) : l <= k][x]

\* x is a schema that is visible under its name.
IsSchema(x) == x \notin BuiltIn /\ Visible(x) /\ Lookup(x).decl # 0

Resolving(x) == \E k \in DOMAIN resolving_stack : resolving_stack[k] = x

-----------------------------------------------------------------------------
Init ==
  /\ program \in Programs
  /\ pc = "declare" /\ at = 1
  /\ scopes = <<NoSymbols>>
  /\ resolving_stack = <<>> /\ frames = <<>> /\ prop = 1
  /\ resolved = {} /\ errors = <<>>
  /\ bodies = [d \in DOMAIN program |-> 0]

\* symbol_table_define in the current scope; the first declaration of a name
\* stays.  reported is what resolving its type has reported before.
Define(x, symbol, reported) ==
  \/ /\ x \notin DOMAIN Scope
     /\ scopes' = [scopes EXCEPT ![Len(scopes)] =
                     [y \in DOMAIN Scope \cup {x} |-> IF y = x THEN symbol ELSE Scope[y]]]
     /\ errors' = errors \o reported
  \/ /\ x \in DOMAIN Scope
     /\ errors' = errors \o reported \o <<Error("REDECLARATION", x)>>
     /\ UNCHANGED scopes

\* The first pass of typecheck_program.
Declare ==
  /\ pc = "declare" /\ at <= Len(program)
  /\ Define(program[at].name, Symbol("schema", at), <<>>)
  /\ at' = at + 1
  /\ UNCHANGED <<program, prop, pc, resolving_stack, frames, resolved, bodies>>

Declared ==
  /\ pc = "declare" /\ at > Len(program)
  /\ pc' = "check" /\ at' = 1
  /\ UNCHANGED <<program, prop, scopes, resolving_stack, frames, resolved, errors, bodies>>

\* Fault: the schema is marked when it is entered.
Enter_Marked(d) ==
  /\ resolving_stack' = Append(resolving_stack, program[d].name)
  /\ scopes' = Append(scopes, NoSymbols)
  /\ frames' = Append(frames, Frame(d, program[d].items))
  /\ bodies' = [bodies EXCEPT ![d] = @ + 1]
  /\ resolved' = resolved \cup {program[d].name}

\* typecheck_schema of a schema that is neither resolved nor being resolved.
Enter(d) ==
  /\ resolving_stack' = Append(resolving_stack, program[d].name)
  /\ scopes' = Append(scopes, NoSymbols)
  /\ frames' = Append(frames, Frame(d, program[d].items))
  /\ bodies' = [bodies EXCEPT ![d] = @ + 1]
  /\ UNCHANGED resolved

\* Fault: the loop does not go past a schema that is resolved already.
StartSchema_Stuck ==
  /\ pc = "check" /\ frames = <<>> /\ at <= Len(program)
  /\ program[at].name \notin resolved
  /\ at' = at + 1
  /\ Enter(at)
  /\ UNCHANGED <<program, prop, pc, errors>>

\* Fault: nobody asks whether the schema is resolved already.
StartSchema_Again ==
  /\ pc = "check" /\ frames = <<>> /\ at <= Len(program)
  /\ at' = at + 1
  /\ Enter(at)
  /\ UNCHANGED <<program, prop, pc, errors>>

\* The second pass of typecheck_program.
StartSchema ==
  /\ pc = "check" /\ frames = <<>> /\ at <= Len(program)
  /\ at' = at + 1
  /\ \/ program[at].name \notin resolved /\ Enter(at)
     \/ /\ program[at].name \in resolved
        /\ UNCHANGED <<scopes, resolving_stack, frames, resolved, bodies>>
  /\ UNCHANGED <<program, prop, pc, errors>>

Finish ==
  /\ pc = "check" /\ frames = <<>> /\ at > Len(program)
  /\ pc' = "done"
  /\ UNCHANGED <<program, prop, at, scopes, resolving_stack, frames, resolved, errors, bodies>>

-----------------------------------------------------------------------------
(* typecheck_scope_items *)

Advanced == [frames EXCEPT ![Len(frames)].n = @ + 1]

Defining(k) == frames # <<>> /\ Top.pass = "define" /\ More /\ Item.k = k
Checking(k) == frames # <<>> /\ Top.pass = "check" /\ More /\ Item.k = k

\* resolve_ast_type checks the schema a type names before it goes on with it.
\* When that is done the field is looked at again, and now it is resolved.
Unresolved(x) == IsSchema(x) /\ x \notin resolved /\ ~Resolving(x)

Descend ==
  /\ Defining("field") /\ Unresolved(Item.type)
  /\ Enter(Lookup(Item.type).decl)
  /\ UNCHANGED <<program, prop, pc, at, errors>>

\* Fault: a schema that is being resolved is taken for one that is.
TypeErrors_Silent(x) ==
  IF x \in BuiltIn \/ IsSchema(x) THEN <<>> ELSE <<Error("UNKNOWN_TYPE", x)>>

\* What resolving the type reports.
TypeErrors(x) ==
  IF x \in BuiltIn \/ (IsSchema(x) /\ x \in resolved) THEN <<>>
  ELSE <<Error(IF IsSchema(x) THEN "CIRCULAR_DEPENDENCY" ELSE "UNKNOWN_TYPE", x)>>

FieldType(item) ==
  IF item.arr THEN IF item.type = "path" THEN "paths" ELSE "array"
  ELSE IF item.type \in BuiltIn THEN item.type
  ELSE IF IsSchema(item.type) THEN "schema" ELSE "void"

DefineField ==
  /\ Defining("field") /\ ~Unresolved(Item.type)
  /\ Define(Item.name, Symbol(FieldType(Item), 0), TypeErrors(Item.type))
  /\ frames' = Advanced
  /\ UNCHANGED <<program, prop, pc, at, resolving_stack, resolved, bodies>>

DefineSection ==
  /\ Defining("section")
  /\ Define(Item.name, Symbol("section", 0), <<>>)
  /\ frames' = Advanced
  /\ UNCHANGED <<program, prop, pc, at, resolving_stack, resolved, bodies>>

\* All names of the scope are defined; now its conditions and sections.
EndDefine ==
  /\ frames # <<>> /\ Top.pass = "define" /\ ~More
  /\ frames' = [frames EXCEPT ![Len(frames)] = [@ EXCEPT !.n = 1, !.pass = "check"]]
  /\ UNCHANGED <<program, prop, pc, at, scopes, resolving_stack, resolved, errors, bodies>>

\* check_value_matches.
ValueMatches(type, name, value) ==
  LET def == PropertyDefs(type)[name]
  IN  \/ def = "range" /\ RangeMatches(type, value)
      \/ /\ def = "condition" /\ value.k = "condition"
         /\ ConditionMatches(Lookup(value.left).type, value.right)
      \/ def \notin {"range", "condition"} /\ LiteralMatches(type, name, value)

\* A condition whose left hand side is not declared reports that and no more.
ValueErrors(type, name, value) ==
  IF PropertyDefs(type)[name] = "condition" /\ value.k = "condition" /\ ~Visible(value.left)
  THEN <<Error("UNDECLARED", value.left)>>
  ELSE IF ValueMatches(type, name, value) THEN <<>>
  ELSE <<Error("TYPE_MISMATCH", name)>>

\* What a property reports that the earlier ones of its field have or have not.
PropertyErrors(type, props, n) ==
  LET name == props[n].name
  IN  (IF \E m \in 1..(n - 1) : props[m].name = name THEN <<Error("REDECLARATION", name)>> ELSE <<>>)
      \o (IF name \notin DOMAIN PropertyDefs(type) THEN <<Error("UNEXPECTED_PROPERTY", name)>>
          ELSE ValueErrors(type, name, props[n].value))

\* One round of typecheck_field_properties.  The type is that of the symbol: if
\* the name is declared twice, of the first declaration.
CheckProperty ==
  /\ Checking("field") /\ prop <= Len(Item.props)
  /\ errors' = errors \o PropertyErrors(Scope[Item.name].type, Item.props, prop)
  /\ prop' = prop + 1
  /\ UNCHANGED <<program, pc, at, scopes, resolving_stack, frames, resolved, bodies>>

CheckField ==
  /\ Checking("field") /\ prop > Len(Item.props)
  /\ prop' = 1
  /\ frames' = Advanced
  /\ UNCHANGED <<program, pc, at, scopes, resolving_stack, resolved, errors, bodies>>

\* typecheck_section
CheckSection ==
  /\ Checking("section")
  /\ scopes' = Append(scopes, NoSymbols)
  /\ frames' = Append(Advanced, Frame(0, Item.items))
  /\ UNCHANGED <<program, prop, pc, at, resolving_stack, resolved, errors, bodies>>

Finished == frames # <<>> /\ Top.pass = "check" /\ ~More

\* Fault: the schema stays on the stack.
Leave_KeepStack ==
  /\ Finished
  /\ frames' = Front(frames) /\ scopes' = Front(scopes)
  /\ resolved' = resolved \cup (IF Top.decl = 0 THEN {} ELSE {program[Top.decl].name})
  /\ UNCHANGED <<program, prop, pc, at, resolving_stack, errors, bodies>>

\* The scope closes; a schema is marked and leaves the stack.
Leave ==
  /\ Finished
  /\ frames' = Front(frames) /\ scopes' = Front(scopes)
  /\ \/ /\ Top.decl # 0
        /\ resolved' = resolved \cup {program[Top.decl].name}
        /\ resolving_stack' = Front(resolving_stack)
     \/ /\ Top.decl = 0
        /\ UNCHANGED <<resolved, resolving_stack>>
  /\ UNCHANGED <<program, prop, pc, at, errors, bodies>>

Next ==
  \/ Declare \/ Declared \/ StartSchema \/ Finish
  \/ Descend \/ DefineField \/ DefineSection \/ EndDefine
  \/ CheckProperty \/ CheckField \/ CheckSection \/ Leave

Spec == Init /\ [][Next]_vars

\* The checker runs to its end.
FairSpec == Spec /\ WF_vars(Next)

-----------------------------------------------------------------------------
(* Properties *)

Kinds ==
  {"UNKNOWN_TYPE", "REDECLARATION", "CIRCULAR_DEPENDENCY", "UNDECLARED", "TYPE_MISMATCH",
   "UNEXPECTED_PROPERTY"}

\* Types, and one scope for every call in progress besides the global one.
TypeOK ==
  /\ pc \in {"declare", "check", "done"} /\ at \in 1..(Len(program) + 1)
  /\ \A k \in DOMAIN scopes : \A x \in DOMAIN scopes[k] :
       /\ scopes[k][x].type \in BuiltIn \cup {"schema", "section", "array", "paths"}
       /\ scopes[k][x].decl \in 0..Len(program)
       /\ scopes[k][x].decl # 0 => program[scopes[k][x].decl].name = x
  /\ Len(scopes) = Len(frames) + 1 /\ prop \in Nat \ {0}
  /\ \A k \in DOMAIN resolving_stack : resolving_stack[k] \in Name
  /\ resolved \subseteq Name
  /\ \A k \in DOMAIN errors : errors[k].kind \in Kinds

\* The stack names the schemas being gone through, in that order, none of them
\* twice and none of them marked: the recursion is never deeper than there are
\* schemas, and a mark is never set too early.
StackIsOpen ==
  /\ \E pos \in [DOMAIN resolving_stack -> DOMAIN frames] :
       /\ \A k, l \in DOMAIN pos : k < l => pos[k] < pos[l]
       /\ \A k \in DOMAIN pos : /\ frames[pos[k]].decl # 0
                              /\ program[frames[pos[k]].decl].name = resolving_stack[k]
       /\ \A m \in DOMAIN frames : frames[m].decl # 0 => \E k \in DOMAIN pos : pos[k] = m
  /\ \A k, l \in DOMAIN resolving_stack : resolving_stack[k] = resolving_stack[l] => k = l
  /\ \A k \in DOMAIN resolving_stack : resolving_stack[k] \notin resolved
=============================================================================
