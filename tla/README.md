# cfgsafe in TLA+

`cfg-gen`, the program of this repository, compiles a `.schema` file into a
single C header: a struct per schema and the functions `S_load`, `S_parse_cli`,
`S_validate`, `S_print` and `S_free` that fill, check and release it. This
directory models the parts that carry its logic — the **loader it generates**,
the **pattern matcher** that is part of it, the **lexer**, the **parser** and the
**type checker** that decide what it is generated from, and the **data structures
the compiler is built on** — checks them
with TLC on small instances and proves the main invariants with TLAPS for every
value of the constants.

Paths below are relative to `src/`; `codegen.c` etc. stand for
`tools/src/codegen/…` and `arena.c` etc. for `tools/src/datastructures/…`.

## 1. Inventory

The compiler is a pipeline run once per process (`tools/src/main.c`):
lexer → parser → type checker → code generator. It has one thread and no
persistent state. What it writes runs inside somebody else's application, over
that application's structs, for as long as it lives; that is where sequences of
calls, failures half-way and memory ownership matter.

| Component | State | Operations | Hard behaviour | What makes it correct |
|---|---|---|---|---|
| Generated loader (`codegen.c`, `emit_lifecycle.c`, `emit_cli.c`, `emit_validation.c`, `emit_structs.c`) | the config struct, its `internal_pool`, the load context's pool, the INI parser's section, `cfg_error_t` | `S_load`, `S_parse_cli`, `S_validate`, `S_free` and the runtime under them (`cfg_pool_alloc`, `cfg_parse_ini`, `cfg_parse_array_*`) | four layers writing one field; ownership of the pool passing struct → context → struct; errors after half the work; calls in any order; every `malloc` may fail | the highest layer that provides a field wins; no leak, no double free, nothing dangling; the error matches the status; structs independent; calls return |
| Generated printer (`emit_utils.c`) | none | `S_print` with redaction | – | prints every field, no secret |
| Pattern matcher (`emit_validation.c:204-335`) | generator: where in the pattern; matcher: start, position | compiles a pattern to a C function, which is called with values | repetition without backtracking, restart after a miss, anchors | stays in the text; what it accepts matches; it ends |
| Usage tracker (`usage_tracker.c`) | flags | one pass over the tree | – | emits whatever the code calls |
| Arena (`arena.c`) | list of blocks, newest first | create, alloc, reset, destroy | alignment and overflow arithmetic, `malloc` failure while growing | allocations inside live blocks, disjoint; no block lost |
| Allocator (`allocator.c`) | function pointers | forwards | – | – |
| Dynamic array (`dynamic_array.c`) | buffer, count, capacity | push, remove, get, … | growth that fails | a failed push changes nothing |
| Hash map (`hash_map.c`) | buckets of dynamic arrays, size | put (with rehash), get, remove | a failure at any point of a rehash | it is a partial function |
| Dense interner (`dense_interner.c`) | hash map of results, dense array, next index | intern, peek, get_result, get_cstr | its two records fail one without the other | one string, one result, one index |
| Lexer (`lexer/lexer.c`) | cursor, line, column, interners | next token | input that ends inside a string or comment | every byte in one token |
| Parser (`parser/*.c`) | token index, first error, tree | recursive descent | any allocation may fail, the error's own among them; what is not checked on the way | the tree is the text's; the error blames the first token that fits nothing; no token is read behind the end |
| Type checker (`typecheck/*.c`) | scopes, stack of schemas being resolved, errors | define, resolve, check | schemas that refer to each other in any order | cycles reported, each schema checked once |
| Driver (`main.c`, `file.c`) | – | the pipeline, file reading | – | – |

How they interact. The lexer interns names in a dense interner; parser, type
checker and generator compare names by the address of the interner's result.
Interner, symbol tables and type store are hash maps over dynamic arrays over
the arena, reached through the `Allocator` function pointers. All of them
allocate from one arena, which is destroyed at the end. The generated functions
share only the config struct: `S_load` builds a context with a pool of its own,
moves the pool into the struct, calls `S_parse_cli` (which moves it out and back)
and then `S_validate`; on failure it calls `S_free`.

The hazards this leaves — states and orders a unit test would hardly reach —
are listed with their lines in `PROJECT.json`; the properties below are there for
them.

## 2. Modules

| Module | Models | Lines of C it stands for |
|---|---|---|
| `ConfigSchema` | the vocabulary: one compiled schema with nested sections, INI lines, arguments, conversions | `codegen.c:103-203`, `emit_lifecycle.c:77-160`, `emit_cli.c:43-70` |
| `LayeredConfig` | **abstract**: which line, variable or flag wins; status of a load | the resolution of `S_load`, declaratively |
| `ConfigLoader` | the loader, step by step | `codegen.c:34-375`, `emit_lifecycle.c`, `emit_cli.c`, `emit_validation.c:13-183` |
| `LoaderPromise` | the refinement mapping, and a claim of the documentation | |
| `ConfigLoaderProofs` | proofs about `ConfigLoader` | |
| `Arena`, `ArenaProofs` | the bump allocator | `arena.c` |
| `DynArray` | pushes and removals as operators | `dynamic_array.c` |
| `PartialMap` | **abstract**: a partial function with insertions that may fail | |
| `HashMap`, `HashMapProofs` | the chained hash map, its rehash entry by entry | `hash_map.c` |
| `DenseInterner`, `DenseInternerProofs` | the interner over a `PartialMap`-like table and a `DynArray` | `dense_interner.c` |
| `FieldProperties` | which properties a type has and which value each takes | `properties.c` |
| `SchemaCheck`, `SchemaCheckProofs` | the type checker, one frame per call of `typecheck_scope_items` | `typecheck.c`, `type.c`, `symbol_table.c`, `properties.c:255-328` |
| `SchemaOrder` | **reference**: in which order the schemas of a program can be written down, and what the checker has to do with it | |
| `SchemaRules` | **reference**: what a well-formed program is, from its text alone; what the checker has to do with it | |
| `Lexer`, `LexerProofs` | the scanner, one step per turn of a loop | `lexer.c:11-265` |
| `LexerRules` | **reference**: the longest lexemes of a text, from the text alone | |
| `Parser`, `ParserProofs` | the parse functions as sequences of instructions, one frame per call | `parse_statements.c`, `parser.c` |
| `ParserRules` | **reference**: the grammar as a table, the text a tree stands for | |
| `PatternMatch`, `PatternProofs` | the pattern compiler, and the function it emits | `emit_validation.c:204-335` |
| `PatternRules` | **reference**: what a pattern means | |
| `MC*` | instances for TLC; `MCCalls` joins the single loads and the sequences of calls in one | |

### 2.1 The generated loader

A schema is given by constants: the fields of the root schema and of its sections in
declaration order (`FieldSeq`), the kind of each (`str`: string or path; `num`: int or float;
`bool`; `enum`; `ip`: `ipv4`; `arr`: `string[]`; `ints`: `int[]`; `tab`: array of an element
schema with one string field), its section and its name there (`Home`, `Name`; a field whose
type is a schema is a section to every emitter), which have a default, an
`env` property, `required: true` or a `required_if`, the set `Bad` of
strings, numbers and bools a built-in constraint rejects, and for each field with a hook the values the hook rejects
(`Hook`; a hook is a function of the value it is shown, NULL for a string that is not there, and one that accepts leaves
`err` alone). A text is a value together with the elements it splits
into at commas, because the code reads it one way for a scalar and another for an array. `Parts`
says which octets of an address a text sets — those before the first that is out of range,
because `cfg_parse_ipv4` writes each octet as soon as it has read it — and which member of an
enum it names, if any.

State. `live` is the set of allocated blocks; block numbers are never reused, so a
pointer to a freed block stays recognisable. `cfg[c][f]` is a field: its block,
its text or number, and for an array its elements (each a pointer with its text), for an
address its octets.
`pool[c]` is what `internal_pool` reaches, `ctx` what the context of the call in
progress reaches. `pc`, `i`, `sec`, `good` are where the call is; `status[c]` and
`err` what it reported. `Wild` is a pointer read from memory nobody wrote.

Actions, in the order of `S_load` (`codegen.c:349-369`):

| Action | Code |
|---|---|
| `Load` | zero struct, context and error (350-353) |
| `DefaultField` | one assignment of `emit_default_initialization` |
| `OpenIni`, `FailLoad` | 357-360: missing file, free the context |
| `IniLine` (`StoreKey`, `OpenRow`) | one line of `cfg_parse_ini` and the handler it calls |
| `EndIni` | the verdict after the last line |
| `EnvField` | one block of `emit_env_overrides` |
| `Publish` | `cfg->internal_pool = ctx.pool`, then `S_parse_cli` takes it up |
| `ParseCli` | `S_parse_cli` called by the application |
| `Argument` | `S_parse_arg` on one element of `argv` |
| `EndCli` | hand the pool back |
| `Validate` (`Invalid`, `Reports`, `Release`) | `S_validate`, and `S_free` when it fails |
| `Free` | `S_free` |

Writing a field is an *effect*: the slot left behind, the blocks the pool gained,
whether a `malloc` failed, and whether the code then dereferences NULL. Each of
`InternEffects`, `ValueEffects`, `ArrayEffects`, `IntsEffects`, `AppendRowEffects`,
`LastRowEffects`, `MistypedEffects` is the set of effects of one helper, every outcome of every
`malloc` in it included (`IntsEffects` leaves whatever the memory held when the buffer of a
text could not be had); `Write` applies one of them. `Patched` is an address over another: the
octets the new text does not get to stay those of the lower layer.

`Reports` is what `err` may hold after the first field that fails. A built-in constraint sets an error with the
field's name; a hook only gets `err`, and the emitted code returns when it says no
(`emit_validation.c:125-136`), so nothing need be in it (the hook of `docs/schema_guide.md:564` returns false for NULL without
a word): a failed load may show an empty message. A field that fails both may show either, because the
checks are emitted in the order its properties are written, which the model does not keep.

`LayeredConfig` says what the documentation promises of the same, without loops: the section in force at a line is
that of the last header before it that closes, a key belongs to the last row
opened before it, a flag wins at its last occurrence that was not itself
swallowed as a value, the highest of CLI, environment, INI and default wins — octet by octet
for an address, since that is what the code does. Every field takes `--S.f=val` and a variable, arrays included, and a
required field is one that some source has, be it empty (`Provided`), as `docs/schema_guide.md:242-267`, `:298-332` and
`:655-730` say.

The code does not do all of that, and `LoaderPromise!Uncontested` names, request by request, where it differs; what
those requests resolve to is claimed neither in a run nor in a theorem:

- `--S.f=val` on an array, a bool or an enum, which the code ignores (`emit_cli.c:61-71`; `docs/schema_guide.md:664`, `:667`,
  `:716-717`, `:727`), and a variable for an array or an enum, which it never reads (`emit_lifecycle.c:62-75`;
  `docs/schema_guide.md:247`, `:267`, `:787`): `Understood`;
- a required array that is provided and empty, which the code rejects (`emit_validation.c:31-40`;
  `docs/schema_guide.md:331`), and a required number, bool, enum or address that nobody provides, which it accepts
  (`emit_validation.c:112`; `docs/schema_guide.md:306`): `Ensured`.

`LoaderPromise!KeepsPromise` is `LayeredConfig!Spec` under the mapping *pending =
the call in progress, answer = status and fields of each struct between calls*.

### 2.2 The data structures

`Arena` keeps sizes as the unsigned numbers they are (`Wrap`), the block header
and `max_align_t` of an LP64 build, and one action per function; the search for
the capacity of a new block is a step per doubling because its end is one of the
questions. `HashMap` runs a put step by step — the decision to grow, each entry
copied, the swap or the giving up, the insertion — and each step may be refused
memory. `DenseInterner` is one step per call; what its two records (`hashmap`,
`dense_array`) hold after one of them fails is the point of it.

### 2.3 The type checker

A program is a sequence of schemas, a schema a name and items, an item a field or
a section with items of its own. `typecheck_program` declares the schemas
(`Declare`) and goes through each (`StartSchema`); a field whose type names a
schema that was not gone through yet sends the checker there first (`Descend`).
C recursion is the stack `frames`; `scopes` is the symbol table with its parent
links (`symbol_table_lookup` walks all of them, so what a nested schema sees
depends on the way that led to it), `resolving_stack` and `resolved` are the
code's. `Define` is `symbol_table_define` with the error its caller reports,
`PropertyErrors` what
`typecheck_field_properties` reports: for each property of a field whether the type has it
(`PropertyDefs`) and whether its value is of the right form (`ValueMatches`, with the tables
and cases of `FieldProperties`). The history variable `bodies` counts how often
a schema's items were entered.

`SchemaOrder` and `SchemaRules` say what the program *should* mean without scopes, stacks or order
of work: `Layered` asks for an order in which each schema comes after those it mentions,
`Lexical` resolves names in the text of one schema. The properties compare the two. They are two
modules because they are two questions: the order of the schemas knows nothing of scopes. Neither recurses over
nested sections, so that both can be proved about: `SchemaOrder` reaches them level by level
(`Level`, `Parts`; no program has sections deeper than `Nesting`), and in `SchemaRules` the scopes around an item are a
chain of items, each a part of the one before (`Chains`).

`Fits` is the property reference of the guide (`docs/schema_guide.md:784-798`): which property means something on which
field, and with which values. The checker refuses more, and `Refused` names what: `min_length`, `max_length` and `pattern` on
a path (`properties.c:31-33`, against `docs/schema_guide.md:389`, `:793-795`, while the generator has code for
them, `emit_validation.c:83-110`), and `required`, `env`, `secret`, `hook` and `short` on an enum (`properties.c:188-190` looks for any
literal given to an enum among its members, against `docs/schema_guide.md:247`, `:786-797`). A program without them is
`Supported`; the properties about acceptance say of every other program that it is refused for that alone.
Three things the reference leaves open are taken as the code has them: `short`, which it does not list, is for all fields; `default` "on all types" has no
literal for an array or a struct, and `exists`, "for paths", is also for arrays of them.

### 2.4 The lexer

A source is a sequence of characters of a few classes. `here` is the cursor with the line and
column the code keeps beside it (`After` is `lexer_advance`), `pc` the loop in progress:
`SkipSpace`, `OpenComment`, `InLine`, `InBlock` are `lexer_skip_whitespace`; `Begin` is
`lexer_next_token` up to its branch, `InWord` … `Symbol` the branches, `Emit` the push in
`lexer_lex_all`. Which allocations of a token failed is a choice; `oom` remembers that one
did. A slice's length is an unsigned number (`Width`), because a source that
ends in a lone quote has contents of length -1, for which the arena is asked for
`-1 + 1` bytes and gives none.

`LexerRules` looks at the whole source and at places in it, never at a state of the scanner, and shares only the table of escapes with it: a lexeme is a set of texts (`IsWord`,
`IsFloat`, `IsString`, …), a token the longest lexeme where white space and comments end, a
backslash is an escape by the parity of the run it ends, a column the distance to the last newline.
`LexerAssumption` keeps the classes of characters apart and a source two short of
2^32 characters: the lengths of slices are 32 bits wide.

### 2.5 The parser

A parse function is a sequence of instructions (`Code`): a token type consumes that token, `NEW`
is `new_node_or_err`, `LIST` is `alloc_dynarray`, the other names are the loops and branches, each
an action of its own; `stack` holds one frame per call. A function that finds an error gives
NULL, and so does each of its callers (`Fail`) — but for a range in `parse_property_value`, which does not look
at its first literal and goes on. `Deliver` is what the caller does with a node; where that is
`dynarray_push_value`, whose result nobody looks at, a failed push drops the node. `err.told` is
`error->message`: that message is itself allocated, and the first one stays (`Tell`). `failed`
remembers what the failed allocations were for, so that the properties can say exactly what
each of them may cost.

`ParserRules` knows no cursor and no stack. It has the grammar as a table (`Alternatives`), from
which `Offence` is the first token with which a text is no longer the beginning of a program;
`lang.bnf` is the source of that table where it is about ranges (`:34`, two numbers); where it and the guide
differ, the table is the guide's and the code's (`lang.bnf:11-13` asks for braces after every type and knows no commas between
properties, `docs/schema_guide.md` leaves the braces out and puts the commas in on every page);
and it writes a tree back into a text (`Unparsed`), which is to be the text that was read but
for what is optional (`Essence`). `Accepted` is what `main.c:93` takes
for success: no message.

### 2.6 The pattern matcher

While `pc` is `"emit"` a step is one turn of the generator's loop, which emits the statements for a dot, a
class, a character, each with its quantifier: `one` (look at a character and go on), `back`
(`p--`) and `loop`. Then the emitted function runs statement by statement: `Try` is a turn of
its loop over the starts, `Miss` the `goto next`, or `return false` when the start is anchored. The
history field `means` keeps what the author of the pattern meant: the items, and where in the pattern each of
them and each member of a class is written (`Says` tells whether it is). `Matches` says what a matcher would
have to do: cut the text so that each item has the characters it may.

## 3. Runs

| Run | Question | Instance and bounds | Result |
|---|---|---|---|
| `loader` | Do all inputs resolve as promised, and do sequences of calls keep memory, errors and structs apart? | either one load of one struct with any input: every INI file of ≤ 3 lines over 11 kinds of line, of 4 lines over the 7 about tables, of ≤ 3 lines in the root section over 6 more and of ≤ 3 lines in a nested section over 11, every command line of ≤ 3 of 8 arguments, all pairings of file, environment and flags in the root and in the nested section, texts that set part of an address or name no member of an enum among them, all as far as uncontested; or two structs and any four calls of seven requests (a success that uses every layer, a syntax error, a missing file, a value rejected by a constraint, one rejected by a hook, two flag-only parses) and `S_free` | `PoolsPartitionHeap`, `SuccessIsPooled`, `NoLeak`, `KeepsPromise`, `ErrorMatchesStatus`, `CallsReturn` |
| `loader_oom` | What may a failing `malloc` do? | one struct, two steps in which any of the mallocs fail, reloads, inputs the code does not expect and flags and variables it does not hear | `ZeroedPointsIntoPool`, `LostNotStale` |
| `arena` | Bounds, overlap, leaks, termination | `SIZE_MAX` 1023, `malloc` up to 300, four blocks, five allocations; sizes below, at and above alignment, block and `malloc`, and above `SIZE_MAX / 2` | `InBlock`, `Disjoint`, `HeapIsList`, `AllocReturns` |
| `hash_map` | Is it a map, also when memory runs out? | four keys (three of one bucket at first), two values, tables of 1, 2 and 4, two failures; buffers of one entry so that each push may allocate | `Findable`, `SizeIsCount`, `LoadBounded`, `IsPartialMap`, `PutReturns` |
| `interner` | Which of its promises survive which failure? | three strings, two metas, five results, two failures | `FiledUnderItsName`, `DenseOrder`, `ListedIsFound`, `IndexWithoutPushFailure`, `Stable` |
| `schema_check` | Does the checker report what is wrong with a program, whatever the order of its schemas? | 34,123 programs: every graph of three schemas with two fields, two schemas in both orders whose fields take each other's names, three schemas with sections and redeclarations, and every property with every kind of value on every kind of field | `StackIsOpen`, `CheckedOnce`, `AcceptedIsEmittable`, `WellFormedIsAccepted`, `CyclesAreReported`, `ExactBottomUp`, `Finishes` |
| `lexer` | Are the tokens the source, and does the scan end? | 8,023 sources: all of ≤ 3 of 14 characters, and all of ≤ 5 over the characters of a comment, of a string, of numbers and dots, of words and lines; two keywords, one a part of the other; any allocation may fail | `TokensAreTheSource`, `LexReturns` |
| `parser` | Is the tree the text's, is the error the first there is, and what may a failing allocation hide? | programs that use every construct, each of them cut short and with one token dropped, replaced or put in; every text of ≤ 2 tokens and every property value of ≤ 4 tokens over the tokens that decide there; literals at both ends of `long long` and beyond `unsigned long long`; up to three failing allocations | `AcceptedIsTheText`, `ErrorIsFirstOffence`, `TokensInReach`, `ParseReturns` |
| `pattern` | Does a value that gets through match, and which patterns does the matcher do completely? | every pattern of ≤ 2 items and some of 3, with and without anchors, over characters, a dot, classes (ranges, negations, escapes, a bracket or a dash at the edge) and all quantifiers; all texts of ≤ 3 characters and some with special ones | `AcceptedMatches`, `DirectIsComplete`, `ReadsTheText`, `MatchReturns` |

Why the bounds are enough. A file of four lines about tables can hold a header, a row, a
header in between and a key, which is the longest chain the parser's one
variable of state (`section`) makes possible; three arguments are an option, the
value it takes and the one after. Three texts for one address are enough to set its octets
by three sources, of which the highest sets the fewest. Four calls on two structs reach every order of
load, failure, `parse_cli` and free on one struct with a live second one. Two
failures give a failure after a failure. Four keys in tables of one, two and four
buckets give collisions that stay, collisions that part and two rehashes in a row.
Three schemas give every cycle of length one to three, a cycle beside a schema that only
leads into it, and a schema reached twice; two schemas with two fields each, one of
them named like the other schema, give every way a field can hide a schema before,
after and between its uses. Five characters hold a closed comment or string with an
escaped quote or a backslash before its end, two of the shortest of them in a row, and
`0.0.0`, `0..-0` and `-0.0.`; three of all hold every pair of neighbours after any
third. The parser looks at one token and the one after it and keeps no state but its stack,
so a program in which every function is active somewhere, disturbed in one place, meets every
branch with every token; three failures lose a list, a node and the message that would have
told it. The matcher has no state but a position; two items are a greedy loop
and what it may swallow, three characters a start that misses, one that matches and what is left.
Deadlock is not checked for the loader and the arena, which stop at `MaxCalls`
and `MaxBlocks`, nor for the type checker, the lexer, the parser and the matcher, which end; the
hash map and the interner always have a call to make, and it is.

The three runs expected to fail state what the documentation says and the code does
not do; each is a finding in `PROJECT.json`:

| Run | Claim | What happens |
|---|---|---|
| `doc_dangling` | memory-safe | after a syntax error the struct keeps pointers into the context pool that was freed (`codegen.c:359`) |
| `doc_pattern` | `*` is zero or more (`docs/schema_guide.md:451`) | a star first asks for one character of its class (`emit_validation.c:310`), so `^a*` refuses the empty value |
| `doc_grammar` | a range is of two numbers (`lang.bnf:34`) | `parse_property_value` reads any literal as the upper bound (`parse_statements.c:332`), so the parser has no error for `1..x`; the type checker is the one that refuses it |

What holds is more than what fails. In particular the precedence of layers is
the documented one wherever the code reads a source at all (`Uncontested`, section 2.1), also across repeated keys,
broken headers and swallowed values; no order of calls frees a block twice; and, reloads aside, none
leaks one — a load that fails at any point gives back what it took.

Of the type checker, `AcceptedIsEmittable` holds without conditions: what it accepts
has only known types and an order for the structs of the header. The other
properties say where its order of work does *not* show. `WellFormedIsAccepted` and
`CyclesAreReported` ask that no field has the name of a schema (`Unhidden`), because
such a field hides the schema also from schemas that are checked on the way and turns
their good types into `UNKNOWN_TYPE`; `ExactBottomUp` asks that the text is written bottom-up,
because otherwise a `required_if` may name a field of whichever schema led to this
one and still be accepted. Both are observations below. Both properties about acceptance leave the properties that are not
`Supported` out: there the checker is stricter than the guide.

Of the parser: `ErrorIsFirstOffence` says that with memory enough an error is told exactly of the
texts that are no programs, and blames the first token with which no program begins — texts with a range that ends
in no number aside (`EndsInNoNumber`), which are no programs and are not told, as `doc_grammar` shows.
`AcceptedIsTheText` is about failures too: a list or a node that could not be made is told, so what
`main` goes on with is the whole tree of its text unless a push failed, which nobody looks at, or
the message found no room, in which case `main` takes the error for success.

Of the matcher, `AcceptedMatches` holds for every pattern: nothing gets through that the pattern
refuses. The reverse is `DirectIsComplete`, for the patterns a matcher without
backtracking can do (`Direct`): nothing that may be absent, no repeated dot, no repetition that
could swallow what must come next.

`LostNotStale` deserves a word: when memory runs out a *string* of a successful load is
what its layers say or NULL, never the value of a lower layer. Of arrays that is
not true (`cfg_parse_array_string` returns early with the old array in place or,
worse, with `count` set and no data), so the property is about strings.

### Fairness

`WF_vars(Step)` for the loader, `WF_vars(Grow \/ Chain)` for the arena,
`WF_vars(Step)` for the hash map, `WF_vars(Next)` for the type checker, the lexer, the parser and
the matcher (which are one call each): a call that has begun goes on. All of it is
straight-line C in one thread that waits for nothing, so it is scheduled as long
as the process is. Nothing is assumed of the application: no call need ever be
made. `CallsReturn`, `AllocReturns`, `PutReturns`, `Finishes`, `LexReturns`, `ParseReturns` and
`MatchReturns` say the loops end.

## 4. Proofs

Everything below is checked by TLAPS for every value of the constants, from the
named assumptions of the modules: `SchemaAssumption` (a well-formed schema),
`LoaderAssumption`, `ArenaAssumption`, `HashMapAssumption`,
`FirstCapacityAssumption`, `InternerAssumption`, `SchemaCheckAssumption`, `SchemaOrderAssumption` (sections
end), `LexerAssumption`, `ParserAssumption`, `PatternAssumption`, `PatternRulesAssumption` (characters differ in
rank; a pattern says what its author meant).

**Loader** (`ConfigLoaderProofs`). `TypeCorrect`: for every schema, request and
failure each field holds a value of its own C type. Three layers: `Good` says
what one effect may do (a slot of the field's type; blocks numbered from `next`
on), one lemma per helper (`ArrayGood`, `IntsGood`, … ; `PatchedType` for the octets an address
keeps); `Moves` says what a step of a call does to memory (adds
the same new blocks to `live` and `ctx`, writes the struct of the call), one lemma
per action; the invariants follow from `Moves`. `PoolsPartitionHeap` is not
inductive: while a call is in `cli` the same blocks are in `ctx` and in the
struct's pool, and only at some labels; and that a new block is in no pool needs
block numbers below `next`. `HeapInv` adds both. From it `NoDoubleFree`,
`NothingLeaks` (when structs are freed before they are loaded again) and
`StructsDoNotInterfere` follow. `ErrorsMatch` takes two lemmas about the last step instead: what `Reports` may hold
is an error with the code of a failed validation or what a hook left (`ReportsAre`), and in the second case a hook rejects
something in the struct that was checked (`Heard`).

*Pointers.* `PointersArePooled` is about every pointer of a struct, those of its rows
included. During a call they go to the context's pool and after it to the struct's own, so `PoolInv` says
both; it is kept because each helper leaves a slot that *owns* what it points to (`Owns`: it points where
the slot did before, into blocks the helper took, or nowhere), one lemma per helper, and because no step moves a pool
without the struct. One thing is in the way: `cfg_parse_array_string` sets `count` before it has `data`, so when
`malloc` fails an array may have elements nobody wrote (`codegen.c:84`), and a flag on an array of schemas writes
over structs. `ReadsUnwritten` says which requests those are, and the invariant allows a wild pointer only where
such a request was possible. Two theorems follow, each with the condition it needs: `LoadedIsPooled` (no
request of the kind; `loader` is such an instance, with every kind of field but no failing `malloc`) and `ZeroedIsPooled`, for
which loads may do what they like and only `S_parse_cli` must not (`loader_oom`).

*The promise.* `ImplementsPromise` is `Spec => KeepsPromise`, the refinement of `LayeredConfig`. The promise is
declarative: the winner of a part of a field is in the highest layer that says the part, and within a layer it is the last
line or argument that says it. The loader reads one after the other and overwrites. In between stands
`Said`, what was said of a part when a call is at a step of a stage: a step of the call tells one gift more
(`SaidNext`, with `LastNext` for the maximum over what was read), a stage begins where the one before it ended (`SaidPhase`), and at
the end what was said is the winner (`SaidEnd`). That no argument is read both as an option and as the value of one
is part of it: `SwallowedIs` shows that the values among the arguments are well defined, and `PlaceInv` that the loop of
`S_parse_cli` never stands on one. The induction is over steps, never over input: maxima are of sets of positions
read so far, and one position is added at a time. `ValueInv` relates this to the struct: a field holds what was said so far makes of the value it
began with (`Meant`), octet by octet for an address, because a malformed one overwrites only some (`PatchedMeant`); the rows of a table are those
of the lines so far (`RowsNext`), where a key belongs to the last row opened before it. Each action is shown to give
its fields what its position in the layer gives (`DefaultGives`, `StoreGives`, `HeaderGives`, `EnvGives`, `ArgumentGives`). At the end
`SameAcceptance` shows that `S_validate` finds nothing exactly when the promise accepts the values, for which a string must be there when
its pointer is (`SolidInv`).

Its four conditions are what the code needs. The requests are uncontested. No `malloc` fails; no flag is used on an array of schemas, since that writes
strings over structs; and no `required_if` compares a *string*, since the code compares addresses (`Holds`) while the promise, like the
documentation, compares values. These are `Uncontested`, `Calm` (the mallocs and the flags) and `NoStringCondition`; the instance
of `loader` satisfies them. `NothingStale` needs none: when memory runs out, `ValueInv` still says that a string is
either the one meant or NULL, which is `LostNotStale`.

**Arena** (`ArenaProofs`). An allocation starts at the mark of the newest block, so
it misses the older ones because those end below the mark; and the arithmetic
does not wrap because blocks, marks and requests stay within `size_t`. `IInv` is the
conjunction of `TypeOK`, `Bounded` and the three invariants.
`ArenaAssumption` asks of a request that it is at least `MallocMax + 32` below
`SIZE_MAX`: `arena_alloc` adds size and offset without asking whether the sum wraps,
and no call of the compiler comes near.

**Hash map** (`HashMapProofs`). Lemmas about one table first — what a lookup returns
in a well-placed table (`LookupHeld`, `LookupNone`), what a push, an update and a
removal do to the set of entries held (`PushHeld`, `UpdateHeld`, `RemoveHeld`), what the
cursor of a rehash has passed (`PassedNext`, `PassedOne`, `PassedAll`) — then the
invariant: `Findable` needs `CopiedSoFar` (the new table becomes the table) and
`CopiedSoFar` needs `Findable` (pushing what the old table holds once makes it held
once). `Simulates` maps each step to a step of `PartialMap` or a stutter, which gives
`ImplementsPartialMap == Spec => IsPartialMap`. `LoadFactor` rests on `SizeIsRight` and its
own `LoadInv`.

**Interner** (`DenseInternerProofs`). The conjunction of its invariants is inductive;
`ResultsAreStable` follows from it and from growth at the end only.

**Type checker** (`SchemaCheckProofs`). `StackIsTheOpenChain`: for every program the resolving
stack is the chain of schemas in progress, none twice and none marked. Four lemmas say how
the chain follows the frames when a schema or a section is entered or left
(`FollowsEnter`, `FollowsKept`, `FollowsLeaveSchema`, `FollowsLeaveSection`). The
invariant adds that a schema symbol stands under its own name (`SymbolOK`): the schema
`Descend` enters is then the one it found unmarked and off the stack, which is what keeps the
chain free of repetitions. Since no schema is on it twice, the recursion is
no deeper than there are schemas.

What the checker finds out takes four more invariants, each resting on those before it.
`PassInv`: the global scope holds the first declaration of each name that `Declare` has seen, and as long as
nothing is reported the names are distinct. `BodiesInv`: a schema was gone into once if it is marked or on the
stack, else never, and those the main loop has passed are marked; at the end the stack is empty, which gives
`EachIsCheckedOnce`. `TextInv` relates the frames to the text: the items of each frame are a part of
the schema it is about, a frame under another stands at the field or the section that led to it, so every order of
the schemas falls along the frames. A name that is found on the stack therefore rules out any order, and a reported cycle
is a real one. `OrderInv` is the converse: as long as no cycle is reported, and either nothing at all or no field
hides a schema, the types a frame has passed are marked (or reported as unknown), and the marked schemas
have a rank in which each is above those it mentions, namely the order in which they were marked. At the end
`MarkedInOrder` is `Layered`, hence `AcceptedCanBeEmitted` and, with `TextInv`, `CyclesAreFound`. The conditions are needed:
a field that hides a schema makes its type unknown, and what is behind it is not resolved. `Nesting` is
arbitrary.

`NoneIsRefused` and `BottomUpIsExact` say that the checker decides what `SchemaRules` says of the text. What its
scopes hold is `FilledInv`: as long as nothing is reported, the scope of a frame holds exactly the names the frame has
defined, each with the type of its item, and all of them once it checks fields. The scopes from a schema's frame on are
then a chain of that schema's text (`ChainOfFrame`), and a name is found in the innermost scope that declares
it (`LookupInnermost`, `InnermostIs`), so a condition (`ConditionIs`), a property (`TakenIsSuits`, `PropertyTaken`) and a
type (`TypeAccepted`) mean to the checker what they mean in the text, what it refuses against the guide aside
(`Taken`, `WellTakenIs`). `TakenIsSuits` compares the table-driven
test of `properties.c` with the rules property by property. From there it is two inductions. Well-formed text is never
reported (`AcceptInv`, one lemma per kind of error). The scopes of the schemas that led to this one may hold the name of a
schema only if a field hides one, hence the condition `Unhidden`. Conversely, in a bottom-up text every schema that a
field names is marked before its turn (`BottomInv`), no schema is checked inside another, and what the frames have passed
without a report fits the rules (`FineInv`): each chain of the text is one that the frames went through. What is
assumed is `SchemaRulesAssumption`: an item is a field or a section, a field's properties are a sequence,
and a literal is an int, a float, a bool, a string or an identifier, as the parser builds them.

**Lexer** (`LexerProofs`). `TokensAreRead`: the tokens are the source. The rules look at the whole source,
the scanner turns a loop, so `LexInv` relates the two in the middle of every loop. In white space and
comments the next token is where it was when the last one ended (`Skipping`; for a comment: it is where the
rules go on after its end). Within a token, what has been read is as far as it goes a lexeme
(`Reading`): a word is a word, digits are an integer or a sign with a digit behind it, a fraction has its one
dot, a string has passed escaped quotes only and does not stand behind a backslash. When the loop stops it is
because of a character that no longer lexeme holds (`WordToken`, `IntToken`, `FloatToken`, `StringToken`,
`OpenToken`, `SymbolToken`), so the lexeme is the longest. `SamePasses` shows that the pass of
`lexer_unescape`, two characters at a time, gives the contents the parity of backslashes gives.
`TokenFrom`, `Contents` and `Unescape` are recursive functions. That each satisfies its own equation is
proved by well-founded induction on *sets* of places (`SetInduction`, from the library's `NatLessThanWellFounded`,
which takes no operator); what they compute is then used one step of the scanner at a time. A token that runs
out of memory is in the theorem as it is in the rules: it may lose its record, nothing else.

**Parser** (`ParserProofs`). `CursorStays`: for every text the cursor stays on a
token. The last token is `eof` and no instruction consumes that (`NotTheLast`); the one place that moves two
tokens at once (a member of an enum and the comma behind it) has looked at both. `NullIsAlwaysTold`:
if `parse_program` gives NULL there is a message, or there was no memory for one — every step that
gives up tells (`TellTells`), and a tree that is returned is a node.

**Pattern matcher** (`PatternProofs`). `MatcherReadsTheText`: for every pattern, also one no author
would write, the matcher stays between the start of its try and the NUL. `p--` is the danger: the
invariant says that each `back` the generator emits stands behind a `one` of the same quantifier
(`Quantified`), so that when it runs the position is beyond the start.

`AcceptedIsMatched` and `DirectNeverMisses` say what the matcher computes. The generator is read against the places of the
items in the pattern: behind each item, or before the quantifier a dot or a question mark leaves over, the
statements emitted are those of the items before (`Emitted`, `Blocks`). For a class that takes an induction over its
members from the last to the first (`ClassIs`), because `Members`, a recursive function, runs over them; like the
lexer's it is shown to satisfy its equation first (`MembersExists`). The matcher is read against the places in the text
where it found the items (`Found`), part of the next one perhaps included (`Within`): with the last item found
they are the cut that `Matches` asks for, so nothing gets through by mistake. For a direct pattern they are also
the only ones (`Forced`): a loop stops where the next item begins and nowhere else, as the sets have no
character in common. So a miss, wherever it happens, says that no match starts here, and
the starts before were given up for the same reason (`NoneBefore`). The meaning of the last repetition is not
forced when the pattern has no dollar, and need not be.

Also proved, though too plain for a run: the `TypeCorrect` theorems, `ResetLeavesRoom`,
`RehashCopies`, `StructsDoNotInterfere`, `NullIsAlwaysTold`.

Only model-checked:

- liveness (`CallsReturn`, `AllocReturns`, `PutReturns`, `Finishes`, `LexReturns`, `ParseReturns`, `MatchReturns`), which is
  beyond this prover;
- `AcceptedIsTheText` and `ErrorIsFirstOffence`: what a tree or a text means is defined by recursion over it
  (`ParserRules`).

## 5. Not modelled

*In the loader:* arrays of other elements than strings, ints and schemas, an array of schemas below
the root and sections inside its rows, the constraints
one by one (a constraint is membership in `Bad`; the pattern is `PatternMatch`), what a hook does besides answering, and what it
makes of array elements that a failed `malloc` left unwritten, the
limits of the line buffer (4096), the section (256) and the path parts (32). *Data structures:* contents of
memory, destruction of maps and interners, the hash functions, callbacks that free keys (always NULL
in this repository). *Type checker:* its failing allocations (`typecheck.c:114`, where a push onto the resolving stack is not
looked at, and `symbol_table.c:29`, where a symbol is), the type store, and the printing of the reports.
*Lexer:* `lexer_reset`, which nothing calls, `lexer_destroy`, which has nothing to free in an arena,
and which of several single-character tokens one is. *Parser:* the printing of its error and of the tree.
*Matcher:* a class without a member, for which the generator emits code that does not compile; and `{n}`, which the guide's
examples use (`docs/schema_guide.md:87`, `:431`, `:458`, `:539`) though its list of what is supported does not have it: to the generator it is
characters like any others, and the patterns of the run have none.
*Whole parts:* printer and usage tracker (folds over the tree that write text or flags), allocator (a call
through a pointer), timing utilities, driver (a linear pipeline of the parts above over one file).

Two hazards have no property. `[[S]]` and `[[S.section]]` call the handler with a NULL key where
fields are compared with it (`emit_lifecycle.c:152`), and a flag on an array of schemas writes strings over
its structs (`emit_cli.c:102`): both are in the model (`OpenRow`, `MistypedEffects`) as what they do, and any property
about them would only say that they are broken.

Seen while modelling, without a run of their own:

- `S_load` on a struct that was not freed forgets its pool (`codegen.c:351`), although
  `docs/c_api_reference.md:161` says that one `_free()` releases every allocation of a struct's
  lifecycle; `NoLeak` holds with `Reload = FALSE` and fails with `TRUE`;
- `--S.nodes=a,b` is ignored, although `docs/schema_guide.md:667` shows it: arrays have no
  `name=value` form (`emit_cli.c:90`), and neither have bools and enums (`Uncontested`);
- a validation that fails on a hook may leave no message at all (`emit_validation.c:133`);
- a flag on an array of schemas writes strings over structs (`emit_cli.c:102`);
- `count` is set before `data` is allocated (`codegen.c:84`), so an array may claim
  elements it has not;
- an empty required array is rejected although `docs/schema_guide.md:331` says otherwise (`Uncontested`);
- `env` on an array or an enum has no effect (`docs/schema_guide.md:787` says it is for all types; `Uncontested`);
- the field of a validation error is the bare name, not the path of `docs/c_api_reference.md:179`;
- equal strings are copied each time, although `docs/c_api_reference.md:159` speaks of interning;
- the arena's data starts 24 bytes into a `malloc` block, so its first allocation is 8 modulo 16
  although `arena.c:76` means to align to 16;
- `cfg_parse_ipv4` writes octets before it finds the address malformed (`codegen.c:138`), so `3.3.300.3` over
  `1.1.1.1` is `3.3.1.1`; a text that names no member of an enum leaves the lower layer's value;
- a required number is accepted when no source provides it (`emit_validation.c:112`, against
  `docs/schema_guide.md:306`);
- a string whose push failed stays filed under an index that the next one gets (`dense_interner.c:104`);
- `required_if` on an enum compares with the bare member (`emit_validation.c:13`), which is no identifier of
  the header, although `docs/schema_guide.md:611` shows it; on a string it compares pointers and never holds (`Holds`);
- enum fields take none of `env`, `required`, `secret`, `hook` and `short`, because any literal given to one is looked for
  among its members (`LiteralMatches`), although `docs/schema_guide.md:241` says they work on all types; paths take no
  `min_length`, `max_length` and `pattern` although `:389` says so (both are `Refused`);
- `x: void {}` is accepted and becomes `void* x`; a `min` above the `max` is not noticed, only an
  empty `range` is;
- what is accepted need not compile: two sections of one name, a default with a quote, a schema whose struct is
  used before its text, a `required_if` on a field of another struct, the pattern `[]`;
- `emit_structs.c:51-56` keeps the address of a local past its block;
- the grammar in `lang.bnf:11-13` and in the comment at `parse_statements.c:208` demands braces after a type, the code and the guide
  make them optional and have commas between properties;
- `parser_create`'s result and the `malloc` of `parse_float_lit` are not checked (the model's `"crashed"`), and
  `-9223372036854775808` is made by negating `LLONG_MIN`;
- an escaped `$` at the end of a pattern is an anchor all the same (`Direct` leaves it out);
- the type checker resolves a schema inside the scopes of whoever names it first
  (`typecheck.c:116`), so a `required_if` can name a field of another schema, and a field
  named like a schema makes that schema's name an unknown type in others, or not, by the
  order of the text;
- an unterminated block comment at the end of the file is accepted by the lexer, and so is an
  unterminated string, which loses its last character (`lexer.c:214`); `TokensAreTheSource` says where such a string
  ends, not what it contains;
- contents are unescaped by the lexer and printed between quotes as they are
  (`emit_lifecycle.c:28`), so a default with a quote, a backslash or a newline makes a header
  that does not compile or means another string.

## 6. Plan

Done, in this order: `ConfigSchema`, `LayeredConfig`, `ConfigLoader`, `LoaderPromise` with
their proofs; `Arena`; `DynArray`, `PartialMap`, `HashMap`; `DenseInterner`; `SchemaCheck`,
`SchemaOrder`, `SchemaRules`; `Lexer`, `LexerRules`; `Parser`, `ParserRules`; `PatternMatch`, `PatternRules`;
`FieldProperties` in `SchemaCheck`; nested sections, addresses, enums, `int[]` and `required_if` in
the loader.

Next:

1. The buffer limits of `cfg_parse_ini` and the 32 parts of a path; embedded schemas inside the
   rows of a table.
2. Proofs: `AcceptedIsTheText` and `ErrorIsFirstOffence` need an induction over trees and texts, which means the
   grammar of `ParserRules` written without recursion, as `SchemaRules` now is.
