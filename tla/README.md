# A TLA+ project for asn1rs

asn1rs is an ASN.1 compiler for Rust and a runtime for the code it generates:
it parses modules, resolves names and tags, converts the schema to a Rust model,
and generates Rust types, `.proto` files and SQL files; the runtime writes and
reads values in UPER and protobuf and stores them in PostgreSQL.

This directory keeps a model of the parts where a mistake is hard to see in a
test, TLC configurations that check them on small instances, and proofs that
TLAPS checks. `PROJECT.json` relates every definition to the lines it models,
every property to the mutation of the code it detects, and lists the hazards.
Source paths below are relative to `src/`.

    tlc  -config StatementCache.cfg MCStatementCache.tla   # a run
    tlapm StatementCacheProofs.tla                               # the proofs

## 1. Inventory

Legend: **M** modelled, **P** in part, **–** not modelled.

### Runtime

| | Component | State and operations | What is hard | What makes it correct |
|-|-|-|-|-|
| M | Prepared statement cache (`src/io/async_psql/mod.rs`: `Cache`, `Context::prepared`, `optimize`) | A map read without a lock, a map behind a mutex with a marker mutex per text; `prepared` called by many futures | Interleaving at every await, failing requests, dropped futures (`try_join!`), two kinds of locks | One preparation per text at a time, one statement per text for ever, every call ends |
| – | Hand-over of a cache (`split`, `into_*_context`) | Moves of owned values | A cache joined with another client | Left to the type system, listed as a hazard |
| P | UPER codec (`src/syn/io/uper.rs`: `Scope`, `UperWriter`, `UperReader`) | The scope: positions of presence bits, a countdown to the extension header | Presence bits written late; peers that know fewer or more additions; nested open types | Round trip to the last bit, old and new peers understand what both know |
| P | UPER primitives (`src/io/per/unaligned/mod.rs`) | None but the bits | Three forms of length determinants, fragments of 16K, widths of 64-bit numbers | Inverse within stated limits, loops end |
| P | Bit buffers (`unaligned/buffer.rs`, `slice.rs`) | Two positions, a byte vector | Overwriting a bit behind the write position, the bulked bit copy | The copy equals the bit-by-bit one (planned) |
| M | Protobuf codec (`src/syn/io/proto_write.rs`, `proto_read.rs`, `src/io/protobuf`) | The writer's tag counter and root flag, the reader's level with its index of fields | Neither side is told a tag: both count, and nested calls save and restore | Both sides at the same tag; values come back up to `ProtobufEq`, also to peers of another version |
| P | Values for PostgreSQL (`src/io/psql`, `psql_shared`) | None | NULL, columns of other types | What was stored can be loaded |
| – | `println` writer (`src/syn/io/println.rs`) | Indentation | – | layout only |
| P | Descriptors (`src/syn`) | None | Casts of numbers, bit strings of no bytes | Casts keep values in range |

### Compiler

| | Component | State and operations | What is hard | What makes it correct |
|-|-|-|-|-|
| M | Tokenizer (`asn1rs-model/src/parser.rs`) | The place in the text, an open comment, the text that grows | Comments inside words, the ends of comments and lines | Tokens are the words of the text, at the places where they stand |
| M | Parser (`asn1rs-model/src/model`) | The token stream with one token to look at | Each reader stops where the next one starts; markers, bounds, tags, defaults | What was written is read; an accepted module keeps every name |
| M | Resolution of names (`model/rs.rs`, `lor.rs`, `asn.rs`) | A recursive walk through IMPORTS | Rings of imports, two modules of one name, order of loading | Each name has the value it is declared with; failures are real; the walk ends but in a ring |
| M | Tag resolution (`model/tag_resolver.rs`) | A second walk with other rules | Agreement with the first walk | The tag of a type is the one its name means |
| M | Rust model (`model/rust/mod.rs`) | The definitions made so far | Definitions for inline types, names made from names, types of integers at the edges | Types mean what they meant; names meet; the type holds the range |
| – | Protobuf model (`model/protobuf`) | None | – | conversion of names |
| M | SQL model (`model/sql/mod.rs`) | Definitions, the depths a walk along references finds | Circles, names over 63 letters, clashes | Each table is created before it is referred to |
| P | Generators (`gen/`) | The files written | Two generators that must agree: items and descriptors, INSERT and load, header and fields, numbers of tags | Compiled descriptors do what the schema says |
| P | Attributes, macros (`ast/`, `asn1rs-macros`) | None | A type is written as text and parsed a second time; a SET is sorted after its marker was placed | The second model means the first one |
| P | Converter, command line (`src/converter.rs`, `cli.rs`) | Files | One of several files fails | The order of modules; reading and writing is input and output only |

How they interact: the converter feeds parsed modules to the resolver and the
generators; generated code carries what the compiler computed as constants
(number of optional fields, order of SET components, ranges) and calls the
`Writer` and `Reader` of the runtime, one method per component; for PostgreSQL it
sends the statements that fit the generated SQL file, the asynchronous client
through the statement cache. The runtime shares no memory between threads but
for the cache.

## 2. Modules

| Module | Models | Checked or proved by |
|-|-|-|
| `PreparedOnce` | Abstract: what `prepared` promises its callers | refined by `StatementCache` |
| `StatementCache` | `Context::prepared` and `Cache::optimize`, step by step | `MCStatementCache`, `StatementCacheProofs` |
| `UperSequence` | Presence bits, extension header, open types | `MCUperSequence`, `UperSequenceProofs` |
| `UperFragments` | Length determinants, fragmentation and its users | `MCUperFragments`, `UperFragmentsProofs` |
| `UperNumbers` | INTEGER from schema to bits, indexes of ENUMERATED and CHOICE | `MCUperNumbers`, `UperNumbersProofs` |
| `ProtobufCodec` | Every method of the protobuf writer and reader | `MCProtobufCodec`, `ProtobufCodecProofs` |
| `ProtobufRoundTrip` | Abstract: what a peer should see | `MCProtobufCodec` |
| `SchemaResolution` | The two walks and the places of SET components | `SchemaResolutionProofs` |
| `SchemaMeaning` | Abstract: what names and tags mean, without walking | `MCSchemaMeaning`, `SchemaResolutionProofs` |
| `SqlSchema` | From the Rust model to an executed SQL file | `SqlSchemaProofs` |
| `SqlStore` | Inserting, loading and deleting messages in it | `MCSqlStore` |
| `Tokenizer` | From a text to its tokens, character by character | `TokenizerProofs` |
| `TypeReaders` | The readers of types, ranges, sizes, tags and values | |
| `ModelParser` | The readers of a module: header, imports, definitions, values | |
| `AsnFrontend` | Both in sequence; abstract: words, and how a model is written | `MCAsnFrontend` |
| `RustNames` | The rules for names of items, variants, fields, constants, files | |
| `RustModel` | Resolved tags, and from ASN.1 types to Rust types | |
| `RustItems` | The generated items and what the macro reads back from them | |
| `RustDescriptors` | The descriptors that the macro expands to | |
| `RustCodegen` | The converter's loop over modules; abstract: what a type means | `MCRustCodegen` |

An `MC...` module only gives constants their values. `... Mutant:` comments mark
variants of a definition with a plausible bug; no specification uses them.

### StatementCache

State: the two maps (`fast`, `slow`), the holder of the map's mutex, and per task
the place in `prepared`, the text, the marker it holds or waits for (`ticket`)
and the statement. One action is the stretch between two points where another
future gets in: `LookupFast` (the map without lock), `AcquireMap` (an await),
`FindReady` / `FindAwaiting` / `FindMissing` (the three arms under the lock, the
last one storing a locked marker), `MarkerReleased` (the await on somebody else's
marker, then the loop again), `Prepared` or `PrepareFails` (the backend), `Insert`,
`Notify` (the marker's guard is dropped). `DropFuture` is possible at each await:
what `try_join!` does with the siblings of a failed future. `Optimize` needs
`&mut self`, hence that nobody is in a call. Marker mutexes are numbered by the
requests of their text. Line 124 locks a new mutex, which is
never an await.

*Fairness* (`FairSpec`): the locks are `futures::lock::Mutex` (line 4), which is not fair,
so only weak fairness of each task's steps is assumed: a lock that is free
again and again may go to others each time. `CallsEndUnlessLooping` therefore speaks
of finitely many calls (`CallsCease`, as of one `try_join_all`); without that, TLC
shows a call overtaken for ever by later ones. Polling and the backend's
answers are assumed only as long as no call is `Looping` at an abandoned marker: such a
call finds every lock free, never returns Pending, and its siblings on the same
thread are not polled any more, whatever their texts. Calls, failures and dropped
futures have no fairness. `statement_cache_stuck` assumes more than the code can count on
(`FairestSpec`: every future polled, every lock fair), so that it is not the
scheduler that keeps its calls from ending.

| Run | Bounds | Shows |
|-|-|-|
| `statement_cache` | 3 tasks, 2 texts, 2 statements, 1 loss | type, one preparation at a time, disjoint maps, settled for ever, refinement of `PreparedOnce`, finitely many calls all end unless one loops at the marker of a lost call |
| `statement_cache_stuck` (violation) | 2 tasks, 1 text, 1 loss | after one failed or dropped preparation the others loop for ever, whatever the scheduler |

Three tasks give a preparer, a waiter and a late caller; two texts a lock that is
contended for another reason; one loss an abandoned marker. The theorems
hold without these bounds.

### UperSequence

State: the bits, the scope (`None`, `OptBitField`, `AllBitField`,
`ExtensibleSequence`, `ExtensibleSequenceEmpty` with the ranges and the countdown of the code), and
the field about to be handled. One action per call of generated code:
`WriteHeader` (write_sequence up to its closure), `WriteField`
(write_bit_field_entry, the extension header when the countdown is over, the open
type), `WriteTail` (the field behind the SEQUENCE), and the same for reading.

| Run | Bounds | Shows |
|-|-|-|
| `uper_sequence_evolution` | all values of all definitions with up to 3 root fields, extensible ones with 2 root fields and up to 3 additions, receivers that know all or fewer | round trip to the last bit, older receivers read what they know, the only refused values |
| `uper_sequence_newer` (violation) | up to 2 additions sent, up to 2 more known | "all further extensible fields are not present" (uper.rs:188) fails |
| `uper_sequence_null` (violation) | a NULL in the root of an extensible SEQUENCE | the assertion "Not exhausted" (uper.rs:293) fails |

A field is a bit or nothing, and every kind that the scope treats differently is
there; three additions are needed for one that is known and sent, one that is
known and not sent, one that is not known. The theorems hold without the bounds.

### UperFragments

State: the items written so far, extension flag, determinant or run of units, and
the positions of the loops. An item stands for its bits; a reader that expects
another kind of item, or a run of another size, is `outOfStep`. One action per
iteration of a loop. Arithmetic is that of a build with overflow checks, where a
difference below zero panics (a release build wraps); `as u8` wraps in every
build. `uper_fragments_limits`: twelve SIZE constraints, twenty lengths at the
edges of every form (127, 16K, 64K, 4 MiB), with and without extension marker,
for octet and bit strings, lists, characters and open types. Lengths matter only
through comparisons with these edges. It shows that fragments are in order and
closed, that encoding and decoding are inverse exactly within the stated limits,
and, under weak fairness of the sequential program, that all loops end.

### UperNumbers

State: a range, the Rust type after the parser, generator, attribute and macro,
the value and the bits. Actions: `Generate`, `Compile`, `WriteNumber`,
`ReadNumber`, `WriteVariant`, `ReadVariant`. Octets have two bits in the run (a
constant), so that an `i64` has 16 and TLC's integers hold a `u64`; widths, casts,
sign extension and leading zeros are those of the code, scaled, and every bound
of a type is among the bounds and the values. Length determinants keep their real
bits. `uper_numbers`: 338 ranges at the edges, two builds, 21 values; variants up to 300,
beyond the 64 of the short form. Shows that types hold their ranges, that what is
sent is declared and comes back, and where it does not, and that a peer never
takes one variant for another.

### ProtobufCodec, ProtobufRoundTrip

State: real bytes, the writer's counter and root flag, the reader's level (fields
indexed by tag, counter), and the stack of calls in progress with what each
saved. One action per method of `Writer` and `Reader` and per return of a nested
call. `ProtobufRoundTrip` says what a peer should see (`Seen`), up to which
equality (`ProtobufEq`), and which values the format can carry at all (`Lossless`).
`protobuf_codec`: 344 messages, mandatory and optional components of every kind between
others, all pairs of 16 kinds of neighbours, peers of an older or a newer version, a tag of
two bytes. Both counters are right between any two components, and wrong against
the `.proto` file exactly where `TagsAreCounted` says so (a SET with explicit tags, what
follows a NULL); a value that the format can carry arrives, no other does; reading
ends. `Types` and `Values` are those of the messages and of all their parts;
`AreTypes` and `AreValues` say what generated types and their Rust values are like, and TLC
evaluates them on all 344 messages. Bounds: `MaxKept` elements of a list are remembered, so that the
endless list of lists has finitely many states; numbers below 2^31, the ten bytes
of a varint and a slice that is too small are left out. Fairness: weak, of the
program.

### SchemaResolution, SchemaMeaning

State: the modules, the look-up or the calls in progress as an explicit stack,
what was found, the tags. One action per call and return of `value_reference`,
`definition`, `resolve_tag`, `resolve_type_tag`. `SchemaMeaning` defines the meaning
of names and tags without order: declaring modules reachable through imports, the
least tag of what a type leads to, both as least closed sets. `schema_resolution`: every way in which three
modules import and declare a value and a type, with names, object identifiers,
renamed, clashing, crossed and unknown modules, shared identifiers and double imports; three
types that refer to each other in every way;
SETs with additions. Shows that what is found is what is meant, that tags are those
of the meaning, that components of a SET have the places that the tags promise, and
that the walks end or overflow, the latter only in a ring. `MaxDepth` = 8 exceeds every chain without a ring, so an
overflow means a ring. `UsizeModulus` stands for 2^64. Exempted, and named in the
properties: modules that are not `Identified` (two of one name or identifier, an import
that names another module than it identifies, a name imported twice); for tags also imports of a
module under another name and modules that import what they declare (`Unambiguous`); additions whose
tags do not ascend. The run has schemas that fail without each of these. `AnyModule` is what
the parser can make of a module. Fairness: weak, of the program.

### SqlSchema, SqlStore

`SqlSchema`: `Convert` (one type to its tables, indexes, trigger functions and rules),
`StartWalk`/`WalkGraph` (calls of `walk_graph` as frames), `SortDefinitions`,
`Execute` (the database accepts one statement of the file or rejects it). Names
are words, so that carving to 63 letters is exact. `AtPlace` says where the stable sort by depth puts a
definition. `CreatedAsDeclared` names all that keeps a file from being executed: types in a
circle, long names that are referred to, alternatives that are no columns, tables or indexes
of one name, a trigger function with the name of a table. `SqlStore`: `InsertMessage`
(`insert_with`, `apsql_insert`: references, the row, the entries of lists), `Load`
(`query_with`, `apsql_retrieve`), `Delete` and `DeleteRow` (cascades, triggers and
rules, one row at a time in any order). Clients: `psql`, `apsql`, and `apsql`
without a transaction. PostgreSQL is external: NOT NULL, PRIMARY KEY, CHECK,
REFERENCES, AFTER DELETE triggers, rules. Lists are compared as sets, since no SELECT orders
them. `sql_store`: a struct with a part of every kind (plain, optional, list) for
three orders of declaration, pairs of parts, a type that lists itself, a circle,
choices that cannot be declared, clashing and long names, list entries with the name of a type or
of a trigger function in every order of the types; two messages, which is
what it takes for one to be deleted while the other must stay. `MaxDepth` = 12
exceeds every chain without a circle. Not modelled: numeric widths, CYCLE of
sequences, types imported from other files, an empty optional list (stored like an
absent one), the order in which siblings of one message are inserted
concurrently; and that PostgreSQL folds names without quotes to lower case, so that types whose names
differ in case only (`AB` and `Ab`) have one table: the model tells them apart.

### Tokenizer, TypeReaders, ModelParser, AsnFrontend

`Tokenizer` follows `Tokenizer::parse` with one action per arm of its match and one for
the end of a line; a text is a sequence of lines of characters, a keyword counts as one
letter. `TypeReaders` has the readers from `read_role` down as functions from a place in the
tokens to the set of results (empty for an error, which one is not modelled), in the
recursive structure of the code. `ModelParser` has an action per step of
`Model::try_from` and of its loop over IMPORTS, definitions and values. `AsnFrontend`
composes the two and holds the references: `WordsOf` finds words and comments without
a scan, `ModuleWords` writes a model.

Run `asn_frontend`: every text of up to four characters out of `/ * - . x`, blank and
control character, where all orders of comment marks occur; the words of several
hundred models with every kind of type, bound, size, tag, default and marker; one of them in eight
layouts (comments of both kinds between words, at the ends of lines, inside words);
and every module that comes from three base modules by leaving out, doubling,
exchanging, replacing one word, or by stopping there. `MaxI64` = 7 stands for `i64::MAX`,
which the code treats as "no bound". It shows that tokens are the words of the text, where
they stand; that what is written for a model is read as it; and that a module the parser accepts
has all its names in the model.

What the readers take for less than it says, found while writing the
references and left out of their inputs: `INTEGER (0..MAX)` and `(MIN..i64::MAX)` are no range,
`INTEGER (5)` is refused, so is `SIZE (0..MAX, ...)`; a separator is taken for a bound;
a second or leading `...` and a comma before the closing brace are accepted; a
stray token behind an imported name is dropped; WITH COMPONENTS is dropped;
keywords are found in any case; `""` in a string takes everything up to the next quote,
blanks at the ends of a string are lost, and `--` in one begins a comment; `/*/` is a
complete comment.

### RustNames, RustModel, RustItems, RustDescriptors, RustCodegen

The way of a type through the compiler, which is longer than it looks: ASN.1 type,
Rust type (`convert_asn_to_rust`), item with an attribute (`add_definition`), ASN.1 type again, parsed
from the attribute by the macro, Rust type again, descriptor (`AsnDefWriter`). `RustNames` has the
conversions of names letter by letter, `RustModel` the first conversion with the resolution
of tags that it needs, `RustItems` writing and reading of attributes (their text is
the tree of its words), `RustDescriptors` the descriptors. The actions of `RustCodegen`
are the steps of the converter: `ConvertDefinition`, `ConvertValues`, `AddDefinition`,
`WriteFile`, then for the compiler `ExpandItem`, `NextFile`. The reference is `Meaning`: what a
type says of an encoding (bounds, sizes, presence, defaults, alternatives, root, order of a SET),
straight from the schema; `Effect` is what the descriptors make of it.

Run `rust_codegen`: 5168 schemas of two modules. Every kind of type as definition, component (optional,
tagged, with default, behind the marker), alternative and element, two levels of inline types,
SETs whose tags are in no order, names that differ in case, hyphens and digits, keywords.
The effect is the meaning, or there is no code exactly where `Refusable` says so. The names
that generated code refers to exist, and are those of the schema but for case and
hyphens. Names are short, since the rules look at a letter and its neighbours.

Exempted, and named in the properties: names that have become one (`aB` and `a-b`; a list
of inline types, which defines two items of one name; a field `a-values` beside
constants of `a`), a value of a type whose name is not already one of Rust, an
import of a value. Lost without an effect on the encoding: named numbers of
an optional INTEGER and of bit strings, numbers of ENUMERATED, tags of
definitions that name another type. String literals are one token; one with quotes
would be written unescaped.

## 3. What is proved

`StatementCacheProofs`, for every number of tasks, texts, statements and losses,
from `ConstantsAssumption` (the two "none" values are none, `MaxLosses` is a natural number):

| Theorem | States |
|-|-|
| `TypeCorrect` | `Spec => []TypeOK` |
| `OneAtATime` | `Spec => []OnePreparationAtATime` |
| `Disjoint` | `Spec => []MapsAreDisjoint` |
| `AnswersHold` | a statement that was handed out is the one stored |
| `StatementsStay` | `Spec => StoredForever` |
| `NoSecondRequest` | no request for a text that has its statement |
| `Refinement` | `Spec => PromiseKept`: `StatementCache` implements `PreparedOnce` |

None of these is inductive alone. `IInv` adds: a call that prepares has left its
marker in the slow map (`FillerHasMarker`), without which a second call could find
no entry; a call past the fast lookup missed there (`PastFastMissed`), which holds
since `optimize` needs all calls ended, and without which an insertion could put a
text in both maps; a call about to insert has a statement (`InserterHasStatement`); and
what is being returned is stored (`HeldIsStored`). Each action has a step in the
proof. The refinement maps the store to whichever map has the statement and the
turn to the task that prepares; each step of the cache is a step of the promise
or leaves it unchanged.

`TokenizerProofs`, for every text and every set of control characters, from `TextsAssumption`
(texts are lines of characters; `ControlAssumption`, that the arms of the match exclude
each other, is not needed):

| Theorem | States |
|-|-|
| `TokenizerTyped` | `TokenizerSpec => []TokenizerTypeOK`: the place stays in the text, at most one token grows |
| `TokensStayLocated` | `TokenizerSpec => []TokensLocated`: a token is where its first character is, tokens are in order |

`TokensLocated` is not inductive: it says nothing of where the reader is. `IInv` adds that
all tokens, the growing one included, begin before that place (`Passed`). A step either
leaves the tokens seen (`SeenKept`), appends one at the reader's place (`AppendPlaced`), or lets the last one grow
behind its first character (`GrowPlaced`).

`UperFragmentsProofs`, for every length, SIZE and extension marker, from `CasesAssumption`:
lengths and bounds are natural numbers (`usize`, `u64`) or missing; a missing bound is no
number (`None`); `Unlimited`, the `i64::MAX` that replaces it, is above all lengths and
above 64K:

| Theorem | States |
|-|-|
| `SlicesStayInBounds` | `Spec => []TypeOK`: the loops count no unit the value does not have; items are legal; the reader stays within them |
| `FragmentsStayInOrder` | `Spec => []FragmentsInOrder` |
| `LimitsAreExact` | `Spec => []ReversibleWithinLimits`: what is read back is the value, exactly where `Reversible` says so |

`FragmentsInOrder` speaks of a finished encoding; `IInv` adds what holds between two
turns of a loop. `WriterInv`: the units written end where the writer counts, and only
multiples of 16K were announced, without which a last piece could leave a gap or a
length come before a multiple. `FlagInv`: the extension bit is there when the reader
begins, and nothing is read before. The lemmas follow the code: `FirstWritten` what
stands before a loop, `NextWritten` one turn of it, both from what one determinant
(`DeterminantAnnounces`) and one run of units (`AppendUnits`) do to a stream. An octet
string ends complete since below 4 MiB `UnboundedItemAnnounces` at least one block; at
4 MiB it announces none, which is the finding.

`ReversibleWithinLimits` speaks of the last state only, and of what `IInv` knows nothing:
how the determinants in the stream and the runs of the reader fit. `ReadingInv` adds it,
phase by phase. What is written (`ShapeOf`): the first piece is there as computed; in
the loop of an octet string every determinant has the units it announces behind it
and another determinant behind these (`Pieced`), the last one is a length below 16K
(`Closed`), and of 4 MiB or more the last 4 MiB are never written while below that no
multiple is empty (`Falls`). What was read (`RunsOf`): a reader in its loop is before the next
determinant, with exactly the units before it (`OnItsWay`), or it can no
longer get the value back and `Reversible` is false (`Lost`). Each read of a determinant keeps one of
the two (`OnItsWayArrives`, `LostStaysLost`). The number of units read, a sum over a
sequence, is unrolled by induction (`TotalGrows`). `ReadingInv` was
run through TLC on the cases of `uper_fragments_limits` before it was proved. The assumptions on `NoBound`
and `Unlimited` came up in the proof: with an `Unlimited` below 64K a size
without upper bound would be read within bounds.

`UperSequenceProofs` (types, the layout of a message, the sender, the receiver), for
definitions with any number of fields of any kind and every value of them:

| Theorem | States |
|-|-|
| `TypeCorrect` | `Spec => []TypeOK`: no call leaves a scope the code does not know, or the receiver beyond what was sent |
| `FailsOnlyInconsistentHolds` | `Spec => []FailsOnlyInconsistent` |
| `RoundTripHolds` | `Spec => []RoundTrip`: peers of one definition, to the last bit |
| `KnownFieldsReadHolds` | `Spec => []KnownFieldsRead`: receivers that know fewer additions |

They assume of the definitions (`SchemasAssumption`) that the root is not empty, that
both peers have the same additions as far as both have any, and that no more than 64
are sent (beyond, their number takes another form). All but the first also assume
`NoNullBeforeAdditions`: no NULL in the root of a SEQUENCE that has additions. Without it they are
false, as the run `uper_sequence_null` shows; a definition without additions may
have any NULLs.

None of the three is about one step: presence bits are written late, into bits that
exist, and what a bit means depends on the fields before it. The invariant therefore
gives every message a *layout*: a function `at` with `at[k]` the length after the first `k`
fields, whose differences are the content of a field (`Piece`) and, before the first
addition that is sent, the seven bits of their number and the presence bits
(`Gap`). `Laid(at, b, k)` says what `b` is when `k` fields are written: the pieces at their
places, the root's presence bits in order from `Flag` on (`MarksLaid`; `Marks(k)` counts the optional
fields), the extension bit, number and presence bits (`ExtensionLaid`).
`WriterInv` says that such a layout exists at every call, and what the scope is then
(`WriterScope`: where the next presence bit goes, how many calls are left until the
extension header). `ReaderInv` says that the receiver is at `at[k]` with `k` fields read and the
scope of `ReaderScope`, which counts the presence bits of its own, maybe shorter, definition.
The lemmas follow the arms of the code: `RootFieldWritten`, `FirstAdditionWritten`,
`AdditionWritten`, `NullWritten`, and for reading `RootEntryRead`, `FirstAdditionRead`,
`AdditionRead`, `AbsentAdditionRead`, `NullRead`. Overwriting a presence bit disturbs neither
piece nor other mark since places never meet (`PiecePlace`, `MarkPlace`, `BitFieldPlace`).
`NothingBetween` shows that the additions a receiver does not know take no bits when none of
them was sent, the condition of `KnownFieldsRead`.

`InductionBySet`, which each module that needs it proves from the well-foundedness of the natural
numbers, is induction about a set instead of a predicate: with it `NumberAtUnrolls` shows that the recursive function `NumberAt` satisfies its recursion.
`WriterInv` and `ReaderInv` ask for a function on all natural numbers; TLC checked them
with the layout computed field by field, on the definitions of `uper_sequence_evolution`.

`ProtobufCodecProofs`, for all types and values, nested to any depth, from `TypesAssumption`
(an OPTIONAL is never one of an OPTIONAL, the components of a SET have distinct tags),
`ValuesAssumption` (a value is one of its type) and `MessagesAssumption` (messages are made
of both):

| Theorem | States |
|-|-|
| `TypeCorrect` | `Spec => []TypeOK` |
| `TagsStayCounted` | `Spec => []TagsAreCounted`: writer and reader count what the components visited use up, whatever is nested in them |

`TagsAreCounted` speaks of the call on top, when it is between two components. All that is
nested in a component happens meanwhile, with counters of its own, so the invariant
is about the stack. Of the writer (`AreWriting`): what each call saved, plus one, is what the
components visited by the call below it have used up; as long as the root flag is set
only lists wait, which is why the root may write an ENUMERATED untagged and restore the
counter without adding one. `Owed` says the same of the call on top. Of the reader (`AreReading`): the level that each call saved is
right for the call below once any value is returned (`Leaves`, `Gets`), and a value being read is
one that the call below asked for (`Awaits`), through `read_opt` where it is optional: a
NULL found there counts no tag and an absent one does. Two lemmas carry the
count: `UsedByOneMore` (a further component adds what it uses up) and `Answered` (a call that
counts this leaves its caller with the right counter). `VisitedPlace` shows that the order of a SET's
components reaches each of them once, `VarintUnrolls` that the recursive function `Varint` satisfies its
recursion and yields bytes. TLC checked `Inv` on the 344 messages of `protobuf_codec`, with
two values in place of any in `Leaves`.

`UperNumbersProofs`, for octets of any width (eight bits among them), every set of ranges with
bounds that are an `i64` or missing, all values and all variants, from `NumbersAssumption`
(a lower bound is not above the upper one, there is at least one variant in the root, and peers
know at least the root):

| Theorem | States |
|-|-|
| `TypeCorrect` | `Spec => []TypeOK`: the number read is one of the Rust type, no cast changes it |
| `RangesAreHeld` | `Spec => []TypesHoldTheirRange`: model, generator and macro agree on a type, and it holds the range |
| `SentNumbersArriveHolds` | `Spec => []SentNumbersArrive`, with the exceptions that the property names |
| `VariantsAgreeHolds` | `Spec => []VariantsAgree` |

The run can only have words of 16 bits; these theorems are about the 64 of the code. `Inv` says
what each phase left behind: the Rust type is what the conversions of the declared range come
to (`Converted`), and the bits are such that reading them finds the number or the index
(`NumberOnItsWay`, `VariantOnItsWay`). The work is in the lemmas about the operators, which
have no state. From below: a power of two doubles with its exponent (`Doubled`: the library knows it as the
size of a set of subsets), the bits of a number make it again (`NumberOfBits`), behind a flag or
a length too (`BehindBit`, `OctetsArrive`), in as few octets as leading zeros or repeated signs leave
(`NonNegativeArrives`, `UnconstrainedArrives`). From above: the smallest type that `Holding`
picks holds both bounds (`HoldsUnsigned`, `HoldsSigned`), and `AllConvert` follows each of the
shapes a range can have through parser, generator, attribute and macro: whatever compiles holds
its range, and a range with a lower bound compiles and stays the declared one. `CastBack` is the
way of a `u64` through an `i64`. The two sides meet in `NumberArrives`; `IndexArrives` is the same for variants. TLC checked `Inv` on
the 46308 states of `uper_numbers`.

`SchemaResolutionProofs`, for any number of modules with any definitions, values and imports that
a parser can make (`ProgramsAssumption`: the programs consist of `AnyModule`, a CHOICE has an
alternative in its root, numbers are below the modulus), and every `MaxDepth`:

| Theorem | States |
|-|-|
| `TypeCorrect` | `Spec => []TypeOK`: the stack keeps its limit, an answer is there only while tags are asked for |
| `NamesAreFoundAsDeclared` | `Spec => []FoundAsDeclared` |
| `TagsAreAsMeant` | `Spec => []TagsAsMeant` |

The properties speak of what was found; the walks are in between. `ResolveInv` says of a
search that the module it has come to leads to the same declarations as the one that it
began in (`LeadsOn`), and that a value is searched for only if there is no such item. That
an import keeps this (`DeclaredThere`) needs the module found to be the one meant (`ModelIsMeant`), which is false
of modules that are not `Identified`: the proof failed there, TLC showed why, and the property, which
had exempted less, now names all of it. `TagInv` says of the calls of
the TagResolver that each is for what the call below it asks for (`Answers`, `Goal`): a name, in the module that the import
leads to, or behind an import that has no tag to give; the alternatives of a CHOICE that
are through, none of them dangling, with the least of their tags (`LeastSoFar`). A returned
tag is one that the goal means (`Means`). The three moves of the stack are shown to keep
this once (`GotoKeeps`, `PushKeeps`, `ReturnKeeps`), each action then only that its call fits.
The lemmas about the meaning carry the rest: what a type leads to is the least
closed set (`BehindIs`, `BehindIsLeast`), so an untagged definition is as good as its type
(`ReferenceUntagged`), a CHOICE as its alternatives (`ChoiceMeans`), and a name means the
same wherever it leads to the same (`ReferenceElsewhere`). Rings need no exception: a tag is
claimed only of a call that returns. TLC checked both parts of the invariant on the 68028 states of
`schema_resolution`.

`SqlSchemaProofs`, for any set of schemas and every room on the stack, from `SchemasAssumption`
(names refer to types of the schema, the parts of a type differ in name, a tuple has one) and
`DepthAssumption` (the stack holds more calls than there are types):

| Theorem | States |
|-|-|
| `Created` | `SchemaSpec => []CreatedAsDeclared`: the walk ends and every statement finds what it needs, unless one of the reasons named is there |

`CreatedInv` follows the phases. Of the conversion: every definition so far is the table of one
type, the entries of a list, or something that belongs to a table next to it (`Placed`; one lemma for each
kind of type, together `Converted`). Of the walk: a definition that the walk has
started at is `Settled`, that is all it needs is deeper or a call is on the way that will put it
deeper, or there is a call for it. When no call is left, everything is deeper than what needs it, and
sorting makes the file `Ordered`; `Ranked` shows that a strict total order gives
each element a place of its own, `PlacedAgain` that nothing is lost. That the walk ends needs a bound on the depth:
`Level` counts the types above a type, what is needed is on a higher level (`LevelRises`) unless
types are in a circle, and no level exceeds the stack (`LevelBounded`). Of the execution: a definition
`Fits` when its tables are there and its name is new, which holds in an ordered file (`FitsWhenClear`), and
a file in which all fit has no circle, no clash of relations and no unsupported alternative
(`FitsOnlyClear`). Names are the other half: that nothing more is carved from a carved name
(`CarvedOnce`), so a definition is found under the name it has.

The attempt showed three faults. The property had not exempted the clash in which the
table of list entries is taken for a type of that name (the walk does not end, though no types are in a
circle), nor a trigger function with the name of a table; TLC confirmed both on schemas now among those of
`sql_store`. And `Carved` was wrong about a single word of more than 63 letters, of which the
code keeps one. The exemption of `FunctionNamedAsTable` from overflow is for names in general; names
from ASN.1, without underlines, do not come to it.

Only model-checked: liveness and `ENABLED` (out of the prover's reach), the order of SET
components (`ComponentsAsPromised`: sorting by `SetToSortSeq` is not defined in a way the
prover can use), and the remaining protobuf, SQL, parser and code generation properties.
`ProtobufRoundTrip`, `SqlStore`, `TypeReaders` and the `Rust` modules use recursive
operators, as trees of types ask for, which the prover does not take.

## 4. What the project found

Listed with quotations under "findings". Each property states the exact limits,
so that it holds of the code and would fail if they moved.

- *Cache.* A failed or dropped preparation leaves its marker for ever; later calls for
  that text never end, nor return to their executor.
- *UPER sequences.* A receiver that knows more additions than were sent takes content for presence
  bits; unknown additions that were sent are not skipped; NULL is not counted as
  a field; a later addition without the first is refused, one with gaps is not.
- *UPER lengths.* From 16K on lists, strings and open types are not fragmented; bit
  strings only in part; from 4 MiB the count of blocks wraps; a bounded range from
  64K takes the lower bound off twice.
- *UPER numbers.* Ranges wider than i64 panic or lose values; a range of one value
  is not checked; MIN is taken for 0.
- *Protobuf.* A list in a CHOICE loses elements, a NULL alternative fails, a list of lists is
  read for ever; a present optional NULL before a component that uses no tag sets
  the counts apart.
- *Schema.* The two walks differ where a module imports a name it declares or
  modules are renamed; additions can reorder a SET; rings overflow the stack.
- *Code generation.* A marker behind a field with an escaped name stops the
  compilation; `SEQUENCE {...}` panics the generator after other files were written; a default of
  octets is written in a form that the macro refuses.
- *SQL.* The asynchronous client cannot load what stands behind a list; CHOICE
  loads with few kinds of alternatives only; equal elements and the order of a list
  are lost; NULL cannot be loaded; types that refer to each other in a circle
  overflow the generator, and so does a type with the name of a list's entries; long names
  break lists and triggers.

Noted while reading, without a property: ENUMERATED and CHOICE are indexed in the
order of declaration, explicit numbers are not used; a u64 above i64::MAX goes out as a
negative number; DEFAULT additions are not wrapped in an open type by
`with_buffer`; an open type of NULL has length 0.

## 5. Not modelled, and what is left

Order of work so far: the cache with its proofs, since it is the only concurrent part; UPER
sequences and lengths; protobuf; names and tags; numbers; SQL; tokenizer
and parser; Rust code generation; proofs about the tokenizer, the fragments, sequences,
protobuf, numbers, names and tags, and the order of the SQL file.

Not modelled: hand-over of caches (moves of owned values), the `println` writer (layout), the protobuf
model and its `.proto` text (a conversion without state; its numbers of tags are in `TagsAreCounted`),
reading and writing of files, getters and setters in generated code, attributes
that only a programmer writes, dispatch of the descriptor traits.

Worth doing next:

1. `BitCopy`: the bulked bit copy of `slice.rs` against the bit-by-bit one, for all
   offsets and lengths of a few octets.
2. Deeper nesting in `UperSequence`: an extensible SEQUENCE inside an addition, and
   truncated messages.
