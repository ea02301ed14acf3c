---------------------------- MODULE ProtobufCodec ----------------------------
(***************************************************************************)
(* ProtobufWriter and ProtobufReader (src/src/syn/io/proto_write.rs and    *)
(* proto_read.rs) on the wire format of src/src/io/protobuf/mod.rs.        *)
(*                                                                         *)
(* Generated code walks a value and calls one method of the Writer, and    *)
(* later of the Reader, per component.  Neither side is told a tag number: *)
(* each counts.  The writer counts what it wrote, in a counter that every  *)
(* nested message saves and restores; the reader indexes the fields of the *)
(* message it is in and counts through them.  The calls in progress are    *)
(* the stack "calls", its head the innermost one.                          *)
(*                                                                         *)
(* Bytes are bytes, so that what a reader takes for a tag, a length or a   *)
(* value is what it would find there.  Numbers are below 2^31 and tags and *)
(* lengths fit the varints that the bounds of TLC's integers allow: the    *)
(* limit of ten bytes to a varint and the widths of integers are not       *)
(* modelled.  State.format of the writer is only ever written, and left    *)
(* out.  All string types and OCTET STRING are the kind "bytes".           *)
(***************************************************************************)
EXTENDS Integers, Sequences, FiniteSets, SequencesExt

CONSTANTS
    Messages,  \* a sequence of [type, readAs, value]: what is written, and the
               \* type it is read as (another one for a peer of another version)
    Types,     \* the types of messages, and those they are made of
    Values,    \* the values of messages and of their parts: <<type, value>>
    MaxKept    \* elements that a list being read remembers

ASSUME MaxKeptAssumption == MaxKept \in Nat

Byte == 0..255
LeafKinds == {"number", "signed", "boolean", "bytes", "bits"}

(* Generated types: an OPTIONAL is never one of an OPTIONAL, and the       *)
(* components of a SET have distinct tags.                                 *)
AreTypes(types) ==
    \A t \in types :
        /\ t.kind \in LeafKinds \cup
              {"enumerated", "null", "optional", "list", "sequence", "set", "choice"}
        /\ t.kind \in {"sequence", "set", "choice"} => t.of \in Seq(types)
        /\ t.kind \in {"list", "optional"} => t.of \in types
        /\ t.kind = "optional" => t.of.kind # "optional"
        /\ t.kind = "set" =>
              /\ t.root \in Nat
              /\ t.tags \in [DOMAIN t.of -> Nat]
              /\ \A i, j \in DOMAIN t.of : t.tags[i] = t.tags[j] => i = j

\* What the Rust types of these can hold.
AreValues(values, types) ==
    \A p \in values :
        LET t == p[1]
            v == p[2]
        IN  /\ p = <<t, v>> /\ t \in types
            /\ t.kind \in {"number", "enumerated"} => v \in Nat
            /\ t.kind = "signed" => v \in Int
            /\ t.kind = "boolean" => v \in BOOLEAN
            /\ t.kind = "bytes" => v \in Seq(Byte)
            /\ t.kind = "bits" =>
                  v[1] \in Seq(Byte) /\ v[2] \in Nat /\ v[2] <= 8 * Len(v[1])
            /\ t.kind = "optional" => v = <<>> \/ <<t.of, v[1]>> \in values
            /\ t.kind = "list" =>
                  v \in Seq(Range(v)) /\ \A i \in DOMAIN v : <<t.of, v[i]>> \in values
            /\ t.kind \in {"sequence", "set"} =>
                  \A i \in DOMAIN t.of : <<t.of[i], v[i]>> \in values
            /\ t.kind = "choice" =>
                  v[1] \in Nat /\ v[1] + 1 \in DOMAIN t.of /\ <<t.of[v[1] + 1], v[2]>> \in values

ASSUME TypesAssumption == AreTypes(Types)
ASSUME ValuesAssumption == AreValues(Values, Types)
ASSUME MessagesAssumption ==
    /\ {<<Messages[i].type, Messages[i].value>> : i \in DOMAIN Messages} \subseteq Values
    /\ {Messages[i].readAs : i \in DOMAIN Messages} \subseteq Types

VARIABLES
    message,     \* the one of Messages that this behaviour is about
    phase,       \* "write", "read", then "done", "failed" or "panicked"
    calls,       \* the calls in progress
    buffer,      \* ProtobufWriter.buffer, later ProtobufReader.source
    tagCounter,  \* ProtobufWriter.state.tag_counter
    isRoot,      \* ProtobufWriter.is_root
    level,       \* ProtobufReader.state
    result       \* what the last call of the reader returned: <<>> or <<value>>

writer == <<buffer, tagCounter, isRoot>>
reader == <<level, result>>
vars == <<message, phase, calls, writer, reader>>

-----------------------------------------------------------------------------
(* The wire format *)

VarInt == 0
Fixed64 == 1
LengthDelimited == 2
Fixed32 == 5
Formats == {VarInt, Fixed64, LengthDelimited, Fixed32}

Varint[v \in Nat] ==
    IF v > 127 THEN <<(v % 128) + 128>> \o Varint[v \div 128] ELSE <<v>>

\* Mutant: a tag always takes one byte.
TagBytesShort(tag, format) == <<tag * 8 + format>>

TagBytes(tag, format) == Varint[tag * 8 + format]
LengthPrefixed(bytes) == Varint[Len(bytes)] \o bytes

\* write_sint32, write_sint64: small absolute values become small numbers.
ZigZag(v) == IF v >= 0 THEN 2 * v ELSE -2 * v - 1
UnZigZag(n) == IF n % 2 = 0 THEN n \div 2 ELSE -((n + 1) \div 2)

\* bit_len.to_be_bytes(), for lengths below 2^24.
BigEndian64(n) ==
    [i \in 1..8 |-> IF i < 6 THEN 0 ELSE (n \div 256 ^ (8 - i)) % 256]
FromBigEndian64(bytes) == bytes[6] * 65536 + bytes[7] * 256 + bytes[8]

FormatOf(kind) ==
    IF kind \in {"bytes", "bits"} THEN LengthDelimited ELSE VarInt

\* What a leaf writes behind its tag.
Payload(kind, v) ==
    CASE kind = "number" -> Varint[v]
      [] kind = "signed" -> Varint[ZigZag(v)]
      [] kind = "boolean" -> IF v THEN <<1>> ELSE <<0>>
      [] kind = "bytes" -> LengthPrefixed(v)
      [] kind = "bits" ->
           LengthPrefixed(SubSeq(v[1], 1, (v[2] + 7) \div 8) \o BigEndian64(v[2]))

\* Ranges of the source are half open and start at 0.
Slice(range) == SubSeq(buffer, range[1] + 1, range[2])

\* read_varint on the source between two positions: <<>> where the bytes end
\* too early, else <<[value, next]>>.
VarintAt[from \in Nat, to \in Nat] ==
    IF from >= to THEN <<>>
    ELSE IF buffer[from + 1] < 128
    THEN <<[value |-> buffer[from + 1], next |-> from + 1]>>
    ELSE LET rest == VarintAt[from + 1, to]
         IN  IF rest = <<>> THEN <<>>
             ELSE <<[rest[1] EXCEPT !.value = @ * 128 + buffer[from + 1] - 128]>>

\* read_tag: <<>> where there is none, or one of an unknown format.
TagAt[from \in Nat, to \in Nat] ==
    LET tag == VarintAt[from, to]
    IN  IF tag = <<>> \/ tag[1].value % 8 \notin Formats THEN <<>>
        ELSE <<[tag |-> tag[1].value \div 8, format |-> tag[1].value % 8,
                next |-> tag[1].next]>>

\* read_content_offset_and_length, for the content behind a tag: its range,
\* or <<>> where there is no number.
ContentAt[from \in Nat, to \in Nat, format \in Formats] ==
    LET number == VarintAt[from, to]
    IN  CASE format = Fixed64 -> <<<<from, from + 8>>>>
          [] format = Fixed32 -> <<<<from, from + 4>>>>
          [] number = <<>> -> <<>>
          [] format = VarInt -> <<<<from, number[1].next>>>>
          [] format = LengthDelimited ->
               <<<<number[1].next, number[1].next + number[1].value>>>>

\* index_enclosed: the fields in a range; the last one is Unreadable where
\* reading a tag or a length fails.
Unreadable == [tag |-> 0, format |-> VarInt, range |-> <<0, 0>>]

FieldsAt[from \in Nat, to \in Nat] ==
    LET tag == TagAt[from, to]
        content == ContentAt[tag[1].next, to, tag[1].format]
    IN  IF from >= to THEN <<>>
        ELSE IF tag = <<>> \/ content = <<>> THEN <<Unreadable>>
        ELSE <<[tag |-> tag[1].tag, format |-> tag[1].format, range |-> content[1]]>>
             \o FieldsAt[content[1][2], to]

Readable(fields) == \A i \in DOMAIN fields : fields[i] # Unreadable

-----------------------------------------------------------------------------
(* The order in which generated code visits the components of a SEQUENCE   *)
(* or SET: the walker sorts those of a SET by tag, extensions last.        *)

VisitedBefore(type, i, j) ==
    LET extended(k) == k > type.root
    IN  \/ ~extended(i) /\ extended(j)
        \/ extended(i) = extended(j) /\ type.tags[i] < type.tags[j]

\* The declared position of the component visited as the n-th.
Visited(type, n) ==
    IF type.kind = "sequence" THEN n
    ELSE CHOOSE i \in DOMAIN type.of :
           Cardinality({j \in DOMAIN type.of : VisitedBefore(type, j, i)}) = n - 1

\* What was visited in this order, in the order of the declaration.
Declared(type, got) ==
    [i \in DOMAIN type.of |->
        got[CHOOSE n \in DOMAIN type.of : Visited(type, n) = i]]

Init ==
    /\ \E i \in DOMAIN Messages : message = Messages[i]
    /\ phase = "write"
    /\ calls = <<[does |-> "write", type |-> message.type, value |-> message.value]>>
    /\ buffer = <<>>
    /\ tagCounter = 0
    /\ isRoot = TRUE
    /\ level = [root |-> TRUE, range |-> <<0, 0>>]
    /\ result = <<>>

Top == Head(calls)
Within == Tail(calls)

Does(what) == calls # <<>> /\ Top.does = what

-----------------------------------------------------------------------------
(* The writer *)

Writes(kinds) == phase = "write" /\ Does("write") /\ Top.type.kind \in kinds

Write(type, value) == [does |-> "write", type |-> type, value |-> value]

\* write_number, write_boolean, the strings and write_bit_string.
WriteLeaf ==
    /\ Writes(LeafKinds)
    /\ buffer' = buffer \o TagBytes(tagCounter + 1, FormatOf(Top.type.kind))
                        \o Payload(Top.type.kind, Top.value)
    /\ tagCounter' = tagCounter + 1
    /\ calls' = Within
    /\ UNCHANGED <<message, phase, isRoot, reader>>

\* write_enumerated: the bare index where it is the whole message.
WriteEnumerated ==
    /\ Writes({"enumerated"})
    /\ buffer' = buffer
                 \o (IF isRoot THEN <<>> ELSE TagBytes(tagCounter + 1, VarInt))
                 \o Varint[Top.value]
    /\ tagCounter' = IF isRoot THEN tagCounter ELSE tagCounter + 1
    /\ calls' = Within
    /\ UNCHANGED <<message, phase, isRoot, reader>>

\* Mutant: NULL as the empty bytes that the .proto file declares.
WriteNullAsBytes ==
    /\ Writes({"null"})
    /\ buffer' = buffer \o TagBytes(tagCounter + 1, LengthDelimited) \o <<0>>
    /\ tagCounter' = tagCounter + 1
    /\ calls' = Within
    /\ UNCHANGED <<message, phase, isRoot, reader>>

\* write_null: nothing, and no tag is used up.
WriteNull ==
    /\ Writes({"null"})
    /\ calls' = Within
    /\ UNCHANGED <<message, phase, writer, reader>>

\* write_opt: an absent value uses a tag up, a present one does what it does.
WriteOpt ==
    /\ Writes({"optional"})
    /\ IF Top.value = <<>>
       THEN tagCounter' = tagCounter + 1 /\ calls' = Within
       ELSE /\ calls' = <<Write(Top.type.of, Top.value[1])>> \o Within
            /\ UNCHANGED tagCounter
    /\ UNCHANGED <<message, phase, buffer, isRoot, reader>>

\* write_set_or_sequence up to the call of f: a nested message goes to a
\* buffer of its own.  The call remembers what it has taken from the writer.
WriteSetOrSequence ==
    /\ Writes({"sequence", "set"})
    /\ calls' = <<[does |-> "components", type |-> Top.type, value |-> Top.value,
                   next |-> 1, root |-> isRoot, outer |-> buffer,
                   counter |-> tagCounter]>> \o Within
    /\ isRoot' = FALSE
    /\ tagCounter' = 0
    /\ buffer' = IF isRoot THEN buffer ELSE <<>>
    /\ UNCHANGED <<message, phase, reader>>

\* One line of the generated write_seq.
WriteComponent ==
    /\ phase = "write" /\ Does("components")
    /\ Top.next <= Len(Top.type.of)
    /\ LET i == Visited(Top.type, Top.next)
       IN  calls' = <<Write(Top.type.of[i], Top.value[i]),
                      [Top EXCEPT !.next = @ + 1]>> \o Within
    /\ UNCHANGED <<message, phase, writer, reader>>

\* Mutant: the counter of the nested message goes on in the outer one.
EndComponentsUnrestored ==
    /\ phase = "write" /\ Does("components")
    /\ Top.next > Len(Top.type.of)
    /\ isRoot' = Top.root
    /\ IF Top.root
       THEN UNCHANGED <<tagCounter, buffer>>
       ELSE /\ tagCounter' = tagCounter + 1
            /\ buffer' = Top.outer \o TagBytes(Top.counter + 1, LengthDelimited)
                                   \o LengthPrefixed(buffer)
    /\ calls' = Within
    /\ UNCHANGED <<message, phase, reader>>

\* write_set_or_sequence after the call of f.
EndComponents ==
    /\ phase = "write" /\ Does("components")
    /\ Top.next > Len(Top.type.of)
    /\ isRoot' = Top.root
    /\ IF Top.root
       THEN tagCounter' = Top.counter /\ UNCHANGED buffer
       ELSE /\ tagCounter' = Top.counter + 1
            /\ buffer' = Top.outer \o TagBytes(Top.counter + 1, LengthDelimited)
                                   \o LengthPrefixed(buffer)
    /\ calls' = Within
    /\ UNCHANGED <<message, phase, reader>>

\* write_set_or_sequence_of up to its loop.
WriteSetOrSequenceOf ==
    /\ Writes({"list"})
    /\ calls' = <<[does |-> "elements", of |-> Top.type.of, todo |-> Top.value,
                   counter |-> tagCounter]>> \o Within
    /\ UNCHANGED <<message, phase, writer, reader>>

\* Mutant: every element under a tag of its own.
WriteElementCounted ==
    /\ phase = "write" /\ Does("elements") /\ Top.todo # <<>>
    /\ calls' = <<Write(Top.of, Head(Top.todo)), [Top EXCEPT !.todo = Tail(@)]>>
                \o Within
    /\ UNCHANGED <<message, phase, writer, reader>>

\* An element: every one is written with the counter of the first, that is
\* under the same tag.
WriteElement ==
    /\ phase = "write" /\ Does("elements") /\ Top.todo # <<>>
    /\ tagCounter' = Top.counter
    /\ calls' = <<Write(Top.of, Head(Top.todo)), [Top EXCEPT !.todo = Tail(@)]>>
                \o Within
    /\ UNCHANGED <<message, phase, buffer, isRoot, reader>>

\* The list is written and has used one tag up.
EndElements ==
    /\ phase = "write" /\ Does("elements") /\ Top.todo = <<>>
    /\ tagCounter' = Top.counter + 1
    /\ calls' = Within
    /\ UNCHANGED <<message, phase, buffer, isRoot, reader>>

\* write_choice up to the call of write_content: the content's tag is the
\* number of the alternative.
WriteChoice ==
    /\ Writes({"choice"})
    /\ isRoot' = FALSE
    /\ tagCounter' = Top.value[1]
    /\ buffer' = IF isRoot THEN buffer ELSE <<>>
    /\ calls' = <<Write(Top.type.of[Top.value[1] + 1], Top.value[2])>>
                \o (IF isRoot THEN <<>>
                    ELSE <<[does |-> "alternative", outer |-> buffer,
                            counter |-> tagCounter]>>)
                \o Within
    /\ UNCHANGED <<message, phase, reader>>

\* write_choice after the call of write_content, where it is not the root.
EndChoice ==
    /\ phase = "write" /\ Does("alternative")
    /\ tagCounter' = Top.counter + 1
    /\ buffer' = Top.outer \o TagBytes(Top.counter + 1, LengthDelimited)
                           \o LengthPrefixed(buffer)
    /\ calls' = Within
    /\ UNCHANGED <<message, phase, isRoot, reader>>

\* The message is handed to a reader: ProtobufReader::from.
Receive ==
    /\ phase = "write" /\ calls = <<>>
    /\ phase' = "read"
    /\ calls' = <<[does |-> "read", type |-> message.readAs]>>
    /\ level' = [root |-> TRUE, range |-> <<0, Len(buffer)>>]
    /\ UNCHANGED <<message, writer, result>>

-----------------------------------------------------------------------------
(* The reader *)

\* The entries of the level that bear the counted tag in one of the formats.
Counted(lvl, formats) ==
    {i \in DOMAIN lvl.fields :
        lvl.fields[i].tag = lvl.counter /\ lvl.fields[i].format \in formats}

First(positions) == CHOOSE i \in positions : \A j \in positions : i <= j

\* next_tag_range_format_opt: the root is its whole range, again and again.
NextTagRange(lvl, formats) ==
    IF lvl.root THEN <<lvl.range>>
    ELSE IF Counted(lvl, formats) = {} THEN <<>>
    ELSE <<lvl.fields[First(Counted(lvl, formats))].range>>

\* Mutant: the entry stays.
TakenNot(lvl, formats) == lvl

\* The level after it: the entry is consumed.
Taken(lvl, formats) ==
    IF lvl.root \/ Counted(lvl, formats) = {} THEN lvl
    ELSE [lvl EXCEPT !.fields = RemoveAt(@, First(Counted(lvl, formats)))]

IncrementTagCounter(lvl) ==
    IF lvl.root THEN lvl ELSE [lvl EXCEPT !.counter = @ + 1]

Root(range) == [root |-> TRUE, range |-> range]
Enclosed(fields) == [root |-> FALSE, counter |-> 1, fields |-> fields]

OrEmpty(range) == IF range = <<>> THEN <<0, 0>> ELSE range[1]

Reads(kinds) ==
    phase = "read" /\ result = <<>> /\ Does("read") /\ Top.type.kind \in kinds

Read(type) == [does |-> "read", type |-> type]

\* A call ends: with a value, with an error that ends them all, or in a panic.
Return(value) ==
    /\ result' = <<value>>
    /\ calls' = Within
    /\ phase' = IF Within = <<>> THEN "done" ELSE "read"

Stop(how) ==
    /\ phase' = how
    /\ calls' = <<>>
    /\ UNCHANGED result

\* read_number, read_boolean, the strings and read_bit_string: a value that is
\* not there is the default, for a BIT STRING a panic.
ReadLeaf ==
    /\ Reads(LeafKinds)
    /\ LET kind == Top.type.kind
           formats == {FormatOf(kind)}
           bytes == Slice(OrEmpty(NextTagRange(level, formats)))
           range == OrEmpty(NextTagRange(level, formats))
           number == VarintAt[range]
       IN  /\ level' = IncrementTagCounter(Taken(level, formats))
           /\ CASE kind = "bytes" -> Return(bytes)
                [] kind = "bits" ->
                     IF Len(bytes) < 8 THEN Stop("panicked")
                     ELSE Return(<<SubSeq(bytes, 1, Len(bytes) - 8),
                                   FromBigEndian64(SubSeq(bytes, Len(bytes) - 7,
                                                          Len(bytes)))>>)
                [] bytes = <<>> -> Return(IF kind = "boolean" THEN FALSE ELSE 0)
                [] number = <<>> -> Stop("failed")
                [] kind = "number" -> Return(number[1].value)
                [] kind = "signed" -> Return(UnZigZag(number[1].value))
                [] kind = "boolean" -> Return(number[1].value # 0)
    /\ UNCHANGED <<message, writer>>

\* read_enumerated.
ReadEnumerated ==
    /\ Reads({"enumerated"})
    /\ LET range == NextTagRange(level, {VarInt})
           number == IF range = <<>> THEN <<[value |-> 0]>>
                     ELSE VarintAt[range[1]]
       IN  /\ level' = IncrementTagCounter(Taken(level, {VarInt}))
           /\ IF number = <<>> \/ number[1].value >= Top.type.variants
              THEN Stop("failed")
              ELSE Return(number[1].value)
    /\ UNCHANGED <<message, writer>>

\* read_null.
ReadNull ==
    /\ Reads({"null"})
    /\ Return("null")
    /\ UNCHANGED <<message, writer, level>>

\* read_opt: present if the counted tag is there in any format.
ReadOpt ==
    /\ Reads({"optional"})
    /\ IF level.root \/ Counted(level, Formats) # {}
       THEN /\ calls' = <<Read(Top.type.of), [does |-> "some"]>> \o Within
            /\ UNCHANGED <<phase, level, result>>
       ELSE /\ level' = IncrementTagCounter(level)
            /\ Return(<<>>)
    /\ UNCHANGED <<message, writer>>

EndOpt ==
    /\ phase = "read" /\ Does("some") /\ result # <<>>
    /\ Return(result)
    /\ UNCHANGED <<message, writer, level>>

\* read_set_or_sequence up to the call of f.
ReadSetOrSequence ==
    /\ Reads({"sequence", "set"})
    /\ LET range == OrEmpty(NextTagRange(level, {LengthDelimited}))
           outer == IncrementTagCounter(Taken(level, {LengthDelimited}))
           fields == FieldsAt[range]
       IN  IF Readable(fields)
           THEN /\ level' = Enclosed(fields)
                /\ calls' = <<[does |-> "components", type |-> Top.type,
                               got |-> <<>>, next |-> 1, outer |-> outer]>>
                            \o Within
                /\ UNCHANGED <<phase, result>>
           ELSE level' = outer /\ Stop("failed")
    /\ UNCHANGED <<message, writer>>

\* One line of the generated read_seq.
ReadComponent ==
    /\ phase = "read" /\ Does("components")
    /\ Top.next <= Len(Top.type.of)
    /\ calls' = <<Read(Top.type.of[Visited(Top.type, Top.next)]),
                  [Top EXCEPT !.got = @ \o result, !.next = @ + 1]>> \o Within
    /\ result' = <<>>
    /\ UNCHANGED <<message, phase, writer, level>>

ReturnComponents ==
    /\ phase = "read" /\ Does("components")
    /\ Top.next > Len(Top.type.of)
    /\ level' = Top.outer
    /\ Return(Declared(Top.type, Top.got \o result))
    /\ UNCHANGED <<message, writer>>

\* read_set_or_sequence_of up to its loop.
ReadSetOrSequenceOf ==
    /\ Reads({"list"})
    /\ calls' = <<[does |-> "elements", of |-> Top.type.of, got |-> <<>>,
                   outer |-> level]>> \o Within
    /\ UNCHANGED <<message, phase, writer, level, result>>

\* Elements beyond MaxKept are read and forgotten: the loop never looks at them.
Kept(got) == IF Len(got) > MaxKept THEN SubSeq(got, 1, MaxKept) ELSE got

\* The next range under the list's tag becomes the root of an element.
ReadElement ==
    /\ phase = "read" /\ Does("elements")
    /\ NextTagRange(Top.outer, Formats) # <<>>
    /\ level' = Root(NextTagRange(Top.outer, Formats)[1])
    /\ calls' = <<Read(Top.of),
                  [Top EXCEPT !.got = Kept(@ \o result),
                              !.outer = Taken(@, Formats)]>> \o Within
    /\ result' = <<>>
    /\ UNCHANGED <<message, phase, writer>>

ReturnElements ==
    /\ phase = "read" /\ Does("elements")
    /\ NextTagRange(Top.outer, Formats) = <<>>
    /\ level' = IncrementTagCounter(Top.outer)
    /\ Return(Kept(Top.got \o result))
    /\ UNCHANGED <<message, writer>>

\* read_choice up to the call of read_content: one field is taken from the
\* range, and everything behind its tag and length is its content.
ReadChoice ==
    /\ Reads({"choice"})
    /\ LET range == NextTagRange(level, Formats)
           outer == IncrementTagCounter(Taken(level, Formats))
           tag == TagAt[range[1]]
           length == VarintAt[<<tag[1].next, range[1][2]>>]
           delimited == tag[1].format = LengthDelimited
           index == IF tag[1].tag = 0 THEN 0 ELSE tag[1].tag - 1
           field == [tag |-> 1, format |-> tag[1].format,
                     range |-> <<IF delimited THEN length[1].next ELSE tag[1].next,
                                 range[1][2]>>]
       IN  IF \/ range = <<>>
              \/ tag = <<>>
              \/ delimited /\ length = <<>>
              \/ index \notin 0..(Len(Top.type.of) - 1)
           THEN level' = outer /\ Stop("failed")
           ELSE /\ level' = Enclosed(<<field>>)
                /\ calls' = <<Read(Top.type.of[index + 1]),
                              [does |-> "alternative", index |-> index,
                               outer |-> outer]>> \o Within
                /\ UNCHANGED <<phase, result>>
    /\ UNCHANGED <<message, writer>>

ReturnChoice ==
    /\ phase = "read" /\ Does("alternative") /\ result # <<>>
    /\ level' = Top.outer
    /\ Return(<<Top.index, result[1]>>)
    /\ UNCHANGED <<message, writer>>

-----------------------------------------------------------------------------
Ended == phase \in {"done", "failed", "panicked"}

\* The program has the value, or has given up.
Finished == Ended /\ UNCHANGED vars

Next ==
    \/ WriteLeaf \/ WriteEnumerated \/ WriteNull \/ WriteOpt
    \/ WriteSetOrSequence \/ WriteComponent \/ EndComponents
    \/ WriteSetOrSequenceOf \/ WriteElement \/ EndElements
    \/ WriteChoice \/ EndChoice
    \/ Receive
    \/ ReadLeaf \/ ReadEnumerated \/ ReadNull \/ ReadOpt \/ EndOpt
    \/ ReadSetOrSequence \/ ReadComponent \/ ReturnComponents
    \/ ReadSetOrSequenceOf \/ ReadElement \/ ReturnElements
    \/ ReadChoice \/ ReturnChoice
    \/ Finished

Spec == Init /\ [][Next]_vars

\* Writing and reading are sequential code that runs on by itself.
FairSpec == Spec /\ WF_vars(Next)

-----------------------------------------------------------------------------
TypeOK ==
    /\ phase \in {"write", "read", "done", "failed", "panicked"}
    /\ \A i \in DOMAIN calls :
         calls[i].does \in {"write", "read", "components", "elements",
                            "alternative", "some"}
    /\ buffer \in Seq(Byte)
    /\ tagCounter \in Nat
    /\ isRoot \in BOOLEAN
    /\ level.root \in BOOLEAN
    /\ ~level.root => level.counter \in Nat \ {0}
    /\ Len(result) <= 1

IsNull(type) == type.kind = "null"
IsOptionalNull(type) == type.kind = "optional" /\ IsNull(type.of)

\* Of the components visited, with their values in that order, those that use
\* no tag up.
Tagless(type, visited) ==
    {k \in DOMAIN visited :
        LET component == type.of[Visited(type, k)]
        IN  \/ IsNull(component)
            \/ IsOptionalNull(component) /\ visited[k] # <<>>}

\* Between two components the writer has used one tag for each component it
\* has visited, whatever was nested in them and whether they were present,
\* except for the NULLs it has written, and the reader has counted one for each
\* component it has visited, absent ones included, except for the NULLs it has
\* found: they are at the same tag as long as they agree on those (write_null,
\* write_opt, and what the nested calls restore).  That tag is the one
\* ProtobufDefGenerator gives the component in the .proto file, its place in the
\* declaration, unless a NULL was written or a SET is visited in another order.
TagsAreCounted ==
    Does("components") =>
        /\ phase = "write" =>
             LET visited == [k \in 1..(Top.next - 1) |-> Top.value[Visited(Top.type, k)]]
                 nulls == Tagless(Top.type, visited)
             IN  /\ tagCounter = Len(visited) - Cardinality(nulls)
                 /\ Top.next <= Len(Top.type.of) /\ Top.type.kind = "sequence" /\ nulls = {} =>
                      tagCounter + 1 = Visited(Top.type, Top.next)
        /\ phase = "read" =>
             LET visited == Top.got \o result
             IN  level.counter = Len(visited) + 1 - Cardinality(Tagless(Top.type, visited))
=============================================================================
