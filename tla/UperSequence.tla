---------------------------- MODULE UperSequence ----------------------------
(***************************************************************************)
(* The UPER encoding of a SEQUENCE (or SET) with OPTIONAL, DEFAULT and     *)
(* extension fields: Scope, UperWriter and UperReader of                   *)
(* src/src/syn/io/uper.rs.  A message                                      *)
(*     SEQUENCE { inner Inner, tail BOOLEAN }                              *)
(* is written field by field by a sender and then read field by field by a *)
(* receiver whose definition of Inner may have more or fewer extension     *)
(* additions.  Every value is a BOOLEAN (one bit) or NULL (none), which    *)
(* keeps the bits small and leaves the bookkeeping of the presence bits    *)
(* as it is.                                                               *)
(***************************************************************************)
EXTENDS Naturals, Sequences, FiniteSets

CONSTANTS
    Schemas,  \* definitions of Inner: [root, ext, peerExt, extensible]
    Absent,   \* no value for an OPTIONAL field
    Null      \* the value of a NULL field

(* Kinds of fields: BOOLEAN, NULL, BOOLEAN OPTIONAL (what an extension     *)
(* addition without OPTIONAL becomes, too) and BOOLEAN DEFAULT FALSE.      *)
RootKinds == {"bool", "null", "opt", "def"}
ExtKinds == {"opt", "def"}

(* A definition of the peer differs in the additions it has, never in      *)
(* those that both have.  More than 64 additions would be counted in the   *)
(* other form of write_normally_small_non_negative_whole_number, which is  *)
(* not modelled.                                                           *)
ASSUME SchemasAssumption ==
    \A s \in Schemas :
        /\ s.root \in Seq(RootKinds) /\ s.root # <<>>
        /\ s.ext \in Seq(ExtKinds) /\ s.peerExt \in Seq(ExtKinds)
        /\ s.extensible \/ (s.ext = <<>> /\ s.peerExt = <<>>)
        /\ \A i \in DOMAIN s.ext \cap DOMAIN s.peerExt : s.ext[i] = s.peerExt[i]
        /\ Len(s.ext) <= 64

ASSUME AbsentAssumption == Absent \notin {0, 1}

VARIABLES
    schema,   \* the definitions in use
    value,    \* the value of Inner, one entry per field of the sender
    tail,     \* the field after Inner
    bits,     \* BitBuffer: the bits written (write_position = Len(bits))
    phase,    \* what happens next
    scope,    \* UperWriter::scope, then UperReader::scope, inside Inner
    field,    \* fields of Inner processed so far
    pos,      \* Bits::pos of the receiver
    got,      \* the fields of Inner read so far
    gotTail   \* the tail read

vars == <<schema, value, tail, bits, phase, scope, field, pos, got, gotTail>>

BYTE_LEN == 8
LENGTH_16K == 16384
MAX_FRAGMENTS == 4

ValuesOf(kind) ==
    CASE kind = "null" -> {Null}
      [] kind = "opt"  -> {Absent, 0, 1}
      [] OTHER         -> {0, 1}

IsOpt(kind) == kind \in {"opt", "def"}

\* write_default leaves out the default value, which is 0 here.
Present(kind, v) == IF kind = "def" THEN v # 0 ELSE v # Absent

\* What the field is when nothing was sent for it.
WhenAbsent(kind) == IF kind = "def" THEN 0 ELSE Absent

\* STD_OPTIONAL_FIELDS
Optionals(s) == Cardinality({i \in DOMAIN s.root : IsOpt(s.root[i])})

SenderFields == schema.root \o schema.ext
ReceiverFields == schema.root \o schema.peerExt

-----------------------------------------------------------------------------
(* Scope *)

OptBitField(start, end) == [type |-> "OptBitField", start |-> start, end |-> end]
AllBitField(start, end) == [type |-> "AllBitField", start |-> start, end |-> end]
ExtensibleSequence(extPos, start, end, calls, n) ==
    [type |-> "ExtensibleSequence", bit_pos |-> extPos, start |-> start,
     end |-> end, calls_until_ext_bitfield |-> calls,
     number_of_ext_fields |-> n]
ExtensibleSequenceEmpty == [type |-> "ExtensibleSequenceEmpty"]
NoScope == [type |-> "None"]

Exhausted(s) == s.type \in {"ExtensibleSequenceEmpty", "None"} \/ s.start = s.end

EncodeAsOpenType(s) == s.type \in {"AllBitField", "ExtensibleSequenceEmpty"}

TakeBit(s) == [s EXCEPT !.start = @ + 1]
CountCall(s) == [s EXCEPT !.calls_until_ext_bitfield = @ - 1]

-----------------------------------------------------------------------------
(* Bits *)

\* Mutant: the bits are not masked.
ToBitsUnmasked(n, width) == [i \in 1 .. width |-> n \div 2^(width - i)]

ToBits(n, width) == [i \in 1 .. width |-> (n \div 2^(width - i)) % 2]

Bit(b) == IF b THEN 1 ELSE 0

\* with_write_position_at(p, write_bit): a bit at or beyond the write
\* position is overwritten by what is written next.
Put(b, p, x) == IF p < Len(b) THEN [b EXCEPT ![p + 1] = x] ELSE b

\* write_normally_small_non_negative_whole_number, below 64
SmallNumber(n) == <<0>> \o ToBits(n, 6)

\* with_buffer of an open type: the octets of the value written on its own,
\* after their number (one octet for a BOOLEAN).
OpenType(x) == <<0>> \o ToBits(1, 7) \o <<x>> \o ToBits(0, BYTE_LEN - 1)

SliceLen == ((Len(bits) + BYTE_LEN - 1) \div BYTE_LEN) * BYTE_LEN

BitAt(p) == IF p < Len(bits) THEN bits[p + 1] ELSE 0

NumberAt(p, width) ==
    LET n[i \in 0 .. width] ==
            IF i = 0 THEN 0 ELSE 2 * n[i - 1] + BitAt(p + i - 1)
    IN  n[width]

\* Bits::set_pos
Clamp(p) == IF p < Len(bits) THEN p ELSE Len(bits)

\* read_bit at p ends with EndOfStream at the end of the bits, a read of
\* several bits at the end of the slice.
BitReadable(p) == p < Len(bits)
Readable(p, width) == p + width <= SliceLen

-----------------------------------------------------------------------------
(* Writing *)

\* Mutant: any later addition is accepted.
ConsistentAlways(present) == TRUE

\* After a first extension addition that was left out no other may be given.
Consistent(present) == ~present

\* Scope::write_into_field: what becomes of the bits and of the scope.
\* `ok` is false for ExtensionFieldsInconsistent.
WriteEntry(isOpt, present) ==
    CASE scope.type = "AllBitField" \/ (scope.type = "OptBitField" /\ isOpt) ->
            [ok |-> TRUE, bits |-> Put(bits, scope.start, Bit(present)),
             scope |-> TakeBit(scope)]
      [] scope.type = "OptBitField" /\ ~isOpt ->
            [ok |-> TRUE, bits |-> bits, scope |-> scope]
      [] scope.type = "ExtensibleSequence"
            /\ scope.calls_until_ext_bitfield = 0 ->
            LET n == scope.number_of_ext_fields
                flagged == Put(bits, scope.bit_pos, Bit(present))
                counted == flagged \o SmallNumber(n - 1)
                mapped == counted \o [i \in 1 .. n |-> 1]
            IN  [ok |-> TRUE,
                 bits |-> IF present THEN mapped ELSE flagged,
                 scope |-> IF present
                           THEN AllBitField(Len(counted) + 1, Len(mapped))
                           ELSE ExtensibleSequenceEmpty]
      [] scope.type = "ExtensibleSequence"
            /\ scope.calls_until_ext_bitfield # 0 ->
            [ok |-> TRUE,
             bits |-> IF isOpt THEN Put(bits, scope.start, Bit(present)) ELSE bits,
             scope |-> CountCall(IF isOpt THEN TakeBit(scope) ELSE scope)]
      [] scope.type = "ExtensibleSequenceEmpty" ->
            [ok |-> Consistent(present), bits |-> bits, scope |-> scope]

\* The bits of a present value: write_opt goes through with_buffer, as
\* write_boolean does; write_default writes the value itself.
Content(kind, v, s) ==
    IF kind # "def" /\ EncodeAsOpenType(s) THEN OpenType(v) ELSE <<v>>

Init ==
    /\ schema \in Schemas
    /\ value \in {v \in [DOMAIN SenderFields -> {Absent, Null, 0, 1}] :
                    \A i \in DOMAIN v : v[i] \in ValuesOf(SenderFields[i])}
    /\ tail \in {0, 1}
    /\ bits = <<>>
    /\ phase = "write"
    /\ scope = NoScope
    /\ field = 0
    /\ pos = 0
    /\ got = <<>>
    /\ gotTail = Absent

\* write_sequence up to the first field: the extension bit and a bit for
\* every optional field of the root.
WriteHeader ==
    /\ phase = "write"
    /\ LET e == IF schema.extensible THEN 1 ELSE 0
           end == e + Optionals(schema)
       IN  /\ bits' = [i \in 1 .. end |-> 0]
           /\ scope' = IF schema.extensible
                       THEN ExtensibleSequence(0, e, end, Len(schema.root),
                                               Len(schema.ext))
                       ELSE OptBitField(e, end)
    /\ phase' = "writeFields"
    /\ UNCHANGED <<schema, value, tail, field, pos, got, gotTail>>

\* The writer's handler of the next field.
WriteField ==
    /\ phase = "writeFields"
    /\ field < Len(SenderFields)
    /\ LET kind == SenderFields[field + 1]
           v == value[field + 1]
           entry == WriteEntry(IsOpt(kind), Present(kind, v))
       IN  \/ /\ kind = "null"                                 \* write_null
              /\ field' = field + 1
              /\ UNCHANGED <<bits, scope, phase>>
           \/ /\ kind # "null" /\ entry.ok
              /\ bits' = IF Present(kind, v)
                         THEN entry.bits \o Content(kind, v, entry.scope)
                         ELSE entry.bits
              /\ scope' = entry.scope
              /\ field' = field + 1
              /\ UNCHANGED phase
           \/ /\ kind # "null" /\ ~entry.ok
              /\ phase' = "writeError"
              /\ UNCHANGED <<bits, scope, field>>
    /\ UNCHANGED <<schema, value, tail, pos, got, gotTail>>

\* The scope of Inner is popped and the tail written.
WriteTail ==
    /\ phase = "writeFields"
    /\ field = Len(SenderFields)
    /\ bits' = Append(bits, tail)
    /\ phase' = "read"
    /\ field' = 0
    /\ UNCHANGED <<schema, value, tail, scope, pos, got, gotTail>>

-----------------------------------------------------------------------------
(* Reading *)

\* The presence bit at p, `ok` false for EndOfStream.
Presence(p, s, at) ==
    [ok |-> BitReadable(Clamp(p)), present |-> BitAt(Clamp(p)) = 1,
     scope |-> s, pos |-> at]

NotPresent(s, at) == [ok |-> TRUE, present |-> FALSE, scope |-> s, pos |-> at]

\* No presence bit belongs to a field that is not optional.
Unmarked(s) == [ok |-> TRUE, present |-> TRUE, scope |-> s, pos |-> pos]

EndOfStream == [ok |-> FALSE, present |-> FALSE, scope |-> scope, pos |-> pos]

\* Mutant: the receiver's number of additions is skipped.
ReadExtHeaderOwn ==
    LET start == pos + 7
        range == AllBitField(start, start + scope.number_of_ext_fields)
        after == Clamp(range.end)
    IN  IF ~(BitReadable(pos) /\ Readable(pos + 1, 6) /\ BitAt(pos) = 0)
        THEN EndOfStream
        ELSE IF scope.number_of_ext_fields > 0
        THEN Presence(start, TakeBit(range), after)
        ELSE NotPresent(range, after)

\* The number of the sender's extension additions and their bit field are
\* skipped; a number above 64 is not modelled.
ReadExtHeader ==
    LET start == pos + 7
        sent == NumberAt(pos + 1, 6) + 1
        range == AllBitField(start, start + scope.number_of_ext_fields)
        after == Clamp(start + sent)
    IN  IF ~(BitReadable(pos) /\ Readable(pos + 1, 6) /\ BitAt(pos) = 0)
        THEN EndOfStream
        ELSE IF scope.number_of_ext_fields > 0
        THEN Presence(start, TakeBit(range), after)
        ELSE NotPresent(range, after)

\* Scope::read_from_field
ReadEntry(isOpt) ==
    CASE scope.type \in {"OptBitField", "AllBitField"}
            /\ scope.start >= scope.end -> NotPresent(scope, pos)
      [] scope.type = "OptBitField" /\ scope.start < scope.end ->
            IF isOpt THEN Presence(scope.start, TakeBit(scope), pos)
                     ELSE Unmarked(scope)
      [] scope.type = "AllBitField" /\ scope.start < scope.end ->
            Presence(scope.start, TakeBit(scope), pos)
      [] scope.type = "ExtensibleSequence"
            /\ scope.calls_until_ext_bitfield = 0 ->
            IF BitAt(scope.bit_pos) = 1
            THEN ReadExtHeader
            ELSE NotPresent(ExtensibleSequenceEmpty, pos)
      [] scope.type = "ExtensibleSequence"
            /\ scope.calls_until_ext_bitfield # 0 ->
            IF isOpt THEN Presence(scope.start, CountCall(TakeBit(scope)), pos)
                     ELSE Unmarked(CountCall(scope))
      [] scope.type = "ExtensibleSequenceEmpty" -> NotPresent(scope, pos)

\* read_length_determinant(None, None): the length and the bits it takes.
LengthAt(p) ==
    IF BitAt(p) = 0 THEN [len |-> NumberAt(p + 1, 7), width |-> 8]
    ELSE IF BitAt(p + 1) = 0 THEN [len |-> NumberAt(p + 2, 14), width |-> 16]
    ELSE LET n == NumberAt(p + 2, 6)
         IN  [len |-> LENGTH_16K * (IF n < MAX_FRAGMENTS THEN n ELSE MAX_FRAGMENTS),
              width |-> 8]

\* Mutant: the padding of an open type is not skipped.
ReadContentUnpadded(kind, s, p) ==
    LET open == kind # "def" /\ EncodeAsOpenType(s)
        at == IF open THEN p + LengthAt(p).width ELSE p
    IN  [ok |-> BitReadable(at), value |-> BitAt(at), pos |-> at + 1]

\* A value of one bit at p, by itself or as open type.  The open type's
\* length bounds nothing while the value is read: read_whole_sub_slice
\* replaces a temporary, and skips to the end of the slice afterwards.
ReadContent(kind, s, p) ==
    LET open == kind # "def" /\ EncodeAsOpenType(s)
        length == LengthAt(p)
        at == IF open THEN p + length.width ELSE p
    IN  [ok |-> (open => BitReadable(p) /\ Readable(p, length.width))
                    /\ BitReadable(at),
         value |-> BitAt(at),
         pos |-> IF open THEN Clamp(at + length.len * BYTE_LEN) ELSE at + 1]

ReadHeader ==
    /\ phase = "read"
    /\ LET e == IF schema.extensible THEN 1 ELSE 0
           end == e + Optionals(schema)
           extended == schema.extensible /\ BitAt(0) = 1
       IN  /\ pos' = end
           /\ scope' = IF extended
                       THEN ExtensibleSequence(0, e, end, Len(schema.root),
                                               Len(schema.peerExt))
                       ELSE OptBitField(e, end)
    /\ phase' = "readFields"
    /\ UNCHANGED <<schema, value, tail, bits, field, got, gotTail>>

\* The reader's handler of the next field.
ReadField ==
    /\ phase = "readFields"
    /\ field < Len(ReceiverFields)
    /\ LET kind == ReceiverFields[field + 1]
           entry == ReadEntry(IsOpt(kind))
           wanted == IsOpt(kind) => entry.present
           content == ReadContent(kind, entry.scope, entry.pos)
       IN  \/ /\ kind = "null"                                  \* read_null
              /\ got' = Append(got, Null)
              /\ field' = field + 1
              /\ UNCHANGED <<scope, pos, phase>>
           \/ /\ kind # "null" /\ entry.ok /\ wanted /\ content.ok
              /\ got' = Append(got, content.value)
              /\ pos' = content.pos
              /\ scope' = entry.scope
              /\ field' = field + 1
              /\ UNCHANGED phase
           \/ /\ kind # "null" /\ entry.ok /\ ~wanted
              /\ got' = Append(got, WhenAbsent(kind))
              /\ pos' = entry.pos
              /\ scope' = entry.scope
              /\ field' = field + 1
              /\ UNCHANGED phase
           \/ /\ kind # "null" /\ (~entry.ok \/ (wanted /\ ~content.ok))
              /\ phase' = "readError"
              /\ UNCHANGED <<got, pos, scope, field>>
    /\ UNCHANGED <<schema, value, tail, bits, gotTail>>

ReadTail ==
    /\ phase = "readFields"
    /\ field = Len(ReceiverFields)
    /\ IF BitReadable(pos)
       THEN gotTail' = BitAt(pos) /\ pos' = pos + 1 /\ phase' = "done"
       ELSE phase' = "readError" /\ UNCHANGED <<gotTail, pos>>
    /\ UNCHANGED <<schema, value, tail, bits, scope, field, got>>

Next ==
    \/ WriteHeader
    \/ WriteField
    \/ WriteTail
    \/ ReadHeader
    \/ ReadField
    \/ ReadTail

Spec == Init /\ [][Next]_vars

-----------------------------------------------------------------------------
(* Properties *)

Phases == {"write", "writeFields", "writeError", "read", "readFields",
           "readError", "done"}

\* Every variable holds a value of its type; the receiver's position never
\* passes the end of the bits.
TypeOK ==
    /\ schema \in Schemas
    /\ tail \in {0, 1}
    /\ bits \in Seq({0, 1})
    /\ phase \in Phases
    /\ scope.type \in {"None", "OptBitField", "AllBitField",
                       "ExtensibleSequence", "ExtensibleSequenceEmpty"}
    /\ field \in 0 .. Len(SenderFields) + Len(ReceiverFields)
    /\ pos \in 0 .. Len(bits)
    /\ Len(got) <= Len(ReceiverFields)
    /\ gotTail \in {0, 1, Absent}

SameDefinition == schema.peerExt = schema.ext
OlderReceiver == Len(schema.peerExt) <= Len(schema.ext)

\* Between peers of one definition every value that can be written is read
\* back, to the last bit ("After reading, there are still bits remaining!").
RoundTrip ==
    SameDefinition =>
        /\ phase # "readError"
        /\ phase = "done" => got = value /\ gotTail = tail /\ pos = Len(bits)

\* A receiver that knows more extension additions finds the further ones
\* absent: "all further extensible fields are not present".
FurtherFieldsAbsent ==
    \A i \in DOMAIN got : i > Len(SenderFields) => got[i] = WhenAbsent(ReceiverFields[i])

Additions == {i \in DOMAIN value : i > Len(schema.root)}
Sent(i) == Present(SenderFields[i], value[i])
Written == phase \in {"read", "readFields", "readError", "done"}

\* Writing fails on one kind of value only, and always on that one: the first
\* extension addition left out and a later one given.  With the first one given
\* the others are written or left out one by one, where the message of
\* ExtensionFieldsInconsistent has "either all or none must be present".
FailsOnlyInconsistent ==
    LET inconsistent == /\ \E i \in Additions : Sent(i)
                        /\ ~Sent(Len(schema.root) + 1)
    IN  /\ phase = "writeError" => inconsistent
        /\ Written => ~inconsistent

\* A receiver that knows fewer extension additions reads all it knows, and stays
\* in step with the field that follows the SEQUENCE unless an addition it does
\* not know was sent: the presence bits of unknown additions are skipped, their
\* open types are not.
KnownFieldsRead ==
    OlderReceiver =>
        /\ field = Len(ReceiverFields) /\ got # <<>> =>
               got = SubSeq(value, 1, Len(ReceiverFields))
        /\ /\ phase = "done"
           /\ \A i \in Additions : i > Len(ReceiverFields) => ~Sent(i)
           => gotTail = tail /\ pos = Len(bits)

\* debug_assert of scope_pushed: a scope that is popped has used all of its
\* presence bits, on both sides.
ScopeExhausted ==
    phase = "read" \/ (phase = "readFields" /\ field = Len(ReceiverFields))
        => Exhausted(scope)
=============================================================================
