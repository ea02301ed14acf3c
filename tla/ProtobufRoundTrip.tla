-------------------------- MODULE ProtobufRoundTrip --------------------------
(***************************************************************************)
(* What a value should be for the peer that reads it, and for which values *)
(* ProtobufCodec delivers that: the reference the codec is checked against.*)
(***************************************************************************)
EXTENDS ProtobufCodec

RECURSIVE HasDefault(_), Default(_), ProtobufEq(_, _, _), Seen(_, _, _),
          Lossless(_, _), ReadableAs(_, _), NestedLists(_)

\* What a component that is not on the wire is read as; a CHOICE cannot be
\* left out, and a BIT STRING had better not be.
HasDefault(type) ==
    IF type.kind \in {"sequence", "set"}
    THEN \A i \in DOMAIN type.of : HasDefault(type.of[i])
    ELSE type.kind \notin {"choice", "bits"}

Default(type) ==
    CASE type.kind \in {"number", "signed", "enumerated"} -> 0
      [] type.kind = "boolean" -> FALSE
      [] type.kind = "null" -> "null"
      [] type.kind \in {"sequence", "set"} ->
           [i \in DOMAIN type.of |-> Default(type.of[i])]
      [] OTHER -> <<>>

\* The equality of src/src/io/protobuf/peq.rs: an absent OPTIONAL equals one
\* that holds the default.
ProtobufEq(type, a, b) ==
    CASE type.kind = "optional" ->
           IF a = <<>> \/ b = <<>>
           THEN \A v \in {(a \o b)[i] : i \in DOMAIN (a \o b)} :
                    HasDefault(type.of) /\ v = Default(type.of)
           ELSE ProtobufEq(type.of, a[1], b[1])
      [] type.kind = "list" ->
           /\ Len(a) = Len(b)
           /\ \A i \in DOMAIN a : ProtobufEq(type.of, a[i], b[i])
      [] type.kind = "choice" ->
           a[1] = b[1] /\ ProtobufEq(type.of[a[1] + 1], a[2], b[2])
      [] type.kind \in {"sequence", "set"} ->
           \A i \in DOMAIN type.of : ProtobufEq(type.of[i], a[i], b[i])
      [] OTHER -> a = b

\* A value as the peer sees it: components it does not know are gone, those
\* the writer does not know have their default.
Seen(type, readAs, value) ==
    CASE type.kind = "optional" \/ type.kind = "list" ->
           [i \in DOMAIN value |-> Seen(type.of, readAs.of, value[i])]
      [] type.kind = "choice" ->
           <<value[1], Seen(type.of[value[1] + 1], readAs.of[value[1] + 1], value[2])>>
      [] type.kind \in {"sequence", "set"} ->
           [i \in DOMAIN readAs.of |->
               IF i \in DOMAIN type.of
               THEN Seen(type.of[i], readAs.of[i], value[i])
               ELSE Default(readAs.of[i])]
      [] OTHER -> value

\* What the peer adds has a default.
ReadableAs(type, readAs) ==
    CASE type.kind \in {"optional", "list"} -> ReadableAs(type.of, readAs.of)
      [] type.kind = "choice" ->
           \A i \in DOMAIN type.of : i \in DOMAIN readAs.of
                                     /\ ReadableAs(type.of[i], readAs.of[i])
      [] type.kind \in {"sequence", "set"} ->
           \A i \in DOMAIN readAs.of :
               IF i \in DOMAIN type.of THEN ReadableAs(type.of[i], readAs.of[i])
               ELSE HasDefault(readAs.of[i])
      [] OTHER -> TRUE

\* An optional NULL is present and the next component that uses a tag up leaves
\* its tag unused.  The writer has not counted the NULL, the reader finds no tag,
\* takes the NULL for absent and counts it: from there on they count apart.
CountsApart(type, value) ==
    \E k, m \in DOMAIN type.of :
        LET of(n) == type.of[Visited(type, n)]
            present(n) == value[Visited(type, n)] # <<>>
            tagless(n) == IsNull(of(n)) \/ (IsOptionalNull(of(n)) /\ present(n))
        IN  /\ k < m
            /\ IsOptionalNull(of(k)) /\ present(k)
            /\ \A n \in k..(m - 1) : tagless(n)
            /\ of(m).kind \in {"optional", "list"} /\ ~present(m)

\* The values that the wire format can carry.  Inside a CHOICE there must be
\* exactly one field, so neither NULL nor a list of another length than one;
\* a list in a list has no field of its own; a list of NULLs has no fields.
Lossless(type, value) ==
    CASE type.kind = "optional" ->
           value = <<>> \/ Lossless(type.of, value[1])
      [] type.kind = "list" ->
           /\ type.of.kind \in {"list", "null"} => value = <<>>
           /\ \A i \in DOMAIN value : Lossless(type.of, value[i])
      [] type.kind = "choice" ->
           LET alternative == type.of[value[1] + 1]
           IN  /\ alternative.kind # "null"
               /\ alternative.kind = "list" => Len(value[2]) = 1
               /\ Lossless(alternative, value[2])
      [] type.kind \in {"sequence", "set"} ->
           /\ ~CountsApart(type, value)
           /\ \A i \in DOMAIN type.of : Lossless(type.of[i], value[i])
      [] OTHER -> TRUE

NestedLists(type) ==
    CASE type.kind = "list" -> type.of.kind = "list" \/ NestedLists(type.of)
      [] type.kind = "optional" -> NestedLists(type.of)
      [] type.kind \in {"choice", "sequence", "set"} ->
           \E i \in DOMAIN type.of : NestedLists(type.of[i])
      [] OTHER -> FALSE

-----------------------------------------------------------------------------
AsSeen ==
    /\ phase = "done"
    /\ ProtobufEq(message.readAs, result[1],
                  Seen(message.type, message.readAs, message.value))

\* A value that the wire format can carry is read as it was written, up to the
\* equality of protobuf, also by a peer whose type has fewer or further
\* components, if the further ones have a default.
PeersUnderstand ==
    /\ Ended
    /\ Lossless(message.type, message.value)
    /\ ReadableAs(message.type, message.readAs)
    => AsSeen

\* And no other value is, except that what is read after the counts have come
\* apart may be equal by chance: it is lost, with an error or without one.
OthersAreLost ==
    /\ Ended
    /\ message.type = message.readAs
    /\ AsSeen
    => \/ Lossless(message.type, message.value)
       \/ message.type.kind = "sequence" /\ CountsApart(message.type, message.value)

\* Reading ends, unless the type has lists directly in lists: the reader takes
\* the inner list's range for a root that always has another element.
ReadingEnds == ~NestedLists(message.type) ~> Ended
=============================================================================
