---------------------------- MODULE UperFragments ----------------------------
(***************************************************************************)
(* Length determinants and fragmentation in UPER: write_octetstring,       *)
(* write_bitstring, write_length_determinant and their readers in          *)
(* src/src/io/per/unaligned/mod.rs, and what src/src/syn/io/uper.rs makes  *)
(* of them: "elements" are SEQUENCE OF and SET OF, "characters" the strings *)
(* with a fixed number of bits per character, "open" the content of an     *)
(* extension addition or of an extension alternative of a CHOICE.          *)
(*                                                                         *)
(* The encoding is a sequence of items instead of bits: the extension bit, *)
(* a length determinant, a run of units (octets or bits) of the value.  A  *)
(* reader that expects a determinant where units are, or a run of another  *)
(* size, takes the bits of one thing for another: it is "out of step", and *)
(* what it returns depends on the value's content and on what follows it.  *)
(*                                                                         *)
(* Arithmetic is that of a build with overflow checks: an unsigned         *)
(* subtraction below zero panics.  The cast `as u8` wraps in every build.  *)
(***************************************************************************)
EXTENDS Integers, Sequences

LENGTH_127 == 127
LENGTH_16K == 16384
LENGTH_64K == 65536
MAX_FRAGMENTS == 4
MIN_FRAGMENT_SIZE == LENGTH_16K
MAX_FRAGMENTS_SIZE == LENGTH_16K * MAX_FRAGMENTS
U8 == 256

CONSTANTS
    Cases,      \* what is encoded: [kind, min, max, extensible, len, valid]
    NoBound,    \* a missing SIZE bound
    Unlimited   \* stands for i64::MAX, above every length of Cases

ASSUME CasesAssumption ==
    /\ NoBound \notin Int
    /\ Unlimited \in Nat /\ Unlimited >= LENGTH_64K
    /\ \A c \in Cases :
           /\ c.kind \in {"octets", "bits", "elements", "characters", "open"}
           /\ c.kind = "open" => c.min = NoBound /\ c.max = NoBound /\ ~c.extensible
           /\ c.len \in Nat /\ c.len < Unlimited
           /\ c.min \in Nat \cup {NoBound} /\ c.max \in Nat \cup {NoBound}
           /\ c.extensible \in BOOLEAN /\ c.valid \in BOOLEAN
           /\ ~c.valid => c.kind = "characters"

VARIABLES
    case,     \* the member of Cases being encoded
    stream,   \* the items written
    phase,    \* what happens next
    written,  \* units that the writer counts as written
    at,       \* items read
    got       \* runs of units read

vars == <<case, stream, phase, written, at, got>>

Smaller(a, b) == IF a < b THEN a ELSE b
OrElse(bound, default) == IF bound = NoBound THEN default ELSE bound

Flag(b) == [type |-> "extension", set |-> b]
Run(from, n) == [type |-> "units", from |-> from, to |-> from + n]

\* Writing no units leaves no trace.
Units(from, n) == IF n = 0 THEN <<>> ELSE <<Run(from, n)>>

-----------------------------------------------------------------------------
(* write_length_determinant *)

\* 11.9.4.2: bounds given, and at least one of them 64K or open.
WideBounds(lb, ub) ==
    (lb # NoBound \/ ub # NoBound) /\ OrElse(ub, Unlimited) >= LENGTH_64K

NarrowBounds(lb, ub) == ub # NoBound /\ ub < LENGTH_64K

\* The determinant of n units, as items; empty for a fixed size.
\* A wide one has its lower bound taken off twice.
Determinant(lb, ub, n) ==
    IF WideBounds(lb, ub)
    THEN IF lb = ub THEN <<>>
         ELSE <<[type |-> "constrained", n |-> n - OrElse(lb, 0) - OrElse(lb, 0)]>>
    ELSE IF NarrowBounds(lb, ub)
    THEN <<[type |-> "constrained", n |-> n - OrElse(lb, 0)]>>
    ELSE IF n < LENGTH_16K
    THEN <<[type |-> "length", n |-> n]>>
    ELSE <<[type |-> "multiple",
            n |-> Smaller((n \div LENGTH_16K) % U8, MAX_FRAGMENTS)]>>

\* An unsigned subtraction below zero: a panic of a build with overflow checks.
Underflows(det) ==
    \E i \in DOMAIN det : det[i].type = "constrained" /\ det[i].n < 0

\* How many units the determinant announces: all of them unless it is a
\* multiple of 16K.
Announced(det, n) ==
    IF det # <<>> /\ det[1].type = "multiple" THEN det[1].n * LENGTH_16K ELSE n

IsFragment(det) == det # <<>> /\ det[1].type = "multiple"

-----------------------------------------------------------------------------
Lower == OrElse(case.min, 0)
Upper == OrElse(case.max, Unlimited)
OutOfRange == case.len < Lower \/ case.len > Upper

\* Lists and strings of characters have no special case for a fixed size.
FixedBelow64K ==
    /\ case.kind \notin {"elements", "characters"}
    /\ case.min # NoBound /\ case.min = case.max /\ Upper < LENGTH_64K

ExtensionFlag == IF case.extensible THEN <<Flag(OutOfRange)>> ELSE <<>>

Init ==
    /\ case \in Cases
    /\ stream = <<>>
    /\ phase = "write"
    /\ written = 0
    /\ at = 0
    /\ got = <<>>

\* A size that is not allowed: SizeNotInRange.
RefuseSize ==
    /\ phase = "write"
    /\ OutOfRange /\ ~case.extensible
    /\ phase' = "writeError"
    /\ UNCHANGED <<case, stream, written, at, got>>

\* ensure_string_valid: a character that is not in the character set.
RefuseCharacter ==
    /\ phase = "write"
    /\ ~case.valid
    /\ phase' = "writeError"
    /\ UNCHANGED <<case, stream, written, at, got>>

\* SIZE(0) is encoded as nothing.
WriteEmpty ==
    /\ phase = "write"
    /\ case.kind = "octets" /\ Upper = 0 /\ ~OutOfRange
    /\ stream' = ExtensionFlag
    /\ phase' = "read"
    /\ UNCHANGED <<case, written, at, got>>

\* The determinant that comes first, if any.
FirstDeterminant ==
    IF OutOfRange THEN Determinant(NoBound, NoBound, case.len)
    ELSE IF FixedBelow64K THEN <<>>
    ELSE Determinant(case.min, case.max, case.len)

WritePanics ==
    /\ phase = "write"
    /\ case.valid
    /\ OutOfRange => case.extensible
    /\ Underflows(FirstDeterminant)
    /\ phase' = "panic"
    /\ UNCHANGED <<case, stream, written, at, got>>

\* write_octetstring up to its loop; with_buffer and write_choice hand it the
\* content of an open type.
WriteOctets ==
    /\ phase = "write"
    /\ case.kind \in {"octets", "open"}
    /\ OutOfRange => case.extensible
    /\ OutOfRange \/ Upper # 0
    /\ ~Underflows(FirstDeterminant)
    /\ LET first == Announced(FirstDeterminant, case.len)
       IN  /\ stream' = ExtensionFlag \o FirstDeterminant \o Units(0, first)
           /\ written' = first
    /\ phase' = IF IsFragment(FirstDeterminant) THEN "writeOctets" ELSE "read"
    /\ UNCHANGED <<case, at, got>>

\* Mutant: the loop ends with the last unit, without a closing determinant.
WriteOctetFragmentUnclosed ==
    /\ phase = "writeOctets"
    /\ LET remaining == case.len - written
           det == Determinant(NoBound, NoBound, remaining)
           size == Announced(det, remaining)
       IN  /\ stream' = stream \o det \o Units(written, size)
           /\ written' = written + size
           /\ phase' = IF size < MIN_FRAGMENT_SIZE \/ size = remaining
                       THEN "read" ELSE phase
    /\ UNCHANGED <<case, at, got>>

\* Mutant: an empty fragment is tried again.
WriteOctetFragmentRetries ==
    /\ phase = "writeOctets"
    /\ LET remaining == case.len - written
           det == Determinant(NoBound, NoBound, remaining)
           size == Announced(det, remaining)
       IN  IF size = 0 THEN UNCHANGED <<stream, written, phase>>
           ELSE /\ stream' = stream \o det \o Units(written, size)
                /\ written' = written + size
                /\ phase' = IF size < MIN_FRAGMENT_SIZE THEN "read" ELSE phase
    /\ UNCHANGED <<case, at, got>>

\* One turn of its loop, which ends after the first piece below 16K.
WriteOctetFragment ==
    /\ phase = "writeOctets"
    /\ LET remaining == case.len - written
           det == Determinant(NoBound, NoBound, remaining)
           size == Announced(det, remaining)
       IN  /\ stream' = stream \o det \o Units(written, size)
           /\ IF size < MIN_FRAGMENT_SIZE
              THEN phase' = "read" /\ UNCHANGED written
              ELSE written' = written + size /\ UNCHANGED phase
    /\ UNCHANGED <<case, at, got>>

\* Mutant: the first fragment is always counted as 64K.
WriteBitsUncapped ==
    /\ phase = "write"
    /\ case.kind = "bits"
    /\ OutOfRange => case.extensible
    /\ ~Underflows(FirstDeterminant)
    /\ stream' = ExtensionFlag \o FirstDeterminant \o Units(0, MAX_FRAGMENTS_SIZE)
    /\ written' = MAX_FRAGMENTS_SIZE
    /\ phase' = IF case.len > MAX_FRAGMENTS_SIZE THEN "writeBits" ELSE "read"
    /\ UNCHANGED <<case, at, got>>

\* write_bitstring up to its loop: the size the determinant announces is not
\* looked at.
WriteBits ==
    /\ phase = "write"
    /\ case.kind = "bits"
    /\ OutOfRange => case.extensible
    /\ ~Underflows(FirstDeterminant)
    /\ stream' = ExtensionFlag \o FirstDeterminant
                    \o Units(0, Smaller(MAX_FRAGMENTS_SIZE, case.len))
    /\ written' = Smaller(MAX_FRAGMENTS_SIZE, case.len)
    /\ phase' = IF case.len > MAX_FRAGMENTS_SIZE THEN "writeBits" ELSE "read"
    /\ UNCHANGED <<case, at, got>>

\* One turn of its loop: whole multiples of 16K only.
WriteBitFragment ==
    /\ phase = "writeBits"
    /\ LET rest == Smaller(case.len - written, MAX_FRAGMENTS_SIZE)
           size == rest - (rest % MIN_FRAGMENT_SIZE)
       IN  /\ stream' = stream \o Determinant(NoBound, NoBound, size)
                               \o Units(written, size)
           /\ written' = written + size
           /\ phase' = IF size < MIN_FRAGMENT_SIZE THEN "read" ELSE phase
    /\ UNCHANGED <<case, at, got>>

\* write_extensible_bit_and_length_or_err drops the size of the fragment, and
\* everything follows.
WriteWhole ==
    /\ OutOfRange => case.extensible
    /\ ~Underflows(FirstDeterminant)
    /\ stream' = ExtensionFlag \o FirstDeterminant \o Units(0, case.len)
    /\ written' = case.len
    /\ phase' = "read"
    /\ UNCHANGED <<case, at, got>>

WriteElements == phase = "write" /\ case.kind = "elements" /\ WriteWhole
WriteCharacters == phase = "write" /\ case.kind = "characters" /\ case.valid /\ WriteWhole

-----------------------------------------------------------------------------
(* Reading *)

\* The next item is of one of these types.
NextIs(i, types) == i < Len(stream) /\ stream[i + 1].type \in types

\* The form of determinant read_length_determinant(lb, ub) expects.
FormOf(lb, ub) ==
    IF WideBounds(lb, ub) \/ NarrowBounds(lb, ub)
    THEN {"constrained"} ELSE {"length", "multiple"}

\* Mutant: the lower bound is not added back.
LengthOfUnbased(lb, ub, item) ==
    IF item.type = "multiple" THEN item.n * LENGTH_16K ELSE item.n

\* The length a determinant item stands for.
LengthOf(lb, ub, item) ==
    CASE item.type = "constrained" ->
            item.n + OrElse(lb, 0) + (IF WideBounds(lb, ub) THEN OrElse(lb, 0) ELSE 0)
      [] item.type = "length"   -> item.n
      [] item.type = "multiple" -> item.n * LENGTH_16K

\* Where the reader is after n units at item i, -1 if it is out of step.
AfterUnits(i, n) ==
    IF n = 0 THEN i
    ELSE IF NextIs(i, {"units"}) /\ stream[i + 1].to - stream[i + 1].from = n
    THEN i + 1
    ELSE -1

\* The determinant and the units that follow it: how many they are and the
\* item they end at, which is -1 when the reader is out of step.
Piece(i, lb, ub) ==
    IF lb = ub /\ WideBounds(lb, ub)
    THEN [n |-> Lower, end |-> AfterUnits(i, Lower)]
    ELSE IF NextIs(i, FormOf(lb, ub))
    THEN LET n == LengthOf(lb, ub, stream[i + 1])
         IN  [n |-> n, end |-> AfterUnits(i + 1, n)]
    ELSE [n |-> 0, end |-> -1]

\* The item index after the extension bit, and what the bit says.
AfterFlag == IF case.extensible THEN 1 ELSE 0
Extended == case.extensible /\ stream[1].set

FirstPiece ==
    IF Extended THEN Piece(AfterFlag, NoBound, NoBound)
    ELSE IF FixedBelow64K THEN [n |-> Upper, end |-> AfterUnits(AfterFlag, Upper)]
    ELSE Piece(AfterFlag, case.min, case.max)

\* SIZE(0)
ReadEmpty ==
    /\ phase = "read"
    /\ case.kind = "octets" /\ Upper = 0 /\ ~Extended
    /\ at' = AfterFlag
    /\ phase' = "done"
    /\ UNCHANGED <<case, stream, written, got>>

\* read_octetstring and read_bitstring up to their loops.
ReadFirst ==
    /\ phase = "read"
    /\ case.kind \in {"octets", "bits"}
    /\ case.kind = "octets" => Upper # 0 \/ Extended
    /\ IF FirstPiece.end = -1
       THEN phase' = "outOfStep" /\ UNCHANGED <<at, got>>
       ELSE /\ at' = FirstPiece.end
            /\ got' = <<FirstPiece.n>>
            /\ phase' = IF /\ FirstPiece.n >= LENGTH_16K
                           /\ Extended \/ ~FixedBelow64K
                        THEN "readFragments" ELSE "done"
    /\ UNCHANGED <<case, stream, written>>

\* One determinant and what it announces, and no further fragment.
ReadWhole ==
    /\ IF FirstPiece.end = -1
       THEN phase' = "outOfStep" /\ UNCHANGED <<at, got>>
       ELSE at' = FirstPiece.end /\ got' = <<FirstPiece.n>> /\ phase' = "done"
    /\ UNCHANGED <<case, stream, written>>

ReadElements == phase = "read" /\ case.kind = "elements" /\ ReadWhole
ReadCharacters == phase = "read" /\ case.kind = "characters" /\ ReadWhole
ReadOpenType == phase = "read" /\ case.kind = "open" /\ ReadWhole

Total(runs) ==
    LET sum[i \in 0 .. Len(runs)] == IF i = 0 THEN 0 ELSE sum[i - 1] + runs[i]
    IN  sum[Len(runs)]

\* byte_len - (bit_len + ext_bit_len + 7) / 8 of read_bitstring
BufferUnderflows(n) == case.kind = "bits" /\ n > 0

\* One turn of their loops.
ReadFragment ==
    /\ phase = "readFragments"
    /\ LET piece == Piece(at, NoBound, NoBound)
       IN  IF piece.end = -1
           THEN phase' = "outOfStep" /\ UNCHANGED <<at, got>>
           ELSE IF BufferUnderflows(piece.n)
           THEN phase' = "panic" /\ UNCHANGED <<at, got>>
           ELSE /\ at' = piece.end
                /\ got' = Append(got, piece.n)
                /\ phase' = IF piece.n < LENGTH_16K THEN "done" ELSE phase
    /\ UNCHANGED <<case, stream, written>>

Next ==
    \/ RefuseSize
    \/ RefuseCharacter
    \/ WriteEmpty
    \/ WritePanics
    \/ WriteOctets
    \/ WriteOctetFragment
    \/ WriteBits
    \/ WriteBitFragment
    \/ WriteElements
    \/ WriteCharacters
    \/ ReadEmpty
    \/ ReadFirst
    \/ ReadElements
    \/ ReadCharacters
    \/ ReadOpenType
    \/ ReadFragment

Spec == Init /\ [][Next]_vars

\* A sequential program: it takes its next step as long as there is one.
FairSpec == Spec /\ WF_vars(Next)

-----------------------------------------------------------------------------
(* Properties *)

Ended == {"writeError", "panic", "outOfStep", "done"}

Item == [type : {"extension"}, set : BOOLEAN]
        \cup [type : {"units"}, from : Nat, to : Nat]
        \cup [type : {"constrained", "length", "multiple"}, n : Nat]

\* Every variable holds a value of its type; `written` never passes the length
\* of the value, so no slice of write_octetstring is out of bounds.
TypeOK ==
    /\ case \in Cases
    /\ stream \in Seq(Item)
    /\ phase \in Ended \cup {"write", "writeOctets", "writeBits", "read", "readFragments"}
    /\ written \in 0 .. case.len
    /\ at \in 0 .. Len(stream)
    /\ got \in Seq(Nat)

UnitsAt(s, i) == i \in 1 .. Len(s) /\ s[i].type = "units"
LengthAt(s, i) == i \in 1 .. Len(s) /\ s[i].type = "length"
MultipleAt(s, i) == i \in 1 .. Len(s) /\ s[i].type = "multiple"

\* The last units between the items i and k, both excluded.
LastUnits(s, i, k) == UnitsAt(s, i) /\ i < k /\ \A j \in i + 1 .. k - 1 : ~UnitsAt(s, j)

\* The units before item k are the first n of the value, in order, without gap
\* or overlap, if those before the last of them are.
ReachedBefore(s, k, n) ==
    \/ n = 0 /\ \A j \in 1 .. k - 1 : ~UnitsAt(s, j)
    \/ \E i \in 1 .. k - 1 : LastUnits(s, i, k) /\ s[i].to = n

InOrder(s) == \A k \in 1 .. Len(s) : UnitsAt(s, k) => ReachedBefore(s, k, s[k].from)

Written == phase \in {"read", "readFragments", "done"}

\* The fragments written are one prefix of the value, in order, without gap or
\* overlap (the slices src[written..written + size] of both write loops), and an
\* octet string below 4 MiB is written to its end.  Its length is given in
\* multiples of 16K, each at most 64K, closed by a length below 16K: what lets
\* the loop of read_octetstring find the end.
FragmentsInOrder ==
    LET complete == /\ case.kind \in {"octets", "open"}
                    /\ case.len > 0 /\ case.len < U8 * LENGTH_16K
                    /\ Written
    IN  /\ InOrder(stream)
        /\ complete => ReachedBefore(stream, Len(stream) + 1, case.len)
        /\ \A i \in 1 .. Len(stream) :
              /\ MultipleAt(stream, i) =>
                    /\ stream[i].n <= MAX_FRAGMENTS
                    /\ complete => \E j \in i + 1 .. Len(stream) :
                                      MultipleAt(stream, j) \/ LengthAt(stream, j)
              /\ LengthAt(stream, i) =>
                    /\ stream[i].n < LENGTH_16K
                    /\ \A j \in i + 1 .. Len(stream) :
                          ~MultipleAt(stream, j) /\ ~LengthAt(stream, j)

\* The reader gives back what was written, to the last item, without panic.
ReadsBack ==
    /\ phase \notin {"panic", "outOfStep"}
    /\ phase = "done" => Total(got) = case.len /\ at = Len(stream)

\* No size within the bounds: written without them, or refused.
Unbounded == OutOfRange \/ (case.min = NoBound /\ case.max = NoBound)

\* A determinant within a range from 64K on, which takes the lower bound off
\* twice.
TakenTwice == ~OutOfRange /\ WideBounds(case.min, case.max) /\ case.len < 2 * Lower

\* What the code does encode reversibly.  Octet strings: below 16K, in a fixed
\* size below 64K, and below 4 MiB if unbounded.  Bit strings: the first two.
\* Lists and characters: within bounds, and unbounded below 16K or as one fragment that
\* leaves nothing over.  Open types: below 16K.
Reversible ==
    \/ ~case.valid \/ (OutOfRange /\ ~case.extensible)
    \/ /\ case.kind \in {"octets", "bits"}
       /\ \/ ~OutOfRange /\ FixedBelow64K
          \/ case.len < LENGTH_16K /\ ~TakenTwice
          \/ case.kind = "octets" /\ Unbounded /\ case.len < U8 * LENGTH_16K
    \/ /\ case.kind \in {"elements", "characters"}
       /\ IF Unbounded
          THEN \/ case.len < LENGTH_16K
               \/ case.len \in {k * LENGTH_16K : k \in 1 .. MAX_FRAGMENTS}
          ELSE ~TakenTwice \/ case.min = case.max
    \/ case.kind = "open" /\ case.len < LENGTH_16K

\* Encoding and decoding are inverse within these limits, whichever of the
\* three forms of determinant a size takes, and nowhere else: behind each limit
\* the value is lost, cut, read out of step, or the program panics.
ReversibleWithinLimits == phase \in Ended => (ReadsBack <=> Reversible)

\* Both write loops and both read loops end, the ones that go wrong too: a
\* fragment of no units does not repeat.
LoopsEnd == <>(phase \in Ended)
=============================================================================
