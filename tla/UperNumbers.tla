----------------------------- MODULE UperNumbers -----------------------------
(***************************************************************************)
(* Whole numbers in UPER: INTEGER from its range in the schema to its bits *)
(* and back, and the indexes of ENUMERATED and CHOICE.                     *)
(*                                                                         *)
(* An INTEGER passes through five conversions: the parser's range, the     *)
(* Rust type that holds it, the attribute generated code carries, the Rust *)
(* type the macro makes of the attribute, and the encoding.  Words are     *)
(* those of the code with octets of OctetBits bits instead of eight: an    *)
(* i64 has 8 * OctetBits bits and a u8 has OctetBits.                      *)
(***************************************************************************)
EXTENDS Integers, Sequences

CONSTANTS
    OctetBits,  \* bits of an octet
    Ranges,     \* INTEGERs of a schema: [min, max, extensible]
    Values,     \* the numbers a program may want to send
    Variants,   \* ENUMERATED or CHOICE: [std, count, extensible, known]
    Open,       \* MIN, MAX, and a bound that is missing
    Nothing     \* no value (yet)

Octets == 8
WordBits == Octets * OctetBits
I64_MAX == 2^(WordBits - 1) - 1
I64_MIN == -(2^(WordBits - 1))

Bounds == {Open} \cup I64_MIN .. I64_MAX

ASSUME NumbersAssumption ==
    /\ OctetBits \in Nat \ {0}
    /\ Open \notin Int /\ Nothing \notin Int
    /\ Values \subseteq I64_MIN .. 2^WordBits - 1
    /\ Ranges \subseteq [min : Bounds, max : Bounds, extensible : BOOLEAN]
    /\ Variants \subseteq [std : Nat, count : 1 .. 2^WordBits, extensible : BOOLEAN, known : Nat]
    /\ \A r \in Ranges : r.min # Open /\ r.max # Open => r.min <= r.max
    /\ \A v \in Variants :
        /\ v.std \in 1 .. v.count /\ v.known \in v.std .. v.count
        /\ v.extensible \/ (v.std = v.count /\ v.known = v.count)

VARIABLES
    decl,     \* the member of Ranges or Variants
    checked,  \* the build checks arithmetic for overflow
    phase,    \* what has been done
    rust,     \* the Rust type: [type, min, max, extensible]
    value,    \* the number or index to be sent
    wire,     \* the bits written
    got       \* what was read

vars == <<decl, checked, phase, rust, value, wire, got>>

OrElse(bound, default) == IF bound = Open THEN default ELSE bound

-----------------------------------------------------------------------------
(* From the schema to the constants of generated code *)

Type(sign, octets) == [sign |-> sign, octets |-> octets]
U64 == Type("u", 8)
I64 == Type("i", 8)

TypeMin(t) == IF t.sign = "u" THEN 0 ELSE -(2^(t.octets * OctetBits - 1))
TypeMax(t) == 2^(t.octets * OctetBits - (IF t.sign = "u" THEN 0 ELSE 1)) - 1

Rust(type, min, max, extensible) ==
    [type |-> type, min |-> min, max |-> max, extensible |-> extensible]

\* Mutant: the amplitude of the lower bound is not taken.
HoldingByMax(sign, min, max) ==
    LET octets == CHOOSE o \in {1, 2, 4, 8} :
                    /\ max <= TypeMax(Type(sign, o))
                    /\ \A p \in {1, 2, 4, 8} : p < o => max > TypeMax(Type(sign, p))
    IN  Type(sign, octets)

\* The smallest of u8 .. u64 for a lower bound from 0 on, of i8 .. i64 else.
Holding(sign, min, max) ==
    LET amplitude == IF sign = "u" \/ max >= -(min + 1) THEN max ELSE -(min + 1)
        octets == CHOOSE o \in {1, 2, 4, 8} :
                    /\ amplitude <= TypeMax(Type(sign, o))
                    /\ \A p \in {1, 2, 4, 8} : p < o => amplitude > TypeMax(Type(sign, p))
    IN  Type(sign, octets)

\* The value of an i64 as u64, and back.
AsU64(n) == n % 2^WordBits
AsI64(n) == IF AsU64(n) > I64_MAX THEN AsU64(n) - 2^WordBits ELSE AsU64(n)
OpenAsI64(bound) == IF bound = Open THEN Open ELSE AsI64(bound)

\* asn_extensible_integer_to_rust and asn_fixed_integer_to_rust_type
IntegerToRust(min, max, extensible) ==
    IF \/ min \in {Open, 0} /\ max = Open
       \/ min \in {Open, 0} /\ max = I64_MAX
    THEN Rust(U64, Open, Open, extensible)
    ELSE IF extensible
    THEN IF OrElse(min, 0) >= 0 /\ OrElse(max, 0) >= 0
         THEN Rust(U64, min, max, TRUE)
         ELSE Rust(I64, OrElse(min, I64_MIN), OrElse(max, I64_MAX), TRUE)
    ELSE LET lower == OrElse(min, 0)
             upper == OrElse(max, I64_MAX)
         IN  IF lower >= 0
             THEN Rust(Holding("u", lower, AsU64(upper)), lower, AsU64(upper), FALSE)
             ELSE Rust(Holding("i", lower, upper), lower, upper, FALSE)

\* What the parser keeps of a range.
ParsedToRust(r) ==
    IF (r.min = 0 /\ r.max = Open) \/ (r.min = Open /\ r.max = I64_MAX)
    THEN IntegerToRust(Open, Open, r.extensible)
    ELSE IntegerToRust(r.min, r.max, r.extensible)

\* The range that the macro reads from the attribute of the generated type.
AttributeToRust(r) ==
    LET min == OpenAsI64(r.min)
        max == OpenAsI64(r.max)
    IN  IF min \in {Open, 0} /\ max = Open
        THEN IntegerToRust(Open, Open, r.extensible)
        ELSE IntegerToRust(OrElse(min, IF max > 0 THEN 0 ELSE I64_MIN),
                           OrElse(max, I64_MAX), r.extensible)

-----------------------------------------------------------------------------
(* Bits *)

Bits(n, width) == [i \in 1 .. width |-> (n \div 2^(width - i)) % 2]

Number(bits) ==
    LET value_of[i \in 0 .. Len(bits)] ==
            IF i = 0 THEN 0 ELSE 2 * value_of[i - 1] + bits[i]
    IN  value_of[Len(bits)]

\* The word's width without the leading zeros of n.
BitLength(n) == CHOOSE w \in 0 .. WordBits : n < 2^w /\ (w > 0 => n >= 2^(w - 1))
LeadingZeros(n) == WordBits - BitLength(n)

\* The length determinant of the few octets of a number, and an index below 64.
ShortLength(octets) == <<0>> \o Bits(octets, 7)
SMALL_NON_NEGATIVE_NUMBER == 64

NonNegative(n) ==
    LET octets == Octets - LeadingZeros(n) \div OctetBits
    IN  ShortLength(octets) \o Bits(n, octets * OctetBits)

\* The octets of a 2's complement number: those before it repeat its sign.
SignedOctets(n) ==
    LET leading == LeadingZeros(IF n < 0 THEN -(n + 1) ELSE n)
    IN  Octets - (leading - 1) \div OctetBits

Unconstrained(n) ==
    ShortLength(SignedOctets(n)) \o Bits(AsU64(n), SignedOctets(n) * OctetBits)

\* The reader's side: from the bits behind a flag or at the start.
Behind(bits, n) == SubSeq(bits, n + 1, Len(bits))
ReadOctets(bits) == SubSeq(bits, 9, 8 + OctetBits * Number(SubSeq(bits, 2, 8)))

\* Mutant: the sign is not extended.
ReadUnconstrainedUnsigned(bits) == Number(ReadOctets(bits))

ReadUnconstrained(bits) ==
    LET n == Number(ReadOctets(bits))
        width == Len(ReadOctets(bits))
    IN  IF ReadOctets(bits)[1] = 1 THEN n - 2^width ELSE n

-----------------------------------------------------------------------------
Init ==
    /\ \/ decl \in Ranges /\ phase = "declared"
       \/ decl \in Variants /\ phase = "compiled"
    /\ checked \in BOOLEAN
    /\ rust = Nothing
    /\ value = Nothing
    /\ wire = <<>>
    /\ got = Nothing

\* The conversion of the model into Rust code.
Generate ==
    /\ phase = "declared"
    /\ rust' = ParsedToRust(decl)
    /\ phase' = "generated"
    /\ UNCHANGED <<decl, checked, value, wire, got>>

\* The macro: the type of its constraint must be the field's, and MAX an i64.
Compile ==
    /\ phase = "generated"
    /\ IF /\ AttributeToRust(rust).type = rust.type
          /\ OrElse(AttributeToRust(rust).max, 0) <= I64_MAX
       THEN rust' = AttributeToRust(rust) /\ phase' = "compiled"
       ELSE phase' = "uncompilable" /\ UNCHANGED rust
    /\ UNCHANGED <<decl, checked, value, wire, got>>

Lower == OrElse(rust.min, 0)
Upper == OrElse(rust.max, I64_MAX)

\* upper_bound - lower_bound in i64, which a build without checks wraps.
Overflows == Upper - Lower > I64_MAX
Width == AsI64(Upper - Lower)

AsUnconstrained(n) ==
    IF rust.extensible THEN n < Lower \/ n > Upper
    ELSE rust.min = Open /\ rust.max = Open

Flag(set) == IF rust.extensible THEN <<IF set THEN 1 ELSE 0>> ELSE <<>>

\* ValueNotInRange
OutOfBounds(n) == Width > 0 /\ (n < Lower \/ n > Upper)

\* write_number with a value of the Rust type, as i64.
WriteNumber ==
    /\ phase = "compiled" /\ decl \in Ranges
    /\ \E v \in Values :
        /\ v \in TypeMin(rust.type) .. TypeMax(rust.type)
        /\ value' = v
        /\ LET n == AsI64(v)
           IN  IF AsUnconstrained(n)
               THEN wire' = Flag(TRUE) \o Unconstrained(n) /\ phase' = "written"
               ELSE IF Overflows /\ checked
               THEN phase' = "panic" /\ UNCHANGED wire
               ELSE IF OutOfBounds(n)
               THEN phase' = "refused" /\ UNCHANGED wire
               ELSE /\ wire' = Flag(FALSE) \o
                        (IF Width > 0 THEN Bits(n - Lower, BitLength(Width)) ELSE <<>>)
                    /\ phase' = "written"
    /\ UNCHANGED <<decl, checked, rust, got>>

\* The number read_number finds, as an i64.
NumberRead ==
    LET bits == IF rust.extensible THEN Behind(wire, 1) ELSE wire
        unconstrained == IF rust.extensible THEN wire[1] = 1
                         ELSE rust.min = Open /\ rust.max = Open
    IN  IF unconstrained THEN ReadUnconstrained(bits)
        ELSE IF Width > 0
        THEN Lower + Number(SubSeq(bits, 1, BitLength(Width)))
        ELSE Lower

\* read_number, and the cast to the Rust type.
ReadNumber ==
    /\ phase = "written" /\ decl \in Ranges
    /\ got' = IF rust.type.sign = "u" THEN NumberRead % 2^(rust.type.octets * OctetBits)
              ELSE NumberRead
    /\ phase' = "done"
    /\ UNCHANGED <<decl, checked, rust, value, wire>>

\* write_enumeration_index: an extension variant counts from 0 again.
WriteVariant ==
    /\ phase = "compiled" /\ decl \in Variants
    /\ \E index \in 0 .. decl.count - 1 :
        /\ value' = index
        /\ wire' = LET extended == index >= decl.std
                       n == index - decl.std
                   IN  (IF decl.extensible THEN <<IF extended THEN 1 ELSE 0>> ELSE <<>>) \o
                       (IF ~extended THEN Bits(index, BitLength(decl.std - 1))
                        ELSE IF n >= SMALL_NON_NEGATIVE_NUMBER THEN <<1>> \o NonNegative(n)
                        ELSE <<0>> \o Bits(n, BitLength(SMALL_NON_NEGATIVE_NUMBER - 1)))
    /\ phase' = "written"
    /\ UNCHANGED <<decl, checked, rust, got>>

\* Mutant: an extension variant is counted from the root's last.
IndexReadShort ==
    IF decl.extensible /\ wire[1] = 1
    THEN decl.std - 1 + (IF wire[2] = 1 THEN Number(ReadOctets(Behind(wire, 2)))
                         ELSE Number(SubSeq(wire, 3, 2 + BitLength(SMALL_NON_NEGATIVE_NUMBER - 1))))
    ELSE Number(IF decl.extensible THEN Behind(wire, 1) ELSE wire)

\* The index read_enumeration_index finds.
IndexRead ==
    IF decl.extensible /\ wire[1] = 1
    THEN decl.std + (IF wire[2] = 1 THEN Number(ReadOctets(Behind(wire, 2)))
                     ELSE Number(SubSeq(wire, 3, 2 + BitLength(SMALL_NON_NEGATIVE_NUMBER - 1))))
    ELSE Number(IF decl.extensible THEN Behind(wire, 1) ELSE wire)

\* from_choice_index or read_content of a peer that knows fewer variants.
ReadVariant ==
    /\ phase = "written" /\ decl \in Variants
    /\ IF IndexRead < decl.known
       THEN got' = IndexRead /\ phase' = "done"
       ELSE phase' = "unknown" /\ UNCHANGED got
    /\ UNCHANGED <<decl, checked, rust, value, wire>>

Next ==
    \/ Generate
    \/ Compile
    \/ WriteNumber
    \/ ReadNumber
    \/ WriteVariant
    \/ ReadVariant

Spec == Init /\ [][Next]_vars

-----------------------------------------------------------------------------
(* Properties *)

\* Every variable holds a value of its type, and what was read is a value of
\* the Rust type: from_i64, a cast, never changes it.
TypeOK ==
    /\ decl \in Ranges \cup Variants
    /\ phase \in {"declared", "generated", "compiled", "uncompilable", "written",
                  "refused", "panic", "unknown", "done"}
    /\ rust # Nothing => rust.type \in {Type(s, o) : s \in {"u", "i"}, o \in {1, 2, 4, 8}}
    /\ value \in {Nothing} \cup I64_MIN .. 2^WordBits - 1
    /\ \A i \in DOMAIN wire : wire[i] \in {0, 1}
    /\ got # Nothing /\ decl \in Ranges => got \in TypeMin(rust.type) .. TypeMax(rust.type)

InDeclared(n) == OrElse(decl.min, n) <= n /\ n <= OrElse(decl.max, n)
Compiled == decl \in Ranges /\ phase \in {"compiled", "written", "refused", "panic", "done"}

\* After all conversions the Rust type holds each value of the declared range,
\* and generated code compiles.  Exempt are ranges from MIN: the code takes MIN
\* for 0, so that negative values are lost, and with an upper bound below 1 the
\* generated code may not compile.
TypesHoldTheirRange ==
    decl \in Ranges /\ decl.min # Open =>
        /\ phase # "uncompilable"
        /\ Compiled => \A v \in Values :
                InDeclared(v) /\ v <= I64_MAX => v \in TypeMin(rust.type) .. TypeMax(rust.type)

\* A number that is sent is one of the declared range, or is sent as an extension
\* or by a type that write_number takes for unbounded (0..MAX among them), and it
\* comes back.  Exempt are the range of one value, which is sent as nothing and
\* not compared, and a range wider than i64, with which a build panics if it
\* checks for overflow and loses every value but the least if not.
SentNumbersArrive ==
    decl \in Ranges =>
        LET sent == phase \in {"written", "done"}
            bounded == sent /\ ~AsUnconstrained(AsI64(value))
            wide == Compiled /\ Overflows /\ value # Nothing /\ ~AsUnconstrained(AsI64(value))
        IN  /\ phase = "panic" <=> wide /\ checked
            /\ bounded /\ ~Overflows /\ decl.min # Open /\ decl.min # OrElse(decl.max, I64_MAX)
                 => InDeclared(value)
            /\ phase = "done" =>
                 (got = value <=> value = Lower \/ ~(wide \/ (Width = 0 /\ ~rust.extensible)))

\* A reader gets the variant that was sent, or refuses it when it is one of a
\* later version: never another one.  Holds for ENUMERATED and CHOICE, beyond
\* the 64 extension variants that have a short form too.
VariantsAgree ==
    decl \in Variants =>
        /\ phase = "done" => got = value
        /\ phase = "unknown" => value >= decl.known
=============================================================================
