------------------------- MODULE UperSequenceProofs -------------------------
(***************************************************************************)
(* What is written for a SEQUENCE and read of it, for all definitions:     *)
(* types, the layout of the message, the sender and the receiver.          *)
(* WriterInv says that the bits are at every call what the layout asks     *)
(* for; the scope, how far it is.  ReaderInv says that the receiver keeps  *)
(* its place in that layout, and so reads what was sent.                   *)
(***************************************************************************)
EXTENDS UperSequence, FiniteSetTheorems, SequenceTheorems, NaturalsInduction,
        WellFoundedInduction, TLAPS

\* Induction on natural numbers about a set instead of a predicate.
LEMMA InductionBySet ==
  ASSUME NEW S, 0 \in S, \A n \in Nat : n \in S => n + 1 \in S
  PROVE  Nat \subseteq S
  <1> SUFFICES ASSUME Nat \ S # {} PROVE FALSE
    OBVIOUS
  <1>1. PICK x \in Nat \ S : \A y \in Nat \ S : << y, x >> \notin OpToRel(<, Nat)
    BY NatLessThanWellFounded, WFMin
  <1>2. x # 0 /\ x - 1 \in Nat /\ (x - 1) + 1 = x
    OBVIOUS
  <1>3. \A y \in Nat \ S : ~(y < x)
    BY <1>1 DEF OpToRel
  <1> QED
    BY <1>2, <1>3


\* NumberAt is what its recursion says, for every width.
LEMMA NumberAtUnrolls ==
  ASSUME NEW p \in Nat, NEW w \in Nat, \A i \in Nat : BitAt(p + i) \in {0, 1}
  PROVE  \E f \in [0 .. w -> Nat] :
            /\ NumberAt(p, w) = f[w] /\ f[0] = 0
            /\ \A i \in 1 .. w : f[i] = 2 * f[i - 1] + BitAt(p + i - 1)
  <1> DEFINE Rec(f, m) == f = [i \in 0 .. m |->
                                 IF i = 0 THEN 0 ELSE 2 * f[i - 1] + BitAt(p + i - 1)]
             S == {m \in Nat : \E f \in [0 .. m -> Nat] : Rec(f, m)}
  <1>1. 0 \in S
    <2>1. [i \in 0 .. 0 |-> 0] \in [0 .. 0 -> Nat] /\ Rec([i \in 0 .. 0 |-> 0], 0)
      OBVIOUS
    <2> QED
      BY <2>1
  <1>2. ASSUME NEW m \in Nat, m \in S PROVE m + 1 \in S
    <2>1. PICK f \in [0 .. m -> Nat] : Rec(f, m)
      BY <1>2
    <2> DEFINE g == [i \in 0 .. m + 1 |-> IF i = m + 1 THEN 2 * f[m] + BitAt(p + m) ELSE f[i]]
    <2>2. g \in [0 .. m + 1 -> Nat]
      <3>1. BitAt(p + m) \in Nat /\ f[m] \in Nat
        BY <2>1
      <3> QED
        BY <3>1, <2>1
    <2>3. Rec(g, m + 1)
      <3>1. ASSUME NEW i \in 0 .. m + 1
            PROVE  g[i] = IF i = 0 THEN 0 ELSE 2 * g[i - 1] + BitAt(p + i - 1)
        <4>1. CASE i = m + 1
          <5>1. i - 1 = m /\ p + i - 1 = p + m /\ g[m] = f[m] /\ i # 0
            BY <4>1
          <5> QED
            BY <5>1, <4>1
        <4>2. CASE i = 0
          BY <2>1, <4>2
        <4>3. CASE i \in 1 .. m
          <5>1. f[i] = 2 * f[i - 1] + BitAt(p + i - 1)
            BY <2>1, <4>3
          <5>2. g[i] = f[i] /\ g[i - 1] = f[i - 1]
            BY <4>3
          <5> QED
            BY <5>1, <5>2, <4>3
        <4> QED
          BY <4>1, <4>2, <4>3
      <3>2. g = [i \in 0 .. m + 1 |-> g[i]]
        OBVIOUS
      <3> HIDE DEF g
      <3> QED
        BY <3>1, <3>2
    <2> HIDE DEF g, Rec
    <2> QED
      BY <2>2, <2>3
  <1>3. w \in S
    <2> HIDE DEF S
    <2>1. Nat \subseteq S
      BY <1>1, <1>2, InductionBySet
    <2> QED
      BY <2>1
  <1> DEFINE n == CHOOSE f : Rec(f, w)
  <1>4. PICK h \in [0 .. w -> Nat] : Rec(h, w)
    BY <1>3
  <1>5. Rec(n, w)
    <2> HIDE DEF Rec
    <2> QED BY <1>4
  <1>6. NumberAt(p, w) = n[w]
    BY DEF NumberAt
  <1>7. n \in [0 .. w -> Nat]
    <2> DEFINE G == {i \in Nat : i \in 0 .. w => n[i] \in Nat}
    <2>1. 0 \in G
      <3> HIDE DEF n
      <3>1. n[0] = 0
        BY <1>5
      <3> QED BY <3>1
    <2>2. ASSUME NEW i \in Nat, i \in G PROVE i + 1 \in G
      <3> SUFFICES ASSUME i + 1 \in 0 .. w PROVE n[i + 1] \in Nat
        OBVIOUS
      <3> HIDE DEF n
      <3>1. n[i] \in Nat /\ BitAt(p + i) \in Nat
        BY <2>2
      <3>2. n[i + 1] = 2 * n[(i + 1) - 1] + BitAt(p + (i + 1) - 1)
        BY <1>5
      <3>3. (i + 1) - 1 = i /\ p + (i + 1) - 1 = p + i
        OBVIOUS
      <3> QED
        BY <3>1, <3>2, <3>3
    <2>3. Nat \subseteq G
      <3> HIDE DEF G
      <3> QED BY <2>1, <2>2, InductionBySet
    <2> HIDE DEF n
    <2>4. n = [i \in 0 .. w |-> n[i]]
      BY <1>5
    <2>5. \A i \in 0 .. w : n[i] \in Nat
      BY <2>3
    <2> QED
      BY <2>4, <2>5
  <1>8. n[0] = 0 /\ \A i \in 1 .. w : n[i] = 2 * n[i - 1] + BitAt(p + i - 1)
    <2> HIDE DEF n
    <2> QED BY <1>5
  <1> HIDE DEF n
  <1> QED
    BY <1>6, <1>7, <1>8

-----------------------------------------------------------------------------
(* Types *)

OptBitFields == [type : {"OptBitField"}, start : Nat, end : Nat]
AllBitFields == [type : {"AllBitField"}, start : Nat, end : Nat]
ExtensibleSequences ==
    [type : {"ExtensibleSequence"}, bit_pos : Nat, start : Nat, end : Nat,
     calls_until_ext_bitfield : Int, number_of_ext_fields : Nat]
Scopes == OptBitFields \cup AllBitFields \cup ExtensibleSequences
            \cup {ExtensibleSequenceEmpty}

\* The type invariant of the data: definitions, value and bits.
DataOK ==
    /\ schema \in Schemas
    /\ tail \in {0, 1}
    /\ value \in [DOMAIN SenderFields -> {Absent, Null, 0, 1}]
    /\ \A i \in DOMAIN SenderFields : value[i] \in ValuesOf(SenderFields[i])
    /\ bits \in Seq({0, 1})

\* The number of bits in front of the first field.
HeaderEnd == (IF schema.extensible THEN 1 ELSE 0) + Optionals(schema)

\* The type invariant of the positions, phase by phase.
PositionsOK ==
    \/ /\ phase = "write" /\ scope = NoScope
       /\ field = 0 /\ pos = 0 /\ got = <<>> /\ gotTail = Absent
    \/ /\ phase \in {"writeFields", "writeError"}
       /\ field \in 0 .. Len(SenderFields) /\ scope \in Scopes
       /\ pos = 0 /\ got = <<>> /\ gotTail = Absent
       /\ Len(bits) >= HeaderEnd
    \/ /\ phase = "read" /\ scope \in Scopes
       /\ field = 0 /\ pos = 0 /\ got = <<>> /\ gotTail = Absent
       /\ Len(bits) >= HeaderEnd
    \/ /\ phase \in {"readFields", "readError", "done"}
       /\ field \in 0 .. Len(ReceiverFields) /\ scope \in Scopes
       /\ pos \in 0 .. Len(bits) /\ Len(got) = field
       /\ got \in Seq({0, 1, Absent, Null})
       /\ gotTail \in {0, 1, Absent}

TypeInv == DataOK /\ PositionsOK

-----------------------------------------------------------------------------
(* Lemmas about the definitions *)

\* The number of presence bits of the root.
LEMMA OptionalsNat ==
  ASSUME NEW s \in Schemas
  PROVE  Optionals(s) \in Nat
  <1>1. IsFiniteSet(DOMAIN s.root)
    <2>1. s.root \in Seq(RootKinds)
      BY SchemasAssumption
    <2>2. DOMAIN s.root = 1 .. Len(s.root) /\ Len(s.root) \in Nat
      BY <2>1
    <2> QED
      BY <2>2, FS_Interval
  <1>2. IsFiniteSet({i \in DOMAIN s.root : IsOpt(s.root[i])})
    BY <1>1, FS_Subset
  <1> QED
    BY <1>2, FS_CardinalityType DEF Optionals

\* The parts of a definition are sequences.
LEMMA SchemaTypes ==
  ASSUME NEW s \in Schemas
  PROVE  /\ s.root \in Seq(RootKinds) /\ s.ext \in Seq(ExtKinds)
         /\ s.peerExt \in Seq(ExtKinds)
         /\ Len(s.root) \in Nat /\ Len(s.ext) \in Nat /\ Len(s.peerExt) \in Nat
  BY SchemasAssumption

\* The fields of both peers: the root's, then the additions.
LEMMA FieldsTypes ==
  ASSUME schema \in Schemas
  PROVE  /\ SenderFields \in Seq(RootKinds) /\ ReceiverFields \in Seq(RootKinds)
         /\ Len(SenderFields) = Len(schema.root) + Len(schema.ext)
         /\ Len(ReceiverFields) = Len(schema.root) + Len(schema.peerExt)
         /\ \A i \in 1 .. Len(schema.root) :
              SenderFields[i] = schema.root[i] /\ ReceiverFields[i] = schema.root[i]
         /\ \A i \in 1 .. Len(schema.ext) :
              SenderFields[Len(schema.root) + i] = schema.ext[i]
         /\ \A i \in 1 .. Len(schema.peerExt) :
              ReceiverFields[Len(schema.root) + i] = schema.peerExt[i]
  <1>1. /\ schema.root \in Seq(RootKinds) /\ schema.ext \in Seq(RootKinds)
        /\ schema.peerExt \in Seq(RootKinds)
    <2>1. ExtKinds \subseteq RootKinds
      BY DEF ExtKinds, RootKinds
    <2>2. schema.ext \in Seq(RootKinds) /\ schema.peerExt \in Seq(RootKinds)
      BY <2>1, SchemaTypes
    <2> QED
      BY <2>2, SchemaTypes
  <1>2. ASSUME NEW a \in Seq(RootKinds), NEW b \in Seq(RootKinds)
        PROVE  /\ a \o b \in Seq(RootKinds) /\ Len(a \o b) = Len(a) + Len(b)
               /\ \A i \in 1 .. Len(a) : (a \o b)[i] = a[i]
               /\ \A i \in 1 .. Len(b) : (a \o b)[Len(a) + i] = b[i]
    OBVIOUS
  <1>3. /\ SenderFields \in Seq(RootKinds)
        /\ Len(SenderFields) = Len(schema.root) + Len(schema.ext)
        /\ \A i \in 1 .. Len(schema.root) : SenderFields[i] = schema.root[i]
        /\ \A i \in 1 .. Len(schema.ext) :
             SenderFields[Len(schema.root) + i] = schema.ext[i]
    BY <1>1, <1>2, Zenon DEF SenderFields
  <1>4. /\ ReceiverFields \in Seq(RootKinds)
        /\ Len(ReceiverFields) = Len(schema.root) + Len(schema.peerExt)
        /\ \A i \in 1 .. Len(schema.root) : ReceiverFields[i] = schema.root[i]
        /\ \A i \in 1 .. Len(schema.peerExt) :
             ReceiverFields[Len(schema.root) + i] = schema.peerExt[i]
    BY <1>1, <1>2, Zenon DEF ReceiverFields
  <1> QED
    BY <1>3, <1>4

\* A bit is 0 or 1, one beyond the end reads as 0.
LEMMA BitAtBit ==
  ASSUME bits \in Seq({0, 1}), NEW p \in Nat
  PROVE  BitAt(p) \in {0, 1}
  BY DEF BitAt

\* A number that is read is a natural number.
LEMMA NumberAtNat ==
  ASSUME bits \in Seq({0, 1}), NEW p \in Nat, NEW w \in Nat
  PROVE  NumberAt(p, w) \in Nat
  <1>1. \A i \in Nat : BitAt(p + i) \in {0, 1}
    BY BitAtBit
  <1>2. PICK f \in [0 .. w -> Nat] : NumberAt(p, w) = f[w]
    BY <1>1, NumberAtUnrolls
  <1> QED
    BY <1>2

\* The powers of two in the numbers of the header.
LEMMA SmallPowers ==
  ASSUME NEW e \in {0, 1, 2, 3, 4, 5, 6}
  PROVE  2^e \in {1, 2, 4, 8, 16, 32, 64} /\ (e # 0 => 2^e \in {2, 4, 8, 16, 32, 64})
  <1>1. /\ 2^0 = 1 /\ 2^1 = 2 /\ 2^2 = 4 /\ 2^3 = 8
    OBVIOUS
  <1>2. 2^4 = 16 /\ 2^5 = 32 /\ 2^6 = 64
    OBVIOUS
  <1>3. CASE e = 0 \/ e = 1
    BY <1>1, <1>3
  <1>4. CASE e = 2 \/ e = 3
    BY <1>1, <1>4
  <1>5. CASE e = 4
    BY <1>2, <1>5
  <1>6. CASE e = 5
    BY <1>2, <1>6
  <1>7. CASE e = 6
    BY <1>2, <1>7
  <1>8. e = 0 \/ e = 1 \/ e = 2 \/ e = 3 \/ e = 4 \/ e = 5 \/ e = 6
    OBVIOUS
  <1> QED
    BY <1>3, <1>4, <1>5, <1>6, <1>7, <1>8, Zenon

\* A number of up to seven bits, bit by bit.
LEMMA ToBitsType ==
  ASSUME NEW x \in Int, NEW w \in {6, 7}
  PROVE  ToBits(x, w) \in Seq({0, 1}) /\ Len(ToBits(x, w)) = w
  <1>1. ASSUME NEW i \in 1 .. w PROVE (x \div 2^(w - i)) % 2 \in {0, 1}
    <2>1. 2^(w - i) \in {1, 2, 4, 8, 16, 32, 64}
      <3> DEFINE e == w - i
      <3>1. e \in {0, 1, 2, 3, 4, 5, 6}
        OBVIOUS
      <3> HIDE DEF e
      <3>2. 2^e \in {1, 2, 4, 8, 16, 32, 64}
        BY <3>1, SmallPowers
      <3> QED
        BY <3>2 DEF e
    <2>2. \A d \in {1, 2, 4, 8, 16, 32, 64} : (x \div d) % 2 \in {0, 1}
      OBVIOUS
    <2> QED
      BY <2>1, <2>2
  <1>2. ToBits(x, w) \in [1 .. w -> {0, 1}]
    BY <1>1 DEF ToBits
  <1> QED
    BY <1>2

\* Writing one bit in place changes that bit and no other.
LEMMA PutBit ==
  ASSUME NEW b \in Seq({0, 1}), NEW p \in Nat, NEW x \in {0, 1}
  PROVE  /\ Put(b, p, x) \in Seq({0, 1}) /\ Len(Put(b, p, x)) = Len(b)
         /\ \A i \in 1 .. Len(b) : Put(b, p, x)[i] = IF i = p + 1 THEN x ELSE b[i]
  BY DEF Put

\* A concatenation of bits, bit by bit.
LEMMA JoinBits ==
  ASSUME NEW a \in Seq({0, 1}), NEW b \in Seq({0, 1})
  PROVE  /\ a \o b \in Seq({0, 1}) /\ Len(a \o b) = Len(a) + Len(b)
         /\ \A i \in 1 .. Len(a) : (a \o b)[i] = a[i]
         /\ \A i \in 1 .. Len(b) : (a \o b)[Len(a) + i] = b[i]
  OBVIOUS

\* The normally small number: seven bits, the first of them 0.
LEMMA SmallNumberType ==
  ASSUME NEW x \in Int
  PROVE  /\ SmallNumber(x) \in Seq({0, 1}) /\ Len(SmallNumber(x)) = 7
         /\ SmallNumber(x)[1] = 0
         /\ \A i \in 1 .. 6 : SmallNumber(x)[i + 1] = ToBits(x, 6)[i]
  <1>1. ToBits(x, 6) \in Seq({0, 1}) /\ Len(ToBits(x, 6)) = 6
    BY ToBitsType
  <1> DEFINE six == ToBits(x, 6)
  <1>2. six \in Seq({0, 1}) /\ Len(six) = 6
    BY <1>1
  <1>3. SmallNumber(x) = <<0>> \o six
    BY DEF SmallNumber
  <1>4. <<0>> \in Seq({0, 1}) /\ Len(<<0>>) = 1 /\ <<0>>[1] = 0
    OBVIOUS
  <1> SUFFICES /\ SmallNumber(x) \in Seq({0, 1}) /\ Len(SmallNumber(x)) = 7
               /\ SmallNumber(x)[1] = 0
               /\ \A i \in 1 .. 6 : SmallNumber(x)[i + 1] = six[i]
    OBVIOUS
  <1> HIDE DEF six
  <1> DEFINE joined == <<0>> \o six
  <1>5. /\ joined \in Seq({0, 1}) /\ Len(joined) = Len(<<0>>) + Len(six)
        /\ \A i \in 1 .. Len(<<0>>) : joined[i] = <<0>>[i]
        /\ \A i \in 1 .. Len(six) : joined[Len(<<0>>) + i] = six[i]
    BY <1>2, <1>4, JoinBits, Zenon
  <1>6. SmallNumber(x) = joined
    BY <1>3
  <1> HIDE DEF joined
  <1> QED
    BY <1>2, <1>4, <1>5, <1>6

\* One octet of length, seven zeroes and a one, and one octet of value.
LEMMA OpenTypeBits ==
  ASSUME NEW x \in {0, 1}
  PROVE  /\ OpenType(x) \in Seq({0, 1}) /\ Len(OpenType(x)) = 16
         /\ \A i \in 1 .. 7 : OpenType(x)[i] = 0
         /\ OpenType(x)[8] = 1 /\ OpenType(x)[9] = x
  <1>1. /\ ToBits(1, 7) \in Seq({0, 1}) /\ Len(ToBits(1, 7)) = 7
        /\ ToBits(0, 7) \in Seq({0, 1}) /\ Len(ToBits(0, 7)) = 7
    BY ToBitsType
  <1>2. ToBits(1, 7)[7] = 1 /\ \A i \in 1 .. 6 : ToBits(1, 7)[i] = 0
    <2>1. /\ 2^0 = 1 /\ 2^1 = 2 /\ 2^2 = 4 /\ 2^3 = 8 /\ 2^4 = 16
          /\ 2^5 = 32 /\ 2^6 = 64
      OBVIOUS
    <2>2. ToBits(1, 7)[7] = (1 \div 2^0) % 2
      BY DEF ToBits
    <2>3. ASSUME NEW i \in 1 .. 6 PROVE ToBits(1, 7)[i] = 0
      <3>1. ToBits(1, 7)[i] = (1 \div 2^(7 - i)) % 2
        BY DEF ToBits
      <3>2. 7 - i \in {1, 2, 3, 4, 5, 6}
        OBVIOUS
      <3>3. 2^(7 - i) \in {2, 4, 8, 16, 32, 64}
        <4> DEFINE e == 7 - i
        <4>1. e \in {0, 1, 2, 3, 4, 5, 6} /\ e # 0
          BY <3>2
        <4> HIDE DEF e
        <4>2. 2^e \in {2, 4, 8, 16, 32, 64}
          BY <4>1, SmallPowers
        <4> QED
          BY <4>2 DEF e
      <3>4. \A d \in {2, 4, 8, 16, 32, 64} : (1 \div d) % 2 = 0
        OBVIOUS
      <3> QED
        BY <3>1, <3>3, <3>4
    <2> QED
      BY <2>1, <2>2, <2>3
  <1> DEFINE one == ToBits(1, 7)
             zero == ToBits(0, 7)
  <1>3. OpenType(x) = <<0>> \o one \o <<x>> \o zero
    BY DEF OpenType, BYTE_LEN
  <1> HIDE DEF one, zero
  <1>4. one \in Seq({0, 1}) /\ Len(one) = 7 /\ zero \in Seq({0, 1}) /\ Len(zero) = 7
    BY <1>1 DEF one, zero
  <1>5. one[7] = 1 /\ \A i \in 1 .. 6 : one[i] = 0
    BY <1>2 DEF one
  <1> DEFINE first == <<0>> \o one
             second == first \o <<x>>
  <1>6. /\ <<0>> \in Seq({0, 1}) /\ Len(<<0>>) = 1 /\ <<0>>[1] = 0
        /\ <<x>> \in Seq({0, 1}) /\ Len(<<x>>) = 1 /\ <<x>>[1] = x
    OBVIOUS
  <1>9. /\ first \in Seq({0, 1}) /\ Len(first) = 8 /\ first[1] = 0
        /\ \A i \in 1 .. 7 : first[i + 1] = one[i]
    <2>1. /\ first \in Seq({0, 1}) /\ Len(first) = Len(<<0>>) + Len(one)
          /\ \A i \in 1 .. Len(<<0>>) : first[i] = <<0>>[i]
          /\ \A i \in 1 .. Len(one) : first[Len(<<0>>) + i] = one[i]
      BY <1>4, <1>6, JoinBits, Zenon
    <2> HIDE DEF first
    <2> QED
      BY <2>1, <1>4, <1>6
  <1> HIDE DEF first
  <1>10. /\ second \in Seq({0, 1}) /\ Len(second) = 9 /\ second[9] = x
        /\ \A i \in 1 .. 8 : second[i] = first[i]
    <2>1. /\ second \in Seq({0, 1}) /\ Len(second) = Len(first) + Len(<<x>>)
          /\ \A i \in 1 .. Len(first) : second[i] = first[i]
          /\ \A i \in 1 .. Len(<<x>>) : second[Len(first) + i] = <<x>>[i]
      BY <1>9, <1>6, JoinBits, Zenon
    <2> HIDE DEF second
    <2> QED
      BY <2>1, <1>9, <1>6
  <1> HIDE DEF second
  <1>11. /\ OpenType(x) \in Seq({0, 1}) /\ Len(OpenType(x)) = 16
        /\ \A i \in 1 .. 9 : OpenType(x)[i] = second[i]
    <2> DEFINE joined == second \o zero
    <2>1. OpenType(x) = joined
      BY <1>3 DEF second, first
    <2>2. /\ joined \in Seq({0, 1}) /\ Len(joined) = Len(second) + Len(zero)
          /\ \A i \in 1 .. Len(second) : joined[i] = second[i]
      BY <1>10, <1>4, JoinBits, Zenon
    <2> HIDE DEF joined
    <2> QED
      BY <2>1, <2>2, <1>10, <1>4
  <1>7. /\ OpenType(x)[1] = 0 /\ OpenType(x)[9] = x
        /\ \A i \in 1 .. 7 : OpenType(x)[i + 1] = one[i]
    BY <1>9, <1>10, <1>11
  <1>8. ASSUME NEW i \in 1 .. 7 PROVE OpenType(x)[i] = 0
    <2>1. CASE i = 1
      BY <2>1, <1>7
    <2>2. CASE i # 1
      <3>1. i - 1 \in 1 .. 6 /\ (i - 1) + 1 = i
        BY <2>2
      <3> QED
        BY <3>1, <1>5, <1>7
    <2> QED
      BY <2>1, <2>2
  <1> QED
    BY <1>5, <1>11, <1>7, <1>8

\* Bits::set_pos stays within the bits.
LEMMA ClampType ==
  ASSUME bits \in Seq({0, 1}), NEW p \in Nat
  PROVE  Clamp(p) \in 0 .. Len(bits)
  BY DEF Clamp

\* The content of a field are bits, with or without an open type.
LEMMA ContentType ==
  ASSUME NEW kind, NEW x \in {0, 1}, NEW s \in Scopes
  PROVE  Content(kind, x, s) \in Seq({0, 1})
  <1>1. OpenType(x) \in Seq({0, 1}) /\ <<x>> \in Seq({0, 1})
    BY OpenTypeBits
  <1> QED
    BY <1>1 DEF Content

\* What the scope makes of a field keeps the types, and never shortens the bits.
LEMMA WriteEntryType ==
  ASSUME bits \in Seq({0, 1}), scope \in Scopes,
         NEW isOpt \in BOOLEAN, NEW present \in BOOLEAN
  PROVE  LET entry == WriteEntry(isOpt, present)
         IN  /\ entry.bits \in Seq({0, 1}) /\ Len(entry.bits) >= Len(bits)
             /\ entry.scope \in Scopes
  <1> DEFINE entry == WriteEntry(isOpt, present)
  <1> SUFFICES /\ entry.bits \in Seq({0, 1}) /\ Len(entry.bits) >= Len(bits)
               /\ entry.scope \in Scopes
    OBVIOUS
  <1>0. Bit(present) \in {0, 1}
    BY DEF Bit
  <1>1. CASE scope \in AllBitFields \/ (scope \in OptBitFields /\ isOpt)
    <2>1. /\ entry.bits = Put(bits, scope.start, Bit(present))
          /\ entry.scope = TakeBit(scope)
      BY <1>1 DEF WriteEntry, AllBitFields, OptBitFields
    <2>2. entry.scope \in Scopes
      BY <1>1, <2>1 DEF TakeBit, Scopes, AllBitFields, OptBitFields
    <2>3. scope.start \in Nat
      BY <1>1 DEF AllBitFields, OptBitFields
    <2> HIDE DEF entry
    <2> QED
      BY <2>1, <2>2, <2>3, <1>0, PutBit
  <1>2. CASE scope \in OptBitFields /\ ~isOpt
    BY <1>2 DEF WriteEntry, OptBitFields
  <1>3. CASE scope \in ExtensibleSequences /\ scope.calls_until_ext_bitfield = 0
    <2> DEFINE n == scope.number_of_ext_fields
               flagged == Put(bits, scope.bit_pos, Bit(present))
               small == SmallNumber(n - 1)
               ones == [i \in 1 .. n |-> 1]
    <2>1. /\ entry.bits = IF present THEN (flagged \o small) \o ones ELSE flagged
          /\ entry.scope = IF present
                           THEN AllBitField(Len(flagged \o small) + 1,
                                            Len((flagged \o small) \o ones))
                           ELSE ExtensibleSequenceEmpty
      BY <1>3 DEF WriteEntry, ExtensibleSequences
    <2>2. n \in Nat /\ scope.bit_pos \in Nat
      BY <1>3 DEF ExtensibleSequences
    <2>3. flagged \in Seq({0, 1}) /\ Len(flagged) = Len(bits)
      BY <2>2, <1>0, PutBit
    <2>4. small \in Seq({0, 1}) /\ Len(small) = 7
      BY <2>2, SmallNumberType
    <2>5. ones \in Seq({0, 1}) /\ Len(ones) = n
      BY <2>2
    <2> HIDE DEF n, flagged, small, ones, entry
    <2>6. /\ (flagged \o small) \o ones \in Seq({0, 1})
          /\ Len(flagged \o small) = Len(bits) + 7
          /\ Len((flagged \o small) \o ones) = Len(bits) + 7 + n
      <3>1. /\ flagged \o small \in Seq({0, 1})
            /\ Len(flagged \o small) = Len(flagged) + Len(small)
        BY <2>3, <2>4, JoinBits, Zenon
      <3>2. /\ (flagged \o small) \o ones \in Seq({0, 1})
            /\ Len((flagged \o small) \o ones) = Len(flagged \o small) + Len(ones)
        BY <3>1, <2>5, JoinBits, Zenon
      <3> QED
        BY <3>1, <3>2, <2>3, <2>4, <2>5
    <2>7. entry.scope \in Scopes
      <3>1. CASE present
        BY <2>1, <2>2, <2>6, <3>1 DEF AllBitField, Scopes, AllBitFields
      <3>2. CASE ~present
        BY <2>1, <3>2 DEF Scopes
      <3> QED
        BY <3>1, <3>2
    <2> QED
      BY <2>1, <2>2, <2>3, <2>6, <2>7
  <1>4. CASE scope \in ExtensibleSequences /\ scope.calls_until_ext_bitfield # 0
    <2>1. /\ entry.bits = IF isOpt THEN Put(bits, scope.start, Bit(present)) ELSE bits
          /\ entry.scope = CountCall(IF isOpt THEN TakeBit(scope) ELSE scope)
      BY <1>4 DEF WriteEntry, ExtensibleSequences
    <2>2. entry.scope \in Scopes
      BY <1>4, <2>1 DEF TakeBit, CountCall, Scopes, ExtensibleSequences
    <2>3. scope.start \in Nat
      BY <1>4 DEF ExtensibleSequences
    <2> HIDE DEF entry
    <2> QED
      BY <2>1, <2>2, <2>3, <1>0, PutBit
  <1>5. CASE scope = ExtensibleSequenceEmpty
    BY <1>5 DEF WriteEntry, ExtensibleSequenceEmpty, Scopes
  <1> QED
    BY <1>1, <1>2, <1>3, <1>4, <1>5 DEF Scopes

\* A presence bit that is read leaves a scope and a position the code knows.
LEMMA PresenceType ==
  ASSUME bits \in Seq({0, 1}), NEW p \in Nat, NEW s \in Scopes,
         NEW at \in 0 .. Len(bits)
  PROVE  LET entry == Presence(p, s, at)
         IN  entry.scope \in Scopes /\ entry.pos \in 0 .. Len(bits)
  BY DEF Presence

\* What the scope says of a field is a scope again and a position in the bits.
LEMMA ReadEntryType ==
  ASSUME bits \in Seq({0, 1}), scope \in Scopes, pos \in 0 .. Len(bits),
         NEW isOpt \in BOOLEAN
  PROVE  LET entry == ReadEntry(isOpt)
         IN  entry.scope \in Scopes /\ entry.pos \in 0 .. Len(bits)
  <1> DEFINE entry == ReadEntry(isOpt)
  <1> SUFFICES entry.scope \in Scopes /\ entry.pos \in 0 .. Len(bits)
    OBVIOUS
  <1>0. Len(bits) \in Nat
    OBVIOUS
  <1>1. CASE scope \in OptBitFields \cup AllBitFields
    <2>0. /\ scope.start \in Nat /\ scope.end \in Nat
          /\ scope.type \in {"OptBitField", "AllBitField"}
      BY <1>1 DEF OptBitFields, AllBitFields
    <2>1. TakeBit(scope) \in Scopes
      BY <1>1 DEF TakeBit, OptBitFields, AllBitFields, Scopes
    <2>2. CASE scope.start >= scope.end
      <3>1. entry = NotPresent(scope, pos)
        BY <2>0, <2>2 DEF ReadEntry
      <3> QED
        BY <3>1 DEF NotPresent
    <2>3. CASE ~(scope.start >= scope.end) /\ scope.type = "OptBitField"
      <3>1. entry = IF isOpt THEN Presence(scope.start, TakeBit(scope), pos)
                             ELSE Unmarked(scope)
        BY <2>0, <2>3 DEF ReadEntry
      <3> HIDE DEF entry
      <3> QED
        BY <2>0, <2>1, <3>1, PresenceType DEF Unmarked
    <2>4. CASE ~(scope.start >= scope.end) /\ scope.type = "AllBitField"
      <3>1. entry = Presence(scope.start, TakeBit(scope), pos)
        BY <2>0, <2>4 DEF ReadEntry
      <3> HIDE DEF entry
      <3> QED
        BY <2>0, <2>1, <3>1, PresenceType
    <2> QED
      BY <2>0, <2>2, <2>3, <2>4
  <1>2. CASE scope \in ExtensibleSequences /\ scope.calls_until_ext_bitfield = 0
    <2>0. scope.type = "ExtensibleSequence" /\ scope.number_of_ext_fields \in Nat
      BY <1>2 DEF ExtensibleSequences
    <2>1. entry = IF BitAt(scope.bit_pos) = 1 THEN ReadExtHeader
                  ELSE NotPresent(ExtensibleSequenceEmpty, pos)
      BY <2>0, <1>2 DEF ReadEntry
    <2>2. CASE BitAt(scope.bit_pos) = 1
      <3> DEFINE start == pos + 7
                 sent == NumberAt(pos + 1, 6) + 1
                 range == AllBitField(start, start + scope.number_of_ext_fields)
                 after == Clamp(start + sent)
      <3>1. \/ entry = EndOfStream
            \/ entry = Presence(start, TakeBit(range), after)
            \/ entry = NotPresent(range, after)
        BY <2>1, <2>2 DEF ReadExtHeader
      <3>2. start \in Nat /\ sent \in Nat
        <4>1. pos + 1 \in Nat /\ 6 \in Nat
          BY <1>0
        <4>2. NumberAt(pos + 1, 6) \in Nat
          BY <4>1, NumberAtNat
        <4> QED
          BY <4>1, <4>2
      <3>3. after \in 0 .. Len(bits)
        <4>1. start + sent \in Nat
          BY <3>2
        <4> HIDE DEF start, sent
        <4> QED
          BY <4>1, ClampType
      <3>4. range \in Scopes /\ TakeBit(range) \in Scopes
        <4> HIDE DEF start
        <4> QED
          BY <2>0, <3>2 DEF AllBitField, TakeBit, AllBitFields, Scopes
      <3> HIDE DEF entry, start, sent, range, after
      <3> QED
        BY <3>1, <3>2, <3>3, <3>4, PresenceType DEF EndOfStream, NotPresent
    <2>3. CASE BitAt(scope.bit_pos) # 1
      BY <2>1, <2>3 DEF NotPresent, Scopes
    <2> QED
      BY <2>2, <2>3
  <1>3. CASE scope \in ExtensibleSequences /\ scope.calls_until_ext_bitfield # 0
    <2>0. scope.type = "ExtensibleSequence" /\ scope.start \in Nat
      BY <1>3 DEF ExtensibleSequences
    <2>1. entry = IF isOpt THEN Presence(scope.start, CountCall(TakeBit(scope)), pos)
                           ELSE Unmarked(CountCall(scope))
      BY <2>0, <1>3 DEF ReadEntry
    <2>2. CountCall(TakeBit(scope)) \in Scopes /\ CountCall(scope) \in Scopes
      <3>1. TakeBit(scope) \in ExtensibleSequences
        BY <1>3 DEF TakeBit, ExtensibleSequences
      <3>2. \A s \in ExtensibleSequences : CountCall(s) \in ExtensibleSequences
        BY DEF CountCall, ExtensibleSequences
      <3> QED
        BY <1>3, <3>1, <3>2 DEF Scopes
    <2> HIDE DEF entry
    <2> QED
      BY <2>0, <2>1, <2>2, PresenceType DEF Unmarked
  <1>4. CASE scope = ExtensibleSequenceEmpty
    BY <1>4 DEF ReadEntry, NotPresent, ExtensibleSequenceEmpty, Scopes
  <1> QED
    BY <1>1, <1>2, <1>3, <1>4 DEF Scopes

\* A value that was read is a bit, and the position behind it is in the bits.
LEMMA ReadContentType ==
  ASSUME bits \in Seq({0, 1}), NEW kind, NEW s \in Scopes, NEW p \in 0 .. Len(bits)
  PROVE  LET content == ReadContent(kind, s, p)
         IN  content.value \in {0, 1} /\ (content.ok => content.pos \in 0 .. Len(bits))
  <1> DEFINE open == kind # "def" /\ EncodeAsOpenType(s)
             length == LengthAt(p)
             at == IF open THEN p + length.width ELSE p
             content == ReadContent(kind, s, p)
  <1>1. p \in Nat /\ Len(bits) \in Nat
    OBVIOUS
  <1>2. length.width \in Nat /\ length.len \in Nat
    <2>1. \A q \in Nat, w \in {6, 7, 14} : NumberAt(q, w) \in Nat
      BY NumberAtNat
    <2>3. p + 1 \in Nat /\ p + 2 \in Nat
      BY <1>1
    <2>2. /\ NumberAt(p + 1, 7) \in Nat /\ NumberAt(p + 2, 14) \in Nat
          /\ NumberAt(p + 2, 6) \in Nat
      BY <2>3, <2>1, Zenon
    <2> QED
      BY <2>2 DEF LengthAt, LENGTH_16K, MAX_FRAGMENTS
  <1> HIDE DEF open, length
  <1>3. at \in Nat
    BY <1>1, <1>2
  <1> HIDE DEF at
  <1>4. /\ content.value = BitAt(at) /\ (content.ok => BitReadable(at))
        /\ content.pos = IF open THEN Clamp(at + length.len * BYTE_LEN) ELSE at + 1
    BY DEF ReadContent, open, length, at
  <1>5. at + length.len * BYTE_LEN \in Nat
    BY <1>2, <1>3 DEF BYTE_LEN
  <1>6. Clamp(at + length.len * BYTE_LEN) \in 0 .. Len(bits)
    BY <1>5, ClampType
  <1>7. BitAt(at) \in {0, 1}
    BY <1>3, BitAtBit
  <1> HIDE DEF content
  <1>8. content.ok => content.pos \in 0 .. Len(bits)
    BY <1>1, <1>3, <1>4, <1>6 DEF BitReadable
  <1> SUFFICES content.value \in {0, 1} /\ (content.ok => content.pos \in 0 .. Len(bits))
    BY DEF content
  <1> QED
    BY <1>4, <1>7, <1>8

-----------------------------------------------------------------------------
(* Type correctness *)

\* Nothing is written nor read at first.
LEMMA TypeInvInit == Init => TypeInv
  BY DEF Init, TypeInv, DataOK, PositionsOK

\* The place behind the presence bits of the root.
LEMMA HeaderEndNat ==
  ASSUME schema \in Schemas
  PROVE  HeaderEnd \in Nat
  BY OptionalsNat DEF HeaderEnd

\* The value of a present field is a bit.
LEMMA PresentValue ==
  ASSUME NEW kind \in RootKinds, kind # "null", NEW x \in ValuesOf(kind),
         Present(kind, x)
  PROVE  x \in {0, 1}
  BY DEF RootKinds, ValuesOf, Present

\* Definitions and value are not changed.
LEMMA DataOKStays ==
  ASSUME DataOK, UNCHANGED <<schema, value, tail>>, bits' \in Seq({0, 1})
  PROVE  DataOK'
  BY DEF DataOK, SenderFields

\* Every call keeps the types and the positions.
LEMMA TypeInvNext == TypeInv /\ [Next]_vars => TypeInv'
  <1> SUFFICES ASSUME TypeInv, [Next]_vars PROVE TypeInv'
    OBVIOUS
  <1>0. /\ schema \in Schemas /\ tail \in {0, 1} /\ bits \in Seq({0, 1})
        /\ Len(bits) \in Nat /\ HeaderEnd \in Nat /\ DataOK
    BY HeaderEndNat DEF TypeInv, DataOK
  <1>8. /\ SenderFields \in Seq(RootKinds) /\ ReceiverFields \in Seq(RootKinds)
        /\ Len(SenderFields) \in Nat /\ Len(ReceiverFields) \in Nat
    BY <1>0, FieldsTypes
  <1>1. CASE WriteHeader
    <2>0. /\ phase = "write" /\ phase' = "writeFields"
          /\ UNCHANGED <<schema, value, tail, field, pos, got, gotTail>>
      BY <1>1 DEF WriteHeader
    <2>1. bits' = [i \in 1 .. HeaderEnd |-> 0]
      BY <1>1 DEF WriteHeader, HeaderEnd
    <2>2. bits' \in Seq({0, 1}) /\ Len(bits') = HeaderEnd
      BY <2>1, <1>0
    <2>3. scope' \in Scopes
      <3>1. /\ (IF schema.extensible THEN 1 ELSE 0) \in Nat
            /\ (IF schema.extensible THEN 1 ELSE 0) + Optionals(schema) \in Nat
            /\ Len(schema.root) \in Nat /\ Len(schema.ext) \in Nat
        BY <1>0, OptionalsNat, SchemaTypes
      <3>2. CASE schema.extensible
        BY <3>1, <3>2, <1>1 DEF WriteHeader, ExtensibleSequence, ExtensibleSequences, Scopes
      <3>3. CASE ~schema.extensible
        BY <3>1, <3>3, <1>1 DEF WriteHeader, OptBitField, OptBitFields, Scopes
      <3> QED
        BY <3>2, <3>3
    <2>4. /\ HeaderEnd' = HeaderEnd /\ Len(SenderFields') = Len(SenderFields)
      BY <2>0 DEF HeaderEnd, SenderFields
    <2>5. field = 0 /\ pos = 0 /\ got = <<>> /\ gotTail = Absent
      BY <2>0 DEF TypeInv, PositionsOK
    <2>6. PositionsOK'
      <3>1. field' \in 0 .. Len(SenderFields') /\ Len(bits') >= HeaderEnd'
        BY <2>0, <2>2, <2>4, <2>5, <1>0, <1>8
      <3> QED
        BY <3>1, <2>0, <2>3, <2>5 DEF PositionsOK
    <2> QED
      BY <2>0, <2>2, <2>6, <1>0, DataOKStays DEF TypeInv
  <1>2. CASE WriteField
    <2> USE <1>2 DEF WriteField
    <2> DEFINE kind == SenderFields[field + 1]
               v == value[field + 1]
               entry == WriteEntry(IsOpt(kind), Present(kind, v))
    <2>1. /\ field \in 0 .. Len(SenderFields) /\ scope \in Scopes
          /\ pos = 0 /\ got = <<>> /\ gotTail = Absent /\ Len(bits) >= HeaderEnd
      BY DEF TypeInv, PositionsOK
    <2>2. field + 1 \in 1 .. Len(SenderFields)
      BY <2>1, <1>8
    <2>3. kind \in RootKinds /\ v \in ValuesOf(kind)
      <3> HIDE DEF WriteField
      <3>1. DOMAIN SenderFields = 1 .. Len(SenderFields)
        BY <1>8
      <3>2. kind \in RootKinds
        BY <2>2, <1>8
      <3>3. v \in ValuesOf(kind)
        BY <2>2, <3>1, <1>0 DEF DataOK
      <3> QED
        BY <3>2, <3>3
    <2>4. /\ entry.bits \in Seq({0, 1}) /\ Len(entry.bits) >= Len(bits)
          /\ entry.scope \in Scopes
      <3> HIDE DEF kind, v, WriteField
      <3>1. IsOpt(kind) \in BOOLEAN /\ Present(kind, v) \in BOOLEAN
        <4>1. IsOpt(kind) \in BOOLEAN
          BY DEF IsOpt
        <4>2. CASE kind = "def"
          BY <4>2, <4>1 DEF Present
        <4>3. CASE kind # "def"
          BY <4>3, <4>1 DEF Present
        <4> QED
          BY <4>2, <4>3
      <3> QED
        BY <3>1, <2>1, <1>0, WriteEntryType, Zenon
    <2>5. /\ bits' \in Seq({0, 1}) /\ Len(bits') >= Len(bits)
          /\ scope' \in Scopes /\ field' \in 0 .. Len(SenderFields)
          /\ phase' \in {"writeFields", "writeError"}
      <3>1. CASE kind = "null"
        <4>1. field' = field + 1 /\ UNCHANGED <<bits, scope, phase>>
          BY <3>1
        <4> HIDE DEF kind, WriteField
        <4>2. field + 1 \in 0 .. Len(SenderFields) /\ Len(bits) >= Len(bits)
          BY <2>2, <1>0, <1>8
        <4>3. phase = "writeFields"
          BY DEF WriteField
        <4> QED
          BY <4>1, <4>2, <4>3, <2>1, <1>0
      <3>2. CASE kind # "null" /\ entry.ok
        <4>1. /\ bits' = IF Present(kind, v)
                         THEN entry.bits \o Content(kind, v, entry.scope)
                         ELSE entry.bits
              /\ scope' = entry.scope /\ field' = field + 1 /\ phase' = phase
          BY <3>2
        <4>2. CASE Present(kind, v)
          <5> HIDE DEF kind, v, entry
          <5>1. v \in {0, 1}
            BY <3>2, <2>3, <4>2, PresentValue
          <5>2. Content(kind, v, entry.scope) \in Seq({0, 1})
            BY <5>1, <2>4, ContentType
          <5> DEFINE content == Content(kind, v, entry.scope)
          <5> HIDE DEF content
          <5>3. content \in Seq({0, 1})
            BY <5>2 DEF content
          <5>4. bits' = entry.bits \o content
            BY <4>1, <4>2 DEF content
          <5>5. /\ bits' \in Seq({0, 1}) /\ Len(bits') = Len(entry.bits) + Len(content)
                /\ Len(content) \in Nat
            <6> HIDE DEF WriteField
            <6>1. \A b \in Seq({0, 1}) :
                    b \o content \in Seq({0, 1}) /\ Len(b \o content) = Len(b) + Len(content)
              BY <5>3, JoinBits, Zenon
            <6> QED
              BY <5>3, <5>4, <6>1, <2>4
          <5>6. Len(bits') >= Len(bits)
            <6> HIDE DEF WriteField
            <6>1. Len(entry.bits) \in Nat
              BY <2>4
            <6> QED
              BY <5>5, <6>1, <2>4, <1>0
          <5> HIDE DEF WriteField
          <5>7. scope' \in Scopes /\ field' \in 0 .. Len(SenderFields)
                /\ phase' \in {"writeFields", "writeError"}
            <6>1. phase = "writeFields"
              BY <1>2 DEF WriteField
            <6> QED
              BY <4>1, <2>1, <2>2, <2>4, <6>1
          <5> QED
            BY <5>5, <5>6, <5>7
        <4>3. CASE ~Present(kind, v)
          <5> HIDE DEF kind, v, entry
          <5> QED
            BY <4>1, <4>3, <2>1, <2>2, <2>4
        <4> QED
          BY <4>2, <4>3
      <3>3. CASE kind # "null" /\ ~entry.ok
        <4>1. phase' = "writeError" /\ UNCHANGED <<bits, scope, field>>
          BY <3>3
        <4> HIDE DEF kind, entry
        <4> QED
          BY <4>1, <2>1, <1>0
      <3> QED
        BY <3>1, <3>2, <3>3
    <2>6. PositionsOK'
      <3>1. HeaderEnd' = HeaderEnd /\ Len(SenderFields') = Len(SenderFields)
        BY DEF HeaderEnd, SenderFields
      <3>4. Len(bits') \in Nat /\ Len(bits') >= Len(bits) /\ Len(bits) >= HeaderEnd
        <4> HIDE DEF WriteField
        <4> QED
          BY <2>1, <2>5
      <3>2. Len(bits') >= HeaderEnd
        <4> DEFINE m == Len(bits)
                   n == Len(bits')
        <4>1. m \in Nat /\ n \in Nat /\ n >= m /\ m >= HeaderEnd /\ HeaderEnd \in Nat
          BY <3>4, <1>0
        <4> HIDE DEF m, n, WriteField
        <4>2. n >= HeaderEnd
          BY <4>1
        <4> QED
          BY <4>2 DEF n
      <3>3. UNCHANGED <<pos, got, gotTail>>
        OBVIOUS
      <3> QED
        BY <3>1, <3>2, <3>3, <2>1, <2>5 DEF PositionsOK
    <2> QED
      BY <2>5, <2>6, <1>0, DataOKStays DEF TypeInv
  <1>3. CASE WriteTail
    <2> USE <1>3 DEF WriteTail
    <2>1. /\ scope \in Scopes /\ pos = 0 /\ got = <<>> /\ gotTail = Absent
          /\ Len(bits) >= HeaderEnd
      BY DEF TypeInv, PositionsOK
    <2>2. bits' \in Seq({0, 1}) /\ Len(bits') = Len(bits) + 1
      BY <1>0
    <2>3. HeaderEnd' = HeaderEnd
      BY DEF HeaderEnd
    <2>4. PositionsOK'
      BY <2>1, <2>2, <2>3, <1>0 DEF PositionsOK
    <2> QED
      BY <2>2, <2>4, <1>0, DataOKStays DEF TypeInv
  <1>4. CASE ReadHeader
    <2> USE <1>4 DEF ReadHeader
    <2>1. /\ field = 0 /\ got = <<>> /\ gotTail = Absent /\ Len(bits) >= HeaderEnd
      BY DEF TypeInv, PositionsOK
    <2>2. pos' = HeaderEnd
      BY DEF HeaderEnd
    <2>3. scope' \in Scopes
      <3>1. /\ (IF schema.extensible THEN 1 ELSE 0) \in Nat
            /\ (IF schema.extensible THEN 1 ELSE 0) + Optionals(schema) \in Nat
            /\ Len(schema.root) \in Nat /\ Len(schema.peerExt) \in Nat
        BY <1>0, OptionalsNat, SchemaTypes
      <3>2. CASE schema.extensible /\ BitAt(0) = 1
        BY <3>1, <3>2 DEF ExtensibleSequence, ExtensibleSequences, Scopes
      <3>3. CASE ~(schema.extensible /\ BitAt(0) = 1)
        BY <3>1, <3>3 DEF OptBitField, OptBitFields, Scopes
      <3> QED
        BY <3>2, <3>3
    <2>4. Len(ReceiverFields') = Len(ReceiverFields)
      BY DEF ReceiverFields
    <2>5. PositionsOK'
      <3>1. /\ bits' = bits /\ field' = 0 /\ got' = <<>> /\ gotTail' = Absent
            /\ phase' = "readFields"
        BY <2>1
      <3> QED
        BY <3>1, <2>1, <2>2, <2>3, <2>4, <1>0, <1>8 DEF PositionsOK
    <2> QED
      BY <2>5, <1>0, DataOKStays DEF TypeInv
  <1>5. CASE ReadField
    <2> USE <1>5 DEF ReadField
    <2> DEFINE kind == ReceiverFields[field + 1]
               entry == ReadEntry(IsOpt(kind))
               wanted == IsOpt(kind) => entry.present
               content == ReadContent(kind, entry.scope, entry.pos)
    <2>1. /\ field \in 0 .. Len(ReceiverFields) /\ scope \in Scopes
          /\ pos \in 0 .. Len(bits) /\ Len(got) = field
          /\ got \in Seq({0, 1, Absent, Null}) /\ gotTail \in {0, 1, Absent}
      BY DEF TypeInv, PositionsOK
    <2>2. entry.scope \in Scopes /\ entry.pos \in 0 .. Len(bits)
      <3>1. IsOpt(kind) \in BOOLEAN
        BY DEF IsOpt
      <3> HIDE DEF kind
      <3> QED
        BY <3>1, <2>1, <1>0, ReadEntryType, Zenon
    <2>3. content.value \in {0, 1} /\ (content.ok => content.pos \in 0 .. Len(bits))
      <3> HIDE DEF kind, entry
      <3> QED
        BY <2>2, <1>0, ReadContentType, Zenon
    <2>4. /\ scope' \in Scopes /\ pos' \in 0 .. Len(bits)
          /\ \/ field' = field /\ got' = got
             \/ /\ field' = field + 1
                /\ \E x \in {0, 1, Absent, Null} : got' = Append(got, x)
          /\ phase' \in {"readFields", "readError"}
      <3>1. CASE kind = "null"
        BY <3>1, <2>1
      <3>2. CASE kind # "null" /\ entry.ok /\ wanted /\ content.ok
        <4>1. /\ got' = Append(got, content.value) /\ pos' = content.pos
              /\ scope' = entry.scope /\ field' = field + 1 /\ phase' = phase
          BY <3>2
        <4>2. content.ok /\ phase = "readFields"
          BY <3>2
        <4> HIDE DEF kind, entry, wanted, content
        <4> QED
          BY <4>1, <4>2, <2>2, <2>3
      <3>3. CASE kind # "null" /\ entry.ok /\ ~wanted
        <4>1. /\ got' = Append(got, WhenAbsent(kind)) /\ pos' = entry.pos
              /\ scope' = entry.scope /\ field' = field + 1 /\ phase' = phase
          BY <3>3
        <4>2. WhenAbsent(kind) \in {0, 1, Absent, Null} /\ phase = "readFields"
          BY DEF WhenAbsent
        <4> HIDE DEF kind, entry, wanted, content
        <4> QED
          BY <4>1, <4>2, <2>2
      <3>4. CASE kind # "null" /\ (~entry.ok \/ (wanted /\ ~content.ok))
        <4>1. phase' = "readError" /\ UNCHANGED <<got, pos, scope, field>>
          BY <3>4
        <4> HIDE DEF kind, entry, wanted, content
        <4> QED
          BY <4>1, <2>1
      <3> QED
        BY <3>1, <3>2, <3>3, <3>4
    <2>5. /\ field' \in 0 .. Len(ReceiverFields) /\ Len(got') = field'
          /\ got' \in Seq({0, 1, Absent, Null})
      <3>0. field < Len(ReceiverFields)
        OBVIOUS
      <3> HIDE DEF ReadField, kind, entry, wanted, content
      <3>1. CASE field' = field /\ got' = got
        BY <3>1, <2>1
      <3>2. CASE /\ field' = field + 1
                 /\ \E x \in {0, 1, Absent, Null} : got' = Append(got, x)
        <4>1. PICK x \in {0, 1, Absent, Null} : got' = Append(got, x)
          BY <3>2
        <4>2. got' \in Seq({0, 1, Absent, Null}) /\ Len(got') = Len(got) + 1
          BY <4>1, <2>1
        <4> QED
          BY <4>2, <3>0, <3>2, <2>1, <1>8
      <3> QED
        BY <3>1, <3>2, <2>4
    <2>6. Len(ReceiverFields') = Len(ReceiverFields) /\ UNCHANGED <<bits, gotTail>>
      BY DEF ReceiverFields
    <2>7. PositionsOK'
      <3> HIDE DEF ReadField
      <3> QED
        BY <2>1, <2>4, <2>5, <2>6 DEF PositionsOK
    <2> QED
      BY <2>6, <2>7, <1>0, DataOKStays DEF TypeInv
  <1>6. CASE ReadTail
    <2> USE <1>6 DEF ReadTail
    <2>1. /\ field \in 0 .. Len(ReceiverFields) /\ scope \in Scopes
          /\ pos \in 0 .. Len(bits) /\ Len(got) = field
          /\ got \in Seq({0, 1, Absent, Null}) /\ gotTail \in {0, 1, Absent}
      BY DEF TypeInv, PositionsOK
    <2>2. BitReadable(pos) => BitAt(pos) \in {0, 1} /\ pos + 1 \in 0 .. Len(bits)
      <3>1. pos \in Nat
        BY <2>1, <1>0
      <3> QED
        BY <3>1, <1>0, BitAtBit DEF BitReadable
    <2>3. /\ pos' \in 0 .. Len(bits) /\ gotTail' \in {0, 1, Absent}
          /\ phase' \in {"readError", "done"}
      BY <2>1, <2>2
    <2>4. /\ Len(ReceiverFields') = Len(ReceiverFields)
          /\ UNCHANGED <<bits, scope, field, got>>
      BY DEF ReceiverFields
    <2>5. PositionsOK'
      BY <2>1, <2>3, <2>4 DEF PositionsOK
    <2> QED
      BY <2>4, <2>5, <1>0, DataOKStays DEF TypeInv
  <1>7. CASE UNCHANGED vars
    BY <1>7 DEF vars, TypeInv, DataOK, PositionsOK, SenderFields, ReceiverFields,
                HeaderEnd
  <1> QED
    BY <1>1, <1>2, <1>3, <1>4, <1>5, <1>6, <1>7 DEF Next

\* The types and the positions hold in every state.
LEMMA TypeInvHolds == Spec => []TypeInv
  BY TypeInvInit, TypeInvNext, PTL DEF Spec

\* Whatever the definitions of both peers: the bits are bits, every field is
\* handled by a scope the code knows, and set_pos, read_bit and skip_bits never
\* take the receiver beyond the end of what was sent.
THEOREM TypeCorrect == Spec => []TypeOK
  <1>1. TypeInv => TypeOK
    <2> SUFFICES ASSUME TypeInv PROVE TypeOK
      OBVIOUS
    <2>1. /\ Len(SenderFields) \in Nat /\ Len(ReceiverFields) \in Nat
          /\ Len(bits) \in Nat
      BY FieldsTypes, SchemaTypes DEF TypeInv, DataOK
    <2>2. phase # "write" => scope.type \in {"OptBitField", "AllBitField",
                               "ExtensibleSequence", "ExtensibleSequenceEmpty"}
      BY DEF TypeInv, PositionsOK, Scopes, OptBitFields, AllBitFields,
             ExtensibleSequences, ExtensibleSequenceEmpty
    <2> QED
      <3>1. scope.type \in {"None", "OptBitField", "AllBitField",
                             "ExtensibleSequence", "ExtensibleSequenceEmpty"}
        BY <2>2 DEF TypeInv, PositionsOK, NoScope
      <3>2. /\ field \in 0 .. Len(SenderFields) + Len(ReceiverFields)
            /\ pos \in 0 .. Len(bits) /\ Len(got) <= Len(ReceiverFields)
            /\ gotTail \in {0, 1, Absent} /\ phase \in Phases
        BY <2>1 DEF TypeInv, PositionsOK, Phases
      <3> QED
        BY <3>1, <3>2 DEF TypeInv, DataOK, TypeOK
  <1> QED
    BY <1>1, TypeInvHolds, PTL

-----------------------------------------------------------------------------
(* The layout of a message *)

RootLen == Len(schema.root)
ExtLen == Len(schema.ext)
PeerLen == Len(schema.peerExt)
Flag == IF schema.extensible THEN 1 ELSE 0
Marks(k) == Cardinality({i \in 1 .. k : IsOpt(schema.root[i])})

\* A field with a value to send.
Given(i) == SenderFields[i] # "null" /\ Sent(i)

\* The additions are sent when the first one is given.
Extended == schema.ext # <<>> /\ Given(RootLen + 1)

\* The bits in front of a field, and its own.
Gap(i) == IF i = RootLen + 1 /\ Given(i) THEN 7 + ExtLen ELSE 0
Piece(i) ==
    IF ~Given(i) THEN <<>>
    ELSE IF i > RootLen /\ SenderFields[i] # "def" THEN OpenType(value[i])
    ELSE <<value[i]>>

Size(i) == Len(Piece(i))

\* at[i] is the number of bits up to the end of field i.
Layout(at, k) ==
    /\ at \in [Nat -> Nat] /\ at[0] = HeaderEnd
    /\ \A i \in 1 .. k : at[i] = at[i - 1] + Gap(i) + Size(i)
    /\ \A i, j \in 0 .. k : i <= j => at[i] <= at[j]

\* Every field's own bits are the last ones of its place.
PiecesLaid(at, b, k) ==
    \A i \in 1 .. k : \A j \in 1 .. Size(i) :
        b[at[i] - Size(i) + j] = Piece(i)[j]

\* The presence bits of the root.
MarksLaid(b, k) ==
    \A i \in 1 .. k :
        i <= RootLen /\ IsOpt(SenderFields[i]) => b[Flag + Marks(i)] = Bit(Given(i))

\* The extension bit, the number of additions and their presence bits.
ExtensionLaid(at, b, k) ==
    /\ schema.extensible => b[1] = Bit(k > RootLen /\ Extended)
    /\ k > RootLen /\ Extended =>
        /\ b[at[RootLen] + 1] = 0
        /\ \A j \in 1 .. 6 : b[at[RootLen] + 1 + j] = ToBits(ExtLen - 1, 6)[j]
        /\ \A i \in RootLen + 1 .. k : b[at[RootLen] + 7 + (i - RootLen)] = Bit(Given(i))

Laid(at, b, k) ==
    Layout(at, k) /\ PiecesLaid(at, b, k) /\ MarksLaid(b, k) /\ ExtensionLaid(at, b, k)

\* The scope of the writer after k fields.
WriterScope(s, at, k) ==
    IF ~schema.extensible THEN s = OptBitField(Marks(k), HeaderEnd)
    ELSE IF k <= RootLen
    THEN \E c \in Nat :
            /\ s = ExtensibleSequence(0, 1 + Marks(k), HeaderEnd, c, ExtLen)
            /\ c >= RootLen - k /\ (schema.ext # <<>> => c = RootLen - k)
    ELSE IF Extended
    THEN s = AllBitField(at[RootLen] + 7 + (k - RootLen),
                             at[RootLen] + 7 + ExtLen)
    ELSE s = ExtensibleSequenceEmpty

\* No addition is given without the first one.
InOrder(k) == \A i \in RootLen + 1 .. k : Given(i) => Extended

\* Presence bits are counted one by one.
LEMMA MarksCount ==
  ASSUME schema \in Schemas
  PROVE  /\ Marks(0) = 0 /\ Marks(RootLen) = Optionals(schema)
         /\ \A k \in 0 .. RootLen : Marks(k) \in Nat
         /\ \A k \in 1 .. RootLen :
              Marks(k) = Marks(k - 1) + (IF IsOpt(schema.root[k]) THEN 1 ELSE 0)
         /\ \A i, k \in 0 .. RootLen : i <= k => Marks(i) <= Marks(k)
  <1> DEFINE Marked(k) == {i \in 1 .. k : IsOpt(schema.root[i])}
  <1>0. /\ RootLen \in Nat /\ DOMAIN schema.root = 1 .. RootLen
    <2>1. schema.root \in Seq(RootKinds)
      BY SchemaTypes
    <2> QED
      BY <2>1 DEF RootLen
  <1>1. \A k \in Nat : IsFiniteSet(Marked(k)) /\ Cardinality(Marked(k)) \in Nat
    <2> TAKE k \in Nat
    <2>1. IsFiniteSet(1 .. k)
      BY FS_Interval
    <2>2. IsFiniteSet(Marked(k))
      BY <2>1, FS_Subset
    <2> QED
      BY <2>2, FS_CardinalityType
  <1>2. Marks(0) = 0
    <2>1. Marked(0) = {}
      OBVIOUS
    <2> QED
      BY <2>1, FS_EmptySet DEF Marks
  <1>3. Marks(RootLen) = Optionals(schema)
    BY <1>0 DEF Marks, Optionals
  <1>4. ASSUME NEW k \in 1 .. RootLen
        PROVE  Marks(k) = Marks(k - 1) + (IF IsOpt(schema.root[k]) THEN 1 ELSE 0)
    <2>1. k - 1 \in Nat
      OBVIOUS
    <2>2. CASE IsOpt(schema.root[k])
      <3>1. Marked(k) = Marked(k - 1) \cup {k} /\ k \notin Marked(k - 1)
        BY <2>2, <1>0
      <3>2. IsFiniteSet(Marked(k - 1))
        BY <2>1, <1>1
      <3>3. Cardinality(Marked(k - 1) \cup {k}) = Cardinality(Marked(k - 1)) + 1
        <4> HIDE DEF Marked
        <4> QED
          BY <3>1, <3>2, FS_AddElement
      <3> QED
        BY <2>2, <3>1, <3>3 DEF Marks
    <2>3. CASE ~IsOpt(schema.root[k])
      <3>1. Marked(k) = Marked(k - 1)
        BY <2>3, <1>0
      <3>2. Cardinality(Marked(k - 1)) \in Nat
        BY <2>1, <1>1
      <3> QED
        BY <2>3, <3>1, <3>2 DEF Marks
    <2> QED
      BY <2>2, <2>3
  <1>5. ASSUME NEW i \in 0 .. RootLen, NEW k \in 0 .. RootLen, i <= k
        PROVE  Marks(i) <= Marks(k)
    <2>1. Marked(i) \subseteq Marked(k) /\ k \in Nat
      BY <1>0, <1>5
    <2>2. IsFiniteSet(Marked(k))
      BY <2>1, <1>1
    <2>3. Cardinality(Marked(i)) <= Cardinality(Marked(k))
      <3> HIDE DEF Marked
      <3> QED
        BY <2>1, <2>2, FS_Subset
    <2> QED
      BY <2>3 DEF Marks
  <1>6. \A k \in 0 .. RootLen : Marks(k) \in Nat
    BY <1>0, <1>1 DEF Marks
  <1> QED
    BY <1>2, <1>3, <1>4, <1>5, <1>6

\* The fields of the sender, and what each adds to the bits.
LEMMA LayoutTypes ==
  ASSUME DataOK
  PROVE  /\ RootLen \in Nat /\ RootLen > 0 /\ ExtLen \in Nat /\ ExtLen <= 64
         /\ PeerLen \in Nat
         /\ Len(SenderFields) \in Nat /\ Len(ReceiverFields) \in Nat
         /\ Len(SenderFields) = RootLen + ExtLen
         /\ Len(ReceiverFields) = RootLen + PeerLen
         /\ Flag \in {0, 1} /\ HeaderEnd = Flag + Optionals(schema)
         /\ Optionals(schema) \in Nat /\ HeaderEnd \in Nat
         /\ schema.extensible => Flag = 1
         /\ ~schema.extensible => Flag = 0 /\ ExtLen = 0
         /\ \A i \in 1 .. RootLen :
              SenderFields[i] = schema.root[i] /\ ReceiverFields[i] = schema.root[i]
         /\ \A i \in 1 .. Len(SenderFields) :
              SenderFields[i] \in RootKinds /\ value[i] \in ValuesOf(SenderFields[i])
         /\ \A i \in RootLen + 1 .. Len(SenderFields) : SenderFields[i] \in ExtKinds
  <1>0. schema \in Schemas
    BY DEF DataOK
  <1>1. /\ RootLen \in Nat /\ RootLen > 0 /\ ExtLen \in Nat /\ ExtLen <= 64
        /\ PeerLen \in Nat
    <2>1. schema.root \in Seq(RootKinds) /\ schema.root # <<>> /\ Len(schema.ext) <= 64
      BY <1>0, SchemasAssumption
    <2>2. ExtLen \in Nat /\ PeerLen \in Nat
      BY <1>0, SchemaTypes DEF ExtLen, PeerLen
    <2>3. RootLen \in Nat /\ RootLen # 0
      BY <2>1, EmptySeq DEF RootLen
    <2>4. ExtLen <= 64
      BY <2>1 DEF ExtLen
    <2> QED
      BY <2>2, <2>3, <2>4
  <1>2. /\ Flag \in {0, 1} /\ HeaderEnd = Flag + Optionals(schema)
        /\ schema.extensible => Flag = 1
        /\ ~schema.extensible => Flag = 0
    BY DEF Flag, HeaderEnd
  <1>3. Optionals(schema) \in Nat /\ HeaderEnd \in Nat
    BY <1>0, OptionalsNat, HeaderEndNat
  <1>4. ~schema.extensible => ExtLen = 0
    <2>1. schema.extensible \/ schema.ext = <<>>
      BY <1>0, SchemasAssumption
    <2> QED
      BY <2>1 DEF ExtLen
  <1>5. /\ Len(SenderFields) = RootLen + ExtLen
        /\ Len(ReceiverFields) = RootLen + PeerLen
        /\ \A i \in 1 .. RootLen :
              SenderFields[i] = schema.root[i] /\ ReceiverFields[i] = schema.root[i]
    BY <1>0, FieldsTypes DEF RootLen, ExtLen, PeerLen
  <1>6. \A i \in 1 .. Len(SenderFields) :
              SenderFields[i] \in RootKinds /\ value[i] \in ValuesOf(SenderFields[i])
    <2>1. SenderFields \in Seq(RootKinds)
      BY <1>0, FieldsTypes
    <2> QED
      BY <2>1 DEF DataOK
  <1>7. \A i \in RootLen + 1 .. Len(SenderFields) : SenderFields[i] \in ExtKinds
    <2> TAKE i \in RootLen + 1 .. Len(SenderFields)
    <2>1. i - RootLen \in 1 .. ExtLen /\ RootLen + (i - RootLen) = i
      BY <1>1, <1>5
    <2>2. SenderFields[RootLen + (i - RootLen)] = schema.ext[i - RootLen]
      BY <1>0, <2>1, FieldsTypes DEF RootLen, ExtLen
    <2>3. schema.ext \in Seq(ExtKinds)
      BY <1>0, SchemaTypes
    <2> QED
      BY <2>1, <2>2, <2>3 DEF ExtLen
  <1>8. Len(SenderFields) \in Nat /\ Len(ReceiverFields) \in Nat
    BY <1>1, <1>5
  <1> QED
    BY <1>1, <1>2, <1>3, <1>4, <1>5, <1>6, <1>7, <1>8

\* Of these, the ones about lengths alone.
LEMMA LayoutSizes ==
  ASSUME DataOK
  PROVE  /\ RootLen \in Nat /\ ExtLen \in Nat /\ PeerLen \in Nat
         /\ Len(SenderFields) \in Nat /\ Len(ReceiverFields) \in Nat
         /\ Len(SenderFields) = RootLen + ExtLen
         /\ Len(ReceiverFields) = RootLen + PeerLen
         /\ RootLen > 0 /\ Flag \in {0, 1} /\ HeaderEnd \in Nat
         /\ (schema.extensible => Flag = 1)
         /\ (~schema.extensible => Flag = 0 /\ ExtLen = 0)
  BY LayoutTypes

\* What a field adds to a message are bits; at least one, if it is given.
LEMMA PieceType ==
  ASSUME DataOK, NEW i \in 1 .. Len(SenderFields)
  PROVE  /\ Piece(i) \in Seq({0, 1}) /\ Size(i) \in Nat /\ Gap(i) \in Nat
         /\ Given(i) => value[i] \in {0, 1} /\ Size(i) >= 1
         /\ ~Given(i) => Size(i) = 0
  <1>1. SenderFields[i] \in RootKinds /\ value[i] \in ValuesOf(SenderFields[i])
    BY LayoutTypes
  <1>2. Given(i) => value[i] \in {0, 1}
    BY <1>1, PresentValue DEF Given, Sent
  <1>3. CASE Given(i)
    <2>1. /\ OpenType(value[i]) \in Seq({0, 1}) /\ Len(OpenType(value[i])) = 16
          /\ <<value[i]>> \in Seq({0, 1}) /\ Len(<<value[i]>>) = 1
      BY <1>2, <1>3, OpenTypeBits
    <2>2. Piece(i) = OpenType(value[i]) \/ Piece(i) = <<value[i]>>
      BY <1>3 DEF Piece
    <2>3. Gap(i) \in Nat
      <3>1. ExtLen \in Nat
        BY LayoutTypes
      <3> QED
        BY <3>1 DEF Gap
    <2>4. Piece(i) \in Seq({0, 1}) /\ Size(i) \in Nat /\ Size(i) >= 1
      <3>1. CASE Piece(i) = OpenType(value[i])
        <4> DEFINE o == OpenType(value[i])
        <4>1. o \in Seq({0, 1}) /\ Len(o) = 16 /\ Piece(i) = o
          BY <2>1, <3>1
        <4> HIDE DEF o
        <4>2. Piece(i) \in Seq({0, 1})
          BY <4>1
        <4>3. Size(i) = 16
          BY <4>1 DEF Size
        <4> QED
          BY <4>2, <4>3
      <3>2. CASE Piece(i) = <<value[i]>>
        BY <2>1, <3>2 DEF Size
      <3> QED
        BY <2>2, <3>1, <3>2
    <2> QED
      BY <1>2, <1>3, <2>3, <2>4
  <1>4. CASE ~Given(i)
    BY <1>4 DEF Piece, Gap, Size
  <1> QED
    BY <1>3, <1>4

\* Where the pieces are: behind the header, and either in front of the bit
\* field of the additions or behind it.
LEMMA PiecePlace ==
  ASSUME DataOK, NEW at, NEW k \in 0 .. Len(SenderFields), Layout(at, k),
         NEW i \in 1 .. k, NEW j \in 1 .. Size(i)
  PROVE  LET p == at[i] - Size(i) + j
         IN  /\ p \in HeaderEnd + 1 .. at[k]
             /\ i <= RootLen => p <= at[i]
             /\ i > RootLen /\ Extended => p > at[RootLen] + 7 + ExtLen
  <1> DEFINE lo == at[i - 1]
             hi == at[i]
             len == Size(i)
             gap == Gap(i)
             p == hi - len + j
  <1>0. /\ Len(SenderFields) \in Nat /\ HeaderEnd \in Nat /\ RootLen \in Nat
        /\ ExtLen \in Nat
    BY LayoutTypes
  <1>1. /\ i \in 1 .. Len(SenderFields) /\ i - 1 \in 0 .. k /\ i \in 0 .. k /\ 0 \in 0 .. k
        /\ k \in 0 .. k /\ i \in Nat /\ i - 1 \in Nat /\ k \in Nat /\ i - 1 <= i
    BY <1>0
  <1>2. len \in Nat /\ gap \in Nat
    BY <1>1, PieceType
  <1>3. /\ hi = lo + gap + len /\ at[0] = HeaderEnd
        /\ at[0] <= lo /\ hi <= at[k]
    BY <1>1 DEF Layout
  <1>4. hi \in Nat /\ lo \in Nat /\ at[k] \in Nat
    <2>1. \A n \in Nat : at[n] \in Nat
      BY DEF Layout
    <2> QED
      BY <2>1, <1>1
  <1>5. p \in lo + gap + 1 .. hi
    <2> HIDE DEF lo, hi, gap
    <2>1. j \in 1 .. len
      OBVIOUS
    <2> HIDE DEF len
    <2> QED
      BY <1>2, <1>3, <1>4, <2>1
  <1>8. p \in Int /\ p >= lo + gap + 1
    <2> HIDE DEF p, lo, hi, gap
    <2> QED
      BY <1>2, <1>4, <1>5
  <1>6. p \in HeaderEnd + 1 .. at[k] /\ p <= hi
    <2> HIDE DEF p, lo, hi, gap, len
    <2> QED
      BY <1>0, <1>2, <1>3, <1>4, <1>5
  <1>7. ASSUME i > RootLen, Extended PROVE p > at[RootLen] + 7 + ExtLen
    <2>1. CASE i = RootLen + 1
      <3>1. i - 1 = RootLen
        BY <2>1, <1>0
      <3>2. gap = 7 + ExtLen /\ lo = at[RootLen]
        BY <2>1, <3>1, <1>7 DEF Gap, Extended
      <3> HIDE DEF p, lo, hi, gap
      <3>3. lo + (7 + ExtLen) + 1 > lo + 7 + ExtLen /\ lo + 7 + ExtLen \in Int
        BY <1>0, <1>4
      <3>4. p >= lo + (7 + ExtLen) + 1
        BY <3>2, <1>8
      <3>5. p > lo + 7 + ExtLen
        BY <3>3, <3>4, <1>0, <1>4, <1>8
      <3> QED
        BY <3>2, <3>5
    <2>2. CASE i # RootLen + 1
      <3>1. /\ RootLen + 1 \in 1 .. k /\ RootLen + 1 \in 0 .. k /\ RootLen + 1 <= i - 1
            /\ (RootLen + 1) - 1 = RootLen /\ RootLen \in Nat /\ RootLen + 1 \in Nat
            /\ RootLen + 1 \in 1 .. Len(SenderFields)
        BY <2>2, <1>0, <1>7
      <3>2. at[RootLen + 1] <= lo
        BY <3>1, <1>1 DEF Layout
      <3>3. at[RootLen + 1] = at[RootLen] + Gap(RootLen + 1) + Size(RootLen + 1)
        BY <3>1 DEF Layout
      <3>4. Gap(RootLen + 1) = 7 + ExtLen
        BY <1>7 DEF Gap, Extended
      <3>5. Size(RootLen + 1) \in Nat
        BY <3>1, PieceType
      <3>6. at[RootLen] \in Nat /\ at[RootLen + 1] \in Nat
        <4>1. \A n \in Nat : at[n] \in Nat
          BY DEF Layout
        <4> QED
          BY <4>1, <3>1
      <3>7. at[RootLen + 1] >= at[RootLen] + 7 + ExtLen
        <4> DEFINE x == at[RootLen]
                   y == at[RootLen + 1]
                   z == Size(RootLen + 1)
        <4>1. y = x + (7 + ExtLen) + z /\ x \in Nat /\ y \in Nat /\ z \in Nat
          BY <3>3, <3>4, <3>5, <3>6
        <4> HIDE DEF x, y, z
        <4>2. y >= x + 7 + ExtLen
          BY <4>1, <1>0
        <4> QED
          BY <4>2 DEF x, y
      <3> HIDE DEF p, lo, hi, gap
      <3>8. p > lo
        BY <1>2, <1>4, <1>8
      <3>9. p > at[RootLen + 1]
        <4> DEFINE y == at[RootLen + 1]
        <4>1. y <= lo /\ y \in Nat /\ p > lo
          BY <3>2, <3>6, <3>8
        <4> HIDE DEF y
        <4>2. p > y
          BY <4>1, <1>4, <1>8
        <4> QED
          BY <4>2 DEF y
      <3> DEFINE x == at[RootLen]
                 y == at[RootLen + 1]
      <3>10. x \in Nat /\ y \in Nat /\ y >= x + 7 + ExtLen /\ p > y
        BY <3>6, <3>7, <3>9
      <3> HIDE DEF x, y
      <3>11. p > x + 7 + ExtLen
        BY <3>10, <1>0, <1>8
      <3> QED
        BY <3>11 DEF x
    <2> QED
      BY <2>1, <2>2
  <1> SUFFICES /\ p \in HeaderEnd + 1 .. at[k]
               /\ i <= RootLen => p <= at[i]
               /\ i > RootLen /\ Extended => p > at[RootLen] + 7 + ExtLen
    OBVIOUS
  <1> HIDE DEF p
  <1> QED
    BY <1>6, <1>7

\* at holds numbers, and grows from the end of the header.
LEMMA LayoutNumbers ==
  ASSUME DataOK, NEW at, NEW k \in 0 .. Len(SenderFields), Layout(at, k)
  PROVE  /\ \A i \in 0 .. k : at[i] \in Nat /\ HeaderEnd <= at[i] /\ at[i] <= at[k]
         /\ at[k] \in Nat /\ HeaderEnd <= at[k]
         /\ at[RootLen] \in Nat
         /\ k >= RootLen => HeaderEnd <= at[RootLen] /\ at[RootLen] <= at[k]
  <1>0. Len(SenderFields) \in Nat /\ RootLen \in Nat
    BY LayoutTypes
  <1>1. k \in 0 .. k /\ 0 \in 0 .. k /\ k \in Nat
    BY <1>0
  <1>2. \A n \in Nat : at[n] \in Nat
    BY DEF Layout
  <1>3. ASSUME NEW i \in 0 .. k PROVE at[i] \in Nat /\ HeaderEnd <= at[i] /\ at[i] <= at[k]
    <2>1. 0 <= i /\ i <= k /\ i \in Nat
      BY <1>1
    <2> QED
      BY <2>1, <1>1, <1>2 DEF Layout
  <1>4. at[k] \in Nat /\ HeaderEnd <= at[k]
    BY <1>1, <1>3
  <1>5. k >= RootLen => RootLen \in 0 .. k
    BY <1>0, <1>1
  <1>6. k >= RootLen => HeaderEnd <= at[RootLen] /\ at[RootLen] <= at[k]
    BY <1>3, <1>5
  <1> QED
    BY <1>0, <1>2, <1>3, <1>4, <1>6

\* The bit field of the additions ends where the first of them begins.
LEMMA BitFieldPlace ==
  ASSUME DataOK, NEW at, NEW k \in 0 .. Len(SenderFields), Layout(at, k),
         Extended, k > RootLen
  PROVE  at[RootLen] + 7 + ExtLen <= at[k]
  <1>0. Len(SenderFields) \in Nat /\ RootLen \in Nat /\ ExtLen \in Nat
    BY LayoutTypes
  <1>1. /\ RootLen + 1 \in 1 .. k /\ RootLen + 1 \in 0 .. k
        /\ RootLen + 1 \in 1 .. Len(SenderFields) /\ (RootLen + 1) - 1 = RootLen
    BY <1>0
  <1>2. at[RootLen + 1] = at[RootLen] + Gap(RootLen + 1) + Size(RootLen + 1)
    BY <1>1 DEF Layout
  <1>3. Gap(RootLen + 1) = 7 + ExtLen
    BY DEF Gap, Extended
  <1>4. Size(RootLen + 1) \in Nat
    BY <1>1, PieceType
  <1>5. at[RootLen + 1] \in Nat /\ at[RootLen] \in Nat /\ at[RootLen + 1] <= at[k]
        /\ at[k] \in Nat
    BY <1>1, LayoutNumbers
  <1> DEFINE x == at[RootLen]
             y == at[RootLen + 1]
             z == at[k]
             size == Size(RootLen + 1)
  <1>6. /\ y = x + (7 + ExtLen) + size /\ y <= z
        /\ x \in Nat /\ y \in Nat /\ z \in Nat /\ size \in Nat
    BY <1>2, <1>3, <1>4, <1>5
  <1> HIDE DEF x, y, z, size
  <1>7. x + 7 + ExtLen <= z
    BY <1>6, <1>0
  <1> QED
    BY <1>7 DEF x, z

\* The presence bits of the root are in the header, one for each of its fields.
LEMMA MarkPlace ==
  ASSUME DataOK, NEW i \in 1 .. RootLen, IsOpt(SenderFields[i])
  PROVE  /\ Flag + Marks(i) \in Flag + 1 .. HeaderEnd
         /\ Marks(i) = Marks(i - 1) + 1
         /\ Marks(i) \in Nat /\ Marks(i - 1) \in Nat
         /\ \A k \in 0 .. RootLen : k < i => Marks(k) \in Nat /\ Marks(k) < Marks(i)
  <1>0. /\ RootLen \in Nat /\ Flag \in {0, 1} /\ HeaderEnd = Flag + Optionals(schema)
        /\ Optionals(schema) \in Nat /\ schema \in Schemas
        /\ SenderFields[i] = schema.root[i]
    BY LayoutTypes DEF DataOK
  <1>1. i \in 0 .. RootLen /\ i - 1 \in 0 .. RootLen /\ RootLen \in 0 .. RootLen
    BY <1>0
  <1>2. Marks(i) = Marks(i - 1) + 1
    BY <1>0, MarksCount
  <1>3. Marks(i) \in Nat /\ Marks(i - 1) \in Nat
    BY <1>0, <1>1, MarksCount
  <1>4. Marks(i) <= Optionals(schema)
    <2>1. i <= RootLen
      BY <1>0
    <2>2. Marks(i) <= Marks(RootLen) /\ Marks(RootLen) = Optionals(schema)
      BY <2>1, <1>0, <1>1, MarksCount
    <2> QED
      BY <2>2
  <1>5. ASSUME NEW k \in 0 .. RootLen, k < i PROVE Marks(k) \in Nat /\ Marks(k) < Marks(i)
    <2>1. k <= i - 1
      BY <1>0, <1>5
    <2>2. Marks(k) <= Marks(i - 1) /\ Marks(k) \in Nat
      BY <2>1, <1>0, <1>1, MarksCount
    <2> QED
      BY <2>2, <1>2, <1>3
  <1>6. Flag + Marks(i) \in Flag + 1 .. HeaderEnd
    BY <1>0, <1>2, <1>3, <1>4
  <1> QED
    BY <1>2, <1>3, <1>5, <1>6

\* Bits that change neither in the pieces, nor in front of the first addition,
\* leave the pieces where they are.
LEMMA PiecesKept ==
  ASSUME DataOK, NEW at, NEW k \in 0 .. Len(SenderFields), Layout(at, k),
         NEW b, NEW c, PiecesLaid(at, b, k),
         \A p \in HeaderEnd + 1 .. at[k] :
            \/ c[p] = b[p]
            \/ /\ k > RootLen /\ Extended
               /\ p > at[RootLen] /\ p <= at[RootLen] + 7 + ExtLen
  PROVE  PiecesLaid(at, c, k)
  <1> SUFFICES ASSUME NEW i \in 1 .. k, NEW j \in 1 .. Size(i)
               PROVE  c[at[i] - Size(i) + j] = Piece(i)[j]
    BY DEF PiecesLaid
  <1> DEFINE p == at[i] - Size(i) + j
  <1>0. Len(SenderFields) \in Nat /\ RootLen \in Nat /\ ExtLen \in Nat
    BY LayoutTypes
  <1>1. b[p] = Piece(i)[j]
    BY DEF PiecesLaid
  <1>2. /\ p \in HeaderEnd + 1 .. at[k]
        /\ i <= RootLen => p <= at[i]
        /\ i > RootLen /\ Extended => p > at[RootLen] + 7 + ExtLen
    BY PiecePlace
  <1> HIDE DEF p
  <1>3. c[p] = b[p] \/ (k > RootLen /\ Extended /\ p > at[RootLen]
                           /\ p <= at[RootLen] + 7 + ExtLen)
    BY <1>2
  <1>4. ~(k > RootLen /\ Extended /\ p > at[RootLen] /\ p <= at[RootLen] + 7 + ExtLen)
    <2>1. SUFFICES ASSUME k > RootLen, Extended, p > at[RootLen],
                          p <= at[RootLen] + 7 + ExtLen
                   PROVE  FALSE
      OBVIOUS
    <2>2. at[RootLen] \in Nat /\ at[i] \in Nat /\ p \in Int
      <3>1. i \in 0 .. k
        BY <1>0
      <3>2. HeaderEnd \in Nat /\ at[k] \in Nat
        BY LayoutTypes, LayoutNumbers
      <3> QED
        BY <3>1, <3>2, <1>2, LayoutNumbers
    <2>3. CASE i <= RootLen
      <3>1. /\ i \in 0 .. k /\ RootLen \in 0 .. k
        BY <1>0, <2>1
      <3>2. at[i] <= at[RootLen]
        BY <3>1, <2>3 DEF Layout
      <3> QED
        BY <3>2, <2>1, <2>2, <2>3, <1>2
    <2>4. CASE i > RootLen
      BY <2>1, <2>2, <2>4, <1>0, <1>2
    <2> QED
      BY <2>3, <2>4, <1>0
  <1> QED
    BY <1>1, <1>3, <1>4 DEF p

\* The layout goes on with the next field.
LEMMA LayoutGoesOn ==
  ASSUME DataOK, NEW at, NEW k \in 0 .. Len(SenderFields) - 1, Layout(at, k)
  PROVE  \E next : /\ Layout(next, k + 1)
                   /\ \A i \in 0 .. k : next[i] = at[i]
                   /\ next[k + 1] = at[k] + Gap(k + 1) + Size(k + 1)
  <1> DEFINE next == [at EXCEPT ![k + 1] = at[k] + Gap(k + 1) + Size(k + 1)]
  <1>0. /\ Len(SenderFields) \in Nat /\ k \in Nat /\ k + 1 \in 1 .. Len(SenderFields)
        /\ k \in 0 .. Len(SenderFields) /\ k \in 0 .. k
    BY LayoutSizes
  <1>1. Gap(k + 1) \in Nat /\ Size(k + 1) \in Nat
    BY <1>0, PieceType
  <1>2. at \in [Nat -> Nat] /\ at[0] = HeaderEnd
    BY DEF Layout
  <1>3. at[k] \in Nat /\ at[k] + Gap(k + 1) + Size(k + 1) \in Nat
    <2>1. at[k] \in Nat
      BY <1>0, LayoutNumbers
    <2> QED
      BY <2>1, <1>1
  <1>4. /\ next \in [Nat -> Nat] /\ next[k + 1] = at[k] + Gap(k + 1) + Size(k + 1)
        /\ \A i \in 0 .. k : next[i] = at[i]
    <2> DEFINE x == at[k] + Gap(k + 1) + Size(k + 1)
    <2>1. x \in Nat /\ next = [at EXCEPT ![k + 1] = x]
      BY <1>3
    <2> HIDE DEF x
    <2>2. next \in [Nat -> Nat]
      BY <2>1, <1>0, <1>2
    <2>3. next[k + 1] = x /\ \A i \in 0 .. k : next[i] = at[i]
      BY <2>1, <1>0, <1>2
    <2> QED
      BY <2>2, <2>3 DEF x
  <1> HIDE DEF next
  <1>5. next[0] = HeaderEnd
    BY <1>0, <1>2, <1>4
  <1>6. ASSUME NEW i \in 1 .. k + 1
        PROVE  next[i] = next[i - 1] + Gap(i) + Size(i)
    <2>1. CASE i = k + 1
      <3>1. i - 1 = k /\ next[k] = at[k]
        BY <2>1, <1>0, <1>4
      <3> QED
        BY <3>1, <2>1, <1>4
    <2>2. CASE i \in 1 .. k
      <3>1. i \in 0 .. k /\ i - 1 \in 0 .. k
        BY <2>2, <1>0
      <3>2. at[i] = at[i - 1] + Gap(i) + Size(i)
        BY <2>2 DEF Layout
      <3> QED
        BY <3>1, <3>2, <1>4
    <2> QED
      BY <2>1, <2>2, <1>0
  <1>7. ASSUME NEW i \in 0 .. k + 1, NEW j \in 0 .. k + 1, i <= j
        PROVE  next[i] <= next[j]
    <2>1. CASE j \in 0 .. k
      <3>1. i \in 0 .. k
        BY <2>1, <1>0, <1>7
      <3>2. at[i] <= at[j]
        BY <2>1, <3>1, <1>7 DEF Layout
      <3> QED
        BY <3>1, <3>2, <2>1, <1>4
    <2>2. CASE i = k + 1
      <3>1. j = k + 1
        BY <2>2, <1>0, <1>7
      <3> QED
        BY <2>2, <3>1, <1>3, <1>4
    <2>3. CASE j = k + 1 /\ i \in 0 .. k
      <3>1. at[i] <= at[k] /\ at[i] \in Nat /\ at[k] \in Nat
        BY <2>3, <1>0, LayoutNumbers
      <3>2. next[i] = at[i] /\ next[j] = at[k] + Gap(k + 1) + Size(k + 1)
        BY <2>3, <1>4
      <3>3. at[i] <= at[k] + Gap(k + 1) + Size(k + 1)
        BY <3>1, <1>1
      <3> QED
        BY <3>2, <3>3
    <2> QED
      BY <2>1, <2>2, <2>3, <1>0
  <1> QED
    BY <1>4, <1>5, <1>6, <1>7 DEF Layout

\* c holds all that belongs in front of the bits of field k + 1.
Ready(at, c, k) ==
    /\ c \in Seq({0, 1}) /\ Len(c) = at[k] + Gap(k + 1)
    /\ PiecesLaid(at, c, k) /\ MarksLaid(c, k + 1) /\ ExtensionLaid(at, c, k + 1)

\* A piece is laid behind bits that hold all that belongs in front of it.
LEMMA PieceAppended ==
  ASSUME DataOK, NEW at, NEW k \in 0 .. Len(SenderFields) - 1, Layout(at, k),
         NEW c, Ready(at, c, k)
  PROVE  \E next : /\ Laid(next, c \o Piece(k + 1), k + 1)
                   /\ Len(c \o Piece(k + 1)) = next[k + 1]
                   /\ \A i \in 0 .. k : next[i] = at[i]
  <1> DEFINE d == c \o Piece(k + 1)
  <1>0. /\ Len(SenderFields) \in Nat /\ k \in Nat /\ k + 1 \in 1 .. Len(SenderFields)
        /\ k \in 0 .. Len(SenderFields) /\ k + 1 \in 0 .. Len(SenderFields)
        /\ RootLen \in Nat /\ ExtLen \in Nat
        /\ HeaderEnd \in Nat /\ Flag \in {0, 1}
        /\ (schema.extensible => Flag = 1)
        /\ HeaderEnd = Flag + Optionals(schema) /\ Optionals(schema) \in Nat
    BY LayoutTypes
  <1>8. /\ c \in Seq({0, 1}) /\ Len(c) = at[k] + Gap(k + 1)
        /\ PiecesLaid(at, c, k) /\ MarksLaid(c, k + 1) /\ ExtensionLaid(at, c, k + 1)
    BY DEF Ready
  <1>1. PICK next : /\ Layout(next, k + 1)
                    /\ \A i \in 0 .. k : next[i] = at[i]
                    /\ next[k + 1] = at[k] + Gap(k + 1) + Size(k + 1)
    BY LayoutGoesOn
  <1>2. /\ Piece(k + 1) \in Seq({0, 1}) /\ Gap(k + 1) \in Nat /\ Size(k + 1) \in Nat
        /\ Len(Piece(k + 1)) = Size(k + 1)
    BY <1>0, PieceType DEF Size
  <1>3. /\ d \in Seq({0, 1}) /\ Len(d) = Len(c) + Size(k + 1)
        /\ \A p \in 1 .. Len(c) : d[p] = c[p]
        /\ \A j \in 1 .. Size(k + 1) : d[Len(c) + j] = Piece(k + 1)[j]
    <2> DEFINE s == Piece(k + 1)
    <2>1. s \in Seq({0, 1}) /\ Len(s) = Size(k + 1) /\ d = c \o s
      BY <1>2
    <2> HIDE DEF s
    <2>2. /\ c \o s \in Seq({0, 1}) /\ Len(c \o s) = Len(c) + Len(s)
          /\ \A p \in 1 .. Len(c) : (c \o s)[p] = c[p]
          /\ \A j \in 1 .. Len(s) : (c \o s)[Len(c) + j] = s[j]
      BY <2>1, <1>8, JoinBits, Zenon
    <2> QED
      BY <2>1, <2>2 DEF s
  <1> HIDE DEF d
  <1>4. /\ at[k] \in Nat /\ HeaderEnd <= at[k] /\ Len(c) \in Nat /\ at[k] <= Len(c)
        /\ HeaderEnd <= Len(c) /\ Len(d) = next[k + 1]
    <2>1. at[k] \in Nat /\ HeaderEnd <= at[k]
      BY <1>0, LayoutNumbers
    <2> DEFINE x == at[k]
               n == Len(c)
               gap == Gap(k + 1)
               size == Size(k + 1)
    <2>2. x \in Nat /\ HeaderEnd <= x /\ n = x + gap /\ gap \in Nat /\ size \in Nat
          /\ Len(d) = n + size /\ next[k + 1] = x + gap + size
      BY <2>1, <1>1, <1>2, <1>3, <1>8
    <2> HIDE DEF x, n, gap, size
    <2>3. n \in Nat /\ x <= n /\ HeaderEnd <= n /\ Len(d) = next[k + 1]
      BY <2>2, <1>0
    <2> QED
      BY <2>2, <2>3 DEF x, n
  <1>5. PiecesLaid(next, d, k + 1)
    <2> SUFFICES ASSUME NEW i \in 1 .. k + 1, NEW j \in 1 .. Size(i)
                 PROVE  d[next[i] - Size(i) + j] = Piece(i)[j]
      BY DEF PiecesLaid
    <2>1. CASE i \in 1 .. k
      <3> DEFINE p == at[i] - Size(i) + j
      <3>1. c[p] = Piece(i)[j]
        BY <2>1, <1>8 DEF PiecesLaid
      <3>2. p \in HeaderEnd + 1 .. at[k]
        BY <2>1, <1>0, PiecePlace
      <3>3. next[i] = at[i]
        BY <2>1, <1>0, <1>1
      <3> HIDE DEF p
      <3>4. p \in 1 .. Len(c)
        <4> DEFINE x == at[k]
                   n == Len(c)
        <4>1. p \in HeaderEnd + 1 .. x /\ x \in Nat /\ n \in Nat /\ x <= n
          BY <3>2, <1>4
        <4> HIDE DEF x, n
        <4>2. p \in 1 .. n
          BY <4>1, <1>0
        <4> QED
          BY <4>2 DEF n
      <3>5. d[p] = c[p]
        BY <3>4, <1>3
      <3> QED
        BY <3>1, <3>3, <3>5 DEF p
    <2>2. CASE i = k + 1
      <3>1. next[i] - Size(i) + j = Len(c) + j
        BY <2>2, <1>0, <1>1, <1>2, <1>4, <1>8
      <3> QED
        BY <2>2, <3>1, <1>3
    <2>3. i \in 1 .. k \/ i = k + 1
      BY <1>0
    <2> QED
      BY <2>1, <2>2, <2>3
  <1>6. MarksLaid(d, k + 1)
    <2> SUFFICES ASSUME NEW i \in 1 .. k + 1, i <= RootLen, IsOpt(SenderFields[i])
                 PROVE  d[Flag + Marks(i)] = Bit(Given(i))
      BY DEF MarksLaid
    <2>1. c[Flag + Marks(i)] = Bit(Given(i))
      BY <1>8 DEF MarksLaid
    <2>2. i \in 1 .. RootLen
      BY <1>0
    <2>3. Flag + Marks(i) \in Flag + 1 .. HeaderEnd
      BY <2>2, MarkPlace
    <2>4. Flag + Marks(i) \in 1 .. Len(c)
      <3> DEFINE p == Flag + Marks(i)
      <3>1. p \in Flag + 1 .. HeaderEnd
        BY <2>3
      <3> HIDE DEF p
      <3>2. p \in 1 .. Len(c)
        BY <3>1, <1>0, <1>4
      <3> QED
        BY <3>2 DEF p
    <2> QED
      BY <2>1, <2>4, <1>3
  <1>7. ExtensionLaid(next, d, k + 1)
    <2>1. schema.extensible => d[1] = Bit(k + 1 > RootLen /\ Extended)
      <3> SUFFICES ASSUME schema.extensible
                   PROVE  d[1] = Bit(k + 1 > RootLen /\ Extended)
        OBVIOUS
      <3>1. c[1] = Bit(k + 1 > RootLen /\ Extended)
        BY <1>8 DEF ExtensionLaid
      <3>2. 1 \in 1 .. Len(c)
        BY <1>0, <1>4
      <3> QED
        BY <3>1, <3>2, <1>3
    <2>2. ASSUME k + 1 > RootLen, Extended
          PROVE  /\ d[next[RootLen] + 1] = 0
                 /\ \A j \in 1 .. 6 : d[next[RootLen] + 1 + j] = ToBits(ExtLen - 1, 6)[j]
                 /\ \A i \in RootLen + 1 .. k + 1 :
                      d[next[RootLen] + 7 + (i - RootLen)] = Bit(Given(i))
      <3>1. RootLen \in 0 .. k
        BY <2>2, <1>0
      <3>2. next[RootLen] = at[RootLen]
        BY <3>1, <1>1
      <3>3. at[RootLen] \in Nat
        BY <1>0, LayoutNumbers
      <3>4. at[RootLen] + 7 + ExtLen <= Len(c)
        <4>1. CASE k = RootLen
          <5>1. Gap(k + 1) = 7 + ExtLen
            BY <2>2, <4>1 DEF Gap, Extended
          <5>2. Len(c) = at[RootLen] + (7 + ExtLen)
            BY <4>1, <5>1, <1>8
          <5> DEFINE x == at[RootLen]
          <5>3. x \in Nat /\ Len(c) = x + (7 + ExtLen)
            BY <5>2, <3>3
          <5> HIDE DEF x
          <5>4. x + 7 + ExtLen <= Len(c)
            BY <5>3, <1>0
          <5> QED
            BY <5>4 DEF x
        <4>2. CASE k > RootLen
          <5>1. at[RootLen] + 7 + ExtLen <= at[k]
            BY <4>2, <2>2, <1>0, BitFieldPlace
          <5> DEFINE x == at[RootLen]
                     y == at[k]
                     n == Len(c)
          <5>2. x \in Nat /\ y \in Nat /\ n \in Nat /\ x + 7 + ExtLen <= y /\ y <= n
            BY <5>1, <3>3, <1>4
          <5> HIDE DEF x, y, n
          <5>3. x + 7 + ExtLen <= n
            BY <5>2, <1>0
          <5> QED
            BY <5>3 DEF x, n
        <4> QED
          BY <4>1, <4>2, <3>1, <1>0
      <3>5. k + 1 <= RootLen + ExtLen
        BY <1>0, LayoutTypes
      <3>6. /\ c[at[RootLen] + 1] = 0
            /\ \A j \in 1 .. 6 : c[at[RootLen] + 1 + j] = ToBits(ExtLen - 1, 6)[j]
            /\ \A i \in RootLen + 1 .. k + 1 :
                 c[at[RootLen] + 7 + (i - RootLen)] = Bit(Given(i))
        BY <2>2, <1>8 DEF ExtensionLaid
      <3> DEFINE a == at[RootLen]
      <3>7. /\ a + 1 \in 1 .. Len(c)
            /\ \A j \in 1 .. 6 : a + 1 + j \in 1 .. Len(c)
            /\ \A i \in RootLen + 1 .. k + 1 : a + 7 + (i - RootLen) \in 1 .. Len(c)
        <4> HIDE DEF a
        <4>1. a \in Nat /\ a + 7 + ExtLen <= Len(c)
          BY <3>3, <3>4 DEF a
        <4> QED
          BY <4>1, <3>5, <1>0, <1>4
      <3> QED
        BY <3>2, <3>6, <3>7, <1>3
    <2> QED
      BY <2>1, <2>2 DEF ExtensionLaid
  <1>9. Laid(next, d, k + 1) /\ Len(d) = next[k + 1]
    BY <1>1, <1>4, <1>5, <1>6, <1>7 DEF Laid
  <1> QED
    BY <1>1, <1>9 DEF d

\* A field of the root: its presence bit is the next one of the header.
LEMMA RootFieldReady ==
  ASSUME DataOK, NEW at, NEW k \in 0 .. RootLen - 1,
         NEW b \in Seq({0, 1}), Laid(at, b, k), Len(b) = at[k],
         NEW c, c = IF IsOpt(SenderFields[k + 1])
                    THEN Put(b, Flag + Marks(k), Bit(Given(k + 1))) ELSE b
  PROVE  Ready(at, c, k)
  <1>0. /\ RootLen \in Nat /\ ExtLen \in Nat /\ k \in Nat /\ k + 1 \in 1 .. RootLen
        /\ Len(SenderFields) = RootLen + ExtLen /\ k \in 0 .. Len(SenderFields)
        /\ HeaderEnd \in Nat /\ Flag \in {0, 1} /\ (k + 1) - 1 = k
        /\ (schema.extensible => Flag = 1)
    BY LayoutSizes
  <1>1. Layout(at, k) /\ PiecesLaid(at, b, k) /\ MarksLaid(b, k) /\ ExtensionLaid(at, b, k)
    BY DEF Laid
  <1>2. Gap(k + 1) = 0
    BY <1>0 DEF Gap
  <1>3. at[k] \in Nat /\ HeaderEnd <= at[k]
    BY <1>0, <1>1, LayoutNumbers
  <1>4. CASE ~IsOpt(SenderFields[k + 1])
    <2>1. c = b
      BY <1>4
    <2>2. MarksLaid(b, k + 1)
      <3> SUFFICES ASSUME NEW i \in 1 .. k + 1, i <= RootLen, IsOpt(SenderFields[i])
                   PROVE  b[Flag + Marks(i)] = Bit(Given(i))
        BY DEF MarksLaid
      <3>1. i \in 1 .. k
        <4>1. i # k + 1
          BY <1>4
        <4> QED
          BY <4>1, <1>0
      <3> QED
        BY <3>1, <1>1 DEF MarksLaid
    <2>3. ExtensionLaid(at, b, k + 1)
      <3>1. ~(k > RootLen) /\ ~(k + 1 > RootLen)
        BY <1>0
      <3> QED
        BY <3>1, <1>1 DEF ExtensionLaid
    <2> QED
      BY <2>1, <2>2, <2>3, <1>1, <1>2, <1>3 DEF Ready
  <1>5. CASE IsOpt(SenderFields[k + 1])
    <2> DEFINE q == Flag + Marks(k)
    <2>1. /\ Marks(k + 1) = Marks(k) + 1 /\ Marks(k) \in Nat /\ Marks(k + 1) \in Nat
          /\ Flag + Marks(k + 1) \in Flag + 1 .. HeaderEnd
          /\ \A j \in 0 .. RootLen : j < k + 1 => Marks(j) < Marks(k + 1)
      BY <1>0, <1>5, MarkPlace
    <2>2. /\ q \in Nat /\ q + 1 = Flag + Marks(k + 1) /\ q + 1 <= HeaderEnd
          /\ (schema.extensible => q >= 1)
      BY <2>1, <1>0
    <2>3. Bit(Given(k + 1)) \in {0, 1}
      BY DEF Bit
    <2>4. c = Put(b, q, Bit(Given(k + 1)))
      BY <1>5
    <2>5. /\ c \in Seq({0, 1}) /\ Len(c) = Len(b)
          /\ \A p \in 1 .. Len(b) : c[p] = IF p = q + 1 THEN Bit(Given(k + 1)) ELSE b[p]
      <3> HIDE DEF q
      <3> QED
        BY <2>2, <2>3, <2>4, PutBit
    <2> HIDE DEF q
    <2>6. PiecesLaid(at, c, k)
      <3>1. \A p \in HeaderEnd + 1 .. at[k] : c[p] = b[p]
        <4> TAKE p \in HeaderEnd + 1 .. at[k]
        <4>1. p \in 1 .. Len(b) /\ p # q + 1
          BY <2>2, <1>0, <1>3
        <4> QED
          BY <4>1, <2>5
      <3>2. \A p \in HeaderEnd + 1 .. at[k] :
              \/ c[p] = b[p]
              \/ /\ k > RootLen /\ Extended
                 /\ p > at[RootLen] /\ p <= at[RootLen] + 7 + ExtLen
        BY <3>1
      <3> QED
        BY <3>2, <1>0, <1>1, PiecesKept, Zenon
    <2>7. MarksLaid(c, k + 1)
      <3> SUFFICES ASSUME NEW i \in 1 .. k + 1, i <= RootLen, IsOpt(SenderFields[i])
                   PROVE  c[Flag + Marks(i)] = Bit(Given(i))
        BY DEF MarksLaid
      <3>1. CASE i = k + 1
        <4>1. q + 1 \in 1 .. Len(b)
          BY <2>2, <1>0, <1>3
        <4> QED
          BY <3>1, <4>1, <2>2, <2>5
      <3>2. CASE i \in 1 .. k
        <4> DEFINE p == Flag + Marks(i)
        <4>1. b[p] = Bit(Given(i))
          BY <3>2, <1>1 DEF MarksLaid
        <4>2. p \in Flag + 1 .. HeaderEnd /\ Marks(i) \in Nat
          BY <1>0, <3>2, MarkPlace
        <4>3. Marks(i) < Marks(k + 1)
          BY <3>2, <2>1, <1>0
        <4>4. p # q + 1
          <5> DEFINE m == Marks(i)
                     n == Marks(k + 1)
          <5>1. p = Flag + m /\ q + 1 = Flag + n /\ m \in Nat /\ n \in Nat /\ m < n
            BY <4>2, <4>3, <2>1, <2>2
          <5> HIDE DEF m, n, p
          <5> QED
            BY <5>1, <1>0
        <4> HIDE DEF p
        <4>5. p \in 1 .. Len(b)
          BY <4>2, <1>0, <1>3
        <4>6. c[p] = b[p]
          BY <4>4, <4>5, <2>5
        <4> QED
          BY <4>1, <4>6 DEF p
      <3>3. i = k + 1 \/ i \in 1 .. k
        BY <1>0
      <3> QED
        BY <3>1, <3>2, <3>3
    <2>8. ExtensionLaid(at, c, k + 1)
      <3>1. ~(k > RootLen) /\ ~(k + 1 > RootLen)
        BY <1>0
      <3>2. schema.extensible => c[1] = b[1]
        BY <2>2, <2>5, <1>0, <1>3
      <3> QED
        BY <3>1, <3>2, <1>1 DEF ExtensionLaid
    <2> QED
      BY <2>5, <2>6, <2>7, <2>8, <1>2, <1>3 DEF Ready
  <1> QED
    BY <1>4, <1>5

\* Additions do not touch the presence bits of the root.
LEMMA MarksStay ==
  ASSUME DataOK, NEW k \in Nat, k >= RootLen, NEW b, NEW c, MarksLaid(b, k),
         \A p \in Flag + 1 .. HeaderEnd : c[p] = b[p]
  PROVE  MarksLaid(c, k + 1)
  <1> SUFFICES ASSUME NEW i \in 1 .. k + 1, i <= RootLen, IsOpt(SenderFields[i])
               PROVE  c[Flag + Marks(i)] = Bit(Given(i))
    BY DEF MarksLaid
  <1>1. i \in 1 .. k /\ i \in 1 .. RootLen
    BY LayoutTypes
  <1>2. b[Flag + Marks(i)] = Bit(Given(i))
    BY <1>1 DEF MarksLaid
  <1>3. Flag + Marks(i) \in Flag + 1 .. HeaderEnd
    BY <1>1, MarkPlace
  <1> QED
    BY <1>2, <1>3

\* The facts the additions share.
LEMMA AdditionFacts ==
  ASSUME DataOK, NEW at, NEW k \in RootLen .. Len(SenderFields) - 1, NEW b,
         Laid(at, b, k)
  PROVE  /\ RootLen \in Nat /\ ExtLen \in Nat /\ k \in Nat /\ RootLen \in 0 .. k
         /\ ExtLen > 0 /\ ExtLen <= 64 /\ k < RootLen + ExtLen
         /\ k \in 0 .. Len(SenderFields) /\ RootLen \in 0 .. Len(SenderFields)
         /\ schema.extensible /\ Flag = 1 /\ schema.ext # <<>>
         /\ HeaderEnd \in Nat /\ HeaderEnd >= 1
         /\ at[RootLen] \in Nat /\ at[k] \in Nat
         /\ HeaderEnd <= at[RootLen] /\ at[RootLen] <= at[k]
         /\ Layout(at, k) /\ PiecesLaid(at, b, k) /\ MarksLaid(b, k)
         /\ ExtensionLaid(at, b, k)
  <1>1. /\ RootLen \in Nat /\ ExtLen \in Nat /\ ExtLen <= 64
        /\ Len(SenderFields) = RootLen + ExtLen
        /\ HeaderEnd = Flag + Optionals(schema) /\ Optionals(schema) \in Nat
        /\ (schema.extensible => Flag = 1)
        /\ (~schema.extensible => ExtLen = 0)
    BY LayoutTypes
  <1>2. /\ k \in Nat /\ ExtLen > 0 /\ k < RootLen + ExtLen /\ RootLen \in 0 .. k
        /\ k \in 0 .. Len(SenderFields) /\ RootLen \in 0 .. Len(SenderFields)
        /\ k >= RootLen
    BY <1>1
  <1>3. schema.extensible /\ Flag = 1 /\ HeaderEnd \in Nat /\ HeaderEnd >= 1
    BY <1>1, <1>2
  <1>4. schema.ext # <<>>
    BY <1>2 DEF ExtLen
  <1>5. /\ Layout(at, k) /\ PiecesLaid(at, b, k) /\ MarksLaid(b, k)
        /\ ExtensionLaid(at, b, k)
    BY DEF Laid
  <1>6. /\ at[RootLen] \in Nat /\ at[k] \in Nat
        /\ HeaderEnd <= at[RootLen] /\ at[RootLen] <= at[k]
    BY <1>2, <1>5, LayoutNumbers
  <1> QED
    BY <1>1, <1>2, <1>3, <1>4, <1>5, <1>6

\* No addition is sent: the extension bit is cleared when the first is written.
LEMMA LeftOutReady ==
  ASSUME DataOK, NEW at, NEW k \in RootLen .. Len(SenderFields) - 1,
         NEW b \in Seq({0, 1}), Laid(at, b, k), Len(b) = at[k],
         ~Extended, ~Given(k + 1),
         NEW c, c = IF k = RootLen THEN Put(b, 0, 0) ELSE b
  PROVE  Ready(at, c, k)
  <1>1. /\ RootLen \in Nat /\ k \in Nat /\ schema.extensible /\ Flag = 1 
        /\ k \in 0 .. Len(SenderFields) /\ k >= RootLen
        /\ HeaderEnd \in Nat /\ HeaderEnd >= 1 /\ at[k] \in Nat /\ HeaderEnd <= at[k]
    BY AdditionFacts
  <1>2. Layout(at, k) /\ PiecesLaid(at, b, k) /\ MarksLaid(b, k) /\ ExtensionLaid(at, b, k)
    BY DEF Laid
  <1>3. Gap(k + 1) = 0
    BY DEF Gap
  <1>4. /\ c \in Seq({0, 1}) /\ Len(c) = Len(b) /\ c[1] = 0
        /\ \A p \in 1 .. Len(b) : p # 1 => c[p] = b[p]
    <2>1. CASE k = RootLen
      <3>1. /\ Put(b, 0, 0) \in Seq({0, 1}) /\ Len(Put(b, 0, 0)) = Len(b)
            /\ \A p \in 1 .. Len(b) : Put(b, 0, 0)[p] = IF p = 0 + 1 THEN 0 ELSE b[p]
        BY PutBit
      <3>2. 1 \in 1 .. Len(b)
        BY <1>1
      <3> QED
        BY <2>1, <3>1, <3>2
    <2>2. CASE k # RootLen
      <3>1. b[1] = Bit(k > RootLen /\ Extended)
        BY <1>1, <1>2 DEF ExtensionLaid
      <3> QED
        BY <2>2, <3>1 DEF Bit
    <2> QED
      BY <2>1, <2>2
  <1>5. PiecesLaid(at, c, k)
    <2>1. \A p \in HeaderEnd + 1 .. at[k] :
              \/ c[p] = b[p]
              \/ /\ k > RootLen /\ Extended
                 /\ p > at[RootLen] /\ p <= at[RootLen] + 7 + ExtLen
      BY <1>1, <1>4
    <2> QED
      BY <2>1, <1>1, <1>2, PiecesKept, Zenon
  <1>6. MarksLaid(c, k + 1)
    <2>1. \A p \in Flag + 1 .. HeaderEnd : c[p] = b[p]
      BY <1>1, <1>4
    <2> QED
      BY <2>1, <1>1, <1>2, MarksStay, Zenon
  <1>7. ExtensionLaid(at, c, k + 1)
    BY <1>4 DEF ExtensionLaid, Bit
  <1>8. Len(c) = at[k] + Gap(k + 1)
    BY <1>1, <1>3, <1>4
  <1> QED
    BY <1>4, <1>5, <1>6, <1>7, <1>8 DEF Ready

\* A further addition: its presence bit is the next one of the bit field.
LEMMA AdditionReady ==
  ASSUME DataOK, NEW at, NEW k \in RootLen + 1 .. Len(SenderFields) - 1,
         NEW b \in Seq({0, 1}), Laid(at, b, k), Len(b) = at[k], Extended,
         NEW c, c = Put(b, at[RootLen] + 7 + (k - RootLen), Bit(Given(k + 1)))
  PROVE  Ready(at, c, k)
  <1>0. k \in RootLen .. Len(SenderFields) - 1 /\ k > RootLen
    <2> DEFINE n == Len(SenderFields)
    <2>1. RootLen \in Nat /\ n \in Nat /\ k \in RootLen + 1 .. n - 1
      BY LayoutSizes
    <2> HIDE DEF n
    <2>2. k \in RootLen .. n - 1 /\ k > RootLen
      BY <2>1
    <2> QED
      BY <2>2 DEF n
  <1>1. /\ RootLen \in Nat /\ ExtLen \in Nat /\ k \in Nat /\ k < RootLen + ExtLen
        /\ k \in 0 .. Len(SenderFields) /\ k >= RootLen
        /\ HeaderEnd \in Nat /\ HeaderEnd >= 1 /\ Flag = 1
        /\ at[k] \in Nat /\ at[RootLen] \in Nat /\ HeaderEnd <= at[RootLen]
    BY <1>0, AdditionFacts
  <1>2. Layout(at, k) /\ PiecesLaid(at, b, k) /\ MarksLaid(b, k) /\ ExtensionLaid(at, b, k)
    BY DEF Laid
  <1>3. Gap(k + 1) = 0
    BY <1>0, <1>1 DEF Gap
  <1>4. at[RootLen] + 7 + ExtLen <= at[k]
    BY <1>0, <1>1, <1>2, BitFieldPlace
  <1> DEFINE q == at[RootLen] + 7 + (k - RootLen)
  <1>5. q \in Nat /\ q + 1 > at[RootLen] + 7 /\ q + 1 <= at[RootLen] + 7 + ExtLen
    <2> DEFINE x == at[RootLen]
    <2>1. x \in Nat
      BY <1>1
    <2> HIDE DEF x
    <2>2. /\ x + 7 + (k - RootLen) \in Nat /\ x + 7 + (k - RootLen) + 1 > x + 7
          /\ x + 7 + (k - RootLen) + 1 <= x + 7 + ExtLen
      BY <2>1, <1>0, <1>1
    <2> QED
      BY <2>2 DEF x
  <1>6. c = Put(b, q, Bit(Given(k + 1))) /\ Bit(Given(k + 1)) \in {0, 1}
    BY DEF Bit
  <1> HIDE DEF q
  <1>7. /\ c \in Seq({0, 1}) /\ Len(c) = Len(b)
        /\ \A p \in 1 .. Len(b) : c[p] = IF p = q + 1 THEN Bit(Given(k + 1)) ELSE b[p]
    BY <1>5, <1>6, PutBit
  <1>8. PiecesLaid(at, c, k)
    <2>1. \A p \in HeaderEnd + 1 .. at[k] :
              \/ c[p] = b[p]
              \/ /\ k > RootLen /\ Extended
                 /\ p > at[RootLen] /\ p <= at[RootLen] + 7 + ExtLen
      <3> TAKE p \in HeaderEnd + 1 .. at[k]
      <3>1. p \in 1 .. Len(b)
        BY <1>1
      <3>2. CASE p = q + 1
        BY <3>2, <1>0, <1>1, <1>5
      <3>3. CASE p # q + 1
        BY <3>1, <3>3, <1>7
      <3> QED
        BY <3>2, <3>3
    <2> QED
      BY <2>1, <1>1, <1>2, PiecesKept, Zenon
  <1>9. MarksLaid(c, k + 1)
    <2>1. \A p \in Flag + 1 .. HeaderEnd : c[p] = b[p]
      <3> TAKE p \in Flag + 1 .. HeaderEnd
      <3> DEFINE x == at[RootLen]
                 n == Len(b)
      <3>2. /\ x \in Nat /\ n \in Nat /\ HeaderEnd <= x /\ x + 7 + ExtLen <= n
            /\ q + 1 > x + 7
        BY <1>1, <1>4, <1>5
      <3> HIDE DEF x, n
      <3>3. HeaderEnd <= n /\ HeaderEnd < q + 1
        BY <3>2, <1>1, <1>5
      <3>4. p \in 1 .. n /\ p # q + 1
        BY <3>2, <3>3, <1>1, <1>5
      <3>1. p \in 1 .. Len(b) /\ p # q + 1
        BY <3>4 DEF n
      <3> QED
        BY <3>1, <1>7
    <2> QED
      BY <2>1, <1>1, <1>2, MarksStay, Zenon
  <1>10. ExtensionLaid(at, c, k + 1)
    <2> DEFINE a == at[RootLen]
    <2>0. a \in Nat /\ HeaderEnd <= a /\ a + 7 + ExtLen <= at[k] /\ q + 1 > a + 7
          /\ q = a + 7 + (k - RootLen)
      BY <1>1, <1>4, <1>5 DEF q
    <2>1. /\ b[1] = Bit(TRUE) /\ b[a + 1] = 0
          /\ \A j \in 1 .. 6 : b[a + 1 + j] = ToBits(ExtLen - 1, 6)[j]
          /\ \A i \in RootLen + 1 .. k : b[a + 7 + (i - RootLen)] = Bit(Given(i))
      <3>1. schema.extensible
        BY <1>0, AdditionFacts
      <3> QED
        BY <3>1, <1>0, <1>2 DEF ExtensionLaid, Bit
    <2> HIDE DEF a
    <2>2. c[1] = b[1] /\ c[a + 1] = b[a + 1]
      <3> DEFINE n == Len(b)
      <3>2. n \in Nat /\ a \in Nat /\ a + 7 + ExtLen <= n /\ a >= 1 /\ q + 1 > a + 7
            /\ ExtLen \in Nat /\ q \in Nat
        BY <2>0, <1>1, <1>5
      <3> HIDE DEF n
      <3>3. 1 \in 1 .. n /\ 1 # q + 1 /\ a + 1 \in 1 .. n /\ a + 1 # q + 1
        BY <3>2
      <3>1. 1 \in 1 .. Len(b) /\ 1 # q + 1 /\ a + 1 \in 1 .. Len(b) /\ a + 1 # q + 1
        BY <3>3 DEF n
      <3> QED
        BY <3>1, <1>7
    <2>3. ASSUME NEW j \in 1 .. 6 PROVE c[a + 1 + j] = b[a + 1 + j]
      <3> DEFINE n == Len(b)
      <3>2. n \in Nat /\ a \in Nat /\ a + 7 + ExtLen <= n /\ q + 1 > a + 7
            /\ ExtLen \in Nat /\ q \in Nat
        BY <2>0, <1>1, <1>5
      <3> HIDE DEF n
      <3>3. a + 1 + j \in 1 .. n /\ a + 1 + j # q + 1
        BY <3>2
      <3>1. a + 1 + j \in 1 .. Len(b) /\ a + 1 + j # q + 1
        BY <3>3 DEF n
      <3> QED
        BY <3>1, <1>7
    <2>4. ASSUME NEW i \in RootLen + 1 .. k + 1
          PROVE  c[a + 7 + (i - RootLen)] = Bit(Given(i))
      <3>1. CASE i = k + 1
        <4>1. a + 7 + (i - RootLen) = q + 1
          BY <2>0, <3>1, <1>1
        <4>2. q + 1 \in 1 .. Len(b)
          <5> DEFINE n == Len(b)
          <5>1. q + 1 <= a + 7 + ExtLen /\ q \in Nat /\ a + 7 + ExtLen <= n /\ n \in Nat
            BY <2>0, <1>1, <1>5 DEF a
          <5>2. a \in Nat /\ ExtLen \in Nat
            BY <2>0, <1>1
          <5> HIDE DEF n
          <5>3. q + 1 \in 1 .. n
            BY <5>1, <5>2
          <5> QED
            BY <5>3 DEF n
        <4> QED
          BY <3>1, <4>1, <4>2, <1>7
      <3>2. CASE i \in RootLen + 1 .. k
        <4> DEFINE p == a + 7 + (i - RootLen)
        <4>1. p \in 1 .. Len(b) /\ p # q + 1
          <5> DEFINE n == Len(b)
          <5>1. /\ a + 7 + ExtLen <= n /\ n \in Nat /\ a \in Nat /\ ExtLen \in Nat
                /\ q = a + 7 + (k - RootLen)
            BY <2>0, <1>1
          <5>2. i - RootLen \in 1 .. ExtLen /\ i - RootLen <= k - RootLen /\ k - RootLen \in Nat
            BY <3>2, <1>1
          <5> DEFINE d == i - RootLen
                     e == k - RootLen
          <5>5. d \in 1 .. ExtLen /\ d <= e /\ e \in Nat /\ p = a + 7 + d /\ q = a + 7 + e
            BY <5>1, <5>2
          <5> HIDE DEF n, p, d, e
          <5>3. p \in 1 .. n
            BY <5>1, <5>5
          <5>4. p # q + 1
            BY <5>1, <5>5
          <5> QED
            BY <5>3, <5>4 DEF n
        <4>2. b[p] = Bit(Given(i))
          BY <2>1, <3>2
        <4> HIDE DEF p
        <4>3. c[p] = Bit(Given(i))
          BY <4>1, <4>2, <1>7
        <4> QED
          BY <4>3 DEF p
      <3>3. i = k + 1 \/ i \in RootLen + 1 .. k
        BY <1>1
      <3> QED
        BY <3>1, <3>2, <3>3
    <2>5. k + 1 > RootLen
      BY <1>0, <1>1
    <2> QED
      BY <2>1, <2>2, <2>3, <2>4, <2>5 DEF ExtensionLaid, a, Bit
  <1>11. Len(c) = at[k] + Gap(k + 1)
    BY <1>1, <1>3, <1>7
  <1> QED
    BY <1>7, <1>8, <1>9, <1>10, <1>11 DEF Ready

\* The first addition: the extension bit is set, the number of additions and
\* a bit for each of them follow.
LEMMA FirstAdditionReady ==
  ASSUME DataOK, NEW at, RootLen < Len(SenderFields),
         NEW b \in Seq({0, 1}), Laid(at, b, RootLen), Len(b) = at[RootLen], Extended,
         NEW c, c = (Put(b, 0, 1) \o SmallNumber(ExtLen - 1)) \o [i \in 1 .. ExtLen |-> 1]
  PROVE  /\ Ready(at, c, RootLen) /\ Len(c) = at[RootLen] + 7 + ExtLen
         /\ Len(Put(b, 0, 1) \o SmallNumber(ExtLen - 1)) = at[RootLen] + 7
  <1> DEFINE k == RootLen
             flagged == Put(b, 0, 1)
             small == SmallNumber(ExtLen - 1)
             counted == flagged \o small
             ones == [i \in 1 .. ExtLen |-> 1]
             a == at[k]
  <1>0. RootLen \in RootLen .. Len(SenderFields) - 1
    BY LayoutSizes
  <1>1. /\ RootLen \in Nat /\ ExtLen \in Nat /\ ExtLen > 0
        /\ k \in 0 .. Len(SenderFields)
        /\ HeaderEnd \in Nat /\ HeaderEnd >= 1 /\ Flag = 1
        /\ a \in Nat /\ HeaderEnd <= a
    BY <1>0, AdditionFacts
  <1>2. Layout(at, k) /\ PiecesLaid(at, b, k) /\ MarksLaid(b, k)
    BY DEF Laid
  <1>3. Gap(k + 1) = 7 + ExtLen /\ Given(k + 1)
    BY DEF Gap, Extended
  <1>4. /\ flagged \in Seq({0, 1}) /\ Len(flagged) = a /\ flagged[1] = 1
        /\ \A p \in 2 .. a : flagged[p] = b[p]
    <2>1. /\ flagged \in Seq({0, 1}) /\ Len(flagged) = Len(b)
          /\ \A p \in 1 .. Len(b) : flagged[p] = IF p = 0 + 1 THEN 1 ELSE b[p]
      BY PutBit
    <2>2. Len(b) = a /\ a \in Nat /\ a >= 1
      BY <1>1
    <2> HIDE DEF flagged, a
    <2> QED
      BY <2>1, <2>2
  <1>5. /\ small \in Seq({0, 1}) /\ Len(small) = 7 /\ small[1] = 0
        /\ \A j \in 1 .. 6 : small[j + 1] = ToBits(ExtLen - 1, 6)[j]
    <2>1. ExtLen - 1 \in Int
      BY <1>1
    <2> QED
      BY <2>1, SmallNumberType
  <1>6. ones \in Seq({0, 1}) /\ Len(ones) = ExtLen /\ \A i \in 1 .. ExtLen : ones[i] = 1
    BY <1>1
  <1>7. c = counted \o ones
    OBVIOUS
  <1> HIDE DEF flagged, small, ones
  <1>8. /\ counted \in Seq({0, 1}) /\ Len(counted) = a + 7
        /\ \A p \in 1 .. a : counted[p] = flagged[p]
        /\ \A j \in 1 .. 7 : counted[a + j] = small[j]
    <2>1. /\ counted \in Seq({0, 1}) /\ Len(counted) = Len(flagged) + Len(small)
          /\ \A p \in 1 .. Len(flagged) : counted[p] = flagged[p]
          /\ \A j \in 1 .. Len(small) : counted[Len(flagged) + j] = small[j]
      BY <1>4, <1>5, JoinBits, Zenon
    <2> HIDE DEF counted
    <2> QED
      BY <2>1, <1>4, <1>5
  <1> HIDE DEF counted
  <1>9. /\ c \in Seq({0, 1}) /\ Len(c) = a + 7 + ExtLen
        /\ \A p \in 1 .. a + 7 : c[p] = counted[p]
        /\ \A i \in 1 .. ExtLen : c[a + 7 + i] = 1
    <2> DEFINE joined == counted \o ones
    <2>1. /\ joined \in Seq({0, 1}) /\ Len(joined) = Len(counted) + Len(ones)
          /\ \A p \in 1 .. Len(counted) : joined[p] = counted[p]
          /\ \A i \in 1 .. Len(ones) : joined[Len(counted) + i] = ones[i]
      BY <1>6, <1>8, JoinBits, Zenon
    <2>2. c = joined
      BY <1>7
    <2> HIDE DEF joined
    <2>3. \A i \in 1 .. ExtLen : joined[a + 7 + i] = 1
      BY <2>1, <1>6, <1>8
    <2> QED
      BY <2>1, <2>2, <2>3, <1>6, <1>8
  <1>10. /\ c[1] = 1 /\ c[a + 1] = 0
         /\ \A p \in 2 .. a : c[p] = b[p]
         /\ \A j \in 1 .. 6 : c[a + 1 + j] = ToBits(ExtLen - 1, 6)[j]
    <2> HIDE DEF a
    <2>1. c[1] = 1
      <3>1. 1 \in 1 .. a /\ 1 \in 1 .. a + 7
        BY <1>1
      <3> QED
        BY <3>1, <1>4, <1>8, <1>9
    <2>2. c[a + 1] = 0
      <3>1. a + 1 \in 1 .. a + 7 /\ 1 \in 1 .. 7
        BY <1>1
      <3> QED
        BY <3>1, <1>5, <1>8, <1>9
    <2>3. ASSUME NEW p \in 2 .. a PROVE c[p] = b[p]
      <3>1. p \in 1 .. a /\ p \in 1 .. a + 7
        BY <1>1
      <3> QED
        BY <3>1, <1>4, <1>8, <1>9
    <2>4. ASSUME NEW j \in 1 .. 6 PROVE c[a + 1 + j] = ToBits(ExtLen - 1, 6)[j]
      <3>1. j + 1 \in 1 .. 7 /\ a + (j + 1) = a + 1 + j /\ a + 1 + j \in 1 .. a + 7
        BY <1>1
      <3>2. counted[a + (j + 1)] = small[j + 1]
        BY <3>1, <1>8
      <3> QED
        BY <3>1, <3>2, <1>5, <1>9
    <2> QED
      BY <2>1, <2>2, <2>3, <2>4
  <1>11. PiecesLaid(at, c, k)
    <2>1. \A p \in HeaderEnd + 1 .. at[k] :
              \/ c[p] = b[p]
              \/ /\ k > RootLen /\ Extended
                 /\ p > at[RootLen] /\ p <= at[RootLen] + 7 + ExtLen
      <3> TAKE p \in HeaderEnd + 1 .. at[k]
      <3>1. p \in HeaderEnd + 1 .. a
        OBVIOUS
      <3> HIDE DEF a
      <3>2. p \in 2 .. a
        BY <3>1, <1>1
      <3> QED
        BY <3>2, <1>10
    <2> QED
      BY <2>1, <1>1, <1>2, PiecesKept, Zenon
  <1>12. MarksLaid(c, k + 1)
    <2>1. \A p \in Flag + 1 .. HeaderEnd : c[p] = b[p]
      <3> TAKE p \in Flag + 1 .. HeaderEnd
      <3> HIDE DEF a
      <3>1. p \in 2 .. a
        BY <1>1
      <3> QED
        BY <3>1, <1>10
    <2>2. k \in Nat /\ k >= RootLen
      BY <1>1
    <2> QED
      BY <2>1, <2>2, <1>2, MarksStay, Zenon
  <1>13. ExtensionLaid(at, c, k + 1)
    <2>1. k + 1 > RootLen
      BY <1>1
    <2>2. ASSUME NEW i \in RootLen + 1 .. k + 1
          PROVE  c[a + 7 + (i - RootLen)] = Bit(Given(i))
      <3>1. i = k + 1 /\ i - RootLen = 1 /\ 1 \in 1 .. ExtLen
        BY <1>1
      <3>2. c[a + 7 + 1] = 1
        BY <3>1, <1>9
      <3> QED
        BY <3>1, <3>2, <1>3 DEF Bit
    <2> QED
      BY <2>1, <2>2, <1>10 DEF ExtensionLaid, Bit
  <1>14. Len(c) = at[k] + Gap(k + 1)
    <2> HIDE DEF a
    <2>1. Len(c) = a + Gap(k + 1)
      BY <1>1, <1>3, <1>9
    <2> QED
      BY <2>1 DEF a
  <1> QED
    BY <1>8, <1>9, <1>11, <1>12, <1>13, <1>14 DEF Ready, counted, flagged, small

-----------------------------------------------------------------------------
(* The writer *)

\* A NULL among the root's fields is not counted down by the scope of an
\* extensible SEQUENCE: with additions behind it the writer goes wrong.
NoNullBeforeAdditions ==
    \A s \in Schemas :
        s.ext # <<>> => \A i \in DOMAIN s.root : s.root[i] # "null"

\* What the writer has laid, and the scope it goes on with.
WroteUpTo(s, at, b, k) == Laid(at, b, k) /\ Len(b) = at[k] /\ WriterScope(s, at, k)

\* What the writer's scope makes of field k + 1.
Entry(k) == WriteEntry(IsOpt(SenderFields[k + 1]),
                       Present(SenderFields[k + 1], value[k + 1]))

\* The writer's bits after field k + 1, from those in front of its own.
WithField(c, s, k) ==
    IF Given(k + 1) THEN c \o Content(SenderFields[k + 1], value[k + 1], s) ELSE c

\* The bits of a field behind all that belongs in front of them.
LEMMA FieldAppended ==
  ASSUME DataOK, NEW at, NEW k \in 0 .. Len(SenderFields) - 1, Layout(at, k),
         NEW c, Ready(at, c, k), NEW s,
         EncodeAsOpenType(s) <=> k + 1 > RootLen
  PROVE  \E next : /\ Laid(next, WithField(c, s, k), k + 1)
                   /\ Len(WithField(c, s, k)) = next[k + 1]
                   /\ \A i \in 0 .. k : next[i] = at[i]
  <1>1. WithField(c, s, k) = c \o Piece(k + 1)
    <2>1. CASE Given(k + 1)
      <3>1. Content(SenderFields[k + 1], value[k + 1], s) = Piece(k + 1)
        BY <2>1 DEF Content, Piece
      <3> QED
        BY <2>1, <3>1 DEF WithField
    <2>2. CASE ~Given(k + 1)
      <3>1. Piece(k + 1) = <<>>
        BY <2>2 DEF Piece
      <3>2. c \in Seq({0, 1})
        BY DEF Ready
      <3>3. c \o <<>> = c
        BY <3>2, ConcatEmptySeq
      <3> QED
        BY <2>2, <3>1, <3>3 DEF WithField
    <2> QED
      BY <2>1, <2>2
  <1>2. PICK next : /\ Laid(next, c \o Piece(k + 1), k + 1)
                    /\ Len(c \o Piece(k + 1)) = next[k + 1]
                    /\ \A i \in 0 .. k : next[i] = at[i]
    BY PieceAppended
  <1> QED
    BY <1>1, <1>2

\* A field other than NULL is given when it is sent.
LEMMA GivenIsPresent ==
  ASSUME NEW i, SenderFields[i] # "null"
  PROVE  Given(i) = Present(SenderFields[i], value[i])
  BY DEF Given, Sent, Present, IsOpt

\* A field of the root.
LEMMA RootFieldWritten ==
  ASSUME DataOK, NEW at, NEW k \in 0 .. RootLen - 1,
         bits \in Seq({0, 1}), WroteUpTo(scope, at, bits, k),
         SenderFields[k + 1] # "null"
  PROVE  /\ Entry(k).ok
         /\ \E next : WroteUpTo(Entry(k).scope, next,
                                WithField(Entry(k).bits, Entry(k).scope, k), k + 1)
  <1> DEFINE opt == IsOpt(SenderFields[k + 1])
             given == Given(k + 1)
             c == IF opt THEN Put(bits, Flag + Marks(k), Bit(given)) ELSE bits
  <1>0. /\ RootLen \in Nat /\ ExtLen \in Nat /\ k \in Nat /\ k + 1 \in 1 .. RootLen
        /\ Len(SenderFields) = RootLen + ExtLen /\ k \in 0 .. Len(SenderFields) - 1
        /\ HeaderEnd \in Nat /\ (schema.extensible => Flag = 1)
        /\ (~schema.extensible => Flag = 0) /\ k <= RootLen /\ k + 1 <= RootLen
        /\ (k + 1) - 1 = k /\ k \in 0 .. RootLen
        /\ SenderFields[k + 1] = schema.root[k + 1]
    BY LayoutTypes
  <1>s. schema \in Schemas
    BY DEF DataOK
  <1>1. given = Present(SenderFields[k + 1], value[k + 1])
    BY GivenIsPresent
  <1>2. Laid(at, bits, k) /\ Len(bits) = at[k] /\ WriterScope(scope, at, k)
    BY DEF WroteUpTo
  <1>3. Layout(at, k)
    BY <1>2 DEF Laid
  <1>4. Ready(at, c, k)
    BY <1>2, RootFieldReady
  <1>5. Marks(k) \in Nat /\ Marks(k + 1) = Marks(k) + (IF opt THEN 1 ELSE 0)
    BY <1>s, <1>0, MarksCount
  <1> HIDE DEF opt, given
  <1>6. /\ Entry(k).ok /\ Entry(k).bits = c
        /\ ~EncodeAsOpenType(Entry(k).scope)
        /\ \A next : WriterScope(Entry(k).scope, next, k + 1)
    <2>1. CASE ~schema.extensible
      <3>1. scope = OptBitField(Marks(k), HeaderEnd)
        BY <1>2, <2>1 DEF WriterScope
      <3>2. Flag + Marks(k) = Marks(k)
        BY <2>1, <1>0, <1>5
      <3>3. Entry(k) = [ok |-> TRUE, bits |-> c,
                     scope |-> IF opt THEN TakeBit(scope) ELSE scope]
        BY <3>1, <3>2, <1>1 DEF Entry, WriteEntry, OptBitField, opt
      <3>4. (IF opt THEN TakeBit(scope) ELSE scope) = OptBitField(Marks(k + 1), HeaderEnd)
        BY <3>1, <1>5 DEF TakeBit, OptBitField
      <3>5. /\ Entry(k).ok /\ Entry(k).bits = c
            /\ Entry(k).scope = OptBitField(Marks(k + 1), HeaderEnd)
        <4> HIDE DEF c
        <4> QED
          BY <3>3, <3>4
      <3> HIDE DEF c
      <3> QED
        BY <3>5, <2>1 DEF WriterScope, EncodeAsOpenType, OptBitField
    <2>2. CASE schema.extensible
      <3>1. PICK n \in Nat :
               /\ scope = ExtensibleSequence(0, 1 + Marks(k), HeaderEnd, n, ExtLen)
               /\ n >= RootLen - k /\ (schema.ext # <<>> => n = RootLen - k)
        BY <1>0, <1>2, <2>2 DEF WriterScope
      <3>6. n \in Nat /\ n >= RootLen - k /\ (schema.ext # <<>> => n = RootLen - k)
        BY <3>1
      <3>9. RootLen - k \in Nat /\ RootLen - k > 0 /\ RootLen - (k + 1) = (RootLen - k) - 1
        BY <1>0
      <3>2. n # 0 /\ n - 1 \in Nat /\ n - 1 >= RootLen - (k + 1)
              /\ (schema.ext # <<>> => n - 1 = RootLen - (k + 1))
        <4> DEFINE d == RootLen - k
                   e == RootLen - (k + 1)
                   none == schema.ext = <<>>
        <4>1. n \in Nat /\ n >= d /\ (~none => n = d) /\ d \in Nat /\ d > 0 /\ e = d - 1
          BY <3>6, <3>9
        <4> HIDE DEF d, e, none
        <4>2. n # 0 /\ n - 1 \in Nat /\ n - 1 >= e /\ (~none => n - 1 = e)
          BY <4>1
        <4> QED
          BY <4>2 DEF d, e, none
      <3>3. Entry(k) = [ok |-> TRUE, bits |-> c,
                     scope |-> CountCall(IF opt THEN TakeBit(scope) ELSE scope)]
        BY <3>1, <3>2, <2>2, <1>0, <1>1 DEF Entry, WriteEntry, ExtensibleSequence, opt
      <3>4. CountCall(IF opt THEN TakeBit(scope) ELSE scope)
              = ExtensibleSequence(0, 1 + Marks(k + 1), HeaderEnd, n - 1, ExtLen)
        <4>1. CASE opt
          <5>1. 1 + Marks(k) + 1 = 1 + Marks(k + 1)
            BY <4>1, <1>5
          <5>2. TakeBit(scope)
                  = ExtensibleSequence(0, 1 + Marks(k + 1), HeaderEnd, n, ExtLen)
            BY <3>1, <5>1 DEF TakeBit, ExtensibleSequence
          <5> QED
            BY <4>1, <5>2 DEF CountCall, ExtensibleSequence
        <4>2. CASE ~opt
          <5>1. Marks(k) = Marks(k + 1)
            BY <4>2, <1>5
          <5> QED
            BY <3>1, <4>2, <5>1 DEF TakeBit, CountCall, ExtensibleSequence
        <4> QED
          BY <4>1, <4>2
      <3>5. /\ Entry(k).ok /\ Entry(k).bits = c
            /\ Entry(k).scope = ExtensibleSequence(0, 1 + Marks(k + 1), HeaderEnd, n - 1, ExtLen)
        <4> HIDE DEF c
        <4> QED
          BY <3>3, <3>4
      <3>8. ~EncodeAsOpenType(Entry(k).scope)
        <4> HIDE DEF c
        <4> QED
          BY <3>5 DEF EncodeAsOpenType, ExtensibleSequence
      <3>7. \A next : WriterScope(Entry(k).scope, next, k + 1)
        <4> HIDE DEF c
        <4> QED
          BY <3>2, <3>5, <2>2, <1>0 DEF WriterScope
      <3> QED
        BY <3>5, <3>7, <3>8
    <2> QED
      BY <2>1, <2>2
  <1> HIDE DEF c
  <1>8. EncodeAsOpenType(Entry(k).scope) <=> k + 1 > RootLen
    BY <1>0, <1>6
  <1>9. \E next : /\ Laid(next, WithField(c, Entry(k).scope, k), k + 1)
                  /\ Len(WithField(c, Entry(k).scope, k)) = next[k + 1]
    <2>1. k \in 0 .. Len(SenderFields) - 1
      BY <1>0
    <2>2. PICK next : /\ Laid(next, WithField(c, Entry(k).scope, k), k + 1)
                      /\ Len(WithField(c, Entry(k).scope, k)) = next[k + 1]
                      /\ \A i \in 0 .. k : next[i] = at[i]
      <3> DEFINE s == Entry(k).scope
      <3>1. EncodeAsOpenType(s) <=> k + 1 > RootLen
        BY <1>8
      <3> HIDE DEF s
      <3>2. Layout(at, k) /\ Ready(at, c, k)
        BY <1>3, <1>4
      <3>3. \E next : /\ Laid(next, WithField(c, s, k), k + 1)
                      /\ Len(WithField(c, s, k)) = next[k + 1]
                      /\ \A i \in 0 .. k : next[i] = at[i]
        BY <2>1, <3>1, <3>2, FieldAppended
      <3> QED
        BY <3>3 DEF s
    <2> QED
      BY <2>2
  <1> QED
    BY <1>6, <1>9 DEF WroteUpTo

\* The first addition, given or not: it decides whether any is sent.
LEMMA FirstAdditionWritten ==
  ASSUME DataOK, NEW at, RootLen < Len(SenderFields),
         bits \in Seq({0, 1}), WroteUpTo(scope, at, bits, RootLen)
  PROVE  /\ Entry(RootLen).ok
         /\ \E next : WroteUpTo(Entry(RootLen).scope, next,
                          WithField(Entry(RootLen).bits, Entry(RootLen).scope, RootLen),
                          RootLen + 1)
  <1> DEFINE c == Entry(RootLen).bits
             s == Entry(RootLen).scope
             mapped == (Put(bits, 0, 1) \o SmallNumber(ExtLen - 1))
                          \o [i \in 1 .. ExtLen |-> 1]
  <1>1. Laid(at, bits, RootLen) /\ Len(bits) = at[RootLen] /\ WriterScope(scope, at, RootLen)
    BY DEF WroteUpTo
  <1>2. RootLen \in RootLen .. Len(SenderFields) - 1 /\ RootLen \in 0 .. Len(SenderFields) - 1
    BY LayoutTypes
  <1>3. /\ RootLen \in Nat /\ ExtLen \in Nat /\ ExtLen > 0 /\ schema.extensible
        /\ schema.ext # <<>> /\ Layout(at, RootLen) /\ at[RootLen] \in Nat
    BY <1>1, <1>2, AdditionFacts
  <1>4. scope = ExtensibleSequence(0, 1 + Marks(RootLen), HeaderEnd, 0, ExtLen)
    <2>1. PICK n \in Nat :
             /\ scope = ExtensibleSequence(0, 1 + Marks(RootLen), HeaderEnd, n, ExtLen)
             /\ n = RootLen - RootLen
      BY <1>1, <1>3 DEF WriterScope
    <2>2. n = 0
      BY <2>1, <1>3
    <2> QED
      BY <2>1, <2>2
  <1>5. SenderFields[RootLen + 1] # "null"
    <2>1. RootLen + 1 \in RootLen + 1 .. Len(SenderFields)
      BY <1>2, LayoutTypes
    <2>2. SenderFields[RootLen + 1] \in ExtKinds
      BY <2>1, LayoutTypes
    <2> QED
      BY <2>2 DEF ExtKinds
  <1>6. Given(RootLen + 1) = Present(SenderFields[RootLen + 1], value[RootLen + 1])
    BY <1>5, GivenIsPresent
  <1>7. Extended <=> Given(RootLen + 1)
    BY <1>3 DEF Extended
  <1>8. /\ Entry(RootLen).ok
        /\ Given(RootLen + 1) =>
              /\ c = mapped
              /\ s = AllBitField(Len(Put(bits, 0, 1) \o SmallNumber(ExtLen - 1)) + 1,
                                 Len(mapped))
        /\ ~Given(RootLen + 1) => c = Put(bits, 0, 0) /\ s = ExtensibleSequenceEmpty
    <2>1. CASE Given(RootLen + 1)
      BY <2>1, <1>4, <1>6 DEF Entry, WriteEntry, ExtensibleSequence, Bit
    <2>2. CASE ~Given(RootLen + 1)
      BY <2>2, <1>4, <1>6 DEF Entry, WriteEntry, ExtensibleSequence, Bit
    <2> QED
      BY <2>1, <2>2
  <1> HIDE DEF mapped
  <1>9. Ready(at, c, RootLen)
    <2>1. CASE Given(RootLen + 1)
      <3>1. Ready(at, mapped, RootLen)
        BY <2>1, <1>1, <1>7, FirstAdditionReady DEF mapped
      <3> HIDE DEF c, s
      <3> QED
        BY <2>1, <3>1, <1>8
    <2>2. CASE ~Given(RootLen + 1)
      <3>1. c = IF RootLen = RootLen THEN Put(bits, 0, 0) ELSE bits
        BY <2>2, <1>8
      <3> HIDE DEF c, s
      <3> QED
        BY <2>2, <3>1, <1>1, <1>2, <1>7, LeftOutReady
    <2> QED
      BY <2>1, <2>2
  <1>10. /\ EncodeAsOpenType(s) <=> RootLen + 1 > RootLen
         /\ \A next : next[RootLen] = at[RootLen] => WriterScope(s, next, RootLen + 1)
    <2>1. CASE Given(RootLen + 1)
      <3>1. /\ Len(mapped) = at[RootLen] + 7 + ExtLen
            /\ Len(Put(bits, 0, 1) \o SmallNumber(ExtLen - 1)) = at[RootLen] + 7
        BY <2>1, <1>1, <1>7, FirstAdditionReady DEF mapped
      <3> HIDE DEF c, s
      <3>2. s = AllBitField(at[RootLen] + 7 + 1, at[RootLen] + 7 + ExtLen)
        BY <2>1, <3>1, <1>8
      <3>3. RootLen + 1 > RootLen /\ ~(RootLen + 1 <= RootLen)
              /\ (RootLen + 1) - RootLen = 1
        BY <1>3
      <3>4. EncodeAsOpenType(s)
        BY <3>2 DEF EncodeAsOpenType, AllBitField
      <3> QED
        BY <2>1, <3>2, <3>3, <3>4, <1>3, <1>7 DEF WriterScope
    <2>2. CASE ~Given(RootLen + 1)
      <3> HIDE DEF c, s
      <3>1. RootLen + 1 > RootLen /\ ~(RootLen + 1 <= RootLen)
        BY <1>3
      <3> QED
        BY <2>2, <3>1, <1>3, <1>7, <1>8
           DEF WriterScope, EncodeAsOpenType, ExtensibleSequenceEmpty
    <2> QED
      BY <2>1, <2>2
  <1> HIDE DEF c, s
  <1>11. PICK next : /\ Laid(next, WithField(c, s, RootLen), RootLen + 1)
                     /\ Len(WithField(c, s, RootLen)) = next[RootLen + 1]
                     /\ \A i \in 0 .. RootLen : next[i] = at[i]
    BY <1>2, <1>3, <1>9, <1>10, FieldAppended
  <1>12. WriterScope(s, next, RootLen + 1)
    BY <1>3, <1>10, <1>11
  <1> QED
    BY <1>8, <1>11, <1>12 DEF WroteUpTo, c, s

\* A further addition: written if the first one was given, refused otherwise.
LEMMA AdditionWritten ==
  ASSUME DataOK, NEW at, NEW k \in RootLen + 1 .. Len(SenderFields) - 1,
         bits \in Seq({0, 1}), WroteUpTo(scope, at, bits, k)
  PROVE  /\ Entry(k).ok <=> (Given(k + 1) => Extended)
         /\ Entry(k).ok =>
              \E next : WroteUpTo(Entry(k).scope, next,
                                  WithField(Entry(k).bits, Entry(k).scope, k), k + 1)
  <1> DEFINE c == Entry(k).bits
             s == Entry(k).scope
  <1>1. Laid(at, bits, k) /\ Len(bits) = at[k] /\ WriterScope(scope, at, k)
    BY DEF WroteUpTo
  <1>2. /\ k \in RootLen .. Len(SenderFields) - 1 /\ k \in 0 .. Len(SenderFields) - 1
        /\ k > RootLen /\ ~(k <= RootLen) /\ k \in Nat /\ RootLen \in Nat
    BY LayoutSizes
  <1>3. /\ ExtLen \in Nat /\ schema.extensible /\ RootLen \in 0 .. k
        /\ Layout(at, k) /\ at[RootLen] \in Nat
    BY <1>1, <1>2, AdditionFacts
  <1>4. SenderFields[k + 1] # "null"
    <2>1. k + 1 \in RootLen + 1 .. Len(SenderFields)
      BY <1>2, LayoutTypes
    <2>2. SenderFields[k + 1] \in ExtKinds
      BY <2>1, LayoutTypes
    <2> QED
      BY <2>2 DEF ExtKinds
  <1>5. Given(k + 1) = Present(SenderFields[k + 1], value[k + 1])
    BY <1>4, GivenIsPresent
  <1>6. /\ k + 1 > RootLen /\ ~(k + 1 <= RootLen)
        /\ (k + 1) - RootLen = (k - RootLen) + 1
        /\ at[RootLen] + 7 + (k - RootLen) + 1 = at[RootLen] + 7 + ((k + 1) - RootLen)
    <2> DEFINE a == at[RootLen]
    <2>1. a \in Nat
      BY <1>3
    <2> HIDE DEF a
    <2>2. /\ k + 1 > RootLen /\ ~(k + 1 <= RootLen)
          /\ (k + 1) - RootLen = (k - RootLen) + 1
          /\ a + 7 + (k - RootLen) + 1 = a + 7 + ((k + 1) - RootLen)
      BY <2>1, <1>2
    <2> QED
      BY <2>2 DEF a
  <1>7. CASE Extended
    <2>1. scope = AllBitField(at[RootLen] + 7 + (k - RootLen), at[RootLen] + 7 + ExtLen)
      BY <1>1, <1>2, <1>3, <1>7 DEF WriterScope
    <2>2. /\ Entry(k).ok
          /\ c = Put(bits, at[RootLen] + 7 + (k - RootLen), Bit(Given(k + 1)))
          /\ s = TakeBit(scope)
      BY <2>1, <1>5 DEF Entry, WriteEntry, AllBitField
    <2>3. s = AllBitField(at[RootLen] + 7 + ((k + 1) - RootLen), at[RootLen] + 7 + ExtLen)
      BY <2>1, <2>2, <1>6 DEF TakeBit, AllBitField
    <2> HIDE DEF c, s
    <2>4. Ready(at, c, k)
      BY <2>2, <1>1, <1>7, AdditionReady
    <2>5. EncodeAsOpenType(s) <=> k + 1 > RootLen
      BY <2>3, <1>6 DEF EncodeAsOpenType, AllBitField
    <2>6. PICK next : /\ Laid(next, WithField(c, s, k), k + 1)
                      /\ Len(WithField(c, s, k)) = next[k + 1]
                      /\ \A i \in 0 .. k : next[i] = at[i]
      BY <2>4, <2>5, <1>2, <1>3, FieldAppended
    <2>7. WriterScope(s, next, k + 1)
      <3>1. next[RootLen] = at[RootLen]
        BY <2>6, <1>3
      <3> QED
        BY <2>3, <3>1, <1>3, <1>6, <1>7 DEF WriterScope
    <2> QED
      BY <2>2, <2>6, <2>7, <1>7 DEF WroteUpTo, c, s
  <1>8. CASE ~Extended
    <2>1. scope = ExtensibleSequenceEmpty
      BY <1>1, <1>2, <1>3, <1>8 DEF WriterScope
    <2>2. /\ Entry(k).ok = ~Given(k + 1)
          /\ c = bits /\ s = ExtensibleSequenceEmpty
      BY <2>1, <1>5 DEF Entry, WriteEntry, ExtensibleSequenceEmpty, Consistent
    <2> HIDE DEF c, s
    <2>3. SUFFICES ASSUME ~Given(k + 1)
                   PROVE  \E next : WroteUpTo(s, next, WithField(c, s, k), k + 1)
      BY <2>2, <1>8 DEF c, s
    <2>4. Ready(at, c, k)
      <3>1. c = IF k = RootLen THEN Put(bits, 0, 0) ELSE bits
        BY <2>2, <1>2
      <3> QED
        BY <2>3, <3>1, <1>1, <1>2, <1>8, LeftOutReady
    <2>5. EncodeAsOpenType(s) <=> k + 1 > RootLen
      BY <2>2, <1>6 DEF EncodeAsOpenType, ExtensibleSequenceEmpty
    <2>6. PICK next : /\ Laid(next, WithField(c, s, k), k + 1)
                      /\ Len(WithField(c, s, k)) = next[k + 1]
                      /\ \A i \in 0 .. k : next[i] = at[i]
      BY <2>4, <2>5, <1>2, <1>3, FieldAppended
    <2>7. WriterScope(s, next, k + 1)
      BY <2>2, <1>3, <1>6, <1>8 DEF WriterScope
    <2> QED
      BY <2>6, <2>7 DEF WroteUpTo
  <1> QED
    BY <1>7, <1>8

\* A NULL field: it has no bits, and the scope is not told of it.
LEMMA NullWritten ==
  ASSUME DataOK, NoNullBeforeAdditions, NEW at, NEW k \in 0 .. Len(SenderFields) - 1,
         bits \in Seq({0, 1}), WroteUpTo(scope, at, bits, k),
         SenderFields[k + 1] = "null"
  PROVE  k + 1 <= RootLen /\ \E next : WroteUpTo(scope, next, bits, k + 1)
  <1>0. /\ RootLen \in Nat /\ ExtLen \in Nat /\ k \in Nat
        /\ Len(SenderFields) = RootLen + ExtLen
        /\ \A i \in 1 .. RootLen : SenderFields[i] = schema.root[i]
    BY LayoutTypes
  <1>s. schema \in Schemas
    BY DEF DataOK
  <1>1. k + 1 <= RootLen
    <2>1. ASSUME k + 1 > RootLen PROVE FALSE
      <3>1. k + 1 \in RootLen + 1 .. Len(SenderFields)
        BY <2>1, <1>0
      <3>2. SenderFields[k + 1] \in ExtKinds
        BY <3>1, LayoutTypes
      <3> QED
        BY <3>2 DEF ExtKinds
    <2> QED
      BY <2>1, <1>0
  <1>2. k \in 0 .. RootLen - 1 /\ k + 1 \in 1 .. RootLen /\ (k + 1) - 1 = k /\ k <= RootLen
    BY <1>0, <1>1
  <1>3. /\ Laid(at, bits, k) /\ Len(bits) = at[k] /\ WriterScope(scope, at, k)
        /\ Layout(at, k)
    BY DEF WroteUpTo, Laid
  <1>4. schema.ext = <<>>
    <2>1. schema.root[k + 1] = "null" /\ k + 1 \in DOMAIN schema.root
      <3>1. schema.root \in Seq(RootKinds)
        BY <1>s, <1>0, SchemaTypes
      <3>2. k + 1 \in DOMAIN schema.root
        BY <3>1, <1>2 DEF RootLen
      <3> QED
        BY <3>2, <1>0, <1>2
    <2> QED
      BY <1>s, <2>1, <1>0 DEF NoNullBeforeAdditions
  <1>5. ~IsOpt(SenderFields[k + 1]) /\ ~Given(k + 1)
    BY DEF IsOpt, Given
  <1>6. Ready(at, bits, k)
    BY <1>2, <1>3, <1>5, RootFieldReady
  <1>7. Marks(k + 1) = Marks(k)
    <2>1. Marks(k) \in Nat /\ Marks(k + 1) = Marks(k) + 0
      <3>1. k \in 0 .. RootLen /\ SenderFields[k + 1] = schema.root[k + 1]
        BY <1>0, <1>2
      <3> QED
        BY <1>s, <3>1, <1>0, <1>2, <1>5, MarksCount
    <2> QED
      BY <2>1
  <1>8. EncodeAsOpenType(NoScope) <=> k + 1 > RootLen
    BY <1>0, <1>1 DEF EncodeAsOpenType, NoScope
  <1>9. PICK next : /\ Laid(next, WithField(bits, NoScope, k), k + 1)
                    /\ Len(WithField(bits, NoScope, k)) = next[k + 1]
                    /\ \A i \in 0 .. k : next[i] = at[i]
    BY <1>3, <1>6, <1>8, FieldAppended
  <1>10. WithField(bits, NoScope, k) = bits
    BY <1>5 DEF WithField
  <1>11. WriterScope(scope, next, k + 1)
    <2>1. CASE ~schema.extensible
      BY <2>1, <1>3, <1>7 DEF WriterScope
    <2>2. CASE schema.extensible
      <3>1. PICK n \in Nat :
               /\ scope = ExtensibleSequence(0, 1 + Marks(k), HeaderEnd, n, ExtLen)
               /\ n >= RootLen - k
        BY <1>2, <1>3, <2>2 DEF WriterScope
      <3>2. n >= RootLen - k
        BY <3>1
      <3>3. n >= RootLen - (k + 1)
        BY <3>2, <1>0
      <3> QED
        BY <3>1, <3>3, <2>2, <1>1, <1>4, <1>7 DEF WriterScope
    <2> QED
      BY <2>1, <2>2
  <1> QED
    BY <1>1, <1>9, <1>10, <1>11 DEF WroteUpTo

\* What lies behind a message does not change it.
LEMMA LaidStays ==
  ASSUME DataOK, NEW at, NEW k \in 0 .. Len(SenderFields), NEW b, NEW c,
         Laid(at, b, k), \A p \in 1 .. at[k] : c[p] = b[p]
  PROVE  Laid(at, c, k)
  <1>0. /\ RootLen \in Nat /\ ExtLen \in Nat /\ k \in Nat
        /\ Len(SenderFields) = RootLen + ExtLen
        /\ Optionals(schema) \in Nat /\ HeaderEnd \in Nat /\ Flag \in {0, 1}
        /\ HeaderEnd = Flag + Optionals(schema) /\ (schema.extensible => Flag = 1)
    BY LayoutTypes
  <1>1. Layout(at, k) /\ PiecesLaid(at, b, k) /\ MarksLaid(b, k) /\ ExtensionLaid(at, b, k)
    BY DEF Laid
  <1>2. at[k] \in Nat /\ HeaderEnd <= at[k] /\ at[RootLen] \in Nat
    BY <1>1, LayoutNumbers
  <1>3. PiecesLaid(at, c, k)
    <2>1. \A p \in HeaderEnd + 1 .. at[k] :
            \/ c[p] = b[p]
            \/ /\ k > RootLen /\ Extended
               /\ p > at[RootLen] /\ p <= at[RootLen] + 7 + ExtLen
      <3> TAKE p \in HeaderEnd + 1 .. at[k]
      <3>1. p \in 1 .. at[k]
        BY <1>0, <1>2
      <3> QED
        BY <3>1
    <2> QED
      BY <2>1, <1>1, PiecesKept, Zenon
  <1>4. MarksLaid(c, k)
    <2> SUFFICES ASSUME NEW i \in 1 .. k, i <= RootLen, IsOpt(SenderFields[i])
                 PROVE  c[Flag + Marks(i)] = Bit(Given(i))
      BY DEF MarksLaid
    <2>1. b[Flag + Marks(i)] = Bit(Given(i))
      BY <1>1 DEF MarksLaid
    <2> DEFINE p == Flag + Marks(i)
    <2>2. i \in 1 .. RootLen
      BY <1>0
    <2>3. p \in Flag + 1 .. HeaderEnd
      BY <2>2, MarkPlace
    <2> HIDE DEF p
    <2>4. p \in 1 .. at[k]
      BY <2>3, <1>0, <1>2
    <2>5. c[p] = b[p]
      BY <2>4
    <2> QED
      BY <2>1, <2>5 DEF p
  <1>5. ExtensionLaid(at, c, k)
    <2>1. ASSUME schema.extensible PROVE c[1] = Bit(k > RootLen /\ Extended)
      <3>1. 1 \in 1 .. at[k]
        BY <2>1, <1>0, <1>2
      <3> QED
        BY <2>1, <3>1, <1>1 DEF ExtensionLaid
    <2>2. ASSUME k > RootLen, Extended
          PROVE  /\ c[at[RootLen] + 1] = 0
                 /\ \A j \in 1 .. 6 : c[at[RootLen] + 1 + j] = ToBits(ExtLen - 1, 6)[j]
                 /\ \A i \in RootLen + 1 .. k :
                      c[at[RootLen] + 7 + (i - RootLen)] = Bit(Given(i))
      <3> DEFINE a == at[RootLen]
      <3>1. a + 7 + ExtLen <= at[k] /\ a \in Nat
        BY <2>2, <1>1, <1>2, BitFieldPlace
      <3>2. /\ b[a + 1] = 0
            /\ \A j \in 1 .. 6 : b[a + 1 + j] = ToBits(ExtLen - 1, 6)[j]
            /\ \A i \in RootLen + 1 .. k : b[a + 7 + (i - RootLen)] = Bit(Given(i))
        BY <2>2, <1>1 DEF ExtensionLaid
      <3> HIDE DEF a
      <3>5. k <= RootLen + ExtLen
        BY <1>0
      <3>6. a + 1 \in 1 .. at[k] /\ \A j \in 1 .. 6 : a + 1 + j \in 1 .. at[k]
        <4> DEFINE n == at[k]
        <4>1. a \in Nat /\ n \in Nat /\ ExtLen \in Nat /\ a + 7 + ExtLen <= n
          BY <3>1, <1>0, <1>2
        <4> HIDE DEF n
        <4>2. a + 7 <= n
          BY <4>1
        <4>3. a + 1 \in 1 .. n
          BY <4>1, <4>2
        <4>4. ASSUME NEW j \in 1 .. 6 PROVE a + 1 + j \in 1 .. n
          BY <4>1, <4>2
        <4> QED
          BY <4>3, <4>4 DEF n
      <3>7. \A i \in RootLen + 1 .. k : a + 7 + (i - RootLen) \in 1 .. at[k]
        BY <3>1, <3>5, <1>0, <1>2
      <3>3. /\ a + 1 \in 1 .. at[k]
            /\ \A j \in 1 .. 6 : a + 1 + j \in 1 .. at[k]
            /\ \A i \in RootLen + 1 .. k : a + 7 + (i - RootLen) \in 1 .. at[k]
        BY <3>6, <3>7
      <3>4. /\ c[a + 1] = 0
            /\ \A j \in 1 .. 6 : c[a + 1 + j] = ToBits(ExtLen - 1, 6)[j]
            /\ \A i \in RootLen + 1 .. k : c[a + 7 + (i - RootLen)] = Bit(Given(i))
        BY <3>2, <3>3
      <3> QED
        BY <3>4 DEF a
    <2> QED
      BY <2>1, <2>2 DEF ExtensionLaid
  <1> QED
    BY <1>1, <1>3, <1>4, <1>5 DEF Laid

\* The layout depends on the definitions and the value only.
LEMMA LayoutUnchanged ==
  ASSUME UNCHANGED <<schema, value>>
  PROVE  /\ RootLen' = RootLen /\ ExtLen' = ExtLen /\ PeerLen' = PeerLen
         /\ Len(SenderFields)' = Len(SenderFields)
         /\ Len(ReceiverFields)' = Len(ReceiverFields)
         /\ Extended' = Extended /\ Flag' = Flag /\ HeaderEnd' = HeaderEnd
         /\ \A i : Given(i)' = Given(i) /\ Marks(i)' = Marks(i)
         /\ \A k : InOrder(k)' = InOrder(k)
         /\ \A at, k : Layout(at, k)' = Layout(at, k)
         /\ \A at, b, k : Laid(at, b, k)' = Laid(at, b, k)
         /\ \A s, at, k : WriterScope(s, at, k)' = WriterScope(s, at, k)
         /\ \A s, at, b, k : WroteUpTo(s, at, b, k)' = WroteUpTo(s, at, b, k)
  <1>1. /\ RootLen' = RootLen /\ ExtLen' = ExtLen /\ PeerLen' = PeerLen
        /\ SenderFields' = SenderFields /\ ReceiverFields' = ReceiverFields
        /\ Flag' = Flag /\ HeaderEnd' = HeaderEnd
    BY DEF RootLen, ExtLen, PeerLen, SenderFields, ReceiverFields, Flag, HeaderEnd
  <1>2. \A i : Given(i)' = Given(i)
    BY <1>1 DEF Given, Sent
  <1>3. \A i : Marks(i)' = Marks(i)
    BY DEF Marks
  <1>4. Extended' = Extended
    BY <1>1, <1>2 DEF Extended
  <1>5. \A i : Gap(i)' = Gap(i) /\ Piece(i)' = Piece(i) /\ Size(i)' = Size(i)
    <2>1. \A i : Gap(i)' = Gap(i)
      BY <1>1, <1>2 DEF Gap
    <2>2. \A i : Piece(i)' = Piece(i)
      BY <1>1, <1>2 DEF Piece
    <2> QED
      BY <2>1, <2>2 DEF Size
  <1>6. \A at, k : Layout(at, k)' = Layout(at, k)
    BY <1>1, <1>5 DEF Layout
  <1>7. \A at, b, k : PiecesLaid(at, b, k)' = PiecesLaid(at, b, k)
    BY <1>5 DEF PiecesLaid
  <1>8. \A b, k : MarksLaid(b, k)' = MarksLaid(b, k)
    BY <1>1, <1>2, <1>3 DEF MarksLaid
  <1>9. \A at, b, k : ExtensionLaid(at, b, k)' = ExtensionLaid(at, b, k)
    BY <1>1, <1>2, <1>4 DEF ExtensionLaid
  <1>10. \A at, b, k : Laid(at, b, k)' = Laid(at, b, k)
    BY <1>6, <1>7, <1>8, <1>9 DEF Laid
  <1>11. \A s, at, k : WriterScope(s, at, k)' = WriterScope(s, at, k)
    <2> TAKE s, at, k
    <2>1. Marks(k)' = Marks(k)
      BY <1>3
    <2>2. schema.extensible' = schema.extensible
      OBVIOUS
    <2>3. (\E c \in Nat : /\ s = ExtensibleSequence(0, 1 + Marks(k), HeaderEnd, c, ExtLen)
                          /\ c >= RootLen - k /\ (schema.ext # <<>> => c = RootLen - k))'
          = (\E c \in Nat : /\ s = ExtensibleSequence(0, 1 + Marks(k), HeaderEnd, c, ExtLen)
                            /\ c >= RootLen - k /\ (schema.ext # <<>> => c = RootLen - k))
      BY <1>1, <2>1
    <2> QED
      BY <1>1, <2>1, <2>2, <2>3, <1>4 DEF WriterScope
  <1>12. \A s, at, b, k : WroteUpTo(s, at, b, k)' = WroteUpTo(s, at, b, k)
    BY <1>10, <1>11 DEF WroteUpTo
  <1>13. \A k : InOrder(k)' = InOrder(k)
    BY <1>1, <1>2, <1>4 DEF InOrder
  <1> QED
    BY <1>1, <1>2, <1>3, <1>4, <1>6, <1>10, <1>11, <1>12, <1>13

\* The writer's invariant: what it has laid, what its scope is, and what it
\* fails on.
WriterAt(at) ==
    /\ WroteUpTo(scope, at, bits, field) /\ InOrder(field)
    /\ phase = "writeError" =>
          /\ field \in RootLen + 1 .. Len(SenderFields) - 1
          /\ Given(field + 1) /\ ~Extended

\* The message as it is sent.
MessageAt(at) ==
    /\ Laid(at, bits, Len(SenderFields)) /\ InOrder(Len(SenderFields))
    /\ Len(bits) = at[Len(SenderFields)] + 1 /\ bits[Len(bits)] = tail

WriterInv ==
    /\ phase \in {"writeFields", "writeError"} => \E at : WriterAt(at)
    /\ Written => \E at : MessageAt(at)

\* Behind the header nothing is laid yet.
LEMMA HeaderWritten ==
  ASSUME TypeInv, WriteHeader
  PROVE  \E at : WroteUpTo(scope', at, bits', 0) /\ InOrder(0)
  <1> DEFINE at == [n \in Nat |-> HeaderEnd]
  <1>0. /\ RootLen \in Nat /\ ExtLen \in Nat /\ RootLen > 0
        /\ HeaderEnd \in Nat /\ Flag \in {0, 1} /\ HeaderEnd = Flag + Optionals(schema)
        /\ Optionals(schema) \in Nat
        /\ (schema.extensible => Flag = 1) /\ schema \in Schemas
    BY LayoutTypes DEF TypeInv, DataOK
  <1>1. bits' = [i \in 1 .. HeaderEnd |-> 0]
    BY DEF WriteHeader, HeaderEnd
  <1>2. Len(bits') = HeaderEnd /\ \A p \in 1 .. HeaderEnd : bits'[p] = 0
    BY <1>0, <1>1
  <1>3. at[0] = HeaderEnd /\ at \in [Nat -> Nat] /\ \A n \in Nat : at[n] = HeaderEnd
    BY <1>0
  <1> HIDE DEF at
  <1>4. Layout(at, 0)
    <2>1. \A i, j \in 0 .. 0 : i <= j => at[i] <= at[j]
      BY <1>0, <1>3
    <2> QED
      BY <1>3, <2>1 DEF Layout
  <1>5. PiecesLaid(at, bits', 0) /\ MarksLaid(bits', 0)
    BY DEF PiecesLaid, MarksLaid
  <1>6. ExtensionLaid(at, bits', 0)
    <2>1. schema.extensible => bits'[1] = 0
      BY <1>0, <1>2
    <2>2. ~(0 > RootLen)
      BY <1>0
    <2> QED
      BY <2>1, <2>2 DEF ExtensionLaid, Bit
  <1>7. Marks(0) = 0
    BY <1>0, MarksCount
  <1>8. WriterScope(scope', at, 0)
    <2>1. CASE schema.extensible
      <3>1. scope' = ExtensibleSequence(0, 1, 1 + Optionals(schema), RootLen, ExtLen)
        BY <2>1 DEF WriteHeader, RootLen, ExtLen
      <3>2. HeaderEnd = 1 + Optionals(schema) /\ 1 + Marks(0) = 1 /\ RootLen - 0 = RootLen
            /\ 0 <= RootLen /\ RootLen >= RootLen
        BY <1>0, <1>7, <2>1
      <3>3. scope' = ExtensibleSequence(0, 1 + Marks(0), HeaderEnd, RootLen, ExtLen)
        BY <3>1, <3>2
      <3> QED
        BY <2>1, <3>2, <3>3, <1>0 DEF WriterScope
    <2>2. CASE ~schema.extensible
      <3>1. scope' = OptBitField(0, 0 + Optionals(schema))
        BY <2>2 DEF WriteHeader
      <3>2. HeaderEnd = 0 + Optionals(schema)
        BY <2>2 DEF HeaderEnd
      <3> QED
        BY <2>2, <3>1, <3>2, <1>7 DEF WriterScope
    <2> QED
      BY <2>1, <2>2
  <1>9. InOrder(0)
    <2>1. \A i \in RootLen + 1 .. 0 : FALSE
      BY <1>0
    <2> QED
      BY <2>1 DEF InOrder
  <1> QED
    BY <1>2, <1>3, <1>4, <1>5, <1>6, <1>8, <1>9 DEF WroteUpTo, Laid

\* A step of the writer goes on with the layout, or fails on an addition that
\* is given behind a first one that is not.
LEMMA FieldWritten ==
  ASSUME TypeInv, NoNullBeforeAdditions, NEW at, WriterAt(at), WriteField
  PROVE  \/ /\ phase' = "writeFields" /\ field' = field + 1
            /\ \E next : WroteUpTo(scope', next, bits', field + 1)
            /\ InOrder(field + 1)
         \/ /\ phase' = "writeError" /\ UNCHANGED <<scope, bits, field>>
            /\ field \in RootLen + 1 .. Len(SenderFields) - 1
            /\ Given(field + 1) /\ ~Extended
  <1> DEFINE kind == SenderFields[field + 1]
             v == value[field + 1]
  <1>0. /\ DataOK /\ bits \in Seq({0, 1}) /\ RootLen \in Nat /\ ExtLen \in Nat
        /\ Len(SenderFields) = RootLen + ExtLen /\ Len(SenderFields) \in Nat
    BY LayoutTypes DEF TypeInv, DataOK
  <1>1. /\ field \in 0 .. Len(SenderFields) - 1 /\ phase = "writeFields"
        /\ field \in Nat
    <2>1. field \in 0 .. Len(SenderFields) /\ field < Len(SenderFields)
          /\ phase = "writeFields"
      BY DEF TypeInv, PositionsOK, WriteField
    <2> QED
      BY <2>1, <1>0
  <1>2. WroteUpTo(scope, at, bits, field) /\ InOrder(field)
    BY DEF WriterAt
  <1>3. ASSUME NEW n, n = field + 1, n <= RootLen \/ (Given(n) => Extended)
        PROVE  InOrder(n)
    <2> SUFFICES ASSUME NEW i \in RootLen + 1 .. n, Given(i) PROVE Extended
      BY DEF InOrder
    <2>1. i \in RootLen + 1 .. field \/ (i = n /\ n > RootLen)
      BY <1>0, <1>1, <1>3
    <2>2. CASE i \in RootLen + 1 .. field
      BY <2>2, <1>2 DEF InOrder
    <2>3. CASE i = n /\ n > RootLen
      BY <2>3, <1>0, <1>1, <1>3
    <2> QED
      BY <2>1, <2>2, <2>3
  <1>4. CASE kind = "null"
    <2>1. field' = field + 1 /\ UNCHANGED <<bits, scope, phase>>
      BY <1>4 DEF WriteField
    <2>2. field + 1 <= RootLen /\ \E next : WroteUpTo(scope, next, bits, field + 1)
      BY <1>0, <1>1, <1>2, <1>4, NullWritten
    <2>3. InOrder(field + 1)
      BY <2>2, <1>3
    <2> QED
      BY <2>1, <2>2, <2>3, <1>1
  <1>5. CASE kind # "null"
    <2>1. Given(field + 1) = Present(kind, v)
      BY <1>5, GivenIsPresent
    <2>2. \/ /\ Entry(field).ok
             /\ bits' = WithField(Entry(field).bits, Entry(field).scope, field)
             /\ scope' = Entry(field).scope /\ field' = field + 1 /\ phase' = phase
          \/ /\ ~Entry(field).ok
             /\ phase' = "writeError" /\ UNCHANGED <<bits, scope, field>>
      BY <1>5, <2>1 DEF WriteField, Entry, WithField
    <2>3. CASE field < RootLen
      <3>1. field \in 0 .. RootLen - 1 /\ field + 1 <= RootLen
        BY <2>3, <1>0, <1>1
      <3>2. /\ Entry(field).ok
            /\ \E next : WroteUpTo(Entry(field).scope, next,
                          WithField(Entry(field).bits, Entry(field).scope, field), field + 1)
        BY <3>1, <1>0, <1>2, <1>5, RootFieldWritten
      <3>3. InOrder(field + 1)
        BY <3>1, <1>3
      <3> QED
        BY <3>2, <3>3, <2>2, <1>1
    <2>4. CASE field = RootLen
      <3>1. RootLen < Len(SenderFields)
        BY <2>4, <1>0, <1>1
      <3>2. /\ Entry(field).ok
            /\ \E next : WroteUpTo(Entry(field).scope, next,
                          WithField(Entry(field).bits, Entry(field).scope, field), field + 1)
        BY <3>1, <2>4, <1>0, <1>2, FirstAdditionWritten
      <3>3. Given(field + 1) => Extended
        <4>1. ExtLen # 0
          BY <3>1, <1>0
        <4>2. schema.ext # <<>>
          BY <4>1 DEF ExtLen
        <4> QED
          BY <4>2, <2>4 DEF Extended
      <3>4. InOrder(field + 1)
        BY <3>3, <1>3
      <3> QED
        BY <3>2, <3>4, <2>2, <1>1
    <2>5. CASE field > RootLen
      <3>1. field \in RootLen + 1 .. Len(SenderFields) - 1
        BY <2>5, <1>0, <1>1
      <3>2. /\ Entry(field).ok <=> (Given(field + 1) => Extended)
            /\ Entry(field).ok =>
                \E next : WroteUpTo(Entry(field).scope, next,
                            WithField(Entry(field).bits, Entry(field).scope, field), field + 1)
        BY <3>1, <1>0, <1>2, AdditionWritten
      <3>3. CASE Entry(field).ok
        <4>1. InOrder(field + 1)
          BY <3>2, <3>3, <1>3
        <4> QED
          BY <3>2, <3>3, <4>1, <2>2, <1>1
      <3>4. CASE ~Entry(field).ok
        BY <3>1, <3>2, <3>4, <2>2
      <3> QED
        BY <3>3, <3>4
    <2> QED
      BY <2>3, <2>4, <2>5, <1>0, <1>1
  <1> QED
    BY <1>4, <1>5

\* The message and the tail behind it.
LEMMA TailWritten ==
  ASSUME DataOK, NEW at, NEW x \in {0, 1},
         Laid(at, bits, Len(SenderFields)), Len(bits) = at[Len(SenderFields)]
  PROVE  /\ Laid(at, Append(bits, x), Len(SenderFields))
         /\ Len(Append(bits, x)) = at[Len(SenderFields)] + 1
         /\ Append(bits, x)[Len(Append(bits, x))] = x
  <1>0. bits \in Seq({0, 1}) /\ Len(bits) \in Nat /\ Len(SenderFields) \in Nat
        /\ Len(SenderFields) \in 0 .. Len(SenderFields)
    BY LayoutTypes DEF DataOK
  <1>1. /\ Len(Append(bits, x)) = Len(bits) + 1
        /\ \A p \in 1 .. Len(bits) : Append(bits, x)[p] = bits[p]
        /\ Append(bits, x)[Len(bits) + 1] = x
    BY <1>0
  <1>2. \A p \in 1 .. at[Len(SenderFields)] : Append(bits, x)[p] = bits[p]
    BY <1>1
  <1>3. Laid(at, Append(bits, x), Len(SenderFields))
    BY <1>0, <1>2, LaidStays
  <1> QED
    BY <1>1, <1>3

\* Nothing is laid out at first.
LEMMA WriterInvInit == Init => WriterInv
  BY DEF Init, WriterInv, Written

\* Every call of the sender keeps the layout, every other leaves it alone.
LEMMA WriterInvNext ==
  ASSUME NoNullBeforeAdditions, TypeInv, WriterInv, [Next]_vars
  PROVE  WriterInv'
  <1>0. /\ DataOK /\ UNCHANGED <<schema, value>> /\ Len(SenderFields) \in Nat
        /\ RootLen \in Nat
    <2>1. DataOK
      BY DEF TypeInv
    <2>2. UNCHANGED <<schema, value>>
      BY DEF Next, WriteHeader, WriteField, WriteTail, ReadHeader, ReadField, ReadTail, vars
    <2> QED
      BY <2>1, <2>2, LayoutTypes
  <1> DEFINE UpTo(s, at, b, k) == WroteUpTo(s, at, b, k)
  <1>u. /\ RootLen' = RootLen /\ Len(SenderFields)' = Len(SenderFields)
        /\ Extended' = Extended
        /\ \A i : Given(i)' = Given(i)
        /\ \A k : InOrder(k)' = InOrder(k)
        /\ \A at, b, k : Laid(at, b, k)' = Laid(at, b, k)
        /\ \A s, at, b, k : WroteUpTo(s, at, b, k)' = WroteUpTo(s, at, b, k)
    BY <1>0, LayoutUnchanged
  <1>1. ASSUME phase' = "writeFields", NEW at, WroteUpTo(scope', at, bits', field'),
               InOrder(field')
        PROVE  WriterInv'
    <2>1. WroteUpTo(scope, at, bits, field)'
      BY <1>1, <1>u
    <2>2. InOrder(field)'
      BY <1>1, <1>u
    <2>3. WriterAt(at)'
      BY <2>1, <2>2, <1>1 DEF WriterAt
    <2> QED
      BY <2>3, <1>1 DEF WriterInv, Written
  <1>2. ASSUME phase' \in {"read", "readFields", "readError", "done"},
               UNCHANGED <<bits, tail>>, Written
        PROVE  WriterInv'
    <2>1. PICK at : MessageAt(at)
      BY <1>2 DEF WriterInv
    <2>2. MessageAt(at)'
      <3>1. /\ Laid(at, bits, Len(SenderFields))' /\ InOrder(Len(SenderFields))'
        BY <2>1, <1>2, <1>u DEF MessageAt
      <3> QED
        BY <3>1, <2>1, <1>2, <1>u DEF MessageAt
    <2> QED
      BY <2>2, <1>2 DEF WriterInv
  <1>3. CASE WriteHeader
    <2>1. phase' = "writeFields" /\ field' = 0
      BY <1>3 DEF WriteHeader, TypeInv, PositionsOK
    <2>2. PICK at : WroteUpTo(scope', at, bits', 0) /\ InOrder(0)
      BY <1>3, HeaderWritten
    <2> QED
      BY <2>1, <2>2, <1>1
  <1>4. CASE WriteField
    <2>0. phase = "writeFields"
      BY <1>4 DEF WriteField
    <2>1. PICK at : WriterAt(at)
      BY <2>0 DEF WriterInv
    <2>2. CASE /\ phase' = "writeFields" /\ field' = field + 1
               /\ \E next : WroteUpTo(scope', next, bits', field + 1)
               /\ InOrder(field + 1)
      <3>1. PICK next : WroteUpTo(scope', next, bits', field')
        BY <2>2
      <3>2. InOrder(field')
        BY <2>2
      <3> QED
        BY <3>1, <3>2, <2>2, <1>1
    <2>3. CASE /\ phase' = "writeError" /\ UNCHANGED <<scope, bits, field>>
               /\ field \in RootLen + 1 .. Len(SenderFields) - 1
               /\ Given(field + 1) /\ ~Extended
      <3>1. WroteUpTo(scope, at, bits, field)' /\ InOrder(field)'
        BY <2>1, <2>3, <1>u DEF WriterAt
      <3>2. (field \in RootLen + 1 .. Len(SenderFields) - 1)'
        BY <2>3, <1>u
      <3>3. Given(field + 1)' /\ ~Extended'
        BY <2>3, <1>u
      <3>4. WriterAt(at)'
        BY <3>1, <3>2, <3>3 DEF WriterAt
      <3> QED
        BY <3>4, <2>3 DEF WriterInv, Written
    <2> QED
      BY <2>1, <2>2, <2>3, <1>4, FieldWritten
  <1>5. CASE WriteTail
    <2>1. /\ phase' = "read" /\ bits' = Append(bits, tail) /\ tail' = tail
          /\ field = Len(SenderFields) /\ phase = "writeFields" /\ tail \in {0, 1}
      BY <1>5 DEF WriteTail, TypeInv, DataOK
    <2>2. PICK at : WriterAt(at)
      BY <2>1 DEF WriterInv
    <2>3. /\ Laid(at, bits, Len(SenderFields)) /\ Len(bits) = at[Len(SenderFields)]
          /\ InOrder(Len(SenderFields))
      BY <2>1, <2>2 DEF WriterAt, WroteUpTo
    <2>4. /\ Laid(at, bits', Len(SenderFields))
          /\ Len(bits') = at[Len(SenderFields)] + 1 /\ bits'[Len(bits')] = tail
      BY <2>1, <2>3, <1>0, TailWritten
    <2>5. Laid(at, bits, Len(SenderFields))' /\ InOrder(Len(SenderFields))'
      BY <2>3, <2>4, <1>u
    <2>6. MessageAt(at)'
      BY <2>5, <2>4, <2>1, <1>u DEF MessageAt
    <2> QED
      BY <2>6, <2>1 DEF WriterInv
  <1>6. CASE ReadHeader
    BY <1>6, <1>2 DEF ReadHeader, Written
  <1>7. CASE ReadField
    <2>1. phase' \in {"readFields", "readError"} /\ phase = "readFields"
          /\ UNCHANGED <<bits, tail>>
      BY <1>7 DEF ReadField
    <2> QED
      BY <2>1, <1>2 DEF Written
  <1>8. CASE ReadTail
    BY <1>8, <1>2 DEF ReadTail, Written
  <1>9. CASE UNCHANGED vars
    <2>1. UNCHANGED <<scope, bits, field, phase, tail>>
      BY <1>9 DEF vars
    <2>2. CASE phase \in {"writeFields", "writeError"}
      <3>1. PICK at : WriterAt(at)
        BY <2>2 DEF WriterInv
      <3>2. WroteUpTo(scope, at, bits, field)' /\ InOrder(field)'
        BY <3>1, <2>1, <1>u DEF WriterAt
      <3>3. phase' = "writeError" =>
              /\ (field \in RootLen + 1 .. Len(SenderFields) - 1)'
              /\ Given(field + 1)' /\ ~Extended'
        BY <3>1, <2>1, <1>u DEF WriterAt
      <3>4. WriterAt(at)'
        BY <3>2, <3>3 DEF WriterAt
      <3> QED
        BY <3>4, <2>1, <2>2 DEF WriterInv, Written
    <2>3. CASE Written
      BY <2>1, <2>3, <1>2 DEF Written
    <2>4. CASE ~(phase \in {"writeFields", "writeError"}) /\ ~Written
      BY <2>1, <2>4 DEF WriterInv, Written
    <2> QED
      BY <2>2, <2>3, <2>4
  <1> QED
    BY <1>3, <1>4, <1>5, <1>6, <1>7, <1>8, <1>9 DEF Next

\* The layout holds in every state.
LEMMA WriterInvHolds ==
  ASSUME NoNullBeforeAdditions
  PROVE  Spec => [](TypeInv /\ WriterInv)
  <1>1. Init => TypeInv /\ WriterInv
    BY TypeInvInit, WriterInvInit
  <1>2. TypeInv /\ WriterInv /\ [Next]_vars => TypeInv' /\ WriterInv'
    BY TypeInvNext, WriterInvNext
  <1> QED
    BY <1>1, <1>2, PTL DEF Spec

\* write_sequence fails on ExtensionFieldsInconsistent only, always for a value
\* whose first addition is left out and a later one given, and never lets such
\* a value through; whatever the number of fields and additions.
THEOREM FailsOnlyInconsistentHolds ==
  ASSUME NoNullBeforeAdditions
  PROVE  Spec => []FailsOnlyInconsistent
  <1>1. TypeInv /\ WriterInv => FailsOnlyInconsistent
    <2> SUFFICES ASSUME TypeInv, WriterInv PROVE FailsOnlyInconsistent
      OBVIOUS
    <2>0. /\ DataOK /\ RootLen \in Nat /\ ExtLen \in Nat
          /\ Len(SenderFields) = RootLen + ExtLen /\ Len(SenderFields) \in Nat
          /\ DOMAIN value = 1 .. Len(SenderFields)
      <3>1. SenderFields \in Seq(RootKinds) /\ DataOK
        BY FieldsTypes DEF TypeInv, DataOK
      <3> QED
        BY <3>1, LayoutTypes DEF DataOK
    <2>1. /\ Additions = RootLen + 1 .. Len(SenderFields)
          /\ Additions # {} <=> schema.ext # <<>>
      <3>1. Additions = {i \in 1 .. Len(SenderFields) : i > RootLen}
        BY <2>0 DEF Additions, RootLen
      <3>2. Additions = RootLen + 1 .. Len(SenderFields)
        BY <3>1, <2>0
      <3>3. ExtLen > 0 <=> schema.ext # <<>>
        BY <2>0, SchemaTypes DEF ExtLen, DataOK
      <3> QED
        BY <3>2, <3>3, <2>0
    <2>2. \A i \in Additions : Given(i) <=> Sent(i)
      <3> SUFFICES ASSUME NEW i \in Additions PROVE Given(i) <=> Sent(i)
        OBVIOUS
      <3>1. SenderFields[i] \in ExtKinds
        BY <2>0, <2>1, LayoutTypes
      <3>2. SenderFields[i] # "null"
        BY <3>1 DEF ExtKinds
      <3> QED
        BY <3>2, GivenIsPresent DEF Sent
    <2>3. (\E i \in Additions : Sent(i)) => (Extended <=> Sent(RootLen + 1))
      <3> SUFFICES ASSUME Additions # {} PROVE Extended <=> Sent(RootLen + 1)
        OBVIOUS
      <3>1. RootLen + 1 \in Additions /\ schema.ext # <<>>
        BY <2>0, <2>1
      <3> QED
        BY <3>1, <2>2 DEF Extended
    <2>4. phase = "writeError" => (\E i \in Additions : Sent(i)) /\ ~Sent(RootLen + 1)
      <3> SUFFICES ASSUME phase = "writeError"
                   PROVE  (\E i \in Additions : Sent(i)) /\ ~Sent(RootLen + 1)
        OBVIOUS
      <3>1. PICK at : WriterAt(at)
        BY DEF WriterInv
      <3>2. field \in RootLen + 1 .. Len(SenderFields) - 1 /\ Given(field + 1) /\ ~Extended
        BY <3>1 DEF WriterAt
      <3>3. field + 1 \in Additions
        BY <3>2, <2>0, <2>1
      <3> QED
        BY <3>2, <3>3, <2>2, <2>3
    <2>5. Written => ~((\E i \in Additions : Sent(i)) /\ ~Sent(RootLen + 1))
      <3> SUFFICES ASSUME Written, NEW i \in Additions, Sent(i) PROVE Sent(RootLen + 1)
        OBVIOUS
      <3>1. PICK at : MessageAt(at)
        BY DEF WriterInv
      <3>2. InOrder(Len(SenderFields))
        BY <3>1 DEF MessageAt
      <3>3. Given(i) => Extended
        BY <3>2, <2>1 DEF InOrder
      <3> QED
        BY <3>3, <2>2, <2>3
    <2> QED
      BY <2>4, <2>5 DEF FailsOnlyInconsistent, RootLen
  <1> QED
    BY <1>1, WriterInvHolds, PTL

-----------------------------------------------------------------------------
(* What the receiver's primitives read of bits that are known *)

\* The bits of a number below 64 make up the number.
LEMMA SixBits ==
  ASSUME NEW n \in 0 .. 63
  PROVE  32 * ToBits(n, 6)[1] + 16 * ToBits(n, 6)[2] + 8 * ToBits(n, 6)[3]
           + 4 * ToBits(n, 6)[4] + 2 * ToBits(n, 6)[5] + ToBits(n, 6)[6] = n
  <1> DEFINE a == n \div 2
             b == n \div 4
             c == n \div 8
             d == n \div 16
             e == n \div 32
  <1>1. /\ ToBits(n, 6)[1] = (n \div 2^5) % 2 /\ ToBits(n, 6)[2] = (n \div 2^4) % 2
        /\ ToBits(n, 6)[3] = (n \div 2^3) % 2 /\ ToBits(n, 6)[4] = (n \div 2^2) % 2
        /\ ToBits(n, 6)[5] = (n \div 2^1) % 2 /\ ToBits(n, 6)[6] = (n \div 2^0) % 2
    BY DEF ToBits
  <1>2. 2^5 = 32 /\ 2^4 = 16 /\ 2^3 = 8 /\ 2^2 = 4 /\ 2^1 = 2 /\ 2^0 = 1
    OBVIOUS
  <1>3. /\ ToBits(n, 6)[1] = e % 2 /\ ToBits(n, 6)[2] = d % 2
        /\ ToBits(n, 6)[3] = c % 2 /\ ToBits(n, 6)[4] = b % 2
        /\ ToBits(n, 6)[5] = a % 2 /\ ToBits(n, 6)[6] = n % 2
    BY <1>1, <1>2
  <1>4. /\ a \in 0 .. 31 /\ b \in 0 .. 15 /\ c \in 0 .. 7 /\ d \in 0 .. 3 /\ e \in 0 .. 1
        /\ a \div 2 = b /\ b \div 2 = c /\ c \div 2 = d /\ d \div 2 = e
    OBVIOUS
  <1>5. ASSUME NEW x \in 0 .. 63
        PROVE  x % 2 \in 0 .. 1 /\ x = 2 * (x \div 2) + (x % 2)
    <2> HIDE DEF a, b, c, d, e
    <2>1. x \in Int /\ x \div 2 \in Int /\ x % 2 = x - 2 * (x \div 2)
      OBVIOUS
    <2>2. x % 2 \in 0 .. 1
      OBVIOUS
    <2> QED
      BY <2>1, <2>2
  <1>6. n \div 2 = a
    OBVIOUS
  <1> HIDE DEF a, b, c, d, e
  <1>7. /\ a \in 0 .. 63 /\ b \in 0 .. 63 /\ c \in 0 .. 63 /\ d \in 0 .. 63
        /\ e \in 0 .. 63
    BY <1>4
  <1>8. /\ n = 2 * a + (n % 2) /\ a = 2 * b + (a % 2) /\ b = 2 * c + (b % 2)
        /\ c = 2 * d + (c % 2) /\ d = 2 * e + (d % 2)
    BY <1>4, <1>5, <1>6, <1>7
  <1>9. e = e % 2
    BY <1>4
  <1>10. /\ n % 2 \in Int /\ a % 2 \in Int /\ b % 2 \in Int /\ c % 2 \in Int
         /\ d % 2 \in Int /\ e % 2 \in Int
    BY <1>5, <1>7
  <1> DEFINE n0 == n % 2
             a0 == a % 2
             b0 == b % 2
             c0 == c % 2
             d0 == d % 2
             e0 == e % 2
  <1>11. /\ n = 2 * a + n0 /\ a = 2 * b + a0 /\ b = 2 * c + b0
         /\ c = 2 * d + c0 /\ d = 2 * e + d0 /\ e = e0
         /\ n0 \in Int /\ a0 \in Int /\ b0 \in Int /\ c0 \in Int /\ d0 \in Int /\ e0 \in Int
         /\ n \in Int /\ a \in Int /\ b \in Int /\ c \in Int /\ d \in Int /\ e \in Int
    <2>1. n \in Int
      OBVIOUS
    <2>2. /\ n = 2 * a + n0 /\ a = 2 * b + a0 /\ b = 2 * c + b0
          /\ c = 2 * d + c0 /\ d = 2 * e + d0
      BY <1>8
    <2>3. e = e0
      BY <1>9
    <2>4. n0 \in Int /\ a0 \in Int /\ b0 \in Int /\ c0 \in Int /\ d0 \in Int /\ e0 \in Int
      BY <1>10
    <2>5. a \in Int /\ b \in Int /\ c \in Int /\ d \in Int /\ e \in Int
      BY <1>7
    <2> HIDE DEF n0, a0, b0, c0, d0, e0
    <2> QED
      BY <2>1, <2>2, <2>3, <2>4, <2>5
  <1>12. /\ ToBits(n, 6)[1] = e0 /\ ToBits(n, 6)[2] = d0
         /\ ToBits(n, 6)[3] = c0 /\ ToBits(n, 6)[4] = b0
         /\ ToBits(n, 6)[5] = a0 /\ ToBits(n, 6)[6] = n0
    BY <1>3
  <1> HIDE DEF n0, a0, b0, c0, d0, e0
  <1>13. 32 * e0 + 16 * d0 + 8 * c0 + 4 * b0 + 2 * a0 + n0 = n
    BY <1>11
  <1> QED
    BY <1>12, <1>13

\* A number of six bits.
LEMMA NumberOfSix ==
  ASSUME bits \in Seq({0, 1}), NEW p \in Nat, NEW n \in 0 .. 63,
         \A j \in 1 .. 6 : BitAt(p + j - 1) = ToBits(n, 6)[j]
  PROVE  NumberAt(p, 6) = n
  <1>1. \A i \in Nat : BitAt(p + i) \in {0, 1}
    BY BitAtBit
  <1>2. PICK f \in [0 .. 6 -> Nat] :
           /\ NumberAt(p, 6) = f[6] /\ f[0] = 0
           /\ \A i \in 1 .. 6 : f[i] = 2 * f[i - 1] + BitAt(p + i - 1)
    <2>1. 6 \in Nat
      OBVIOUS
    <2> QED
      BY <2>1, <1>1, NumberAtUnrolls, Zenon
  <1>3. PICK t \in [1 .. 6 -> Nat] : t = ToBits(n, 6)
    <2> DEFINE u == ToBits(n, 6)
    <2>1. u \in Seq({0, 1}) /\ Len(u) = 6
      BY ToBitsType
    <2> HIDE DEF u
    <2>2. \A i \in 1 .. 6 : u[i] \in {0, 1}
      BY <2>1, ElementOfSeq
    <2>3. ASSUME NEW i \in 1 .. 6 PROVE u[i] \in Nat
      <3>1. u[i] = 0 \/ u[i] = 1
        BY <2>2
      <3>2. 0 \in Nat /\ 1 \in Nat
        OBVIOUS
      <3> QED
        BY <3>1, <3>2, Zenon
    <2>4. DOMAIN u = 1 .. 6 /\ u = [i \in DOMAIN u |-> u[i]]
      BY <2>1
    <2>5. u \in [1 .. 6 -> Nat]
      BY <2>3, <2>4
    <2> QED
      BY <2>5 DEF u
  <1>4. 32 * t[1] + 16 * t[2] + 8 * t[3] + 4 * t[4] + 2 * t[5] + t[6] = n
    BY <1>3, SixBits
  <1>5. \A i \in 1 .. 6 : f[i] = 2 * f[i - 1] + t[i]
    BY <1>2, <1>3
  <1>6. /\ f[1] = 2 * f[0] + t[1] /\ f[2] = 2 * f[1] + t[2] /\ f[3] = 2 * f[2] + t[3]
        /\ f[4] = 2 * f[3] + t[4] /\ f[5] = 2 * f[4] + t[5] /\ f[6] = 2 * f[5] + t[6]
    BY <1>5
  <1>7. /\ t[1] \in Int /\ t[2] \in Int /\ t[3] \in Int /\ t[4] \in Int
        /\ t[5] \in Int /\ t[6] \in Int
    OBVIOUS
  <1> DEFINE f1 == f[1]
             f2 == f[2]
             f3 == f[3]
             f4 == f[4]
             f5 == f[5]
             t1 == t[1]
             t2 == t[2]
             t3 == t[3]
             t4 == t[4]
             t5 == t[5]
             t6 == t[6]
  <1>8. /\ f1 = t1 /\ f2 = 2 * f1 + t2 /\ f3 = 2 * f2 + t3
        /\ f4 = 2 * f3 + t4 /\ f5 = 2 * f4 + t5 /\ f[6] = 2 * f5 + t6
        /\ t1 \in Int /\ t2 \in Int /\ t3 \in Int /\ t4 \in Int /\ t5 \in Int /\ t6 \in Int
    BY <1>2, <1>6, <1>7
  <1>9. 32 * t1 + 16 * t2 + 8 * t3 + 4 * t4 + 2 * t5 + t6 = n
    BY <1>4
  <1> HIDE DEF f1, f2, f3, f4, f5, t1, t2, t3, t4, t5, t6
  <1>10. f[6] = n
    BY <1>8, <1>9
  <1> QED
    BY <1>2, <1>10

\* The length in front of an open type: one octet for a value of one bit.
LEMMA OneOctet ==
  ASSUME bits \in Seq({0, 1}), NEW p \in Nat,
         \A j \in 1 .. 7 : BitAt(p + j - 1) = 0, BitAt(p + 7) = 1
  PROVE  LengthAt(p) = [len |-> 1, width |-> 8]
  <1>1. \A i \in Nat : BitAt((p + 1) + i) \in {0, 1}
    BY BitAtBit
  <1>2. PICK f \in [0 .. 7 -> Nat] :
           /\ NumberAt(p + 1, 7) = f[7] /\ f[0] = 0
           /\ \A i \in 1 .. 7 : f[i] = 2 * f[i - 1] + BitAt((p + 1) + i - 1)
    <2>1. 7 \in Nat /\ p + 1 \in Nat
      OBVIOUS
    <2> QED
      BY <2>1, <1>1, NumberAtUnrolls, Zenon
  <1>3. \A i \in 1 .. 6 : BitAt((p + 1) + i - 1) = 0
    <2> TAKE i \in 1 .. 6
    <2>1. i + 1 \in 1 .. 7 /\ (p + 1) + i - 1 = p + (i + 1) - 1
      OBVIOUS
    <2> QED
      BY <2>1
  <1>4. (p + 1) + 7 - 1 = p + 7 /\ p + 1 - 1 = p
    OBVIOUS
  <1>5. /\ f[1] = 2 * f[0] /\ f[2] = 2 * f[1] /\ f[3] = 2 * f[2] /\ f[4] = 2 * f[3]
        /\ f[5] = 2 * f[4] /\ f[6] = 2 * f[5]
    BY <1>2, <1>3
  <1>6. f[7] = 2 * f[6] + 1
    BY <1>2, <1>4
  <1>7. f[7] = 1
    BY <1>2, <1>5, <1>6
  <1>8. BitAt(p) = 0
    BY <1>4
  <1> QED
    BY <1>2, <1>7, <1>8 DEF LengthAt

\* A position inside the bits is read as it stands.
LEMMA BitInside ==
  ASSUME bits \in Seq({0, 1}), NEW p \in Nat, p < Len(bits)
  PROVE  BitReadable(p) /\ Clamp(p) = p /\ BitAt(p) = bits[p + 1]
  BY DEF BitReadable, Clamp, BitAt

\* The slice reaches as far as the bits.
LEMMA SliceInside ==
  ASSUME bits \in Seq({0, 1}), NEW p \in Nat, NEW w \in Nat, p + w <= Len(bits)
  PROVE  Readable(p, w)
  <1>1. Len(bits) \in Nat
    OBVIOUS
  <1>2. SliceLen >= Len(bits)
    <2> DEFINE n == Len(bits)
    <2> HIDE DEF n
    <2>1. n \in Nat => ((n + 8 - 1) \div 8) * 8 >= n
      OBVIOUS
    <2> QED
      BY <2>1, <1>1 DEF n, SliceLen, BYTE_LEN
  <1>3. SliceLen \in Nat
    BY <1>1 DEF SliceLen, BYTE_LEN
  <1> QED
    BY <1>1, <1>2, <1>3 DEF Readable

-----------------------------------------------------------------------------
(* A message and what the receiver knows of it *)

\* The fields of a receiver with fewer additions are the sender's first ones.
LEMMA OlderFields ==
  ASSUME DataOK, OlderReceiver
  PROVE  /\ PeerLen <= ExtLen /\ Len(ReceiverFields) <= Len(SenderFields)
         /\ \A i \in 1 .. Len(ReceiverFields) : ReceiverFields[i] = SenderFields[i]
  <1>0. schema \in Schemas
    BY DEF DataOK
  <1>1. /\ RootLen \in Nat /\ ExtLen \in Nat /\ PeerLen \in Nat
        /\ Len(SenderFields) = RootLen + ExtLen
        /\ Len(ReceiverFields) = RootLen + PeerLen
    BY LayoutTypes
  <1>2. /\ \A i \in 1 .. RootLen : ReceiverFields[i] = SenderFields[i]
        /\ \A i \in 1 .. ExtLen : SenderFields[RootLen + i] = schema.ext[i]
        /\ \A i \in 1 .. PeerLen : ReceiverFields[RootLen + i] = schema.peerExt[i]
    BY <1>0, FieldsTypes DEF RootLen, ExtLen, PeerLen
  <1>3. PeerLen <= ExtLen
    BY DEF OlderReceiver, PeerLen, ExtLen
  <1>4. \A i \in 1 .. PeerLen : schema.ext[i] = schema.peerExt[i]
    <2>1. DOMAIN schema.ext = 1 .. ExtLen /\ DOMAIN schema.peerExt = 1 .. PeerLen
      BY <1>0, SchemaTypes DEF ExtLen, PeerLen
    <2>2. \A i \in DOMAIN schema.ext \cap DOMAIN schema.peerExt :
             schema.ext[i] = schema.peerExt[i]
      BY <1>0, SchemasAssumption
    <2>3. \A i \in 1 .. PeerLen : i \in (1 .. ExtLen) \cap (1 .. PeerLen)
      BY <1>1, <1>3
    <2> QED
      BY <2>1, <2>2, <2>3
  <1>5. ASSUME NEW i \in 1 .. Len(ReceiverFields)
        PROVE  ReceiverFields[i] = SenderFields[i]
    <2>1. CASE i <= RootLen
      BY <2>1, <1>1, <1>2
    <2>2. CASE i > RootLen
      <3> DEFINE j == i - RootLen
      <3>1. j \in 1 .. PeerLen /\ j \in 1 .. ExtLen /\ i = RootLen + j
        BY <2>2, <1>1, <1>3
      <3> HIDE DEF j
      <3> QED
        BY <3>1, <1>2, <1>4
    <2> QED
      BY <2>1, <2>2, <1>1
  <1> QED
    BY <1>1, <1>3, <1>5

\* The numbers of a message.
LEMMA MessageFacts ==
  ASSUME DataOK, NEW at, MessageAt(at)
  PROVE  /\ bits \in Seq({0, 1}) /\ Len(bits) \in Nat
         /\ Len(SenderFields) \in Nat /\ Len(SenderFields) >= RootLen /\ RootLen \in Nat
         /\ Layout(at, Len(SenderFields)) /\ PiecesLaid(at, bits, Len(SenderFields))
         /\ MarksLaid(bits, Len(SenderFields))
         /\ ExtensionLaid(at, bits, Len(SenderFields))
         /\ at[0] = HeaderEnd /\ HeaderEnd \in Nat
         /\ Len(bits) = at[Len(SenderFields)] + 1
         /\ \A i \in 0 .. Len(SenderFields) :
              at[i] \in Nat /\ HeaderEnd <= at[i] /\ at[i] < Len(bits)
         /\ \A k \in 0 .. Len(SenderFields) - 1 :
              /\ at[k + 1] = at[k] + Gap(k + 1) + Size(k + 1)
              /\ ~Given(k + 1) => at[k + 1] = at[k]
  <1>0. /\ bits \in Seq({0, 1}) /\ Len(SenderFields) \in Nat /\ RootLen \in Nat
        /\ ExtLen \in Nat /\ Len(SenderFields) = RootLen + ExtLen /\ HeaderEnd \in Nat
    <2>1. bits \in Seq({0, 1})
      BY DEF DataOK
    <2> QED
      BY <2>1, LayoutTypes
  <1>1. /\ Layout(at, Len(SenderFields)) /\ PiecesLaid(at, bits, Len(SenderFields))
        /\ MarksLaid(bits, Len(SenderFields))
        /\ ExtensionLaid(at, bits, Len(SenderFields))
        /\ Len(bits) = at[Len(SenderFields)] + 1
    BY DEF MessageAt, Laid
  <1>2. Len(bits) \in Nat /\ Len(SenderFields) \in 0 .. Len(SenderFields)
    BY <1>0
  <1>3. ASSUME NEW i \in 0 .. Len(SenderFields)
        PROVE  at[i] \in Nat /\ HeaderEnd <= at[i] /\ at[i] < Len(bits)
    <2>1. /\ at[i] \in Nat /\ HeaderEnd <= at[i] /\ at[i] <= at[Len(SenderFields)]
          /\ at[Len(SenderFields)] \in Nat
      BY <1>1, <1>2, LayoutNumbers
    <2> QED
      BY <2>1, <1>1
  <1>4. ASSUME NEW k \in 0 .. Len(SenderFields) - 1
        PROVE  /\ at[k + 1] = at[k] + Gap(k + 1) + Size(k + 1)
               /\ ~Given(k + 1) => at[k + 1] = at[k]
    <2>1. k + 1 \in 1 .. Len(SenderFields) /\ (k + 1) - 1 = k /\ k \in 0 .. Len(SenderFields)
      BY <1>0
    <2>2. at[k + 1] = at[k] + Gap(k + 1) + Size(k + 1)
      BY <1>1, <2>1 DEF Layout
    <2>3. ~Given(k + 1) => Gap(k + 1) = 0 /\ Size(k + 1) = 0
      <3>1. ~Given(k + 1) => Size(k + 1) = 0
        BY <2>1, PieceType
      <3> QED
        BY <3>1 DEF Gap
    <2>4. at[k] \in Nat
      BY <2>1, <1>3
    <2> QED
      BY <2>2, <2>3, <2>4
  <1>5. at[0] = HeaderEnd /\ Len(SenderFields) >= RootLen
    BY <1>0, <1>1 DEF Layout
  <1> QED
    BY <1>0, <1>1, <1>2, <1>3, <1>4, <1>5

\* A field with a value is read where it was laid, by itself or as open type.
LEMMA PieceRead ==
  ASSUME DataOK, NEW at, MessageAt(at), NEW k \in 0 .. Len(SenderFields) - 1,
         Given(k + 1), NEW s, EncodeAsOpenType(s) <=> k + 1 > RootLen
  PROVE  /\ ReadContent(SenderFields[k + 1], s, at[k] + Gap(k + 1)).ok
         /\ ReadContent(SenderFields[k + 1], s, at[k] + Gap(k + 1)).value = value[k + 1]
         /\ ReadContent(SenderFields[k + 1], s, at[k] + Gap(k + 1)).pos = at[k + 1]
  <1> DEFINE kind == SenderFields[k + 1]
             p == at[k] + Gap(k + 1)
             e == at[k + 1]
             len == Size(k + 1)
             open == kind # "def" /\ EncodeAsOpenType(s)
  <1>0. /\ bits \in Seq({0, 1}) /\ Len(bits) \in Nat /\ Len(SenderFields) \in Nat
        /\ e < Len(bits) /\ e \in Nat /\ e = p + len /\ p \in Nat /\ len \in Nat
        /\ value[k + 1] \in {0, 1}
    <2>1. k + 1 \in 1 .. Len(SenderFields) /\ k + 1 \in 0 .. Len(SenderFields)
          /\ k \in 0 .. Len(SenderFields)
      BY LayoutTypes
    <2>2. Gap(k + 1) \in Nat /\ Size(k + 1) \in Nat /\ value[k + 1] \in {0, 1}
      BY <2>1, PieceType
    <2>3. at[k] \in Nat /\ at[k + 1] \in Nat /\ at[k + 1] < Len(bits)
          /\ at[k + 1] = at[k] + Gap(k + 1) + Size(k + 1)
          /\ bits \in Seq({0, 1}) /\ Len(bits) \in Nat /\ Len(SenderFields) \in Nat
      BY <2>1, MessageFacts
    <2> QED
      BY <2>2, <2>3
  <1>1. \A j \in 1 .. len : bits[e - len + j] = Piece(k + 1)[j]
    <2>1. k + 1 \in 1 .. Len(SenderFields)
      BY <1>0
    <2>2. PiecesLaid(at, bits, Len(SenderFields))
      BY MessageFacts
    <2> QED
      BY <2>1, <2>2 DEF PiecesLaid
  <1> HIDE DEF p, e, len
  <1>2. \A j \in 1 .. len : BitAt(p + j - 1) = Piece(k + 1)[j]
    <2> TAKE j \in 1 .. len
    <2>1. e - len + j = p + j /\ p + j - 1 \in Nat /\ p + j - 1 < Len(bits)
          /\ p + j - 1 + 1 = p + j
      BY <1>0
    <2>2. BitAt(p + j - 1) = bits[p + j]
      BY <2>1 DEF BitAt
    <2> QED
      BY <2>1, <2>2, <1>1
  <1>3. CASE open
    <2>1. Piece(k + 1) = OpenType(value[k + 1])
      BY <1>3 DEF Piece
    <2>2. /\ Len(OpenType(value[k + 1])) = 16
          /\ \A i \in 1 .. 7 : OpenType(value[k + 1])[i] = 0
          /\ OpenType(value[k + 1])[8] = 1 /\ OpenType(value[k + 1])[9] = value[k + 1]
      BY <1>0, OpenTypeBits
    <2>3. len = 16
      BY <2>1, <2>2 DEF len, Size
    <2>4. \A j \in 1 .. 16 : BitAt(p + j - 1) = OpenType(value[k + 1])[j]
      BY <1>2, <2>1, <2>3
    <2>5. \A j \in 1 .. 7 : BitAt(p + j - 1) = 0
      BY <2>2, <2>4
    <2>6. BitAt(p + 7) = 1 /\ BitAt(p + 8) = value[k + 1]
      <3>1. BitAt(p + 8 - 1) = 1 /\ BitAt(p + 9 - 1) = value[k + 1]
        BY <2>2, <2>4
      <3>2. p + 8 - 1 = p + 7 /\ p + 9 - 1 = p + 8
        BY <1>0
      <3> QED
        BY <3>1, <3>2
    <2>7. LengthAt(p) = [len |-> 1, width |-> 8]
      BY <1>0, <2>5, <2>6, OneOctet
    <2>8. BitReadable(p) /\ BitReadable(p + 8) /\ Readable(p, 8)
      <3>1. p < Len(bits) /\ p + 8 < Len(bits) /\ p + 8 \in Nat /\ p + 8 <= Len(bits)
        BY <1>0, <2>3
      <3>2. Readable(p, 8)
        BY <1>0, <3>1, SliceInside
      <3> QED
        BY <3>1, <3>2 DEF BitReadable
    <2>9. Clamp(p + 8 + 1 * BYTE_LEN) = e
      <3>1. p + 8 + 1 * 8 = e
        BY <1>0, <2>3
      <3> QED
        BY <3>1, <1>0 DEF Clamp, BYTE_LEN
    <2>10. ReadContent(kind, s, p) = [ok |-> TRUE, value |-> value[k + 1], pos |-> e]
      <3> DEFINE length == LengthAt(p)
      <3>1. length.len = 1 /\ length.width = 8
        BY <2>7
      <3> HIDE DEF length
      <3>2. ReadContent(kind, s, p) =
              [ok |-> (BitReadable(p) /\ Readable(p, length.width))
                        /\ BitReadable(p + length.width),
               value |-> BitAt(p + length.width),
               pos |-> Clamp(p + length.width + length.len * BYTE_LEN)]
        BY <1>3 DEF ReadContent, length
      <3> QED
        BY <3>1, <3>2, <2>6, <2>8, <2>9
    <2> HIDE DEF kind
    <2>11. ReadContent(kind, s, p).ok /\ ReadContent(kind, s, p).value = value[k + 1]
           /\ ReadContent(kind, s, p).pos = e
      BY <2>10
    <2> QED
      BY <2>11 DEF kind, p, e
  <1>4. CASE ~open
    <2>1. Piece(k + 1) = <<value[k + 1]>>
      BY <1>4 DEF Piece
    <2>2. len = 1
      BY <2>1 DEF len, Size
    <2>3. BitAt(p) = value[k + 1]
      <3>1. BitAt(p + 1 - 1) = value[k + 1] /\ p + 1 - 1 = p
        BY <1>0, <1>2, <2>1, <2>2
      <3> QED
        BY <3>1
    <2>4. BitReadable(p) /\ p + 1 = e
      BY <1>0, <2>2 DEF BitReadable
    <2>5. ReadContent(kind, s, p) = [ok |-> TRUE, value |-> value[k + 1], pos |-> e]
      BY <1>4, <2>3, <2>4 DEF ReadContent
    <2> HIDE DEF kind
    <2>6. ReadContent(kind, s, p).ok /\ ReadContent(kind, s, p).value = value[k + 1]
          /\ ReadContent(kind, s, p).pos = e
      BY <2>5
    <2> QED
      BY <2>6 DEF kind, p, e
  <1> QED
    BY <1>3, <1>4

-----------------------------------------------------------------------------
(* The scope of the receiver *)

\* The scope of a receiver after k fields.
ReaderScope(s, at, k) ==
    IF ~Extended
    THEN s = OptBitField(Flag + Marks(IF k <= RootLen THEN k ELSE RootLen), HeaderEnd)
    ELSE IF k <= RootLen
    THEN s = ExtensibleSequence(0, 1 + Marks(k), HeaderEnd, RootLen - k, PeerLen)
    ELSE s = AllBitField(at[RootLen] + 7 + (k - RootLen), at[RootLen] + 7 + PeerLen)

\* What the scope says of field k + 1 is true, and where its bits are.
EntryRead(at, k, entry) ==
    /\ entry.ok
    /\ IsOpt(SenderFields[k + 1]) => (entry.present <=> Given(k + 1))
    /\ Given(k + 1) => entry.pos = at[k] + Gap(k + 1)
    /\ ~Given(k + 1) => entry.pos = at[k + 1]
    /\ ReaderScope(entry.scope, at, k + 1)
    /\ Given(k + 1) => (EncodeAsOpenType(entry.scope) <=> k + 1 > RootLen)

\* A presence bit inside the bits.
LEMMA PresenceInside ==
  ASSUME bits \in Seq({0, 1}), NEW p \in Nat, p < Len(bits), NEW given \in BOOLEAN,
         bits[p + 1] = Bit(given), NEW s, NEW to
  PROVE  Presence(p, s, to) = [ok |-> TRUE, present |-> given, scope |-> s, pos |-> to]
  <1>1. BitReadable(p) /\ Clamp(p) = p /\ BitAt(p) = bits[p + 1]
    BY BitInside
  <1>2. (BitAt(p) = 1) = given
    BY <1>1 DEF Bit
  <1> QED
    BY <1>1, <1>2 DEF Presence

\* A field is given or it is not.
LEMMA GivenBoolean ==
  ASSUME NEW i
  PROVE  Given(i) \in BOOLEAN
  BY DEF Given, Sent, Present

\* The presence bit of an optional field of the root.
LEMMA RootMark ==
  ASSUME DataOK, NEW at, MessageAt(at), NEW k \in 0 .. RootLen - 1,
         IsOpt(SenderFields[k + 1])
  PROVE  /\ Flag + Marks(k) \in Nat /\ Flag + Marks(k) < HeaderEnd
         /\ HeaderEnd < Len(bits) /\ HeaderEnd \in Nat
         /\ Marks(k + 1) = Marks(k) + 1 /\ Marks(k) \in Nat /\ Flag \in {0, 1}
         /\ bits[Flag + Marks(k) + 1] = Bit(Given(k + 1))
  <1>0. /\ RootLen \in Nat /\ Flag \in {0, 1} /\ HeaderEnd \in Nat
        /\ k + 1 \in 1 .. RootLen /\ (k + 1) - 1 = k
    BY LayoutSizes
  <1>1. /\ Flag + Marks(k + 1) \in Flag + 1 .. HeaderEnd
        /\ Marks(k + 1) = Marks(k) + 1 /\ Marks(k + 1) \in Nat /\ Marks(k) \in Nat
    BY <1>0, MarkPlace
  <1>2. /\ MarksLaid(bits, Len(SenderFields)) /\ HeaderEnd < Len(bits)
        /\ Len(SenderFields) >= RootLen /\ Len(SenderFields) \in Nat
    <2>1. 0 \in 0 .. Len(SenderFields)
      BY LayoutTypes
    <2> QED
      BY <2>1, MessageFacts
  <1>3. bits[Flag + Marks(k + 1)] = Bit(Given(k + 1))
    <2>1. k + 1 \in 1 .. Len(SenderFields) /\ k + 1 <= RootLen
      BY <1>0, <1>2
    <2> QED
      BY <2>1, <1>2 DEF MarksLaid
  <1>4. Flag + Marks(k) + 1 = Flag + Marks(k + 1)
    BY <1>0, <1>1
  <1>5. Flag + Marks(k) \in Nat
    BY <1>0, <1>1
  <1>6. Flag + Marks(k) < HeaderEnd
    BY <1>0, <1>1, <1>4, <1>5
  <1>7. HeaderEnd \in Nat /\ HeaderEnd < Len(bits)
    BY <1>0, <1>2
  <1>8. Flag + Marks(k) < Len(bits)
    BY <1>5, <1>6, <1>7
  <1> QED
    BY <1>0, <1>1, <1>2, <1>3, <1>4, <1>5, <1>6, <1>7, <1>8

\* A field of the root.
LEMMA RootEntryRead ==
  ASSUME DataOK, NEW at, MessageAt(at), NEW k \in 0 .. RootLen - 1,
         SenderFields[k + 1] # "null", pos = at[k], ReaderScope(scope, at, k)
  PROVE  EntryRead(at, k, ReadEntry(IsOpt(SenderFields[k + 1])))
  <1> DEFINE opt == IsOpt(SenderFields[k + 1])
             given == Given(k + 1)
             start == Flag + Marks(k)
  <1>0. /\ RootLen \in Nat /\ ExtLen \in Nat /\ k \in Nat /\ k <= RootLen /\ k + 1 <= RootLen
        /\ k + 1 \in 1 .. RootLen /\ (k + 1) - 1 = k /\ k \in 0 .. RootLen
        /\ Len(SenderFields) = RootLen + ExtLen /\ Flag \in {0, 1}
        /\ HeaderEnd \in Nat /\ (schema.extensible => Flag = 1)
        /\ (schema.ext # <<>> => schema.extensible)
        /\ SenderFields[k + 1] = schema.root[k + 1]
    <2>1. (schema.ext # <<>> => schema.extensible)
      BY SchemasAssumption DEF DataOK
    <2>2. SenderFields[k + 1] = schema.root[k + 1]
      <3>1. k + 1 \in 1 .. RootLen
        BY LayoutSizes
      <3> QED
        BY <3>1, LayoutTypes
    <2> QED
      BY <2>1, <2>2, LayoutSizes
  <1>s. schema \in Schemas /\ k \in 0 .. Len(SenderFields) - 1 /\ k + 1 \in 1 .. Len(SenderFields)
    BY <1>0 DEF DataOK
  <1>1. bits \in Seq({0, 1}) /\ given \in BOOLEAN
    BY GivenBoolean DEF DataOK
  <1>2. /\ Gap(k + 1) = 0 /\ (~given => at[k + 1] = at[k]) /\ at[k] \in Nat
        /\ at[k] + Gap(k + 1) = at[k]
    <2>1. Gap(k + 1) = 0
      BY <1>0 DEF Gap
    <2>2. at[k] \in Nat /\ (~given => at[k + 1] = at[k])
      BY <1>s, <1>0, MessageFacts
    <2> QED
      BY <2>1, <2>2
  <1>3. /\ Marks(k) \in Nat
        /\ Marks(k + 1) = Marks(k) + (IF opt THEN 1 ELSE 0)
    BY <1>0, <1>s, MarksCount
  <1>4. ~opt => given
    <2>1. SenderFields[k + 1] \in RootKinds /\ value[k + 1] \in ValuesOf(SenderFields[k + 1])
      BY <1>s, LayoutTypes
    <2>2. ASSUME ~opt PROVE SenderFields[k + 1] = "bool"
      BY <2>1, <2>2 DEF RootKinds, IsOpt
    <2>3. ASSUME ~opt PROVE value[k + 1] \in {0, 1}
      BY <2>1, <2>2, <2>3 DEF ValuesOf
    <2>4. ASSUME ~opt PROVE given
      BY <2>2, <2>3, <2>4, AbsentAssumption DEF Given, Sent, Present
    <2> QED
      BY <2>4
  <1>5. opt => /\ start \in Nat /\ start < HeaderEnd /\ start < Len(bits)
               /\ bits[start + 1] = Bit(given)
    <2>1. ASSUME opt
          PROVE /\ start \in Nat /\ start < HeaderEnd /\ HeaderEnd < Len(bits)
                /\ HeaderEnd \in Nat /\ bits[start + 1] = Bit(given)
      BY <2>1, RootMark
    <2>2. Len(bits) \in Nat
      BY <1>1
    <2> QED
      BY <2>1, <2>2
  <1>6. opt => \A s, to : Presence(start, s, to)
                  = [ok |-> TRUE, present |-> given, scope |-> s, pos |-> to]
    <2> HIDE DEF start, given
    <2> QED
      BY <1>1, <1>5, PresenceInside
  <1>7. CASE ~Extended
    <2> DEFINE now == OptBitField(start, HeaderEnd)
               next == OptBitField(Flag + Marks(k + 1), HeaderEnd)
    <2>1. scope = now
      BY <1>7, <1>0 DEF ReaderScope
    <2>2. /\ scope.type = "OptBitField" /\ scope.start = start /\ scope.end = HeaderEnd
          /\ next.type = "OptBitField"
      BY <2>1 DEF OptBitField
    <2>3. start \in Nat
      BY <1>0, <1>3
    <2>4. opt => TakeBit(scope) = next
      <3>1. opt => start + 1 = Flag + Marks(k + 1)
        BY <1>0, <1>3
      <3> HIDE DEF start
      <3> QED
        BY <2>1, <3>1 DEF TakeBit, OptBitField
    <2>5. ~opt => scope = next
      <3>1. ~opt => start = Flag + Marks(k + 1)
        BY <1>0, <1>3
      <3> QED
        BY <2>1, <3>1
    <2>6. ReaderScope(next, at, k + 1)
      BY <1>7, <1>0 DEF ReaderScope
    <2>7. ~EncodeAsOpenType(next)
      BY <2>2 DEF EncodeAsOpenType
    <2> HIDE DEF now, next, start, opt, given
    <2>8. CASE opt
      <3>1. ReadEntry(opt) = Presence(start, TakeBit(scope), pos)
        BY <2>8, <2>2, <2>3, <1>5, <1>0 DEF ReadEntry
      <3>2. ReadEntry(opt) = [ok |-> TRUE, present |-> given, scope |-> next, pos |-> at[k]]
        BY <3>1, <1>6, <2>4, <2>8
      <3> QED
        BY <3>2, <1>0, <1>2, <2>6, <2>7 DEF EntryRead, given, opt
    <2>9. CASE ~opt
      <3>1. \/ ReadEntry(opt) = NotPresent(scope, pos)
            \/ ReadEntry(opt) = Unmarked(scope)
        BY <2>9, <2>2, <2>3, <1>0 DEF ReadEntry
      <3>2. /\ ReadEntry(opt).ok /\ ReadEntry(opt).scope = next
            /\ ReadEntry(opt).pos = at[k]
        BY <3>1, <2>5, <2>9 DEF NotPresent, Unmarked
      <3> QED
        BY <3>2, <1>0, <1>2, <1>4, <2>6, <2>7, <2>9 DEF EntryRead, given, opt
    <2> QED
      BY <2>8, <2>9
  <1>8. CASE Extended
    <2> DEFINE now == ExtensibleSequence(0, 1 + Marks(k), HeaderEnd, RootLen - k, PeerLen)
               next == ExtensibleSequence(0, 1 + Marks(k + 1), HeaderEnd,
                                          RootLen - (k + 1), PeerLen)
    <2>1. scope = now
      BY <1>8, <1>0 DEF ReaderScope
    <2>0. Flag = 1 /\ start = 1 + Marks(k)
      <3>1. Flag = 1
        BY <1>8, <1>0 DEF Extended
      <3> QED
        BY <3>1
    <2>2. /\ scope.type = "ExtensibleSequence" /\ scope.start = start
          /\ scope.calls_until_ext_bitfield = RootLen - k /\ RootLen - k # 0
          /\ next.type = "ExtensibleSequence"
      BY <2>0, <2>1, <1>0 DEF ExtensibleSequence
    <2>3. (RootLen - k) - 1 = RootLen - (k + 1)
      BY <1>0
    <2>4. opt => CountCall(TakeBit(scope)) = next
      <3>1. opt => 1 + Marks(k) + 1 = 1 + Marks(k + 1)
        BY <1>3
      <3> DEFINE m == Marks(k)
                 left == RootLen - k
      <3> HIDE DEF m, left
      <3>3. TakeBit(ExtensibleSequence(0, 1 + m, HeaderEnd, left, PeerLen))
              = ExtensibleSequence(0, 1 + m + 1, HeaderEnd, left, PeerLen)
        BY DEF TakeBit, ExtensibleSequence
      <3>4. CountCall(ExtensibleSequence(0, 1 + m + 1, HeaderEnd, left, PeerLen))
              = ExtensibleSequence(0, 1 + m + 1, HeaderEnd, left - 1, PeerLen)
        BY DEF CountCall, ExtensibleSequence
      <3>2. CountCall(TakeBit(ExtensibleSequence(0, 1 + m, HeaderEnd, left, PeerLen)))
              = ExtensibleSequence(0, 1 + m + 1, HeaderEnd, left - 1, PeerLen)
        BY <3>3, <3>4
      <3> QED
        BY <2>1, <2>3, <3>1, <3>2 DEF m, left
    <2>5. ~opt => CountCall(scope) = next
      <3>1. ~opt => 1 + Marks(k) = 1 + Marks(k + 1)
        BY <1>3
      <3> QED
        BY <2>1, <2>3, <3>1 DEF CountCall, ExtensibleSequence
    <2>6. ReaderScope(next, at, k + 1)
      BY <1>8, <1>0 DEF ReaderScope
    <2>7. ~EncodeAsOpenType(next)
      BY <2>2 DEF EncodeAsOpenType
    <2> HIDE DEF now, next, start, opt, given
    <2>8. CASE opt
      <3>1. ReadEntry(opt) = Presence(start, CountCall(TakeBit(scope)), pos)
        BY <2>8, <2>2 DEF ReadEntry
      <3>2. ReadEntry(opt) = [ok |-> TRUE, present |-> given, scope |-> next, pos |-> at[k]]
        BY <3>1, <1>6, <2>4, <2>8
      <3> QED
        BY <3>2, <1>0, <1>2, <2>6, <2>7 DEF EntryRead, given, opt
    <2>9. CASE ~opt
      <3>1. ReadEntry(opt) = Unmarked(CountCall(scope))
        BY <2>9, <2>2 DEF ReadEntry
      <3>2. /\ ReadEntry(opt).ok /\ ReadEntry(opt).scope = next
            /\ ReadEntry(opt).pos = at[k]
        BY <3>1, <2>5, <2>9 DEF Unmarked
      <3> QED
        BY <3>2, <1>0, <1>2, <1>4, <2>6, <2>7, <2>9 DEF EntryRead, given, opt
    <2> QED
      BY <2>8, <2>9
  <1> QED
    BY <1>7, <1>8

\* What is in front of the additions of a message that has them.
LEMMA ExtensionFacts ==
  ASSUME DataOK, NEW at, MessageAt(at), Extended
  PROVE  /\ RootLen \in Nat /\ ExtLen \in 1 .. 64 /\ at[RootLen] \in Nat
         /\ at[RootLen] + 7 + ExtLen < Len(bits) /\ Len(bits) \in Nat
         /\ bits[1] = 1 /\ bits[at[RootLen] + 1] = 0
         /\ \A j \in 1 .. 6 : bits[at[RootLen] + 1 + j] = ToBits(ExtLen - 1, 6)[j]
         /\ \A i \in RootLen + 1 .. Len(SenderFields) :
              bits[at[RootLen] + 7 + (i - RootLen)] = Bit(Given(i))
  <1> DEFINE n == Len(SenderFields)
  <1>0. /\ RootLen \in Nat /\ ExtLen \in Nat /\ ExtLen <= 64 /\ n = RootLen + ExtLen
    BY LayoutTypes
  <1>1. schema.extensible /\ ExtLen > 0
    <2>1. schema.ext # <<>> /\ schema \in Schemas
      BY DEF Extended, DataOK
    <2>2. schema.extensible
      BY <2>1, SchemasAssumption
    <2>3. ExtLen > 0
      BY <2>1, SchemaTypes DEF ExtLen
    <2> QED
      BY <2>2, <2>3
  <1>2. n > RootLen /\ n \in 0 .. n /\ ExtLen \in 1 .. 64 /\ RootLen \in 0 .. n
    BY <1>0, <1>1
  <1>3. /\ Layout(at, n) /\ ExtensionLaid(at, bits, n)
        /\ at[RootLen] \in Nat /\ at[n] \in Nat /\ at[n] < Len(bits) /\ Len(bits) \in Nat
    BY <1>2, MessageFacts
  <1>4. at[RootLen] + 7 + ExtLen <= at[n]
    BY <1>2, <1>3, BitFieldPlace
  <1>5. at[RootLen] + 7 + ExtLen < Len(bits)
    <2> DEFINE a == at[RootLen]
    <2>1. a \in Nat /\ a + 7 + ExtLen <= at[n]
      BY <1>3, <1>4
    <2> HIDE DEF a, n
    <2>2. a + 7 + ExtLen < Len(bits)
      BY <2>1, <1>0, <1>3
    <2> QED
      BY <2>2 DEF a
  <1>6. bits[1] = 1
    BY <1>1, <1>2, <1>3 DEF ExtensionLaid, Bit
  <1>7. /\ bits[at[RootLen] + 1] = 0
        /\ \A j \in 1 .. 6 : bits[at[RootLen] + 1 + j] = ToBits(ExtLen - 1, 6)[j]
        /\ \A i \in RootLen + 1 .. n : bits[at[RootLen] + 7 + (i - RootLen)] = Bit(Given(i))
    BY <1>2, <1>3 DEF ExtensionLaid
  <1> QED
    BY <1>0, <1>2, <1>3, <1>5, <1>6, <1>7

\* What is known of an addition of the receiver.
LEMMA KnownAddition ==
  ASSUME DataOK, OlderReceiver, NEW k \in RootLen .. Len(ReceiverFields) - 1
  PROVE  /\ k \in Nat /\ RootLen \in Nat /\ PeerLen \in Nat /\ PeerLen > 0
         /\ k - RootLen < PeerLen /\ PeerLen <= ExtLen
         /\ k \in 0 .. Len(SenderFields) - 1
         /\ k + 1 \in RootLen + 1 .. Len(SenderFields)
         /\ k + 1 \in 1 .. Len(SenderFields)
         /\ IsOpt(SenderFields[k + 1]) /\ SenderFields[k + 1] # "null"
  <1>1. /\ RootLen \in Nat /\ PeerLen \in Nat /\ ExtLen \in Nat
        /\ Len(SenderFields) = RootLen + ExtLen
        /\ Len(ReceiverFields) = RootLen + PeerLen
    BY LayoutTypes
  <1>2. PeerLen <= ExtLen
    BY OlderFields
  <1>3. k \in Nat /\ k >= RootLen /\ k < RootLen + PeerLen
    BY <1>1
  <1>4. k + 1 \in RootLen + 1 .. Len(SenderFields)
    BY <1>1, <1>2, <1>3
  <1>5. SenderFields[k + 1] \in ExtKinds
    BY <1>4, LayoutTypes
  <1>6. /\ k - RootLen < PeerLen /\ PeerLen > 0 /\ k \in 0 .. Len(SenderFields) - 1
        /\ k + 1 \in 1 .. Len(SenderFields)
    BY <1>1, <1>2, <1>3
  <1> QED
    BY <1>1, <1>2, <1>3, <1>4, <1>5, <1>6 DEF ExtKinds, IsOpt

\* No addition was sent: the scope has no bits left for one.
LEMMA AbsentAdditionRead ==
  ASSUME DataOK, NEW at, MessageAt(at), OlderReceiver, ~Extended,
         NEW k \in RootLen .. Len(ReceiverFields) - 1,
         pos = at[k], ReaderScope(scope, at, k)
  PROVE  EntryRead(at, k, ReadEntry(IsOpt(SenderFields[k + 1]))) /\ ~Given(k + 1)
  <1>0. /\ k \in Nat /\ RootLen \in Nat /\ k \in 0 .. Len(SenderFields) - 1
        /\ k + 1 \in RootLen + 1 .. Len(SenderFields)
    BY KnownAddition
  <1>1. ~Given(k + 1)
    BY <1>0 DEF MessageAt, InOrder
  <1>2. at[k + 1] = at[k]
    BY <1>0, <1>1, MessageFacts
  <1>3. Flag + Marks(RootLen) = HeaderEnd /\ HeaderEnd \in Nat
    <2>1. Marks(RootLen) = Optionals(schema)
      BY MarksCount DEF DataOK
    <2> QED
      BY <2>1, LayoutTypes
  <1>4. scope = OptBitField(HeaderEnd, HeaderEnd)
    <2>1. CASE k <= RootLen
      <3>1. k = RootLen
        BY <2>1, <1>0
      <3> QED
        BY <3>1, <2>1, <1>3 DEF ReaderScope
    <2>2. CASE ~(k <= RootLen)
      BY <2>2, <1>3 DEF ReaderScope
    <2> QED
      BY <2>1, <2>2
  <1>5. ReaderScope(scope, at, k + 1)
    <2>1. ~(k + 1 <= RootLen)
      BY <1>0
    <2> QED
      BY <2>1, <1>3, <1>4 DEF ReaderScope
  <1>6. ReadEntry(IsOpt(SenderFields[k + 1])) = NotPresent(scope, pos)
    <2>1. scope.type = "OptBitField" /\ scope.start = HeaderEnd /\ scope.end = HeaderEnd
      BY <1>4 DEF OptBitField
    <2>2. scope.start >= scope.end /\ ~(scope.start < scope.end)
      BY <2>1, <1>3
    <2> DEFINE opt == IsOpt(SenderFields[k + 1])
    <2> HIDE DEF opt
    <2>3. ReadEntry(opt) = NotPresent(scope, pos)
      BY <2>1, <2>2 DEF ReadEntry
    <2> QED
      BY <2>3 DEF opt
  <1> QED
    BY <1>1, <1>2, <1>5, <1>6 DEF EntryRead, NotPresent

\* An addition behind the first one that was sent.
LEMMA AdditionRead ==
  ASSUME DataOK, NEW at, MessageAt(at), OlderReceiver, Extended,
         NEW k \in RootLen + 1 .. Len(ReceiverFields) - 1,
         pos = at[k], ReaderScope(scope, at, k)
  PROVE  EntryRead(at, k, ReadEntry(IsOpt(SenderFields[k + 1])))
  <1> DEFINE a == at[RootLen]
             given == Given(k + 1)
             start == a + 7 + (k - RootLen)
             next == AllBitField(a + 7 + ((k + 1) - RootLen), a + 7 + PeerLen)
  <1>k. k \in RootLen .. Len(ReceiverFields) - 1 /\ k > RootLen
    BY LayoutSizes
  <1>0. /\ k \in Nat /\ RootLen \in Nat /\ PeerLen \in Nat /\ k - RootLen < PeerLen
        /\ k \in 0 .. Len(SenderFields) - 1 /\ PeerLen <= ExtLen
        /\ k + 1 \in RootLen + 1 .. Len(SenderFields)
    BY <1>k, KnownAddition
  <1>1. /\ a \in Nat /\ a + 7 + ExtLen < Len(bits) /\ Len(bits) \in Nat /\ ExtLen \in Nat
        /\ bits[a + 7 + ((k + 1) - RootLen)] = Bit(given)
    <2>1. /\ a \in Nat /\ a + 7 + ExtLen < Len(bits) /\ Len(bits) \in Nat
          /\ ExtLen \in 1 .. 64
          /\ \A i \in RootLen + 1 .. Len(SenderFields) :
               bits[a + 7 + (i - RootLen)] = Bit(Given(i))
      BY ExtensionFacts
    <2> QED
      BY <2>1, <1>0
  <1>2. bits \in Seq({0, 1}) /\ given \in BOOLEAN
    BY GivenBoolean DEF DataOK
  <1>3. scope = AllBitField(start, a + 7 + PeerLen)
    BY <1>k, <1>0 DEF ReaderScope
  <1>4. ReaderScope(next, at, k + 1)
    <2>1. ~(k + 1 <= RootLen)
      BY <1>0, <1>k
    <2> QED
      BY <2>1 DEF ReaderScope
  <1>5. /\ Gap(k + 1) = 0 /\ (~given => at[k + 1] = at[k]) /\ at[k] \in Nat
        /\ at[k] + Gap(k + 1) = at[k]
    <2>1. k + 1 # RootLen + 1
      BY <1>0, <1>k
    <2>2. Gap(k + 1) = 0
      BY <2>1 DEF Gap
    <2>3. k \in 0 .. Len(SenderFields)
      BY <1>0
    <2>4. at[k] \in Nat /\ (~given => at[k + 1] = at[k])
      BY <1>0, <2>3, MessageFacts
    <2> QED
      BY <2>2, <2>4
  <1> HIDE DEF a, given
  <1>6. /\ start \in Nat /\ start < a + 7 + PeerLen /\ start < Len(bits)
        /\ start + 1 = a + 7 + ((k + 1) - RootLen)
    BY <1>0, <1>1, <1>k
  <1>7. bits[start + 1] = Bit(given)
    BY <1>1, <1>6
  <1>8. TakeBit(scope) = next
    <2> HIDE DEF start
    <2>1. TakeBit(AllBitField(start, a + 7 + PeerLen)) = AllBitField(start + 1, a + 7 + PeerLen)
      BY DEF TakeBit, AllBitField
    <2> QED
      BY <2>1, <1>3, <1>6
  <1>9. ReadEntry(IsOpt(SenderFields[k + 1])) = Presence(start, TakeBit(scope), pos)
    <2> HIDE DEF start
    <2>1. /\ scope.type = "AllBitField" /\ scope.start = start
          /\ scope.end = a + 7 + PeerLen
      BY <1>3 DEF AllBitField
    <2>2. scope.start < scope.end /\ ~(scope.start >= scope.end)
      BY <2>1, <1>0, <1>1, <1>6
    <2> QED
      BY <2>1, <2>2 DEF ReadEntry
  <1>10. Presence(start, TakeBit(scope), pos)
           = [ok |-> TRUE, present |-> given, scope |-> next, pos |-> at[k]]
    <2> HIDE DEF start, next
    <2> QED
      BY <1>2, <1>6, <1>7, <1>8, PresenceInside
  <1>11. EncodeAsOpenType(next)
    BY DEF EncodeAsOpenType, AllBitField
  <1>12. k + 1 > RootLen
    BY <1>0, <1>k
  <1> HIDE DEF next, start
  <1> QED
    BY <1>4, <1>5, <1>9, <1>10, <1>11, <1>12 DEF EntryRead, given

\* The first addition: the number of additions and their presence bits are
\* skipped, its own presence bit is read.
LEMMA FirstAdditionRead ==
  ASSUME DataOK, NEW at, MessageAt(at), OlderReceiver, Extended,
         RootLen < Len(ReceiverFields),
         pos = at[RootLen], ReaderScope(scope, at, RootLen)
  PROVE  EntryRead(at, RootLen, ReadEntry(IsOpt(SenderFields[RootLen + 1])))
  <1> DEFINE a == at[RootLen]
             next == AllBitField(a + 7 + ((RootLen + 1) - RootLen), a + 7 + PeerLen)
             range == AllBitField(a + 7, a + 7 + PeerLen)
  <1>k. RootLen \in RootLen .. Len(ReceiverFields) - 1
    BY LayoutSizes
  <1>0. /\ RootLen \in Nat /\ PeerLen \in Nat /\ PeerLen > 0 /\ PeerLen <= ExtLen
        /\ RootLen \in 0 .. Len(SenderFields) - 1
        /\ RootLen + 1 \in RootLen + 1 .. Len(SenderFields)
    BY <1>k, KnownAddition
  <1>1. /\ a \in Nat /\ a + 7 + ExtLen < Len(bits) /\ Len(bits) \in Nat
        /\ ExtLen \in 1 .. 64 /\ bits[1] = 1 /\ bits[a + 1] = 0
        /\ \A j \in 1 .. 6 : bits[a + 1 + j] = ToBits(ExtLen - 1, 6)[j]
        /\ bits[a + 7 + ((RootLen + 1) - RootLen)] = Bit(Given(RootLen + 1))
    BY <1>0, ExtensionFacts
  <1>2. Given(RootLen + 1) /\ Gap(RootLen + 1) = 7 + ExtLen
    BY DEF Extended, Gap
  <1>3. bits \in Seq({0, 1})
    BY DEF DataOK
  <1>4. /\ scope = ExtensibleSequence(0, 1 + Marks(RootLen), HeaderEnd, RootLen - RootLen,
                                      PeerLen)
    BY <1>0 DEF ReaderScope
  <1>5. /\ scope.type = "ExtensibleSequence" /\ scope.bit_pos = 0
        /\ scope.calls_until_ext_bitfield = 0 /\ scope.number_of_ext_fields = PeerLen
    BY <1>0, <1>4 DEF ExtensibleSequence
  <1>6. ReaderScope(next, at, RootLen + 1)
    <2>1. ~(RootLen + 1 <= RootLen)
      BY <1>0
    <2> QED
      BY <2>1 DEF ReaderScope
  <1> HIDE DEF a
  <1>7. BitAt(0) = 1
    <2>1. 0 < Len(bits) /\ 0 + 1 = 1
      BY <1>1
    <2> QED
      BY <2>1, <1>1 DEF BitAt
  <1>n. /\ a \in Nat /\ Len(bits) \in Nat /\ ExtLen \in Nat /\ ExtLen > 0
        /\ a + 7 + ExtLen < Len(bits)
    <2>1. ExtLen \in 1 .. 64 /\ a \in Nat /\ Len(bits) \in Nat /\ a + 7 + ExtLen < Len(bits)
      BY <1>1
    <2>2. ExtLen \in Nat /\ ExtLen > 0
      BY <2>1
    <2> QED
      BY <2>1, <2>2
  <1>8. BitReadable(pos) /\ Readable(pos + 1, 6) /\ BitAt(pos) = 0
    <2>1. pos = a
      BY DEF a
    <2>2. a < Len(bits) /\ a + 1 \in Nat /\ a + 1 + 6 <= Len(bits)
      BY <1>n
    <2>3. Readable(a + 1, 6)
      BY <2>2, <1>3, SliceInside
    <2>4. BitReadable(a) /\ BitAt(a) = 0
      BY <2>2, <1>1, <1>3, BitInside
    <2> QED
      BY <2>1, <2>3, <2>4
  <1>9. NumberAt(pos + 1, 6) = ExtLen - 1
    <2>1. pos = a
      BY DEF a
    <2>2. ExtLen - 1 \in 0 .. 63 /\ a + 1 \in Nat
      BY <1>1
    <2>3. \A j \in 1 .. 6 : BitAt((a + 1) + j - 1) = ToBits(ExtLen - 1, 6)[j]
      <3> TAKE j \in 1 .. 6
      <3>1. /\ (a + 1) + j - 1 < Len(bits) /\ (a + 1) + j - 1 + 1 = a + 1 + j
        BY <1>n
      <3>2. BitAt((a + 1) + j - 1) = bits[a + 1 + j]
        BY <3>1 DEF BitAt
      <3> QED
        BY <3>2, <1>1
    <2>4. NumberAt(a + 1, 6) = ExtLen - 1
      BY <2>2, <2>3, <1>3, NumberOfSix
    <2> QED
      BY <2>1, <2>4
  <1>10. pos = a /\ pos + 7 = a + 7 /\ (ExtLen - 1) + 1 = ExtLen
    BY <1>1 DEF a
  <1>11. Clamp(a + 7 + ExtLen) = a + 7 + ExtLen
    BY <1>1 DEF Clamp
  <1>12. ReadExtHeader = Presence(a + 7, TakeBit(range), a + 7 + ExtLen)
    <2> DEFINE sent == NumberAt(pos + 1, 6) + 1
    <2>1. sent = ExtLen
      BY <1>9, <1>10
    <2> HIDE DEF sent
    <2>2. ReadExtHeader = Presence(a + 7, TakeBit(range), Clamp(a + 7 + sent))
      BY <1>0, <1>5, <1>8, <1>10 DEF ReadExtHeader, sent
    <2> QED
      BY <2>1, <2>2, <1>11
  <1>13. ReadEntry(IsOpt(SenderFields[RootLen + 1])) = ReadExtHeader
    BY <1>5, <1>7 DEF ReadEntry
  <1>14. TakeBit(range) = next
    <2>1. a + 7 + 1 = a + 7 + ((RootLen + 1) - RootLen)
      BY <1>0, <1>1
    <2>2. TakeBit(range) = AllBitField(a + 7 + 1, a + 7 + PeerLen)
      BY DEF TakeBit, AllBitField
    <2> QED
      BY <2>1, <2>2
  <1>15. Presence(a + 7, next, a + 7 + ExtLen)
           = [ok |-> TRUE, present |-> TRUE, scope |-> next, pos |-> a + 7 + ExtLen]
    <2> HIDE DEF next
    <2>1. /\ a + 7 \in Nat /\ a + 7 < Len(bits)
          /\ a + 7 + 1 = a + 7 + ((RootLen + 1) - RootLen)
      <3>1. a + 7 \in Nat /\ a + 7 < Len(bits)
        BY <1>n
      <3>2. (RootLen + 1) - RootLen = 1
        BY <1>0
      <3> QED
        BY <3>1, <3>2
    <2>2. bits[a + 7 + 1] = Bit(TRUE)
      BY <1>1, <1>2, <2>1
    <2> QED
      BY <2>1, <2>2, <1>3, PresenceInside
  <1>16. EncodeAsOpenType(next) /\ RootLen + 1 > RootLen
    BY <1>0 DEF EncodeAsOpenType, AllBitField
  <1>17. a + 7 + ExtLen = at[RootLen] + Gap(RootLen + 1)
    <2>1. a + 7 + ExtLen = a + (7 + ExtLen)
      BY <1>n
    <2> QED
      BY <2>1, <1>2 DEF a
  <1> HIDE DEF next, range
  <1>18. ReadEntry(IsOpt(SenderFields[RootLen + 1]))
           = [ok |-> TRUE, present |-> TRUE, scope |-> next, pos |-> a + 7 + ExtLen]
    BY <1>12, <1>13, <1>14, <1>15
  <1> QED
    BY <1>2, <1>6, <1>16, <1>17, <1>18 DEF EntryRead

-----------------------------------------------------------------------------
(* The receiver *)

\* Nothing was sent beyond what the receiver knows.
NoMoreSent == \A i \in Additions : i > Len(ReceiverFields) => ~Sent(i)

\* The receiver's invariant: it is in step with the layout.
ReaderAt(at) ==
    /\ phase # "readError"
    /\ \A i \in 1 .. field : got[i] = value[i]
    /\ phase = "readFields" => pos = at[field] /\ ReaderScope(scope, at, field)
    /\ phase = "done" => field = Len(ReceiverFields)
    /\ phase = "done" /\ NoMoreSent => gotTail = tail /\ pos = Len(bits)

ReaderInv ==
    OlderReceiver /\ phase \in {"readFields", "readError", "done"} =>
        \E at : MessageAt(at) /\ ReaderAt(at)

\* A field without a value is optional, and the receiver makes up its value.
LEMMA AbsentValue ==
  ASSUME DataOK, NEW i \in 1 .. Len(SenderFields), SenderFields[i] # "null", ~Given(i)
  PROVE  IsOpt(SenderFields[i]) /\ value[i] = WhenAbsent(SenderFields[i])
  <1>1. SenderFields[i] \in RootKinds /\ value[i] \in ValuesOf(SenderFields[i])
    BY LayoutTypes
  <1>2. ~Present(SenderFields[i], value[i])
    BY DEF Given, Sent
  <1>3. CASE SenderFields[i] = "bool"
    <2>1. value[i] \in {0, 1}
      BY <1>1, <1>3 DEF ValuesOf
    <2> QED
      BY <2>1, <1>2, <1>3, AbsentAssumption DEF Present
  <1>4. CASE SenderFields[i] = "opt"
    BY <1>2, <1>4 DEF Present, IsOpt, WhenAbsent
  <1>5. CASE SenderFields[i] = "def"
    BY <1>2, <1>5 DEF Present, IsOpt, WhenAbsent
  <1> QED
    BY <1>1, <1>3, <1>4, <1>5 DEF RootKinds

\* What the scope says of the next field.
LEMMA EntryIsRead ==
  ASSUME DataOK, NEW at, MessageAt(at), OlderReceiver,
         NEW k \in 0 .. Len(ReceiverFields) - 1, SenderFields[k + 1] # "null",
         pos = at[k], ReaderScope(scope, at, k)
  PROVE  EntryRead(at, k, ReadEntry(IsOpt(SenderFields[k + 1])))
  <1>0. RootLen \in Nat /\ Len(ReceiverFields) \in Nat /\ k \in Nat
    BY LayoutTypes
  <1>1. CASE k < RootLen
    <2>1. k \in 0 .. RootLen - 1
      BY <1>0, <1>1
    <2> QED
      BY <2>1, RootEntryRead
  <1>2. CASE k >= RootLen /\ ~Extended
    <2>1. k \in RootLen .. Len(ReceiverFields) - 1
      BY <1>0, <1>2
    <2> QED
      BY <2>1, <1>2, AbsentAdditionRead
  <1>3. CASE k = RootLen /\ Extended
    <2>1. RootLen < Len(ReceiverFields) /\ pos = at[RootLen] /\ ReaderScope(scope, at, RootLen)
      BY <1>0, <1>3
    <2>2. EntryRead(at, RootLen, ReadEntry(IsOpt(SenderFields[RootLen + 1])))
      BY <2>1, <1>3, FirstAdditionRead
    <2> QED
      BY <2>2, <1>3
  <1>4. CASE k > RootLen /\ Extended
    <2>1. k \in RootLen + 1 .. Len(ReceiverFields) - 1
      BY <1>0, <1>4
    <2> QED
      BY <2>1, <1>4, AdditionRead
  <1> QED
    BY <1>0, <1>1, <1>2, <1>3, <1>4

\* A NULL has no bits, and no place in the scope.
LEMMA NullRead ==
  ASSUME DataOK, NoNullBeforeAdditions, NEW at, MessageAt(at),
         NEW k \in 0 .. Len(SenderFields) - 1, SenderFields[k + 1] = "null",
         ReaderScope(scope, at, k)
  PROVE  /\ value[k + 1] = Null /\ at[k + 1] = at[k]
         /\ ReaderScope(scope, at, k + 1)
  <1>0. /\ RootLen \in Nat /\ ExtLen \in Nat /\ k \in Nat
        /\ Len(SenderFields) = RootLen + ExtLen
        /\ \A i \in 1 .. RootLen : SenderFields[i] = schema.root[i]
        /\ k + 1 \in 1 .. Len(SenderFields)
    BY LayoutTypes
  <1>s. schema \in Schemas
    BY DEF DataOK
  <1>1. k + 1 <= RootLen
    <2>1. ASSUME k + 1 > RootLen PROVE FALSE
      <3>1. k + 1 \in RootLen + 1 .. Len(SenderFields)
        BY <2>1, <1>0
      <3>2. SenderFields[k + 1] \in ExtKinds
        BY <3>1, LayoutTypes
      <3> QED
        BY <3>2 DEF ExtKinds
    <2> QED
      BY <2>1, <1>0
  <1>2. k + 1 \in 1 .. RootLen /\ (k + 1) - 1 = k /\ k <= RootLen
    BY <1>0, <1>1
  <1>3. value[k + 1] = Null
    <2>1. value[k + 1] \in ValuesOf("null")
      BY <1>0, LayoutTypes
    <2> QED
      BY <2>1 DEF ValuesOf
  <1>4. at[k + 1] = at[k]
    <2>1. ~Given(k + 1)
      BY DEF Given
    <2> QED
      BY <2>1, MessageFacts
  <1>5. ~Extended
    <2>1. schema.root[k + 1] = "null" /\ k + 1 \in DOMAIN schema.root
      <3>1. schema.root \in Seq(RootKinds)
        BY <1>s, SchemaTypes
      <3>2. DOMAIN schema.root = 1 .. RootLen
        BY <3>1 DEF RootLen
      <3> QED
        BY <3>2, <1>0, <1>2
    <2> QED
      BY <2>1, <1>s DEF NoNullBeforeAdditions, Extended
  <1>6. Marks(k + 1) = Marks(k)
    <2>1. ~IsOpt(schema.root[k + 1])
      BY <1>0, <1>2 DEF IsOpt
    <2>2. Marks(k + 1) = Marks(k) + 0 /\ Marks(k) \in Nat
      <3>1. k \in 0 .. RootLen
        BY <1>2, <1>0
      <3> QED
        BY <3>1, <2>1, <1>2, <1>s, MarksCount
    <2> QED
      BY <2>2
  <1>7. ReaderScope(scope, at, k + 1)
    BY <1>1, <1>2, <1>5, <1>6 DEF ReaderScope
  <1> QED
    BY <1>3, <1>4, <1>7

\* A step of the receiver reads the value of the field, whatever the scope.
LEMMA FieldRead ==
  ASSUME TypeInv, NoNullBeforeAdditions, OlderReceiver,
         NEW at, MessageAt(at), ReaderAt(at), ReadField
  PROVE  /\ phase' = "readFields" /\ field' = field + 1
         /\ got' = Append(got, value[field + 1])
         /\ pos' = at[field + 1] /\ ReaderScope(scope', at, field + 1)
  <1> DEFINE kind == SenderFields[field + 1]
             entry == ReadEntry(IsOpt(kind))
             wanted == IsOpt(kind) => entry.present
             content == ReadContent(kind, entry.scope, entry.pos)
  <1>0. /\ DataOK /\ phase = "readFields"
        /\ field \in 0 .. Len(ReceiverFields) - 1 /\ field \in Nat
    <2>1. field \in 0 .. Len(ReceiverFields) /\ field < Len(ReceiverFields)
          /\ phase = "readFields" /\ DataOK
      BY DEF TypeInv, PositionsOK, ReadField
    <2> QED
      BY <2>1, LayoutTypes
  <1>1. /\ field \in 0 .. Len(SenderFields) - 1 /\ field + 1 \in 1 .. Len(SenderFields)
        /\ ReceiverFields[field + 1] = kind
    <2>1. /\ Len(ReceiverFields) <= Len(SenderFields)
          /\ \A i \in 1 .. Len(ReceiverFields) : ReceiverFields[i] = SenderFields[i]
          /\ Len(ReceiverFields) \in Nat /\ Len(SenderFields) \in Nat
      BY <1>0, OlderFields, LayoutTypes
    <2> QED
      BY <2>1, <1>0
  <1>2. pos = at[field] /\ ReaderScope(scope, at, field)
    BY <1>0 DEF ReaderAt
  <1>3. CASE kind = "null"
    <2>1. /\ got' = Append(got, Null) /\ field' = field + 1
          /\ UNCHANGED <<scope, pos, phase>>
      BY <1>1, <1>3 DEF ReadField
    <2>2. /\ value[field + 1] = Null /\ at[field + 1] = at[field]
          /\ ReaderScope(scope, at, field + 1)
      BY <1>0, <1>1, <1>2, <1>3, NullRead
    <2> QED
      BY <2>1, <2>2, <1>0, <1>2
  <1>4. CASE kind # "null"
    <2>1. EntryRead(at, field, entry)
      BY <1>0, <1>2, <1>4, EntryIsRead
    <2>2. \/ /\ entry.ok /\ wanted /\ content.ok
             /\ got' = Append(got, content.value) /\ pos' = content.pos
             /\ scope' = entry.scope /\ field' = field + 1 /\ phase' = phase
          \/ /\ entry.ok /\ ~wanted
             /\ got' = Append(got, WhenAbsent(kind)) /\ pos' = entry.pos
             /\ scope' = entry.scope /\ field' = field + 1 /\ phase' = phase
          \/ ~entry.ok \/ (wanted /\ ~content.ok)
      BY <1>1, <1>4 DEF ReadField
    <2> HIDE DEF entry
    <2>3. CASE Given(field + 1)
      <3>1. wanted
        BY <2>1, <2>3 DEF EntryRead
      <3>2. entry.ok /\ ReaderScope(entry.scope, at, field + 1)
            /\ entry.pos = at[field] + Gap(field + 1)
            /\ (EncodeAsOpenType(entry.scope) <=> field + 1 > RootLen)
        BY <2>1, <2>3 DEF EntryRead
      <3> DEFINE s == entry.scope
      <3>3. EncodeAsOpenType(s) <=> field + 1 > RootLen
        BY <3>2
      <3> HIDE DEF s
      <3>4. /\ ReadContent(kind, s, at[field] + Gap(field + 1)).ok
            /\ ReadContent(kind, s, at[field] + Gap(field + 1)).value = value[field + 1]
            /\ ReadContent(kind, s, at[field] + Gap(field + 1)).pos = at[field + 1]
        BY <1>0, <1>1, <2>3, <3>3, PieceRead
      <3>5. content.ok /\ content.value = value[field + 1] /\ content.pos = at[field + 1]
        BY <3>2, <3>4 DEF s
      <3> HIDE DEF content
      <3> QED
        BY <2>2, <3>1, <3>2, <3>5, <1>0
    <2>4. CASE ~Given(field + 1)
      <3>1. IsOpt(kind) /\ value[field + 1] = WhenAbsent(kind)
        BY <2>4, <1>0, <1>1, <1>4, AbsentValue
      <3>2. ~wanted
        BY <2>1, <2>4, <3>1 DEF EntryRead
      <3>3. entry.ok /\ entry.pos = at[field + 1] /\ ReaderScope(entry.scope, at, field + 1)
        BY <2>1, <2>4 DEF EntryRead
      <3> HIDE DEF content
      <3> QED
        BY <2>2, <3>1, <3>2, <3>3, <1>0
    <2> QED
      BY <2>3, <2>4
  <1> QED
    BY <1>3, <1>4

\* read_sequence up to the first field.
LEMMA HeaderRead ==
  ASSUME TypeInv, NEW at, MessageAt(at), ReadHeader
  PROVE  pos' = at[0] /\ ReaderScope(scope', at, 0)
  <1>0. /\ DataOK /\ RootLen \in Nat /\ ExtLen \in Nat /\ Len(SenderFields) = RootLen + ExtLen
        /\ Optionals(schema) \in Nat /\ schema \in Schemas
    <2>1. DataOK
      BY DEF TypeInv
    <2>2. schema \in Schemas
      BY <2>1 DEF DataOK
    <2> QED
      BY <2>1, <2>2, LayoutTypes
  <1>1. at[0] = HeaderEnd /\ 0 < Len(bits)
    <2>1. /\ at[0] = HeaderEnd /\ HeaderEnd \in Nat /\ Len(bits) \in Nat
          /\ HeaderEnd < Len(bits)
      <3>1. 0 \in 0 .. Len(SenderFields)
        BY <1>0
      <3> QED
        BY <3>1, <1>0, MessageFacts
    <2> QED
      BY <2>1
  <1>2. BitAt(0) = bits[1]
    <2>1. 0 + 1 = 1
      OBVIOUS
    <2> QED
      BY <2>1, <1>1 DEF BitAt
  <1>3. Marks(0) = 0 /\ 0 <= RootLen /\ RootLen - 0 = RootLen
    BY <1>0, MarksCount
  <1>4. pos' = HeaderEnd
    BY DEF ReadHeader, HeaderEnd
  <1>5. CASE Extended
    <2>1. bits[1] = 1
      BY <1>0, <1>5, ExtensionFacts
    <2>2. schema.extensible
      BY <1>0, <1>5, SchemasAssumption DEF Extended
    <2>3. scope' = ExtensibleSequence(0, 1, 1 + Optionals(schema), RootLen, PeerLen)
      BY <2>1, <2>2, <1>2 DEF ReadHeader, RootLen, PeerLen
    <2>4. HeaderEnd = 1 + Optionals(schema) /\ 1 + Marks(0) = 1
      BY <2>2, <1>3 DEF HeaderEnd
    <2> QED
      BY <2>3, <2>4, <1>1, <1>3, <1>4, <1>5 DEF ReaderScope
  <1>6. CASE ~Extended
    <2>1. schema.extensible => bits[1] = 0
      <3>1. ExtensionLaid(at, bits, Len(SenderFields))
        BY <1>0, MessageFacts
      <3> QED
        BY <3>1, <1>6 DEF ExtensionLaid, Bit
    <2>2. ~(schema.extensible /\ BitAt(0) = 1)
      BY <2>1, <1>2
    <2>3. scope' = OptBitField(Flag, HeaderEnd)
      BY <2>2 DEF ReadHeader, Flag, HeaderEnd
    <2>4. Flag + Marks(0) = Flag
      BY <1>3 DEF Flag
    <2> QED
      BY <2>3, <2>4, <1>1, <1>3, <1>4, <1>6 DEF ReaderScope
  <1> QED
    BY <1>5, <1>6

\* Without an addition the receiver does not know, its fields end where the
\* sender's do.
LEMMA NothingBetween ==
  ASSUME DataOK, NEW at, MessageAt(at), OlderReceiver, NoMoreSent
  PROVE  at[Len(ReceiverFields)] = at[Len(SenderFields)]
  <1> DEFINE m == Len(ReceiverFields)
             n == Len(SenderFields)
             S == {d \in Nat : m + d <= n => at[m + d] = at[m]}
  <1>0. /\ m \in Nat /\ n \in Nat /\ m <= n /\ RootLen \in Nat /\ m >= RootLen
    <2>1. Len(ReceiverFields) <= Len(SenderFields)
      BY OlderFields
    <2> QED
      BY <2>1, LayoutTypes
  <1>1. \A i \in m + 1 .. n : ~Given(i)
    <2> TAKE i \in m + 1 .. n
    <2>1. DOMAIN value = 1 .. n
      <3>1. SenderFields \in Seq(RootKinds)
        BY FieldsTypes DEF DataOK
      <3> QED
        BY <3>1 DEF DataOK
    <2>2. i \in Additions /\ i > m
      BY <2>1, <1>0 DEF Additions, RootLen
    <2>3. ~Sent(i)
      BY <2>2 DEF NoMoreSent
    <2> QED
      BY <2>3 DEF Given
  <1>2. \A k \in 0 .. n - 1 : ~Given(k + 1) => at[k + 1] = at[k]
    BY MessageFacts
  <1> HIDE DEF m, n
  <1>3. 0 \in S
    BY <1>0
  <1>4. \A d \in Nat : d \in S => d + 1 \in S
    <2> SUFFICES ASSUME NEW d \in Nat, d \in S, m + (d + 1) <= n
                 PROVE  at[m + (d + 1)] = at[m]
      OBVIOUS
    <2>1. /\ m + d <= n /\ m + d \in 0 .. n - 1 /\ (m + d) + 1 = m + (d + 1)
          /\ (m + d) + 1 \in m + 1 .. n
      BY <1>0
    <2>2. at[(m + d) + 1] = at[m + d]
      BY <2>1, <1>1, <1>2
    <2>3. at[m + d] = at[m]
      BY <2>1
    <2> QED
      BY <2>1, <2>2, <2>3
  <1>5. Nat \subseteq S
    <2> HIDE DEF S
    <2> QED
      BY <1>3, <1>4, InductionBySet
  <1>6. n - m \in S /\ m + (n - m) = n /\ n <= n
    BY <1>0, <1>5
  <1> QED
    BY <1>6 DEF m, n

\* The tail, right behind the last field that was sent.
LEMMA TailRead ==
  ASSUME TypeInv, NEW at, MessageAt(at), OlderReceiver, ReaderAt(at), ReadTail
  PROVE  /\ phase' = "done" /\ field = Len(ReceiverFields)
         /\ NoMoreSent => gotTail' = tail /\ pos' = Len(bits)
  <1>0. /\ DataOK /\ phase = "readFields" /\ field = Len(ReceiverFields)
        /\ pos = at[Len(ReceiverFields)]
    BY DEF TypeInv, ReadTail, ReaderAt
  <1>1. Len(ReceiverFields) \in 0 .. Len(SenderFields)
    <2>1. Len(ReceiverFields) <= Len(SenderFields) /\ Len(ReceiverFields) \in Nat
          /\ Len(SenderFields) \in Nat
      BY <1>0, OlderFields, LayoutTypes
    <2> QED
      BY <2>1
  <1>2. /\ pos \in Nat /\ pos < Len(bits) /\ bits \in Seq({0, 1})
        /\ Len(bits) = at[Len(SenderFields)] + 1
    BY <1>0, <1>1, MessageFacts
  <1>3. BitReadable(pos) /\ BitAt(pos) = bits[pos + 1]
    BY <1>2, BitInside
  <1>4. phase' = "done" /\ gotTail' = bits[pos + 1] /\ pos' = pos + 1
    BY <1>3 DEF ReadTail
  <1>5. ASSUME NoMoreSent PROVE gotTail' = tail /\ pos' = Len(bits)
    <2>1. pos + 1 = Len(bits)
      BY <1>0, <1>2, <1>5, NothingBetween
    <2> QED
      BY <2>1, <1>4 DEF MessageAt
  <1> QED
    BY <1>0, <1>4, <1>5

\* Nothing is read at first.
LEMMA ReaderInvInit == Init => ReaderInv
  BY DEF Init, ReaderInv

\* Every call of the receiver keeps its place in the layout.
LEMMA ReaderInvNext ==
  ASSUME NoNullBeforeAdditions, TypeInv, WriterInv, ReaderInv, [Next]_vars
  PROVE  ReaderInv'
  <1>0. DataOK /\ UNCHANGED <<schema, value>>
    BY DEF TypeInv, Next, WriteHeader, WriteField, WriteTail, ReadHeader, ReadField,
           ReadTail, vars
  <1>1. OlderReceiver' = OlderReceiver /\ NoMoreSent' = NoMoreSent
    BY <1>0 DEF OlderReceiver, NoMoreSent, Additions, Sent, ReceiverFields, SenderFields
  <1>2. /\ Len(ReceiverFields)' = Len(ReceiverFields)
        /\ Len(SenderFields)' = Len(SenderFields)
        /\ RootLen' = RootLen /\ PeerLen' = PeerLen /\ Extended' = Extended
        /\ Flag' = Flag /\ HeaderEnd' = HeaderEnd
        /\ \A i : Marks(i)' = Marks(i)
        /\ \A k : InOrder(k)' = InOrder(k)
        /\ \A at, b, k : Laid(at, b, k)' = Laid(at, b, k)
    BY <1>0, LayoutUnchanged
  <1>3. \A s, at, k : ReaderScope(s, at, k)' = ReaderScope(s, at, k)
    BY <1>2 DEF ReaderScope
  <1>4. ASSUME NEW at, MessageAt(at), UNCHANGED <<bits, tail>>
        PROVE  MessageAt(at)'
    <2>1. Laid(at, bits, Len(SenderFields))' /\ InOrder(Len(SenderFields))'
      BY <1>2, <1>4 DEF MessageAt
    <2> QED
      BY <2>1, <1>2, <1>4 DEF MessageAt
  <1>5. CASE ReadHeader
    <2> SUFFICES ASSUME OlderReceiver PROVE \E at : MessageAt(at)' /\ ReaderAt(at)'
      BY <1>1 DEF ReaderInv
    <2>1. /\ phase = "read" /\ phase' = "readFields" /\ UNCHANGED <<bits, tail>>
          /\ field' = 0
      BY <1>5 DEF ReadHeader, TypeInv, PositionsOK
    <2>2. PICK at : MessageAt(at)
      BY <2>1 DEF WriterInv, Written
    <2>3. pos' = at[0] /\ ReaderScope(scope', at, 0)
      BY <1>5, <2>2, HeaderRead
    <2>4. ReaderScope(scope, at, field)'
      BY <2>1, <2>3, <1>3
    <2>5. \A i \in 1 .. field' : FALSE
      BY <2>1
    <2>6. ReaderAt(at)'
      BY <2>1, <2>3, <2>4, <2>5 DEF ReaderAt
    <2> QED
      BY <2>1, <2>2, <2>6, <1>4
  <1>6. CASE ReadField
    <2> SUFFICES ASSUME OlderReceiver PROVE \E at : MessageAt(at)' /\ ReaderAt(at)'
      BY <1>1 DEF ReaderInv
    <2>1. phase = "readFields" /\ UNCHANGED <<bits, tail>>
      BY <1>6 DEF ReadField
    <2>2. PICK at : MessageAt(at) /\ ReaderAt(at)
      BY <2>1 DEF ReaderInv
    <2>3. /\ phase' = "readFields" /\ field' = field + 1
          /\ got' = Append(got, value[field + 1])
          /\ pos' = at[field + 1] /\ ReaderScope(scope', at, field + 1)
      BY <1>6, <2>2, FieldRead
    <2>4. ReaderScope(scope, at, field)'
      BY <2>3, <1>3
    <2>5. /\ Len(got) = field /\ got \in Seq({0, 1, Absent, Null}) /\ field \in Nat
      <3>1. Len(ReceiverFields) \in Nat
        BY <1>0, LayoutTypes
      <3> QED
        BY <3>1, <2>1 DEF TypeInv, PositionsOK
    <2>6. \A i \in 1 .. field + 1 : got'[i] = value[i]
      <3> TAKE i \in 1 .. field + 1
      <3>1. CASE i = field + 1
        <4>1. got'[field + 1] = value[field + 1]
          BY <2>3, <2>5
        <4> QED
          BY <4>1, <3>1
      <3>2. CASE i \in 1 .. field
        <4>1. got'[i] = got[i]
          BY <3>2, <2>3, <2>5
        <4> QED
          BY <4>1, <3>2, <2>2 DEF ReaderAt
      <3> QED
        BY <3>1, <3>2, <2>5
    <2>7. ReaderAt(at)'
      BY <2>3, <2>4, <2>6, <1>0 DEF ReaderAt
    <2> QED
      BY <2>1, <2>2, <2>7, <1>4
  <1>7. CASE ReadTail
    <2> SUFFICES ASSUME OlderReceiver PROVE \E at : MessageAt(at)' /\ ReaderAt(at)'
      BY <1>1 DEF ReaderInv
    <2>1. phase = "readFields" /\ UNCHANGED <<bits, tail, field, got>>
      BY <1>7 DEF ReadTail
    <2>2. PICK at : MessageAt(at) /\ ReaderAt(at)
      BY <2>1 DEF ReaderInv
    <2>3. /\ phase' = "done" /\ field = Len(ReceiverFields)
          /\ NoMoreSent => gotTail' = tail /\ pos' = Len(bits)
      BY <1>7, <2>2, TailRead
    <2>4. \A i \in 1 .. field' : got'[i] = value'[i]
      BY <2>1, <2>2, <1>0 DEF ReaderAt
    <2>5. ReaderAt(at)'
      BY <2>1, <2>3, <2>4, <1>1, <1>2 DEF ReaderAt
    <2> QED
      BY <2>1, <2>2, <2>5, <1>4
  <1>8. CASE WriteHeader \/ WriteField \/ WriteTail
    <2>1. phase' \in {"writeFields", "writeError", "read"}
      BY <1>8 DEF WriteHeader, WriteField, WriteTail
    <2> QED
      BY <2>1 DEF ReaderInv
  <1>9. CASE UNCHANGED vars
    <2> SUFFICES ASSUME OlderReceiver, phase \in {"readFields", "readError", "done"}
                 PROVE  \E at : MessageAt(at)' /\ ReaderAt(at)'
      BY <1>1, <1>9 DEF ReaderInv, vars
    <2>1. UNCHANGED <<bits, tail, phase, field, got, pos, scope, gotTail, value>>
      BY <1>9 DEF vars
    <2>2. PICK at : MessageAt(at) /\ ReaderAt(at)
      BY DEF ReaderInv
    <2>3. phase' = "readFields" => pos' = at[field'] /\ ReaderScope(scope, at, field)'
      BY <2>1, <2>2, <1>3 DEF ReaderAt
    <2>4. /\ phase' # "readError" /\ \A i \in 1 .. field' : got'[i] = value'[i]
          /\ phase' = "done" => field' = Len(ReceiverFields)'
          /\ phase' = "done" /\ NoMoreSent' => gotTail' = tail' /\ pos' = Len(bits')
      BY <2>1, <2>2, <1>1, <1>2 DEF ReaderAt
    <2>5. ReaderAt(at)'
      BY <2>3, <2>4 DEF ReaderAt
    <2> QED
      BY <2>1, <2>2, <2>5, <1>4
  <1> QED
    BY <1>5, <1>6, <1>7, <1>8, <1>9 DEF Next

\* The receiver keeps its place in every state.
LEMMA ReaderInvHolds ==
  ASSUME NoNullBeforeAdditions
  PROVE  Spec => [](TypeInv /\ ReaderInv)
  <1>1. Init => TypeInv /\ WriterInv /\ ReaderInv
    BY TypeInvInit, WriterInvInit, ReaderInvInit
  <1>2. TypeInv /\ WriterInv /\ ReaderInv /\ [Next]_vars
          => TypeInv' /\ WriterInv' /\ ReaderInv'
    BY TypeInvNext, WriterInvNext, ReaderInvNext
  <1> QED
    BY <1>1, <1>2, PTL DEF Spec

\* What the receiver has got is the beginning of the value.
LEMMA GotSoFar ==
  ASSUME TypeInv, ReaderInv, OlderReceiver,
         phase \in {"readFields", "readError", "done"}
  PROVE  /\ phase # "readError" /\ Len(got) = field /\ field \in Nat
         /\ got = SubSeq(value, 1, field)
         /\ phase = "done" => field = Len(ReceiverFields)
         /\ phase = "done" /\ NoMoreSent => gotTail = tail /\ pos = Len(bits)
         /\ value \in Seq({Absent, Null, 0, 1}) /\ Len(value) = Len(SenderFields)
         /\ Len(ReceiverFields) <= Len(SenderFields)
  <1>1. PICK at : MessageAt(at) /\ ReaderAt(at)
    BY DEF ReaderInv
  <1>2. /\ phase # "readError" /\ \A i \in 1 .. field : got[i] = value[i]
        /\ phase = "done" => field = Len(ReceiverFields)
        /\ phase = "done" /\ NoMoreSent => gotTail = tail /\ pos = Len(bits)
    BY <1>1 DEF ReaderAt
  <1>3. /\ Len(ReceiverFields) <= Len(SenderFields) /\ Len(ReceiverFields) \in Nat
        /\ Len(SenderFields) \in Nat /\ DataOK
    BY OlderFields, LayoutTypes DEF TypeInv
  <1>4. /\ Len(got) = field /\ got \in Seq({0, 1, Absent, Null})
        /\ field \in 0 .. Len(ReceiverFields)
    BY DEF TypeInv, PositionsOK
  <1>5. value \in Seq({Absent, Null, 0, 1}) /\ Len(value) = Len(SenderFields)
    <2>1. SenderFields \in Seq(RootKinds)
      BY <1>3, FieldsTypes DEF DataOK
    <2>2. value \in [1 .. Len(SenderFields) -> {Absent, Null, 0, 1}]
      BY <2>1, <1>3 DEF DataOK
    <2> QED
      BY <2>2, <1>3
  <1>6. got = SubSeq(value, 1, field)
    <2>1. got = [i \in 1 .. field |-> value[i]]
      BY <1>2, <1>3, <1>4
    <2>2. SubSeq(value, 1, field) = [i \in 1 .. field |-> value[i]]
      BY <1>3, <1>4, <1>5
    <2> QED
      BY <2>1, <2>2
  <1> QED
    BY <1>2, <1>3, <1>4, <1>5, <1>6

\* Between peers of one definition every value that can be written is read
\* back by UperReader, with the field behind it and to the last bit, whatever
\* the number of root fields and additions.
THEOREM RoundTripHolds ==
  ASSUME NoNullBeforeAdditions
  PROVE  Spec => []RoundTrip
  <1>1. TypeInv /\ ReaderInv => RoundTrip
    <2> SUFFICES ASSUME TypeInv, ReaderInv, SameDefinition,
                        phase \in {"readError", "done"}
                 PROVE  phase = "done" /\ got = value /\ gotTail = tail /\ pos = Len(bits)
      BY DEF RoundTrip
    <2>0. ReceiverFields = SenderFields /\ OlderReceiver /\ DataOK
      <3>1. DataOK /\ Len(schema.ext) \in Nat
        BY SchemaTypes DEF TypeInv, DataOK
      <3> QED
        BY <3>1 DEF SameDefinition, ReceiverFields, SenderFields, OlderReceiver
    <2>1. /\ phase # "readError" /\ got = SubSeq(value, 1, field) /\ field \in Nat
          /\ phase = "done" => field = Len(ReceiverFields)
          /\ phase = "done" /\ NoMoreSent => gotTail = tail /\ pos = Len(bits)
          /\ value \in Seq({Absent, Null, 0, 1}) /\ Len(value) = Len(SenderFields)
      BY <2>0, GotSoFar
    <2>2. NoMoreSent
      <3>1. \A i \in Additions : i <= Len(ReceiverFields) /\ i \in Nat
        BY <2>0, <2>1 DEF Additions
      <3>2. Len(ReceiverFields) \in Nat
        BY <2>0, LayoutTypes
      <3> QED
        BY <3>1, <3>2 DEF NoMoreSent
    <2>3. SubSeq(value, 1, Len(value)) = value
      BY <2>1
    <2> QED
      BY <2>0, <2>1, <2>2, <2>3
  <1> QED
    BY <1>1, ReaderInvHolds, PTL

\* A receiver with fewer additions reads all that it knows of them, for every
\* value that can be written, and the field behind the SEQUENCE unless an
\* addition it does not know was sent.
THEOREM KnownFieldsReadHolds ==
  ASSUME NoNullBeforeAdditions
  PROVE  Spec => []KnownFieldsRead
  <1>1. TypeInv /\ ReaderInv => KnownFieldsRead
    <2> SUFFICES ASSUME TypeInv, ReaderInv, OlderReceiver
                 PROVE  /\ field = Len(ReceiverFields) /\ got # <<>> =>
                              got = SubSeq(value, 1, Len(ReceiverFields))
                        /\ phase = "done" /\ NoMoreSent =>
                              gotTail = tail /\ pos = Len(bits)
      BY DEF KnownFieldsRead, NoMoreSent
    <2>1. CASE phase \in {"readFields", "readError", "done"}
      BY <2>1, GotSoFar
    <2>2. CASE phase \notin {"readFields", "readError", "done"}
      BY <2>2 DEF TypeInv, PositionsOK
    <2> QED
      BY <2>1, <2>2
  <1> QED
    BY <1>1, ReaderInvHolds, PTL
=============================================================================
