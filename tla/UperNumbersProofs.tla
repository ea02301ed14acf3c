-------------------------- MODULE UperNumbersProofs ---------------------------
(***************************************************************************)
(* Whole numbers and indexes in UPER, for every width of an octet, every   *)
(* set of ranges and variants and all values: the bits of a number make    *)
(* that number again, the conversions from the schema to the macro keep    *)
(* the range and find a type for it, and Inv says how far a number or a    *)
(* variant is on its way.                                                  *)
(***************************************************************************)
EXTENDS UperNumbers, FiniteSetTheorems, SequenceTheorems, NaturalsInduction,
        WellFoundedInduction, TLAPS

\* Induction on natural numbers about a set instead of a predicate.
LEMMA InductionBySet ==
  ASSUME NEW S, 0 \in S, \A n \in Nat : n \in S => n + 1 \in S
  PROVE  Nat \subseteq S
  <1> SUFFICES ASSUME Nat \ S # {} PROVE FALSE
    OBVIOUS
  <1>1. PICK x \in Nat \ S : \A y \in Nat \ S : << y, x >> \notin OpToRel(<, Nat)
    BY NatLessThanWellFounded, WFMin
  <1>2. x # 0 /\ x - 1 \in Nat /\ (x - 1) + 1 = x
    OBVIOUS
  <1>3. \A y \in Nat \ S : ~(y < x)
    BY <1>1 DEF OpToRel
  <1> QED
    BY <1>2, <1>3

\* A set of natural numbers that has an element has a least one.
LEMMA LeastElement ==
  ASSUME NEW set, set \subseteq Nat, set # {}
  PROVE  \E x \in set : \A y \in set : x <= y
  <1>1. PICK x \in set : \A y \in set : << y, x >> \notin OpToRel(<, Nat)
    BY NatLessThanWellFounded, WFMin
  <1>2. \A y \in set : ~(y < x)
    BY <1>1 DEF OpToRel
  <1> QED
    BY <1>2


\* The library knows powers of two as sizes of powersets: a further element doubles them.
LEMMA Doubled ==
  ASSUME NEW n \in Nat
  PROVE  2^n \in Nat /\ 2^(n + 1) = 2 * 2^n
  <1> DEFINE A == 1 .. n
             With == {B \cup {n + 1} : B \in SUBSET A}
             F == [B \in SUBSET A |-> B \cup {n + 1}]
  <1>1. IsFiniteSet(A) /\ Cardinality(A) = n
    BY FS_Interval
  <1>2. IsFiniteSet(SUBSET A) /\ Cardinality(SUBSET A) = 2^n
    BY <1>1, FS_SUBSET
  <1>3. IsFiniteSet(1 .. n + 1) /\ Cardinality(1 .. n + 1) = n + 1
    BY FS_Interval
  <1>4. Cardinality(SUBSET (1 .. n + 1)) = 2^(n + 1)
    BY <1>3, FS_SUBSET
  <1>5. \A B \in SUBSET A : n + 1 \notin B
    OBVIOUS
  <1>6. F \in Bijection(SUBSET A, With)
    <2>1. F \in Surjection(SUBSET A, With)
      BY DEF Surjection
    <2>2. ASSUME NEW B \in SUBSET A, NEW C \in SUBSET A, F[B] = F[C]
          PROVE  B = C
      <3>1. B \cup {n + 1} = C \cup {n + 1}
        BY <2>2
      <3>2. n + 1 \notin B /\ n + 1 \notin C
        BY <1>5
      <3> HIDE DEF A, F
      <3> QED
        BY <3>1, <3>2
    <2>3. F \in [SUBSET A -> With]
      OBVIOUS
    <2> HIDE DEF F, With, A
    <2> QED
      BY <2>1, <2>2, <2>3 DEF Bijection, Injection, IsInjective
  <1>7. IsFiniteSet(With) /\ Cardinality(With) = 2^n
    BY <1>2, <1>6, FS_Bijection DEF ExistsBijection
  <1>8. SUBSET (1 .. n + 1) = (SUBSET A) \cup With
    <2>1. ASSUME NEW C \in SUBSET (1 .. n + 1), n + 1 \in C
          PROVE  C \in With
      <3>1. C \ {n + 1} \in SUBSET A
        OBVIOUS
      <3>2. C = (C \ {n + 1}) \cup {n + 1}
        BY <2>1
      <3> QED
        BY <3>1, <3>2
    <2>2. ASSUME NEW C \in SUBSET (1 .. n + 1), n + 1 \notin C
          PROVE  C \in SUBSET A
      BY <2>2
    <2>3. A \subseteq 1 .. n + 1 /\ n + 1 \in 1 .. n + 1
      OBVIOUS
    <2> HIDE DEF A
    <2>4. ASSUME NEW C \in With
          PROVE  C \in SUBSET (1 .. n + 1)
      BY <2>3
    <2> QED
      BY <2>1, <2>2, <2>3, <2>4
  <1>9. (SUBSET A) \cap With = {}
    BY <1>5
  <1>10. Cardinality({}) = 0
    BY FS_EmptySet
  <1>11. 2^n \in Nat
    BY <1>2, FS_CardinalityType
  <1> HIDE DEF With, A
  <1>12. Cardinality((SUBSET A) \cup With)
           = Cardinality(SUBSET A) + Cardinality(With) - Cardinality((SUBSET A) \cap With)
    BY <1>2, <1>7, FS_Union
  <1>13. 2^(n + 1) = 2^n + 2^n - 0
    BY <1>2, <1>4, <1>7, <1>8, <1>9, <1>10, <1>12
  <1> QED
    BY <1>11, <1>13

\* Powers of two are positive, and one of a sum is the product of those of its terms.
LEMMA Powers ==
  /\ 2^0 = 1
  /\ \A n \in Nat : 2^n \in Nat \ {0} /\ 2^(n + 1) = 2 * 2^n
  <1> DEFINE S == {n \in Nat : 2^n # 0}
  <1>1. 2^0 = 1
    BY SMT
  <1>2. 0 \in S
    BY <1>1
  <1>3. \A n \in Nat : n \in S => n + 1 \in S
    BY Doubled
  <1> HIDE DEF S
  <1>4. Nat \subseteq S
    BY <1>2, <1>3, InductionBySet
  <1> QED
    BY <1>1, <1>4, Doubled DEF S

\* Powers of a sum are products of powers.
LEMMA PowerOfSum ==
  ASSUME NEW m \in Nat, NEW n \in Nat
  PROVE  2^(m + n) = 2^m * 2^n
  <1> DEFINE S == {k \in Nat : 2^(m + k) = 2^m * 2^k}
  <1>1. 0 \in S
    BY Powers
  <1>2. ASSUME NEW k \in Nat, k \in S
        PROVE  k + 1 \in S
    <2>1. 2^((m + k) + 1) = 2 * 2^(m + k)
      BY Powers
    <2>2. m + (k + 1) = (m + k) + 1
      OBVIOUS
    <2>3. 2^(k + 1) = 2 * 2^k /\ 2^k \in Nat /\ 2^m \in Nat
      BY Powers
    <2>4. 2^(m + k) = 2^m * 2^k
      BY <1>2
    <2>5. 2 * (2^m * 2^k) = 2^m * (2 * 2^k)
      BY <2>3
    <2> QED
      BY <2>1, <2>2, <2>3, <2>4, <2>5
  <1> HIDE DEF S
  <1>3. Nat \subseteq S
    BY <1>1, <1>2, InductionBySet
  <1> QED
    BY <1>3 DEF S

\* A greater exponent makes no smaller power.
LEMMA PowersGrow ==
  ASSUME NEW m \in Nat, NEW n \in Nat, m <= n
  PROVE  2^m <= 2^n
  <1>1. n - m \in Nat /\ n = m + (n - m)
    OBVIOUS
  <1>2. 2^n = 2^m * 2^(n - m)
    BY <1>1, PowerOfSum
  <1>3. 2^m \in Nat \ {0} /\ 2^(n - m) \in Nat \ {0}
    BY <1>1, Powers
  <1>4. \A a, b \in Nat \ {0} : a <= a * b
    OBVIOUS
  <1> QED
    BY <1>2, <1>3, <1>4

\* Quotient and remainder are those numbers only.
LEMMA Quotient ==
  ASSUME NEW n \in Int, NEW d \in Nat \ {0}
  PROVE  /\ n \div d \in Int /\ n % d \in 0 .. d - 1
         /\ n = (n \div d) * d + (n % d)
  OBVIOUS

\* Only the quotient and the remainder are such numbers.
LEMMA OnlyQuotient ==
  ASSUME NEW n \in Int, NEW d \in Nat \ {0}, NEW q \in Int, NEW r \in 0 .. d - 1,
         n = q * d + r
  PROVE  n \div d = q /\ n % d = r
  OBVIOUS

\* Another binary digit.
LEMMA OneMoreDigit ==
  ASSUME NEW q \in Nat, NEW p \in Nat \ {0}
  PROVE  2 * ((q \div 2) % p) + (q % 2) = q % (2 * p)
  <1> DEFINE h == q \div 2
             c == q % 2
             a == h \div p
             b == h % p
  <1>1. h \in Int /\ c \in 0 .. 1 /\ q = h * 2 + c
    BY Quotient
  <1>2. a \in Int /\ b \in 0 .. p - 1 /\ h = a * p + b
    BY <1>1, Quotient
  <1> HIDE DEF h, c, a, b
  <1>3. q = a * (2 * p) + (2 * b + c)
    <2>1. (a * p) * 2 = a * (2 * p)
      BY <1>2
    <2> QED
      BY <1>1, <1>2, <2>1
  <1>4. 2 * b + c \in 0 .. (2 * p) - 1 /\ 2 * p \in Nat \ {0}
    BY <1>1, <1>2
  <1>5. 2 * p \in Nat \ {0} /\ q \in Int
    OBVIOUS
  <1>6. q % (2 * p) = 2 * b + c
    BY <1>2, <1>3, <1>4, <1>5, OnlyQuotient
  <1> QED
    BY <1>6 DEF b, h, c

\* Division by two after a division.
LEMMA HalfOfQuotient ==
  ASSUME NEW n \in Nat, NEW p \in Nat \ {0}
  PROVE  n \div (2 * p) = (n \div p) \div 2
  OBVIOUS

-----------------------------------------------------------------------------
(* Bits and the number that they make *)

\* Bits are as many as asked for.
LEMMA BitsType ==
  ASSUME NEW n \in Nat, NEW width \in Nat
  PROVE  Bits(n, width) \in Seq({0, 1}) /\ Len(Bits(n, width)) = width
  <1>1. ASSUME NEW i \in 1 .. width
        PROVE  (n \div 2^(width - i)) % 2 \in {0, 1}
    <2>1. width - i \in Nat
      OBVIOUS
    <2>2. 2^(width - i) \in Nat \ {0}
      BY <2>1, Powers
    <2>3. n \div 2^(width - i) \in Int
      BY <2>2, Quotient
    <2> QED
      BY <2>3, Quotient
  <1> QED
    BY <1>1 DEF Bits

\* A number's last bits are its remainder.
LEMMA NumberOfBits ==
  ASSUME NEW n \in Nat, NEW width \in Nat
  PROVE  Number(Bits(n, width)) = n % 2^width
  <1> DEFINE b == Bits(n, width)
             Rec(f) == f = [i \in 0 .. Len(b) |-> IF i = 0 THEN 0 ELSE 2 * f[i - 1] + b[i]]
             h == [i \in 0 .. Len(b) |-> (n \div 2^(width - i)) % 2^i]
             value_of == CHOOSE f : Rec(f)
  <1>1. Len(b) = width
    BY BitsType
  <1>2. ASSUME NEW i \in 1 .. width
        PROVE  b[i] = (n \div 2^(width - i)) % 2
    BY DEF Bits
  <1>3. ASSUME NEW i \in 1 .. width
        PROVE  2 * ((n \div 2^(width - (i - 1))) % 2^(i - 1)) + b[i]
                 = (n \div 2^(width - i)) % 2^i
    <2> DEFINE p == 2^(width - i)
               q == n \div p
    <2>1. p \in Nat \ {0} /\ 2^(width - (i - 1)) = 2 * p
      <3>1. width - i \in Nat /\ width - (i - 1) = (width - i) + 1
        OBVIOUS
      <3> QED
        BY <3>1, Powers
    <2>2. 2^(i - 1) \in Nat \ {0} /\ 2^i = 2 * 2^(i - 1)
      <3>1. i - 1 \in Nat /\ i = (i - 1) + 1
        OBVIOUS
      <3> QED
        BY <3>1, Powers
    <2> HIDE DEF p, b
    <2>3. q \in Nat
      BY <2>1
    <2>4. n \div 2^(width - (i - 1)) = q \div 2
      BY <2>1, HalfOfQuotient
    <2>5. b[i] = q % 2
      BY <1>2 DEF p
    <2>6. 2 * ((q \div 2) % 2^(i - 1)) + (q % 2) = q % (2 * 2^(i - 1))
      <3> HIDE DEF q
      <3> QED
        BY <2>2, <2>3, OneMoreDigit
    <2> QED
      BY <2>2, <2>4, <2>5, <2>6 DEF p
  <1>4. (n \div 2^(width - 0)) % 2^0 = 0
    <2>1. 2^0 = 1 /\ 2^width \in Nat \ {0} /\ width - 0 = width
      BY Powers
    <2>2. n \div 2^width \in Int
      BY <2>1
    <2> QED
      BY <2>1, <2>2
  <1>5. Rec(h)
    <2>1. ASSUME NEW i \in 0 .. Len(b)
          PROVE  h[i] = IF i = 0 THEN 0 ELSE 2 * h[i - 1] + b[i]
      <3>1. CASE i = 0
        BY <1>4, <3>1
      <3>2. CASE i # 0
        <4>1. i \in 1 .. width /\ i - 1 \in 0 .. Len(b)
          BY <1>1, <3>2
        <4>2. h[i - 1] = (n \div 2^(width - (i - 1))) % 2^(i - 1)
          BY <4>1
        <4>3. h[i] = (n \div 2^(width - i)) % 2^i
          OBVIOUS
        <4> HIDE DEF h, b
        <4> QED
          BY <1>3, <4>1, <4>2, <4>3, <3>2
      <3> QED
        BY <3>1, <3>2
    <2>2. h = [i \in 0 .. Len(b) |-> h[i]]
      OBVIOUS
    <2> HIDE DEF h, b
    <2> QED
      BY <2>1, <2>2
  <1>6. Rec(value_of)
    <2> HIDE DEF h, Rec
    <2> QED
      BY <1>5
  <1> DEFINE S == {i \in Nat : i <= width => value_of[i] = h[i]}
  <1>7. 0 \in S
    <2>1. h[0] = 0
      BY <1>1, <1>4
    <2> HIDE DEF h, b, value_of
    <2>2. value_of[0] = 0
      BY <1>1, <1>6
    <2> QED
      BY <2>1, <2>2
  <1>8. ASSUME NEW i \in Nat, i \in S
        PROVE  i + 1 \in S
    <2> SUFFICES ASSUME i + 1 <= width
                 PROVE  value_of[i + 1] = h[i + 1]
      OBVIOUS
    <2>1. i + 1 \in 0 .. Len(b) /\ (i + 1) - 1 = i /\ i + 1 # 0
      BY <1>1
    <2> HIDE DEF h, b, value_of
    <2>2. value_of[i] = h[i]
      BY <1>8
    <2>3. value_of[i + 1] = 2 * value_of[i] + b[i + 1]
      BY <1>6, <2>1
    <2>4. h[i + 1] = 2 * h[i] + b[i + 1]
      BY <1>5, <2>1
    <2> QED
      BY <2>2, <2>3, <2>4
  <1>9. value_of[width] = h[width]
    <2> HIDE DEF S
    <2>1. Nat \subseteq S
      BY <1>7, <1>8, InductionBySet
    <2>2. width \in S
      BY <2>1
    <2> QED
      BY <2>2 DEF S
  <1>10. h[width] = n % 2^width
    <2>1. width \in 0 .. Len(b) /\ width - width = 0
      BY <1>1
    <2>2. n \div 1 = n
      OBVIOUS
    <2> QED
      BY <2>1, <2>2, Powers
  <1>11. Number(b) = value_of[Len(b)]
    BY DEF Number
  <1> HIDE DEF h, value_of, b
  <1> QED
    BY <1>1, <1>9, <1>10, <1>11 DEF b

-----------------------------------------------------------------------------
(* Words and types *)

OctetCounts == {1, 2, 4, 8}
Types == {Type(s, o) : s \in {"u", "i"}, o \in OctetCounts}

\* An i64 is half of the numbers of a word.
LEMMA Words ==
  /\ WordBits \in Nat /\ WordBits >= 8
  /\ I64_MAX \in Nat /\ I64_MIN = -(I64_MAX + 1)
  /\ 2^WordBits = 2 * I64_MAX + 2
  <1>1. OctetBits \in Nat \ {0}
    BY NumbersAssumption
  <1>2. WordBits \in Nat /\ WordBits >= 8
    BY <1>1 DEF WordBits, Octets
  <1>3. WordBits - 1 \in Nat /\ WordBits = (WordBits - 1) + 1
    BY <1>2
  <1>4. 2^(WordBits - 1) \in Nat \ {0} /\ 2^WordBits = 2 * 2^(WordBits - 1)
    BY <1>3, Powers
  <1> QED
    BY <1>2, <1>4 DEF I64_MAX, I64_MIN

\* A signed type is for half of the numbers of the unsigned one.
LEMMA TypeLimits ==
  ASSUME NEW o \in OctetCounts
  PROVE  /\ o * OctetBits \in Nat /\ o * OctetBits <= WordBits
         /\ TypeMax(Type("i", o)) \in 0 .. I64_MAX
         /\ TypeMin(Type("i", o)) = -(TypeMax(Type("i", o)) + 1)
         /\ TypeMin(Type("u", o)) = 0
         /\ TypeMax(Type("u", o)) = 2 * TypeMax(Type("i", o)) + 1
         /\ 2^(o * OctetBits) = TypeMax(Type("u", o)) + 1
  <1> DEFINE w == o * OctetBits
  <1>1. OctetBits \in Nat \ {0} /\ o \in 1 .. 8
    BY NumbersAssumption DEF OctetCounts
  <1>2. w \in Nat /\ w - 1 \in Nat /\ w = (w - 1) + 1 /\ w <= WordBits
    BY <1>1 DEF WordBits, Octets
  <1> HIDE DEF w
  <1>3. 2^(w - 1) \in Nat \ {0} /\ 2^w = 2 * 2^(w - 1)
    BY <1>2, Powers
  <1>4. WordBits - 1 \in Nat /\ w - 1 <= WordBits - 1
    BY <1>2, Words
  <1>5. 2^(w - 1) <= 2^(WordBits - 1)
    BY <1>2, <1>4, PowersGrow
  <1>6. /\ TypeMax(Type("i", o)) = 2^(w - 1) - 1
        /\ TypeMin(Type("i", o)) = -(2^(w - 1))
        /\ TypeMin(Type("u", o)) = 0
        /\ TypeMax(Type("u", o)) = 2^(w - 0) - 1
    BY DEF w, TypeMax, TypeMin, Type
  <1>7. w - 0 = w
    BY <1>2
  <1>8. 2^(WordBits - 1) \in Nat /\ I64_MAX = 2^(WordBits - 1) - 1
    BY <1>4, Powers DEF I64_MAX
  <1> QED
    BY <1>2, <1>3, <1>5, <1>6, <1>7, <1>8 DEF w

\* The types of a whole word.
LEMMA WordTypes ==
  /\ U64 = Type("u", 8) /\ I64 = Type("i", 8) /\ 8 \in OctetCounts
  /\ TypeMin(U64) = 0 /\ TypeMax(U64) = 2 * I64_MAX + 1
  /\ TypeMin(I64) = I64_MIN /\ TypeMax(I64) = I64_MAX
  <1>1. 8 * OctetBits = WordBits /\ OctetBits \in Nat
    BY NumbersAssumption DEF WordBits, Octets
  <1>2. 8 \in OctetCounts
    BY DEF OctetCounts
  <1>3. TypeMax(Type("i", 8)) = I64_MAX
    BY <1>1 DEF TypeMax, Type, I64_MAX
  <1> QED
    BY <1>2, <1>3, TypeLimits, Words DEF U64, I64

\* The casts between i64 and u64.
LEMMA Casts ==
  /\ \A n \in I64_MIN .. I64_MAX :
        /\ AsU64(n) = IF n >= 0 THEN n ELSE n + 2 * I64_MAX + 2
        /\ AsI64(n) = n /\ AsI64(AsU64(n)) = n
  /\ \A n \in 0 .. 2 * I64_MAX + 1 :
        /\ AsU64(n) = n
        /\ AsI64(n) = IF n <= I64_MAX THEN n ELSE n - 2 * I64_MAX - 2
  <1> DEFINE p == 2 * I64_MAX + 2
  <1>1. p \in Nat \ {0} /\ 2^WordBits = p /\ I64_MAX \in Nat /\ I64_MIN = -(I64_MAX + 1)
    BY Words
  <1>2. ASSUME NEW n \in 0 .. p - 1
        PROVE  AsU64(n) = n
    <2>1. n \in Int /\ 0 \in Int /\ n \in 0 .. p - 1 /\ n = 0 * p + n
      BY <1>1
    <2>2. n % p = n
      <3> HIDE DEF p
      <3> QED
        BY <1>1, <2>1, OnlyQuotient
    <2> QED
      BY <1>1, <2>2 DEF AsU64
  <1>3. ASSUME NEW n \in I64_MIN .. -1
        PROVE  AsU64(n) = n + p
    <2> DEFINE q == -1
               r == n + p
    <2>1. n \in Int /\ q \in Int /\ r \in 0 .. p - 1 /\ n = q * p + r
      BY <1>1
    <2>2. n % p = r
      <3> HIDE DEF p, q, r
      <3> QED
        BY <1>1, <2>1, OnlyQuotient
    <2> QED
      BY <1>1, <2>2 DEF AsU64
  <1>4. ASSUME NEW n \in I64_MIN .. I64_MAX
        PROVE  /\ AsU64(n) = IF n >= 0 THEN n ELSE n + p
               /\ AsU64(n) \in 0 .. p - 1
    <2>1. CASE n >= 0
      BY <1>1, <1>2, <2>1
    <2>2. CASE n < 0
      <3>1. n \in I64_MIN .. -1
        BY <1>1, <2>2
      <3> QED
        BY <1>1, <1>3, <2>2, <3>1
    <2> QED
      BY <1>1, <2>1, <2>2
  <1>5. ASSUME NEW n \in I64_MIN .. I64_MAX
        PROVE  AsI64(n) = n /\ AsI64(AsU64(n)) = n
    <2>1. AsU64(AsU64(n)) = AsU64(n)
      BY <1>2, <1>4
    <2> QED
      BY <1>1, <1>4, <2>1 DEF AsI64
  <1>6. ASSUME NEW n \in 0 .. p - 1
        PROVE  AsI64(n) = IF n <= I64_MAX THEN n ELSE n - 2 * I64_MAX - 2
    BY <1>1, <1>2 DEF AsI64
  <1> QED
    BY <1>1, <1>2, <1>4, <1>5, <1>6

-----------------------------------------------------------------------------
(* From the schema to the constants of generated code *)

\* There is a type for every amplitude up to that of a word.
LEMMA HoldsAmplitude ==
  ASSUME NEW sign \in {"u", "i"}, NEW amplitude \in Int, amplitude <= TypeMax(Type(sign, 8))
  PROVE  LET octets == CHOOSE o \in {1, 2, 4, 8} :
                         /\ amplitude <= TypeMax(Type(sign, o))
                         /\ \A p \in {1, 2, 4, 8} : p < o => amplitude > TypeMax(Type(sign, p))
         IN  octets \in OctetCounts /\ amplitude <= TypeMax(Type(sign, octets))
  <1> DEFINE Smallest(o) == /\ amplitude <= TypeMax(Type(sign, o))
                            /\ \A p \in {1, 2, 4, 8} :
                                 p < o => amplitude > TypeMax(Type(sign, p))
  <1>1. \A o \in {1, 2, 4, 8} : TypeMax(Type(sign, o)) \in Int
    BY TypeLimits, Words DEF OctetCounts
  <1>2. \E o \in {1, 2, 4, 8} : Smallest(o)
    <2>1. CASE amplitude <= TypeMax(Type(sign, 1))
      BY <2>1
    <2>2. CASE amplitude > TypeMax(Type(sign, 1)) /\ amplitude <= TypeMax(Type(sign, 2))
      BY <2>2
    <2>3. CASE /\ amplitude > TypeMax(Type(sign, 1)) /\ amplitude > TypeMax(Type(sign, 2))
               /\ amplitude <= TypeMax(Type(sign, 4))
      BY <2>3
    <2>4. CASE /\ amplitude > TypeMax(Type(sign, 1)) /\ amplitude > TypeMax(Type(sign, 2))
               /\ amplitude > TypeMax(Type(sign, 4))
      BY <2>4
    <2> QED
      BY <1>1, <2>1, <2>2, <2>3, <2>4
  <1> HIDE DEF Smallest
  <1>3. LET octets == CHOOSE o \in {1, 2, 4, 8} : Smallest(o)
        IN  octets \in {1, 2, 4, 8} /\ Smallest(octets)
    BY <1>2
  <1> QED
    BY <1>3 DEF Smallest, OctetCounts

\* The type that a range gets holds its bounds.
LEMMA HoldsUnsigned ==
  ASSUME NEW min, NEW max \in 0 .. 2 * I64_MAX + 1
  PROVE  /\ Holding("u", min, max) \in Types
         /\ Holding("u", min, max).sign = "u"
         /\ max <= TypeMax(Holding("u", min, max))
  <1> DEFINE amplitude == IF "u" = "u" \/ max >= -(min + 1) THEN max ELSE -(min + 1)
             octets == CHOOSE o \in {1, 2, 4, 8} :
                         /\ amplitude <= TypeMax(Type("u", o))
                         /\ \A p \in {1, 2, 4, 8} : p < o => amplitude > TypeMax(Type("u", p))
  <1>1. amplitude = max /\ amplitude \in Int /\ amplitude <= TypeMax(Type("u", 8))
    BY WordTypes, Words
  <1>2. octets \in OctetCounts /\ amplitude <= TypeMax(Type("u", octets))
    <2> HIDE DEF amplitude
    <2> QED
      BY <1>1, HoldsAmplitude
  <1>3. Holding("u", min, max) = Type("u", octets)
    BY DEF Holding
  <1> HIDE DEF octets, amplitude
  <1>4. Type("u", octets) \in Types /\ Type("u", octets).sign = "u"
    BY <1>2 DEF Types, Type
  <1> QED
    BY <1>1, <1>2, <1>3, <1>4

\* The signed type that Holding picks holds both bounds.
LEMMA HoldsSigned ==
  ASSUME NEW min \in I64_MIN .. I64_MAX, NEW max \in min .. I64_MAX, min < 0
  PROVE  /\ Holding("i", min, max) \in Types
         /\ Holding("i", min, max).sign = "i"
         /\ TypeMin(Holding("i", min, max)) <= min /\ max <= TypeMax(Holding("i", min, max))
  <1> DEFINE amplitude == IF "i" = "u" \/ max >= -(min + 1) THEN max ELSE -(min + 1)
             octets == CHOOSE o \in {1, 2, 4, 8} :
                         /\ amplitude <= TypeMax(Type("i", o))
                         /\ \A p \in {1, 2, 4, 8} : p < o => amplitude > TypeMax(Type("i", p))
  <1>1. amplitude \in 0 .. I64_MAX /\ amplitude \in Int
    BY Words
  <1>2. TypeMax(Type("i", 8)) = I64_MAX
    BY WordTypes
  <1>3. octets \in OctetCounts /\ amplitude <= TypeMax(Type("i", octets))
    <2> HIDE DEF amplitude
    <2> QED
      BY <1>1, <1>2, Words, HoldsAmplitude
  <1>4. Holding("i", min, max) = Type("i", octets)
    BY DEF Holding
  <1>5. max <= amplitude /\ -(min + 1) <= amplitude
    BY Words
  <1> HIDE DEF octets, amplitude
  <1>6. /\ TypeMax(Type("i", octets)) \in Int
        /\ TypeMin(Type("i", octets)) = -(TypeMax(Type("i", octets)) + 1)
    BY <1>3, TypeLimits
  <1>7. TypeMin(Type("i", octets)) <= min /\ max <= TypeMax(Type("i", octets))
    BY <1>1, <1>3, <1>5, <1>6, Words
  <1>8. Type("i", octets) \in Types /\ Type("i", octets).sign = "i"
    BY <1>3 DEF Types, Type
  <1> QED
    BY <1>4, <1>7, <1>8

\* What the macro demands of the range g of a generated type.
Compiles(g) ==
    /\ AttributeToRust(g).type = g.type
    /\ OrElse(AttributeToRust(g).max, 0) <= I64_MAX

\* A range that its Rust type holds.
SoundRange(r) ==
    /\ r.type \in Types
    /\ r.extensible \in BOOLEAN
    /\ r.min \in Bounds /\ r.max \in Bounds
    /\ TypeMin(r.type) <= OrElse(r.min, 0)
    /\ OrElse(r.min, 0) <= OrElse(r.max, I64_MAX)
    /\ OrElse(r.max, I64_MAX) <= TypeMax(r.type)

\* The range c is the declared one.
Declared(c, d) ==
    /\ c.extensible = d.extensible
    /\ OrElse(c.min, 0) = d.min
    /\ OrElse(c.max, I64_MAX) = OrElse(d.max, I64_MAX)

\* What the conversions of a declared range come to.
Converts(d) ==
    LET g == ParsedToRust(d)
        c == AttributeToRust(g)
    IN  /\ g.type \in Types
        /\ Compiles(g) => SoundRange(c)
        /\ d.min # Open => Compiles(g) /\ Declared(c, d)

\* What a schema may say of an INTEGER.
LEMMA Ranged ==
  ASSUME NEW d \in Ranges
  PROVE  /\ d.min \in Bounds /\ d.max \in Bounds /\ d.extensible \in BOOLEAN
         /\ d.min # Open /\ d.max # Open => d.min <= d.max
         /\ Open \notin Int
  BY NumbersAssumption

\* From 0, and without an upper bound or up to MAX: u64 without bounds.
LEMMA ConvertsUnbounded ==
  ASSUME NEW d \in Ranges, d.min \in {Open, 0}, d.max \in {Open, I64_MAX}
  PROVE  Converts(d)
  <1> DEFINE g == Rust(U64, Open, Open, d.extensible)
  <1>1. ParsedToRust(d) = g
    BY DEF ParsedToRust, IntegerToRust
  <1>2. AttributeToRust(g) = g
    BY DEF AttributeToRust, IntegerToRust, OpenAsI64, Rust
  <1>3. /\ g.type = U64 /\ g.min = Open /\ g.max = Open /\ g.extensible = d.extensible
        /\ OrElse(g.min, 0) = 0 /\ OrElse(g.max, I64_MAX) = I64_MAX /\ OrElse(g.max, 0) = 0
    BY DEF Rust, OrElse
  <1>4. U64 \in Types
    BY WordTypes DEF Types
  <1> HIDE DEF g
  <1>5. SoundRange(g)
    BY <1>3, <1>4, Ranged, Words, WordTypes DEF SoundRange, Bounds
  <1>6. Compiles(g)
    BY <1>2, <1>3, Words DEF Compiles
  <1>7. d.min # Open => Declared(g, d)
    BY <1>3, Ranged DEF Declared, OrElse
  <1> QED
    BY <1>1, <1>2, <1>3, <1>4, <1>5, <1>6, <1>7 DEF Converts

\* A bound that is given, or not.
LEMMA Given ==
  /\ \A default : OrElse(Open, default) = default
  /\ \A n \in Int : \A default : OrElse(n, default) = n
  /\ Open \notin Int
  /\ I64_MIN \in Int /\ I64_MIN < 0 /\ I64_MAX \in Nat /\ I64_MIN = -(I64_MAX + 1)
  BY NumbersAssumption, Words DEF OrElse

\* The fields of a Rust type with its range.
LEMMA RustFields ==
  ASSUME NEW type, NEW min, NEW max, NEW extensible
  PROVE  LET r == Rust(type, min, max, extensible)
         IN  r.type = type /\ r.min = min /\ r.max = max /\ r.extensible = extensible
  BY DEF Rust

\* What the model of Rust code makes of a range, whether it has an extension marker or not.
LEMMA ToRustUnsigned ==
  ASSUME NEW extensible, NEW min \in {Open} \cup Nat, NEW max \in {Open} \cup Nat,
         ~(min \in {Open, 0} /\ max \in {Open, I64_MAX}),
         extensible = TRUE
  PROVE  IntegerToRust(min, max, extensible) = Rust(U64, min, max, extensible)
  <1>1. OrElse(min, 0) >= 0 /\ OrElse(max, 0) >= 0
    BY Given
  <1>2. ~(min \in {Open, 0} /\ max = Open) /\ ~(min \in {Open, 0} /\ max = I64_MAX)
    OBVIOUS
  <1> QED
    BY <1>1, <1>2 DEF IntegerToRust

\* An extensible range with a negative bound becomes an i64.
LEMMA ToRustSigned ==
  ASSUME NEW extensible, NEW min \in {Open} \cup Int, NEW max \in {Open} \cup Int,
         (min \in Int /\ min < 0) \/ (max \in Int /\ max < 0),
         extensible = TRUE
  PROVE  IntegerToRust(min, max, extensible)
           = Rust(I64, OrElse(min, I64_MIN), OrElse(max, I64_MAX), extensible)
  <1>1. ~(OrElse(min, 0) >= 0 /\ OrElse(max, 0) >= 0)
    BY Given
  <1>2. ~(min \in {Open, 0} /\ max = Open) /\ ~(min \in {Open, 0} /\ max = I64_MAX)
    BY Given
  <1> QED
    BY <1>1, <1>2 DEF IntegerToRust

\* A range from 0 on without extension marker becomes the unsigned type that holds it.
LEMMA ToRustFixedUnsigned ==
  ASSUME NEW extensible, NEW min \in {Open} \cup Int, NEW max \in {Open} \cup Int,
         ~(min \in {Open, 0} /\ max \in {Open, I64_MAX}), extensible = FALSE,
         OrElse(min, 0) >= 0
  PROVE  LET upper == AsU64(OrElse(max, I64_MAX))
         IN  IntegerToRust(min, max, extensible)
               = Rust(Holding("u", OrElse(min, 0), upper), OrElse(min, 0), upper, extensible)
  <1>2. ~(min \in {Open, 0} /\ max = Open) /\ ~(min \in {Open, 0} /\ max = I64_MAX)
    OBVIOUS
  <1> QED
    BY <1>2 DEF IntegerToRust

\* A range with a negative lower bound becomes the signed type that holds it.
LEMMA ToRustFixedSigned ==
  ASSUME NEW extensible, NEW min \in {Open} \cup Int, NEW max \in {Open} \cup Int,
         ~(min \in {Open, 0} /\ max \in {Open, I64_MAX}), extensible = FALSE,
         OrElse(min, 0) < 0
  PROVE  LET upper == OrElse(max, I64_MAX)
         IN  IntegerToRust(min, max, extensible)
               = Rust(Holding("i", OrElse(min, 0), upper), OrElse(min, 0), upper, extensible)
  <1>1. ~(OrElse(min, 0) >= 0)
    BY Given
  <1>2. ~(min \in {Open, 0} /\ max = Open) /\ ~(min \in {Open, 0} /\ max = I64_MAX)
    OBVIOUS
  <1> QED
    BY <1>1, <1>2 DEF IntegerToRust

\* What the macro reads from the attribute of a generated type.
LEMMA MacroOfBoth ==
  ASSUME NEW type, NEW min \in I64_MIN .. I64_MAX, NEW max, NEW extensible, NEW cast,
         max \in Int, cast \in Int, AsI64(max) = cast
  PROVE  AttributeToRust(Rust(type, min, max, extensible)) = IntegerToRust(min, cast, extensible)
  <1> DEFINE r == Rust(type, min, max, extensible)
  <1>1. r.min = min /\ r.max = max /\ r.extensible = extensible
    BY RustFields
  <1> HIDE DEF r
  <1>2. min \in Int /\ min # Open /\ max # Open /\ cast # Open /\ AsI64(min) = min
    BY Given, Casts
  <1>3. OpenAsI64(r.min) = min /\ OpenAsI64(r.max) = cast
    BY <1>1, <1>2 DEF OpenAsI64
  <1>4. /\ \A default : OrElse(min, default) = min
        /\ \A default : OrElse(cast, default) = cast
    BY <1>2, Given
  <1>5. AttributeToRust(r) = IntegerToRust(min, cast, extensible)
    BY <1>1, <1>2, <1>3, <1>4 DEF AttributeToRust
  <1> QED
    BY <1>5 DEF r

\* The macro's reading of an attribute without an upper bound.
LEMMA MacroOfMin ==
  ASSUME NEW type, NEW min \in I64_MIN .. I64_MAX, NEW extensible, min # 0
  PROVE  AttributeToRust(Rust(type, min, Open, extensible))
           = IntegerToRust(min, I64_MAX, extensible)
  <1> DEFINE r == Rust(type, min, Open, extensible)
  <1>1. r.min = min /\ r.max = Open /\ r.extensible = extensible
    BY RustFields
  <1> HIDE DEF r
  <1>2. min \in Int /\ min # Open /\ AsI64(min) = min
    BY Given, Casts
  <1>3. OpenAsI64(r.min) = min /\ OpenAsI64(r.max) = Open
    BY <1>1, <1>2 DEF OpenAsI64
  <1>4. /\ \A default : OrElse(min, default) = min
        /\ \A default : OrElse(Open, default) = default
    BY <1>2, Given
  <1>5. AttributeToRust(r) = IntegerToRust(min, I64_MAX, extensible)
    BY <1>1, <1>2, <1>3, <1>4 DEF AttributeToRust
  <1> QED
    BY <1>5 DEF r

\* The macro's reading of an attribute without a lower bound.
LEMMA MacroOfMax ==
  ASSUME NEW type, NEW max \in I64_MIN .. I64_MAX, NEW extensible, NEW min,
         min = IF max > 0 THEN 0 ELSE I64_MIN
  PROVE  AttributeToRust(Rust(type, Open, max, extensible)) = IntegerToRust(min, max, extensible)
  <1> DEFINE r == Rust(type, Open, max, extensible)
  <1>1. r.min = Open /\ r.max = max /\ r.extensible = extensible
    BY RustFields
  <1> HIDE DEF r
  <1>2. max \in Int /\ max # Open /\ AsI64(max) = max
    BY Given, Casts
  <1>3. OpenAsI64(r.min) = Open /\ OpenAsI64(r.max) = max
    BY <1>1, <1>2 DEF OpenAsI64
  <1>4. /\ \A default : OrElse(max, default) = max
        /\ \A default : OrElse(Open, default) = default
    BY <1>2, Given
  <1>5. AttributeToRust(r) = IntegerToRust(min, max, extensible)
    BY <1>1, <1>2, <1>3, <1>4 DEF AttributeToRust
  <1> QED
    BY <1>5 DEF r

\* A range with both bounds is sound if the bounds are of its type.
LEMMA SoundBoth ==
  ASSUME NEW type \in Types, NEW min \in I64_MIN .. I64_MAX, NEW max \in min .. I64_MAX,
         NEW extensible \in BOOLEAN,
         TypeMin(type) <= min, max <= TypeMax(type)
  PROVE  LET r == Rust(type, min, max, extensible)
         IN  /\ SoundRange(r)
             /\ OrElse(r.min, 0) = min /\ OrElse(r.max, I64_MAX) = max
             /\ OrElse(r.max, 0) <= I64_MAX
  <1> DEFINE r == Rust(type, min, max, extensible)
  <1>1. r.type = type /\ r.min = min /\ r.max = max /\ r.extensible = extensible
    BY RustFields
  <1> HIDE DEF r
  <1>2. min \in Int /\ max \in Int /\ min <= max /\ max <= I64_MAX /\ I64_MIN <= max
    BY Given
  <1>3. OrElse(r.min, 0) = min /\ OrElse(r.max, I64_MAX) = max /\ OrElse(r.max, 0) = max
    BY <1>1, <1>2, Given
  <1>4. r.min \in Bounds /\ r.max \in Bounds
    BY <1>1, <1>2, Given DEF Bounds
  <1>5. SoundRange(r)
    BY <1>1, <1>2, <1>3, <1>4 DEF SoundRange
  <1> QED
    BY <1>2, <1>3, <1>5 DEF r

\* The generated range compiles to one with both bounds.
LEMMA ConvertsBoth ==
  ASSUME NEW d \in Ranges,
         NEW type \in Types, NEW min \in I64_MIN .. I64_MAX, NEW max \in min .. I64_MAX,
         TypeMin(type) <= min, max <= TypeMax(type),
         ParsedToRust(d).type = type,
         AttributeToRust(ParsedToRust(d)) = Rust(type, min, max, d.extensible),
         d.min # Open => d.min = min /\ OrElse(d.max, I64_MAX) = max
  PROVE  Converts(d)
  <1> DEFINE g == ParsedToRust(d)
             c == Rust(type, min, max, d.extensible)
  <1>1. d.extensible \in BOOLEAN
    BY Ranged
  <1>2. /\ SoundRange(c) /\ OrElse(c.min, 0) = min /\ OrElse(c.max, I64_MAX) = max
        /\ OrElse(c.max, 0) <= I64_MAX
    BY <1>1, SoundBoth
  <1>3. c.type = type /\ c.extensible = d.extensible
    BY RustFields
  <1> HIDE DEF c
  <1>4. AttributeToRust(g) = c
    BY DEF c
  <1>5. Compiles(g)
    BY <1>2, <1>3, <1>4 DEF Compiles
  <1>6. d.min # Open => Declared(c, d)
    BY <1>2, <1>3 DEF Declared
  <1> QED
    BY <1>2, <1>4, <1>5, <1>6 DEF Converts

\* The bounds of a declared range.
LEMMA BoundsOf ==
  ASSUME NEW d \in Ranges
  PROVE  /\ d.min = Open \/ d.min \in I64_MIN .. I64_MAX
         /\ d.max = Open \/ d.max \in I64_MIN .. I64_MAX
         /\ d.min \in {Open} \cup Int /\ d.max \in {Open} \cup Int
         /\ d.min # Open /\ d.max # Open => d.min <= d.max
  BY Ranged, Words DEF Bounds

\* A range with an extension marker and no negative bound: u64.
LEMMA ConvertsExtensibleUnsigned ==
  ASSUME NEW d \in Ranges, d.extensible = TRUE,
         ~(d.min \in {Open, 0} /\ d.max \in {Open, I64_MAX}),
         d.min \in {Open} \cup Nat, d.max \in {Open} \cup Nat
  PROVE  Converts(d)
  <1> DEFINE g == Rust(U64, d.min, d.max, d.extensible)
  <1>1. IntegerToRust(d.min, d.max, d.extensible) = g
    BY ToRustUnsigned
  <1>2. ParsedToRust(d) = g
    <2>1. ~(d.min = 0 /\ d.max = Open) /\ ~(d.min = Open /\ d.max = I64_MAX)
      OBVIOUS
    <2> HIDE DEF g
    <2> QED
      BY <1>1, <2>1 DEF ParsedToRust
  <1>3. g.type = U64
    BY DEF Rust
  <1>4. /\ U64 \in Types /\ TypeMin(U64) = 0 /\ TypeMax(U64) = 2 * I64_MAX + 1
        /\ I64_MAX \in Nat /\ I64_MIN < 0 /\ I64_MIN \in Int
    BY WordTypes, Given DEF Types
  <1>5. CASE d.max = Open
    <2>1. d.min \in 1 .. I64_MAX /\ d.min \in I64_MIN .. I64_MAX /\ d.min # 0 /\ d.min # Open
      BY <1>4, <1>5, BoundsOf, Given
    <2>2. AttributeToRust(g) = IntegerToRust(d.min, I64_MAX, d.extensible)
      BY <1>5, <2>1, MacroOfMin
    <2>3. IntegerToRust(d.min, I64_MAX, d.extensible) = Rust(U64, d.min, I64_MAX, d.extensible)
      BY <1>4, <2>1, ToRustUnsigned
    <2>4. I64_MAX \in d.min .. I64_MAX /\ 0 <= d.min /\ I64_MAX <= 2 * I64_MAX + 1
      BY <1>4, <2>1
    <2>5. OrElse(d.max, I64_MAX) = I64_MAX
      BY <1>5, Given
    <2> HIDE DEF g
    <2> QED
      BY <1>2, <1>3, <1>4, <2>1, <2>2, <2>3, <2>4, <2>5, ConvertsBoth
  <1>6. CASE d.max # Open /\ d.min # Open
    <2>1. d.min \in 0 .. I64_MAX /\ d.min \in I64_MIN .. I64_MAX /\ d.max \in d.min .. I64_MAX
          /\ d.max \in I64_MIN .. I64_MAX /\ d.max \in Int
      BY <1>4, <1>6, BoundsOf, Given
    <2>2. AsI64(d.max) = d.max
      BY <2>1, Casts
    <2>3. AttributeToRust(g) = IntegerToRust(d.min, d.max, d.extensible)
      BY <2>1, <2>2, MacroOfBoth
    <2>4. 0 <= d.min /\ d.max <= 2 * I64_MAX + 1
      BY <1>4, <2>1
    <2>5. OrElse(d.max, I64_MAX) = d.max
      BY <2>1, Given
    <2>6. AttributeToRust(ParsedToRust(d)) = Rust(U64, d.min, d.max, d.extensible)
      BY <1>1, <1>2, <2>3
    <2> HIDE DEF g
    <2> QED
      BY <1>2, <1>3, <1>4, <2>1, <2>4, <2>5, <2>6, ConvertsBoth
  <1>7. CASE d.max # Open /\ d.min = Open /\ d.max # 0
    <2>1. d.max \in 1 .. I64_MAX /\ d.max \in I64_MIN .. I64_MAX /\ d.max # I64_MAX
      BY <1>4, <1>7, BoundsOf, Given
    <2>2. AttributeToRust(g) = IntegerToRust(0, d.max, d.extensible)
      BY <1>7, <2>1, MacroOfMax
    <2>3. IntegerToRust(0, d.max, d.extensible) = Rust(U64, 0, d.max, d.extensible)
      BY <1>7, <2>1, ToRustUnsigned
    <2>4. /\ 0 \in I64_MIN .. I64_MAX /\ d.max \in 0 .. I64_MAX
          /\ 0 <= 0 /\ d.max <= 2 * I64_MAX + 1
      BY <1>4, <2>1
    <2>5. AttributeToRust(ParsedToRust(d)) = Rust(U64, 0, d.max, d.extensible)
      BY <1>2, <2>2, <2>3
    <2> HIDE DEF g
    <2> QED
      BY <1>2, <1>3, <1>4, <1>7, <2>4, <2>5, ConvertsBoth
  <1>8. CASE d.min = Open /\ d.max = 0
    <2>1. 0 \in I64_MIN .. I64_MAX /\ ~(0 > 0) /\ 0 \in Int
      BY <1>4
    <2>2. AttributeToRust(g) = IntegerToRust(I64_MIN, 0, d.extensible)
      BY <1>8, <2>1, MacroOfMax
    <2>3. IntegerToRust(I64_MIN, 0, d.extensible)
            = Rust(I64, OrElse(I64_MIN, I64_MIN), OrElse(0, I64_MAX), d.extensible)
      <3>1. I64_MIN \in {Open} \cup Int /\ 0 \in {Open} \cup Int
        BY <1>4
      <3> QED
        BY <1>4, <3>1, ToRustSigned
    <2>4. AttributeToRust(g).type = I64
      BY <2>2, <2>3 DEF Rust
    <2>5. I64 # U64
      BY DEF I64, U64, Type
    <2> HIDE DEF g
    <2> QED
      BY <1>2, <1>3, <1>4, <1>8, <2>4, <2>5 DEF Converts, Compiles
  <1> QED
    BY <1>5, <1>6, <1>7, <1>8

\* A range with an extension marker and a negative bound: i64.
LEMMA ConvertsExtensibleSigned ==
  ASSUME NEW d \in Ranges, d.extensible = TRUE,
         (d.min \in Int /\ d.min < 0) \/ (d.max \in Int /\ d.max < 0)
  PROVE  Converts(d)
  <1> DEFINE lower == OrElse(d.min, I64_MIN)
             upper == OrElse(d.max, I64_MAX)
             g == Rust(I64, lower, upper, d.extensible)
  <1>1. IntegerToRust(d.min, d.max, d.extensible) = g
    BY BoundsOf, ToRustSigned
  <1>2. ParsedToRust(d) = g
    <2>1. ~(d.min = 0 /\ d.max = Open) /\ ~(d.min = Open /\ d.max = I64_MAX)
      BY Given
    <2> HIDE DEF g
    <2> QED
      BY <1>1, <2>1 DEF ParsedToRust
  <1>3. /\ lower \in I64_MIN .. I64_MAX /\ lower < 0 /\ upper \in lower .. I64_MAX
        /\ upper \in Int /\ lower \in Int /\ upper \in I64_MIN .. I64_MAX
        /\ d.min # Open => d.min = lower
    BY BoundsOf, Given
  <1>4. upper = OrElse(d.max, I64_MAX)
    OBVIOUS
  <1> HIDE DEF lower, upper
  <1>5. AsI64(upper) = upper
    BY <1>3, Casts
  <1>6. AttributeToRust(g) = IntegerToRust(lower, upper, d.extensible)
    BY <1>3, <1>5, MacroOfBoth
  <1>7. IntegerToRust(lower, upper, d.extensible)
          = Rust(I64, OrElse(lower, I64_MIN), OrElse(upper, I64_MAX), d.extensible)
    BY <1>3, ToRustSigned
  <1>8. OrElse(lower, I64_MIN) = lower /\ OrElse(upper, I64_MAX) = upper
    BY <1>3, Given
  <1>9. AttributeToRust(ParsedToRust(d)) = Rust(I64, lower, upper, d.extensible)
    BY <1>2, <1>6, <1>7, <1>8
  <1>10. ParsedToRust(d).type = I64
    BY <1>2 DEF Rust
  <1>11. I64 \in Types /\ TypeMin(I64) <= lower /\ upper <= TypeMax(I64)
    BY <1>3, WordTypes, Given DEF Types
  <1> QED
    BY <1>3, <1>4, <1>9, <1>10, <1>11, ConvertsBoth

\* A range without an extension marker and from 0 on: the smallest unsigned type.
LEMMA ConvertsFixedUnsigned ==
  ASSUME NEW d \in Ranges, d.extensible = FALSE,
         ~(d.min \in {Open, 0} /\ d.max \in {Open, I64_MAX}),
         d.min \in {Open} \cup Nat
  PROVE  Converts(d)
  <1> DEFINE lower == OrElse(d.min, 0)
             upper == OrElse(d.max, I64_MAX)
             t == Holding("u", lower, AsU64(upper))
             g == Rust(t, lower, AsU64(upper), d.extensible)
  <1>1. /\ lower \in 0 .. I64_MAX /\ lower \in I64_MIN .. I64_MAX /\ lower \in Int
        /\ upper \in I64_MIN .. I64_MAX /\ upper \in Int
        /\ d.min # Open => d.min = lower /\ lower <= upper
        /\ lower = 0 \/ lower <= upper
        /\ ~(lower = 0 /\ upper = I64_MAX)
        /\ I64_MAX \in Nat /\ I64_MIN = -(I64_MAX + 1)
    BY BoundsOf, Given
  <1>2. IntegerToRust(d.min, d.max, d.extensible) = g
    <2>1. lower >= 0
      BY <1>1
    <2>2. d.min \in {Open} \cup Int /\ d.max \in {Open} \cup Int
      BY BoundsOf
    <2>3. lower = OrElse(d.min, 0) /\ upper = OrElse(d.max, I64_MAX)
      OBVIOUS
    <2> HIDE DEF lower, upper
    <2> QED
      BY <2>1, <2>2, <2>3, ToRustFixedUnsigned
  <1>3. ParsedToRust(d) = g
    <2>1. ~(d.min = 0 /\ d.max = Open) /\ ~(d.min = Open /\ d.max = I64_MAX)
      OBVIOUS
    <2> HIDE DEF g
    <2> QED
      BY <1>2, <2>1 DEF ParsedToRust
  <1>4. upper = OrElse(d.max, I64_MAX)
    OBVIOUS
  <1> HIDE DEF lower, upper
  <1>5. /\ AsI64(AsU64(upper)) = upper
        /\ AsU64(upper) = IF upper >= 0 THEN upper ELSE upper + 2 * I64_MAX + 2
    BY <1>1, Casts
  <1>6. AsU64(upper) \in 0 .. 2 * I64_MAX + 1
    BY <1>1, <1>5
  <1>7. t \in Types /\ t.sign = "u" /\ AsU64(upper) <= TypeMax(t)
    BY <1>6, HoldsUnsigned
  <1> HIDE DEF t
  <1>8. AttributeToRust(g) = IntegerToRust(lower, upper, d.extensible)
    BY <1>1, <1>5, <1>6, MacroOfBoth
  <1>9. lower # Open /\ upper # Open /\ OrElse(lower, 0) = lower /\ OrElse(upper, I64_MAX) = upper
    BY <1>1, Given
  <1>10. IntegerToRust(lower, upper, d.extensible) = g
    <2>1. lower >= 0 /\ lower \in {Open} \cup Int /\ upper \in {Open} \cup Int
      BY <1>1
    <2>2. ~(lower \in {Open, 0} /\ upper \in {Open, I64_MAX})
      BY <1>1, <1>9
    <2> QED
      BY <1>9, <2>1, <2>2, ToRustFixedUnsigned DEF t
  <1>11. g.type = t /\ g.max = AsU64(upper)
    BY DEF Rust
  <1> HIDE DEF g
  <1>12. AttributeToRust(ParsedToRust(d)) = g /\ ParsedToRust(d).type = t
    BY <1>3, <1>8, <1>10, <1>11
  <1>13. TypeMin(t) = 0
    <2>1. PICK s \in {"u", "i"}, o \in OctetCounts : t = Type(s, o)
      BY <1>7 DEF Types
    <2>2. s = "u"
      BY <1>7, <2>1 DEF Type
    <2> QED
      BY <2>1, <2>2, TypeLimits
  <1>14. CASE upper >= 0
    <2>1. AsU64(upper) = upper /\ upper \in lower .. I64_MAX
      BY <1>1, <1>5, <1>14
    <2>2. TypeMin(t) <= lower /\ upper <= TypeMax(t)
      BY <1>1, <1>7, <1>13, <2>1
    <2>3. AttributeToRust(ParsedToRust(d)) = Rust(t, lower, upper, d.extensible)
      BY <1>12, <2>1 DEF g
    <2> QED
      BY <1>1, <1>4, <1>7, <1>12, <2>1, <2>2, <2>3, ConvertsBoth
  <1>15. CASE upper < 0
    <2>1. d.min = Open
      BY <1>1, <1>15
    <2>2. AsU64(upper) \in Int /\ AsU64(upper) > I64_MAX
      BY <1>1, <1>5, <1>15
    <2>3. ~(OrElse(AttributeToRust(ParsedToRust(d)).max, 0) <= I64_MAX)
      BY <1>1, <1>11, <1>12, <2>2, Given
    <2> QED
      BY <1>7, <1>12, <2>1, <2>3 DEF Converts, Compiles
  <1> QED
    BY <1>1, <1>14, <1>15

\* A range without an extension marker and from below 0: the smallest signed type.
LEMMA ConvertsFixedSigned ==
  ASSUME NEW d \in Ranges, d.extensible = FALSE, d.min \in Int, d.min < 0
  PROVE  Converts(d)
  <1> DEFINE upper == OrElse(d.max, I64_MAX)
             t == Holding("i", d.min, upper)
             g == Rust(t, d.min, upper, d.extensible)
  <1>1. /\ d.min \in I64_MIN .. I64_MAX /\ d.min # Open /\ d.min # 0
        /\ upper \in d.min .. I64_MAX /\ upper \in I64_MIN .. I64_MAX /\ upper \in Int
        /\ OrElse(d.min, 0) = d.min
    BY BoundsOf, Given
  <1>2. IntegerToRust(d.min, d.max, d.extensible) = g
    BY <1>1, BoundsOf, ToRustFixedSigned
  <1>3. ParsedToRust(d) = g
    <2> HIDE DEF g
    <2> QED
      BY <1>1, <1>2 DEF ParsedToRust
  <1>4. upper = OrElse(d.max, I64_MAX)
    OBVIOUS
  <1> HIDE DEF upper
  <1>5. AsI64(upper) = upper
    BY <1>1, Casts
  <1>6. t \in Types /\ TypeMin(t) <= d.min /\ upper <= TypeMax(t)
    BY <1>1, HoldsSigned
  <1> HIDE DEF t
  <1>7. AttributeToRust(g) = IntegerToRust(d.min, upper, d.extensible)
    BY <1>1, <1>5, MacroOfBoth
  <1>8. OrElse(upper, I64_MAX) = upper /\ upper # Open
    BY <1>1, Given
  <1>9. IntegerToRust(d.min, upper, d.extensible) = g
    BY <1>1, <1>8, ToRustFixedSigned DEF t
  <1>10. g.type = t
    BY DEF Rust
  <1>11. AttributeToRust(ParsedToRust(d)) = Rust(t, d.min, upper, d.extensible)
    BY <1>3, <1>7, <1>9
  <1>12. ParsedToRust(d).type = t
    BY <1>3, <1>10
  <1> QED
    BY <1>1, <1>4, <1>6, <1>11, <1>12, ConvertsBoth

\* Whatever is declared: if generated code compiles, its type holds its range, and it
\* compiles and has the declared range if there is a lower bound.
LEMMA AllConvert ==
  ASSUME NEW d \in Ranges
  PROVE  Converts(d)
  <1>1. d.extensible \in {TRUE, FALSE}
    BY Ranged
  <1>2. d.min \in {Open} \cup Int /\ d.max \in {Open} \cup Int
    BY BoundsOf
  <1>3. CASE d.min \in {Open, 0} /\ d.max \in {Open, I64_MAX}
    BY <1>3, ConvertsUnbounded
  <1>4. CASE ~(d.min \in {Open, 0} /\ d.max \in {Open, I64_MAX}) /\ d.extensible = TRUE
    <2>1. CASE d.min \in {Open} \cup Nat /\ d.max \in {Open} \cup Nat
      BY <1>4, <2>1, ConvertsExtensibleUnsigned
    <2>2. CASE (d.min \in Int /\ d.min < 0) \/ (d.max \in Int /\ d.max < 0)
      BY <1>4, <2>2, ConvertsExtensibleSigned
    <2> QED
      BY <1>2, <2>1, <2>2
  <1>5. CASE ~(d.min \in {Open, 0} /\ d.max \in {Open, I64_MAX}) /\ d.extensible = FALSE
    <2>1. CASE d.min \in {Open} \cup Nat
      BY <1>5, <2>1, ConvertsFixedUnsigned
    <2>2. CASE d.min \in Int /\ d.min < 0
      BY <1>5, <2>2, ConvertsFixedSigned
    <2> QED
      BY <1>2, <2>1, <2>2
  <1> QED
    BY <1>1, <1>3, <1>4, <1>5

-----------------------------------------------------------------------------
(* Numbers as bits and back *)

\* The bits that a number needs.
LEMMA BitLengthOf ==
  ASSUME NEW n \in Nat, n < 2^WordBits
  PROVE  /\ BitLength(n) \in 0 .. WordBits
         /\ n < 2^BitLength(n)
         /\ BitLength(n) > 0 => n >= 2^(BitLength(n) - 1)
  <1> DEFINE Enough == {w \in Nat : n < 2^w}
             Fits(w) == n < 2^w /\ (w > 0 => n >= 2^(w - 1))
  <1>1. WordBits \in Enough
    BY Words
  <1>2. PICK x \in Enough : \A y \in Enough : x <= y
    <2> HIDE DEF Enough
    <2>1. Enough \subseteq Nat
      BY DEF Enough
    <2> QED
      BY <1>1, <2>1, LeastElement
  <1>3. x \in 0 .. WordBits
    BY <1>1, <1>2
  <1>4. ASSUME x > 0
        PROVE  n >= 2^(x - 1)
    <2>1. x - 1 \in Nat /\ ~(x <= x - 1)
      BY <1>3, <1>4
    <2>2. x - 1 \notin Enough
      BY <1>2, <2>1
    <2>3. 2^(x - 1) \in Nat
      BY <2>1, Powers
    <2> QED
      BY <2>1, <2>2, <2>3
  <1>5. Fits(x)
    BY <1>2, <1>4
  <1> HIDE DEF Fits
  <1>6. \E w \in 0 .. WordBits : Fits(w)
    BY <1>3, <1>5
  <1>7. BitLength(n) = CHOOSE w \in 0 .. WordBits : Fits(w)
    BY DEF BitLength, Fits
  <1>8. BitLength(n) \in 0 .. WordBits /\ Fits(BitLength(n))
    BY <1>6, <1>7
  <1> QED
    BY <1>8 DEF Fits

\* A number below a power of two comes back from that many bits.
LEMMA NumberFits ==
  ASSUME NEW n \in Nat, NEW width \in Nat, n < 2^width
  PROVE  Number(Bits(n, width)) = n
  <1>1. 2^width \in Nat \ {0}
    BY Powers
  <1>2. 0 \in Int /\ n \in Int /\ n \in 0 .. 2^width - 1 /\ n = 0 * 2^width + n
    BY <1>1
  <1>3. n % 2^width = n
    BY <1>1, <1>2, OnlyQuotient
  <1> QED
    BY <1>3, NumberOfBits

\* The bits of two sequences put together.
LEMMA Concatenated ==
  ASSUME NEW s \in Seq({0, 1}), NEW t \in Seq({0, 1})
  PROVE  /\ s \o t \in Seq({0, 1})
         /\ Len(s) \in Nat /\ Len(t) \in Nat /\ Len(s \o t) = Len(s) + Len(t)
         /\ \A i \in 1 .. Len(s) : (s \o t)[i] = s[i]
         /\ \A i \in 1 .. Len(t) : (s \o t)[Len(s) + i] = t[i]
  <1>1. /\ s \o t \in Seq({0, 1})
        /\ Len(s) \in Nat /\ Len(t) \in Nat /\ Len(s \o t) = Len(s) + Len(t)
        /\ \A i \in 1 .. Len(s) + Len(t) :
             (s \o t)[i] = IF i <= Len(s) THEN s[i] ELSE t[i - Len(s)]
    BY ConcatProperties, LenProperties
  <1>2. \A i \in 1 .. Len(t) : Len(s) + i \in 1 .. Len(s) + Len(t) /\ (Len(s) + i) - Len(s) = i
                               /\ ~(Len(s) + i <= Len(s))
    BY <1>1
  <1>3. \A i \in 1 .. Len(s) : i \in 1 .. Len(s) + Len(t) /\ i <= Len(s)
    BY <1>1
  <1> QED
    BY <1>1, <1>2, <1>3

\* What follows a prefix.
LEMMA Following ==
  ASSUME NEW s \in Seq({0, 1}), NEW t \in Seq({0, 1})
  PROVE  SubSeq(s \o t, Len(s) + 1, Len(s) + Len(t)) = t
  <1> DEFINE u == SubSeq(s \o t, Len(s) + 1, Len(s) + Len(t))
             m == Len(s) + 1
             n == Len(s) + Len(t)
  <1>1. Len(s) \in Nat /\ Len(t) \in Nat /\ s \o t \in Seq({0, 1}) /\ Len(s \o t) = n
    BY Concatenated
  <1>2. \A i \in m .. n : (s \o t)[i] \in {0, 1}
    <2>1. \A i \in m .. n : i \in 1 .. Len(s \o t)
      BY <1>1
    <2> QED
      BY <1>1, <2>1, ElementOfSeq
  <1>3. m \in Int /\ n \in Int
    BY <1>1
  <1> HIDE DEF m, n
  <1>4. /\ SubSeq(s \o t, m, n) \in Seq({0, 1})
        /\ Len(SubSeq(s \o t, m, n)) = IF m <= n THEN n - m + 1 ELSE 0
        /\ \A i \in 1 .. n - m + 1 : SubSeq(s \o t, m, n)[i] = (s \o t)[m + i - 1]
    <2> DEFINE r == s \o t
               S == {0, 1}
    <2>1. \A i \in m .. n : r[i] \in S
      BY <1>2
    <2> HIDE DEF r, S
    <2>2. /\ SubSeq(r, m, n) \in Seq(S)
          /\ Len(SubSeq(r, m, n)) = IF m <= n THEN n - m + 1 ELSE 0
          /\ \A i \in 1 .. n - m + 1 : SubSeq(r, m, n)[i] = r[m + i - 1]
      BY <1>3, <2>1, SubSeqProperties
    <2> QED
      BY <2>2 DEF r, S
  <1>5. (n - m) + 1 = Len(t) /\ (m <= n <=> Len(t) > 0)
    BY <1>1 DEF m, n
  <1>6. u \in Seq({0, 1}) /\ Len(u) = Len(t)
    BY <1>1, <1>4, <1>5 DEF m, n
  <1>7. ASSUME NEW i \in 1 .. Len(t)
        PROVE  u[i] = t[i]
    <2>1. u[i] = (s \o t)[m + i - 1]
      BY <1>4, <1>5 DEF m, n
    <2>2. m + i - 1 = Len(s) + i
      BY <1>1 DEF m
    <2> QED
      BY <2>1, <2>2, Concatenated
  <1> HIDE DEF u
  <1>8. u = t
    BY <1>6, <1>7, SeqEqual
  <1> QED
    BY <1>8 DEF u

\* What comes before the rest.
LEMMA Preceding ==
  ASSUME NEW s \in Seq({0, 1}), NEW t \in Seq({0, 1}), NEW m \in 1 .. Len(s),
         NEW n \in 1 .. Len(s)
  PROVE  SubSeq(s \o t, m, n) = SubSeq(s, m, n)
  BY SubSeqOfConcat1

\* A bit in front.
LEMMA BehindBit ==
  ASSUME NEW b, b = 0 \/ b = 1, NEW t \in Seq({0, 1})
  PROVE  /\ <<b>> \o t \in Seq({0, 1})
         /\ (<<b>> \o t)[1] = b
         /\ Len(<<b>> \o t) = 1 + Len(t) /\ Len(t) \in Nat
         /\ Behind(<<b>> \o t, 1) = t
         /\ \A i \in 1 .. Len(t) : (<<b>> \o t)[1 + i] = t[i]
  <1>1. <<b>> \in Seq({0, 1}) /\ Len(<<b>>) = 1 /\ <<b>>[1] = b
    OBVIOUS
  <1>2. /\ <<b>> \o t \in Seq({0, 1}) /\ (<<b>> \o t)[1] = b
        /\ Len(<<b>> \o t) = 1 + Len(t) /\ Len(t) \in Nat
        /\ \A i \in 1 .. Len(t) : (<<b>> \o t)[1 + i] = t[i]
    BY <1>1, Concatenated
  <1>3. SubSeq(<<b>> \o t, 1 + 1, 1 + Len(t)) = t
    BY <1>1, Following
  <1> QED
    BY <1>2, <1>3 DEF Behind

\* The length in front of octets.
LEMMA ShortLengths ==
  ASSUME NEW octets \in 0 .. 8
  PROVE  /\ ShortLength(octets) \in Seq({0, 1}) /\ Len(ShortLength(octets)) = 8
         /\ Number(SubSeq(ShortLength(octets), 2, 8)) = octets
  <1> DEFINE width == 7
             s == ShortLength(octets)
             bits == Bits(octets, width)
  <1>1. octets \in Nat /\ width \in Nat /\ width = 7 /\ octets < 2^width
    <2>1. 2^7 = 128
      BY SMT
    <2> QED
      BY <2>1
  <1>2. s = <<0>> \o bits
    BY DEF ShortLength
  <1> HIDE DEF width
  <1>3. bits \in Seq({0, 1}) /\ Len(bits) = width /\ Number(bits) = octets
    BY <1>1, BitsType, NumberFits
  <1> HIDE DEF s, bits
  <1>4. /\ <<0>> \o bits \in Seq({0, 1}) /\ Len(<<0>> \o bits) = 1 + Len(bits)
        /\ Behind(<<0>> \o bits, 1) = bits
    BY <1>3, BehindBit
  <1>5. s \in Seq({0, 1}) /\ Len(s) = 8 /\ Behind(s, 1) = bits
    BY <1>1, <1>2, <1>3, <1>4
  <1>6. SubSeq(s, 2, 8) = bits
    BY <1>5 DEF Behind
  <1> QED
    BY <1>3, <1>5, <1>6 DEF s

\* The octets of a number behind their length.
LEMMA OctetsArrive ==
  ASSUME NEW octets \in 0 .. 8, NEW n \in Nat
  PROVE  LET width == octets * OctetBits
             bits == ShortLength(octets) \o Bits(n, width)
         IN  /\ width \in Nat
             /\ bits \in Seq({0, 1})
             /\ ReadOctets(bits) = Bits(n, width)
             /\ Number(ReadOctets(bits)) = n % 2^width
  <1> DEFINE width == octets * OctetBits
             s == ShortLength(octets)
             bits == s \o Bits(n, width)
  <1>1. width \in Nat /\ OctetBits * octets = width
    BY NumbersAssumption
  <1> HIDE DEF width
  <1>2. Bits(n, width) \in Seq({0, 1}) /\ Len(Bits(n, width)) = width
    BY <1>1, BitsType
  <1>3. s \in Seq({0, 1}) /\ Len(s) = 8 /\ Number(SubSeq(s, 2, 8)) = octets
    BY ShortLengths
  <1> HIDE DEF s
  <1>4. bits \in Seq({0, 1})
    BY <1>2, <1>3, Concatenated
  <1>5. SubSeq(bits, 2, 8) = SubSeq(s, 2, 8)
    <2>1. 2 \in 1 .. Len(s) /\ 8 \in 1 .. Len(s)
      BY <1>3
    <2> QED
      BY <1>2, <1>3, <2>1, Preceding
  <1>6. SubSeq(bits, 9, 8 + width) = Bits(n, width)
    <2>1. SubSeq(bits, Len(s) + 1, Len(s) + Len(Bits(n, width))) = Bits(n, width)
      BY <1>2, <1>3, Following
    <2> HIDE DEF bits
    <2> QED
      BY <1>1, <1>2, <1>3, <2>1
  <1> HIDE DEF bits
  <1>7. ReadOctets(bits) = Bits(n, width)
    <2>1. ReadOctets(bits) = SubSeq(bits, 9, 8 + OctetBits * octets)
      BY <1>3, <1>5 DEF ReadOctets
    <2> QED
      BY <1>1, <1>6, <2>1
  <1>8. Number(ReadOctets(bits)) = n % 2^width
    BY <1>1, <1>7, NumberOfBits
  <1> QED
    BY <1>1, <1>4, <1>7, <1>8 DEF bits, s, width

-----------------------------------------------------------------------------
(* Indexes of variants *)

\* WriteVariant's bits of an index, and IndexRead of bits, of a declaration d.
IndexBits(d, index) ==
    LET extended == index >= d.std
        n == index - d.std
    IN  (IF d.extensible THEN <<IF extended THEN 1 ELSE 0>> ELSE <<>>) \o
        (IF ~extended THEN Bits(index, BitLength(d.std - 1))
         ELSE IF n >= SMALL_NON_NEGATIVE_NUMBER THEN <<1>> \o NonNegative(n)
         ELSE <<0>> \o Bits(n, BitLength(SMALL_NON_NEGATIVE_NUMBER - 1)))

IndexIn(d, bits) ==
    IF d.extensible /\ bits[1] = 1
    THEN d.std + (IF bits[2] = 1 THEN Number(ReadOctets(Behind(bits, 2)))
                  ELSE Number(SubSeq(bits, 3, 2 + BitLength(SMALL_NON_NEGATIVE_NUMBER - 1))))
    ELSE Number(IF d.extensible THEN Behind(bits, 1) ELSE bits)

\* What a schema may say of an ENUMERATED or CHOICE.
LEMMA VariantTypes ==
  ASSUME NEW d \in Variants
  PROVE  /\ d.std \in Nat /\ d.count \in Nat /\ d.known \in Nat
         /\ 1 <= d.std /\ d.std <= d.known /\ d.known <= d.count /\ d.count <= 2^WordBits
         /\ d.extensible \in BOOLEAN
         /\ d.extensible \/ d.std = d.count
  <1>1. d \in [std : Nat, count : 1 .. 2^WordBits, extensible : BOOLEAN, known : Nat]
    BY NumbersAssumption
  <1>2. d.std \in 1 .. d.count /\ d.known \in d.std .. d.count
    BY NumbersAssumption
  <1>3. d.extensible \/ (d.std = d.count /\ d.known = d.count)
    BY NumbersAssumption
  <1> QED
    BY <1>1, <1>2, <1>3

\* An index up to top comes back from the bits that top needs.
LEMMA IndexFits ==
  ASSUME NEW top \in Nat, top < 2^WordBits, NEW n \in 0 .. top
  PROVE  /\ BitLength(top) \in Nat
         /\ Bits(n, BitLength(top)) \in Seq({0, 1})
         /\ Len(Bits(n, BitLength(top))) = BitLength(top)
         /\ Number(Bits(n, BitLength(top))) = n
  <1>1. BitLength(top) \in Nat /\ top < 2^BitLength(top)
    BY BitLengthOf
  <1>2. n \in Nat /\ 2^BitLength(top) \in Nat
    BY <1>1, Powers
  <1>3. n < 2^BitLength(top)
    BY <1>1, <1>2
  <1> QED
    BY <1>1, <1>2, <1>3, BitsType, NumberFits

\* The octets that a number needs hold it.
LEMMA NonNegativeArrives ==
  ASSUME NEW n \in Nat, n < 2^WordBits
  PROVE  NonNegative(n) \in Seq({0, 1}) /\ Number(ReadOctets(NonNegative(n))) = n
  <1> DEFINE length == BitLength(n)
             zeros == LeadingZeros(n)
             octets == Octets - zeros \div OctetBits
             width == octets * OctetBits
  <1>1. length \in 0 .. WordBits /\ n < 2^length
    BY BitLengthOf
  <1>2. OctetBits \in Nat \ {0} /\ WordBits = 8 * OctetBits /\ Octets = 8
    BY NumbersAssumption DEF WordBits, Octets
  <1>3. zeros = WordBits - length
    BY DEF LeadingZeros
  <1> HIDE DEF length, zeros
  <1>4. zeros \in 0 .. 8 * OctetBits
    BY <1>1, <1>2, <1>3
  <1> DEFINE q == zeros \div OctetBits
  <1>5. q \in Int /\ q * OctetBits <= zeros /\ zeros < q * OctetBits + OctetBits
    BY <1>2, <1>4, Quotient
  <1> HIDE DEF q
  <1>6. q \in 0 .. 8
    BY <1>2, <1>4, <1>5
  <1>7. octets \in 0 .. 8 /\ width \in Nat /\ length <= width
    <2>1. octets = 8 - q
      BY <1>2 DEF q
    <2>2. (8 - q) * OctetBits = 8 * OctetBits - q * OctetBits
      BY <1>2, <1>5
    <2>3. q * OctetBits \in Int
      BY <1>2, <1>5
    <2>4. width = 8 * OctetBits - q * OctetBits
      BY <2>1, <2>2
    <2> HIDE DEF width, octets
    <2> QED
      BY <1>1, <1>2, <1>3, <1>5, <1>6, <2>1, <2>3, <2>4
  <1>8. NonNegative(n) = ShortLength(octets) \o Bits(n, width)
    BY DEF NonNegative, zeros
  <1> HIDE DEF octets
  <1>9. NonNegative(n) \in Seq({0, 1}) /\ Number(ReadOctets(NonNegative(n))) = n % 2^width
    BY <1>7, <1>8, OctetsArrive
  <1>10. 2^length <= 2^width /\ 2^length \in Nat /\ 2^width \in Nat \ {0}
    BY <1>1, <1>7, PowersGrow, Powers
  <1>11. n % 2^width = n
    <2> DEFINE p == 2^width
    <2>1. p \in Nat \ {0} /\ n < p
      BY <1>1, <1>10
    <2> HIDE DEF p
    <2>2. 0 \in Int /\ n \in Int /\ n \in 0 .. p - 1 /\ n = 0 * p + n
      BY <2>1
    <2>3. n % p = n
      BY <2>1, <2>2, OnlyQuotient
    <2> QED
      BY <2>3 DEF p
  <1> QED
    BY <1>9, <1>11

\* A set bit and another one in front.
LEMMA BehindTwoBits ==
  ASSUME NEW b, b = 0 \/ b = 1, NEW t \in Seq({0, 1}),
         NEW bits, bits = << 1 >> \o (<<b>> \o t)
  PROVE  /\ bits \in Seq({0, 1})
         /\ bits[1] = 1 /\ bits[2] = b
         /\ Behind(bits, 2) = t
         /\ SubSeq(bits, 3, 2 + Len(t)) = t
  <1> DEFINE u == <<b>> \o t
             s == <<1, b>>
  <1>1. /\ u \in Seq({0, 1}) /\ u[1] = b /\ Len(u) = 1 + Len(t) /\ Len(t) \in Nat
    BY BehindBit
  <1>0. bits = <<1>> \o u
    OBVIOUS
  <1> HIDE DEF u
  <1>2. /\ bits \in Seq({0, 1}) /\ bits[1] = 1 /\ Len(bits) = 1 + Len(u)
        /\ \A i \in 1 .. Len(u) : bits[1 + i] = u[i]
    BY <1>0, <1>1, BehindBit
  <1>3. bits[2] = b
    <2>1. 1 \in 1 .. Len(u)
      BY <1>1
    <2>2. bits[1 + 1] = u[1]
      BY <1>2, <2>1
    <2> QED
      BY <1>1, <2>2
  <1>4. bits = s \o t
    BY <1>0, <1>1 DEF u
  <1>5. s \in Seq({0, 1}) /\ Len(s) = 2
    OBVIOUS
  <1>6. SubSeq(s \o t, 3, 2 + Len(t)) = t
    <2> HIDE DEF s
    <2>1. SubSeq(s \o t, Len(s) + 1, Len(s) + Len(t)) = t
      BY <1>5, Following
    <2>2. Len(s) + 1 = 3
      BY <1>5
    <2> QED
      BY <1>5, <2>1, <2>2
  <1> HIDE DEF s
  <1>7. SubSeq(bits, 3, 2 + Len(t)) = t
    BY <1>4, <1>6
  <1>8. Behind(bits, 2) = t
    <2>1. Len(bits) = 2 + Len(t)
      BY <1>1, <1>2
    <2> QED
      BY <1>7, <2>1 DEF Behind
  <1> QED
    BY <1>2, <1>3, <1>7, <1>8

\* An index is read as it was written, whatever form it has.
LEMMA IndexArrives ==
  ASSUME NEW d \in Variants, NEW index \in 0 .. d.count - 1
  PROVE  /\ IndexBits(d, index) \in Seq({0, 1})
         /\ IndexIn(d, IndexBits(d, index)) = index
  <1> DEFINE bits == IndexBits(d, index)
             n == index - d.std
  <1>1. /\ d.std \in Nat /\ d.count \in Nat /\ 1 <= d.std /\ d.std <= d.count
        /\ d.count <= 2^WordBits /\ d.extensible \in BOOLEAN
        /\ d.extensible \/ d.std = d.count
        /\ index \in Nat
    BY VariantTypes
  <1>2. 2^WordBits \in Nat /\ 2^WordBits >= 256
    <2>1. 2^8 = 256 /\ 8 \in Nat
      BY SMT
    <2>2. 2^8 <= 2^WordBits
      BY Words, PowersGrow
    <2> QED
      BY <2>1, <2>2, Words, Powers
  <1>3. CASE index < d.std
    <2> DEFINE t == Bits(index, BitLength(d.std - 1))
    <2>1. t \in Seq({0, 1}) /\ Number(t) = index
      <3>1. d.std - 1 \in Nat /\ d.std - 1 < 2^WordBits /\ index \in 0 .. d.std - 1
        BY <1>1, <1>2, <1>3
      <3> QED
        BY <3>1, IndexFits
    <2>2. ~(index >= d.std)
      BY <1>1, <1>3
    <2> HIDE DEF t
    <2>3. CASE d.extensible
      <3>1. bits = <<0>> \o t
        BY <2>2, <2>3 DEF IndexBits, t
      <3>2. /\ <<0>> \o t \in Seq({0, 1}) /\ (<<0>> \o t)[1] = 0
            /\ Behind(<<0>> \o t, 1) = t
        BY <2>1, BehindBit
      <3> HIDE DEF bits
      <3>3. IndexIn(d, bits) = Number(t)
        BY <2>3, <3>1, <3>2 DEF IndexIn
      <3> QED
        BY <2>1, <3>1, <3>2, <3>3 DEF bits
    <2>4. CASE ~d.extensible
      <3>1. bits = <<>> \o t
        BY <2>2, <2>4 DEF IndexBits, t
      <3>2. <<>> \o t = t
        BY <2>1
      <3>3. IndexIn(d, bits) = Number(bits)
        BY <2>4 DEF IndexIn
      <3> QED
        BY <2>1, <3>1, <3>2, <3>3
    <2> QED
      BY <1>1, <2>3, <2>4
  <1>4. CASE index >= d.std
    <2>1. d.extensible /\ n \in Nat /\ n < 2^WordBits /\ d.std + n = index
      BY <1>1, <1>2, <1>4
    <2> HIDE DEF n
    <2>2. CASE n >= SMALL_NON_NEGATIVE_NUMBER
      <3> DEFINE t == NonNegative(n)
      <3>1. bits = <<1>> \o (<<1>> \o t)
        BY <1>4, <2>1, <2>2 DEF IndexBits, n
      <3>2. t \in Seq({0, 1}) /\ Number(ReadOctets(t)) = n
        BY <2>1, NonNegativeArrives
      <3> DEFINE one == 1
                 u == <<one>> \o (<<one>> \o t)
      <3>3. u \in Seq({0, 1}) /\ u[1] = 1 /\ u[2] = 1 /\ Behind(u, 2) = t
        <4>1. one = 1 /\ (one = 0 \/ one = 1)
          OBVIOUS
        <4> HIDE DEF one, t
        <4> QED
          BY <3>2, <4>1, BehindTwoBits
      <3> HIDE DEF u, bits
      <3>4. IndexIn(d, u) = d.std + n
        BY <2>1, <3>2, <3>3 DEF IndexIn
      <3> QED
        BY <2>1, <3>1, <3>3, <3>4 DEF u, bits, one
    <2>3. CASE ~(n >= SMALL_NON_NEGATIVE_NUMBER)
      <3> DEFINE top == SMALL_NON_NEGATIVE_NUMBER - 1
                 t == Bits(n, BitLength(top))
      <3>1. bits = <<1>> \o (<<0>> \o t)
        BY <1>4, <2>1, <2>3 DEF IndexBits, n
      <3>2. top \in Nat /\ top < 2^WordBits /\ n \in 0 .. top
        BY <1>2, <2>1, <2>3 DEF SMALL_NON_NEGATIVE_NUMBER
      <3> HIDE DEF top
      <3>3. t \in Seq({0, 1}) /\ Number(t) = n /\ Len(t) = BitLength(top)
        BY <3>2, IndexFits
      <3> HIDE DEF t
      <3> DEFINE u == <<1>> \o (<<0>> \o t)
      <3>4. u \in Seq({0, 1}) /\ u[1] = 1 /\ u[2] = 0 /\ SubSeq(u, 3, 2 + Len(t)) = t
        BY <3>3, BehindTwoBits
      <3> HIDE DEF u, bits
      <3>5. SubSeq(u, 3, 2 + BitLength(SMALL_NON_NEGATIVE_NUMBER - 1)) = t
        BY <3>3, <3>4 DEF top
      <3>6. IndexIn(d, u) = d.std + n
        <4>1. Number(SubSeq(u, 3, 2 + BitLength(SMALL_NON_NEGATIVE_NUMBER - 1))) = n
          BY <3>3, <3>5
        <4>2. d.extensible /\ u[1] = 1 /\ ~(u[2] = 1)
          BY <2>1, <3>4
        <4> QED
          BY <4>1, <4>2 DEF IndexIn
      <3> QED
        BY <2>1, <3>1, <3>4, <3>6 DEF u, bits
    <2> QED
      BY <2>2, <2>3
  <1> QED
    BY <1>1, <1>3, <1>4

-----------------------------------------------------------------------------
(* Numbers in 2's complement *)

\* The octets of a number have room for its sign.
LEMMA SignedWidth ==
  ASSUME NEW n \in I64_MIN .. I64_MAX
  PROVE  /\ SignedOctets(n) \in 1 .. 8
         /\ SignedOctets(n) * OctetBits - 1 \in Nat
         /\ SignedOctets(n) * OctetBits <= WordBits
         /\ -(2^(SignedOctets(n) * OctetBits - 1)) <= n
         /\ n < 2^(SignedOctets(n) * OctetBits - 1)
  <1> DEFINE amplitude == IF n < 0 THEN -(n + 1) ELSE n
             length == BitLength(amplitude)
             leading == LeadingZeros(amplitude)
             rest == leading - 1
             q == rest \div OctetBits
             octets == SignedOctets(n)
             width == octets * OctetBits
  <1>1. OctetBits \in Nat \ {0} /\ WordBits = 8 * OctetBits /\ Octets = 8
    BY NumbersAssumption DEF WordBits, Octets
  <1>2. /\ WordBits - 1 \in Nat /\ 2^(WordBits - 1) = I64_MAX + 1 /\ I64_MAX \in Nat
        /\ I64_MIN = -(I64_MAX + 1) /\ 2^WordBits = 2 * I64_MAX + 2
    <2>1. WordBits - 1 \in Nat
      BY Words
    <2>2. 2^(WordBits - 1) \in Nat
      BY <2>1, Powers
    <2> QED
      BY <2>1, <2>2, Words DEF I64_MAX
  <1>3. amplitude \in 0 .. I64_MAX /\ amplitude \in Nat /\ amplitude < 2^WordBits
    BY <1>2
  <1>4. n <= amplitude /\ -(n + 1) <= amplitude
    BY <1>2
  <1>5. octets = 8 - q
    BY <1>1 DEF SignedOctets
  <1> HIDE DEF amplitude, octets
  <1>6. /\ length \in 0 .. WordBits /\ amplitude < 2^length
        /\ length > 0 => amplitude >= 2^(length - 1)
    BY <1>3, BitLengthOf
  <1>7. leading = WordBits - length
    BY DEF LeadingZeros
  <1> HIDE DEF length, leading
  <1>8. length <= WordBits - 1
    <2>1. ASSUME length = WordBits
          PROVE  FALSE
      BY <1>1, <1>2, <1>3, <1>6, <2>1
    <2> QED
      BY <1>1, <1>6, <2>1
  <1>9. rest \in 0 .. 8 * OctetBits - 1 /\ length \in Nat /\ rest = (WordBits - length) - 1
    BY <1>1, <1>6, <1>7, <1>8
  <1> HIDE DEF rest
  <1>10. q \in Int /\ q * OctetBits <= rest /\ rest < q * OctetBits + OctetBits
    BY <1>1, <1>9, Quotient
  <1> HIDE DEF q
  <1>11. q \in 0 .. 7
    BY <1>1, <1>9, <1>10
  <1>12. width = 8 * OctetBits - q * OctetBits /\ q * OctetBits \in Nat
    BY <1>1, <1>5, <1>11
  <1> HIDE DEF width
  <1>13. width - 1 \in Nat /\ length <= width - 1 /\ width <= WordBits
    BY <1>1, <1>6, <1>9, <1>10, <1>12
  <1>14. 2^length <= 2^(width - 1) /\ 2^length \in Nat /\ 2^(width - 1) \in Nat
    BY <1>9, <1>13, PowersGrow, Powers
  <1>15. -(2^(width - 1)) <= n /\ n < 2^(width - 1)
    BY <1>3, <1>4, <1>6, <1>14
  <1>16. octets \in 1 .. 8
    BY <1>5, <1>11
  <1> QED
    BY <1>13, <1>15, <1>16 DEF width, octets

\* The remainder of a word is the number or what it is short of a power of two.
LEMMA SignedRemainder ==
  ASSUME NEW n \in Int, NEW h \in Nat \ {0}, NEW k \in Nat \ {0}, -h <= n, n < h,
         NEW u \in Nat, u = IF n >= 0 THEN n ELSE n + k * (2 * h)
  PROVE  /\ u % (2 * h) = IF n >= 0 THEN n ELSE n + 2 * h
         /\ (u \div h) % 2 = IF n >= 0 THEN 0 ELSE 1
  <1>1. 2 * h \in Nat \ {0} /\ u \in Int
    OBVIOUS
  <1>2. CASE n >= 0
    <2>1. 0 \in Int /\ n \in 0 .. (2 * h) - 1 /\ n \in 0 .. h - 1 /\ u = 0 * (2 * h) + n
          /\ u = 0 * h + n
      BY <1>2
    <2>2. u % (2 * h) = n
      BY <1>1, <2>1, OnlyQuotient
    <2>3. u \div h = 0
      BY <1>1, <2>1, OnlyQuotient
    <2> QED
      BY <1>2, <2>2, <2>3
  <1>3. CASE n < 0
    <2> DEFINE a == k - 1
               b == 2 * k - 1
               r == n + 2 * h
               s == n + h
    <2>1. /\ a \in Int /\ b \in Int /\ r \in 0 .. (2 * h) - 1 /\ s \in 0 .. h - 1
          /\ u = a * (2 * h) + r
      <3>1. k * (2 * h) = (k - 1) * (2 * h) + 2 * h
        OBVIOUS
      <3> QED
        BY <1>3, <3>1
    <2>2. u = b * h + s
      <3>1. k * (2 * h) = (2 * k - 1) * h + h
        OBVIOUS
      <3> QED
        BY <1>3, <3>1
    <2>3. b % 2 = 1
      <3>1. b = a * 2 + 1 /\ 1 \in 0 .. 2 - 1 /\ 2 \in Nat \ {0}
        OBVIOUS
      <3> HIDE DEF a, b
      <3> QED
        BY <2>1, <3>1
    <2> HIDE DEF a, b, r, s
    <2>4. u % (2 * h) = r
      BY <1>1, <2>1, OnlyQuotient
    <2>5. u \div h = b
      BY <1>1, <2>1, <2>2, OnlyQuotient
    <2> QED
      BY <1>3, <2>3, <2>4, <2>5 DEF r
  <1> QED
    BY <1>2, <1>3

\* Every i64 comes back from its octets.
LEMMA UnconstrainedArrives ==
  ASSUME NEW n \in I64_MIN .. I64_MAX
  PROVE  Unconstrained(n) \in Seq({0, 1}) /\ ReadUnconstrained(Unconstrained(n)) = n
  <1> DEFINE octets == SignedOctets(n)
             width == octets * OctetBits
             h == 2^(width - 1)
             k == 2^(WordBits - width)
             u == AsU64(n)
             bits == Unconstrained(n)
             read == ReadOctets(bits)
  <1>1. octets \in 1 .. 8 /\ width - 1 \in Nat /\ width <= WordBits /\ -h <= n /\ n < h
    BY SignedWidth
  <1>2. bits = ShortLength(octets) \o Bits(u, width)
    BY DEF Unconstrained
  <1>3. /\ u = IF n >= 0 THEN n ELSE n + 2 * I64_MAX + 2
        /\ u \in Nat /\ n \in Int
    BY Casts, Words
  <1> HIDE DEF octets, u, bits
  <1>4. octets \in 0 .. 8 /\ width \in Nat
    BY <1>1, NumbersAssumption
  <1>5. bits \in Seq({0, 1}) /\ read = Bits(u, width) /\ Number(read) = u % 2^width
    BY <1>2, <1>3, <1>4, OctetsArrive
  <1> HIDE DEF width
  <1>6. width \in Nat /\ width = (width - 1) + 1 /\ WordBits - width \in Nat
        /\ WordBits = (WordBits - width) + width
    BY <1>1, <1>4, Words
  <1>7. h \in Nat \ {0} /\ 2^width = 2 * h /\ k \in Nat \ {0} /\ 2^WordBits = k * 2^width
    <2>1. h \in Nat \ {0} /\ 2^((width - 1) + 1) = 2 * h
      BY <1>1, Powers
    <2>2. k \in Nat \ {0}
      BY <1>6, Powers
    <2>3. 2^((WordBits - width) + width) = k * 2^width
      BY <1>6, PowerOfSum
    <2> QED
      BY <1>6, <2>1, <2>2, <2>3
  <1>8. 2 * I64_MAX + 2 = k * (2 * h)
    BY <1>7, Words
  <1>9. read[1] = (u \div h) % 2 /\ Len(read) = width
    <2>1. 1 \in 1 .. width
      BY <1>1, <1>6
    <2>2. Bits(u, width)[1] = (u \div 2^(width - 1)) % 2
      BY <2>1 DEF Bits
    <2> QED
      BY <1>3, <1>5, <1>6, <2>2, BitsType
  <1> HIDE DEF h, k, read
  <1>10. u = IF n >= 0 THEN n ELSE n + k * (2 * h)
    <2>1. I64_MAX \in Nat
      BY Words
    <2> QED
      BY <1>3, <1>8, <2>1
  <1>11. /\ u % (2 * h) = IF n >= 0 THEN n ELSE n + 2 * h
         /\ (u \div h) % 2 = IF n >= 0 THEN 0 ELSE 1
    BY <1>1, <1>3, <1>7, <1>10, SignedRemainder
  <1>12. ReadUnconstrained(bits) = IF read[1] = 1 THEN Number(read) - 2^Len(read) ELSE Number(read)
    BY DEF ReadUnconstrained, read
  <1>13. CASE n >= 0
    BY <1>5, <1>7, <1>9, <1>11, <1>12, <1>13 DEF bits
  <1>14. CASE n < 0
    <2>1. read[1] = 1 /\ Number(read) = n + 2 * h /\ 2^Len(read) = 2 * h
      BY <1>5, <1>7, <1>9, <1>11, <1>14
    <2> QED
      BY <1>3, <1>5, <1>7, <1>12, <2>1 DEF bits
  <1> QED
    BY <1>3, <1>13, <1>14

-----------------------------------------------------------------------------
(* Numbers of a range *)

\* Lower, Upper, Width, AsUnconstrained, what WriteNumber writes and NumberRead, of a range r.
LowerOf(r) == OrElse(r.min, 0)
UpperOf(r) == OrElse(r.max, I64_MAX)
WidthOf(r) == AsI64(UpperOf(r) - LowerOf(r))

Unlimited(r, n) ==
    IF r.extensible THEN n < LowerOf(r) \/ n > UpperOf(r) ELSE r.min = Open /\ r.max = Open

FlagOf(r, bit) == IF r.extensible THEN <<bit>> ELSE <<>>

NumberBits(r, n) ==
    IF Unlimited(r, n) THEN FlagOf(r, 1) \o Unconstrained(n)
    ELSE FlagOf(r, 0) \o
           (IF WidthOf(r) > 0 THEN Bits(n - LowerOf(r), BitLength(WidthOf(r))) ELSE <<>>)

NumberIn(r, bits) ==
    LET rest == IF r.extensible THEN Behind(bits, 1) ELSE bits
        unconstrained == IF r.extensible THEN bits[1] = 1 ELSE r.min = Open /\ r.max = Open
    IN  IF unconstrained THEN ReadUnconstrained(rest)
        ELSE IF WidthOf(r) > 0
        THEN LowerOf(r) + Number(SubSeq(rest, 1, BitLength(WidthOf(r))))
        ELSE LowerOf(r)

\* What is found in the bits of n: the lower bound if the range has no width.
Found(r, n) == IF Unlimited(r, n) \/ WidthOf(r) > 0 THEN n ELSE LowerOf(r)

\* A width that does not fit into an i64 has become a negative one.
LEMMA Widths ==
  ASSUME NEW r, SoundRange(r)
  PROVE  /\ LowerOf(r) \in I64_MIN .. I64_MAX /\ UpperOf(r) \in LowerOf(r) .. I64_MAX
         /\ WidthOf(r) = IF UpperOf(r) - LowerOf(r) > I64_MAX
                         THEN UpperOf(r) - LowerOf(r) - 2 * I64_MAX - 2
                         ELSE UpperOf(r) - LowerOf(r)
         /\ WidthOf(r) \in Int /\ WidthOf(r) <= I64_MAX
         /\ UpperOf(r) - LowerOf(r) > I64_MAX <=> WidthOf(r) < 0
  <1> DEFINE low == LowerOf(r)
             up == UpperOf(r)
             d == up - low
  <1>1. r.min \in Bounds /\ r.max \in Bounds /\ low <= up
    BY DEF SoundRange, LowerOf, UpperOf
  <1>2. /\ I64_MAX \in Nat /\ I64_MIN = -(I64_MAX + 1)
        /\ low \in I64_MIN .. I64_MAX /\ up \in I64_MIN .. I64_MAX
    BY <1>1, Given, Words DEF LowerOf, UpperOf, Bounds
  <1> HIDE DEF low, up
  <1>3. d \in 0 .. 2 * I64_MAX + 1
    BY <1>1, <1>2
  <1>4. WidthOf(r) = AsI64(d)
    BY DEF WidthOf, low, up
  <1>5. AsI64(d) = IF d <= I64_MAX THEN d ELSE d - 2 * I64_MAX - 2
    BY <1>3, Casts
  <1>6. /\ WidthOf(r) = IF d > I64_MAX THEN d - 2 * I64_MAX - 2 ELSE d
        /\ WidthOf(r) \in Int /\ WidthOf(r) <= I64_MAX
        /\ d > I64_MAX <=> WidthOf(r) < 0
    BY <1>2, <1>3, <1>4, <1>5
  <1> QED
    BY <1>1, <1>2, <1>6 DEF low, up

\* The flag in front of a number, if there is one.
LEMMA BehindFlag ==
  ASSUME NEW r, SoundRange(r), NEW bit, bit = 0 \/ bit = 1, NEW t, t \in Seq({0, 1})
  PROVE  /\ FlagOf(r, bit) \o t \in Seq({0, 1})
         /\ r.extensible => Behind(FlagOf(r, bit) \o t, 1) = t /\ (FlagOf(r, bit) \o t)[1] = bit
         /\ ~r.extensible => FlagOf(r, bit) \o t = t
  <1> DEFINE bits == FlagOf(r, bit) \o t
  <1>0. r.extensible \in BOOLEAN
    BY DEF SoundRange
  <1>1. CASE ~r.extensible
    <2>1. FlagOf(r, bit) = <<>>
      BY <1>1 DEF FlagOf
    <2>2. <<>> \o t = t
      OBVIOUS
    <2>3. bits = t
      BY <2>1, <2>2
    <2> QED
      BY <1>1, <2>3
  <1>2. CASE r.extensible
    <2>1. FlagOf(r, bit) = <<bit>>
      BY <1>2 DEF FlagOf
    <2>2. bits = <<bit>> \o t
      BY <2>1
    <2>3. bits \in Seq({0, 1}) /\ bits[1] = bit /\ Behind(bits, 1) = t
      BY <2>2, BehindBit
    <2> QED
      BY <1>2, <2>3
  <1> QED
    BY <1>0, <1>1, <1>2

\* What is found in the bits of a number that may be written.
LEMMA NumberArrives ==
  ASSUME NEW r, SoundRange(r), NEW n \in I64_MIN .. I64_MAX,
         ~Unlimited(r, n) /\ WidthOf(r) > 0 => LowerOf(r) <= n /\ n <= UpperOf(r)
  PROVE  /\ NumberBits(r, n) \in Seq({0, 1})
         /\ NumberIn(r, NumberBits(r, n)) = Found(r, n)
  <1> DEFINE bits == NumberBits(r, n)
  <1>1. r.extensible \in BOOLEAN
    BY DEF SoundRange
  <1>2. CASE Unlimited(r, n)
    <2> DEFINE t == Unconstrained(n)
    <2>1. bits = FlagOf(r, 1) \o t
      BY <1>2 DEF NumberBits
    <2>2. t \in Seq({0, 1}) /\ ReadUnconstrained(t) = n
      BY UnconstrainedArrives
    <2> HIDE DEF t, bits
    <2>3. /\ bits \in Seq({0, 1})
          /\ r.extensible => Behind(bits, 1) = t /\ bits[1] = 1
          /\ ~r.extensible => bits = t
      <3> DEFINE bit == 1
      <3>1. bit = 0 \/ bit = 1
        OBVIOUS
      <3>2. bits = FlagOf(r, bit) \o t
        BY <2>1
      <3> HIDE DEF bit
      <3>3. /\ FlagOf(r, bit) \o t \in Seq({0, 1})
            /\ r.extensible =>
                   Behind(FlagOf(r, bit) \o t, 1) = t /\ (FlagOf(r, bit) \o t)[1] = bit
            /\ ~r.extensible => FlagOf(r, bit) \o t = t
        BY <2>2, <3>1, BehindFlag, ZenonT(60)
      <3> QED
        BY <3>2, <3>3 DEF bit
    <2>4. ~r.extensible => r.min = Open /\ r.max = Open
      BY <1>2 DEF Unlimited
    <2>5. NumberIn(r, bits) = ReadUnconstrained(t)
      <3>1. CASE r.extensible
        BY <2>3, <3>1 DEF NumberIn
      <3>2. CASE ~r.extensible
        BY <2>3, <2>4, <3>2 DEF NumberIn
      <3> QED
        BY <1>1, <3>1, <3>2
    <2> QED
      BY <1>2, <2>2, <2>3, <2>5 DEF Found, bits
  <1>3. CASE ~Unlimited(r, n)
    <2> DEFINE low == LowerOf(r)
               width == WidthOf(r)
               t == IF width > 0 THEN Bits(n - low, BitLength(width)) ELSE <<>>
    <2>1. bits = FlagOf(r, 0) \o t
      BY <1>3 DEF NumberBits
    <2>2. /\ low \in I64_MIN .. I64_MAX /\ UpperOf(r) \in low .. I64_MAX
          /\ width \in Int /\ width <= I64_MAX
          /\ width > 0 => width = UpperOf(r) - low
          /\ I64_MAX \in Nat /\ I64_MIN \in Int /\ 2^WordBits = 2 * I64_MAX + 2
      BY Widths, Words
    <2>3. width > 0 => low <= n /\ n <= UpperOf(r)
      BY <1>3
    <2> HIDE DEF low, width, bits
    <2>4. ASSUME width > 0
          PROVE  /\ t \in Seq({0, 1}) /\ Len(t) = BitLength(width)
                 /\ Number(SubSeq(t, 1, BitLength(width))) = n - low
      <3> DEFINE i == n - low
      <3>1. width \in Nat /\ width < 2^WordBits /\ i \in 0 .. width
        BY <2>2, <2>3, <2>4
      <3>2. t = Bits(i, BitLength(width))
        BY <2>4
      <3> HIDE DEF i, t
      <3>3. t \in Seq({0, 1}) /\ Len(t) = BitLength(width) /\ Number(t) = i
        BY <3>1, <3>2, IndexFits
      <3>4. SubSeq(t, 1, Len(t)) = t
        BY <3>3, SubSeqFull
      <3> QED
        BY <3>3, <3>4 DEF i
    <2>5. t \in Seq({0, 1})
      <3>1. CASE width > 0
        BY <2>4, <3>1
      <3>2. CASE ~(width > 0)
        BY <3>2
      <3> QED
        BY <3>1, <3>2
    <2> HIDE DEF t
    <2>6. /\ bits \in Seq({0, 1})
          /\ r.extensible => Behind(bits, 1) = t /\ bits[1] = 0
          /\ ~r.extensible => bits = t
      <3> DEFINE bit == 0
      <3>1. bit = 0 \/ bit = 1
        OBVIOUS
      <3>2. bits = FlagOf(r, bit) \o t
        BY <2>1
      <3> HIDE DEF bit
      <3>3. /\ FlagOf(r, bit) \o t \in Seq({0, 1})
            /\ r.extensible =>
                   Behind(FlagOf(r, bit) \o t, 1) = t /\ (FlagOf(r, bit) \o t)[1] = bit
            /\ ~r.extensible => FlagOf(r, bit) \o t = t
        BY <2>5, <3>1, BehindFlag, ZenonT(60)
      <3> QED
        BY <3>2, <3>3 DEF bit
    <2>7. ~r.extensible => ~(r.min = Open /\ r.max = Open)
      BY <1>3 DEF Unlimited
    <2>8. NumberIn(r, bits) =
            IF width > 0 THEN low + Number(SubSeq(t, 1, BitLength(width))) ELSE low
      <3>1. CASE r.extensible
        BY <2>6, <3>1 DEF NumberIn, width, low
      <3>2. CASE ~r.extensible
        BY <2>6, <2>7, <3>2 DEF NumberIn, width, low
      <3> QED
        BY <1>1, <3>1, <3>2
    <2>9. NumberIn(r, bits) = IF width > 0 THEN n ELSE low
      <3>1. CASE width > 0
        <4>1. low + (n - low) = n
          BY <2>2
        <4> QED
          BY <2>4, <2>8, <3>1, <4>1
      <3>2. CASE ~(width > 0)
        BY <2>8, <3>2
      <3> QED
        BY <3>1, <3>2
    <2> QED
      BY <1>3, <2>6, <2>9 DEF Found, bits, width, low
  <1> QED
    BY <1>2, <1>3

-----------------------------------------------------------------------------
(* The inductive invariant *)

\* What is found in the bits, as a number of the Rust type.
CastTo(type, n) == IF type.sign = "u" THEN n % 2^(type.octets * OctetBits) ELSE n

Phases == {"declared", "generated", "compiled", "uncompilable", "written", "refused", "panic",
           "unknown", "done"}
Sending == {"written", "refused", "panic", "done"}

Typed ==
    /\ decl \in Ranges \cup Variants
    /\ checked \in BOOLEAN
    /\ phase \in Phases
    /\ wire \in Seq({0, 1})
    /\ phase \notin Sending \cup {"unknown"} => value = Nothing
    /\ phase # "done" => got = Nothing

\* The Rust type of a number is what the conversions of its declared range come to.
Converted ==
    decl \in Ranges =>
        /\ phase # "unknown"
        /\ phase = "declared" => rust = Nothing
        /\ phase = "generated" => rust = ParsedToRust(decl)
        /\ phase = "uncompilable" => rust = ParsedToRust(decl) /\ ~Compiles(rust)
        /\ phase \in Sending \cup {"compiled"} =>
               rust = AttributeToRust(ParsedToRust(decl)) /\ Compiles(ParsedToRust(decl))

\* A number on its way.
NumberOnItsWay ==
    decl \in Ranges /\ phase \in Sending =>
        LET n == AsI64(value)
            wide == WidthOf(rust) < 0 /\ ~Unlimited(rust, n)
        IN  /\ value \in Int /\ value \in TypeMin(rust.type) .. TypeMax(rust.type)
            /\ phase = "panic" <=> wide /\ checked
            /\ phase \in {"written", "done"} /\ ~Unlimited(rust, n) /\ WidthOf(rust) > 0 =>
                   LowerOf(rust) <= n /\ n <= UpperOf(rust)
            /\ phase = "written" => NumberIn(rust, wire) = Found(rust, n)
            /\ phase = "done" => got = CastTo(rust.type, Found(rust, n))

\* A variant on its way.
VariantOnItsWay ==
    decl \in Variants =>
        /\ rust = Nothing
        /\ phase \in {"compiled", "written", "unknown", "done"}
        /\ phase # "compiled" => value \in 0 .. decl.count - 1
        /\ phase = "written" => IndexIn(decl, wire) = value
        /\ phase = "done" => got = value
        /\ phase = "unknown" => value >= decl.known

Inv == Typed /\ Converted /\ NumberOnItsWay /\ VariantOnItsWay

-----------------------------------------------------------------------------
(* Every step keeps the invariant *)

\* The operators of the model are those of the present declaration, Rust type and bits.
LEMMA Operators ==
  /\ Lower = LowerOf(rust) /\ Upper = UpperOf(rust) /\ Width = WidthOf(rust)
  /\ \A n : AsUnconstrained(n) <=> Unlimited(rust, n)
  /\ NumberRead = NumberIn(rust, wire)
  /\ IndexRead = IndexIn(decl, wire)
  <1>1. Lower = LowerOf(rust) /\ Upper = UpperOf(rust)
    BY DEF Lower, Upper, LowerOf, UpperOf
  <1>2. Width = WidthOf(rust)
    BY <1>1 DEF Width, WidthOf
  <1>3. ASSUME NEW n
        PROVE  AsUnconstrained(n) <=> Unlimited(rust, n)
    BY <1>1 DEF AsUnconstrained, Unlimited
  <1>4. NumberRead = NumberIn(rust, wire)
    BY <1>1, <1>2 DEF NumberRead, NumberIn
  <1>5. IndexRead = IndexIn(decl, wire)
    BY DEF IndexRead, IndexIn
  <1> QED
    BY <1>1, <1>2, <1>3, <1>4, <1>5

\* A declaration is a number's or a variant's.
LEMMA Apart == Ranges \cap Variants = {}
  <1> SUFFICES ASSUME NEW d, d \in Ranges, d \in Variants
               PROVE  FALSE
    OBVIOUS
  <1>1. d \in [min : Bounds, max : Bounds, extensible : BOOLEAN]
    BY NumbersAssumption
  <1>2. d \in [std : Nat, count : 1 .. 2^WordBits, extensible : BOOLEAN, known : Nat]
    BY NumbersAssumption
  <1>3. DOMAIN d = {"min", "max", "extensible"}
    BY <1>1
  <1>4. "std" \in DOMAIN d
    BY <1>2
  <1> QED
    BY <1>3, <1>4

\* A number of a Rust type goes through an i64 and comes out of the cast again.
LEMMA CastBack ==
  ASSUME NEW t \in Types, NEW v, v \in TypeMin(t) .. TypeMax(t)
  PROVE  /\ v \in I64_MIN .. 2^WordBits - 1
         /\ AsI64(v) \in I64_MIN .. I64_MAX
         /\ CastTo(t, AsI64(v)) = v
         /\ v <= I64_MAX => AsI64(v) = v
         /\ v > I64_MAX => TypeMin(t) = 0 /\ AsI64(v) < 0
  <1>1. PICK s \in {"u", "i"}, o \in OctetCounts : t = Type(s, o)
    BY DEF Types
  <1>2. t.sign = s /\ t.octets = o
    BY <1>1 DEF Type
  <1> DEFINE p == 2^(o * OctetBits)
             signed == TypeMax(Type("i", o))
  <1>3. /\ o * OctetBits \in Nat
        /\ signed \in 0 .. I64_MAX
        /\ TypeMin(Type("i", o)) = -(signed + 1)
        /\ TypeMin(Type("u", o)) = 0
        /\ TypeMax(Type("u", o)) = 2 * signed + 1
        /\ p = 2 * signed + 2
    BY TypeLimits
  <1>4. I64_MAX \in Nat /\ I64_MIN = -(I64_MAX + 1) /\ 2^WordBits = 2 * I64_MAX + 2
    BY Words
  <1>5. CASE s = "i"
    <2>1. v \in I64_MIN .. I64_MAX
      BY <1>1, <1>3, <1>4, <1>5
    <2>2. AsI64(v) = v
      BY <2>1, Casts
    <2>3. CastTo(t, v) = v
      BY <1>2, <1>5 DEF CastTo
    <2> QED
      BY <1>4, <2>1, <2>2, <2>3
  <1>6. CASE s = "u"
    <2>1. v \in 0 .. p - 1 /\ p \in Nat \ {0} /\ TypeMin(t) = 0 /\ v \in 0 .. 2 * I64_MAX + 1
      BY <1>1, <1>3, <1>4, <1>6
    <2>2. CastTo(t, AsI64(v)) = AsI64(v) % p
      BY <1>2, <1>6 DEF CastTo
    <2>3. CASE v <= I64_MAX
      <3>1. AsI64(v) = v
        BY <2>1, <2>3, Casts
      <3>2. v \in Int /\ 0 \in Int /\ v = 0 * p + v
        BY <2>1
      <3>3. v % p = v
        <4> HIDE DEF p
        <4> QED
          BY <2>1, <3>2, OnlyQuotient
      <3> QED
        BY <1>4, <2>1, <2>2, <2>3, <3>1, <3>3
    <2>4. CASE v > I64_MAX
      <3>1. AsI64(v) = v - 2 * I64_MAX - 2
        BY <1>4, <2>1, <2>4, Casts
      <3>2. o = 8
        <4> SUFFICES ASSUME o # 8
                     PROVE  FALSE
          OBVIOUS
        <4>1. /\ OctetBits \in Nat \ {0} /\ o \in 1 .. 4
              /\ WordBits = 8 * OctetBits
          BY NumbersAssumption DEF OctetCounts, WordBits, Octets
        <4>2. o * OctetBits <= WordBits - 1 /\ WordBits - 1 \in Nat
          BY <4>1
        <4>3. p <= 2^(WordBits - 1)
          BY <1>3, <4>2, PowersGrow
        <4>4. 2^(WordBits - 1) \in Nat /\ I64_MAX = 2^(WordBits - 1) - 1
          BY <4>2, Powers DEF I64_MAX
        <4> QED
          BY <2>1, <2>4, <4>3, <4>4
      <3>3. p = 2 * I64_MAX + 2
        <4>1. 8 * OctetBits = WordBits
          BY NumbersAssumption DEF WordBits, Octets
        <4> QED
          BY <1>4, <3>2, <4>1
      <3>4. AsI64(v) \in Int /\ -1 \in Int /\ AsI64(v) = (-1) * p + v
        BY <1>4, <2>1, <3>1, <3>3
      <3>5. AsI64(v) % p = v
        <4> HIDE DEF p
        <4> QED
          BY <2>1, <3>4, OnlyQuotient
      <3> QED
        BY <1>4, <2>1, <2>2, <2>4, <3>1, <3>5
    <2> QED
      BY <1>4, <2>1, <2>3, <2>4
  <1> QED
    BY <1>5, <1>6

\* At the start.
LEMMA InitInv == Init => Inv
  <1> SUFFICES ASSUME Init
               PROVE  Inv
    OBVIOUS
  <1>1. Typed
    BY DEF Init, Typed, Phases, Sending
  <1>2. Converted
    BY Apart DEF Init, Converted, Sending
  <1>3. NumberOnItsWay
    BY DEF Init, NumberOnItsWay, Sending
  <1>4. VariantOnItsWay
    BY Apart DEF Init, VariantOnItsWay
  <1> QED
    BY <1>1, <1>2, <1>3, <1>4 DEF Inv

\* The model's conversion gives a range's Rust type.
LEMMA GenerateKeeps ==
  ASSUME Inv, Generate
  PROVE  Inv'
  <1>1. decl \notin Variants /\ decl \in Ranges
    BY DEF Inv, Typed, VariantOnItsWay, Generate
  <1>2. Typed'
    BY DEF Inv, Typed, Generate, Phases, Sending
  <1>3. Converted'
    BY DEF Inv, Converted, Generate, Sending
  <1>4. NumberOnItsWay'
    BY DEF Generate, NumberOnItsWay, Sending
  <1>5. VariantOnItsWay'
    BY <1>1 DEF Generate, VariantOnItsWay
  <1> QED
    BY <1>2, <1>3, <1>4, <1>5 DEF Inv

\* The macro's conversion gives a type that compiles, or none.
LEMMA CompileKeeps ==
  ASSUME Inv, Compile
  PROVE  Inv'
  <1>1. decl \notin Variants /\ decl \in Ranges
    BY DEF Inv, Typed, VariantOnItsWay, Compile
  <1>2. phase' \in {"compiled", "uncompilable"}
    BY DEF Compile
  <1>3. Typed'
    BY <1>2 DEF Inv, Typed, Compile, Phases, Sending
  <1>4. rust = ParsedToRust(decl)
    BY <1>1 DEF Inv, Converted, Compile
  <1>5. IF Compiles(rust) THEN rust' = AttributeToRust(rust) /\ phase' = "compiled"
        ELSE phase' = "uncompilable" /\ rust' = rust
    BY DEF Compile, Compiles
  <1>6. decl' = decl
    BY DEF Compile
  <1>7. Converted'
    <2>1. CASE Compiles(rust)
      BY <1>4, <1>5, <1>6, <2>1 DEF Converted, Sending
    <2>2. CASE ~Compiles(rust)
      BY <1>4, <1>5, <1>6, <2>2 DEF Converted, Sending
    <2> QED
      BY <2>1, <2>2
  <1>8. NumberOnItsWay'
    BY <1>2 DEF NumberOnItsWay, Sending
  <1>9. VariantOnItsWay'
    BY <1>1, <1>6 DEF VariantOnItsWay
  <1> QED
    BY <1>3, <1>7, <1>8, <1>9 DEF Inv

\* The type of a number that is sent holds its range.
LEMMA CompiledType ==
  ASSUME Inv, decl \in Ranges, phase \in Sending \cup {"compiled"}
  PROVE  /\ rust = AttributeToRust(ParsedToRust(decl))
         /\ SoundRange(rust)
         /\ decl.min # Open => Declared(rust, decl)
  <1>1. rust = AttributeToRust(ParsedToRust(decl)) /\ Compiles(ParsedToRust(decl))
    BY DEF Inv, Converted
  <1> QED
    BY <1>1, AllConvert DEF Converts

\* A number is written so that it can be read, or it is refused.
LEMMA WriteNumberKeeps ==
  ASSUME Inv, WriteNumber
  PROVE  Inv'
  <1>1. /\ decl \in Ranges /\ phase = "compiled" /\ decl \notin Variants
        /\ decl' = decl /\ rust' = rust /\ checked' = checked /\ got' = got
    BY Apart DEF WriteNumber
  <1>2. PICK v \in Values :
           /\ v \in TypeMin(rust.type) .. TypeMax(rust.type)
           /\ value' = v
           /\ LET n == AsI64(v)
              IN  IF AsUnconstrained(n)
                  THEN wire' = Flag(TRUE) \o Unconstrained(n) /\ phase' = "written"
                  ELSE IF Overflows /\ checked
                  THEN phase' = "panic" /\ UNCHANGED wire
                  ELSE IF OutOfBounds(n)
                  THEN phase' = "refused" /\ UNCHANGED wire
                  ELSE /\ wire' = Flag(FALSE) \o
                           (IF Width > 0 THEN Bits(n - Lower, BitLength(Width)) ELSE <<>>)
                       /\ phase' = "written"
    BY DEF WriteNumber
  <1> DEFINE n == AsI64(v)
             r == rust
  <1>3. SoundRange(r) /\ r.type \in Types
    BY <1>1, CompiledType DEF SoundRange
  <1>4. n \in I64_MIN .. I64_MAX /\ v \in Int
    BY <1>2, <1>3, CastBack, Words
  <1>5. /\ LowerOf(r) \in I64_MIN .. I64_MAX /\ UpperOf(r) \in LowerOf(r) .. I64_MAX
        /\ WidthOf(r) \in Int
        /\ Overflows <=> WidthOf(r) < 0
        /\ OutOfBounds(n) <=> WidthOf(r) > 0 /\ (n < LowerOf(r) \/ n > UpperOf(r))
    BY <1>3, Widths, Operators DEF Overflows, OutOfBounds
  <1>6. Flag(TRUE) = FlagOf(r, 1) /\ Flag(FALSE) = FlagOf(r, 0)
    BY DEF Flag, FlagOf
  <1>7. IF Unlimited(r, n) THEN wire' = NumberBits(r, n) /\ phase' = "written"
        ELSE IF WidthOf(r) < 0 /\ checked THEN phase' = "panic" /\ wire' = wire
        ELSE IF WidthOf(r) > 0 /\ (n < LowerOf(r) \/ n > UpperOf(r))
        THEN phase' = "refused" /\ wire' = wire
        ELSE wire' = NumberBits(r, n) /\ phase' = "written"
    <2>1. Lower = LowerOf(r) /\ Width = WidthOf(r) /\ (AsUnconstrained(n) <=> Unlimited(r, n))
      BY Operators
    <2>2. CASE Unlimited(r, n)
      BY <1>2, <1>6, <2>1, <2>2 DEF NumberBits
    <2>3. CASE ~Unlimited(r, n)
      BY <1>2, <1>5, <1>6, <2>1, <2>3 DEF NumberBits
    <2> QED
      BY <2>2, <2>3
  <1> HIDE DEF n, r
  <1>8. phase' \in {"written", "refused", "panic"}
    BY <1>7
  <1>9. phase' = "written" =>
           /\ wire' = NumberBits(r, n)
           /\ ~Unlimited(r, n) /\ WidthOf(r) > 0 => LowerOf(r) <= n /\ n <= UpperOf(r)
           /\ ~(WidthOf(r) < 0 /\ ~Unlimited(r, n) /\ checked)
    BY <1>4, <1>5, <1>7, Words
  <1>10. phase' = "written" => wire' \in Seq({0, 1}) /\ NumberIn(r, wire') = Found(r, n)
    BY <1>3, <1>4, <1>9, NumberArrives
  <1>11. phase' = "panic" <=> WidthOf(r) < 0 /\ ~Unlimited(r, n) /\ checked
    BY <1>5, <1>7
  <1>12. Typed'
    <2>1. wire' \in Seq({0, 1})
      BY <1>7, <1>10 DEF Inv, Typed
    <2> QED
      BY <1>1, <1>8, <2>1 DEF Inv, Typed, Phases, Sending
  <1>13. Converted'
    BY <1>1, <1>8 DEF Inv, Converted, Sending
  <1>14. NumberOnItsWay'
    <2>1. value' = v /\ v \in Int /\ v \in TypeMin(rust'.type) .. TypeMax(rust'.type)
      BY <1>1, <1>2, <1>4
    <2>2. AsI64(value') = n /\ rust' = r
      BY <1>1, <2>1 DEF n, r
    <2> QED
      BY <1>1, <1>8, <1>9, <1>10, <1>11, <2>1, <2>2 DEF NumberOnItsWay
  <1>15. VariantOnItsWay'
    BY <1>1 DEF VariantOnItsWay
  <1> QED
    BY <1>12, <1>13, <1>14, <1>15 DEF Inv

\* What is read is what the bits hold, cast to the Rust type.
LEMMA ReadNumberKeeps ==
  ASSUME Inv, ReadNumber
  PROVE  Inv'
  <1>1. /\ decl \in Ranges /\ phase = "written" /\ decl \notin Variants
        /\ decl' = decl /\ rust' = rust /\ checked' = checked /\ value' = value /\ wire' = wire
        /\ phase' = "done"
    BY Apart DEF ReadNumber
  <1>2. got' = CastTo(rust.type, NumberIn(rust, wire))
    BY Operators DEF ReadNumber, CastTo
  <1>3. Typed'
    BY <1>1 DEF Inv, Typed, Phases, Sending
  <1>4. Converted'
    BY <1>1 DEF Inv, Converted, Sending
  <1>5. NumberOnItsWay'
    <2>1. /\ value \in Int /\ value \in TypeMin(rust.type) .. TypeMax(rust.type)
          /\ ~(WidthOf(rust) < 0 /\ ~Unlimited(rust, AsI64(value)) /\ checked)
          /\ ~Unlimited(rust, AsI64(value)) /\ WidthOf(rust) > 0 =>
                LowerOf(rust) <= AsI64(value) /\ AsI64(value) <= UpperOf(rust)
          /\ NumberIn(rust, wire) = Found(rust, AsI64(value))
      BY <1>1 DEF Inv, NumberOnItsWay, Sending
    <2> QED
      BY <1>1, <1>2, <2>1 DEF NumberOnItsWay
  <1>6. VariantOnItsWay'
    BY <1>1 DEF VariantOnItsWay
  <1> QED
    BY <1>3, <1>4, <1>5, <1>6 DEF Inv

\* An index is written so that it can be read.
LEMMA WriteVariantKeeps ==
  ASSUME Inv, WriteVariant
  PROVE  Inv'
  <1>1. /\ decl \in Variants /\ phase = "compiled" /\ decl \notin Ranges
        /\ decl' = decl /\ rust' = rust /\ checked' = checked /\ got' = got
        /\ phase' = "written"
    BY Apart DEF WriteVariant
  <1>2. PICK index \in 0 .. decl.count - 1 : value' = index /\ wire' = IndexBits(decl, index)
    BY DEF WriteVariant, IndexBits
  <1>3. wire' \in Seq({0, 1}) /\ IndexIn(decl, wire') = index
    BY <1>1, <1>2, IndexArrives
  <1>4. Typed'
    BY <1>1, <1>3 DEF Inv, Typed, Phases, Sending
  <1>5. Converted' /\ NumberOnItsWay'
    BY <1>1 DEF Converted, NumberOnItsWay
  <1>6. VariantOnItsWay'
    BY <1>1, <1>2, <1>3 DEF Inv, VariantOnItsWay
  <1> QED
    BY <1>4, <1>5, <1>6 DEF Inv

\* A variant is read as the one sent, or refused by a reader that does not know it.
LEMMA ReadVariantKeeps ==
  ASSUME Inv, ReadVariant
  PROVE  Inv'
  <1>1. /\ decl \in Variants /\ phase = "written" /\ decl \notin Ranges
        /\ decl' = decl /\ rust' = rust /\ checked' = checked /\ value' = value /\ wire' = wire
    BY Apart DEF ReadVariant
  <1>2. value \in 0 .. decl.count - 1 /\ IndexRead = value
    BY <1>1, Operators DEF Inv, VariantOnItsWay
  <1>3. decl.known \in Nat /\ value \in Int
    BY <1>1, <1>2, VariantTypes
  <1>4. IF value < decl.known THEN got' = value /\ phase' = "done"
        ELSE phase' = "unknown" /\ got' = got
    BY <1>2 DEF ReadVariant
  <1>5. Typed'
    BY <1>1, <1>4 DEF Inv, Typed, Phases, Sending
  <1>6. Converted' /\ NumberOnItsWay'
    BY <1>1 DEF Converted, NumberOnItsWay
  <1>7. VariantOnItsWay'
    BY <1>1, <1>2, <1>3, <1>4 DEF Inv, VariantOnItsWay
  <1> QED
    BY <1>5, <1>6, <1>7 DEF Inv

\* The invariant is inductive.
LEMMA InvHolds == Spec => []Inv
  <1>1. Init => Inv
    BY InitInv
  <1>2. Inv /\ [Next]_vars => Inv'
    <2> SUFFICES ASSUME Inv, [Next]_vars
                 PROVE  Inv'
      OBVIOUS
    <2>1. CASE Generate
      BY <2>1, GenerateKeeps
    <2>2. CASE Compile
      BY <2>2, CompileKeeps
    <2>3. CASE WriteNumber
      BY <2>3, WriteNumberKeeps
    <2>4. CASE ReadNumber
      BY <2>4, ReadNumberKeeps
    <2>5. CASE WriteVariant
      BY <2>5, WriteVariantKeeps
    <2>6. CASE ReadVariant
      BY <2>6, ReadVariantKeeps
    <2>7. CASE UNCHANGED vars
      BY <2>7 DEF vars, Inv, Typed, Converted, NumberOnItsWay, VariantOnItsWay
    <2> QED
      BY <2>1, <2>2, <2>3, <2>4, <2>5, <2>6, <2>7 DEF Next
  <1> QED
    BY <1>1, <1>2, PTL DEF Spec

-----------------------------------------------------------------------------
(* What the invariant says *)

\* The Rust type of a range, as soon as there is one, is one of the eight.
LEMMA TypeOfRust ==
  ASSUME Inv
  PROVE  /\ decl \notin Ranges \/ phase = "declared" => rust = Nothing
         /\ decl \in Ranges /\ phase # "declared" => rust.type \in Types
  <1>1. decl \notin Ranges => rust = Nothing
    BY DEF Inv, Typed, VariantOnItsWay
  <1>2. decl \in Ranges /\ phase = "declared" => rust = Nothing
    BY DEF Inv, Converted
  <1>3. ASSUME decl \in Ranges, phase \in Sending \cup {"compiled"}
        PROVE  rust.type \in Types
    BY <1>3, CompiledType DEF SoundRange
  <1>4. ASSUME decl \in Ranges, phase \in {"generated", "uncompilable"}
        PROVE  rust.type \in Types
    <2>1. rust = ParsedToRust(decl)
      BY <1>4 DEF Inv, Converted
    <2> QED
      BY <1>4, <2>1, AllConvert DEF Converts
  <1>5. decl \in Ranges /\ phase # "declared" =>
            phase \in Sending \cup {"compiled"} \/ phase \in {"generated", "uncompilable"}
    BY DEF Inv, Typed, Converted, Phases, Sending
  <1> QED
    BY <1>1, <1>2, <1>3, <1>4, <1>5

\* A number of the Rust type is not changed by the cast that reads it.
LEMMA CastIsOfType ==
  ASSUME NEW r, SoundRange(r), NEW v, v \in TypeMin(r.type) .. TypeMax(r.type)
  PROVE  /\ CastTo(r.type, Found(r, AsI64(v))) \in TypeMin(r.type) .. TypeMax(r.type)
         /\ CastTo(r.type, Found(r, AsI64(v))) =
                IF Unlimited(r, AsI64(v)) \/ WidthOf(r) > 0 THEN v ELSE LowerOf(r)
  <1>1. r.type \in Types
    BY DEF SoundRange
  <1>2. CASE Unlimited(r, AsI64(v)) \/ WidthOf(r) > 0
    <2>1. Found(r, AsI64(v)) = AsI64(v)
      BY <1>2 DEF Found
    <2>2. CastTo(r.type, AsI64(v)) = v
      BY <1>1, CastBack
    <2> QED
      BY <1>2, <2>1, <2>2
  <1>3. CASE ~(Unlimited(r, AsI64(v)) \/ WidthOf(r) > 0)
    <2> DEFINE low == LowerOf(r)
    <2>1. Found(r, AsI64(v)) = low
      BY <1>3 DEF Found
    <2>2. low \in I64_MIN .. I64_MAX /\ UpperOf(r) \in low .. I64_MAX
      BY Widths
    <2>3. TypeMin(r.type) <= low /\ UpperOf(r) <= TypeMax(r.type)
      BY DEF SoundRange, LowerOf, UpperOf
    <2>4. /\ TypeMin(r.type) \in Int /\ TypeMax(r.type) \in Int
          /\ I64_MAX \in Nat /\ I64_MIN \in Int
      <3>1. PICK s \in {"u", "i"}, o \in OctetCounts : r.type = Type(s, o)
        BY <1>1 DEF Types
      <3> QED
        BY <3>1, TypeLimits, Words
    <2> HIDE DEF low
    <2>5. low \in TypeMin(r.type) .. TypeMax(r.type) /\ low <= I64_MAX
      BY <2>2, <2>3, <2>4
    <2>6. CastTo(r.type, low) = low
      <3>1. CastTo(r.type, AsI64(low)) = low /\ AsI64(low) = low
        BY <1>1, <2>5, CastBack
      <3> QED
        BY <3>1
    <2> QED
      BY <1>3, <2>1, <2>5, <2>6 DEF low
  <1> QED
    BY <1>2, <1>3

\* The invariant gives every variable its type.
LEMMA InvTypeOK == Inv => TypeOK
  <1> SUFFICES ASSUME Inv
               PROVE  TypeOK
    OBVIOUS
  <1>1. decl \in Ranges \cup Variants /\ phase \in Phases
    BY DEF Inv, Typed
  <1>2. rust # Nothing => rust.type \in {Type(s, o) : s \in {"u", "i"}, o \in {1, 2, 4, 8}}
    BY <1>1, TypeOfRust DEF Types, OctetCounts
  <1>3. value \in {Nothing} \cup I64_MIN .. 2^WordBits - 1
    <2>1. CASE decl \in Ranges /\ phase \in Sending
      <3>1. rust.type \in Types /\ value \in TypeMin(rust.type) .. TypeMax(rust.type)
        BY <2>1, CompiledType DEF Inv, NumberOnItsWay, SoundRange
      <3> QED
        BY <3>1, CastBack
    <2>2. CASE decl \in Variants /\ phase # "compiled"
      <3>1. value \in 0 .. decl.count - 1 /\ decl.count \in Nat /\ decl.count <= 2^WordBits
        BY <2>2, VariantTypes DEF Inv, VariantOnItsWay
      <3> QED
        BY <3>1, Words
    <2>3. CASE phase \notin Sending \cup {"unknown"}
      BY <2>3 DEF Inv, Typed
    <2> QED
      BY <1>1, <2>1, <2>2, <2>3 DEF Inv, Converted, Sending
  <1>4. \A i \in DOMAIN wire : wire[i] \in {0, 1}
    <2>1. wire \in Seq({0, 1})
      BY DEF Inv, Typed
    <2> QED
      BY <2>1
  <1>5. got # Nothing /\ decl \in Ranges => got \in TypeMin(rust.type) .. TypeMax(rust.type)
    <2> SUFFICES ASSUME got # Nothing, decl \in Ranges
                 PROVE  got \in TypeMin(rust.type) .. TypeMax(rust.type)
      OBVIOUS
    <2>1. phase = "done"
      BY DEF Inv, Typed
    <2>2. SoundRange(rust)
      BY <2>1, CompiledType DEF Sending
    <2>3. /\ value \in TypeMin(rust.type) .. TypeMax(rust.type)
          /\ got = CastTo(rust.type, Found(rust, AsI64(value)))
      BY <2>1 DEF Inv, NumberOnItsWay, Sending
    <2> QED
      BY <2>2, <2>3, CastIsOfType
  <1> QED
    BY <1>1, <1>2, <1>3, <1>4, <1>5 DEF TypeOK, Phases

\* The invariant makes the Rust type hold the declared range.
LEMMA InvTypesHold == Inv => TypesHoldTheirRange
  <1> SUFFICES ASSUME Inv, decl \in Ranges, decl.min # Open
               PROVE  /\ phase # "uncompilable"
                      /\ Compiled => \A v \in Values :
                             InDeclared(v) /\ v <= I64_MAX =>
                                 v \in TypeMin(rust.type) .. TypeMax(rust.type)
    BY DEF TypesHoldTheirRange
  <1>1. phase # "uncompilable"
    BY AllConvert DEF Inv, Converted, Converts
  <1>2. ASSUME Compiled, NEW v \in Values, InDeclared(v), v <= I64_MAX
        PROVE  v \in TypeMin(rust.type) .. TypeMax(rust.type)
    <2>1. phase \in Sending \cup {"compiled"}
      BY <1>2 DEF Compiled, Sending
    <2>2. SoundRange(rust) /\ Declared(rust, decl)
      BY <2>1, CompiledType
    <2>3. v \in Int
      <3>1. v \in I64_MIN .. 2^WordBits - 1
        BY <1>2, NumbersAssumption
      <3> QED
        BY <3>1, Words
    <2>4. PICK s \in {"u", "i"}, o \in OctetCounts : rust.type = Type(s, o)
      BY <2>2 DEF SoundRange, Types
    <2>5. TypeMin(rust.type) \in Int /\ TypeMax(rust.type) \in Int
      BY <2>4, TypeLimits, Words
    <2>6. /\ TypeMin(rust.type) <= decl.min
          /\ OrElse(decl.max, I64_MAX) <= TypeMax(rust.type)
      BY <2>2 DEF SoundRange, Declared
    <2>7. decl.min \in Int /\ decl.max \in {Open} \cup Int
      BY BoundsOf
    <2>8. decl.min <= v /\ v <= OrElse(decl.max, I64_MAX) /\ OrElse(decl.max, I64_MAX) \in Int
      BY <1>2, <2>7, Given DEF InDeclared, OrElse
    <2> QED
      BY <2>3, <2>5, <2>6, <2>7, <2>8
  <1> QED
    BY <1>1, <1>2

\* A number sent within the bounds is one of the declared range.
LEMMA SentIsDeclared ==
  ASSUME Inv, decl \in Ranges, phase \in {"written", "done"}, decl.min # Open,
         ~Unlimited(rust, AsI64(value)), WidthOf(rust) >= 0, decl.min # OrElse(decl.max, I64_MAX)
  PROVE  InDeclared(value)
  <1> DEFINE n == AsI64(value)
  <1>1. SoundRange(rust) /\ Declared(rust, decl)
    BY CompiledType DEF Sending
  <1>2. decl.min \in Int /\ decl.max \in {Open} \cup Int
    BY BoundsOf
  <1>3. LowerOf(rust) = decl.min /\ UpperOf(rust) = OrElse(decl.max, I64_MAX)
    BY <1>1 DEF Declared, LowerOf, UpperOf
  <1>4. /\ LowerOf(rust) \in I64_MIN .. I64_MAX /\ UpperOf(rust) \in LowerOf(rust) .. I64_MAX
        /\ WidthOf(rust) = UpperOf(rust) - LowerOf(rust)
        /\ I64_MAX \in Nat /\ I64_MIN \in Int
    BY <1>1, Widths, Words
  <1>5. WidthOf(rust) > 0
    BY <1>2, <1>3, <1>4
  <1>6. LowerOf(rust) <= n /\ n <= UpperOf(rust)
    BY <1>5 DEF Inv, NumberOnItsWay, Sending
  <1>7. value \in Int /\ rust.type \in Types /\ value \in TypeMin(rust.type) .. TypeMax(rust.type)
    BY <1>1 DEF SoundRange, Inv, NumberOnItsWay, Sending
  <1>8. value <= I64_MAX => n = value
    BY <1>7, CastBack
  <1>9. value <= I64_MAX
    <2> SUFFICES ASSUME value > I64_MAX
                 PROVE  FALSE
      BY <1>4, <1>7
    <2>1. TypeMin(rust.type) = 0 /\ n < 0
      BY <1>7, CastBack
    <2>2. 0 <= LowerOf(rust)
      BY <1>1, <2>1 DEF SoundRange, LowerOf
    <2>3. n \in I64_MIN .. I64_MAX
      BY <1>7, CastBack
    <2> QED
      BY <1>4, <1>6, <2>1, <2>2, <2>3
  <1>10. decl.min <= value /\ value <= OrElse(decl.max, I64_MAX)
    BY <1>3, <1>6, <1>8, <1>9
  <1> QED
    BY <1>2, <1>7, <1>10 DEF InDeclared, OrElse

\* A number comes back but from a range that has no width.
LEMMA ComesBack ==
  ASSUME Inv, decl \in Ranges, phase = "done"
  PROVE  LET n == AsI64(value)
             wide == WidthOf(rust) < 0 /\ ~Unlimited(rust, n)
         IN  got = value <=>
                value = LowerOf(rust) \/ ~(wide \/ (WidthOf(rust) = 0 /\ ~rust.extensible))
  <1> DEFINE n == AsI64(value)
             r == rust
             low == LowerOf(r)
             up == UpperOf(r)
             width == WidthOf(r)
  <1>1. SoundRange(r) /\ r.extensible \in BOOLEAN
    BY CompiledType DEF Sending, SoundRange
  <1>2. /\ low \in I64_MIN .. I64_MAX /\ up \in low .. I64_MAX
        /\ width \in Int
        /\ width >= 0 => width = up - low
        /\ I64_MAX \in Nat /\ I64_MIN \in Int
    BY <1>1, Widths, Words
  <1>3. /\ value \in Int /\ value \in TypeMin(r.type) .. TypeMax(r.type)
        /\ got = CastTo(r.type, Found(r, n))
    BY DEF Inv, NumberOnItsWay, Sending
  <1>4. got = IF Unlimited(r, n) \/ width > 0 THEN value ELSE low
    BY <1>1, <1>3, CastIsOfType
  <1>5. CASE Unlimited(r, n) \/ width > 0
    <2>1. got = value
      BY <1>4, <1>5
    <2>2. ASSUME width = 0, ~r.extensible
          PROVE  FALSE
      <3>1. r.min = Open /\ r.max = Open
        BY <1>5, <2>2 DEF Unlimited
      <3>2. low = 0 /\ up = I64_MAX
        BY <3>1 DEF LowerOf, UpperOf, OrElse
      <3>3. I64_MAX = 0
        BY <1>2, <2>2, <3>2
      <3>4. 2^WordBits = 2
        BY <3>3, Words
      <3>5. WordBits \in Nat /\ WordBits - 1 \in Nat /\ WordBits = (WordBits - 1) + 1
        BY Words
      <3>6. 2^1 <= 2^(WordBits - 1) /\ 2^1 = 2 /\ 2^WordBits = 2 * 2^(WordBits - 1)
        BY <3>5, Words, PowersGrow, Powers
      <3> QED
        BY <3>4, <3>5, <3>6, Powers
    <2>3. ~(width < 0 /\ ~Unlimited(r, n))
      BY <1>2, <1>5
    <2> QED
      BY <2>1, <2>2, <2>3
  <1>6. CASE ~(Unlimited(r, n) \/ width > 0)
    <2>1. got = low
      BY <1>4, <1>6
    <2>2. ASSUME ~(width < 0 /\ ~Unlimited(r, n)), ~(width = 0 /\ ~r.extensible)
          PROVE  value = low
      <3>1. width = 0 /\ r.extensible
        BY <1>1, <1>2, <1>6, <2>2
      <3>2. low <= n /\ n <= up
        <4>1. ~(n < low \/ n > up)
          BY <1>6, <3>1 DEF Unlimited
        <4>2. n \in I64_MIN .. I64_MAX
          BY <1>1, <1>3, CastBack DEF SoundRange
        <4> QED
          BY <1>2, <4>1, <4>2
      <3>3. n = low /\ n \in Int
        <4>1. n \in I64_MIN .. I64_MAX
          BY <1>1, <1>3, CastBack DEF SoundRange
        <4> QED
          BY <1>2, <3>1, <3>2, <4>1
      <3>4. CASE value <= I64_MAX
        BY <1>1, <1>3, <3>3, <3>4, CastBack DEF SoundRange
      <3>5. CASE value > I64_MAX
        <4>1. TypeMin(r.type) = 0 /\ n < 0
          BY <1>1, <1>3, <3>5, CastBack DEF SoundRange
        <4>2. 0 <= low
          BY <1>1, <4>1 DEF SoundRange, LowerOf
        <4> QED
          BY <1>2, <3>3, <4>1, <4>2
      <3> QED
        BY <1>2, <1>3, <3>4, <3>5
    <2> QED
      BY <2>1, <2>2
  <1> QED
    BY <1>5, <1>6

\* The invariant brings numbers back.
LEMMA InvArrives == Inv => SentNumbersArrive
  <1> SUFFICES ASSUME Inv, decl \in Ranges
               PROVE  SentNumbersArrive
    BY DEF SentNumbersArrive
  <1> DEFINE n == AsI64(value)
             sent == phase \in {"written", "done"}
             wide == Compiled /\ Overflows /\ value # Nothing /\ ~AsUnconstrained(n)
  <1>1. AsUnconstrained(n) <=> Unlimited(rust, n)
    BY Operators
  <1>2. Lower = LowerOf(rust) /\ Width = WidthOf(rust)
    BY Operators
  <1>3. ASSUME phase \in Sending
        PROVE  /\ SoundRange(rust) /\ (Overflows <=> WidthOf(rust) < 0) /\ WidthOf(rust) \in Int
               /\ value # Nothing /\ Compiled
               /\ wide <=> WidthOf(rust) < 0 /\ ~Unlimited(rust, n)
    <2>1. SoundRange(rust)
      BY <1>3, CompiledType
    <2>2. (Overflows <=> WidthOf(rust) < 0) /\ WidthOf(rust) \in Int
      BY <2>1, Widths, Operators DEF Overflows
    <2>3. value # Nothing
      BY <1>3, NumbersAssumption DEF Inv, NumberOnItsWay
    <2>4. Compiled
      BY <1>3 DEF Compiled, Sending
    <2> QED
      BY <1>1, <2>1, <2>2, <2>3, <2>4
  <1>4. phase = "panic" <=> wide /\ checked
    <2>1. CASE phase \in Sending
      <3>1. phase = "panic" <=> WidthOf(rust) < 0 /\ ~Unlimited(rust, n) /\ checked
        BY <2>1 DEF Inv, NumberOnItsWay
      <3> QED
        BY <1>3, <2>1, <3>1
    <2>2. CASE phase \notin Sending
      <3>1. phase # "panic" /\ phase # "unknown" /\ value = Nothing
        BY <2>2 DEF Inv, Typed, Converted, Sending
      <3> QED
        BY <3>1
    <2> QED
      BY <2>1, <2>2
  <1>5. ASSUME sent, ~AsUnconstrained(n), ~Overflows, decl.min # Open,
               decl.min # OrElse(decl.max, I64_MAX)
        PROVE  InDeclared(value)
    <2>1. phase \in Sending
      BY <1>5 DEF Sending
    <2>2. WidthOf(rust) >= 0
      BY <1>3, <1>5, <2>1
    <2>3. ~Unlimited(rust, AsI64(value))
      BY <1>1, <1>5
    <2> QED
      BY <1>5, <2>2, <2>3, SentIsDeclared
  <1>6. ASSUME phase = "done"
        PROVE  got = value <=> value = Lower \/ ~(wide \/ (Width = 0 /\ ~rust.extensible))
    <2>1. phase \in Sending
      BY <1>6 DEF Sending
    <2>2. wide <=> WidthOf(rust) < 0 /\ ~Unlimited(rust, n)
      BY <1>3, <2>1
    <2>3. got = value <=>
            value = LowerOf(rust)
            \/ ~((WidthOf(rust) < 0 /\ ~Unlimited(rust, n))
                 \/ (WidthOf(rust) = 0 /\ ~rust.extensible))
      BY <1>6, ComesBack
    <2> HIDE DEF wide, n
    <2> QED
      BY <1>2, <2>2, <2>3
  <1> QED
    BY <1>4, <1>5, <1>6 DEF SentNumbersArrive

\* The invariant brings variants back.
LEMMA InvAgree == Inv => VariantsAgree
  BY DEF Inv, VariantOnItsWay, VariantsAgree

-----------------------------------------------------------------------------
(* The theorems *)

\* Every variable holds a value of its type, and the number read is one of its Rust type,
\* so that from_i64 never changes it.
THEOREM TypeCorrect == Spec => []TypeOK
  BY InvHolds, InvTypeOK, PTL

\* Whatever range is declared (from MIN excepted): generated code compiles, and its type
\* holds every value of the range up to an i64's greatest.
THEOREM RangesAreHeld == Spec => []TypesHoldTheirRange
  BY InvHolds, InvTypesHold, PTL

\* Whatever range is declared: a number is sent within it, as an extension or refused, and
\* read_number finds the number sent, but in a range of one value or wider than an i64.
THEOREM SentNumbersArriveHolds == Spec => []SentNumbersArrive
  BY InvHolds, InvArrives, PTL

\* Whatever variants two versions have: the index read is the index written, or one that the
\* reader does not know.
THEOREM VariantsAgreeHolds == Spec => []VariantsAgree
  BY InvHolds, InvAgree, PTL
=============================================================================
