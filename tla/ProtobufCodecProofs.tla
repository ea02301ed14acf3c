------------------------ MODULE ProtobufCodecProofs ------------------------
(***************************************************************************)
(* Types of the protobuf codec, and the count of tags of writer and        *)
(* reader, for all types and values.                                       *)
(***************************************************************************)
EXTENDS ProtobufCodec, FiniteSetTheorems, SequenceTheorems, NaturalsInduction,
        WellFoundedInduction, TLAPS

\* Induction on natural numbers about a set instead of a predicate.
LEMMA InductionBySet ==
  ASSUME NEW S, 0 \in S, \A n \in Nat : n \in S => n + 1 \in S
  PROVE  Nat \subseteq S
  <1> SUFFICES ASSUME Nat \ S # {} PROVE FALSE
    OBVIOUS
  <1>1. PICK x \in Nat \ S : \A y \in Nat \ S : << y, x >> \notin OpToRel(<, Nat)
    BY NatLessThanWellFounded, WFMin
  <1>2. x # 0 /\ x - 1 \in Nat /\ (x - 1) + 1 = x
    OBVIOUS
  <1>3. \A y \in Nat \ S : ~(y < x)
    BY <1>1 DEF OpToRel
  <1> QED
    BY <1>2, <1>3


-----------------------------------------------------------------------------
(* Stacks *)

IsSeq(s) == s \in Seq(Range(s))

\* A sequence has a length and its places.
LEMMA SeqFacts ==
  ASSUME NEW s, IsSeq(s)
  PROVE  Len(s) \in Nat /\ DOMAIN s = 1 .. Len(s) /\ (s = <<>> <=> Len(s) = 0)
  BY LenProperties, EmptySeq DEF IsSeq

\* What is pushed is on top, the rest below.
LEMMA Pushed ==
  ASSUME NEW s, IsSeq(s), NEW x
  PROVE  /\ IsSeq(<<x>> \o s) /\ <<x>> \o s # <<>> /\ Len(<<x>> \o s) = Len(s) + 1
         /\ Head(<<x>> \o s) = x /\ Tail(<<x>> \o s) = s
         /\ (<<x>> \o s)[1] = x /\ \A i \in 1 .. Len(s) : (<<x>> \o s)[i + 1] = s[i]
  <1> DEFINE S == Range(s) \cup {x}
             t == <<x>> \o s
  <1>1. s \in Seq(S) /\ <<x>> \in Seq(S) /\ Len(<<x>>) = 1
    BY SeqMonotonic DEF IsSeq
  <1>2. /\ t \in Seq(S) /\ Len(t) = 1 + Len(s)
        /\ \A i \in 1 .. 1 + Len(s) : t[i] = IF i <= 1 THEN <<x>>[i] ELSE s[i - 1]
    BY <1>1, ConcatProperties
  <1>3. IsSeq(t)
    BY <1>2, SeqOfRange DEF IsSeq
  <1>4. Len(s) \in Nat
    BY SeqFacts
  <1> HIDE DEF t, S
  <1>5. t[1] = x /\ \A i \in 1 .. Len(s) : t[i + 1] = s[i]
    BY <1>2, <1>4
  <1>6. t # <<>>
    BY <1>2, <1>3, <1>4, SeqFacts
  <1>7. Head(t) = x
    BY <1>2, <1>5, <1>6
  <1>8. Tail(t) = s
    <2>1. /\ Tail(t) \in Seq(S) /\ Len(Tail(t)) = Len(t) - 1
          /\ \A i \in 1 .. Len(Tail(t)) : Tail(t)[i] = t[i + 1]
      BY <1>2, <1>6, HeadTailProperties
    <2>2. Len(Tail(t)) = Len(s)
      BY <2>1, <1>2, <1>4
    <2> QED
      BY <2>1, <2>2, <1>1, <1>5, SeqEqual
  <1> QED
    BY <1>2, <1>3, <1>4, <1>5, <1>6, <1>7, <1>8 DEF t

\* Two are pushed at once, or one after the other.
LEMMA TwoPushed ==
  ASSUME NEW s, IsSeq(s), NEW x, NEW y
  PROVE  <<x, y>> \o s = <<x>> \o (<<y>> \o s) /\ <<x>> \o <<y>> \o s = <<x>> \o (<<y>> \o s)
  <1> DEFINE S == Range(s) \cup {x, y}
  <1>1. s \in Seq(S)
    BY SeqMonotonic DEF IsSeq
  <1>2. <<x>> \in Seq(S) /\ <<y>> \in Seq(S)
    OBVIOUS
  <1>4. <<x, y>> = <<x>> \o <<y>>
    <2>1. <<x, y>> \in Seq(S)
      OBVIOUS
    <2> HIDE DEF S
    <2>2. Len(<<x>>) = 1 /\ Len(<<y>>) = 1 /\ Len(<<x, y>>) = 2
      OBVIOUS
    <2>3. /\ <<x>> \o <<y>> \in Seq(S) /\ Len(<<x>> \o <<y>>) = 2
          /\ (<<x>> \o <<y>>)[1] = x /\ (<<x>> \o <<y>>)[2] = y
      <3>1. /\ <<x>> \o <<y>> \in Seq(S) /\ Len(<<x>> \o <<y>>) = Len(<<x>>) + Len(<<y>>)
            /\ \A i \in 1 .. Len(<<x>>) + Len(<<y>>) :
                 (<<x>> \o <<y>>)[i] = IF i <= Len(<<x>>) THEN <<x>>[i] ELSE <<y>>[i - Len(<<x>>)]
        BY <1>2, ConcatProperties
      <3> QED
        BY <2>2, <3>1
    <2>4. <<x, y>>[1] = x /\ <<x, y>>[2] = y
      OBVIOUS
    <2> DEFINE c == <<x>> \o <<y>>
               d == <<x, y>>
    <2>5. /\ c \in Seq(S) /\ d \in Seq(S) /\ Len(c) = 2 /\ Len(d) = 2
          /\ c[1] = d[1] /\ c[2] = d[2]
      BY <2>1, <2>2, <2>3, <2>4
    <2> HIDE DEF c, d
    <2>6. \A i \in 1 .. Len(d) : d[i] = c[i]
      BY <2>5
    <2>7. d = c
      BY <2>5, <2>6, SeqEqual
    <2> QED
      BY <2>7 DEF c, d
  <1> HIDE DEF S
  <1>3. (<<x>> \o <<y>>) \o s = <<x>> \o (<<y>> \o s)
    BY <1>1, <1>2, ConcatAssociative
  <1> QED
    BY <1>2, <1>3, <1>4

\* Nothing is pushed.
LEMMA NonePushed ==
  ASSUME NEW s, IsSeq(s), NEW x
  PROVE  <<x>> \o <<>> \o s = <<x>> \o s
  <1>1. <<x>> \in Seq({x})
    OBVIOUS
  <1>2. <<x>> \o <<>> = <<x>>
    BY <1>1, ConcatEmptySeq
  <1> QED
    BY <1>2

\* What is below the top is a stack.
LEMMA Popped ==
  ASSUME NEW s, IsSeq(s), s # <<>>
  PROVE  /\ IsSeq(Tail(s)) /\ Len(Tail(s)) = Len(s) - 1 /\ Len(s) \in Nat \ {0}
         /\ Head(s) = s[1] /\ \A i \in 1 .. Len(s) - 1 : Tail(s)[i] = s[i + 1]
  <1>1. /\ Tail(s) \in Seq(Range(s)) /\ Len(Tail(s)) = Len(s) - 1
        /\ \A i \in 1 .. Len(Tail(s)) : Tail(s)[i] = s[i + 1]
    BY HeadTailProperties DEF IsSeq
  <1>2. Len(s) \in Nat \ {0}
    BY SeqFacts
  <1>3. Head(s) = s[1]
    <2>1. s \in Seq(Range(s))
      BY DEF IsSeq
    <2> QED
      BY <2>1
  <1> QED
    BY <1>1, <1>2, <1>3, SeqOfRange DEF IsSeq

\* A table of the first numbers is a sequence.
LEMMA TableIsSeq ==
  ASSUME NEW n \in Nat, NEW a, a = [k \in 1 .. n |-> a[k]]
  PROVE  IsSeq(a) /\ Len(a) = n
  <1>1. \A k \in 1 .. n : a[k] \in Range(a)
    BY DEF Range
  <1>2. a \in [1 .. n -> Range(a)]
    BY <1>1
  <1>3. a \in Seq(Range(a))
    BY <1>2, SeqDef
  <1> QED
    BY <1>2, <1>3, LenProperties DEF IsSeq

-----------------------------------------------------------------------------
(* The order of components *)

\* Every component has its turn: the places of a SET's components in its order
\* are all of them.
LEMMA VisitedPlace ==
  ASSUME NEW type \in Types, type.kind \in {"sequence", "set"},
         NEW n \in 1 .. Len(type.of)
  PROVE  Visited(type, n) \in DOMAIN type.of
  <1>1. type.of \in Seq(Types) /\ DOMAIN type.of = 1 .. Len(type.of) /\ Len(type.of) \in Nat
    BY TypesAssumption, LenProperties DEF AreTypes
  <1>2. CASE type.kind = "sequence"
    BY <1>1, <1>2 DEF Visited
  <1>3. CASE type.kind = "set"
    <2> DEFINE D == 1 .. Len(type.of)
               Before(i) == {j \in D : VisitedBefore(type, j, i)}
               place == [i \in D |-> Cardinality(Before(i)) + 1]
    <2>0. /\ type.root \in Nat /\ type.tags \in [D -> Nat]
          /\ \A i, j \in D : type.tags[i] = type.tags[j] => i = j
      BY <1>1, <1>3, TypesAssumption DEF AreTypes
    <2>1. IsFiniteSet(D) /\ Cardinality(D) = Len(type.of)
      BY <1>1, FS_Interval
    <2>2. \A i \in D : IsFiniteSet(Before(i))
      BY <2>1, FS_Subset
    <2>3. ASSUME NEW i \in D PROVE place[i] \in D
      <3>1. Before(i) \subseteq D \ {i}
        <4> SUFFICES ~VisitedBefore(type, i, i)
          OBVIOUS
        <4> QED
          BY <2>0 DEF VisitedBefore
      <3>2. Cardinality(D \ {i}) = Len(type.of) - 1 /\ IsFiniteSet(D \ {i})
        BY <2>1, FS_RemoveElement
      <3>3. Cardinality(Before(i)) \in Nat /\ Cardinality(Before(i)) <= Len(type.of) - 1
        BY <3>1, <3>2, FS_Subset, FS_CardinalityType
      <3> HIDE DEF Before
      <3> QED
        BY <3>3, <1>1
    <2>4. ASSUME NEW i \in D, NEW j \in D, VisitedBefore(type, i, j)
          PROVE  place[i] < place[j]
      <3>1. Before(i) \subseteq Before(j)
        <4> SUFFICES ASSUME NEW k \in D, VisitedBefore(type, k, i)
                     PROVE  VisitedBefore(type, k, j)
          OBVIOUS
        <4>1. type.tags[k] \in Nat /\ type.tags[i] \in Nat /\ type.tags[j] \in Nat
          BY <2>0
        <4> QED
          BY <2>4, <4>1 DEF VisitedBefore
      <3>2. i \in Before(j) /\ i \notin Before(i)
        BY <2>0, <2>4 DEF VisitedBefore
      <3>3. IsFiniteSet(Before(j)) /\ IsFiniteSet(Before(i))
        BY <2>2
      <3> HIDE DEF Before
      <3>4. Cardinality(Before(i)) < Cardinality(Before(j))
        <4>1. Before(i) # Before(j)
          BY <3>2
        <4>2. /\ Cardinality(Before(i)) <= Cardinality(Before(j))
              /\ Cardinality(Before(i)) = Cardinality(Before(j)) => Before(i) = Before(j)
          BY <3>1, <3>3, FS_Subset
        <4>3. Cardinality(Before(i)) \in Nat /\ Cardinality(Before(j)) \in Nat
          BY <3>3, FS_CardinalityType
        <4> QED
          BY <4>1, <4>2, <4>3
      <3>5. Cardinality(Before(i)) \in Nat /\ Cardinality(Before(j)) \in Nat
        BY <3>3, FS_CardinalityType
      <3> QED
        BY <3>4, <3>5
    <2>5. ASSUME NEW i \in D, NEW j \in D, i # j
          PROVE  VisitedBefore(type, i, j) \/ VisitedBefore(type, j, i)
      BY <2>0, <2>5 DEF VisitedBefore
    <2>6. place \in Injection(D, D)
      <3>1. place \in [D -> D]
        BY <2>3
      <3>2. ASSUME NEW i \in D, NEW j \in D, i # j PROVE place[i] # place[j]
        <4>1. place[i] \in D /\ place[j] \in D
          BY <2>3
        <4>2. place[i] < place[j] \/ place[j] < place[i]
          BY <2>4, <2>5, <3>2
        <4> HIDE DEF place
        <4> QED
          BY <4>1, <4>2, <1>1
      <3> HIDE DEF place, D
      <3> QED
        BY <3>1, <3>2 DEF Injection, IsInjective
    <2>7. place \in Surjection(D, D)
      BY <2>1, <2>6, FS_Injection
    <2>8. PICK i \in D : place[i] = n
      <3> HIDE DEF place
      <3> QED
        BY <2>7 DEF Surjection
    <2>9. Cardinality({j \in DOMAIN type.of : VisitedBefore(type, j, i)}) = n - 1
      <3>1. Cardinality(Before(i)) \in Nat
        BY <2>2, FS_CardinalityType
      <3>2. Cardinality(Before(i)) + 1 = n
        BY <2>8
      <3> QED
        BY <3>1, <3>2, <1>1
    <2>10. \E m \in DOMAIN type.of :
             Cardinality({j \in DOMAIN type.of : VisitedBefore(type, j, m)}) = n - 1
      BY <2>9, <1>1
    <2> QED
      BY <2>10, <1>3 DEF Visited
  <1> QED
    BY <1>2, <1>3

-----------------------------------------------------------------------------
(* Tags that are used up *)

\* The tags that a component of this type and value uses up.
Uses(type, v) == IF IsNull(type) \/ (IsOptionalNull(type) /\ v # <<>>) THEN 0 ELSE 1

\* The tags that the components visited have used up.
Used(type, visited) == Len(visited) - Cardinality(Tagless(type, visited))

Component(type, n) == type.of[Visited(type, n)]

\* Before the first component no tag is used up.
LEMMA UsedByNone == \A type : Used(type, <<>>) = 0
  <1>1. \A type : Tagless(type, <<>>) = {}
    BY DEF Tagless
  <1> QED
    BY <1>1, FS_EmptySet DEF Used

\* There are finitely many that use none up.
LEMMA TaglessFinite ==
  ASSUME NEW type, NEW a, IsSeq(a)
  PROVE  Cardinality(Tagless(type, a)) \in Nat
  <1>1. IsFiniteSet(1 .. Len(a)) /\ DOMAIN a = 1 .. Len(a)
    BY SeqFacts, FS_Interval
  <1>2. Tagless(type, a) \subseteq 1 .. Len(a)
    BY <1>1 DEF Tagless
  <1> QED
    BY <1>1, <1>2, FS_Subset, FS_CardinalityType

\* A further component uses up its own.
LEMMA UsedByOneMore ==
  ASSUME NEW type, NEW a, IsSeq(a), NEW b, IsSeq(b), Len(b) = Len(a) + 1,
         \A k \in 1 .. Len(a) : b[k] = a[k]
  PROVE  /\ Used(type, b) = Used(type, a) + Uses(Component(type, Len(b)), b[Len(b)])
         /\ Used(type, a) \in Int /\ Used(type, b) \in Int
  <1> DEFINE n == Len(a)
             m == Len(b)
             last == Uses(Component(type, m), b[m]) = 0
  <1>1. n \in Nat /\ m = n + 1 /\ DOMAIN a = 1 .. n /\ DOMAIN b = 1 .. m
    BY SeqFacts
  <1>2. Tagless(type, a) = {k \in 1 .. n : Uses(Component(type, k), a[k]) = 0}
    BY <1>1 DEF Tagless, Uses, Component
  <1>3. Tagless(type, b) = {k \in 1 .. m : Uses(Component(type, k), b[k]) = 0}
    BY <1>1 DEF Tagless, Uses, Component
  <1>4. Tagless(type, b) = Tagless(type, a) \cup (IF last THEN {m} ELSE {})
    <2> HIDE DEF n, m
    <2>1. 1 .. m = (1 .. n) \cup {m}
      BY <1>1
    <2>2. \A k \in 1 .. n : b[k] = a[k]
      BY DEF n
    <2> QED
      BY <1>2, <1>3, <2>1, <2>2
  <1>5. IsFiniteSet(Tagless(type, a)) /\ m \notin Tagless(type, a)
    <2>1. IsFiniteSet(1 .. n)
      BY <1>1, FS_Interval
    <2>2. Tagless(type, a) \subseteq 1 .. n
      BY <1>2
    <2> QED
      BY <1>1, <2>1, <2>2, FS_Subset
  <1>6. Cardinality(Tagless(type, a)) \in Nat
    BY <1>5, FS_CardinalityType
  <1>7. Cardinality(Tagless(type, b)) = Cardinality(Tagless(type, a)) + (IF last THEN 1 ELSE 0)
    <2>1. CASE last
      <3>1. Tagless(type, b) = Tagless(type, a) \cup {m}
        BY <1>4, <2>1
      <3> QED
        BY <1>5, <2>1, <3>1, FS_AddElement
    <2>2. CASE ~last
      <3>1. Tagless(type, b) = Tagless(type, a)
        BY <1>4, <2>2
      <3> QED
        BY <1>6, <2>2, <3>1
    <2> QED
      BY <2>1, <2>2
  <1>8. Uses(Component(type, m), b[m]) = IF last THEN 0 ELSE 1
    BY DEF Uses
  <1> DEFINE x == Cardinality(Tagless(type, a))
             y == Cardinality(Tagless(type, b))
             u == Uses(Component(type, m), b[m])
  <1>9. Used(type, a) = n - x /\ Used(type, b) = m - y
    BY DEF Used
  <1>10. x \in Nat /\ y = x + (1 - u) /\ u \in {0, 1}
    BY <1>6, <1>7, <1>8
  <1> HIDE DEF n, m, x, y, u
  <1>11. m - y = (n - x) + u /\ n - x \in Int /\ m - y \in Int
    BY <1>1, <1>10
  <1> QED
    BY <1>9, <1>11 DEF m, u

-----------------------------------------------------------------------------
(* Bytes *)

\* The bytes of a varint, one after the other.
LEMMA VarintUnrolls ==
  ASSUME NEW v \in Nat
  PROVE  /\ Varint[v] = IF v > 127 THEN <<(v % 128) + 128>> \o Varint[v \div 128] ELSE <<v>>
         /\ Varint[v] \in Seq(Byte)
  <1> DEFINE Byt(f, n) == IF n > 127 THEN <<(n % 128) + 128>> \o f[n \div 128] ELSE <<n>>
             Rec(f, m) == \A i \in 0 .. m : f[i] = Byt(f, i)
             S == {m \in Nat : \E f \in [0 .. m -> Seq(Byte)] : Rec(f, m)}
  <1>1. ASSUME NEW f, NEW n \in Nat, n > 127 => f[n \div 128] \in Seq(Byte)
        PROVE  Byt(f, n) \in Seq(Byte)
    <2>1. CASE n > 127
      <3>1. (n % 128) + 128 \in Byte
        BY DEF Byte
      <3>2. <<(n % 128) + 128>> \in Seq(Byte)
        BY <3>1
      <3> QED
        BY <1>1, <2>1, <3>2, ConcatProperties
    <2>2. CASE ~(n > 127)
      <3>1. n \in Byte
        BY <2>2 DEF Byte
      <3> QED
        BY <2>2, <3>1
    <2> QED
      BY <2>1, <2>2
  <1>2. 0 \in S
    <2>1. [i \in 0 .. 0 |-> <<0>>] \in [0 .. 0 -> Seq(Byte)] /\ Rec([i \in 0 .. 0 |-> <<0>>], 0)
      <3>1. 0 \in Byte
        BY DEF Byte
      <3> QED
        BY <3>1
    <2> QED
      BY <2>1
  <1>3. ASSUME NEW m \in Nat, m \in S PROVE m + 1 \in S
    <2>1. PICK f \in [0 .. m -> Seq(Byte)] : Rec(f, m)
      BY <1>3
    <2>2. (m + 1) \div 128 \in 0 .. m /\ \A i \in 0 .. m : i \div 128 \in 0 .. m
      OBVIOUS
    <2> DEFINE b == Byt(f, m + 1)
               g == [i \in 0 .. m + 1 |-> IF i = m + 1 THEN b ELSE f[i]]
    <2>3. b \in Seq(Byte)
      BY <1>1, <2>2
    <2> HIDE DEF b
    <2>4. g \in [0 .. m + 1 -> Seq(Byte)]
      BY <2>1, <2>3
    <2>5. ASSUME NEW i \in 0 .. m + 1 PROVE g[i] = Byt(g, i)
      <3>1. i \div 128 \in 0 .. m /\ i \div 128 # m + 1 /\ i \div 128 \in 0 .. m + 1
        BY <2>2
      <3>2. g[i \div 128] = f[i \div 128]
        BY <3>1
      <3>3. CASE i = m + 1
        <4>1. g[i] = b
          BY <3>3
        <4> HIDE DEF g
        <4> QED
          BY <3>2, <3>3, <4>1 DEF b
      <3>4. CASE i # m + 1
        <4>1. i \in 0 .. m
          BY <3>4
        <4>2. g[i] = f[i]
          BY <3>4
        <4> HIDE DEF g
        <4> QED
          BY <2>1, <3>2, <4>1, <4>2
      <3> QED
        BY <3>3, <3>4
    <2> HIDE DEF g, Byt
    <2>6. Rec(g, m + 1) /\ m + 1 \in Nat
      BY <2>5
    <2> HIDE DEF Rec
    <2> QED
      BY <2>4, <2>6
  <1>4. Nat \subseteq S
    <2> HIDE DEF S
    <2> QED
      BY <1>2, <1>3, InductionBySet
  <1>5. ASSUME NEW m \in Nat, NEW n \in Nat, NEW f, Rec(f, m), NEW g, Rec(g, n), m <= n
        PROVE  \A i \in 0 .. m : f[i] = g[i]
    <2> DEFINE A == {k \in Nat : \A i \in 0 .. k : i <= m => f[i] = g[i]}
    <2>1. 0 \in A
      <3>1. 0 \in 0 .. m /\ 0 \in 0 .. n /\ Byt(f, 0) = <<0>> /\ Byt(g, 0) = <<0>>
        OBVIOUS
      <3> HIDE DEF Byt
      <3>2. f[0] = g[0]
        BY <1>5, <3>1
      <3> QED
        BY <3>2
    <2>2. ASSUME NEW k \in Nat, k \in A PROVE k + 1 \in A
      <3> SUFFICES ASSUME k + 1 <= m PROVE f[k + 1] = g[k + 1]
        BY <2>2
      <3>1. k + 1 \in 0 .. m /\ k + 1 \in 0 .. n
        BY <1>5
      <3>2. (k + 1) \div 128 \in 0 .. k /\ (k + 1) \div 128 <= m
        OBVIOUS
      <3>3. f[(k + 1) \div 128] = g[(k + 1) \div 128]
        BY <2>2, <3>2
      <3> QED
        BY <1>5, <3>1, <3>3
    <2>3. Nat \subseteq A
      <3> HIDE DEF A
      <3> QED
        BY <2>1, <2>2, InductionBySet
    <2> QED
      BY <2>3
  <1> DEFINE P(n) == CHOOSE f \in [0 .. n -> Seq(Byte)] : Rec(f, n)
             F == [n \in Nat |-> P(n)[n]]
  <1>6. ASSUME NEW n \in Nat PROVE P(n) \in [0 .. n -> Seq(Byte)] /\ Rec(P(n), n)
    <2>1. \E f \in [0 .. n -> Seq(Byte)] : Rec(f, n)
      BY <1>4
    <2> HIDE DEF Rec
    <2> QED
      BY <2>1
  <1>7. \A n \in Nat : F[n] = Byt(F, n) /\ F[n] \in Seq(Byte)
    <2> SUFFICES ASSUME NEW n \in Nat PROVE F[n] = Byt(F, n) /\ F[n] \in Seq(Byte)
      OBVIOUS
    <2>1. n \div 128 \in 0 .. n /\ n \div 128 \in Nat /\ n \in 0 .. n /\ n \div 128 <= n
      OBVIOUS
    <2>2. P(n)[n] = Byt(P(n), n) /\ P(n)[n] \in Seq(Byte)
      <3> HIDE DEF P, Byt
      <3> QED
        BY <1>6, <2>1
    <2>3. P(n \div 128)[n \div 128] = P(n)[n \div 128]
      <3>1. \A i \in 0 .. n \div 128 : P(n \div 128)[i] = P(n)[i]
        <4> DEFINE q == n \div 128
        <4>1. q \in Nat /\ q <= n
          BY <2>1
        <4> HIDE DEF P, Rec, q
        <4>2. Rec(P(q), q) /\ Rec(P(n), n)
          BY <1>6, <4>1
        <4>3. \A i \in 0 .. q : P(q)[i] = P(n)[i]
          BY <1>5, <4>1, <4>2
        <4> QED
          BY <4>3 DEF q
      <3>2. n \div 128 \in 0 .. n \div 128
        BY <2>1
      <3> HIDE DEF P
      <3> QED
        BY <3>1, <3>2
    <2>4. F[n] = P(n)[n] /\ F[n \div 128] = P(n \div 128)[n \div 128]
      <3> HIDE DEF P
      <3> QED
        BY <2>1
    <2> HIDE DEF P, F
    <2> QED
      BY <2>2, <2>3, <2>4
  <1>8. F = [n \in Nat |-> Byt(F, n)]
    <2>1. F = [n \in Nat |-> F[n]]
      <3> HIDE DEF P
      <3> QED
        OBVIOUS
    <2> HIDE DEF F, Byt
    <2> QED
      BY <1>7, <2>1
  <1>9. Varint = [n \in Nat |-> Byt(Varint, n)]
    <2>1. \E f : f = [n \in Nat |-> Byt(f, n)]
      <3> HIDE DEF F
      <3> QED
        BY <1>8
    <2> QED
      BY <2>1 DEF Varint
  <1>10. \A n \in Nat : Varint[n] = Byt(Varint, n)
    <2> DEFINE V == Varint
    <2>1. V = [n \in Nat |-> Byt(V, n)]
      BY <1>9
    <2> HIDE DEF V, Byt
    <2>2. \A n \in Nat : V[n] = Byt(V, n)
      BY <2>1
    <2> QED
      BY <2>2 DEF V
  <1>11. ASSUME NEW V, \A n \in Nat : V[n] = Byt(V, n)
         PROVE  \A n \in Nat : V[n] \in Seq(Byte)
    <2> DEFINE T == {k \in Nat : \A i \in 0 .. k : V[i] \in Seq(Byte)}
    <2>1. 0 \in T
      <3>1. Byt(V, 0) \in Seq(Byte)
        <4>1. ~(0 > 127)
          OBVIOUS
        <4> QED
          BY <1>1, <4>1
      <3> HIDE DEF Byt
      <3>2. V[0] \in Seq(Byte)
        BY <1>11, <3>1
      <3> QED
        BY <3>2
    <2>2. ASSUME NEW k \in Nat, k \in T PROVE k + 1 \in T
      <3>1. (k + 1) \div 128 \in 0 .. k /\ k + 1 \in Nat
        OBVIOUS
      <3>2. V[(k + 1) \div 128] \in Seq(Byte)
        BY <2>2, <3>1
      <3>3. Byt(V, k + 1) \in Seq(Byte)
        BY <1>1, <3>1, <3>2
      <3> HIDE DEF Byt
      <3>4. V[k + 1] \in Seq(Byte)
        BY <1>11, <3>1, <3>3
      <3> QED
        BY <2>2, <3>4
    <2>3. Nat \subseteq T
      <3> HIDE DEF T
      <3> QED
        BY <2>1, <2>2, InductionBySet
    <2>4. ASSUME NEW n \in Nat PROVE V[n] \in Seq(Byte)
      <3>1. n \in T
        <4> HIDE DEF T
        <4> QED
          BY <2>3
      <3>2. n \in 0 .. n
        OBVIOUS
      <3> QED
        BY <3>1, <3>2
    <2> QED
      BY <2>4
  <1>12. \A n \in Nat : Varint[n] \in Seq(Byte)
    <2> HIDE DEF Byt
    <2> QED
      BY <1>10, <1>11
  <1> QED
    BY <1>10, <1>12

\* A tag and its format are bytes.
LEMMA TagBytesType ==
  ASSUME NEW tag \in Nat, NEW format \in Formats
  PROVE  TagBytes(tag, format) \in Seq(Byte)
  <1>1. tag * 8 + format \in Nat
    BY DEF Formats, VarInt, Fixed64, LengthDelimited, Fixed32
  <1> QED
    BY <1>1, VarintUnrolls DEF TagBytes

\* A length and its bytes are bytes.
LEMMA LengthPrefixedType ==
  ASSUME NEW b \in Seq(Byte)
  PROVE  LengthPrefixed(b) \in Seq(Byte)
  <1>1. Len(b) \in Nat
    OBVIOUS
  <1> QED
    BY <1>1, VarintUnrolls, ConcatProperties DEF LengthPrefixed

\* The length of a BIT STRING is eight bytes.
LEMMA BigEndian64Type ==
  ASSUME NEW n \in Nat
  PROVE  BigEndian64(n) \in Seq(Byte)
  <1>1. ASSUME NEW i \in 1 .. 8
        PROVE  (IF i < 6 THEN 0 ELSE (n \div 256 ^ (8 - i)) % 256) \in Byte
    <2>1. 256 ^ 0 = 1 /\ 256 ^ 1 = 256 /\ 256 ^ 2 = 65536
      OBVIOUS
    <2>2. \A d \in {1, 256, 65536} : (n \div d) % 256 \in 0 .. 255
      OBVIOUS
    <2>3. CASE i < 6
      BY <2>3 DEF Byte
    <2>4. CASE i = 6
      <3>1. 8 - i = 2
        BY <2>4
      <3> QED
        BY <2>1, <2>2, <2>4, <3>1 DEF Byte
    <2>5. CASE i = 7
      <3>1. 8 - i = 1
        BY <2>5
      <3> QED
        BY <2>1, <2>2, <2>5, <3>1 DEF Byte
    <2>6. CASE i = 8
      <3>1. 8 - i = 0
        BY <2>6
      <3> QED
        BY <2>1, <2>2, <2>6, <3>1 DEF Byte
    <2>7. i < 6 \/ i = 6 \/ i = 7 \/ i = 8
      OBVIOUS
    <2> QED
      BY <2>3, <2>4, <2>5, <2>6, <2>7
  <1>2. BigEndian64(n) \in [1 .. 8 -> Byte]
    <2> DEFINE e(i) == IF i < 6 THEN 0 ELSE (n \div 256 ^ (8 - i)) % 256
    <2>1. \A i \in 1 .. 8 : e(i) \in Byte
      BY <1>1
    <2>2. BigEndian64(n) = [i \in 1 .. 8 |-> e(i)]
      BY DEF BigEndian64
    <2> HIDE DEF e
    <2> QED
      BY <2>1, <2>2
  <1>3. [1 .. 8 -> Byte] \subseteq Seq(Byte)
    <2>1. 8 \in Nat
      OBVIOUS
    <2> QED
      BY <2>1, SeqDef
  <1> QED
    BY <1>2, <1>3

\* A value has its bytes.
LEMMA PayloadType ==
  ASSUME NEW type, NEW v, <<type, v>> \in Values, type.kind \in LeafKinds
  PROVE  Payload(type.kind, v) \in Seq(Byte)
  <1> DEFINE kind == type.kind
  <1>1. /\ kind = "number" => v \in Nat
        /\ kind = "signed" => v \in Int
        /\ kind = "boolean" => v \in BOOLEAN
        /\ kind = "bytes" => v \in Seq(Byte)
        /\ kind = "bits" => v[1] \in Seq(Byte) /\ v[2] \in Nat /\ v[2] <= 8 * Len(v[1])
    BY ValuesAssumption DEF AreValues
  <1> SUFFICES Payload(kind, v) \in Seq(Byte)
    OBVIOUS
  <1> HIDE DEF kind
  <1>2. CASE kind = "number"
    BY <1>1, <1>2, VarintUnrolls DEF Payload
  <1>3. CASE kind = "signed"
    <2>1. ZigZag(v) \in Nat
      BY <1>1, <1>3 DEF ZigZag
    <2> QED
      BY <1>3, <2>1, VarintUnrolls DEF Payload
  <1>4. CASE kind = "boolean"
    <2>1. 0 \in Byte /\ 1 \in Byte
      BY DEF Byte
    <2>2. <<0>> \in Seq(Byte) /\ <<1>> \in Seq(Byte)
      BY <2>1
    <2>3. Payload(kind, v) = IF v THEN <<1>> ELSE <<0>>
      BY <1>4 DEF Payload
    <2> QED
      BY <2>2, <2>3
  <1>5. CASE kind = "bytes"
    BY <1>1, <1>5, LengthPrefixedType DEF Payload
  <1>6. CASE kind = "bits"
    <2> DEFINE b == SubSeq(v[1], 1, (v[2] + 7) \div 8)
    <2>1. b \in Seq(Byte)
      <3> DEFINE m == Len(v[1])
                 n == v[2]
      <3>1. m \in Nat /\ n \in Nat /\ n <= 8 * m
        BY <1>1, <1>6
      <3> HIDE DEF m, n
      <3>2. (n + 7) \div 8 \in Int /\ (n + 7) \div 8 <= m
        BY <3>1
      <3>3. \A i \in 1 .. m : v[1][i] \in Byte
        BY <1>1, <1>6, ElementOfSeq DEF m
      <3>4. \A i \in 1 .. (n + 7) \div 8 : v[1][i] \in Byte
        BY <3>1, <3>2, <3>3
      <3>5. SubSeq(v[1], 1, (n + 7) \div 8) \in Seq(Byte)
        BY <3>2, <3>4, SubSeqProperties
      <3> QED
        BY <3>5 DEF n
    <2>2. BigEndian64(v[2]) \in Seq(Byte)
      BY <1>1, <1>6, BigEndian64Type
    <2>3. Payload(kind, v) = LengthPrefixed(b \o BigEndian64(v[2]))
      BY <1>6 DEF Payload
    <2> HIDE DEF b
    <2> QED
      BY <2>1, <2>2, <2>3, ConcatProperties, LengthPrefixedType
  <1>7. kind \in {"number", "signed", "boolean", "bytes", "bits"}
    BY DEF kind, LeafKinds
  <1> QED
    BY <1>2, <1>3, <1>4, <1>5, <1>6, <1>7

-----------------------------------------------------------------------------
(* The calls of the writer *)

\* The tags that the components visited so far by this call have used up.
Count(f) == Used(f.type, [k \in 1..(f.next - 1) |-> f.value[Visited(f.type, k)]])

\* Calls of the writer that another one has interrupted, below it on the stack.
IsWriteSetOrSequence(f) ==
    /\ f.does = "components"
    /\ f = [does |-> f.does, type |-> f.type, value |-> f.value,
            next |-> f.next, root |-> f.root, outer |-> f.outer, counter |-> f.counter]
    /\ <<f.type, f.value>> \in Values /\ f.type.kind \in {"sequence", "set"}
    /\ f.next \in 1..(Len(f.type.of) + 1)
    /\ f.root \in BOOLEAN /\ f.outer \in Seq(Byte)

IsWriteElements(f) ==
    /\ f.does = "elements"
    /\ f = [does |-> f.does, of |-> f.of, todo |-> f.todo, counter |-> f.counter]
    /\ IsSeq(f.todo) /\ \A i \in 1..Len(f.todo) : <<f.of, f.todo[i]>> \in Values

IsWriteAlternative(f) == f.does = "alternative" /\ f.outer \in Seq(Byte)

IsWriting(f) ==
    /\ f.counter \in Nat
    /\ IsWriteSetOrSequence(f) \/ IsWriteElements(f) \/ IsWriteAlternative(f)

\* Only lists wait, as long as the root flag is set.
OnlyLists(s) == \A i \in 1..Len(s) : s[i].does = "elements"

\* The call on top, if it visits components, has counted n tags.
Owed(s, n) == s # <<>> /\ Head(s).does = "components" => Count(Head(s)) = n

\* Every call has left one tag to be used up to the one that waits for it.
AreWriting(s) ==
    /\ IsSeq(s)
    /\ \A i \in 1..Len(s) : IsWriting(s[i])
    /\ \A i \in 1..(Len(s) - 1) :
         s[i + 1].does = "components" => Count(s[i + 1]) = s[i].counter + 1
    /\ \A i, j \in 1..Len(s) :
         i < j /\ s[i].does = "components" /\ s[i].root => s[j].does = "elements"

WriterInv ==
    /\ result = <<>>
    /\ IF Does("write")
       THEN /\ <<Top.type, Top.value>> \in Values
            /\ AreWriting(Within) /\ (isRoot => OnlyLists(Within))
            /\ Owed(Within, tagCounter + Uses(Top.type, Top.value))
       ELSE AreWriting(calls) /\ (isRoot => OnlyLists(calls)) /\ Owed(calls, tagCounter)

-----------------------------------------------------------------------------
(* The calls of the reader *)

\* A level of the reader.
IsLevel(l) ==
    \/ l.root /\ l = Root(l.range)
    \/ /\ ~l.root
       /\ l = [root |-> FALSE, counter |-> l.counter, fields |-> l.fields]
       /\ l.counter \in Nat \ {0}

\* The call on top, if it visits components, has got this r as its next one.
Gets1(s, l, r) ==
    s # <<>> /\ Head(s).does = "components" =>
        /\ ~l.root
        /\ Len(Head(s).got \o r) = Head(s).next - 1
        /\ l.counter = Used(Head(s).type, Head(s).got \o r) + 1

\* The same, where a read_opt hands it on.
Gets(s, l, r) ==
    /\ Gets1(s, l, r)
    /\ s # <<>> /\ Head(s).does = "some" => Gets1(Tail(s), l, <<r>>)

\* The call on top, if it visits components, waits for a value of this type.
Awaits1(s, l, type) ==
    s # <<>> /\ Head(s).does = "components" =>
        /\ ~l.root
        /\ Len(Head(s).got) = Head(s).next - 2
        /\ l.counter = Used(Head(s).type, Head(s).got) + 1
        /\ Component(Head(s).type, Head(s).next - 1) = type

Awaits(s, l, type) ==
    /\ Awaits1(s, l, type)
    /\ s # <<>> /\ Head(s).does = "some" =>
         /\ type.kind # "optional"
         /\ \E t \in Types : t.kind = "optional" /\ t.of = type /\ Awaits1(Tail(s), l, t)

IsReadSetOrSequence(f) ==
    /\ f.does = "components"
    /\ f = [does |-> f.does, type |-> f.type, got |-> f.got, next |-> f.next,
            outer |-> f.outer]
    /\ f.type \in Types /\ f.type.kind \in {"sequence", "set"}
    /\ IsSeq(f.got) /\ f.next \in 1..(Len(f.type.of) + 1)

IsReadElements(f) ==
    /\ f.does = "elements"
    /\ f = [does |-> f.does, of |-> f.of, got |-> f.got, outer |-> f.outer]
    /\ f.of \in Types

IsReading(f) ==
    \/ (IsReadSetOrSequence(f) \/ IsReadElements(f) \/ f.does = "alternative")
       /\ IsLevel(f.outer)
    \/ f.does = "some"

\* What a call leaves to the one that waits for it: its level, and any value.
Leaves(f, s) ==
    LET l == IF f.does = "elements" THEN IncrementTagCounter(f.outer) ELSE f.outer
    IN  IF f.does = "some" THEN s # <<>> => Head(s).does # "some"
        ELSE \A v : Gets(s, l, <<v>>)

AreReading(s) ==
    /\ IsSeq(s)
    /\ \A i \in 1..Len(s) : IsReading(s[i]) /\ Leaves(s[i], SubSeq(s, i + 1, Len(s)))

ReaderInv ==
    /\ calls # <<>>
    /\ IF Does("read")
       THEN /\ result = <<>> /\ Top.type \in Types
            /\ AreReading(Within) /\ Awaits(Within, level, Top.type)
       ELSE AreReading(calls) /\ Gets(calls, level, result)

-----------------------------------------------------------------------------
Typed ==
    /\ \E i \in DOMAIN Messages : message = Messages[i]
    /\ phase \in {"write", "read", "done", "failed", "panicked"}
    /\ IsSeq(calls)
    /\ buffer \in Seq(Byte) /\ tagCounter \in Nat /\ isRoot \in BOOLEAN
    /\ IsLevel(level) /\ IsSeq(result) /\ Len(result) <= 1

Inv ==
    /\ Typed
    /\ phase = "write" => WriterInv
    /\ phase = "read" => ReaderInv
    /\ Ended => calls = <<>>

-----------------------------------------------------------------------------
(* Calls of the writer on the stack *)

\* A call that goes on top of those that wait for it.
LEMMA PushWriting ==
  ASSUME NEW s, AreWriting(s), NEW f, IsWriting(f), Owed(s, f.counter + 1),
         f.does = "components" /\ f.root => OnlyLists(s)
  PROVE  AreWriting(<<f>> \o s)
  <1> DEFINE t == <<f>> \o s
             n == Len(s)
  <1>1. /\ IsSeq(t) /\ Len(t) = n + 1 /\ t[1] = f
        /\ \A i \in 1 .. n : t[i + 1] = s[i]
    BY Pushed DEF AreWriting
  <1>2. n \in Nat /\ (s = <<>> <=> n = 0) /\ (n # 0 => Head(s) = s[1])
    BY SeqFacts, Popped DEF AreWriting
  <1> HIDE DEF t
  <1>3. ASSUME NEW i \in 1 .. n + 1 PROVE i = 1 \/ (i - 1 \in 1 .. n /\ t[i] = s[i - 1])
    <2> SUFFICES ASSUME i # 1 PROVE i - 1 \in 1 .. n /\ t[i] = s[i - 1]
      OBVIOUS
    <2> HIDE DEF n
    <2>1. i - 1 \in 1 .. n /\ (i - 1) + 1 = i
      BY <1>2
    <2>2. t[(i - 1) + 1] = s[i - 1]
      BY <1>1, <2>1
    <2> QED
      BY <2>1, <2>2
  <1>4. \A i \in 1 .. n + 1 : IsWriting(t[i])
    <2>1. \A i \in 1 .. n : IsWriting(s[i])
      BY DEF AreWriting
    <2> QED
      BY <1>1, <1>3, <2>1
  <1>5. ASSUME NEW i \in 1 .. n, t[i + 1].does = "components"
        PROVE  Count(t[i + 1]) = t[i].counter + 1
    <2>1. t[i + 1] = s[i]
      BY <1>1
    <2>2. CASE i = 1
      <3>1. n # 0 /\ s # <<>> /\ Head(s) = s[1]
        BY <1>2, <2>2
      <3> QED
        BY <1>1, <1>5, <2>1, <2>2, <3>1 DEF Owed
    <2>3. CASE i # 1
      <3>1. i - 1 \in 1 .. n - 1 /\ (i - 1) + 1 = i /\ i \in 1 .. n + 1
        BY <1>2, <2>3
      <3>2. t[i] = s[i - 1]
        BY <1>3, <2>3, <3>1
      <3>3. \A k \in 1 .. n - 1 :
              s[k + 1].does = "components" => Count(s[k + 1]) = s[k].counter + 1
        BY DEF AreWriting
      <3>4. s[(i - 1) + 1].does = "components" =>
              Count(s[(i - 1) + 1]) = s[i - 1].counter + 1
        BY <3>1, <3>3
      <3> QED
        BY <1>5, <2>1, <3>1, <3>2, <3>4
    <2> QED
      BY <2>2, <2>3
  <1>6. ASSUME NEW i \in 1 .. n + 1, NEW j \in 1 .. n + 1,
               i < j, t[i].does = "components", t[i].root
        PROVE  t[j].does = "elements"
    <2>1. j # 1
      BY <1>6
    <2>2. j - 1 \in 1 .. n /\ t[j] = s[j - 1]
      BY <1>3, <2>1
    <2>3. CASE i = 1
      <3>1. OnlyLists(s)
        BY <1>1, <1>6, <2>3
      <3> QED
        BY <2>2, <3>1 DEF OnlyLists
    <2>4. CASE i # 1
      <3>1. i - 1 \in 1 .. n /\ t[i] = s[i - 1]
        BY <1>3, <2>4
      <3>2. \A k, l \in 1 .. n :
              k < l /\ s[k].does = "components" /\ s[k].root => s[l].does = "elements"
        BY DEF AreWriting
      <3>3. i - 1 < j - 1
        BY <1>6
      <3>4. s[j - 1].does = "elements"
        BY <1>6, <2>2, <3>1, <3>2, <3>3
      <3> QED
        BY <2>2, <3>4
    <2> QED
      BY <2>3, <2>4
  <1>7. (n + 1) - 1 = n
    BY <1>2
  <1> SUFFICES AreWriting(t)
    BY DEF t
  <1> QED
    <2>1. Len(t) = n + 1 /\ Len(t) - 1 = n
      BY <1>1, <1>7
    <2> HIDE DEF n
    <2> QED
      BY <1>1, <1>4, <1>5, <1>6, <2>1 DEF AreWriting

\* The call on top, and those that wait for it.
LEMMA PopWriting ==
  ASSUME NEW s, AreWriting(s), s # <<>>
  PROVE  /\ IsWriting(Head(s)) /\ AreWriting(Tail(s))
         /\ Owed(Tail(s), Head(s).counter + 1)
         /\ Head(s).does = "components" /\ Head(s).root => OnlyLists(Tail(s))
  <1> DEFINE t == Tail(s)
             n == Len(s)
  <1>1. /\ IsSeq(t) /\ Len(t) = n - 1 /\ n \in Nat \ {0} /\ Head(s) = s[1]
        /\ \A i \in 1 .. n - 1 : t[i] = s[i + 1]
    BY Popped DEF AreWriting
  <1>2. /\ \A i \in 1 .. n : IsWriting(s[i])
        /\ \A i \in 1 .. n - 1 :
             s[i + 1].does = "components" => Count(s[i + 1]) = s[i].counter + 1
        /\ \A i, j \in 1 .. n :
             i < j /\ s[i].does = "components" /\ s[i].root => s[j].does = "elements"
    BY DEF AreWriting
  <1>3. t # <<>> => Head(t) = s[2] /\ 1 \in 1 .. n - 1
    <2> SUFFICES ASSUME t # <<>> PROVE Head(t) = s[2] /\ 1 \in 1 .. n - 1
      OBVIOUS
    <2>1. Len(t) \in Nat \ {0} /\ Head(t) = t[1]
      BY <1>1, Popped
    <2> HIDE DEF t, n
    <2>2. 1 \in 1 .. n - 1 /\ 1 + 1 = 2
      BY <1>1, <2>1
    <2> QED
      BY <1>1, <2>1, <2>2
  <1> HIDE DEF t, n
  <1>4. IsWriting(Head(s))
    BY <1>1, <1>2
  <1>5. AreWriting(t)
    <2>1. \A i \in 1 .. n - 1 : IsWriting(t[i])
      <3>1. \A i \in 1 .. n - 1 : i + 1 \in 1 .. n
        BY <1>1
      <3> QED
        BY <1>1, <1>2, <3>1
    <2>2. ASSUME NEW i \in 1 .. (n - 1) - 1, t[i + 1].does = "components"
          PROVE  Count(t[i + 1]) = t[i].counter + 1
      <3>1. i \in 1 .. n - 1 /\ i + 1 \in 1 .. n - 1
        BY <1>1
      <3>2. t[i] = s[i + 1] /\ t[i + 1] = s[(i + 1) + 1]
        BY <1>1, <3>1
      <3>3. s[(i + 1) + 1].does = "components" =>
              Count(s[(i + 1) + 1]) = s[i + 1].counter + 1
        BY <1>2, <3>1
      <3> QED
        BY <2>2, <3>2, <3>3
    <2>3. ASSUME NEW i \in 1 .. n - 1, NEW j \in 1 .. n - 1,
                 i < j, t[i].does = "components", t[i].root
          PROVE  t[j].does = "elements"
      <3>1. i + 1 \in 1 .. n /\ j + 1 \in 1 .. n /\ i + 1 < j + 1
        BY <1>1, <2>3
      <3>2. t[i] = s[i + 1] /\ t[j] = s[j + 1]
        BY <1>1
      <3> QED
        BY <1>2, <2>3, <3>1, <3>2
    <2> QED
      BY <1>1, <2>1, <2>2, <2>3 DEF AreWriting
  <1>6. Owed(t, Head(s).counter + 1)
    <2>1. 1 + 1 = 2
      OBVIOUS
    <2>2. 1 \in 1 .. n - 1 => (s[2].does = "components" => Count(s[2]) = s[1].counter + 1)
      BY <1>2, <2>1
    <2> QED
      BY <1>1, <1>3, <2>2 DEF Owed
  <1>7. ASSUME Head(s).does = "components", Head(s).root PROVE OnlyLists(t)
    <2>1. ASSUME NEW i \in 1 .. n - 1 PROVE t[i].does = "elements"
      <3>1. i + 1 \in 1 .. n /\ 1 \in 1 .. n /\ 1 < i + 1
        BY <1>1
      <3> QED
        BY <1>1, <1>2, <1>7, <3>1
    <2> QED
      BY <1>1, <2>1 DEF OnlyLists
  <1> QED
    BY <1>4, <1>5, <1>6, <1>7 DEF t

\* Where there are only lists, none of them counts.
LEMMA ListsOwe ==
  ASSUME NEW s, IsSeq(s), OnlyLists(s)
  PROVE  /\ \A n : Owed(s, n)
         /\ s # <<>> => OnlyLists(Tail(s))
         /\ \A f : f.does = "elements" => OnlyLists(<<f>> \o s)
  <1>1. ASSUME s # <<>> PROVE OnlyLists(Tail(s)) /\ Head(s).does = "elements"
    <2> DEFINE n == Len(s)
               t == Tail(s)
    <2>1. /\ Len(t) = n - 1 /\ n \in Nat \ {0} /\ Head(s) = s[1]
          /\ \A i \in 1 .. n - 1 : t[i] = s[i + 1]
      BY <1>1, Popped
    <2>2. \A i \in 1 .. n : s[i].does = "elements"
      BY DEF OnlyLists
    <2> HIDE DEF n, t
    <2>3. 1 \in 1 .. n /\ \A i \in 1 .. n - 1 : i + 1 \in 1 .. n
      BY <2>1
    <2>4. OnlyLists(t)
      BY <2>1, <2>2, <2>3 DEF OnlyLists
    <2> QED
      BY <2>1, <2>2, <2>3, <2>4 DEF t
  <1>2. ASSUME NEW f, f.does = "elements" PROVE OnlyLists(<<f>> \o s)
    <2> DEFINE n == Len(s)
               t == <<f>> \o s
    <2>1. Len(t) = n + 1 /\ t[1] = f /\ \A i \in 1 .. n : t[i + 1] = s[i]
      BY Pushed
    <2>2. n \in Nat
      BY SeqFacts
    <2>3. \A i \in 1 .. n : s[i].does = "elements"
      BY DEF OnlyLists
    <2> HIDE DEF n, t
    <2>4. ASSUME NEW i \in 1 .. n + 1 PROVE t[i].does = "elements"
      <3>1. CASE i = 1
        BY <1>2, <2>1, <3>1
      <3>2. CASE i # 1
        <4>1. i - 1 \in 1 .. n /\ (i - 1) + 1 = i
          BY <2>2, <3>2
        <4>2. t[(i - 1) + 1] = s[i - 1]
          BY <2>1, <4>1
        <4> QED
          BY <2>3, <4>1, <4>2
      <3> QED
        BY <3>1, <3>2
    <2> QED
      BY <2>1, <2>4 DEF OnlyLists, t
  <1> QED
    BY <1>1, <1>2 DEF Owed

\* A call of the writer that waits visits something, and does not write yet.
LEMMA WaitingWrites ==
  ASSUME NEW s, AreWriting(s), s # <<>>
  PROVE  Head(s).does # "write"
  BY PopWriting DEF IsWriting, IsWriteSetOrSequence, IsWriteElements, IsWriteAlternative

\* Before its first component a call has counted nothing.
LEMMA CountStarts ==
  ASSUME NEW f, f.next = 1
  PROVE  Count(f) = 0
  <1>1. [k \in 1 .. (f.next - 1) |-> f.value[Visited(f.type, k)]] = <<>>
    OBVIOUS
  <1> QED
    BY <1>1, UsedByNone DEF Count

\* With a further component it has counted what that one uses up.
LEMMA CountGoesOn ==
  ASSUME NEW f, IsWriteSetOrSequence(f), f.next <= Len(f.type.of), NEW g,
         g = [f EXCEPT !.next = @ + 1], NEW i, i = Visited(f.type, f.next)
  PROVE  /\ IsWriteSetOrSequence(g) /\ g.counter = f.counter /\ g.root = f.root
         /\ <<f.type.of[i], f.value[i]>> \in Values
         /\ Count(g) = Count(f) + Uses(f.type.of[i], f.value[i])
         /\ Count(f) \in Int /\ Count(g) \in Int
  <1> DEFINE n == f.next
             type == f.type
             a == [k \in 1 .. n - 1 |-> f.value[Visited(type, k)]]
             b == [k \in 1 .. n |-> f.value[Visited(type, k)]]
  <1>1. /\ <<type, f.value>> \in Values /\ type.kind \in {"sequence", "set"}
        /\ n \in 1 .. Len(type.of) + 1
    BY DEF IsWriteSetOrSequence
  <1>2. type \in Types /\ \A k \in DOMAIN type.of : <<type.of[k], f.value[k]>> \in Values
    BY <1>1, ValuesAssumption DEF AreValues
  <1>3. type.of \in Seq(Types) /\ Len(type.of) \in Nat
    BY <1>1, <1>2, TypesAssumption DEF AreTypes
  <1>4. n \in 1 .. Len(type.of)
    <2> DEFINE m == Len(type.of)
    <2>1. m \in Nat /\ n \in 1 .. m + 1 /\ n <= m
      BY <1>1, <1>3
    <2> HIDE DEF m, n
    <2> QED
      BY <2>1 DEF m
  <1>5. i \in DOMAIN type.of /\ <<type.of[i], f.value[i]>> \in Values
    BY <1>1, <1>2, <1>4, VisitedPlace
  <1>6. /\ g.next = n + 1 /\ g.type = type /\ g.value = f.value
        /\ g.counter = f.counter /\ g.root = f.root /\ g.outer = f.outer
        /\ g = [does |-> g.does, type |-> g.type, value |-> g.value, next |-> g.next,
                root |-> g.root, outer |-> g.outer, counter |-> g.counter]
        /\ g.does = "components"
    <2>1. f = [does |-> f.does, type |-> f.type, value |-> f.value, next |-> f.next,
               root |-> f.root, outer |-> f.outer, counter |-> f.counter]
          /\ f.does = "components"
      BY DEF IsWriteSetOrSequence
    <2>2. g = [does |-> f.does, type |-> f.type, value |-> f.value, next |-> f.next + 1,
               root |-> f.root, outer |-> f.outer, counter |-> f.counter]
      BY <2>1
    <2> QED
      BY <2>1, <2>2
  <1>7. IsWriteSetOrSequence(g)
    <2>1. n + 1 \in 1 .. Len(type.of) + 1
      BY <1>3, <1>4
    <2>2. f.root \in BOOLEAN /\ f.outer \in Seq(Byte)
      BY DEF IsWriteSetOrSequence
    <2> QED
      BY <1>1, <1>6, <2>1, <2>2 DEF IsWriteSetOrSequence
  <1>8. Count(f) = Used(type, a) /\ Count(g) = Used(type, b)
    <2>1. n \in Int
      BY <1>4
    <2>2. (n + 1) - 1 = n
      BY <2>1
    <2> HIDE DEF n
    <2> QED
      BY <1>6, <2>2 DEF Count, n
  <1>9. /\ IsSeq(a) /\ Len(a) = n - 1 /\ IsSeq(b) /\ Len(b) = n
        /\ \A k \in 1 .. n - 1 : b[k] = a[k]
    <2>1. n \in Nat /\ n - 1 \in Nat
      BY <1>4
    <2> HIDE DEF n, type
    <2>2. \A k \in 1 .. n - 1 : k \in 1 .. n
      BY <2>1
    <2>3. a = [k \in 1 .. n - 1 |-> a[k]] /\ b = [k \in 1 .. n |-> b[k]]
      OBVIOUS
    <2>4. \A k \in 1 .. n - 1 : b[k] = a[k]
      BY <2>2
    <2> HIDE DEF a, b
    <2> QED
      BY <2>1, <2>3, <2>4, TableIsSeq
  <1>10. Component(type, n) = type.of[i] /\ b[n] = f.value[i]
    <2>1. n \in 1 .. n
      BY <1>4
    <2> QED
      BY <2>1 DEF Component
  <1> HIDE DEF a, b
  <1>11. Len(b) = Len(a) + 1 /\ Len(b) = n /\ \A k \in 1 .. Len(a) : b[k] = a[k]
    <2>1. n \in Nat
      BY <1>4
    <2> HIDE DEF n
    <2> QED
      BY <1>9, <2>1
  <1>12. /\ Used(type, b) = Used(type, a) + Uses(Component(type, n), b[n])
         /\ Used(type, a) \in Int /\ Used(type, b) \in Int
    <2>1. IsSeq(a) /\ IsSeq(b)
      BY <1>9
    <2> HIDE DEF n, type
    <2> QED
      BY <1>11, <2>1, UsedByOneMore
  <1> QED
    BY <1>5, <1>6, <1>7, <1>8, <1>10, <1>12

-----------------------------------------------------------------------------
(* The steps of the writer *)

Writing ==
    /\ Inv /\ phase = "write"
    /\ UNCHANGED <<message, phase, reader>>
    /\ buffer' \in Seq(Byte) /\ tagCounter' \in Nat /\ isRoot' \in BOOLEAN

\* A call is over, or only visits something: the one on top goes on.
LEMMA WriterGoesOn ==
  ASSUME Writing, AreWriting(calls'), isRoot' => OnlyLists(calls'),
         Owed(calls', tagCounter')
  PROVE  Inv'
  <1>1. IsSeq(calls')
    BY DEF AreWriting
  <1>2. Typed'
    BY <1>1 DEF Writing, Inv, Typed, reader
  <1>3. ~Does("write")'
    BY WaitingWrites DEF Does, Top
  <1>4. result' = <<>>
    BY DEF Writing, Inv, WriterInv, reader
  <1>5. WriterInv'
    BY <1>3, <1>4 DEF WriterInv
  <1>6. phase' = "write"
    BY DEF Writing
  <1> QED
    BY <1>2, <1>5, <1>6 DEF Inv, Ended

\* A value is to be written, for those that wait for it.
LEMMA WriterCalls ==
  ASSUME Writing, NEW s, NEW t, NEW v, calls' = <<Write(t, v)>> \o s,
         <<t, v>> \in Values, AreWriting(s), isRoot' => OnlyLists(s),
         Owed(s, tagCounter' + Uses(t, v))
  PROVE  Inv'
  <1>1. /\ IsSeq(calls') /\ calls' # <<>>
        /\ Head(calls') = Write(t, v) /\ Tail(calls') = s
    BY Pushed DEF AreWriting
  <1>2. Typed'
    BY <1>1 DEF Writing, Inv, Typed, reader
  <1>3. Does("write")' /\ Top.type' = t /\ Top.value' = v /\ Within' = s
    BY <1>1 DEF Does, Top, Within, Write
  <1>4. result' = <<>>
    BY DEF Writing, Inv, WriterInv, reader
  <1>5. WriterInv'
    BY <1>3, <1>4 DEF WriterInv
  <1>6. phase' = "write"
    BY DEF Writing
  <1> QED
    BY <1>2, <1>5, <1>6 DEF Inv, Ended

\* What a call to write finds.
LEMMA ToWrite ==
  ASSUME Inv, NEW kinds, Writes(kinds)
  PROVE  /\ phase = "write" /\ calls # <<>> /\ Top.type.kind \in kinds
         /\ Top.type \in Types /\ <<Top.type, Top.value>> \in Values
         /\ IsSeq(Within) /\ AreWriting(Within) /\ (isRoot => OnlyLists(Within))
         /\ Owed(Within, tagCounter + Uses(Top.type, Top.value))
         /\ buffer \in Seq(Byte) /\ tagCounter \in Nat /\ isRoot \in BOOLEAN
  <1>1. WriterInv /\ Does("write") /\ Top.type.kind \in kinds /\ phase = "write" /\ Typed
    BY DEF Inv, Writes
  <1>2. /\ <<Top.type, Top.value>> \in Values
        /\ AreWriting(Within) /\ (isRoot => OnlyLists(Within))
        /\ Owed(Within, tagCounter + Uses(Top.type, Top.value))
    BY <1>1 DEF WriterInv
  <1>3. Top.type \in Types
    <2>1. \A q \in Values : q[1] \in Types
      BY ValuesAssumption DEF AreValues
    <2> QED
      BY <1>2, <2>1
  <1> QED
    BY <1>1, <1>2, <1>3 DEF Typed, Does, AreWriting

\* What the end of a call, or its next component, finds.
LEMMA ToGoOn ==
  ASSUME Inv, phase = "write", NEW what \in {"components", "elements", "alternative"},
         Does(what)
  PROVE  /\ calls # <<>> /\ IsWriting(Top) /\ Top.does = what
         /\ IsSeq(Within) /\ AreWriting(Within) /\ Owed(Within, Top.counter + 1)
         /\ what = "components" /\ Top.root => OnlyLists(Within)
         /\ AreWriting(calls) /\ (isRoot => OnlyLists(calls)) /\ Owed(calls, tagCounter)
         /\ buffer \in Seq(Byte) /\ tagCounter \in Nat /\ isRoot \in BOOLEAN
  <1>1. WriterInv /\ ~Does("write") /\ calls # <<>> /\ Top.does = what /\ Typed
    BY DEF Inv, Does
  <1>2. AreWriting(calls) /\ (isRoot => OnlyLists(calls)) /\ Owed(calls, tagCounter)
    BY <1>1 DEF WriterInv
  <1>3. /\ IsWriting(Top) /\ AreWriting(Within) /\ Owed(Within, Top.counter + 1)
        /\ what = "components" /\ Top.root => OnlyLists(Within)
    BY <1>1, <1>2, PopWriting DEF Top, Within
  <1> QED
    BY <1>1, <1>2, <1>3 DEF Typed, AreWriting

\* What a nested message or a choice leaves in the outer buffer.
LEMMA EnclosedType ==
  ASSUME NEW outer \in Seq(Byte), NEW b \in Seq(Byte), NEW counter \in Nat
  PROVE  outer \o TagBytes(counter + 1, LengthDelimited) \o LengthPrefixed(b) \in Seq(Byte)
  <1>1. counter + 1 \in Nat /\ LengthDelimited \in Formats
    BY DEF Formats
  <1>2. TagBytes(counter + 1, LengthDelimited) \in Seq(Byte) /\ LengthPrefixed(b) \in Seq(Byte)
    BY <1>1, TagBytesType, LengthPrefixedType
  <1> QED
    BY <1>2, ConcatProperties

\* A leaf is written behind its tag, and uses it up.
LEMMA WriteLeafStep == Inv /\ WriteLeaf => Inv'
  <1> SUFFICES ASSUME Inv, WriteLeaf PROVE Inv'
    OBVIOUS
  <1> DEFINE t == Top.type
             v == Top.value
  <1>1. /\ phase = "write" /\ calls # <<>> /\ t.kind \in LeafKinds
        /\ t \in Types /\ <<t, v>> \in Values
        /\ IsSeq(Within) /\ AreWriting(Within) /\ (isRoot => OnlyLists(Within))
        /\ Owed(Within, tagCounter + Uses(t, v))
        /\ buffer \in Seq(Byte) /\ tagCounter \in Nat /\ isRoot \in BOOLEAN
    BY ToWrite DEF WriteLeaf
  <1>2. Uses(t, v) = 1
    BY <1>1 DEF Uses, IsNull, IsOptionalNull, LeafKinds
  <1>3. FormatOf(t.kind) \in Formats
    BY DEF FormatOf, Formats
  <1>4. buffer' \in Seq(Byte)
    <2>1. tagCounter + 1 \in Nat
      BY <1>1
    <2>2. /\ TagBytes(tagCounter + 1, FormatOf(t.kind)) \in Seq(Byte)
          /\ Payload(t.kind, v) \in Seq(Byte)
      BY <1>1, <1>3, <2>1, TagBytesType, PayloadType
    <2>3. buffer' = buffer \o TagBytes(tagCounter + 1, FormatOf(t.kind)) \o Payload(t.kind, v)
      BY DEF WriteLeaf
    <2> HIDE DEF t, v
    <2> QED
      BY <1>1, <2>2, <2>3, ConcatProperties
  <1>5. /\ tagCounter' = tagCounter + 1 /\ calls' = Within
        /\ UNCHANGED <<message, phase, isRoot, reader>>
    BY DEF WriteLeaf
  <1>6. Writing
    BY <1>1, <1>4, <1>5 DEF Writing
  <1> HIDE DEF t, v
  <1>7. Owed(calls', tagCounter')
    BY <1>1, <1>2, <1>5
  <1> QED
    BY <1>1, <1>5, <1>6, <1>7, WriterGoesOn

\* The root writes an ENUMERATED without a tag: then nobody counts.
LEMMA WriteEnumeratedStep == Inv /\ WriteEnumerated => Inv'
  <1> SUFFICES ASSUME Inv, WriteEnumerated PROVE Inv'
    OBVIOUS
  <1> DEFINE t == Top.type
             v == Top.value
  <1>1. /\ phase = "write" /\ calls # <<>> /\ t.kind = "enumerated"
        /\ t \in Types /\ <<t, v>> \in Values
        /\ IsSeq(Within) /\ AreWriting(Within) /\ (isRoot => OnlyLists(Within))
        /\ Owed(Within, tagCounter + Uses(t, v))
        /\ buffer \in Seq(Byte) /\ tagCounter \in Nat /\ isRoot \in BOOLEAN
    BY ToWrite DEF WriteEnumerated
  <1>2. Uses(t, v) = 1 /\ v \in Nat
    BY <1>1, ValuesAssumption DEF Uses, IsNull, IsOptionalNull, AreValues
  <1> DEFINE tag == IF isRoot THEN <<>> ELSE TagBytes(tagCounter + 1, VarInt)
  <1>3. buffer' \in Seq(Byte)
    <2>1. tagCounter + 1 \in Nat /\ VarInt \in Formats
      BY <1>1 DEF Formats
    <2>2. TagBytes(tagCounter + 1, VarInt) \in Seq(Byte) /\ <<>> \in Seq(Byte)
      BY <2>1, TagBytesType
    <2>3. tag \in Seq(Byte) /\ Varint[v] \in Seq(Byte)
      BY <1>2, <2>2, VarintUnrolls
    <2>4. buffer' = buffer \o tag \o Varint[v]
      BY DEF WriteEnumerated
    <2> HIDE DEF t, v, tag
    <2> QED
      BY <1>1, <2>3, <2>4, ConcatProperties
  <1>4. /\ tagCounter' = (IF isRoot THEN tagCounter ELSE tagCounter + 1) /\ calls' = Within
        /\ UNCHANGED <<message, phase, isRoot, reader>>
    BY DEF WriteEnumerated
  <1> HIDE DEF t, v, tag
  <1>5. Writing
    <2>1. tagCounter' \in Nat
      BY <1>1, <1>4
    <2> QED
      BY <1>1, <1>3, <1>4, <2>1 DEF Writing
  <1>6. Owed(calls', tagCounter')
    <2>1. CASE isRoot
      BY <1>1, <1>4, <2>1, ListsOwe
    <2>2. CASE ~isRoot
      BY <1>1, <1>2, <1>4, <2>2
    <2> QED
      BY <2>1, <2>2
  <1> QED
    BY <1>1, <1>4, <1>5, <1>6, WriterGoesOn

\* A NULL uses no tag up.
LEMMA WriteNullStep == Inv /\ WriteNull => Inv'
  <1> SUFFICES ASSUME Inv, WriteNull PROVE Inv'
    OBVIOUS
  <1> DEFINE t == Top.type
             v == Top.value
  <1>1. /\ phase = "write" /\ calls # <<>> /\ t.kind = "null"
        /\ IsSeq(Within) /\ AreWriting(Within) /\ (isRoot => OnlyLists(Within))
        /\ Owed(Within, tagCounter + Uses(t, v))
        /\ buffer \in Seq(Byte) /\ tagCounter \in Nat /\ isRoot \in BOOLEAN
    BY ToWrite DEF WriteNull
  <1>2. Uses(t, v) = 0
    BY <1>1 DEF Uses, IsNull
  <1>3. UNCHANGED <<message, phase, writer, reader>> /\ calls' = Within
    BY DEF WriteNull
  <1> HIDE DEF t, v
  <1>4. UNCHANGED <<buffer, tagCounter, isRoot>>
    BY <1>3 DEF writer
  <1>5. Writing
    BY <1>1, <1>3, <1>4 DEF Writing
  <1>6. tagCounter + Uses(t, v) = tagCounter
    BY <1>1, <1>2
  <1> QED
    BY <1>1, <1>3, <1>4, <1>5, <1>6, WriterGoesOn

\* An absent value uses a tag up, a present one what it is made of.
LEMMA WriteOptStep == Inv /\ WriteOpt => Inv'
  <1> SUFFICES ASSUME Inv, WriteOpt PROVE Inv'
    OBVIOUS
  <1> DEFINE t == Top.type
             v == Top.value
  <1>1. /\ phase = "write" /\ calls # <<>> /\ t.kind = "optional"
        /\ t \in Types /\ <<t, v>> \in Values
        /\ IsSeq(Within) /\ AreWriting(Within) /\ (isRoot => OnlyLists(Within))
        /\ Owed(Within, tagCounter + Uses(t, v))
        /\ buffer \in Seq(Byte) /\ tagCounter \in Nat /\ isRoot \in BOOLEAN
    BY ToWrite DEF WriteOpt
  <1>2. UNCHANGED <<message, phase, buffer, isRoot, reader>>
    BY DEF WriteOpt
  <1>3. CASE v = <<>>
    <2>1. tagCounter' = tagCounter + 1 /\ calls' = Within
      BY <1>3 DEF WriteOpt
    <2>2. Uses(t, v) = 1
      BY <1>1, <1>3 DEF Uses, IsNull, IsOptionalNull
    <2> HIDE DEF t, v
    <2>3. Writing
      BY <1>1, <1>2, <2>1 DEF Writing
    <2>4. Owed(calls', tagCounter')
      BY <1>1, <2>1, <2>2
    <2> QED
      BY <1>1, <1>2, <2>1, <2>3, <2>4, WriterGoesOn
  <1>4. CASE v # <<>>
    <2>1. tagCounter' = tagCounter /\ calls' = <<Write(t.of, v[1])>> \o Within
      BY <1>4 DEF WriteOpt
    <2>2. <<t.of, v[1]>> \in Values
      <3>1. \A q \in Values :
              q[1].kind = "optional" => q[2] = <<>> \/ <<q[1].of, q[2][1]>> \in Values
        BY ValuesAssumption DEF AreValues
      <3> HIDE DEF t, v
      <3>2. <<t, v>>[1] = t /\ <<t, v>>[2] = v
        OBVIOUS
      <3> QED
        BY <1>1, <1>4, <3>1, <3>2
    <2>3. Uses(t, v) = Uses(t.of, v[1])
      <3>1. t.of.kind # "optional"
        BY <1>1, TypesAssumption DEF AreTypes
      <3> QED
        BY <1>1, <1>4, <3>1 DEF Uses, IsNull, IsOptionalNull
    <2> HIDE DEF t, v
    <2>4. Writing
      BY <1>1, <1>2, <2>1 DEF Writing
    <2>5. Owed(Within, tagCounter' + Uses(t.of, v[1]))
      BY <1>1, <2>1, <2>3
    <2> QED
      BY <1>1, <1>2, <2>1, <2>2, <2>4, <2>5, WriterCalls
  <1> QED
    BY <1>3, <1>4

\* A SEQUENCE or SET starts to count anew, and remembers what it counted before.
LEMMA WriteSetOrSequenceStep == Inv /\ WriteSetOrSequence => Inv'
  <1> SUFFICES ASSUME Inv, WriteSetOrSequence PROVE Inv'
    OBVIOUS
  <1> DEFINE t == Top.type
             v == Top.value
             f == [does |-> "components", type |-> t, value |-> v, next |-> 1,
                   root |-> isRoot, outer |-> buffer, counter |-> tagCounter]
  <1>1. /\ phase = "write" /\ calls # <<>> /\ t.kind \in {"sequence", "set"}
        /\ t \in Types /\ <<t, v>> \in Values
        /\ IsSeq(Within) /\ AreWriting(Within) /\ (isRoot => OnlyLists(Within))
        /\ Owed(Within, tagCounter + Uses(t, v))
        /\ buffer \in Seq(Byte) /\ tagCounter \in Nat /\ isRoot \in BOOLEAN
    BY ToWrite DEF WriteSetOrSequence
  <1>2. Uses(t, v) = 1
    BY <1>1 DEF Uses, IsNull, IsOptionalNull
  <1>3. /\ calls' = <<f>> \o Within /\ isRoot' = FALSE /\ tagCounter' = 0
        /\ buffer' = (IF isRoot THEN buffer ELSE <<>>)
        /\ UNCHANGED <<message, phase, reader>>
    BY DEF WriteSetOrSequence
  <1>4. Writing
    <2> HIDE DEF t, v, f
    <2>1. <<>> \in Seq(Byte)
      OBVIOUS
    <2>2. buffer' \in Seq(Byte)
      BY <1>1, <1>3, <2>1
    <2> QED
      BY <1>1, <1>3, <2>2 DEF Writing
  <1>5. /\ f.does = "components" /\ f.next = 1 /\ f.root = isRoot
        /\ f.counter = tagCounter /\ f.type = t /\ f.value = v /\ f.outer = buffer
        /\ f = [does |-> f.does, type |-> f.type, value |-> f.value, next |-> f.next,
                root |-> f.root, outer |-> f.outer, counter |-> f.counter]
    OBVIOUS
  <1> HIDE DEF f
  <1>6. IsWriting(f)
    <2>1. Len(t.of) \in Nat
      BY <1>1, TypesAssumption DEF AreTypes
    <2>2. 1 \in 1 .. (Len(t.of) + 1)
      BY <2>1
    <2> HIDE DEF t, v
    <2> QED
      BY <1>1, <1>5, <2>2 DEF IsWriting, IsWriteSetOrSequence
  <1> HIDE DEF t, v
  <1>7. AreWriting(calls')
    BY <1>1, <1>2, <1>3, <1>5, <1>6, PushWriting
  <1>8. Owed(calls', tagCounter')
    <2>1. Head(calls') = f
      BY <1>1, <1>3, Pushed
    <2>2. Count(f) = 0
      BY <1>5, CountStarts
    <2> QED
      BY <1>3, <2>1, <2>2 DEF Owed
  <1> QED
    BY <1>3, <1>4, <1>7, <1>8, WriterGoesOn

\* The next component is called, and has its place among those counted.
LEMMA WriteComponentStep == Inv /\ WriteComponent => Inv'
  <1> SUFFICES ASSUME Inv, WriteComponent PROVE Inv'
    OBVIOUS
  <1> DEFINE f == Top
             g == [f EXCEPT !.next = @ + 1]
             i == Visited(f.type, f.next)
             t == f.type.of[i]
             v == f.value[i]
  <1>0. Does("components") /\ phase = "write" /\ f.next <= Len(f.type.of)
    BY DEF WriteComponent
  <1>1. /\ calls # <<>> /\ IsWriting(f) /\ f.does = "components"
        /\ IsSeq(Within) /\ AreWriting(Within) /\ Owed(Within, f.counter + 1)
        /\ f.root => OnlyLists(Within)
        /\ (isRoot => OnlyLists(calls)) /\ Owed(calls, tagCounter) /\ IsSeq(calls)
        /\ buffer \in Seq(Byte) /\ tagCounter \in Nat /\ isRoot \in BOOLEAN
    BY <1>0, ToGoOn DEF AreWriting
  <1>2. calls' = <<Write(t, v)>> \o (<<g>> \o Within)
    <2>1. calls' = <<Write(t, v), g>> \o Within
      BY DEF WriteComponent
    <2>2. IsSeq(<<g>> \o Within) /\ IsSeq(Within)
      BY <1>1, Pushed
    <2> HIDE DEF t, v, g
    <2> QED
      BY <2>1, <2>2, TwoPushed
  <1>3. UNCHANGED <<message, phase, writer, reader>>
    BY DEF WriteComponent
  <1>4. UNCHANGED <<buffer, tagCounter, isRoot>>
    BY <1>3 DEF writer
  <1>5. IsWriteSetOrSequence(f) /\ f.counter \in Nat
    BY <1>1 DEF IsWriting, IsWriteElements, IsWriteAlternative
  <1> HIDE DEF f
  <1>6. /\ IsWriteSetOrSequence(g) /\ g.counter = f.counter /\ g.root = f.root
        /\ <<t, v>> \in Values /\ Count(g) = Count(f) + Uses(t, v)
    BY <1>0, <1>5, CountGoesOn
  <1> HIDE DEF g, t, v
  <1>7. Count(f) = tagCounter
    BY <1>1 DEF Owed, Top, f
  <1>8. AreWriting(<<g>> \o Within)
    <2>1. IsWriting(g)
      BY <1>5, <1>6 DEF IsWriting
    <2> QED
      BY <1>1, <1>6, <2>1, PushWriting
  <1>9. isRoot' => OnlyLists(<<g>> \o Within)
    <2> SUFFICES ~isRoot
      BY <1>4
    <2>1. Len(calls) \in Nat \ {0} /\ calls[1] = f
      BY <1>1, Popped DEF Top, f
    <2> QED
      BY <1>1, <2>1 DEF OnlyLists
  <1>10. Owed(<<g>> \o Within, tagCounter' + Uses(t, v))
    <2>1. Head(<<g>> \o Within) = g
      BY <1>1, Pushed
    <2> QED
      BY <1>4, <1>6, <1>7, <2>1 DEF Owed
  <1>11. Writing
    BY <1>0, <1>1, <1>3, <1>4 DEF Writing
  <1> QED
    BY <1>2, <1>6, <1>8, <1>9, <1>10, <1>11, WriterCalls

\* At its end a SEQUENCE or SET has used one tag up in the message around it.
LEMMA EndComponentsStep == Inv /\ EndComponents => Inv'
  <1> SUFFICES ASSUME Inv, EndComponents PROVE Inv'
    OBVIOUS
  <1> DEFINE f == Top
  <1>0. Does("components") /\ phase = "write"
    BY DEF EndComponents
  <1>1. /\ IsWriting(f) /\ f.does = "components"
        /\ AreWriting(Within) /\ Owed(Within, f.counter + 1) /\ IsSeq(Within)
        /\ f.root => OnlyLists(Within)
        /\ buffer \in Seq(Byte) /\ tagCounter \in Nat
    BY <1>0, ToGoOn
  <1>2. f.counter \in Nat /\ f.root \in BOOLEAN /\ f.outer \in Seq(Byte)
    BY <1>1 DEF IsWriting, IsWriteSetOrSequence, IsWriteElements, IsWriteAlternative
  <1>3. /\ calls' = Within /\ isRoot' = f.root
        /\ f.root => tagCounter' = f.counter /\ buffer' = buffer
        /\ ~f.root =>
             /\ tagCounter' = f.counter + 1
             /\ buffer' = f.outer \o TagBytes(f.counter + 1, LengthDelimited)
                                  \o LengthPrefixed(buffer)
        /\ UNCHANGED <<message, phase, reader>>
    BY DEF EndComponents
  <1> HIDE DEF f
  <1>4. buffer' \in Seq(Byte) /\ tagCounter' \in Nat /\ isRoot' \in BOOLEAN
    <2>1. CASE f.root
      BY <1>1, <1>2, <1>3, <2>1
    <2>2. CASE ~f.root
      <3>1. buffer' \in Seq(Byte)
        BY <1>1, <1>2, <1>3, <2>2, EnclosedType
      <3>2. tagCounter' \in Nat
        <4>1. tagCounter' = f.counter + 1
          BY <1>3, <2>2
        <4> QED
          BY <1>2, <4>1
      <3>3. isRoot' \in BOOLEAN
        BY <1>2, <1>3
      <3> QED
        BY <3>1, <3>2, <3>3
    <2> QED
      BY <2>1, <2>2
  <1>5. Owed(Within, tagCounter')
    BY <1>1, <1>2, <1>3, ListsOwe
  <1>6. Writing
    BY <1>0, <1>3, <1>4 DEF Writing
  <1> QED
    BY <1>1, <1>3, <1>5, <1>6, WriterGoesOn

\* A list waits for its elements with the counter it was called with.
LEMMA WriteSetOrSequenceOfStep == Inv /\ WriteSetOrSequenceOf => Inv'
  <1> SUFFICES ASSUME Inv, WriteSetOrSequenceOf PROVE Inv'
    OBVIOUS
  <1> DEFINE t == Top.type
             v == Top.value
             f == [does |-> "elements", of |-> t.of, todo |-> v, counter |-> tagCounter]
  <1>1. /\ phase = "write" /\ calls # <<>> /\ t.kind = "list"
        /\ t \in Types /\ <<t, v>> \in Values
        /\ IsSeq(Within) /\ AreWriting(Within) /\ (isRoot => OnlyLists(Within))
        /\ Owed(Within, tagCounter + Uses(t, v))
        /\ buffer \in Seq(Byte) /\ tagCounter \in Nat /\ isRoot \in BOOLEAN
    <2>1. Writes({"list"})
      BY DEF WriteSetOrSequenceOf
    <2> QED
      BY <2>1, ToWrite
  <1>2. Uses(t, v) = 1
    BY <1>1 DEF Uses, IsNull, IsOptionalNull
  <1>3. calls' = <<f>> \o Within /\ UNCHANGED <<message, phase, writer, reader>>
    BY DEF WriteSetOrSequenceOf
  <1>4. UNCHANGED <<buffer, tagCounter, isRoot>>
    BY <1>3 DEF writer
  <1>5. Writing
    BY <1>1, <1>3, <1>4 DEF Writing
  <1>6. /\ f.does = "elements" /\ f.of = t.of /\ f.todo = v /\ f.counter = tagCounter
        /\ f = [does |-> f.does, of |-> f.of, todo |-> f.todo, counter |-> f.counter]
    OBVIOUS
  <1> HIDE DEF f
  <1>7. IsSeq(v) /\ \A i \in 1 .. Len(v) : <<t.of, v[i]>> \in Values
    <2>1. \A q \in Values : q[1].kind = "list" =>
            q[2] \in Seq(Range(q[2])) /\ \A i \in DOMAIN q[2] : <<q[1].of, q[2][i]>> \in Values
      BY ValuesAssumption DEF AreValues
    <2> HIDE DEF t, v
    <2>2. <<t, v>>[1] = t /\ <<t, v>>[2] = v
      OBVIOUS
    <2>3. v \in Seq(Range(v)) /\ \A i \in DOMAIN v : <<t.of, v[i]>> \in Values
      BY <1>1, <2>1, <2>2
    <2>4. IsSeq(v)
      BY <2>3 DEF IsSeq
    <2> QED
      BY <2>3, <2>4, SeqFacts
  <1> HIDE DEF t, v
  <1>8. IsWriting(f)
    BY <1>1, <1>6, <1>7 DEF IsWriting, IsWriteElements
  <1>9. AreWriting(calls')
    BY <1>1, <1>2, <1>3, <1>6, <1>8, PushWriting
  <1>10. isRoot' => OnlyLists(calls')
    BY <1>1, <1>3, <1>4, <1>6, ListsOwe
  <1>11. Owed(calls', tagCounter')
    <2>1. Head(calls') = f
      BY <1>1, <1>3, Pushed
    <2> QED
      BY <1>6, <2>1 DEF Owed
  <1> QED
    BY <1>5, <1>9, <1>10, <1>11, WriterGoesOn

\* Every element is written with the counter of the list.
LEMMA WriteElementStep == Inv /\ WriteElement => Inv'
  <1> SUFFICES ASSUME Inv, WriteElement PROVE Inv'
    OBVIOUS
  <1> DEFINE f == Top
             g == [f EXCEPT !.todo = Tail(@)]
             v == Head(f.todo)
  <1>0. Does("elements") /\ phase = "write" /\ f.todo # <<>>
    BY DEF WriteElement
  <1>1. /\ calls # <<>> /\ IsWriting(f) /\ f.does = "elements"
        /\ IsSeq(Within) /\ AreWriting(Within) /\ Owed(Within, f.counter + 1)
        /\ (isRoot => OnlyLists(calls)) /\ IsSeq(calls)
        /\ buffer \in Seq(Byte) /\ tagCounter \in Nat /\ isRoot \in BOOLEAN
    BY <1>0, ToGoOn DEF AreWriting
  <1>2. calls' = <<Write(f.of, v)>> \o (<<g>> \o Within)
    <2>1. calls' = <<Write(f.of, v), g>> \o Within
      BY DEF WriteElement
    <2> HIDE DEF v, g, f
    <2> QED
      BY <1>1, <2>1, TwoPushed
  <1>3. tagCounter' = f.counter /\ UNCHANGED <<message, phase, buffer, isRoot, reader>>
    BY DEF WriteElement
  <1>4. IsWriteElements(f) /\ f.counter \in Nat
    BY <1>1 DEF IsWriting, IsWriteSetOrSequence, IsWriteAlternative
  <1>5. /\ f = [does |-> f.does, of |-> f.of, todo |-> f.todo, counter |-> f.counter]
        /\ IsSeq(f.todo) /\ \A i \in 1 .. Len(f.todo) : <<f.of, f.todo[i]>> \in Values
    BY <1>4 DEF IsWriteElements
  <1> HIDE DEF f
  <1>6. /\ g.does = "elements" /\ g.of = f.of /\ g.todo = Tail(f.todo) /\ g.counter = f.counter
        /\ g = [does |-> g.does, of |-> g.of, todo |-> g.todo, counter |-> g.counter]
    <2> DEFINE rest == Tail(f.todo)
    <2>1. g = [f EXCEPT !.todo = rest]
      OBVIOUS
    <2> HIDE DEF g, rest
    <2>2. g = [does |-> f.does, of |-> f.of, todo |-> rest, counter |-> f.counter]
      BY <1>5, <2>1
    <2>3. /\ g.does = f.does /\ g.of = f.of /\ g.todo = rest /\ g.counter = f.counter
          /\ g = [does |-> g.does, of |-> g.of, todo |-> g.todo, counter |-> g.counter]
      BY <2>2
    <2> QED
      BY <1>1, <2>3 DEF rest
  <1> HIDE DEF g
  <1>7. /\ IsSeq(g.todo) /\ \A i \in 1 .. Len(g.todo) : <<g.of, g.todo[i]>> \in Values
        /\ <<f.of, v>> \in Values
    <2> DEFINE todo == f.todo
               n == Len(todo)
    <2>1. /\ IsSeq(Tail(todo)) /\ Len(Tail(todo)) = n - 1 /\ n \in Nat \ {0}
          /\ Head(todo) = todo[1] /\ \A i \in 1 .. n - 1 : Tail(todo)[i] = todo[i + 1]
      BY <1>0, <1>5, Popped
    <2>2. \A i \in 1 .. n : <<f.of, todo[i]>> \in Values
      BY <1>5
    <2> HIDE DEF todo, n
    <2>3. 1 \in 1 .. n /\ \A i \in 1 .. n - 1 : i + 1 \in 1 .. n
      BY <2>1
    <2>4. <<f.of, todo[1]>> \in Values
      BY <2>2, <2>3
    <2>5. \A i \in 1 .. n - 1 : <<f.of, Tail(todo)[i]>> \in Values
      BY <2>1, <2>2, <2>3
    <2> QED
      BY <1>6, <2>1, <2>4, <2>5 DEF todo
  <1> HIDE DEF v
  <1>8. IsWriting(g)
    BY <1>4, <1>6, <1>7 DEF IsWriting, IsWriteElements
  <1>9. AreWriting(<<g>> \o Within)
    BY <1>1, <1>6, <1>8, PushWriting
  <1>10. isRoot' => OnlyLists(<<g>> \o Within)
    <2> SUFFICES ASSUME isRoot PROVE OnlyLists(<<g>> \o Within)
      BY <1>3
    <2>1. OnlyLists(Within)
      BY <1>1, ListsOwe DEF Within
    <2> QED
      BY <1>1, <1>6, <2>1, ListsOwe
  <1>11. Owed(<<g>> \o Within, tagCounter' + Uses(f.of, v))
    <2>1. Head(<<g>> \o Within) = g
      BY <1>1, Pushed
    <2> QED
      BY <1>6, <2>1 DEF Owed
  <1>12. Writing
    BY <1>0, <1>1, <1>3, <1>4 DEF Writing
  <1> QED
    BY <1>2, <1>7, <1>9, <1>10, <1>11, <1>12, WriterCalls

\* The list has used one tag up.
LEMMA EndElementsStep == Inv /\ EndElements => Inv'
  <1> SUFFICES ASSUME Inv, EndElements PROVE Inv'
    OBVIOUS
  <1> DEFINE f == Top
  <1>0. Does("elements") /\ phase = "write"
    BY DEF EndElements
  <1>1. /\ calls # <<>> /\ IsWriting(f) /\ AreWriting(Within) /\ Owed(Within, f.counter + 1)
        /\ (isRoot => OnlyLists(calls)) /\ IsSeq(calls)
        /\ buffer \in Seq(Byte) /\ isRoot \in BOOLEAN
    BY <1>0, ToGoOn DEF AreWriting
  <1>2. f.counter \in Nat
    BY <1>1 DEF IsWriting
  <1>3. /\ calls' = Within /\ tagCounter' = f.counter + 1
        /\ UNCHANGED <<message, phase, buffer, isRoot, reader>>
    BY DEF EndElements
  <1> HIDE DEF f
  <1>4. isRoot' => OnlyLists(calls')
    BY <1>1, <1>3, ListsOwe DEF Within
  <1>5. Writing
    BY <1>0, <1>1, <1>2, <1>3 DEF Writing
  <1> QED
    BY <1>1, <1>3, <1>4, <1>5, WriterGoesOn

\* The alternative of a CHOICE is counted from its number on.
LEMMA WriteChoiceStep == Inv /\ WriteChoice => Inv'
  <1> SUFFICES ASSUME Inv, WriteChoice PROVE Inv'
    OBVIOUS
  <1> DEFINE t == Top.type
             v == Top.value
             f == [does |-> "alternative", outer |-> buffer, counter |-> tagCounter]
             s == IF isRoot THEN Within ELSE <<f>> \o Within
             u == t.of[v[1] + 1]
  <1>1. /\ phase = "write" /\ calls # <<>> /\ t.kind = "choice"
        /\ t \in Types /\ <<t, v>> \in Values
        /\ IsSeq(Within) /\ AreWriting(Within) /\ (isRoot => OnlyLists(Within))
        /\ Owed(Within, tagCounter + Uses(t, v))
        /\ buffer \in Seq(Byte) /\ tagCounter \in Nat /\ isRoot \in BOOLEAN
    BY ToWrite DEF WriteChoice
  <1>2. Uses(t, v) = 1
    BY <1>1 DEF Uses, IsNull, IsOptionalNull
  <1>3. /\ isRoot' = FALSE /\ tagCounter' = v[1]
        /\ buffer' = (IF isRoot THEN buffer ELSE <<>>)
        /\ calls' = <<Write(u, v[2])>> \o (IF isRoot THEN <<>> ELSE <<f>>) \o Within
        /\ UNCHANGED <<message, phase, reader>>
    BY DEF WriteChoice
  <1>4. v[1] \in Nat /\ <<u, v[2]>> \in Values
    <2>1. \A q \in Values : q[1].kind = "choice" =>
            /\ q[2][1] + 1 \in DOMAIN q[1].of /\ q[2][1] \in Nat
            /\ <<q[1].of[q[2][1] + 1], q[2][2]>> \in Values
      BY ValuesAssumption DEF AreValues
    <2>2. <<t, v>>[1] = t /\ <<t, v>>[2] = v
      OBVIOUS
    <2> HIDE DEF t, v
    <2> QED
      BY <1>1, <2>1, <2>2
  <1>5. calls' = <<Write(u, v[2])>> \o s
    <2> DEFINE w == Write(u, v[2])
    <2> SUFFICES calls' = <<w>> \o s
      OBVIOUS
    <2> HIDE DEF f, w
    <2>1. calls' = <<w>> \o (IF isRoot THEN <<>> ELSE <<f>>) \o Within
      BY <1>3 DEF w
    <2>2. CASE isRoot
      BY <1>1, <2>1, <2>2, NonePushed
    <2>3. CASE ~isRoot
      <3>1. calls' = <<w>> \o <<f>> \o Within
        BY <2>1, <2>3
      <3>2. <<w>> \o <<f>> \o Within = <<w>> \o (<<f>> \o Within)
        BY <1>1, TwoPushed
      <3> QED
        BY <2>3, <3>1, <3>2
    <2> QED
      BY <2>2, <2>3
  <1>6. f.does = "alternative" /\ f.outer = buffer /\ f.counter = tagCounter
    OBVIOUS
  <1> HIDE DEF f, t, v, u
  <1>7. Writing
    <2>1. <<>> \in Seq(Byte)
      OBVIOUS
    <2>2. buffer' \in Seq(Byte)
      BY <1>1, <1>3, <2>1
    <2> QED
      BY <1>1, <1>3, <1>4, <2>2 DEF Writing
  <1>8. AreWriting(s) /\ Owed(s, tagCounter' + Uses(u, v[2]))
    <2>1. CASE isRoot
      BY <1>1, <2>1, ListsOwe
    <2>2. CASE ~isRoot
      <3>1. IsWriting(f)
        BY <1>1, <1>6 DEF IsWriting, IsWriteAlternative
      <3>2. AreWriting(<<f>> \o Within) /\ Head(<<f>> \o Within) = f
        BY <1>1, <1>2, <1>6, <3>1, PushWriting, Pushed
      <3> QED
        BY <1>6, <2>2, <3>2 DEF Owed
    <2> QED
      BY <2>1, <2>2
  <1> HIDE DEF s
  <1> QED
    BY <1>3, <1>4, <1>5, <1>7, <1>8, WriterCalls

\* The CHOICE has used one tag up.
LEMMA EndChoiceStep == Inv /\ EndChoice => Inv'
  <1> SUFFICES ASSUME Inv, EndChoice PROVE Inv'
    OBVIOUS
  <1> DEFINE f == Top
  <1>0. Does("alternative") /\ phase = "write"
    BY DEF EndChoice
  <1>1. /\ calls # <<>> /\ IsWriting(f) /\ f.does = "alternative"
        /\ AreWriting(Within) /\ Owed(Within, f.counter + 1)
        /\ (isRoot => OnlyLists(calls)) /\ IsSeq(calls)
        /\ buffer \in Seq(Byte) /\ isRoot \in BOOLEAN
    BY <1>0, ToGoOn DEF AreWriting
  <1>2. f.counter \in Nat /\ f.outer \in Seq(Byte)
    BY <1>1 DEF IsWriting, IsWriteSetOrSequence, IsWriteElements, IsWriteAlternative
  <1>3. /\ calls' = Within /\ tagCounter' = f.counter + 1
        /\ buffer' = f.outer \o TagBytes(f.counter + 1, LengthDelimited)
                             \o LengthPrefixed(buffer)
        /\ UNCHANGED <<message, phase, isRoot, reader>>
    BY DEF EndChoice
  <1> HIDE DEF f
  <1>4. isRoot' => OnlyLists(calls')
    BY <1>1, <1>3, ListsOwe DEF Within
  <1>5. Writing
    <2>1. buffer' \in Seq(Byte)
      BY <1>1, <1>2, <1>3, EnclosedType
    <2> QED
      BY <1>0, <1>1, <1>2, <1>3, <2>1 DEF Writing
  <1> QED
    BY <1>1, <1>3, <1>4, <1>5, WriterGoesOn

-----------------------------------------------------------------------------
(* Calls of the reader on the stack *)

\* One sequence behind another.
LEMMA Joined ==
  ASSUME NEW a, IsSeq(a), NEW b, IsSeq(b)
  PROVE  /\ IsSeq(a \o b) /\ Len(a \o b) = Len(a) + Len(b)
         /\ \A k \in 1 .. Len(a) : (a \o b)[k] = a[k]
         /\ \A k \in 1 .. Len(b) : (a \o b)[Len(a) + k] = b[k]
  <1> DEFINE S == Range(a) \cup Range(b)
             c == a \o b
             m == Len(a)
             n == Len(b)
  <1>1. a \in Seq(S) /\ b \in Seq(S)
    BY SeqMonotonic DEF IsSeq
  <1>2. m \in Nat /\ n \in Nat
    BY SeqFacts
  <1>3. /\ c \in Seq(S) /\ Len(c) = m + n
        /\ \A i \in 1 .. m + n : c[i] = IF i <= m THEN a[i] ELSE b[i - m]
    BY <1>1, ConcatProperties
  <1>4. IsSeq(c)
    BY <1>3, SeqOfRange DEF IsSeq
  <1> HIDE DEF c, m, n
  <1>5. \A k \in 1 .. m : c[k] = a[k]
    BY <1>2, <1>3
  <1>6. ASSUME NEW k \in 1 .. n PROVE c[m + k] = b[k]
    <2>1. m + k \in 1 .. m + n /\ ~(m + k <= m) /\ (m + k) - m = k
      BY <1>2
    <2> QED
      BY <1>3, <2>1
  <1> QED
    BY <1>3, <1>4, <1>5, <1>6 DEF c, m, n

\* The result of a call is one value.
LEMMA Single ==
  \A v : IsSeq(<<v>>) /\ Len(<<v>>) = 1 /\ <<v>>[1] = v
  <1>1. ASSUME NEW v PROVE <<v>> \in Seq({v}) /\ Len(<<v>>) = 1 /\ <<v>>[1] = v
    OBVIOUS
  <1> QED
    BY <1>1, SeqOfRange DEF IsSeq

\* No call in progress, or no result yet.
LEMMA None == IsSeq(<<>>) /\ Len(<<>>) = 0
  <1>1. <<>> \in Seq({}) /\ Len(<<>>) = 0
    OBVIOUS
  <1> QED
    BY <1>1, SeqOfRange DEF IsSeq

\* What is below the i-th place of a stack.
LEMMA BelowPlaces ==
  ASSUME NEW s, IsSeq(s), NEW i \in 1 .. Len(s)
  PROVE  /\ SubSeq(s, i + 1, Len(s)) \in Seq(Range(s))
         /\ Len(SubSeq(s, i + 1, Len(s))) = Len(s) - i
         /\ \A k \in 1 .. Len(s) - i : SubSeq(s, i + 1, Len(s))[k] = s[i + k]
  <1> DEFINE n == Len(s)
             S == Range(s)
  <1>1. n \in Nat /\ DOMAIN s = 1 .. n
    BY SeqFacts
  <1>2. \A k \in 1 .. n : s[k] \in S
    BY <1>1 DEF Range
  <1> HIDE DEF n, S
  <1>3. \A k \in i + 1 .. n : s[k] \in S
    <2>1. i \in 1 .. n
      BY DEF n
    <2> QED
      BY <1>1, <1>2, <2>1
  <1>4. i + 1 \in Int /\ n \in Int /\ i \in 1 .. n
    BY <1>1 DEF n
  <1> DEFINE b == SubSeq(s, i + 1, n)
  <1>5. /\ b \in Seq(S)
        /\ Len(b) = IF i + 1 <= n THEN n - (i + 1) + 1 ELSE 0
        /\ \A k \in 1 .. n - (i + 1) + 1 : b[k] = s[(i + 1) + k - 1]
    BY <1>3, <1>4, SubSeqProperties
  <1> HIDE DEF b
  <1>6. Len(b) = n - i
    BY <1>1, <1>4, <1>5
  <1>7. \A k \in 1 .. n - i : b[k] = s[i + k]
    <2>1. \A k \in 1 .. n - i : k \in 1 .. n - (i + 1) + 1 /\ (i + 1) + k - 1 = i + k
      BY <1>1, <1>4
    <2> QED
      BY <1>5, <2>1
  <1> QED
    BY <1>5, <1>6, <1>7 DEF b, n, S

\* Pushing leaves what is below every place as it is.
LEMMA PushedBelow ==
  ASSUME NEW s, IsSeq(s), NEW t, IsSeq(t), Len(t) = Len(s) + 1,
         \A i \in 1 .. Len(s) : t[i + 1] = s[i]
  PROVE  /\ SubSeq(t, 1 + 1, Len(t)) = s
         /\ \A i \in 1 .. Len(s) :
              SubSeq(t, (i + 1) + 1, Len(t)) = SubSeq(s, i + 1, Len(s))
  <1> DEFINE n == Len(s)
             m == Len(t)
             S == Range(s) \cup Range(t)
  <1>1. n \in Nat /\ m = n + 1
    BY SeqFacts
  <1>2. s \in Seq(S)
    BY SeqMonotonic DEF IsSeq
  <1>3. ASSUME NEW i \in 1 .. m
        PROVE  /\ SubSeq(t, i + 1, m) \in Seq(S)
               /\ Len(SubSeq(t, i + 1, m)) = m - i
               /\ \A k \in 1 .. m - i : SubSeq(t, i + 1, m)[k] = t[i + k]
    BY BelowPlaces, SeqMonotonic
  <1>4. ASSUME NEW i \in 1 .. n
        PROVE  /\ SubSeq(s, i + 1, n) \in Seq(S)
               /\ Len(SubSeq(s, i + 1, n)) = n - i
               /\ \A k \in 1 .. n - i : SubSeq(s, i + 1, n)[k] = s[i + k]
    BY BelowPlaces, SeqMonotonic
  <1> HIDE DEF S
  <1>5. \A i \in 1 .. n : t[i + 1] = s[i]
    OBVIOUS
  <1>6. SubSeq(t, 1 + 1, m) = s
    <2> DEFINE b == SubSeq(t, 1 + 1, m)
    <2>1. b \in Seq(S) /\ Len(b) = m - 1 /\ \A k \in 1 .. m - 1 : b[k] = t[1 + k]
      <3>1. 1 \in 1 .. m
        BY <1>1
      <3> QED
        BY <1>3, <3>1
    <2>2. n = Len(s)
      OBVIOUS
    <2> HIDE DEF b, n, m
    <2>3. Len(b) = n /\ \A k \in 1 .. n : 1 + k = k + 1 /\ k \in 1 .. m - 1
      BY <1>1, <2>1
    <2>4. \A k \in 1 .. n : b[k] = s[k]
      BY <1>5, <2>1, <2>3
    <2> QED
      BY <1>2, <2>1, <2>2, <2>3, <2>4, SeqEqual DEF b
  <1>7. ASSUME NEW i \in 1 .. n
        PROVE  SubSeq(t, (i + 1) + 1, m) = SubSeq(s, i + 1, n)
    <2> DEFINE a == SubSeq(s, i + 1, n)
               b == SubSeq(t, (i + 1) + 1, m)
    <2>1. a \in Seq(S) /\ Len(a) = n - i /\ \A k \in 1 .. n - i : a[k] = s[i + k]
      BY <1>4
    <2>2. b \in Seq(S) /\ Len(b) = m - (i + 1) /\ \A k \in 1 .. m - (i + 1) : b[k] = t[(i + 1) + k]
      <3>1. i + 1 \in 1 .. m
        BY <1>1
      <3> QED
        BY <1>3, <3>1
    <2> HIDE DEF a, b, n, m
    <2>3. m - (i + 1) = n - i
      BY <1>1
    <2>4. \A k \in 1 .. n - i : (i + 1) + k = (i + k) + 1 /\ i + k \in 1 .. n
      BY <1>1
    <2>5. ASSUME NEW k \in 1 .. n - i PROVE b[k] = a[k]
      <3>1. b[k] = t[(i + 1) + k]
        BY <2>2, <2>3
      <3>2. t[(i + 1) + k] = s[i + k]
        BY <1>5, <2>4
      <3> QED
        BY <2>1, <3>1, <3>2
    <2>6. Len(b) = Len(a) /\ \A k \in 1 .. Len(b) : b[k] = a[k]
      BY <2>1, <2>2, <2>3, <2>5
    <2> QED
      BY <2>1, <2>2, <2>6, SeqEqual DEF a, b
  <1> QED
    BY <1>6, <1>7

\* A call that goes on top of those that wait for it.
LEMMA PushReading ==
  ASSUME NEW s, AreReading(s), NEW f, IsReading(f), Leaves(f, s)
  PROVE  /\ AreReading(<<f>> \o s) /\ <<f>> \o s # <<>>
         /\ Head(<<f>> \o s) = f /\ Tail(<<f>> \o s) = s
  <1> DEFINE t == <<f>> \o s
             n == Len(s)
  <1>1. /\ IsSeq(t) /\ Len(t) = n + 1 /\ t[1] = f /\ t # <<>> /\ Head(t) = f /\ Tail(t) = s
        /\ \A i \in 1 .. n : t[i + 1] = s[i]
    BY Pushed DEF AreReading
  <1>2. n \in Nat /\ IsSeq(s)
    BY SeqFacts DEF AreReading
  <1> HIDE DEF t
  <1>3. /\ SubSeq(t, 1 + 1, Len(t)) = s
        /\ \A i \in 1 .. n : SubSeq(t, (i + 1) + 1, Len(t)) = SubSeq(s, i + 1, n)
    BY <1>1, <1>2, PushedBelow
  <1>4. \A i \in 1 .. n : IsReading(s[i]) /\ Leaves(s[i], SubSeq(s, i + 1, n))
    BY DEF AreReading
  <1> HIDE DEF n
  <1>5. ASSUME NEW i \in 1 .. n + 1
        PROVE  IsReading(t[i]) /\ Leaves(t[i], SubSeq(t, i + 1, Len(t)))
    <2>1. CASE i = 1
      BY <1>1, <1>3, <2>1
    <2>2. CASE i # 1
      <3>1. i - 1 \in 1 .. n /\ (i - 1) + 1 = i
        BY <1>2, <2>2
      <3>2. t[(i - 1) + 1] = s[i - 1]
        BY <1>1, <3>1
      <3>3. SubSeq(t, ((i - 1) + 1) + 1, Len(t)) = SubSeq(s, (i - 1) + 1, n)
        BY <1>3, <3>1
      <3>4. IsReading(s[i - 1]) /\ Leaves(s[i - 1], SubSeq(s, (i - 1) + 1, n))
        BY <1>4, <3>1
      <3> QED
        BY <3>1, <3>2, <3>3, <3>4
    <2> QED
      BY <2>1, <2>2
  <1>6. AreReading(t)
    BY <1>1, <1>5 DEF AreReading
  <1> QED
    BY <1>1, <1>6 DEF t

\* The call on top, and those that wait for it.
LEMMA PopReading ==
  ASSUME NEW s, AreReading(s), s # <<>>
  PROVE  IsReading(Head(s)) /\ AreReading(Tail(s)) /\ Leaves(Head(s), Tail(s))
  <1> DEFINE t == Tail(s)
             n == Len(t)
  <1>1. /\ IsSeq(t) /\ Len(t) = Len(s) - 1 /\ Len(s) \in Nat \ {0} /\ Head(s) = s[1]
        /\ \A i \in 1 .. Len(s) - 1 : t[i] = s[i + 1]
    BY Popped DEF AreReading
  <1>2. IsSeq(s) /\ \A i \in 1 .. Len(s) :
          IsReading(s[i]) /\ Leaves(s[i], SubSeq(s, i + 1, Len(s)))
    BY DEF AreReading
  <1> HIDE DEF t
  <1>3. Len(s) = n + 1 /\ n \in Nat /\ \A i \in 1 .. n : s[i + 1] = t[i]
    BY <1>1
  <1>4. /\ SubSeq(s, 1 + 1, Len(s)) = t
        /\ \A i \in 1 .. n : SubSeq(s, (i + 1) + 1, Len(s)) = SubSeq(t, i + 1, n)
    BY <1>1, <1>2, <1>3, PushedBelow
  <1> HIDE DEF n
  <1>5. 1 \in 1 .. Len(s) /\ \A i \in 1 .. n : i + 1 \in 1 .. Len(s)
    BY <1>3
  <1>6. IsReading(Head(s)) /\ Leaves(Head(s), t)
    BY <1>1, <1>2, <1>4, <1>5
  <1>7. ASSUME NEW i \in 1 .. n PROVE IsReading(t[i]) /\ Leaves(t[i], SubSeq(t, i + 1, n))
    BY <1>2, <1>3, <1>4, <1>5
  <1>8. AreReading(t)
    BY <1>1, <1>7 DEF AreReading, n
  <1> QED
    BY <1>6, <1>8 DEF t

-----------------------------------------------------------------------------
(* The levels of the reader *)

\* A level with another component.
LEMMA LevelExcept ==
  ASSUME NEW l, NEW r, NEW c, NEW g, l = [root |-> r, counter |-> c, fields |-> g], NEW x
  PROVE  /\ [l EXCEPT !.fields = x] = [root |-> r, counter |-> c, fields |-> x]
         /\ [l EXCEPT !.counter = x] = [root |-> r, counter |-> x, fields |-> g]
  OBVIOUS

\* Taking a field leaves the counter; counting one adds one to it.
LEMMA LevelSteps ==
  ASSUME NEW l, IsLevel(l)
  PROVE  /\ l.root \in BOOLEAN /\ (~l.root => l.counter \in Nat \ {0})
         /\ \A formats : /\ IsLevel(Taken(l, formats)) /\ Taken(l, formats).root = l.root
                         /\ ~l.root => Taken(l, formats).counter = l.counter
         /\ IsLevel(IncrementTagCounter(l)) /\ IncrementTagCounter(l).root = l.root
         /\ ~l.root => IncrementTagCounter(l).counter = l.counter + 1
  <1>1. CASE l.root /\ l = Root(l.range)
    <2>1. l.root = TRUE
      BY <1>1 DEF Root
    <2> QED
      BY <1>1, <2>1 DEF Taken, IncrementTagCounter
  <1>2. CASE /\ ~l.root /\ l.counter \in Nat \ {0}
             /\ l = [root |-> FALSE, counter |-> l.counter, fields |-> l.fields]
    <2>1. l.root = FALSE
      BY <1>2
    <2>2. ASSUME NEW m, NEW c \in Nat \ {0}, NEW f,
                 m = [root |-> FALSE, counter |-> c, fields |-> f]
          PROVE  IsLevel(m) /\ m.root = l.root /\ m.counter = c
      BY <2>1, <2>2 DEF IsLevel
    <2>5. ASSUME NEW x
          PROVE  /\ [l EXCEPT !.fields = x] = [root |-> FALSE, counter |-> l.counter, fields |-> x]
                 /\ [l EXCEPT !.counter = x] = [root |-> FALSE, counter |-> x, fields |-> l.fields]
      <3> DEFINE c == l.counter
                 g == l.fields
                 r == FALSE
      <3>1. l = [root |-> r, counter |-> c, fields |-> g]
        BY <1>2
      <3> HIDE DEF c, g, r
      <3>2. /\ [l EXCEPT !.fields = x] = [root |-> r, counter |-> c, fields |-> x]
            /\ [l EXCEPT !.counter = x] = [root |-> r, counter |-> x, fields |-> g]
        BY <3>1, LevelExcept
      <3> QED
        BY <3>2 DEF c, g, r
    <2>3. ASSUME NEW formats
          PROVE  /\ IsLevel(Taken(l, formats)) /\ Taken(l, formats).root = l.root
                 /\ Taken(l, formats).counter = l.counter
      <3>1. CASE Counted(l, formats) = {}
        BY <1>2, <3>1 DEF Taken, IsLevel
      <3>2. CASE Counted(l, formats) # {}
        <4> DEFINE f == RemoveAt(l.fields, First(Counted(l, formats)))
        <4>1. Taken(l, formats) = [l EXCEPT !.fields = f]
          BY <1>2, <3>2 DEF Taken
        <4> HIDE DEF f
        <4>2. Taken(l, formats) = [root |-> FALSE, counter |-> l.counter, fields |-> f]
          BY <2>5, <4>1
        <4> QED
          BY <1>2, <2>2, <4>2
      <3> QED
        BY <3>1, <3>2
    <2>4. /\ IsLevel(IncrementTagCounter(l)) /\ IncrementTagCounter(l).root = l.root
          /\ IncrementTagCounter(l).counter = l.counter + 1
      <3>1. IncrementTagCounter(l) =
              [root |-> FALSE, counter |-> l.counter + 1, fields |-> l.fields]
        <4> DEFINE x == l.counter + 1
        <4>1. IncrementTagCounter(l) = [l EXCEPT !.counter = x]
          BY <1>2 DEF IncrementTagCounter
        <4> HIDE DEF x
        <4>2. IncrementTagCounter(l) = [root |-> FALSE, counter |-> x, fields |-> l.fields]
          BY <2>5, <4>1
        <4> QED
          BY <4>2 DEF x
      <3>2. l.counter + 1 \in Nat \ {0}
        BY <1>2
      <3> QED
        BY <2>2, <3>1, <3>2
    <2> QED
      BY <1>2, <2>1, <2>3, <2>4
  <1> QED
    BY <1>1, <1>2 DEF IsLevel

\* What a call gets does not depend on the fields of the level.
LEMMA GetsSame ==
  ASSUME NEW s, NEW l, NEW m, NEW r, Gets(s, l, r),
         m.root = l.root, ~l.root => m.counter = l.counter
  PROVE  Gets(s, m, r)
  BY DEF Gets, Gets1

\* A call that visits components is answered by the one it has called: its
\* level has counted what the value uses up.
LEMMA Answered1 ==
  ASSUME NEW s, AreReading(s), NEW l, IsLevel(l), NEW t, Awaits1(s, l, t), NEW v, NEW m,
         m.root = l.root, ~l.root => m.counter = l.counter + Uses(t, v)
  PROVE  Gets1(s, m, <<v>>)
  <1> SUFFICES ASSUME s # <<>>, Head(s).does = "components" PROVE Gets1(s, m, <<v>>)
    BY DEF Gets1
  <1> DEFINE f == Head(s)
             a == f.got
             b == f.got \o <<v>>
             n == f.next
  <1>1. IsReadSetOrSequence(f)
    BY PopReading DEF IsReading, IsReadElements
  <1>2. IsSeq(a) /\ n \in Int
    <2>1. f.type.of \in Seq(Types)
      BY <1>1, TypesAssumption DEF IsReadSetOrSequence, AreTypes
    <2>2. Len(f.type.of) \in Nat
      BY <2>1
    <2> QED
      BY <1>1, <2>2 DEF IsReadSetOrSequence
  <1>3. /\ ~l.root /\ Len(a) = n - 2 /\ l.counter = Used(f.type, a) + 1
        /\ Component(f.type, n - 1) = t
    BY DEF Awaits1
  <1> HIDE DEF a, n
  <1>4. /\ IsSeq(b) /\ Len(b) = Len(a) + 1 /\ b[Len(b)] = v
        /\ \A k \in 1 .. Len(a) : b[k] = a[k]
    <2> HIDE DEF b
    <2>1. IsSeq(<<v>>) /\ Len(<<v>>) = 1 /\ <<v>>[1] = v
      BY Single
    <2>2. /\ IsSeq(b) /\ Len(b) = Len(a) + Len(<<v>>)
          /\ \A k \in 1 .. Len(a) : b[k] = a[k]
          /\ \A k \in 1 .. Len(<<v>>) : b[Len(a) + k] = <<v>>[k]
      BY <1>2, <2>1, Joined DEF a, b
    <2> QED
      BY <2>1, <2>2
  <1> HIDE DEF b
  <1>5. Len(b) = n - 1
    BY <1>2, <1>3, <1>4
  <1>6. /\ Used(f.type, b) = Used(f.type, a) + Uses(t, v)
        /\ Used(f.type, a) \in Int /\ Used(f.type, b) \in Int
    <2>1. /\ Used(f.type, b) = Used(f.type, a) + Uses(Component(f.type, Len(b)), b[Len(b)])
          /\ Used(f.type, a) \in Int /\ Used(f.type, b) \in Int
      <3> HIDE DEF f
      <3> QED
        BY <1>2, <1>4, UsedByOneMore
    <2> QED
      BY <1>3, <1>4, <1>5, <2>1
  <1>7. m.counter = Used(f.type, b) + 1
    <2> DEFINE x == Used(f.type, a)
               y == Used(f.type, b)
               u == Uses(t, v)
    <2>1. u \in {0, 1} /\ m.counter = (x + 1) + u /\ y = x + u /\ x \in Int
      BY <1>3, <1>6 DEF Uses
    <2> HIDE DEF x, y, u
    <2>2. m.counter = y + 1
      BY <2>1
    <2> QED
      BY <2>2 DEF y
  <1> QED
    BY <1>3, <1>5, <1>7 DEF Gets1, b, n

\* The same where a read_opt hands the answer on.
LEMMA Answered ==
  ASSUME NEW s, AreReading(s), NEW l, IsLevel(l), NEW t, Awaits(s, l, t), NEW v, NEW m,
         m.root = l.root, ~l.root => m.counter = l.counter + Uses(t, v)
  PROVE  Gets(s, m, <<v>>)
  <1>1. Gets1(s, m, <<v>>)
    BY Answered1 DEF Awaits
  <1>2. ASSUME s # <<>>, Head(s).does = "some"
        PROVE  Gets1(Tail(s), m, << <<v>> >>)
    <2>1. PICK u \in Types : u.kind = "optional" /\ u.of = t /\ Awaits1(Tail(s), l, u)
      BY <1>2 DEF Awaits
    <2>2. t.kind # "optional"
      BY <1>2 DEF Awaits
    <2>3. Uses(u, <<v>>) = Uses(t, v)
      <3>1. <<v>> # <<>>
        OBVIOUS
      <3> QED
        BY <2>1, <2>2, <3>1 DEF Uses, IsNull, IsOptionalNull
    <2>4. AreReading(Tail(s))
      BY <1>2, PopReading
    <2>5. ~l.root => m.counter = l.counter + Uses(u, <<v>>)
      BY <2>3
    <2> QED
      BY <2>1, <2>4, <2>5, Answered1
  <1> QED
    BY <1>1, <1>2 DEF Gets

-----------------------------------------------------------------------------
(* The steps of the reader *)

\* A call of the reader that waits does not read any more.
LEMMA WaitingReads ==
  ASSUME NEW s, AreReading(s), s # <<>>
  PROVE  Head(s).does # "read"
  BY PopReading DEF IsReading, IsReadSetOrSequence, IsReadElements

Reading ==
    /\ Inv /\ phase = "read"
    /\ UNCHANGED <<message, writer>>
    /\ IsLevel(level')

\* A call returns a value to those that wait for it.
LEMMA ReaderReturns ==
  ASSUME Reading, AreReading(Within), NEW v, Return(v), Gets(Within, level', <<v>>)
  PROVE  Inv'
  <1>1. /\ result' = <<v>> /\ calls' = Within
        /\ phase' = IF Within = <<>> THEN "done" ELSE "read"
    BY DEF Return
  <1>2. IsSeq(result') /\ Len(result') <= 1 /\ IsSeq(calls')
    BY <1>1, Single DEF AreReading
  <1>3. phase' \in {"done", "read"} /\ (phase' = "read" => calls' # <<>>)
        /\ (phase' = "done" => calls' = <<>>)
    BY <1>1
  <1>4. Typed'
    BY <1>2, <1>3 DEF Reading, Inv, Typed, writer
  <1>5. ASSUME phase' = "read" PROVE ReaderInv'
    <2>1. calls' # <<>> /\ AreReading(calls') /\ Gets(calls', level', result')
      BY <1>1, <1>3, <1>5
    <2>2. ~Does("read")'
      BY <2>1, WaitingReads DEF Does, Top
    <2> QED
      BY <2>1, <2>2 DEF ReaderInv
  <1> QED
    BY <1>3, <1>4, <1>5 DEF Inv, Ended

\* An error or a panic ends all calls.
LEMMA ReaderStops ==
  ASSUME Reading, NEW how \in {"failed", "panicked"}, Stop(how)
  PROVE  Inv'
  <1>1. result' = result /\ calls' = <<>> /\ phase' = how
    BY DEF Stop
  <1>2. Typed'
    BY <1>1, None DEF Reading, Inv, Typed, writer
  <1> QED
    BY <1>1, <1>2 DEF Inv, Ended

\* A value is to be read, for those that wait for it.
LEMMA ReaderCalls ==
  ASSUME Reading, NEW s, NEW t \in Types, calls' = <<Read(t)>> \o s, AreReading(s),
         Awaits(s, level', t), phase' = phase, result' = <<>>
  PROVE  Inv'
  <1>1. /\ IsSeq(calls') /\ calls' # <<>>
        /\ Head(calls') = Read(t) /\ Tail(calls') = s
    BY Pushed DEF AreReading
  <1>2. Typed'
    BY <1>1, None DEF Reading, Inv, Typed, writer
  <1>3. Does("read")' /\ Top.type' = t /\ Within' = s
    BY <1>1 DEF Does, Top, Within, Read
  <1>4. ReaderInv'
    BY <1>1, <1>3 DEF ReaderInv
  <1>5. phase' = "read"
    BY DEF Reading
  <1> QED
    BY <1>2, <1>4, <1>5 DEF Inv, Ended

\* A call begins that visits something.
LEMMA ReaderGoesOn ==
  ASSUME Reading, AreReading(calls'), calls' # <<>>, Gets(calls', level', <<>>),
         phase' = phase, result' = <<>>
  PROVE  Inv'
  <1>1. IsSeq(calls')
    BY DEF AreReading
  <1>2. Typed'
    BY <1>1, None DEF Reading, Inv, Typed, writer
  <1>3. ~Does("read")'
    BY WaitingReads DEF Does, Top
  <1>4. ReaderInv'
    BY <1>3 DEF ReaderInv
  <1>5. phase' = "read"
    BY DEF Reading
  <1> QED
    BY <1>2, <1>4, <1>5 DEF Inv, Ended

\* What a call to read finds.
LEMMA ToRead ==
  ASSUME Inv, NEW kinds, Reads(kinds)
  PROVE  /\ phase = "read" /\ result = <<>> /\ calls # <<>>
         /\ Top.type \in Types /\ Top.type.kind \in kinds
         /\ IsSeq(Within) /\ AreReading(Within) /\ Awaits(Within, level, Top.type)
         /\ IsLevel(level)
  <1>1. ReaderInv /\ Does("read") /\ Top.type.kind \in kinds /\ phase = "read" /\ Typed
    BY DEF Inv, Reads
  <1>2. /\ Top.type \in Types /\ result = <<>> /\ calls # <<>>
        /\ AreReading(Within) /\ Awaits(Within, level, Top.type)
    BY <1>1 DEF ReaderInv
  <1> QED
    BY <1>1, <1>2 DEF Typed, AreReading

\* What a call in progress finds.
LEMMA ToReadOn ==
  ASSUME Inv, phase = "read",
         NEW what \in {"components", "elements", "alternative", "some"}, Does(what)
  PROVE  /\ calls # <<>> /\ Top.does = what /\ IsReading(Top) /\ Leaves(Top, Within)
         /\ IsSeq(Within) /\ AreReading(Within) /\ AreReading(calls)
         /\ Gets(calls, level, result)
         /\ IsLevel(level) /\ IsSeq(result) /\ Len(result) <= 1
  <1>1. ReaderInv /\ ~Does("read") /\ calls # <<>> /\ Top.does = what /\ Typed
    BY DEF Inv, Does
  <1>2. AreReading(calls) /\ Gets(calls, level, result)
    BY <1>1 DEF ReaderInv
  <1>3. IsReading(Top) /\ AreReading(Within) /\ Leaves(Top, Within)
    BY <1>1, <1>2, PopReading DEF Top, Within
  <1> QED
    BY <1>1, <1>2, <1>3 DEF Typed, AreReading

\* Those that wait get what a call has counted one tag for.
LEMMA CountedOnce ==
  ASSUME NEW s, AreReading(s), NEW l, IsLevel(l), NEW t, Awaits(s, l, t), NEW v,
         Uses(t, v) = 1, NEW formats
  PROVE  /\ Gets(s, IncrementTagCounter(Taken(l, formats)), <<v>>)
         /\ IsLevel(IncrementTagCounter(Taken(l, formats)))
         /\ Gets(s, IncrementTagCounter(l), <<v>>) /\ IsLevel(IncrementTagCounter(l))
  <1> DEFINE k == Taken(l, formats)
             m == IncrementTagCounter(k)
             n == IncrementTagCounter(l)
  <1>1. l.root \in BOOLEAN /\ IsLevel(k) /\ k.root = l.root /\ (~l.root => k.counter = l.counter)
    BY LevelSteps
  <1>2. IsLevel(n) /\ n.root = l.root /\ (~l.root => n.counter = l.counter + 1)
    BY LevelSteps
  <1> HIDE DEF k, n
  <1>3. IsLevel(m) /\ m.root = k.root /\ (~k.root => m.counter = k.counter + 1)
    BY <1>1, LevelSteps
  <1> HIDE DEF m
  <1>4. Gets(s, m, <<v>>) /\ Gets(s, n, <<v>>)
    BY <1>1, <1>2, <1>3, Answered
  <1> QED
    BY <1>2, <1>3, <1>4 DEF k, m, n

\* A leaf counts one tag, present or not.
LEMMA ReadLeafStep == Inv /\ ReadLeaf => Inv'
  <1> SUFFICES ASSUME Inv, ReadLeaf PROVE Inv'
    OBVIOUS
  <1> DEFINE t == Top.type
             kind == t.kind
             formats == {FormatOf(kind)}
             bytes == Slice(OrEmpty(NextTagRange(level, formats)))
             range == OrEmpty(NextTagRange(level, formats))
             number == VarintAt[range]
  <1>1. /\ phase = "read" /\ result = <<>> /\ t \in Types /\ kind \in LeafKinds
        /\ AreReading(Within) /\ Awaits(Within, level, t) /\ IsLevel(level)
    BY ToRead DEF ReadLeaf
  <1>2. level' = IncrementTagCounter(Taken(level, formats)) /\ UNCHANGED <<message, writer>>
    BY DEF ReadLeaf
  <1>3. (\E v : Return(v)) \/ Stop("panicked") \/ Stop("failed")
    <2>1. (CASE kind = "bytes" -> Return(bytes)
            [] kind = "bits" ->
                 IF Len(bytes) < 8 THEN Stop("panicked")
                 ELSE Return(<<SubSeq(bytes, 1, Len(bytes) - 8),
                               FromBigEndian64(SubSeq(bytes, Len(bytes) - 7, Len(bytes)))>>)
            [] bytes = <<>> -> Return(IF kind = "boolean" THEN FALSE ELSE 0)
            [] number = <<>> -> Stop("failed")
            [] kind = "number" -> Return(number[1].value)
            [] kind = "signed" -> Return(UnZigZag(number[1].value))
            [] kind = "boolean" -> Return(number[1].value # 0))
      BY DEF ReadLeaf
    <2>2. kind \in {"number", "signed", "boolean", "bytes", "bits"}
      BY <1>1 DEF LeafKinds
    <2> HIDE DEF kind, bytes, number
    <2> QED
      BY <2>1, <2>2
  <1> HIDE DEF formats, bytes, range, number
  <1>4. \A v : Gets(Within, level', <<v>>) /\ IsLevel(level')
    <2>1. \A v : Uses(t, v) = 1
      BY <1>1 DEF Uses, IsNull, IsOptionalNull, LeafKinds
    <2> HIDE DEF t
    <2> QED
      BY <1>1, <1>2, <2>1, CountedOnce
  <1> HIDE DEF t
  <1>5. Reading
    BY <1>1, <1>2, <1>4 DEF Reading
  <1> QED
    BY <1>1, <1>3, <1>4, <1>5, ReaderReturns, ReaderStops

\* An ENUMERATED counts one tag, or the value is not one of its variants.
LEMMA ReadEnumeratedStep == Inv /\ ReadEnumerated => Inv'
  <1> SUFFICES ASSUME Inv, ReadEnumerated PROVE Inv'
    OBVIOUS
  <1> DEFINE t == Top.type
             range == NextTagRange(level, {VarInt})
             number == IF range = <<>> THEN <<[value |-> 0]>>
                       ELSE VarintAt[range[1]]
  <1>1. /\ phase = "read" /\ result = <<>> /\ t \in Types /\ t.kind = "enumerated"
        /\ AreReading(Within) /\ Awaits(Within, level, t) /\ IsLevel(level)
    BY ToRead DEF ReadEnumerated
  <1>2. level' = IncrementTagCounter(Taken(level, {VarInt})) /\ UNCHANGED <<message, writer>>
    BY DEF ReadEnumerated
  <1>3. (\E v : Return(v)) \/ Stop("failed")
    <2>1. IF number = <<>> \/ number[1].value >= t.variants
          THEN Stop("failed") ELSE Return(number[1].value)
      BY DEF ReadEnumerated
    <2> HIDE DEF number, t
    <2> QED
      BY <2>1
  <1> HIDE DEF range, number
  <1>4. \A v : Gets(Within, level', <<v>>) /\ IsLevel(level')
    <2>1. \A v : Uses(t, v) = 1
      BY <1>1 DEF Uses, IsNull, IsOptionalNull
    <2> HIDE DEF t
    <2> QED
      BY <1>1, <1>2, <2>1, CountedOnce
  <1> HIDE DEF t
  <1>5. Reading
    BY <1>1, <1>2, <1>4 DEF Reading
  <1> QED
    BY <1>1, <1>3, <1>4, <1>5, ReaderReturns, ReaderStops

\* A NULL counts none.
LEMMA ReadNullStep == Inv /\ ReadNull => Inv'
  <1> SUFFICES ASSUME Inv, ReadNull PROVE Inv'
    OBVIOUS
  <1> DEFINE t == Top.type
  <1>1. /\ phase = "read" /\ result = <<>> /\ t \in Types /\ t.kind = "null"
        /\ AreReading(Within) /\ Awaits(Within, level, t) /\ IsLevel(level)
    BY ToRead DEF ReadNull
  <1>2. Return("null") /\ UNCHANGED <<message, writer, level>>
    BY DEF ReadNull
  <1>3. Uses(t, "null") = 0
    BY <1>1 DEF Uses, IsNull
  <1> HIDE DEF t
  <1>4. Gets(Within, level', <<"null">>)
    <2>1. ~level.root => level.counter = level.counter + Uses(t, "null")
      BY <1>1, <1>3, LevelSteps
    <2> QED
      BY <1>1, <1>2, <2>1, Answered
  <1>5. Reading
    BY <1>1, <1>2 DEF Reading
  <1> QED
    BY <1>1, <1>2, <1>4, <1>5, ReaderReturns

\* An absent value counts one tag, a present one what it is made of.
LEMMA ReadOptStep == Inv /\ ReadOpt => Inv'
  <1> SUFFICES ASSUME Inv, ReadOpt PROVE Inv'
    OBVIOUS
  <1> DEFINE t == Top.type
             some == [does |-> "some"]
  <1>1. /\ phase = "read" /\ result = <<>> /\ t \in Types /\ t.kind = "optional"
        /\ IsSeq(Within) /\ AreReading(Within) /\ Awaits(Within, level, t) /\ IsLevel(level)
    BY ToRead DEF ReadOpt
  <1>2. t.of \in Types /\ t.of.kind # "optional"
    BY <1>1, TypesAssumption DEF AreTypes
  <1>3. CASE level.root \/ Counted(level, Formats) # {}
    <2>1. /\ calls' = <<Read(t.of), some>> \o Within
          /\ UNCHANGED <<message, writer, phase, level, result>>
      BY <1>3 DEF ReadOpt
    <2>2. some.does = "some"
      OBVIOUS
    <2> HIDE DEF t, some
    <2>3. calls' = <<Read(t.of)>> \o (<<some>> \o Within)
      BY <1>1, <2>1, TwoPushed
    <2>4. IsReading(some) /\ Leaves(some, Within)
      BY <1>1, <2>2 DEF IsReading, Leaves, Awaits
    <2>5. /\ AreReading(<<some>> \o Within) /\ Head(<<some>> \o Within) = some
          /\ Tail(<<some>> \o Within) = Within
      BY <1>1, <2>4, PushReading
    <2>6. Awaits(<<some>> \o Within, level', t.of)
      <3>1. Awaits1(<<some>> \o Within, level', t.of)
        BY <2>2, <2>5 DEF Awaits1
      <3>2. Awaits1(Within, level', t)
        BY <1>1, <2>1 DEF Awaits
      <3> QED
        BY <1>1, <1>2, <2>5, <3>1, <3>2 DEF Awaits
    <2>7. Reading
      BY <1>1, <2>1 DEF Reading
    <2> QED
      BY <1>1, <1>2, <2>1, <2>3, <2>5, <2>6, <2>7, ReaderCalls
  <1>4. CASE ~(level.root \/ Counted(level, Formats) # {})
    <2>1. level' = IncrementTagCounter(level) /\ Return(<<>>) /\ UNCHANGED <<message, writer>>
      BY <1>4 DEF ReadOpt
    <2>2. Uses(t, <<>>) = 1
      BY <1>1 DEF Uses, IsNull, IsOptionalNull
    <2> HIDE DEF t
    <2>3. Gets(Within, level', << <<>> >>) /\ IsLevel(level')
      BY <1>1, <2>1, <2>2, CountedOnce
    <2>4. Reading
      BY <1>1, <2>1, <2>3 DEF Reading
    <2> QED
      BY <1>1, <2>1, <2>3, <2>4, ReaderReturns
  <1> QED
    BY <1>3, <1>4

\* What was present is handed on.
LEMMA EndOptStep == Inv /\ EndOpt => Inv'
  <1> SUFFICES ASSUME Inv, EndOpt PROVE Inv'
    OBVIOUS
  <1>1. /\ phase = "read" /\ Does("some") /\ Return(result)
        /\ UNCHANGED <<message, writer, level>>
    BY DEF EndOpt
  <1>2. /\ calls # <<>> /\ Top.does = "some" /\ Leaves(Top, Within)
        /\ AreReading(Within) /\ Gets(calls, level, result) /\ IsLevel(level)
    BY <1>1, ToReadOn
  <1>3. Gets(Within, level', <<result>>)
    <2>1. Gets1(Within, level', <<result>>)
      BY <1>1, <1>2 DEF Gets, Top, Within
    <2>2. Within # <<>> => Head(Within).does # "some"
      BY <1>2 DEF Leaves
    <2> QED
      BY <2>1, <2>2 DEF Gets
  <1>4. Reading
    BY <1>1, <1>2 DEF Reading
  <1> QED
    BY <1>1, <1>2, <1>3, <1>4, ReaderReturns

\* A SEQUENCE or SET counts from 1 in a level of its own; the one around it goes on.
LEMMA ReadSetOrSequenceStep == Inv /\ ReadSetOrSequence => Inv'
  <1> SUFFICES ASSUME Inv, ReadSetOrSequence PROVE Inv'
    OBVIOUS
  <1> DEFINE t == Top.type
             range == OrEmpty(NextTagRange(level, {LengthDelimited}))
             outer == IncrementTagCounter(Taken(level, {LengthDelimited}))
             fields == FieldsAt[range]
             f == [does |-> "components", type |-> t, got |-> <<>>, next |-> 1, outer |-> outer]
  <1>1. /\ phase = "read" /\ result = <<>> /\ t \in Types /\ t.kind \in {"sequence", "set"}
        /\ IsSeq(Within) /\ AreReading(Within) /\ Awaits(Within, level, t) /\ IsLevel(level)
    BY ToRead DEF ReadSetOrSequence
  <1>2. /\ UNCHANGED <<message, writer>>
        /\ IF Readable(fields)
           THEN /\ level' = Enclosed(fields) /\ calls' = <<f>> \o Within
                /\ UNCHANGED <<phase, result>>
           ELSE level' = outer /\ Stop("failed")
    BY DEF ReadSetOrSequence
  <1>3. /\ f.does = "components" /\ f.type = t /\ f.got = <<>> /\ f.next = 1 /\ f.outer = outer
        /\ f = [does |-> f.does, type |-> f.type, got |-> f.got, next |-> f.next,
                outer |-> f.outer]
    OBVIOUS
  <1>4. IsLevel(outer) /\ \A v : Gets(Within, outer, <<v>>)
    <2>1. \A v : Uses(t, v) = 1
      BY <1>1 DEF Uses, IsNull, IsOptionalNull
    <2> HIDE DEF t
    <2> QED
      BY <1>1, <2>1, CountedOnce
  <1> HIDE DEF range, fields, outer, f
  <1>5. CASE Readable(fields)
    <2>1. level' = Enclosed(fields) /\ calls' = <<f>> \o Within /\ UNCHANGED <<phase, result>>
      BY <1>2, <1>5
    <2>2. IsReading(f) /\ Leaves(f, Within)
      <3>1. 1 \in 1 .. (Len(t.of) + 1)
        <4>1. Len(t.of) \in Nat
          BY <1>1, TypesAssumption DEF AreTypes
        <4> QED
          BY <4>1
      <3> HIDE DEF t
      <3>2. IsReadSetOrSequence(f)
        BY <1>1, <1>3, <3>1, None DEF IsReadSetOrSequence
      <3>3. Leaves(f, Within)
        BY <1>3, <1>4 DEF Leaves
      <3> QED
        BY <1>3, <1>4, <3>2, <3>3 DEF IsReading
    <2>3. AreReading(calls') /\ calls' # <<>> /\ Head(calls') = f
      BY <1>1, <2>1, <2>2, PushReading
    <2>4. IsLevel(level') /\ level'.root = FALSE /\ level'.counter = 1
      BY <2>1 DEF IsLevel, Enclosed
    <2>5. Gets(calls', level', <<>>)
      <3>1. <<>> \o <<>> = <<>> /\ Len(<<>>) = 1 - 1
        OBVIOUS
      <3>2. Used(f.type, <<>>) = 0
        BY UsedByNone
      <3>3. Gets1(calls', level', <<>>)
        <4>1. Used(f.type, f.got \o <<>>) + 1 = 1
          BY <1>3, <3>1, <3>2
        <4>2. Len(f.got \o <<>>) = f.next - 1
          BY <1>3, <3>1
        <4> QED
          BY <2>3, <2>4, <4>1, <4>2 DEF Gets1
      <3> QED
        BY <1>3, <2>3, <3>3 DEF Gets
    <2>6. Reading
      BY <1>1, <1>2, <2>4 DEF Reading
    <2> QED
      BY <1>1, <2>1, <2>3, <2>5, <2>6, ReaderGoesOn
  <1>6. CASE ~Readable(fields)
    <2>1. level' = outer /\ Stop("failed")
      BY <1>2, <1>6
    <2>2. Reading
      BY <1>1, <1>2, <1>4, <2>1 DEF Reading
    <2> QED
      BY <2>1, <2>2, ReaderStops
  <1> QED
    BY <1>5, <1>6

\* The next component is called once the one before has been counted.
LEMMA ReadComponentStep == Inv /\ ReadComponent => Inv'
  <1> SUFFICES ASSUME Inv, ReadComponent PROVE Inv'
    OBVIOUS
  <1> DEFINE f == Top
             got == f.got \o result
             n == f.next
             g == [f EXCEPT !.got = got, !.next = n + 1]
             t == f.type.of[Visited(f.type, n)]
  <1>0. Does("components") /\ phase = "read" /\ n <= Len(f.type.of)
    BY DEF ReadComponent
  <1>1. /\ calls # <<>> /\ f.does = "components" /\ IsReading(f) /\ Leaves(f, Within)
        /\ IsSeq(Within) /\ AreReading(Within) /\ Gets(calls, level, result)
        /\ IsLevel(level) /\ IsSeq(result)
    BY <1>0, ToReadOn
  <1>2. /\ calls' = <<Read(t), g>> \o Within /\ result' = <<>>
        /\ UNCHANGED <<message, phase, writer, level>>
    BY DEF ReadComponent
  <1>3. IsReadSetOrSequence(f) /\ IsLevel(f.outer)
    BY <1>1 DEF IsReading, IsReadElements
  <1>4. /\ f = [does |-> f.does, type |-> f.type, got |-> f.got, next |-> f.next,
                outer |-> f.outer]
        /\ f.type \in Types /\ f.type.kind \in {"sequence", "set"}
        /\ IsSeq(f.got) /\ n \in 1 .. (Len(f.type.of) + 1)
    BY <1>3 DEF IsReadSetOrSequence
  <1>5. ~level.root /\ Len(got) = n - 1 /\ level.counter = Used(f.type, got) + 1
    BY <1>1 DEF Gets, Gets1, Top
  <1>6. IsSeq(got)
    BY <1>1, <1>4, Joined
  <1>7. f.type.of \in Seq(Types) /\ Len(f.type.of) \in Nat
    BY <1>4, TypesAssumption DEF AreTypes
  <1> HIDE DEF f, got
  <1>8. n \in 1 .. Len(f.type.of) /\ n + 1 \in 1 .. (Len(f.type.of) + 1)
    <2> DEFINE m == Len(f.type.of)
    <2>1. m \in Nat /\ n \in 1 .. (m + 1) /\ n <= m
      BY <1>0, <1>4, <1>7
    <2> HIDE DEF m, n
    <2> QED
      BY <2>1 DEF m
  <1>9. t \in Types /\ t = Component(f.type, n)
    <2>1. Visited(f.type, n) \in DOMAIN f.type.of
      BY <1>4, <1>8, VisitedPlace
    <2> QED
      BY <1>7, <2>1 DEF Component
  <1>10. /\ g.does = "components" /\ g.type = f.type /\ g.got = got /\ g.next = n + 1
         /\ g.outer = f.outer
         /\ g = [does |-> g.does, type |-> g.type, got |-> g.got, next |-> g.next,
                 outer |-> g.outer]
    <2> DEFINE k == n + 1
    <2>1. g = [f EXCEPT !.got = got, !.next = k]
      OBVIOUS
    <2> HIDE DEF g, k
    <2>2. g = [does |-> f.does, type |-> f.type, got |-> got, next |-> k, outer |-> f.outer]
      BY <1>4, <2>1
    <2>3. /\ g.does = f.does /\ g.type = f.type /\ g.got = got /\ g.next = k
          /\ g.outer = f.outer
          /\ g = [does |-> g.does, type |-> g.type, got |-> g.got, next |-> g.next,
                  outer |-> g.outer]
      BY <2>2
    <2> QED
      BY <1>1, <2>3 DEF k
  <1> HIDE DEF g, t
  <1>11. IsReading(g) /\ Leaves(g, Within)
    <2>1. IsReadSetOrSequence(g)
      BY <1>4, <1>6, <1>8, <1>10 DEF IsReadSetOrSequence
    <2>2. Leaves(g, Within)
      BY <1>1, <1>10 DEF Leaves
    <2> QED
      BY <1>3, <1>10, <2>1, <2>2 DEF IsReading
  <1>12. /\ AreReading(<<g>> \o Within) /\ Head(<<g>> \o Within) = g
    BY <1>1, <1>11, PushReading
  <1>13. Awaits(<<g>> \o Within, level', t)
    <2>1. (n + 1) - 2 = n - 1 /\ (n + 1) - 1 = n
      BY <1>8
    <2>2. Awaits1(<<g>> \o Within, level', t)
      <3>1. Len(g.got) = g.next - 2 /\ Component(g.type, g.next - 1) = t
        <4> HIDE DEF n
        <4> QED
          BY <1>5, <1>9, <1>10, <2>1
      <3>2. ~level'.root /\ level'.counter = Used(g.type, g.got) + 1
        BY <1>2, <1>5, <1>10
      <3> QED
        BY <1>12, <3>1, <3>2 DEF Awaits1
    <2> QED
      BY <1>10, <1>12, <2>2 DEF Awaits
  <1>14. calls' = <<Read(t)>> \o (<<g>> \o Within)
    BY <1>1, <1>2, TwoPushed
  <1>15. Reading
    BY <1>0, <1>1, <1>2 DEF Reading
  <1> QED
    BY <1>2, <1>9, <1>12, <1>13, <1>14, <1>15, ReaderCalls

\* At its end a SEQUENCE or SET restores the level around it.
LEMMA ReturnComponentsStep == Inv /\ ReturnComponents => Inv'
  <1> SUFFICES ASSUME Inv, ReturnComponents PROVE Inv'
    OBVIOUS
  <1> DEFINE v == Declared(Top.type, Top.got \o result)
  <1>1. /\ phase = "read" /\ Does("components") /\ level' = Top.outer /\ Return(v)
        /\ UNCHANGED <<message, writer>>
    BY DEF ReturnComponents
  <1> HIDE DEF v
  <1>2. Top.does = "components" /\ IsReading(Top) /\ Leaves(Top, Within) /\ AreReading(Within)
    BY <1>1, ToReadOn
  <1>3. IsLevel(level') /\ Gets(Within, level', <<v>>)
    BY <1>1, <1>2 DEF IsReading, Leaves
  <1>4. Reading
    BY <1>1, <1>3 DEF Reading
  <1> QED
    BY <1>1, <1>2, <1>3, <1>4, ReaderReturns

\* A list waits for its elements with the level it was called in.
LEMMA ReadSetOrSequenceOfStep == Inv /\ ReadSetOrSequenceOf => Inv'
  <1> SUFFICES ASSUME Inv, ReadSetOrSequenceOf PROVE Inv'
    OBVIOUS
  <1> DEFINE t == Top.type
             f == [does |-> "elements", of |-> t.of, got |-> <<>>, outer |-> level]
  <1>0. Reads({"list"})
    BY DEF ReadSetOrSequenceOf
  <1>1. /\ phase = "read" /\ result = <<>> /\ t \in Types /\ t.kind = "list"
        /\ IsSeq(Within) /\ AreReading(Within) /\ Awaits(Within, level, t) /\ IsLevel(level)
    BY <1>0, ToRead
  <1>2. calls' = <<f>> \o Within /\ UNCHANGED <<message, phase, writer, level, result>>
    BY DEF ReadSetOrSequenceOf
  <1>3. /\ f.does = "elements" /\ f.of = t.of /\ f.outer = level
        /\ f = [does |-> f.does, of |-> f.of, got |-> f.got, outer |-> f.outer]
    OBVIOUS
  <1>4. t.of \in Types
    BY <1>1, TypesAssumption DEF AreTypes
  <1>5. \A v : Gets(Within, IncrementTagCounter(level), <<v>>)
    <2>1. \A v : Uses(t, v) = 1
      BY <1>1 DEF Uses, IsNull, IsOptionalNull
    <2> HIDE DEF t
    <2> QED
      BY <1>1, <2>1, CountedOnce
  <1> HIDE DEF f, t
  <1>6. IsReading(f) /\ Leaves(f, Within)
    BY <1>1, <1>3, <1>4, <1>5 DEF IsReading, IsReadElements, Leaves
  <1>7. AreReading(calls') /\ calls' # <<>> /\ Head(calls') = f
    BY <1>1, <1>2, <1>6, PushReading
  <1>8. Gets(calls', level', <<>>)
    BY <1>3, <1>7 DEF Gets, Gets1
  <1>9. Reading
    BY <1>1, <1>2 DEF Reading
  <1> QED
    BY <1>1, <1>2, <1>7, <1>8, <1>9, ReaderGoesOn

\* Every element is the root of its own range.
LEMMA ReadElementStep == Inv /\ ReadElement => Inv'
  <1> SUFFICES ASSUME Inv, ReadElement PROVE Inv'
    OBVIOUS
  <1> DEFINE f == Top
             got == Kept(f.got \o result)
             outer == Taken(f.outer, Formats)
             g == [f EXCEPT !.got = got, !.outer = outer]
             t == f.of
             range == NextTagRange(f.outer, Formats)[1]
  <1>0. Does("elements") /\ phase = "read"
    BY DEF ReadElement
  <1>1. /\ calls # <<>> /\ f.does = "elements" /\ IsReading(f) /\ Leaves(f, Within)
        /\ IsSeq(Within) /\ AreReading(Within)
    BY <1>0, ToReadOn
  <1>2. /\ level' = Root(range) /\ calls' = <<Read(t), g>> \o Within /\ result' = <<>>
        /\ UNCHANGED <<message, phase, writer>>
    BY DEF ReadElement
  <1> HIDE DEF range, got
  <1>3. /\ f = [does |-> f.does, of |-> f.of, got |-> f.got, outer |-> f.outer]
        /\ t \in Types /\ IsLevel(f.outer)
    BY <1>1 DEF IsReading, IsReadElements, IsReadSetOrSequence
  <1>4. \A v : Gets(Within, IncrementTagCounter(f.outer), <<v>>)
    BY <1>1 DEF Leaves
  <1> HIDE DEF f
  <1>5. IsLevel(outer) /\ \A v : Gets(Within, IncrementTagCounter(outer), <<v>>)
    <2> DEFINE l == f.outer
    <2>1. /\ IsLevel(outer) /\ outer.root = l.root /\ (~l.root => outer.counter = l.counter)
          /\ IncrementTagCounter(l).root = l.root
          /\ ~l.root => IncrementTagCounter(l).counter = l.counter + 1
      BY <1>3, LevelSteps
    <2> HIDE DEF outer
    <2>2. /\ IncrementTagCounter(outer).root = outer.root
          /\ ~outer.root => IncrementTagCounter(outer).counter = outer.counter + 1
      BY <2>1, LevelSteps
    <2> QED
      BY <1>4, <2>1, <2>2, GetsSame
  <1> HIDE DEF outer
  <1>6. /\ g.does = "elements" /\ g.of = t /\ g.outer = outer
        /\ g = [does |-> g.does, of |-> g.of, got |-> g.got, outer |-> g.outer]
    <2>1. g = [f EXCEPT !.got = got, !.outer = outer]
      OBVIOUS
    <2> HIDE DEF g
    <2>2. g = [does |-> f.does, of |-> f.of, got |-> got, outer |-> outer]
      BY <1>3, <2>1
    <2>3. /\ g.does = f.does /\ g.of = f.of /\ g.got = got /\ g.outer = outer
          /\ g = [does |-> g.does, of |-> g.of, got |-> g.got, outer |-> g.outer]
      BY <2>2
    <2> QED
      BY <1>1, <2>3
  <1> HIDE DEF g, t
  <1>7. IsReading(g) /\ Leaves(g, Within)
    BY <1>3, <1>5, <1>6 DEF IsReading, IsReadElements, Leaves
  <1>8. AreReading(<<g>> \o Within) /\ Head(<<g>> \o Within) = g
    BY <1>1, <1>7, PushReading
  <1>9. Awaits(<<g>> \o Within, level', t)
    BY <1>6, <1>8 DEF Awaits, Awaits1
  <1>10. calls' = <<Read(t)>> \o (<<g>> \o Within)
    BY <1>1, <1>2, TwoPushed
  <1>11. Reading
    <2>1. IsLevel(level')
      BY <1>2 DEF IsLevel, Root
    <2> QED
      BY <1>0, <1>2, <2>1 DEF Reading
  <1> QED
    BY <1>2, <1>3, <1>8, <1>9, <1>10, <1>11, ReaderCalls

\* The list has counted one tag.
LEMMA ReturnElementsStep == Inv /\ ReturnElements => Inv'
  <1> SUFFICES ASSUME Inv, ReturnElements PROVE Inv'
    OBVIOUS
  <1> DEFINE v == Kept(Top.got \o result)
  <1>1. /\ phase = "read" /\ Does("elements") /\ level' = IncrementTagCounter(Top.outer)
        /\ Return(v) /\ UNCHANGED <<message, writer>>
    BY DEF ReturnElements
  <1> HIDE DEF v
  <1>2. Top.does = "elements" /\ IsReading(Top) /\ Leaves(Top, Within) /\ AreReading(Within)
    BY <1>1, ToReadOn
  <1>3. IsLevel(Top.outer)
    BY <1>2 DEF IsReading
  <1>4. IsLevel(level') /\ Gets(Within, level', <<v>>)
    BY <1>1, <1>2, <1>3, LevelSteps DEF Leaves
  <1>5. Reading
    BY <1>1, <1>4 DEF Reading
  <1> QED
    BY <1>1, <1>2, <1>4, <1>5, ReaderReturns

\* The alternative of a CHOICE is read in a level with one field.
LEMMA ReadChoiceStep == Inv /\ ReadChoice => Inv'
  <1> SUFFICES ASSUME Inv, ReadChoice PROVE Inv'
    OBVIOUS
  <1> DEFINE t == Top.type
             range == NextTagRange(level, Formats)
             outer == IncrementTagCounter(Taken(level, Formats))
             tag == TagAt[range[1]]
             length == VarintAt[<<tag[1].next, range[1][2]>>]
             delimited == tag[1].format = LengthDelimited
             index == IF tag[1].tag = 0 THEN 0 ELSE tag[1].tag - 1
             field == [tag |-> 1, format |-> tag[1].format,
                       range |-> <<IF delimited THEN length[1].next ELSE tag[1].next,
                                   range[1][2]>>]
             fields == <<field>>
             fails == \/ range = <<>> \/ tag = <<>>
                      \/ delimited /\ length = <<>>
                      \/ index \notin 0 .. (Len(t.of) - 1)
             u == t.of[index + 1]
             f == [does |-> "alternative", index |-> index, outer |-> outer]
  <1>1. /\ phase = "read" /\ result = <<>> /\ t \in Types /\ t.kind = "choice"
        /\ IsSeq(Within) /\ AreReading(Within) /\ Awaits(Within, level, t) /\ IsLevel(level)
    <2>1. Reads({"choice"})
      BY DEF ReadChoice
    <2> QED
      BY <2>1, ToRead
  <1>2. /\ UNCHANGED <<message, writer>>
        /\ IF fails THEN level' = outer /\ Stop("failed")
           ELSE /\ level' = Enclosed(fields) /\ calls' = <<Read(u), f>> \o Within
                /\ UNCHANGED <<phase, result>>
    BY DEF ReadChoice
  <1>3. f.does = "alternative" /\ f.outer = outer
    OBVIOUS
  <1>4. IsLevel(outer) /\ \A v : Gets(Within, outer, <<v>>)
    <2>1. \A v : Uses(t, v) = 1
      BY <1>1 DEF Uses, IsNull, IsOptionalNull
    <2> HIDE DEF t
    <2> QED
      BY <1>1, <2>1, CountedOnce
  <1>5. fails \/ index \in 0 .. (Len(t.of) - 1)
    OBVIOUS
  <1> HIDE DEF range, outer, tag, length, delimited, index, field, fields, fails, f
  <1>6. CASE fails
    <2>1. level' = outer /\ Stop("failed")
      BY <1>2, <1>6
    <2>2. Reading
      BY <1>1, <1>2, <1>4, <2>1 DEF Reading
    <2> QED
      BY <2>1, <2>2, ReaderStops
  <1>7. CASE ~fails
    <2>1. /\ level' = Enclosed(fields) /\ calls' = <<Read(u), f>> \o Within
          /\ UNCHANGED <<phase, result>>
      BY <1>2, <1>7
    <2>2. u \in Types
      <3> DEFINE n == Len(t.of)
      <3>1. t.of \in Seq(Types) /\ n \in Nat /\ DOMAIN t.of = 1 .. n
        BY <1>1, TypesAssumption, LenProperties DEF AreTypes
      <3>2. index \in 0 .. (n - 1)
        BY <1>5, <1>7
      <3> HIDE DEF n, t
      <3>3. index + 1 \in 1 .. n
        BY <3>1, <3>2
      <3> QED
        BY <3>1, <3>3, ElementOfSeq DEF n
    <2> HIDE DEF t, u
    <2>3. calls' = <<Read(u)>> \o (<<f>> \o Within)
      BY <1>1, <2>1, TwoPushed
    <2>4. IsReading(f) /\ Leaves(f, Within)
      BY <1>3, <1>4 DEF IsReading, Leaves
    <2>5. AreReading(<<f>> \o Within) /\ Head(<<f>> \o Within) = f
      BY <1>1, <2>4, PushReading
    <2>6. Awaits(<<f>> \o Within, level', u)
      BY <1>3, <2>5 DEF Awaits, Awaits1
    <2>7. Reading
      <3>1. IsLevel(level')
        BY <2>1 DEF IsLevel, Enclosed
      <3> QED
        BY <1>1, <1>2, <3>1 DEF Reading
    <2> QED
      BY <1>1, <2>1, <2>2, <2>3, <2>5, <2>6, <2>7, ReaderCalls
  <1> QED
    BY <1>6, <1>7

\* The CHOICE restores the level around it.
LEMMA ReturnChoiceStep == Inv /\ ReturnChoice => Inv'
  <1> SUFFICES ASSUME Inv, ReturnChoice PROVE Inv'
    OBVIOUS
  <1> DEFINE v == <<Top.index, result[1]>>
  <1>1. /\ phase = "read" /\ Does("alternative") /\ level' = Top.outer /\ Return(v)
        /\ UNCHANGED <<message, writer>>
    BY DEF ReturnChoice
  <1> HIDE DEF v
  <1>2. Top.does = "alternative" /\ IsReading(Top) /\ Leaves(Top, Within) /\ AreReading(Within)
    BY <1>1, ToReadOn
  <1>3. IsLevel(level') /\ Gets(Within, level', <<v>>)
    BY <1>1, <1>2 DEF IsReading, Leaves
  <1>4. Reading
    BY <1>1, <1>3 DEF Reading
  <1> QED
    BY <1>1, <1>2, <1>3, <1>4, ReaderReturns

-----------------------------------------------------------------------------
(* The theorems *)

\* At first the message is to be written, as the root.
LEMMA InitInv == Init => Inv
  <1> SUFFICES ASSUME Init PROVE Inv
    OBVIOUS
  <1> DEFINE t == message.type
             v == message.value
             w == Write(t, v)
  <1>1. PICK i \in DOMAIN Messages : message = Messages[i]
    BY DEF Init
  <1>2. <<t, v>> \in Values
    BY <1>1, MessagesAssumption
  <1>3. /\ phase = "write" /\ calls = <<w>> /\ buffer = <<>> /\ tagCounter = 0
        /\ isRoot = TRUE /\ level = [root |-> TRUE, range |-> <<0, 0>>] /\ result = <<>>
    BY DEF Init, Write
  <1>4. w.does = "write" /\ w.type = t /\ w.value = v
    BY DEF Write
  <1> HIDE DEF t, v, w
  <1>5. IsSeq(calls) /\ calls # <<>> /\ Top = w /\ Within = <<>>
    <2>1. <<w>> # <<>> /\ Head(<<w>>) = w /\ Tail(<<w>>) = <<>>
      OBVIOUS
    <2> QED
      BY <1>3, <2>1, Single DEF Top, Within
  <1>6. AreWriting(<<>>) /\ OnlyLists(<<>>) /\ \A n : Owed(<<>>, n)
    <2>1. 1 .. Len(<<>>) = {} /\ 1 .. (Len(<<>>) - 1) = {}
      OBVIOUS
    <2> QED
      BY <2>1, None DEF AreWriting, OnlyLists, Owed
  <1>7. WriterInv
    BY <1>2, <1>3, <1>4, <1>5, <1>6 DEF WriterInv, Does
  <1>8. Typed
    <2>1. IsLevel(level)
      BY <1>3 DEF IsLevel, Root
    <2>2. buffer \in Seq(Byte) /\ tagCounter \in Nat
      BY <1>3
    <2> QED
      BY <1>1, <1>3, <1>5, <2>1, <2>2, None DEF Typed
  <1> QED
    BY <1>3, <1>7, <1>8 DEF Inv, Ended

\* The message is handed over with its type as the reader knows it.
LEMMA ReceiveStep == Inv /\ Receive => Inv'
  <1> SUFFICES ASSUME Inv, Receive PROVE Inv'
    OBVIOUS
  <1> DEFINE t == message.readAs
             r == Read(t)
  <1>1. /\ phase = "write" /\ phase' = "read" /\ calls' = <<r>>
        /\ level' = [root |-> TRUE, range |-> <<0, Len(buffer)>>]
        /\ UNCHANGED <<message, writer, result>>
    BY DEF Receive, Read
  <1>2. t \in Types
    BY MessagesAssumption DEF Inv, Typed
  <1>3. r.does = "read" /\ r.type = t
    BY DEF Read
  <1> HIDE DEF t, r
  <1>4. IsSeq(calls') /\ calls' # <<>> /\ Head(calls') = r /\ Tail(calls') = <<>>
    <2>1. <<r>> # <<>> /\ Head(<<r>>) = r /\ Tail(<<r>>) = <<>>
      OBVIOUS
    <2> QED
      BY <1>1, <2>1, Single
  <1>5. AreReading(<<>>) /\ Awaits(<<>>, level', t)
    <2>1. 1 .. Len(<<>>) = {}
      OBVIOUS
    <2> QED
      BY <2>1, None DEF AreReading, Awaits, Awaits1
  <1>6. result = <<>>
    BY <1>1 DEF Inv, WriterInv
  <1>7. ReaderInv'
    <2>1. Does("read")' /\ Top.type' = t /\ Within' = <<>>
      BY <1>3, <1>4 DEF Does, Top, Within
    <2> QED
      BY <1>1, <1>2, <1>4, <1>5, <1>6, <2>1 DEF ReaderInv
  <1>8. Typed'
    <2>1. IsLevel(level')
      BY <1>1 DEF IsLevel, Root
    <2> QED
      BY <1>1, <1>4, <2>1 DEF Inv, Typed, writer
  <1> QED
    BY <1>1, <1>7, <1>8 DEF Inv, Ended

\* Every step of the writer and of the reader leaves the invariant true.
LEMMA NextInv == Inv /\ [Next]_vars => Inv'
  <1> SUFFICES ASSUME Inv, [Next]_vars PROVE Inv'
    OBVIOUS
  <1>1. CASE UNCHANGED vars
    BY <1>1 DEF vars, writer, reader, Inv, Typed, WriterInv, ReaderInv, Ended, Does, Top, Within
  <1>2. CASE Finished
    BY <1>1, <1>2 DEF Finished
  <1>3. CASE \/ WriteLeaf \/ WriteEnumerated \/ WriteNull \/ WriteOpt
             \/ WriteSetOrSequence \/ WriteComponent \/ EndComponents
             \/ WriteSetOrSequenceOf \/ WriteElement \/ EndElements
             \/ WriteChoice \/ EndChoice \/ Receive
    BY <1>3, WriteLeafStep, WriteEnumeratedStep, WriteNullStep, WriteOptStep,
       WriteSetOrSequenceStep, WriteComponentStep, EndComponentsStep,
       WriteSetOrSequenceOfStep, WriteElementStep, EndElementsStep,
       WriteChoiceStep, EndChoiceStep, ReceiveStep
  <1>4. CASE \/ ReadLeaf \/ ReadEnumerated \/ ReadNull \/ ReadOpt \/ EndOpt
             \/ ReadSetOrSequence \/ ReadComponent \/ ReturnComponents
             \/ ReadSetOrSequenceOf \/ ReadElement \/ ReturnElements
             \/ ReadChoice \/ ReturnChoice
    BY <1>4, ReadLeafStep, ReadEnumeratedStep, ReadNullStep, ReadOptStep, EndOptStep,
       ReadSetOrSequenceStep, ReadComponentStep, ReturnComponentsStep,
       ReadSetOrSequenceOfStep, ReadElementStep, ReturnElementsStep,
       ReadChoiceStep, ReturnChoiceStep
  <1> QED
    BY <1>1, <1>2, <1>3, <1>4 DEF Next

\* The invariant holds at all times.
LEMMA InvHolds == Spec => []Inv
  BY InitInv, NextInv, PTL DEF Spec

\* What the calls in progress do.
LEMMA KnownCalls ==
  ASSUME Inv, NEW i \in DOMAIN calls
  PROVE  calls[i].does \in {"write", "read", "components", "elements", "alternative", "some"}
  <1> DEFINE K == {"components", "elements", "alternative", "some"}
             n == Len(calls)
  <1>1. IsSeq(calls) /\ n \in Nat /\ i \in 1 .. n /\ calls # <<>>
    <2>1. IsSeq(calls)
      BY DEF Inv, Typed
    <2>2. n \in Nat /\ DOMAIN calls = 1 .. n /\ (calls = <<>> <=> n = 0)
      BY <2>1, SeqFacts
    <2> HIDE DEF n
    <2>3. n # 0
      BY <2>2
    <2> QED
      BY <2>1, <2>2, <2>3
  <1>2. \A s : AreWriting(s) \/ AreReading(s) => \A k \in 1 .. Len(s) : s[k].does \in K
    BY DEF AreWriting, IsWriting, IsWriteSetOrSequence, IsWriteElements, IsWriteAlternative,
           AreReading, IsReading, IsReadSetOrSequence, IsReadElements
  <1>3. \/ AreWriting(calls) \/ AreReading(calls)
        \/ Top.does \in {"write", "read"} /\ (AreWriting(Within) \/ AreReading(Within))
    <2>1. phase \in {"write", "read"}
      BY <1>1 DEF Inv, Typed, Ended
    <2> QED
      BY <2>1 DEF Inv, WriterInv, ReaderInv, Does
  <1>4. CASE AreWriting(calls) \/ AreReading(calls)
    BY <1>1, <1>2, <1>4
  <1>5. CASE Top.does \in {"write", "read"} /\ (AreWriting(Within) \/ AreReading(Within))
    <2>1. /\ Len(Within) = n - 1 /\ Top = calls[1]
          /\ \A k \in 1 .. n - 1 : Within[k] = calls[k + 1]
      BY <1>1, Popped DEF Top, Within
    <2>2. CASE i = 1
      BY <1>5, <2>1, <2>2
    <2>3. CASE i # 1
      <3> HIDE DEF n, K
      <3>1. i - 1 \in 1 .. n - 1 /\ (i - 1) + 1 = i
        BY <1>1, <2>3
      <3>2. Within[i - 1] = calls[(i - 1) + 1]
        BY <2>1, <3>1
      <3>3. Within[i - 1].does \in K
        BY <1>2, <1>5, <2>1, <3>1
      <3> QED
        BY <3>1, <3>2, <3>3 DEF K
    <2> QED
      BY <2>2, <2>3
  <1> QED
    BY <1>3, <1>4, <1>5

\* The variables keep their types: bytes are bytes, counters count from 0
\* (writer) or 1 (reader), and a call of the reader returns one value.
THEOREM TypeCorrect == Spec => []TypeOK
  <1>1. Inv => TypeOK
    <2> SUFFICES ASSUME Inv PROVE TypeOK
      OBVIOUS
    <2>1. level.root \in BOOLEAN /\ (~level.root => level.counter \in Nat \ {0})
      BY LevelSteps DEF Inv, Typed
    <2>2. \A i \in DOMAIN calls :
            calls[i].does \in {"write", "read", "components", "elements", "alternative", "some"}
      BY KnownCalls
    <2> QED
      BY <2>1, <2>2 DEF Inv, Typed, TypeOK
  <1> QED
    BY <1>1, InvHolds, PTL

\* Writer and reader have counted one tag for every component they have
\* visited, NULLs excepted, whatever was nested in it (write_set_or_sequence,
\* write_choice, write_set_or_sequence_of and their counterparts restore what
\* they replace).
THEOREM TagsStayCounted == Spec => []TagsAreCounted
  <1>1. Inv => TagsAreCounted
    <2> SUFFICES ASSUME Inv, Does("components") PROVE TagsAreCounted
      BY DEF TagsAreCounted
    <2> DEFINE type == Top.type
               n == Top.next
               written == [k \in 1 .. (n - 1) |-> Top.value[Visited(type, k)]]
               got == Top.got \o result
    <2>1. ASSUME phase = "write"
          PROVE  /\ tagCounter = Len(written) - Cardinality(Tagless(type, written))
                 /\ n <= Len(type.of) /\ type.kind = "sequence" /\ Tagless(type, written) = {} =>
                      tagCounter + 1 = Visited(type, n)
      <3>1. calls # <<>> /\ Top.does = "components" /\ IsWriting(Top) /\ Owed(calls, tagCounter)
        BY <2>1, ToGoOn
      <3>2. tagCounter = Used(type, written)
        BY <3>1 DEF Owed, Count, Top
      <3>3. IsWriteSetOrSequence(Top)
        BY <3>1 DEF IsWriting, IsWriteElements, IsWriteAlternative
      <3>4. n \in Nat \ {0}
        <4>1. type \in Types /\ type.kind \in {"sequence", "set"} /\ n \in 1 .. (Len(type.of) + 1)
          BY <3>3, ValuesAssumption DEF IsWriteSetOrSequence, AreValues
        <4>2. Len(type.of) \in Nat
          BY <4>1, TypesAssumption DEF AreTypes
        <4> QED
          BY <4>1, <4>2
      <3>5. Len(written) = n - 1
        <4>1. written = [k \in 1 .. (n - 1) |-> written[k]]
          OBVIOUS
        <4>2. n - 1 \in Nat
          BY <3>4
        <4> HIDE DEF written, n
        <4> QED
          BY <4>1, <4>2, TableIsSeq
      <3> HIDE DEF written, n, type
      <3>6. ASSUME type.kind = "sequence", Tagless(type, written) = {}
            PROVE  tagCounter + 1 = Visited(type, n)
        <4>1. Cardinality(Tagless(type, written)) = 0
          BY <3>6, FS_EmptySet
        <4>2. tagCounter = n - 1
          BY <3>2, <3>4, <3>5, <4>1 DEF Used
        <4>3. Visited(type, n) = n
          BY <3>6 DEF Visited
        <4> QED
          BY <3>4, <4>2, <4>3
      <3> QED
        BY <3>2, <3>6 DEF Used
    <2>2. ASSUME phase = "read"
          PROVE  level.counter = Len(got) + 1 - Cardinality(Tagless(type, got))
      <3>1. /\ calls # <<>> /\ Top.does = "components" /\ IsReading(Top)
            /\ Gets(calls, level, result) /\ IsSeq(result)
        BY <2>2, ToReadOn
      <3>2. IsSeq(Top.got)
        BY <3>1 DEF IsReading, IsReadSetOrSequence, IsReadElements
      <3>3. IsSeq(got)
        BY <3>1, <3>2, Joined
      <3>4. level.counter = Used(type, got) + 1
        BY <3>1 DEF Gets, Gets1, Top
      <3> HIDE DEF got, type
      <3>5. Len(got) \in Nat /\ Cardinality(Tagless(type, got)) \in Nat
        BY <3>3, TaglessFinite, SeqFacts
      <3> QED
        BY <3>4, <3>5 DEF Used
    <2> QED
      BY <2>1, <2>2 DEF TagsAreCounted
  <1> QED
    BY <1>1, InvHolds, PTL
=============================================================================
