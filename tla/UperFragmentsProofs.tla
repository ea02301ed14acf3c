-------------------------- MODULE UperFragmentsProofs --------------------------
(***************************************************************************)
(* Types and order of the fragments, and what is read back of them, for    *)
(* every length and every SIZE.                                            *)
(***************************************************************************)
EXTENDS UperFragments, SequenceTheorems, NaturalsInduction,
        WellFoundedInduction, TLAPS

\* Induction on natural numbers about a set instead of a predicate.
LEMMA InductionBySet ==
  ASSUME NEW S, 0 \in S, \A n \in Nat : n \in S => n + 1 \in S
  PROVE  Nat \subseteq S
  <1> SUFFICES ASSUME Nat \ S # {} PROVE FALSE
    OBVIOUS
  <1>1. PICK x \in Nat \ S : \A y \in Nat \ S : << y, x >> \notin OpToRel(<, Nat)
    BY NatLessThanWellFounded, WFMin
  <1>2. x # 0 /\ x - 1 \in Nat /\ (x - 1) + 1 = x
    OBVIOUS
  <1>3. \A y \in Nat \ S : ~(y < x)
    BY <1>1 DEF OpToRel
  <1> QED
    BY <1>2, <1>3


USE DEF LENGTH_16K, LENGTH_64K, MAX_FRAGMENTS, MIN_FRAGMENT_SIZE, MAX_FRAGMENTS_SIZE, U8

-----------------------------------------------------------------------------
(* Streams of items, whatever state they are of *)

\* The units of a stream are in order and the first n of the value.
Reaches(s, n) == InOrder(s) /\ ReachedBefore(s, Len(s) + 1, n)

\* What is announced so far are multiples of 16K, up to 64K each.
OnlyMultiples(s) ==
    \A i \in 1 .. Len(s) :
        /\ ~LengthAt(s, i)
        /\ MultipleAt(s, i) => s[i].n <= MAX_FRAGMENTS

\* A length below 16K, if there is one, is the last that is announced.
LengthIsLast(s) ==
    \A i \in 1 .. Len(s) :
        /\ MultipleAt(s, i) => s[i].n <= MAX_FRAGMENTS
        /\ LengthAt(s, i) =>
              /\ s[i].n < LENGTH_16K
              /\ \A j \in i + 1 .. Len(s) : ~MultipleAt(s, j) /\ ~LengthAt(s, j)

\* No multiple is the last that is announced.
MultiplesGoOn(s) ==
    \A i \in 1 .. Len(s) :
        MultipleAt(s, i) => \E j \in i + 1 .. Len(s) : MultipleAt(s, j) \/ LengthAt(s, j)

\* A stream after one more item.
LEMMA AppendedItems ==
  ASSUME NEW s \in Seq(Item), NEW x \in Item
  PROVE  /\ Append(s, x) \in Seq(Item)
         /\ Len(s) \in Nat
         /\ Len(Append(s, x)) = Len(s) + 1
         /\ \A i \in 1 .. Len(s) : Append(s, x)[i] = s[i]
         /\ Append(s, x)[Len(s) + 1] = x
  BY AppendProperties, LenProperties

\* Where the units before an item reach to does not depend on what follows it.
LEMMA ReachedKept ==
  ASSUME NEW s \in Seq(Item), NEW x \in Item, NEW k \in 1 .. Len(s) + 1, NEW n
  PROVE  ReachedBefore(Append(s, x), k, n) <=> ReachedBefore(s, k, n)
  <1> DEFINE t == Append(s, x)
  <1>1. Len(s) \in Nat /\ Len(t) = Len(s) + 1 /\ \A i \in 1 .. Len(s) : t[i] = s[i]
    BY AppendedItems
  <1>2. \A j \in 1 .. k - 1 : j \in 1 .. Len(s) /\ t[j] = s[j]
    BY <1>1
  <1>3. \A j \in 1 .. k - 1 : UnitsAt(t, j) <=> UnitsAt(s, j)
    BY <1>1, <1>2 DEF UnitsAt
  <1>4. \A i \in 1 .. k - 1 : LastUnits(t, i, k) <=> LastUnits(s, i, k)
    BY <1>1, <1>3 DEF LastUnits
  <1> SUFFICES ReachedBefore(t, k, n) <=> ReachedBefore(s, k, n)
    OBVIOUS
  <1> HIDE DEF t
  <1>5. (\A j \in 1 .. k - 1 : ~UnitsAt(t, j)) <=> (\A j \in 1 .. k - 1 : ~UnitsAt(s, j))
    BY <1>3
  <1>6. (\E i \in 1 .. k - 1 : LastUnits(t, i, k) /\ t[i].to = n)
          <=> (\E i \in 1 .. k - 1 : LastUnits(s, i, k) /\ s[i].to = n)
    BY <1>2, <1>4
  <1> QED
    BY <1>5, <1>6 DEF ReachedBefore

\* An item that is no units: the value is reached as far as before.
LEMMA AppendOther ==
  ASSUME NEW s \in Seq(Item), NEW x \in Item, x.type # "units", NEW n, Reaches(s, n)
  PROVE  Reaches(Append(s, x), n)
  <1> DEFINE t == Append(s, x)
             e == Len(s) + 1
  <1>1. /\ t \in Seq(Item) /\ Len(s) \in Nat /\ Len(t) = e
        /\ \A i \in 1 .. Len(s) : t[i] = s[i]
        /\ t[e] = x
    BY AppendedItems
  <1>2. ~UnitsAt(t, e)
    BY <1>1 DEF UnitsAt
  <1>3. InOrder(t)
    <2> SUFFICES ASSUME NEW k \in 1 .. Len(t), UnitsAt(t, k)
                 PROVE  ReachedBefore(t, k, t[k].from)
      BY DEF InOrder
    <2>1. k \in 1 .. Len(s) /\ k \in 1 .. Len(s) + 1
      BY <1>1, <1>2
    <2>2. UnitsAt(s, k) /\ t[k] = s[k]
      BY <1>1, <2>1 DEF UnitsAt
    <2>3. ReachedBefore(s, k, s[k].from)
      BY <2>1, <2>2 DEF Reaches, InOrder
    <2> QED
      BY <2>1, <2>2, <2>3, ReachedKept
  <1>4. ReachedBefore(t, e, n)
    BY <1>1, ReachedKept DEF Reaches
  <1>5. ReachedBefore(t, e + 1, n)
    <2>1. CASE n = 0 /\ \A j \in 1 .. e - 1 : ~UnitsAt(t, j)
      <3>1. \A j \in 1 .. (e + 1) - 1 : ~UnitsAt(t, j)
        BY <1>1, <1>2, <2>1
      <3> QED
        BY <2>1, <3>1 DEF ReachedBefore
    <2>2. CASE \E i \in 1 .. e - 1 : LastUnits(t, i, e) /\ t[i].to = n
      <3>1. PICK i \in 1 .. e - 1 : LastUnits(t, i, e) /\ t[i].to = n
        BY <2>2
      <3>2. i \in 1 .. (e + 1) - 1 /\ i < e + 1
        BY <1>1
      <3>3. \A j \in i + 1 .. (e + 1) - 1 : ~UnitsAt(t, j)
        BY <1>1, <1>2, <3>1 DEF LastUnits
      <3>4. LastUnits(t, i, e + 1)
        BY <3>1, <3>2, <3>3 DEF LastUnits
      <3> QED
        BY <3>1, <3>2, <3>4 DEF ReachedBefore
    <2> QED
      BY <1>4, <2>1, <2>2 DEF ReachedBefore
  <1> QED
    BY <1>1, <1>3, <1>5 DEF Reaches

\* Units that begin where the value is reached.
LEMMA AppendUnits ==
  ASSUME NEW s \in Seq(Item), NEW from \in Nat, NEW n \in Nat, Reaches(s, from)
  PROVE  /\ Run(from, n) \in Item
         /\ Reaches(Append(s, Run(from, n)), from + n)
  <1> DEFINE x == Run(from, n)
             t == Append(s, x)
             e == Len(s) + 1
  <1>1. x \in Item /\ x.type = "units" /\ x.from = from /\ x.to = from + n
    BY DEF Run, Item
  <1>2. /\ t \in Seq(Item) /\ Len(s) \in Nat /\ Len(t) = e
        /\ \A i \in 1 .. Len(s) : t[i] = s[i]
        /\ t[e] = x
    BY <1>1, AppendedItems
  <1> HIDE DEF x
  <1>3. InOrder(t)
    <2> SUFFICES ASSUME NEW k \in 1 .. Len(t), UnitsAt(t, k)
                 PROVE  ReachedBefore(t, k, t[k].from)
      BY DEF InOrder
    <2>1. k \in 1 .. Len(s) + 1
      BY <1>2
    <2>2. CASE k = e
      BY <1>1, <1>2, <2>1, <2>2, ReachedKept DEF Reaches
    <2>3. CASE k # e
      <3>1. k \in 1 .. Len(s) /\ UnitsAt(s, k) /\ t[k] = s[k]
        BY <1>2, <2>3 DEF UnitsAt
      <3>2. ReachedBefore(s, k, s[k].from)
        BY <3>1 DEF Reaches, InOrder
      <3> QED
        BY <1>1, <2>1, <3>1, <3>2, ReachedKept
    <2> QED
      BY <2>2, <2>3
  <1>4. ReachedBefore(t, e + 1, from + n)
    <2>1. UnitsAt(t, e) /\ e \in 1 .. (e + 1) - 1
      BY <1>1, <1>2 DEF UnitsAt
    <2>2. LastUnits(t, e, e + 1)
      BY <1>2, <2>1 DEF LastUnits
    <2> QED
      BY <1>1, <1>2, <2>1, <2>2 DEF ReachedBefore
  <1> QED
    BY <1>1, <1>2, <1>3, <1>4 DEF Reaches, x

-----------------------------------------------------------------------------
(* Pieces: a determinant, or none, and the units it announces *)

\* What begins a piece: nothing or one item that is no units.
Heads == {h \in Seq(Item) : h = <<>> \/ \E x \in Item : h = <<x>> /\ x.type # "units"}

\* A head adds no units.
LEMMA HeadKeepsReach ==
  ASSUME NEW s \in Seq(Item), NEW h \in Heads, NEW n, Reaches(s, n)
  PROVE  s \o h \in Seq(Item) /\ Reaches(s \o h, n)
  <1>1. CASE h = <<>>
    BY <1>1, ConcatEmptySeq
  <1>2. CASE h # <<>>
    <2>1. PICK x \in Item : h = <<x>> /\ x.type # "units"
      BY <1>2 DEF Heads
    <2>2. s \o h = Append(s, x)
      BY <2>1, AppendIsConcat
    <2> QED
      BY <2>1, <2>2, AppendOther, AppendedItems
  <1> QED
    BY <1>1, <1>2

\* Units right behind those of a stream go on with the value.
LEMMA UnitsReachOn ==
  ASSUME NEW s \in Seq(Item), NEW from \in Nat, NEW n \in Nat, Reaches(s, from)
  PROVE  s \o Units(from, n) \in Seq(Item) /\ Reaches(s \o Units(from, n), from + n)
  <1>1. CASE n = 0
    <2>1. s \o Units(from, n) = s /\ from + n = from
      BY <1>1, ConcatEmptySeq DEF Units
    <2> QED
      BY <2>1
  <1>2. CASE n # 0
    <2>1. Run(from, n) \in Item /\ Reaches(Append(s, Run(from, n)), from + n)
      BY AppendUnits
    <2>2. s \o Units(from, n) = Append(s, Run(from, n))
      BY <1>2, <2>1, AppendIsConcat DEF Units
    <2> QED
      BY <2>1, <2>2, AppendedItems
  <1> QED
    BY <1>1, <1>2

\* Units are items, and nothing is taken away for them.
LEMMA UnitsOnlyAdd ==
  ASSUME NEW s \in Seq(Item), NEW from \in Nat, NEW n \in Nat
  PROVE  Len(s \o Units(from, n)) \in Nat /\ Len(s \o Units(from, n)) >= Len(s)
  <1>1. Run(from, n) \in Item
    BY DEF Run, Item
  <1>2. CASE n = 0
    <2>1. s \o Units(from, n) = s
      BY <1>2, ConcatEmptySeq DEF Units
    <2> QED
      BY <2>1, LenProperties
  <1>3. CASE n # 0
    <2>1. s \o Units(from, n) = Append(s, Run(from, n))
      BY <1>1, <1>3, AppendIsConcat DEF Units
    <2>2. Len(Append(s, Run(from, n))) = Len(s) + 1 /\ Len(s) \in Nat
      BY <1>1, AppendedItems
    <2> QED
      BY <2>1, <2>2
  <1> QED
    BY <1>2, <1>3

\* Units announce nothing.
LEMMA UnitsAnnounceNothing ==
  ASSUME NEW s \in Seq(Item), NEW from \in Nat, NEW n \in Nat
  PROVE  /\ OnlyMultiples(s) => OnlyMultiples(s \o Units(from, n))
         /\ LengthIsLast(s) => LengthIsLast(s \o Units(from, n))
         /\ MultiplesGoOn(s) => MultiplesGoOn(s \o Units(from, n))
  <1>1. CASE n = 0
    <2>1. s \o Units(from, n) = s
      BY <1>1, ConcatEmptySeq DEF Units
    <2> QED
      BY <2>1
  <1>2. CASE n # 0
    <2> DEFINE x == Run(from, n)
               t == Append(s, x)
    <2>1. x \in Item /\ x.type = "units"
      BY DEF Run, Item
    <2>2. s \o Units(from, n) = t
      BY <1>2, <2>1, AppendIsConcat DEF Units
    <2>3. /\ Len(s) \in Nat /\ Len(t) = Len(s) + 1
          /\ \A i \in 1 .. Len(s) : t[i] = s[i]
          /\ t[Len(s) + 1] = x
      BY <2>1, AppendedItems
    <2> HIDE DEF x, t
    <2>4. \A i : /\ MultipleAt(t, i) <=> MultipleAt(s, i)
                 /\ LengthAt(t, i) <=> LengthAt(s, i)
      <3> SUFFICES ASSUME NEW i
                   PROVE  /\ MultipleAt(t, i) <=> MultipleAt(s, i)
                          /\ LengthAt(t, i) <=> LengthAt(s, i)
        OBVIOUS
      <3>1. CASE i \in 1 .. Len(s)
        BY <2>3, <3>1 DEF MultipleAt, LengthAt
      <3>2. CASE i = Len(s) + 1
        BY <2>1, <2>3, <3>2 DEF MultipleAt, LengthAt
      <3>3. CASE i \notin 1 .. Len(s) + 1
        BY <2>3, <3>3 DEF MultipleAt, LengthAt
      <3> QED
        BY <2>3, <3>1, <3>2, <3>3
    <2>5. \A i : MultipleAt(t, i) \/ LengthAt(t, i) => i \in 1 .. Len(s) /\ t[i] = s[i]
      BY <2>3, <2>4 DEF MultipleAt, LengthAt
    <2>6. OnlyMultiples(s) => OnlyMultiples(t)
      BY <2>4, <2>5 DEF OnlyMultiples
    <2>7. LengthIsLast(s) => LengthIsLast(t)
      <3> SUFFICES ASSUME LengthIsLast(s), NEW i \in 1 .. Len(t)
                   PROVE  /\ MultipleAt(t, i) => t[i].n <= MAX_FRAGMENTS
                          /\ LengthAt(t, i) =>
                                /\ t[i].n < LENGTH_16K
                                /\ \A j \in i + 1 .. Len(t) : ~MultipleAt(t, j) /\ ~LengthAt(t, j)
        BY DEF LengthIsLast
      <3>1. \A j \in i + 1 .. Len(t) : MultipleAt(t, j) \/ LengthAt(t, j) => j \in i + 1 .. Len(s)
        BY <2>3, <2>5
      <3> QED
        BY <2>4, <2>5, <3>1 DEF LengthIsLast
    <2>8. MultiplesGoOn(s) => MultiplesGoOn(t)
      <3> SUFFICES ASSUME MultiplesGoOn(s), NEW i \in 1 .. Len(t), MultipleAt(t, i)
                   PROVE  \E j \in i + 1 .. Len(t) : MultipleAt(t, j) \/ LengthAt(t, j)
        BY DEF MultiplesGoOn
      <3>1. i \in 1 .. Len(s) /\ MultipleAt(s, i)
        BY <2>4, <2>5
      <3>2. PICK j \in i + 1 .. Len(s) : MultipleAt(s, j) \/ LengthAt(s, j)
        BY <3>1 DEF MultiplesGoOn
      <3>3. j \in i + 1 .. Len(t)
        BY <2>3, <3>1, <3>2
      <3> QED
        BY <2>4, <3>2, <3>3
    <2> QED
      BY <2>2, <2>6, <2>7, <2>8
  <1> QED
    BY <1>1, <1>2

\* A determinant of a legal size.
Limited(x) ==
    /\ x \in Item /\ x.type # "units"
    /\ x.type = "multiple" => x.n <= MAX_FRAGMENTS
    /\ x.type = "length" => x.n < LENGTH_16K

\* Behind multiples there may be more of them, or a length, which is the end.
LEMMA DeterminantAnnounces ==
  ASSUME NEW s \in Seq(Item), NEW x, Limited(x), OnlyMultiples(s)
  PROVE  /\ LengthIsLast(Append(s, x))
         /\ x.type # "length" => OnlyMultiples(Append(s, x))
         /\ x.type = "length" => MultiplesGoOn(Append(s, x))
         /\ x.type # "multiple" /\ (\A i \in 1 .. Len(s) : ~MultipleAt(s, i)) =>
              MultiplesGoOn(Append(s, x))
  <1> DEFINE t == Append(s, x)
             e == Len(s) + 1
  <1>1. /\ x \in Item /\ x.type # "units"
        /\ Len(s) \in Nat /\ Len(t) = e
        /\ \A i \in 1 .. Len(s) : t[i] = s[i]
        /\ t[e] = x
    BY AppendedItems DEF Limited
  <1> HIDE DEF t
  <1>2. \A i \in 1 .. Len(s) : /\ MultipleAt(t, i) <=> MultipleAt(s, i)
                               /\ LengthAt(t, i) <=> LengthAt(s, i)
    BY <1>1 DEF MultipleAt, LengthAt
  <1>3. /\ MultipleAt(t, e) <=> x.type = "multiple"
        /\ LengthAt(t, e) <=> x.type = "length"
    BY <1>1 DEF MultipleAt, LengthAt
  <1>4. \A i \in 1 .. Len(t) : i \in 1 .. Len(s) \/ i = e
    BY <1>1
  <1>5. LengthIsLast(t)
    <2> SUFFICES ASSUME NEW i \in 1 .. Len(t)
                 PROVE  /\ MultipleAt(t, i) => t[i].n <= MAX_FRAGMENTS
                        /\ LengthAt(t, i) =>
                              /\ t[i].n < LENGTH_16K
                              /\ \A j \in i + 1 .. Len(t) : ~MultipleAt(t, j) /\ ~LengthAt(t, j)
      BY DEF LengthIsLast
    <2>1. CASE i \in 1 .. Len(s)
      BY <1>1, <1>2, <2>1 DEF OnlyMultiples
    <2>2. CASE i = e
      BY <1>1, <1>3, <2>2 DEF Limited
    <2> QED
      BY <1>4, <2>1, <2>2
  <1>6. x.type # "length" => OnlyMultiples(t)
    BY <1>1, <1>2, <1>3, <1>4 DEF OnlyMultiples, Limited
  <1>7. x.type = "length" => MultiplesGoOn(t)
    <2> SUFFICES ASSUME x.type = "length", NEW i \in 1 .. Len(t), MultipleAt(t, i)
                 PROVE  \E j \in i + 1 .. Len(t) : MultipleAt(t, j) \/ LengthAt(t, j)
      BY DEF MultiplesGoOn
    <2>1. i \in 1 .. Len(s)
      BY <1>3, <1>4
    <2>2. e \in i + 1 .. Len(t)
      BY <1>1, <2>1
    <2> QED
      BY <1>3, <2>2
  <1>8. x.type # "multiple" /\ (\A i \in 1 .. Len(s) : ~MultipleAt(s, i)) => MultiplesGoOn(t)
    BY <1>2, <1>3, <1>4 DEF MultiplesGoOn
  <1> QED
    BY <1>5, <1>6, <1>7, <1>8 DEF t

-----------------------------------------------------------------------------
(* write_length_determinant *)

\* The determinant of a size without bounds.
Blocks(n) == (n \div LENGTH_16K) % U8
UnboundedItem(n) ==
    IF n < LENGTH_16K THEN [type |-> "length", n |-> n]
    ELSE [type |-> "multiple", n |-> Smaller(Blocks(n), MAX_FRAGMENTS)]

\* It is what Determinant gives, and never announces more than 64K.
LEMMA UnboundedItemIsLegal ==
  ASSUME NEW n \in Nat
  PROVE  /\ Determinant(NoBound, NoBound, n) = <<UnboundedItem(n)>>
         /\ Limited(UnboundedItem(n))
         /\ UnboundedItem(n).type = IF n < LENGTH_16K THEN "length" ELSE "multiple"
  <1> DEFINE x == UnboundedItem(n)
  <1>1. ~WideBounds(NoBound, NoBound) /\ ~NarrowBounds(NoBound, NoBound)
    BY DEF WideBounds, NarrowBounds
  <1>2. Determinant(NoBound, NoBound, n) = <<x>>
    BY <1>1 DEF Determinant, UnboundedItem, Blocks
  <1>3. CASE n < LENGTH_16K
    <2>1. x = [type |-> "length", n |-> n]
      BY <1>3 DEF UnboundedItem
    <2>2. Limited(x) /\ x.type = "length"
      BY <1>3, <2>1 DEF Limited, Item
    <2> QED
      BY <1>2, <1>3, <2>2
  <1>4. CASE ~(n < LENGTH_16K)
    <2> DEFINE count == Smaller(Blocks(n), MAX_FRAGMENTS)
    <2>1. x = [type |-> "multiple", n |-> count]
      BY <1>4 DEF UnboundedItem
    <2>2. Blocks(n) \in Nat
      BY DEF Blocks
    <2>3. count \in 0 .. MAX_FRAGMENTS
      BY <2>2 DEF Smaller
    <2> HIDE DEF count
    <2>4. Limited(x) /\ x.type = "multiple"
      BY <2>1, <2>3 DEF Limited, Item
    <2> QED
      BY <1>2, <1>4, <2>4
  <1> QED
    BY <1>3, <1>4

\* It announces all units below 16K, and otherwise some multiple of 16K, which
\* is at least one below 4 MiB.
LEMMA UnboundedItemAnnounces ==
  ASSUME NEW n \in Nat
  PROVE  /\ Announced(<<UnboundedItem(n)>>, n) \in 0 .. n
         /\ n < LENGTH_16K => Announced(<<UnboundedItem(n)>>, n) = n
         /\ n >= LENGTH_16K /\ n < U8 * LENGTH_16K =>
              Announced(<<UnboundedItem(n)>>, n) >= MIN_FRAGMENT_SIZE
  <1> DEFINE x == UnboundedItem(n)
  <1>1. CASE n < LENGTH_16K
    <2>1. x = [type |-> "length", n |-> n]
      BY <1>1 DEF UnboundedItem
    <2>2. Announced(<<x>>, n) = n
      BY <2>1 DEF Announced
    <2> QED
      BY <1>1, <2>2
  <1>2. CASE ~(n < LENGTH_16K)
    <2> DEFINE count == Smaller(Blocks(n), MAX_FRAGMENTS)
    <2>1. x = [type |-> "multiple", n |-> count]
      BY <1>2 DEF UnboundedItem
    <2>2. /\ Blocks(n) \in Nat /\ Blocks(n) * LENGTH_16K <= n
          /\ n < U8 * LENGTH_16K => Blocks(n) >= 1
      BY <1>2 DEF Blocks
    <2>3. /\ count \in 0 .. MAX_FRAGMENTS /\ count * LENGTH_16K <= n
          /\ n < U8 * LENGTH_16K => count >= 1
      BY <2>2 DEF Smaller
    <2> HIDE DEF count
    <2>4. Announced(<<x>>, n) = count * LENGTH_16K
      BY <2>1 DEF Announced
    <2> QED
      BY <1>2, <2>3, <2>4
  <1> QED
    BY <1>1, <1>2

\* The first determinant of any value: none, or one that announces all units
\* unless it is a multiple of 16K.
LEMMA FirstDeterminantIsLegal ==
  ASSUME case \in Cases, ~Underflows(FirstDeterminant)
  PROVE  /\ case.len \in Nat
         /\ \/ FirstDeterminant = <<>>
            \/ \E x : /\ FirstDeterminant = <<x>> /\ Limited(x)
                      /\ x.type = "length" => case.len < LENGTH_16K
         /\ Announced(FirstDeterminant, case.len) \in 0 .. case.len
         /\ ~IsFragment(FirstDeterminant) => Announced(FirstDeterminant, case.len) = case.len
  <1>1. /\ case.len \in Nat
        /\ case.min \in Nat \cup {NoBound} /\ case.max \in Nat \cup {NoBound}
    BY CasesAssumption
  <1> DEFINE Legal(d) ==
        /\ \/ d = <<>>
           \/ \E x : /\ d = <<x>> /\ Limited(x)
                     /\ x.type = "length" => case.len < LENGTH_16K
        /\ Announced(d, case.len) \in 0 .. case.len
        /\ ~IsFragment(d) => Announced(d, case.len) = case.len
  <1>2. Legal(Determinant(NoBound, NoBound, case.len))
    <2> DEFINE x == UnboundedItem(case.len)
    <2>1. /\ Determinant(NoBound, NoBound, case.len) = <<x>>
          /\ Limited(x)
          /\ x.type = IF case.len < LENGTH_16K THEN "length" ELSE "multiple"
      BY <1>1, UnboundedItemIsLegal
    <2>3. /\ Announced(<<x>>, case.len) \in 0 .. case.len
          /\ case.len < LENGTH_16K => Announced(<<x>>, case.len) = case.len
      BY <1>1, UnboundedItemAnnounces
    <2> HIDE DEF x
    <2>2. IsFragment(<<x>>) <=> x.type = "multiple"
      BY DEF IsFragment
    <2> QED
      BY <2>1, <2>2, <2>3
  <1>3. Legal(<<>>)
    BY <1>1 DEF Announced, IsFragment
  <1>4. ASSUME NEW n \in Int, FirstDeterminant = <<[type |-> "constrained", n |-> n]>>
        PROVE  Legal(FirstDeterminant)
    <2> DEFINE x == [type |-> "constrained", n |-> n]
    <2>1. n >= 0
      BY <1>4 DEF Underflows
    <2>2. Limited(x)
      BY <2>1 DEF Limited, Item
    <2>3. Announced(<<x>>, case.len) = case.len /\ ~IsFragment(<<x>>)
      BY DEF Announced, IsFragment
    <2> QED
      BY <1>1, <1>4, <2>2, <2>3
  <1>5. Legal(FirstDeterminant)
    <2> DEFINE lb == case.min
               ub == case.max
               d == Determinant(lb, ub, case.len)
    <2>1. CASE OutOfRange
      BY <1>2, <2>1 DEF FirstDeterminant
    <2>2. CASE ~OutOfRange /\ FixedBelow64K
      BY <1>3, <2>2 DEF FirstDeterminant
    <2>3. CASE ~OutOfRange /\ ~FixedBelow64K
      <3>1. FirstDeterminant = d
        BY <2>3 DEF FirstDeterminant
      <3>2. OrElse(lb, 0) \in Nat
        BY <1>1 DEF OrElse
      <3>3. CASE WideBounds(lb, ub)
        BY <1>1, <1>3, <1>4, <3>1, <3>2, <3>3 DEF Determinant
      <3>4. CASE ~WideBounds(lb, ub) /\ NarrowBounds(lb, ub)
        BY <1>1, <1>4, <3>1, <3>2, <3>4 DEF Determinant
      <3>5. CASE ~WideBounds(lb, ub) /\ ~NarrowBounds(lb, ub)
        <4>1. ~WideBounds(NoBound, NoBound) /\ ~NarrowBounds(NoBound, NoBound)
          BY DEF WideBounds, NarrowBounds
        <4>2. d = Determinant(NoBound, NoBound, case.len)
          BY <3>5, <4>1 DEF Determinant
        <4> QED
          BY <1>2, <3>1, <4>2
      <3> QED
        BY <3>3, <3>4, <3>5
    <2> QED
      BY <2>1, <2>2, <2>3
  <1> QED
    BY <1>1, <1>5

-----------------------------------------------------------------------------
(* Writing *)

\* What the first step of a writer leaves, and what each turn of its loop does.
FirstStream(n) == ExtensionFlag \o FirstDeterminant \o Units(0, n)
NextStream(s, n, w, m) == s \o Determinant(NoBound, NoBound, n) \o Units(w, m)

\* The extension bit, if the size has one, announces nothing.
LEMMA FlagWritten ==
  ASSUME case \in Cases
  PROVE  /\ ExtensionFlag \in Heads /\ Len(ExtensionFlag) \in Nat
         /\ case.extensible => Len(ExtensionFlag) = 1
         /\ ExtensionFlag \in Seq(Item) /\ OnlyMultiples(ExtensionFlag)
         /\ \A i \in 1 .. Len(ExtensionFlag) : ~MultipleAt(ExtensionFlag, i)
         /\ LengthIsLast(ExtensionFlag) /\ MultiplesGoOn(ExtensionFlag)
         /\ Reaches(ExtensionFlag, 0)
  <1> DEFINE f == ExtensionFlag
  <1>1. case.len \in Nat /\ case.extensible \in BOOLEAN
    BY CasesAssumption
  <1>2. /\ f \in Heads /\ Len(f) \in Nat
        /\ \A i \in 1 .. Len(f) : f[i].type = "extension"
        /\ case.extensible => Len(f) = 1
    <2>1. CASE case.extensible
      <3>1. f = <<Flag(OutOfRange)>> /\ Flag(OutOfRange).type = "extension"
        BY <2>1 DEF ExtensionFlag, Flag
      <3>2. OutOfRange \in BOOLEAN
        BY DEF OutOfRange
      <3>3. Flag(OutOfRange) \in Item
        BY <3>2 DEF Flag, Item
      <3> QED
        BY <2>1, <3>1, <3>3 DEF Heads
    <2>2. CASE ~case.extensible
      BY <2>2, EmptySeq DEF ExtensionFlag, Heads
    <2> QED
      BY <2>1, <2>2
  <1>3. /\ f \in Seq(Item) /\ OnlyMultiples(f)
        /\ \A i \in 1 .. Len(f) : ~MultipleAt(f, i)
        /\ LengthIsLast(f) /\ MultiplesGoOn(f)
    BY <1>2 DEF Heads, OnlyMultiples, MultipleAt, LengthAt, LengthIsLast, MultiplesGoOn
  <1>4. Reaches(f, 0)
    <2>1. <<>> \in Seq(Item) /\ Len(<<>>) = 0
      BY EmptySeq
    <2>2. Reaches(<<>>, 0)
      BY <2>1 DEF Reaches, InOrder, ReachedBefore
    <2>3. <<>> \o f = f
      BY <1>3, ConcatEmptySeq
    <2> QED
      BY <1>2, <2>1, <2>2, <2>3, HeadKeepsReach
  <1> QED
    BY <1>2, <1>3, <1>4

\* What write_octetstring and write_bitstring write before their loops.
LEMMA FirstWritten ==
  ASSUME case \in Cases, ~Underflows(FirstDeterminant), NEW n \in Nat,
         NEW s, s = FirstStream(n)
  PROVE  /\ s \in Seq(Item) /\ Reaches(s, n) /\ LengthIsLast(s)
         /\ case.len >= LENGTH_16K => OnlyMultiples(s)
         /\ IsFragment(FirstDeterminant) => OnlyMultiples(s)
         /\ ~IsFragment(FirstDeterminant) => MultiplesGoOn(s)
         /\ case.extensible => s # <<>>
  <1> DEFINE f == ExtensionFlag
             d == FirstDeterminant
             h == f \o d
  <1>1. case.len \in Nat /\ case.extensible \in BOOLEAN
    BY CasesAssumption
  <1>2. f \in Heads /\ Len(f) \in Nat /\ (case.extensible => Len(f) = 1)
    BY FlagWritten
  <1>3. /\ f \in Seq(Item) /\ OnlyMultiples(f)
        /\ \A i \in 1 .. Len(f) : ~MultipleAt(f, i)
        /\ LengthIsLast(f) /\ MultiplesGoOn(f)
    BY FlagWritten
  <1>4. Reaches(f, 0)
    BY FlagWritten
  <1>5. /\ h \in Seq(Item) /\ Reaches(h, 0) /\ LengthIsLast(h)
        /\ case.len >= LENGTH_16K => OnlyMultiples(h)
        /\ IsFragment(d) => OnlyMultiples(h)
        /\ ~IsFragment(d) => MultiplesGoOn(h)
        /\ Len(h) >= Len(f)
    <2> HIDE DEF f
    <2>1. CASE d = <<>>
      <3>1. h = f
        BY <1>3, <2>1, ConcatEmptySeq
      <3> QED
        BY <1>2, <1>3, <1>4, <3>1
    <2>2. CASE d # <<>>
      <3>1. PICK x : /\ d = <<x>> /\ Limited(x)
                     /\ x.type = "length" => case.len < LENGTH_16K
        BY <2>2, FirstDeterminantIsLegal
      <3> HIDE DEF d
      <3>2. x \in Item /\ x.type # "units"
        BY <3>1 DEF Limited
      <3>3. h = Append(f, x)
        BY <1>3, <3>1, <3>2, AppendIsConcat
      <3>4. Reaches(h, 0) /\ h \in Seq(Item) /\ Len(h) = Len(f) + 1
        BY <1>3, <1>4, <3>2, <3>3, AppendOther, AppendedItems
      <3>5. IsFragment(d) <=> x.type = "multiple"
        BY <3>1 DEF IsFragment
      <3>6. /\ LengthIsLast(h)
            /\ x.type # "length" => OnlyMultiples(h)
            /\ x.type # "multiple" => MultiplesGoOn(h)
        <4>1. f \in Seq(Item) /\ OnlyMultiples(f) /\ \A i \in 1 .. Len(f) : ~MultipleAt(f, i)
          BY <1>3
        <4> HIDE DEF h
        <4> QED
          BY <3>1, <3>3, <4>1, DeterminantAnnounces
      <3>7. case.len >= LENGTH_16K => x.type # "length"
        BY <1>1, <3>1
      <3> QED
        BY <1>2, <3>4, <3>5, <3>6, <3>7
    <2> QED
      BY <2>1, <2>2
  <1> HIDE DEF h
  <1>6. s = h \o Units(0, n)
    BY DEF h, FirstStream
  <1>7. s \in Seq(Item) /\ Reaches(s, n)
    <2>1. h \in Seq(Item) /\ Reaches(h, 0)
      BY <1>5
    <2>2. h \o Units(0, n) \in Seq(Item) /\ Reaches(h \o Units(0, n), 0 + n)
      BY <2>1, UnitsReachOn
    <2>3. 0 + n = n
      OBVIOUS
    <2> QED
      BY <1>6, <2>2, <2>3
  <1>8. case.extensible => s # <<>>
    <2> HIDE DEF f
    <2>3. h \in Seq(Item) /\ Len(h) \in Nat
      BY <1>5, LenProperties
    <2>1. Len(s) \in Nat /\ Len(s) >= Len(h) /\ Len(h) \in Nat
      BY <1>6, <2>3, UnitsOnlyAdd
    <2>2. case.extensible => Len(s) # 0
      <3>1. (case.extensible => Len(f) = 1) /\ Len(h) >= Len(f)
        BY <1>2, <1>5
      <3> QED
        BY <2>1, <3>1
    <2> QED
      BY <2>2, EmptySeq
  <1>9. /\ OnlyMultiples(h) => OnlyMultiples(s)
        /\ LengthIsLast(h) => LengthIsLast(s)
        /\ MultiplesGoOn(h) => MultiplesGoOn(s)
    <2>1. h \in Seq(Item)
      BY <1>5
    <2> QED
      BY <1>6, <2>1, UnitsAnnounceNothing
  <1> QED
    BY <1>5, <1>7, <1>8, <1>9

\* What one turn of a write loop adds.
LEMMA NextWritten ==
  ASSUME NEW s \in Seq(Item), NEW w \in Nat, Reaches(s, w), OnlyMultiples(s),
         NEW n \in Nat, NEW m \in Nat,
         NEW t, t = NextStream(s, n, w, m)
  PROVE  /\ t \in Seq(Item) /\ Reaches(t, w + m) /\ LengthIsLast(t)
         /\ n < LENGTH_16K => MultiplesGoOn(t)
         /\ n >= LENGTH_16K => OnlyMultiples(t)
         /\ t # <<>>
  <1> DEFINE x == UnboundedItem(n)
             h == Append(s, x)
  <1>1. /\ Determinant(NoBound, NoBound, n) = <<x>> /\ Limited(x)
        /\ x.type = IF n < LENGTH_16K THEN "length" ELSE "multiple"
    BY UnboundedItemIsLegal
  <1>2. x \in Item /\ x.type # "units"
    BY <1>1 DEF Limited
  <1> HIDE DEF x
  <1>3. /\ h \in Seq(Item) /\ Reaches(h, w) /\ Len(h) = Len(s) + 1 /\ Len(s) \in Nat
    BY <1>2, AppendOther, AppendedItems
  <1>4. /\ LengthIsLast(h)
        /\ n < LENGTH_16K => MultiplesGoOn(h)
        /\ n >= LENGTH_16K => OnlyMultiples(h)
    BY <1>1, DeterminantAnnounces
  <1>5. t = h \o Units(w, m)
    BY <1>1, <1>2, AppendIsConcat DEF NextStream
  <1> HIDE DEF h
  <1>6. t \in Seq(Item) /\ Reaches(t, w + m)
    BY <1>3, <1>5, UnitsReachOn
  <1>7. t # <<>>
    <2>1. Len(t) \in Nat /\ Len(t) >= Len(h)
      BY <1>3, <1>5, UnitsOnlyAdd
    <2>2. Len(t) # 0
      BY <1>3, <2>1
    <2> QED
      BY <2>2, EmptySeq
  <1> QED
    BY <1>3, <1>4, <1>5, <1>6, <1>7, UnitsAnnounceNothing

-----------------------------------------------------------------------------
(* The invariant *)

\* An octet string or open type of 1 octet to 4 MiB.
Small == case.kind \in {"octets", "open"} /\ case.len > 0 /\ case.len < U8 * LENGTH_16K

\* In its loop a writer has reached the unit it counts, has announced nothing
\* but multiples, and is the loop of the value's kind.  Without these a last
\* piece could leave a gap, or a length could come before a multiple.
WriterInv ==
    /\ InOrder(stream) /\ LengthIsLast(stream)
    /\ phase \in {"writeOctets", "writeBits"} =>
          ReachedBefore(stream, Len(stream) + 1, written) /\ OnlyMultiples(stream)
    /\ phase = "writeOctets" => case.kind \in {"octets", "open"}
    /\ phase = "writeBits" => case.kind = "bits"
    /\ Written /\ Small =>
          ReachedBefore(stream, Len(stream) + 1, case.len) /\ MultiplesGoOn(stream)

\* The extension bit is there when the reader begins, and nothing is read before.
FlagInv ==
    /\ phase \in {"writeOctets", "writeBits", "read"} /\ case.extensible => stream # <<>>
    /\ phase \in {"write", "writeOctets", "writeBits"} => at = 0

IInv == TypeOK /\ WriterInv /\ FlagInv

\* The invariant is stronger than what the run checks.
LEMMA InvariantSuffices == IInv => FragmentsInOrder
  <1> SUFFICES ASSUME IInv PROVE FragmentsInOrder
    OBVIOUS
  <1>1. InOrder(stream) /\ LengthIsLast(stream)
    BY DEF IInv, WriterInv
  <1>2. Small /\ Written => ReachedBefore(stream, Len(stream) + 1, case.len)
    BY DEF IInv, WriterInv
  <1>3. Small /\ Written => MultiplesGoOn(stream)
    BY DEF IInv, WriterInv
  <1>4. ASSUME NEW i \in 1 .. Len(stream), MultipleAt(stream, i)
        PROVE  /\ stream[i].n <= MAX_FRAGMENTS
               /\ Small /\ Written => \E j \in i + 1 .. Len(stream) :
                                         MultipleAt(stream, j) \/ LengthAt(stream, j)
    BY <1>1, <1>3, <1>4 DEF LengthIsLast, MultiplesGoOn
  <1>5. ASSUME NEW i \in 1 .. Len(stream), LengthAt(stream, i)
        PROVE  /\ stream[i].n < LENGTH_16K
               /\ \A j \in i + 1 .. Len(stream) :
                     ~MultipleAt(stream, j) /\ ~LengthAt(stream, j)
    BY <1>1, <1>5 DEF LengthIsLast
  <1>6. case.kind \in {"octets", "open"} /\ case.len > 0 /\ case.len < U8 * LENGTH_16K => Small
    BY DEF Small
  <1> HIDE DEF LENGTH_16K, U8, MAX_FRAGMENTS
  <1> QED
    BY <1>1, <1>2, <1>4, <1>5, <1>6 DEF FragmentsInOrder

\* The encoded values are what CasesAssumption says.
LEMMA CaseIsLegal ==
  ASSUME case \in Cases
  PROVE  /\ case.len \in Nat
         /\ case.kind \in {"octets", "bits", "elements", "characters", "open"}
         /\ Lower \in Nat
         /\ case.max # NoBound => case.max \in Nat
         /\ case.extensible \in BOOLEAN
  BY CasesAssumption DEF Lower, OrElse

\* Nothing is written yet.
LEMMA InitEstablishes == Init => IInv
  <1> SUFFICES ASSUME Init PROVE IInv
    OBVIOUS
  <1>1. stream = <<>> /\ stream \in Seq(Item) /\ Len(stream) = 0 /\ got \in Seq(Nat)
    BY EmptySeq DEF Init
  <1>2. case \in Cases /\ case.len \in Nat
    BY CaseIsLegal DEF Init
  <1>3. TypeOK
    BY <1>1, <1>2 DEF Init, TypeOK
  <1>4. WriterInv
    BY <1>1 DEF Init, WriterInv, InOrder, LengthIsLast, Written
  <1>5. FlagInv
    BY DEF Init, FlagInv
  <1> QED
    BY <1>3, <1>4, <1>5 DEF IInv

-----------------------------------------------------------------------------
(* Steps of the reader *)

\* Where units end is in the stream, if it is anywhere.
LEMMA AfterUnitsIsIn ==
  ASSUME stream \in Seq(Item), NEW i \in 0 .. Len(stream), NEW n
  PROVE  AfterUnits(i, n) \in -1 .. Len(stream)
  <1>1. Len(stream) \in Nat
    BY LenProperties
  <1>2. CASE n = 0
    BY <1>1, <1>2 DEF AfterUnits
  <1>3. CASE n # 0 /\ NextIs(i, {"units"})
    <2>1. i + 1 \in 0 .. Len(stream)
      BY <1>1, <1>3 DEF NextIs
    <2> QED
      BY <1>1, <1>3, <2>1 DEF AfterUnits
  <1>4. CASE n # 0 /\ ~NextIs(i, {"units"})
    BY <1>1, <1>4 DEF AfterUnits
  <1> QED
    BY <1>2, <1>3, <1>4

\* A reader that finds a determinant is within the stream behind its piece.
LEMMA PieceIsIn ==
  ASSUME TypeOK, NEW i \in 0 .. Len(stream), NEW lb \in Nat \cup {NoBound}, NEW ub
  PROVE  Piece(i, lb, ub).n \in Nat /\ Piece(i, lb, ub).end \in -1 .. Len(stream)
  <1>1. stream \in Seq(Item) /\ Len(stream) \in Nat /\ Lower \in Nat
    BY LenProperties, CaseIsLegal DEF TypeOK
  <1>2. CASE lb = ub /\ WideBounds(lb, ub)
    BY <1>1, <1>2, AfterUnitsIsIn DEF Piece
  <1>3. CASE ~(lb = ub /\ WideBounds(lb, ub)) /\ NextIs(i, FormOf(lb, ub))
    <2> DEFINE item == stream[i + 1]
               n == LengthOf(lb, ub, item)
    <2>1. i + 1 \in 1 .. Len(stream) /\ i + 1 \in 0 .. Len(stream)
      BY <1>1, <1>3 DEF NextIs
    <2>2. item \in Item /\ item.type \in {"constrained", "length", "multiple"}
      BY <1>1, <1>3, <2>1, ElementOfSeq DEF NextIs, FormOf
    <2>3. item.n \in Nat
      BY <2>2 DEF Item
    <2>4. OrElse(lb, 0) \in Nat
      BY DEF OrElse
    <2>5. n \in Nat
      BY <2>2, <2>3, <2>4 DEF LengthOf
    <2>6. Piece(i, lb, ub) = [n |-> n, end |-> AfterUnits(i + 1, n)]
      BY <1>3 DEF Piece
    <2> HIDE DEF n
    <2> QED
      BY <1>1, <2>1, <2>5, <2>6, AfterUnitsIsIn
  <1>4. CASE ~(lb = ub /\ WideBounds(lb, ub)) /\ ~NextIs(i, FormOf(lb, ub))
    BY <1>1, <1>4 DEF Piece
  <1> QED
    BY <1>2, <1>3, <1>4

\* So is the first piece, behind the extension bit.
LEMMA FirstPieceIsIn ==
  ASSUME IInv, phase = "read"
  PROVE  /\ AfterFlag \in 0 .. Len(stream)
         /\ FirstPiece.n \in Nat /\ FirstPiece.end \in -1 .. Len(stream)
  <1>1. TypeOK /\ stream \in Seq(Item) /\ Len(stream) \in Nat /\ case \in Cases
    BY LenProperties DEF IInv, TypeOK
  <1>2. AfterFlag \in 0 .. Len(stream)
    <2>1. CASE case.extensible
      <3>1. stream # <<>>
        BY <2>1 DEF IInv, FlagInv
      <3>2. Len(stream) \in Nat \ {0}
        BY <1>1, <3>1, EmptySeq
      <3> QED
        BY <2>1, <3>2 DEF AfterFlag
    <2>2. CASE ~case.extensible
      BY <1>1, <2>2 DEF AfterFlag
    <2> QED
      BY <2>1, <2>2
  <1>3. case.min \in Nat \cup {NoBound}
    BY <1>1, CasesAssumption
  <1>4. CASE Extended
    BY <1>1, <1>2, <1>4, PieceIsIn DEF FirstPiece
  <1>5. CASE ~Extended /\ FixedBelow64K
    <2>1. Upper \in Nat
      BY <1>1, <1>3, <1>5 DEF FixedBelow64K, Upper, OrElse
    <2> QED
      BY <1>1, <1>2, <1>5, <2>1, AfterUnitsIsIn DEF FirstPiece
  <1>6. CASE ~Extended /\ ~FixedBelow64K
    BY <1>1, <1>2, <1>3, <1>6, PieceIsIn DEF FirstPiece
  <1> QED
    BY <1>2, <1>4, <1>5, <1>6

\* Reading leaves what was written.
LEMMA ReadingKeeps ==
  ASSUME IInv, Written, UNCHANGED <<case, stream, written>>,
         phase' \in {"readFragments", "done", "outOfStep", "panic"},
         at' \in 0 .. Len(stream), got' \in Seq(Nat)
  PROVE  IInv'
  <1>1. TypeOK'
    BY DEF IInv, TypeOK, Ended
  <1>2. WriterInv'
    <2>1. (InOrder(stream) /\ LengthIsLast(stream))'
      BY DEF IInv, WriterInv, InOrder, LengthIsLast, ReachedBefore, LastUnits,
             UnitsAt, MultipleAt, LengthAt
    <2>2. ASSUME Small'
          PROVE  (ReachedBefore(stream, Len(stream) + 1, case.len) /\ MultiplesGoOn(stream))'
      <3>1. ReachedBefore(stream, Len(stream) + 1, case.len) /\ MultiplesGoOn(stream)
        <4>1. Small
          BY <2>2 DEF Small
        <4> QED
          BY <4>1 DEF IInv, WriterInv
      <3>2. ReachedBefore(stream, Len(stream) + 1, case.len)'
        BY <3>1 DEF ReachedBefore, LastUnits, UnitsAt
      <3>3. MultiplesGoOn(stream)'
        BY <3>1 DEF MultiplesGoOn, MultipleAt, LengthAt
      <3> QED
        BY <3>2, <3>3
    <2> QED
      BY <2>1, <2>2 DEF WriterInv
  <1>3. FlagInv'
    BY DEF FlagInv
  <1> QED
    BY <1>1, <1>2, <1>3 DEF IInv

-----------------------------------------------------------------------------
(* Steps of the writer *)

\* What a writer has to see to: its types, the order, and what it counts.
LEMMA WritingKeeps ==
  ASSUME IInv, UNCHANGED <<case, at, got>>,
         phase \in {"write", "writeOctets", "writeBits"},
         stream' \in Seq(Item), InOrder(stream'), LengthIsLast(stream'),
         written' \in 0 .. case.len,
         phase' \in {"writeOctets", "writeBits", "read"},
         phase' # "read" =>
            ReachedBefore(stream', Len(stream') + 1, written') /\ OnlyMultiples(stream'),
         phase' = "writeOctets" => case.kind \in {"octets", "open"},
         phase' = "writeBits" => case.kind = "bits",
         phase' = "read" /\ Small =>
            ReachedBefore(stream', Len(stream') + 1, case.len) /\ MultiplesGoOn(stream'),
         case.extensible => stream' # <<>>
  PROVE  IInv'
  <1>1. TypeOK'
    <2>1. Len(stream') \in Nat
      BY LenProperties
    <2>2. at' \in 0 .. Len(stream')
      BY <2>1 DEF IInv, FlagInv
    <2> QED
      BY <2>2 DEF IInv, TypeOK, Ended
  <1>2. WriterInv'
    <2>1. (InOrder(stream) /\ LengthIsLast(stream))'
      BY DEF InOrder, LengthIsLast, ReachedBefore, LastUnits, UnitsAt, MultipleAt, LengthAt
    <2>2. ASSUME phase' # "read"
          PROVE  (ReachedBefore(stream, Len(stream) + 1, written) /\ OnlyMultiples(stream))'
      BY <2>2 DEF ReachedBefore, LastUnits, UnitsAt, OnlyMultiples, MultipleAt, LengthAt
    <2>3. ASSUME phase' = "read", Small'
          PROVE  (ReachedBefore(stream, Len(stream) + 1, case.len) /\ MultiplesGoOn(stream))'
      <3>1. Small
        BY <2>3 DEF Small
      <3>2. ReachedBefore(stream', Len(stream') + 1, case.len) /\ MultiplesGoOn(stream')
        BY <2>3, <3>1
      <3>3. ReachedBefore(stream, Len(stream) + 1, case.len)'
        BY <3>2 DEF ReachedBefore, LastUnits, UnitsAt
      <3>4. MultiplesGoOn(stream)'
        BY <3>2 DEF MultiplesGoOn, MultipleAt, LengthAt
      <3> QED
        BY <3>3, <3>4
    <2>4. (phase = "writeOctets" => case.kind \in {"octets", "open"})'
      OBVIOUS
    <2>5. (phase = "writeBits" => case.kind = "bits")'
      OBVIOUS
    <2>6. (Written => phase = "read")'
      BY DEF Written
    <2>7. (phase \in {"writeOctets", "writeBits"} => phase # "read")'
      OBVIOUS
    <2> QED
      BY <2>1, <2>2, <2>3, <2>4, <2>5, <2>6, <2>7 DEF WriterInv
  <1>3. FlagInv'
    BY DEF IInv, FlagInv
  <1> QED
    BY <1>1, <1>2, <1>3 DEF IInv

\* A refused value, or a panic: nothing is written.
LEMMA RefusingKeeps ==
  ASSUME IInv, UNCHANGED <<case, stream, written, at, got>>,
         phase' \in {"writeError", "panic"}
  PROVE  IInv'
  <1>1. TypeOK'
    BY DEF IInv, TypeOK, Ended
  <1>2. ~Written'
    BY DEF Written
  <1>3. (InOrder(stream) /\ LengthIsLast(stream))'
    BY DEF IInv, WriterInv, InOrder, LengthIsLast, ReachedBefore, LastUnits,
           UnitsAt, MultipleAt, LengthAt
  <1>4. WriterInv'
    BY <1>2, <1>3 DEF WriterInv
  <1>5. FlagInv'
    BY DEF FlagInv
  <1> QED
    BY <1>1, <1>4, <1>5 DEF IInv

-----------------------------------------------------------------------------
(* Every step *)

\* What the lemmas about writing ask of a state.
LEMMA WriterIsReady ==
  ASSUME IInv
  PROVE  /\ case \in Cases /\ case.len \in Nat
         /\ stream \in Seq(Item) /\ written \in 0 .. case.len /\ got \in Seq(Nat)
         /\ phase \in {"writeOctets", "writeBits"} =>
               /\ Reaches(stream, written) /\ OnlyMultiples(stream)
               /\ phase = "writeOctets" => case.kind \in {"octets", "open"}
               /\ phase = "writeBits" => case.kind = "bits"
  BY CaseIsLegal DEF IInv, TypeOK, WriterInv, Reaches

\* Every step of writer and reader keeps the invariant.
LEMMA StepKeeps == IInv /\ [Next]_vars => IInv'
  <1> SUFFICES ASSUME IInv, [Next]_vars PROVE IInv'
    OBVIOUS
  <1>1. CASE RefuseSize
    BY <1>1, RefusingKeeps DEF RefuseSize
  <1>2. CASE RefuseCharacter
    BY <1>2, RefusingKeeps DEF RefuseCharacter
  <1>3. CASE WritePanics
    BY <1>3, RefusingKeeps DEF WritePanics
  <1>4. CASE WriteEmpty
    <2>1. case \in Cases /\ written \in 0 .. case.len
      BY WriterIsReady
    <2>2. /\ ExtensionFlag \in Seq(Item) /\ LengthIsLast(ExtensionFlag)
          /\ InOrder(ExtensionFlag)
          /\ case.extensible => ExtensionFlag # <<>>
      <3>1. /\ ExtensionFlag \in Seq(Item) /\ LengthIsLast(ExtensionFlag)
            /\ Reaches(ExtensionFlag, 0)
            /\ case.extensible => Len(ExtensionFlag) = 1
        BY <2>1, FlagWritten
      <3>2. InOrder(ExtensionFlag)
        BY <3>1 DEF Reaches
      <3>3. Len(<<>>) = 0
        OBVIOUS
      <3>4. case.extensible => ExtensionFlag # <<>>
        <4>1. SUFFICES ASSUME case.extensible, ExtensionFlag = <<>> PROVE FALSE
          OBVIOUS
        <4>2. Len(ExtensionFlag) = 0
          BY <3>3, <4>1
        <4> QED
          BY <3>1, <4>1, <4>2
      <3> QED
        BY <3>1, <3>2, <3>4
    <2>3. ~Small
      <3>1. case.len \in Nat /\ case.len <= 0
        BY <1>4, <2>1, CasesAssumption DEF WriteEmpty, Upper, OrElse, OutOfRange
      <3> QED
        BY <3>1 DEF Small
    <2>4. stream' = ExtensionFlag /\ phase' = "read" /\ phase = "write"
      BY <1>4 DEF WriteEmpty
    <2> QED
      BY <1>4, <2>1, <2>2, <2>3, <2>4, WritingKeeps DEF WriteEmpty
  <1>5. CASE WriteOctets
    <2> DEFINE d == FirstDeterminant
               n == Announced(d, case.len)
    <2>1. case \in Cases /\ ~Underflows(d)
      BY <1>5, WriterIsReady DEF WriteOctets
    <2>2. n \in 0 .. case.len /\ n \in Nat /\ (~IsFragment(d) => n = case.len)
      BY <2>1, FirstDeterminantIsLegal
    <2>3. /\ phase = "write" /\ case.kind \in {"octets", "open"}
          /\ stream' = ExtensionFlag \o d \o Units(0, n)
          /\ written' = n
          /\ phase' = IF IsFragment(d) THEN "writeOctets" ELSE "read"
          /\ UNCHANGED <<case, at, got>>
      BY <1>5 DEF WriteOctets
    <2> HIDE DEF n, d
    <2>4. /\ stream' \in Seq(Item) /\ Reaches(stream', n) /\ LengthIsLast(stream')
          /\ IsFragment(d) => OnlyMultiples(stream')
          /\ ~IsFragment(d) => MultiplesGoOn(stream')
          /\ case.extensible => stream' # <<>>
      <3>1. n \in Nat /\ stream' = FirstStream(n)
        BY <2>2, <2>3 DEF d, FirstStream
      <3> QED
        BY <2>1, <3>1, FirstWritten DEF d
    <2>5. InOrder(stream') /\ ReachedBefore(stream', Len(stream') + 1, n)
      BY <2>4 DEF Reaches
    <2> QED
      BY <2>2, <2>3, <2>4, <2>5, WritingKeeps
  <1>6. CASE WriteOctetFragment
    <2> DEFINE remaining == case.len - written
               d == Determinant(NoBound, NoBound, remaining)
               size == Announced(d, remaining)
    <2>1. /\ phase = "writeOctets"
          /\ stream' = stream \o d \o Units(written, size)
          /\ IF size < MIN_FRAGMENT_SIZE
             THEN phase' = "read" /\ written' = written
             ELSE written' = written + size /\ phase' = "writeOctets"
          /\ UNCHANGED <<case, at, got>>
      BY <1>6 DEF WriteOctetFragment
    <2>2. /\ case.len \in Nat /\ stream \in Seq(Item)
          /\ written \in 0 .. case.len /\ written \in Nat
          /\ Reaches(stream, written) /\ OnlyMultiples(stream)
          /\ case.kind \in {"octets", "open"}
      BY <2>1, WriterIsReady
    <2>3. remaining \in Nat /\ remaining <= case.len /\ written + remaining = case.len
      BY <2>2
    <2> HIDE DEF remaining
    <2>4. d = <<UnboundedItem(remaining)>>
      BY <2>3, UnboundedItemIsLegal
    <2>5. /\ size \in 0 .. remaining /\ size \in Nat
          /\ remaining < LENGTH_16K => size = remaining
          /\ remaining >= LENGTH_16K /\ remaining < U8 * LENGTH_16K => size >= MIN_FRAGMENT_SIZE
      BY <2>3, <2>4, UnboundedItemAnnounces
    <2> HIDE DEF size, d
    <2>6. /\ stream' \in Seq(Item) /\ Reaches(stream', written + size)
          /\ LengthIsLast(stream')
          /\ remaining < LENGTH_16K => MultiplesGoOn(stream')
          /\ remaining >= LENGTH_16K => OnlyMultiples(stream')
          /\ stream' # <<>>
      <3> DEFINE t == NextStream(stream, remaining, written, size)
      <3>1. stream' = t
        BY <2>1 DEF NextStream, d
      <3>2. stream \in Seq(Item) /\ written \in Nat /\ remaining \in Nat /\ size \in Nat
        BY <2>2, <2>3, <2>5
      <3>3. Reaches(stream, written) /\ OnlyMultiples(stream)
        BY <2>2
      <3> HIDE DEF LENGTH_16K
      <3>4. /\ t \in Seq(Item) /\ Reaches(t, written + size) /\ LengthIsLast(t)
            /\ remaining < LENGTH_16K => MultiplesGoOn(t)
            /\ remaining >= LENGTH_16K => OnlyMultiples(t)
            /\ t # <<>>
        BY <3>2, <3>3, NextWritten, Zenon
      <3> HIDE DEF t
      <3> QED
        BY <3>1, <3>4
    <2>7. /\ InOrder(stream')
          /\ ReachedBefore(stream', Len(stream') + 1, written + size)
      BY <2>6 DEF Reaches
    <2>8. CASE size < MIN_FRAGMENT_SIZE
      <3>1. Small => remaining < LENGTH_16K /\ written + size = case.len
        BY <2>2, <2>3, <2>5, <2>8 DEF Small
      <3> QED
        BY <2>1, <2>2, <2>6, <2>7, <2>8, <3>1, WritingKeeps
    <2>9. CASE ~(size < MIN_FRAGMENT_SIZE)
      <3>1. remaining >= LENGTH_16K /\ written + size \in 0 .. case.len
        BY <2>2, <2>3, <2>5, <2>9
      <3> QED
        BY <2>1, <2>2, <2>6, <2>7, <2>9, <3>1, WritingKeeps
    <2> QED
      BY <2>8, <2>9
  <1>7. CASE WriteBits
    <2> DEFINE n == Smaller(MAX_FRAGMENTS_SIZE, case.len)
    <2>1. case \in Cases /\ case.len \in Nat /\ ~Underflows(FirstDeterminant)
      BY <1>7, WriterIsReady DEF WriteBits
    <2>2. n \in 0 .. case.len /\ n \in Nat
      BY <2>1 DEF Smaller
    <2>3. /\ phase = "write" /\ case.kind = "bits"
          /\ stream' = ExtensionFlag \o FirstDeterminant \o Units(0, n)
          /\ written' = n
          /\ phase' = IF case.len > MAX_FRAGMENTS_SIZE THEN "writeBits" ELSE "read"
          /\ UNCHANGED <<case, at, got>>
      BY <1>7 DEF WriteBits
    <2> HIDE DEF n
    <2>4. /\ stream' \in Seq(Item) /\ Reaches(stream', n) /\ LengthIsLast(stream')
          /\ case.len >= LENGTH_16K => OnlyMultiples(stream')
          /\ case.extensible => stream' # <<>>
      <3>1. n \in Nat /\ stream' = FirstStream(n)
        BY <2>2, <2>3 DEF FirstStream
      <3> QED
        BY <2>1, <3>1, FirstWritten
    <2>5. InOrder(stream') /\ ReachedBefore(stream', Len(stream') + 1, n) /\ ~Small
      BY <2>3, <2>4 DEF Reaches, Small
    <2>6. case.len > MAX_FRAGMENTS_SIZE => case.len >= LENGTH_16K
      BY <2>1
    <2> QED
      BY <2>2, <2>3, <2>4, <2>5, <2>6, WritingKeeps
  <1>8. CASE WriteBitFragment
    <2> DEFINE rest == Smaller(case.len - written, MAX_FRAGMENTS_SIZE)
               size == rest - (rest % MIN_FRAGMENT_SIZE)
    <2>1. /\ phase = "writeBits"
          /\ stream' = stream \o Determinant(NoBound, NoBound, size) \o Units(written, size)
          /\ written' = written + size
          /\ phase' = IF size < MIN_FRAGMENT_SIZE THEN "read" ELSE "writeBits"
          /\ UNCHANGED <<case, at, got>>
      BY <1>8 DEF WriteBitFragment
    <2>2. /\ case.len \in Nat /\ stream \in Seq(Item)
          /\ written \in 0 .. case.len /\ written \in Nat
          /\ Reaches(stream, written) /\ OnlyMultiples(stream)
          /\ case.kind = "bits"
      BY <2>1, WriterIsReady
    <2>3. rest \in Nat /\ written + rest <= case.len
      BY <2>2 DEF Smaller
    <2> HIDE DEF rest
    <2>4. size \in Nat /\ written + size \in 0 .. case.len
      BY <2>2, <2>3
    <2> HIDE DEF size
    <2>5. /\ stream' \in Seq(Item) /\ Reaches(stream', written + size)
          /\ LengthIsLast(stream')
          /\ size >= LENGTH_16K => OnlyMultiples(stream')
          /\ stream' # <<>>
      <3>1. stream' = NextStream(stream, size, written, size)
        BY <2>1 DEF NextStream
      <3>2. stream \in Seq(Item) /\ written \in Nat /\ size \in Nat
        BY <2>2, <2>4
      <3>3. Reaches(stream, written) /\ OnlyMultiples(stream)
        BY <2>2
      <3> QED
        BY <3>1, <3>2, <3>3, NextWritten
    <2>6. /\ InOrder(stream')
          /\ ReachedBefore(stream', Len(stream') + 1, written + size)
          /\ ~Small
      BY <2>2, <2>5 DEF Reaches, Small
    <2>7. ~(size < MIN_FRAGMENT_SIZE) => size >= LENGTH_16K
      BY <2>4
    <2> QED
      BY <2>1, <2>2, <2>4, <2>5, <2>6, <2>7, WritingKeeps
  <1>9. CASE WriteElements \/ WriteCharacters
    <2>1. /\ phase = "write" /\ case.kind \in {"elements", "characters"}
          /\ ~Underflows(FirstDeterminant)
          /\ stream' = ExtensionFlag \o FirstDeterminant \o Units(0, case.len)
          /\ written' = case.len
          /\ phase' = "read"
          /\ UNCHANGED <<case, at, got>>
      BY <1>9 DEF WriteElements, WriteCharacters, WriteWhole
    <2>2. case \in Cases /\ case.len \in Nat
      BY WriterIsReady
    <2>3. /\ stream' \in Seq(Item) /\ Reaches(stream', case.len) /\ LengthIsLast(stream')
          /\ case.extensible => stream' # <<>>
      <3>1. stream' = FirstStream(case.len)
        BY <2>1 DEF FirstStream
      <3>2. ~Underflows(FirstDeterminant)
        BY <2>1
      <3> QED
        BY <2>2, <3>1, <3>2, FirstWritten
    <2>4. InOrder(stream') /\ ~Small /\ case.len \in 0 .. case.len
      BY <2>1, <2>2, <2>3 DEF Reaches, Small
    <2> QED
      BY <2>1, <2>3, <2>4, WritingKeeps
  <1>10. CASE ReadEmpty
    <2>1. phase = "read" /\ Written
      BY <1>10 DEF ReadEmpty, Written
    <2>2. AfterFlag \in 0 .. Len(stream) /\ got \in Seq(Nat)
      BY <2>1, FirstPieceIsIn, WriterIsReady
    <2> QED
      BY <1>10, <2>1, <2>2, ReadingKeeps DEF ReadEmpty
  <1>11. CASE ReadFirst \/ ReadElements \/ ReadCharacters \/ ReadOpenType
    <2>1. phase = "read" /\ Written
      BY <1>11 DEF ReadFirst, ReadElements, ReadCharacters, ReadOpenType, Written
    <2>2. /\ FirstPiece.n \in Nat /\ FirstPiece.end \in -1 .. Len(stream)
          /\ got \in Seq(Nat) /\ at \in 0 .. Len(stream) /\ Len(stream) \in Nat
      BY <2>1, FirstPieceIsIn, WriterIsReady, LenProperties DEF IInv, TypeOK
    <2>3. /\ UNCHANGED <<case, stream, written>>
          /\ phase' \in {"readFragments", "done", "outOfStep"}
          /\ \/ UNCHANGED <<at, got>>
             \/ FirstPiece.end # -1 /\ at' = FirstPiece.end /\ got' = <<FirstPiece.n>>
      BY <1>11 DEF ReadFirst, ReadElements, ReadCharacters, ReadOpenType, ReadWhole
    <2>4. at' \in 0 .. Len(stream) /\ got' \in Seq(Nat)
      <3>1. CASE UNCHANGED <<at, got>>
        BY <2>2, <3>1
      <3>2. CASE FirstPiece.end # -1 /\ at' = FirstPiece.end /\ got' = <<FirstPiece.n>>
        <4>1. at' \in 0 .. Len(stream)
          BY <2>2, <3>2
        <4>2. got' \in Seq(Nat)
          BY <2>2, <3>2
        <4> QED
          BY <4>1, <4>2
      <3> QED
        BY <2>3, <3>1, <3>2
    <2> QED
      BY <2>1, <2>3, <2>4, ReadingKeeps
  <1>12. CASE ReadFragment
    <2> DEFINE piece == Piece(at, NoBound, NoBound)
    <2>1. phase = "readFragments" /\ Written
      BY <1>12 DEF ReadFragment, Written
    <2>2. TypeOK /\ got \in Seq(Nat) /\ at \in 0 .. Len(stream) /\ Len(stream) \in Nat
      BY LenProperties DEF IInv, TypeOK
    <2>3. piece.n \in Nat /\ piece.end \in -1 .. Len(stream)
      BY <2>2, PieceIsIn
    <2> HIDE DEF piece
    <2>4. /\ UNCHANGED <<case, stream, written>>
          /\ phase' \in {"readFragments", "done", "outOfStep", "panic"}
          /\ \/ UNCHANGED <<at, got>>
             \/ piece.end # -1 /\ at' = piece.end /\ got' = Append(got, piece.n)
      BY <1>12, <2>1 DEF ReadFragment, piece
    <2>5. at' \in 0 .. Len(stream) /\ got' \in Seq(Nat)
      <3>1. CASE UNCHANGED <<at, got>>
        BY <2>2, <3>1
      <3>2. CASE piece.end # -1 /\ at' = piece.end /\ got' = Append(got, piece.n)
        <4>1. at' \in 0 .. Len(stream)
          BY <2>2, <2>3, <3>2
        <4>2. got' \in Seq(Nat)
          BY <2>2, <2>3, <3>2, AppendProperties
        <4> QED
          BY <4>1, <4>2
      <3> QED
        BY <2>4, <3>1, <3>2
    <2> QED
      BY <2>1, <2>4, <2>5, ReadingKeeps
  <1>13. CASE UNCHANGED vars
    BY <1>13 DEF vars, IInv, TypeOK, WriterInv, FlagInv, Written, Small, InOrder,
                LengthIsLast, OnlyMultiples, MultiplesGoOn, ReachedBefore, LastUnits,
                UnitsAt, MultipleAt, LengthAt, Item, Ended
  <1> QED
    BY <1>1, <1>2, <1>3, <1>4, <1>5, <1>6, <1>7, <1>8, <1>9, <1>10, <1>11, <1>12, <1>13
       DEF Next

\* The invariant holds in every state.
LEMMA Inductive == Spec => []IInv
  <1>1. Init => IInv
    BY InitEstablishes
  <1>2. IInv /\ [Next]_vars => IInv'
    BY StepKeeps
  <1> QED
    BY <1>1, <1>2, PTL DEF Spec

-----------------------------------------------------------------------------
(* How many units were read *)

\* Total is what its recursion says.
LEMMA TotalUnrolls ==
  ASSUME NEW s \in Seq(Nat)
  PROVE  \E f \in [0 .. Len(s) -> Nat] :
            /\ Total(s) = f[Len(s)] /\ f[0] = 0
            /\ \A i \in 1 .. Len(s) : f[i] = f[i - 1] + s[i]
  <1> DEFINE e == Len(s)
             Rec(f, m) == f = [i \in 0 .. m |-> IF i = 0 THEN 0 ELSE f[i - 1] + s[i]]
             S == {m \in Nat : m <= e => \E f \in [0 .. m -> Nat] : Rec(f, m)}
  <1>1. e \in Nat /\ \A i \in 1 .. e : s[i] \in Nat
    BY LenProperties, ElementOfSeq
  <1> HIDE DEF e
  <1>2. 0 \in S
    <2>1. [i \in 0 .. 0 |-> 0] \in [0 .. 0 -> Nat] /\ Rec([i \in 0 .. 0 |-> 0], 0)
      OBVIOUS
    <2> QED
      BY <2>1
  <1>3. ASSUME NEW m \in Nat, m \in S PROVE m + 1 \in S
    <2> SUFFICES ASSUME m + 1 <= e PROVE \E f \in [0 .. m + 1 -> Nat] : Rec(f, m + 1)
      <3> HIDE DEF Rec
      <3> QED
        OBVIOUS
    <2>1. PICK f \in [0 .. m -> Nat] : Rec(f, m)
      <3> HIDE DEF Rec
      <3>1. m <= e
        BY <1>1
      <3> QED
        BY <1>3, <3>1
    <2> DEFINE g == [i \in 0 .. m + 1 |-> IF i = m + 1 THEN f[m] + s[m + 1] ELSE f[i]]
    <2>2. g \in [0 .. m + 1 -> Nat]
      <3>1. s[m + 1] \in Nat /\ f[m] \in Nat
        BY <1>1, <2>1
      <3> QED
        BY <3>1, <2>1
    <2>3. Rec(g, m + 1)
      <3>1. ASSUME NEW i \in 0 .. m + 1
            PROVE  g[i] = IF i = 0 THEN 0 ELSE g[i - 1] + s[i]
        <4>1. CASE i = m + 1
          <5>1. i - 1 = m /\ g[m] = f[m] /\ i # 0
            BY <4>1
          <5> QED
            BY <5>1, <4>1
        <4>2. CASE i = 0
          BY <2>1, <4>2
        <4>3. CASE i \in 1 .. m
          <5>1. f[i] = f[i - 1] + s[i]
            BY <2>1, <4>3
          <5>2. g[i] = f[i] /\ g[i - 1] = f[i - 1]
            BY <4>3
          <5> QED
            BY <5>1, <5>2, <4>3
        <4> QED
          BY <4>1, <4>2, <4>3
      <3>2. g = [i \in 0 .. m + 1 |-> g[i]]
        OBVIOUS
      <3> HIDE DEF g
      <3> QED
        BY <3>1, <3>2
    <2> HIDE DEF g, Rec
    <2> QED
      BY <2>2, <2>3
  <1>4. e \in S
    <2> HIDE DEF S
    <2>1. Nat \subseteq S
      BY <1>2, <1>3, InductionBySet
    <2> QED
      BY <1>1, <2>1
  <1> DEFINE sum == CHOOSE f : Rec(f, e)
  <1>5. PICK h \in [0 .. e -> Nat] : Rec(h, e)
    BY <1>1, <1>4
  <1>6. Rec(sum, e)
    <2> HIDE DEF Rec
    <2> QED BY <1>5
  <1>7. Total(s) = sum[e]
    BY DEF Total, e
  <1>8. sum \in [0 .. e -> Nat]
    <2> DEFINE G == {i \in Nat : i \in 0 .. e => sum[i] \in Nat}
    <2>1. 0 \in G
      <3> HIDE DEF sum
      <3>1. sum[0] = 0
        BY <1>1, <1>6
      <3> QED BY <3>1
    <2>2. ASSUME NEW i \in Nat, i \in G PROVE i + 1 \in G
      <3> SUFFICES ASSUME i + 1 \in 0 .. e PROVE sum[i + 1] \in Nat
        OBVIOUS
      <3> HIDE DEF sum
      <3>1. sum[i] \in Nat /\ s[i + 1] \in Nat
        BY <1>1, <2>2
      <3>2. sum[i + 1] = sum[(i + 1) - 1] + s[i + 1]
        BY <1>1, <1>6
      <3> QED
        BY <3>1, <3>2
    <2>3. Nat \subseteq G
      <3> HIDE DEF G
      <3> QED BY <2>1, <2>2, InductionBySet
    <2> HIDE DEF sum
    <2>4. sum = [i \in 0 .. e |-> sum[i]]
      BY <1>6
    <2>5. \A i \in 0 .. e : sum[i] \in Nat
      BY <2>3
    <2> QED
      BY <2>4, <2>5
  <1> HIDE DEF sum
  <1>9. sum[0] = 0 /\ \A i \in 1 .. e : sum[i] = sum[i - 1] + s[i]
    BY <1>1, <1>6
  <1> HIDE DEF Rec
  <1> QED
    BY <1>7, <1>8, <1>9 DEF e

\* A further run adds to the total.
LEMMA TotalGrows ==
  ASSUME NEW s \in Seq(Nat), NEW n \in Nat
  PROVE  Total(s) \in Nat /\ Total(Append(s, n)) = Total(s) + n
  <1> DEFINE t == Append(s, n)
             e == Len(s)
  <1>1. /\ t \in Seq(Nat) /\ e \in Nat /\ Len(t) = e + 1 /\ t[e + 1] = n
        /\ \A i \in 1 .. e : t[i] = s[i]
    BY AppendProperties, LenProperties
  <1> HIDE DEF t
  <1>2. PICK f \in [0 .. Len(s) -> Nat] :
            /\ Total(s) = f[Len(s)] /\ f[0] = 0
            /\ \A i \in 1 .. Len(s) : f[i] = f[i - 1] + s[i]
    BY TotalUnrolls, Zenon
  <1>3. PICK g \in [0 .. Len(t) -> Nat] :
            /\ Total(t) = g[Len(t)] /\ g[0] = 0
            /\ \A i \in 1 .. Len(t) : g[i] = g[i - 1] + t[i]
    BY <1>1, TotalUnrolls, Zenon
  <1> HIDE DEF e
  <1>4. /\ f \in [0 .. e -> Nat] /\ Total(s) = f[e] /\ f[0] = 0
        /\ \A i \in 1 .. e : f[i] = f[i - 1] + s[i]
    BY <1>2 DEF e
  <1>5. /\ g \in [0 .. e + 1 -> Nat] /\ Total(t) = g[e + 1] /\ g[0] = 0
        /\ \A i \in 1 .. e + 1 : g[i] = g[i - 1] + t[i]
    BY <1>1, <1>3
  <1> DEFINE S == {i \in Nat : i <= e => g[i] = f[i]}
  <1>6. 0 \in S
    BY <1>4, <1>5
  <1>7. ASSUME NEW i \in Nat, i \in S PROVE i + 1 \in S
    <2> SUFFICES ASSUME i + 1 <= e PROVE g[i + 1] = f[i + 1]
      OBVIOUS
    <2>1. i + 1 \in 1 .. e /\ i + 1 \in 1 .. e + 1 /\ (i + 1) - 1 = i /\ g[i] = f[i]
      BY <1>1, <1>7
    <2>2. g[i + 1] = g[i] + t[i + 1] /\ f[i + 1] = f[i] + s[i + 1] /\ t[i + 1] = s[i + 1]
      BY <1>1, <1>4, <1>5, <2>1
    <2> QED
      BY <2>1, <2>2
  <1>8. e \in S
    <2> HIDE DEF S
    <2>1. Nat \subseteq S
      BY <1>6, <1>7, InductionBySet
    <2> QED
      BY <1>1, <2>1
  <1>9. g[e + 1] = g[e] + n
    <2>1. e + 1 \in 1 .. e + 1 /\ (e + 1) - 1 = e
      BY <1>1
    <2> QED
      BY <1>1, <1>5, <2>1
  <1>10. g[e] = f[e] /\ f[e] \in Nat
    BY <1>1, <1>4, <1>8
  <1> QED
    BY <1>4, <1>5, <1>9, <1>10 DEF t

\* The sum of no count and of one.
LEMMA TotalOfOne ==
  ASSUME NEW n \in Nat
  PROVE  Total(<< >>) = 0 /\ Total(<< n >>) = n
  <1>1. << >> \in Seq(Nat) /\ Len(<< >>) = 0
    BY EmptySeq
  <1>2. Total(<< >>) = 0
    <2>1. PICK f \in [0 .. Len(<< >>) -> Nat] :
              /\ Total(<< >>) = f[Len(<< >>)] /\ f[0] = 0
              /\ \A i \in 1 .. Len(<< >>) : f[i] = f[i - 1] + << >>[i]
      BY <1>1, TotalUnrolls, Zenon
    <2> QED
      BY <1>1, <2>1
  <1>3. << n >> = Append(<< >>, n)
    BY <1>1
  <1>4. Total(Append(<< >>, n)) = Total(<< >>) + n
    BY <1>1, TotalGrows
  <1> QED
    BY <1>2, <1>3, <1>4

-----------------------------------------------------------------------------
(* What is written first, and how it is read *)

\* The items before the first units, the units the determinant among them
\* announces, those that are written with it, and the items after these.
Prefix == AfterFlag + Len(FirstDeterminant)
First == Announced(FirstDeterminant, case.len)
Sent == CASE case.kind = "bits" -> Smaller(MAX_FRAGMENTS_SIZE, case.len)
          [] case.kind \in {"octets", "open"} -> First
          [] OTHER -> case.len
After == IF Sent = 0 THEN Prefix ELSE Prefix + 1

\* The stream begins with them.
Begins(s) ==
    /\ case.extensible => 1 <= Len(s) /\ s[1] = Flag(OutOfRange)
    /\ Prefix <= Len(s)
    /\ FirstDeterminant # <<>> => s[Prefix] = FirstDeterminant[1]
    /\ Sent # 0 => Prefix < Len(s) /\ s[Prefix + 1] = Run(0, Sent)

\* The value goes on in the loop of its writer.
Octets == case.kind \in {"octets", "open"}
Loops == \/ Octets /\ IsFragment(FirstDeterminant)
         \/ case.kind = "bits" /\ case.len > MAX_FRAGMENTS_SIZE

\* The size and the characters are allowed, and nothing panics.
Accepted == case.valid /\ (OutOfRange => case.extensible) /\ ~Underflows(FirstDeterminant)

\* SIZE(0) of WriteEmpty.
Empty == case.kind = "octets" /\ Upper = 0 /\ ~OutOfRange

\* The encoded values, and the bounds of their SIZE.
LEMMA CaseBounds ==
  ASSUME case \in Cases
  PROVE  /\ NoBound \notin Int /\ Unlimited \in Nat /\ Unlimited >= LENGTH_64K
         /\ case.kind \in {"octets", "bits", "elements", "characters", "open"}
         /\ case.len \in Nat /\ case.len < Unlimited
         /\ case.min = NoBound \/ case.min \in Nat
         /\ case.max = NoBound \/ case.max \in Nat
         /\ case.extensible \in BOOLEAN /\ case.valid \in BOOLEAN
         /\ case.kind = "open" => case.min = NoBound /\ case.max = NoBound /\ ~case.extensible
         /\ Lower \in Nat /\ Upper \in Nat
         /\ case.min \in Nat => Lower = case.min
         /\ case.max \in Nat => Upper = case.max
         /\ case.min = NoBound => Lower = 0
         /\ case.max = NoBound => Upper = Unlimited
  BY CasesAssumption DEF Lower, Upper, OrElse

\* A size that no bounds are used for: its determinant is of the third form.
LEMMA UnmeasuredDeterminant ==
  ASSUME case \in Cases, Unbounded
  PROVE  FirstDeterminant = <<UnboundedItem(case.len)>>
  <1>1. Determinant(NoBound, NoBound, case.len) = <<UnboundedItem(case.len)>>
    BY CaseBounds, UnboundedItemIsLegal
  <1>2. CASE OutOfRange
    BY <1>1, <1>2 DEF FirstDeterminant
  <1>3. CASE ~OutOfRange
    <2>1. case.min = NoBound /\ case.max = NoBound
      BY <1>3 DEF Unbounded
    <2>2. ~FixedBelow64K
      BY <2>1 DEF FixedBelow64K
    <2> QED
      BY <1>1, <1>3, <2>1, <2>2 DEF FirstDeterminant
  <1> QED
    BY <1>2, <1>3

\* With bounds there is no determinant for a fixed size, or one for what is
\* above the lower bound, which in a wide range is taken off twice.
LEMMA MeasuredDeterminant ==
  ASSUME case \in Cases, ~Unbounded
  PROVE  /\ ~OutOfRange /\ ~(case.min = NoBound /\ case.max = NoBound)
         /\ Lower <= case.len /\ case.len <= Upper
         /\ FixedBelow64K => /\ FirstDeterminant = <<>>
                             /\ case.len = Upper /\ case.len = Lower /\ Upper < LENGTH_64K
         /\ ~FixedBelow64K /\ WideBounds(case.min, case.max) /\ case.min = case.max =>
              /\ FirstDeterminant = <<>>
              /\ case.len = Lower /\ case.len = Upper /\ case.len >= LENGTH_64K
         /\ ~FixedBelow64K /\ WideBounds(case.min, case.max) /\ case.min # case.max =>
              FirstDeterminant = << [type |-> "constrained", n |-> case.len - Lower - Lower] >>
         /\ ~FixedBelow64K /\ ~WideBounds(case.min, case.max) =>
              /\ FirstDeterminant = << [type |-> "constrained", n |-> case.len - Lower] >>
              /\ NarrowBounds(case.min, case.max)
  <1>1. ~OutOfRange /\ ~(case.min = NoBound /\ case.max = NoBound)
    BY DEF Unbounded
  <1>2. Lower <= case.len /\ case.len <= Upper
    BY <1>1, CaseBounds DEF OutOfRange
  <1>3. ~FixedBelow64K => FirstDeterminant = Determinant(case.min, case.max, case.len)
    BY <1>1 DEF FirstDeterminant
  <1>4. ASSUME FixedBelow64K
        PROVE  /\ FirstDeterminant = <<>>
               /\ case.len = Upper /\ case.len = Lower /\ Upper < LENGTH_64K
    <2>1. FirstDeterminant = <<>>
      BY <1>1, <1>4 DEF FirstDeterminant
    <2>2. case.min \in Nat /\ case.max \in Nat /\ case.min = case.max /\ Upper < LENGTH_64K
      BY <1>4, CaseBounds DEF FixedBelow64K
    <2> QED
      BY <1>2, <2>1, <2>2, CaseBounds
  <1>5. OrElse(case.min, 0) = Lower
    BY DEF Lower
  <1>6. ASSUME ~FixedBelow64K, WideBounds(case.min, case.max), case.min = case.max
        PROVE  /\ FirstDeterminant = <<>>
               /\ case.len = Lower /\ case.len = Upper /\ case.len >= LENGTH_64K
    <2>1. FirstDeterminant = <<>>
      BY <1>3, <1>6 DEF Determinant
    <2>2. case.min \in Nat /\ case.max \in Nat
      BY <1>1, <1>6, CaseBounds
    <2>3. Upper >= LENGTH_64K
      BY <1>6 DEF WideBounds, Upper
    <2> QED
      BY <1>2, <1>6, <2>1, <2>2, <2>3, CaseBounds
  <1>7. ASSUME ~FixedBelow64K, WideBounds(case.min, case.max), case.min # case.max
        PROVE  FirstDeterminant = << [type |-> "constrained", n |-> case.len - Lower - Lower] >>
    BY <1>3, <1>5, <1>7 DEF Determinant
  <1>8. ASSUME ~FixedBelow64K, ~WideBounds(case.min, case.max)
        PROVE  /\ FirstDeterminant = << [type |-> "constrained", n |-> case.len - Lower] >>
               /\ NarrowBounds(case.min, case.max)
    <2>1. ~(Upper >= LENGTH_64K)
      BY <1>1, <1>8 DEF WideBounds, Upper
    <2>2. case.max # NoBound /\ case.max < LENGTH_64K
      BY <2>1, CaseBounds
    <2>3. NarrowBounds(case.min, case.max)
      BY <2>2 DEF NarrowBounds
    <2> QED
      BY <1>3, <1>5, <1>8, <2>3 DEF Determinant
  <1> QED
    BY <1>1, <1>2, <1>4, <1>6, <1>7, <1>8

\* What a determinant announces: with bounds all units, and else all below 16K
\* or so many blocks of 16K as it says.
LEMMA FirstIs ==
  ASSUME case \in Cases
  PROVE  /\ ~Unbounded => ~IsFragment(FirstDeterminant)
         /\ Unbounded => (IsFragment(FirstDeterminant) <=> case.len >= LENGTH_16K)
         /\ ~IsFragment(FirstDeterminant) => First = case.len
         /\ IsFragment(FirstDeterminant) =>
              First = Smaller(Blocks(case.len), MAX_FRAGMENTS) * LENGTH_16K
  <1>1. case.len \in Nat
    BY CaseBounds
  <1>2. ASSUME Unbounded
        PROVE  IsFragment(FirstDeterminant) <=> case.len >= LENGTH_16K
    <2>1. FirstDeterminant = <<UnboundedItem(case.len)>>
      BY <1>2, UnmeasuredDeterminant
    <2>2. UnboundedItem(case.len).type = IF case.len < LENGTH_16K THEN "length" ELSE "multiple"
      BY <1>1, UnboundedItemIsLegal
    <2> QED
      BY <1>1, <2>1, <2>2 DEF IsFragment
  <1>3. ASSUME ~Unbounded
        PROVE  ~IsFragment(FirstDeterminant)
    <2>1. \/ FirstDeterminant = <<>>
          \/ FirstDeterminant = << [type |-> "constrained", n |-> case.len - Lower - Lower] >>
          \/ FirstDeterminant = << [type |-> "constrained", n |-> case.len - Lower] >>
      BY <1>3, MeasuredDeterminant
    <2> QED
      BY <2>1 DEF IsFragment
  <1>4. ~IsFragment(FirstDeterminant) => First = case.len
    BY DEF IsFragment, First, Announced
  <1>5. ASSUME IsFragment(FirstDeterminant)
        PROVE  First = Smaller(Blocks(case.len), MAX_FRAGMENTS) * LENGTH_16K
    <2>1. Unbounded /\ case.len >= LENGTH_16K
      BY <1>2, <1>3, <1>5
    <2>2. FirstDeterminant = <<UnboundedItem(case.len)>>
      BY <2>1, UnmeasuredDeterminant
    <2>3. UnboundedItem(case.len)
            = [type |-> "multiple", n |-> Smaller(Blocks(case.len), MAX_FRAGMENTS)]
      BY <1>1, <2>1 DEF UnboundedItem
    <2> QED
      BY <2>2, <2>3 DEF First, Announced
  <1> QED
    BY <1>2, <1>3, <1>4, <1>5

\* What the extension bit says.
LEMMA FlagIsRead ==
  ASSUME case \in Cases, case.extensible => stream[1] = Flag(OutOfRange)
  PROVE  Extended <=> case.extensible /\ OutOfRange
  BY CaseBounds DEF Extended, Flag

\* What comes before the first units: an extension bit, a determinant, or neither.
LEMMA PrefixIs ==
  ASSUME case \in Cases
  PROVE  /\ AfterFlag \in {0, 1} /\ Prefix \in Nat
         /\ FirstDeterminant = <<>> => Prefix = AfterFlag
         /\ FirstDeterminant # <<>> => /\ Prefix = AfterFlag + 1
                                       /\ FirstDeterminant = << FirstDeterminant[1] >>
  <1>1. AfterFlag \in {0, 1}
    BY DEF AfterFlag
  <1>2. FirstDeterminant = <<>> \/ \E x : FirstDeterminant = << x >>
    <2>1. CASE Unbounded
      BY <2>1, UnmeasuredDeterminant
    <2>2. CASE ~Unbounded
      BY <2>2, MeasuredDeterminant
    <2> QED
      BY <2>1, <2>2
  <1>3. CASE FirstDeterminant = <<>>
    BY <1>1, <1>3 DEF Prefix
  <1>4. CASE \E x : FirstDeterminant = << x >>
    BY <1>1, <1>4 DEF Prefix
  <1> QED
    BY <1>1, <1>2, <1>3, <1>4

\* A reader makes of the first determinant what it announces, and expects so
\* many units right behind it, whatever form it has.
LEMMA FirstPieceIs ==
  ASSUME case \in Cases, stream \in Seq(Item), Accepted, Begins(stream)
  PROVE  FirstPiece.n = First /\ FirstPiece.end = AfterUnits(Prefix, First)
  <1> DEFINE d == FirstDeterminant
             lb == case.min
             ub == case.max
  <1>1. Extended <=> case.extensible /\ OutOfRange
    BY FlagIsRead DEF Begins
  <1>2. Extended <=> OutOfRange
    BY <1>1 DEF Accepted
  <1>3. ~WideBounds(NoBound, NoBound) /\ ~NarrowBounds(NoBound, NoBound)
    BY DEF WideBounds, NarrowBounds
  <1>4. ASSUME d # <<>>
        PROVE  /\ Prefix = AfterFlag + 1 /\ AfterFlag \in Nat /\ AfterFlag < Len(stream)
               /\ stream[AfterFlag + 1] = d[1]
    <2>1. Prefix = AfterFlag + 1 /\ AfterFlag \in {0, 1} /\ Prefix <= Len(stream)
      BY <1>4, PrefixIs DEF Begins
    <2> QED
      BY <1>4, <2>1, LenProperties DEF Begins
  <1>5. CASE Unbounded
    <2> DEFINE x == UnboundedItem(case.len)
    <2>1. d = << x >>
      BY <1>5, UnmeasuredDeterminant
    <2>2. /\ Prefix = AfterFlag + 1 /\ AfterFlag \in Nat /\ AfterFlag < Len(stream)
          /\ stream[AfterFlag + 1] = x
      BY <1>4, <2>1
    <2>3. FirstPiece = Piece(AfterFlag, NoBound, NoBound)
      <3>1. CASE OutOfRange
        BY <1>2, <3>1 DEF FirstPiece
      <3>2. CASE ~OutOfRange
        <4>1. case.min = NoBound /\ case.max = NoBound
          BY <1>5, <3>2 DEF Unbounded
        <4>2. ~FixedBelow64K
          BY <4>1 DEF FixedBelow64K
        <4> QED
          BY <1>2, <3>2, <4>1, <4>2 DEF FirstPiece
      <3> QED
        BY <3>1, <3>2
    <2>4. x.type \in {"length", "multiple"}
      BY UnboundedItemIsLegal, CaseBounds
    <2>5. FormOf(NoBound, NoBound) = {"length", "multiple"}
      BY <1>3 DEF FormOf
    <2>6. NextIs(AfterFlag, FormOf(NoBound, NoBound))
      BY <2>2, <2>4, <2>5 DEF NextIs
    <2>7. LengthOf(NoBound, NoBound, x) = First
      <3>1. CASE x.type = "length"
        <4>1. case.len < LENGTH_16K /\ case.len \in Nat
          BY <3>1, UnboundedItemIsLegal, CaseBounds
        <4>2. x = [type |-> "length", n |-> case.len]
          BY <4>1 DEF UnboundedItem
        <4>3. First = case.len
          BY <2>1, <4>2 DEF First, Announced
        <4> QED
          BY <4>2, <4>3 DEF LengthOf
      <3>2. CASE x.type = "multiple"
        <4>1. First = x.n * LENGTH_16K
          <5> HIDE DEF x
          <5> QED
            BY <2>1, <3>2 DEF First, Announced
        <4> QED
          BY <3>2, <4>1 DEF LengthOf
      <3> QED
        BY <2>4, <3>1, <3>2
    <2> HIDE DEF x
    <2>8. Piece(AfterFlag, NoBound, NoBound)
            = [n |-> First, end |-> AfterUnits(AfterFlag + 1, First)]
      BY <1>3, <2>2, <2>6, <2>7 DEF Piece
    <2> QED
      BY <2>2, <2>3, <2>8
  <1>6. CASE ~Unbounded
    <2>1. ~OutOfRange /\ ~Extended /\ ~IsFragment(d) /\ First = case.len
      BY <1>2, <1>6, MeasuredDeterminant, FirstIs
    <2>2. CASE FixedBelow64K
      <3>1. d = <<>> /\ case.len = Upper /\ Prefix = AfterFlag
        BY <1>6, <2>2, MeasuredDeterminant, PrefixIs
      <3> QED
        BY <2>1, <2>2, <3>1 DEF FirstPiece
    <2>3. ASSUME ~FixedBelow64K
          PROVE  FirstPiece = Piece(AfterFlag, lb, ub)
      BY <2>1, <2>3 DEF FirstPiece
    <2>4. CASE ~FixedBelow64K /\ WideBounds(lb, ub) /\ lb = ub
      <3>1. d = <<>> /\ case.len = Lower /\ Prefix = AfterFlag
        BY <1>6, <2>4, MeasuredDeterminant, PrefixIs
      <3>2. Piece(AfterFlag, lb, ub) = [n |-> Lower, end |-> AfterUnits(AfterFlag, Lower)]
        BY <2>4 DEF Piece
      <3> QED
        BY <2>1, <2>3, <2>4, <3>1, <3>2
    <2>5. ASSUME NEW n, ~FixedBelow64K, ~(lb = ub /\ WideBounds(lb, ub)),
                 WideBounds(lb, ub) \/ NarrowBounds(lb, ub),
                 d = << [type |-> "constrained", n |-> n] >>,
                 n + Lower + (IF WideBounds(lb, ub) THEN Lower ELSE 0) = case.len
          PROVE  FirstPiece.n = First /\ FirstPiece.end = AfterUnits(Prefix, First)
      <3>1. /\ Prefix = AfterFlag + 1 /\ AfterFlag \in Nat /\ AfterFlag < Len(stream)
            /\ stream[AfterFlag + 1] = [type |-> "constrained", n |-> n]
        BY <1>4, <2>5
      <3>2. NextIs(AfterFlag, FormOf(lb, ub))
        BY <2>5, <3>1 DEF NextIs, FormOf
      <3>3. LengthOf(lb, ub, [type |-> "constrained", n |-> n]) = case.len
        BY <2>5 DEF LengthOf, Lower
      <3>4. Piece(AfterFlag, lb, ub)
              = [n |-> case.len, end |-> AfterUnits(AfterFlag + 1, case.len)]
        BY <2>5, <3>1, <3>2, <3>3 DEF Piece
      <3> QED
        BY <2>1, <2>3, <2>5, <3>1, <3>4
    <2>6. CASE ~FixedBelow64K /\ WideBounds(lb, ub) /\ lb # ub
      <3>1. d = << [type |-> "constrained", n |-> case.len - Lower - Lower] >>
        BY <1>6, <2>6, MeasuredDeterminant
      <3>2. case.len \in Nat /\ Lower \in Nat
        BY CaseBounds
      <3>3. (case.len - Lower - Lower) + Lower + (IF WideBounds(lb, ub) THEN Lower ELSE 0)
              = case.len
        BY <2>6, <3>2
      <3> QED
        BY <2>5, <2>6, <3>1, <3>3
    <2>7. CASE ~FixedBelow64K /\ ~WideBounds(lb, ub)
      <3>1. d = << [type |-> "constrained", n |-> case.len - Lower] >> /\ NarrowBounds(lb, ub)
        BY <1>6, <2>7, MeasuredDeterminant
      <3>2. case.len \in Nat /\ Lower \in Nat
        BY CaseBounds
      <3>3. (case.len - Lower) + Lower + (IF WideBounds(lb, ub) THEN Lower ELSE 0) = case.len
        BY <2>7, <3>2
      <3> QED
        BY <2>5, <2>7, <3>1, <3>3
    <2> QED
      BY <2>2, <2>4, <2>6, <2>7
  <1> QED
    BY <1>5, <1>6

\* How many units come with the first determinant.
LEMMA SentIs ==
  ASSUME case \in Cases
  PROVE  /\ First \in Nat /\ Sent \in Nat /\ (First # 0 => Sent # 0)
         /\ ~Loops => Sent = case.len
         /\ Loops /\ Octets => Sent = First
         /\ case.kind = "bits" /\ Loops => Sent = MAX_FRAGMENTS_SIZE
  <1>1. case.len \in Nat /\ case.kind \in {"octets", "bits", "elements", "characters", "open"}
    BY CaseBounds
  <1>2. First \in Nat /\ (First # 0 => case.len # 0)
    <2>1. CASE IsFragment(FirstDeterminant)
      <3>1. First = Smaller(Blocks(case.len), MAX_FRAGMENTS) * LENGTH_16K
        BY <2>1, FirstIs
      <3>2. Blocks(case.len) \in Nat /\ case.len >= LENGTH_16K
        BY <1>1, <2>1, FirstIs DEF Blocks
      <3> QED
        BY <3>1, <3>2 DEF Smaller
    <2>2. CASE ~IsFragment(FirstDeterminant)
      BY <1>1, <2>2, FirstIs
    <2> QED
      BY <2>1, <2>2
  <1>3. CASE case.kind = "bits"
    <2>1. Sent = Smaller(MAX_FRAGMENTS_SIZE, case.len)
      BY <1>3 DEF Sent
    <2>2. ~Octets
      BY <1>3 DEF Octets
    <2> QED
      BY <1>1, <1>2, <1>3, <2>1, <2>2 DEF Smaller, Loops
  <1>4. CASE case.kind \in {"octets", "open"}
    <2>1. Sent = First /\ Octets /\ case.kind # "bits"
      BY <1>4 DEF Sent, Octets
    <2>2. ~Loops => First = case.len
      BY <2>1, FirstIs DEF Loops
    <2> QED
      BY <1>2, <2>1, <2>2
  <1>5. CASE case.kind \in {"elements", "characters"}
    <2>1. Sent = case.len /\ ~Octets /\ case.kind # "bits"
      BY <1>5 DEF Sent, Octets
    <2> QED
      BY <1>1, <1>2, <2>1 DEF Loops
  <1> QED
    BY <1>1, <1>3, <1>4, <1>5

\* The reader gets past the first units exactly if it expects what was sent.
LEMMA FirstPieceEnds ==
  ASSUME case \in Cases, stream \in Seq(Item), Accepted, Begins(stream)
  PROVE  /\ FirstPiece.n = First /\ First \in Nat
         /\ First = 0 => FirstPiece.end = Prefix
         /\ First # 0 /\ Sent = First => FirstPiece.end = Prefix + 1
         /\ First # 0 /\ Sent # First => FirstPiece.end = -1
         /\ Sent = First => FirstPiece.end = After
         /\ Prefix \in Nat
  <1>1. FirstPiece.n = First /\ FirstPiece.end = AfterUnits(Prefix, First)
    BY FirstPieceIs
  <1>2. First \in Nat /\ Sent \in Nat /\ (First # 0 => Sent # 0)
    BY SentIs
  <1>3. Prefix \in Nat
    BY PrefixIs
  <1>4. First = 0 => FirstPiece.end = Prefix
    BY <1>1 DEF AfterUnits
  <1>5. ASSUME First # 0
        PROVE  FirstPiece.end = IF Sent = First THEN Prefix + 1 ELSE -1
    <2>1. Prefix < Len(stream) /\ stream[Prefix + 1] = Run(0, Sent)
      BY <1>2, <1>5 DEF Begins
    <2>2. Run(0, Sent).type = "units" /\ Run(0, Sent).to - Run(0, Sent).from = Sent
      BY <1>2 DEF Run
    <2>3. NextIs(Prefix, {"units"})
      BY <2>1, <2>2 DEF NextIs
    <2> QED
      BY <1>1, <1>5, <2>1, <2>2, <2>3 DEF AfterUnits
  <1> QED
    BY <1>1, <1>2, <1>3, <1>4, <1>5 DEF After

-----------------------------------------------------------------------------
(* What is reversible *)

\* What was accepted has no determinant below zero.
LEMMA NotTakenTwice ==
  ASSUME case \in Cases, Accepted
  PROVE  /\ ~TakenTwice \/ case.min = case.max
         /\ case.len < LENGTH_16K => ~TakenTwice
  <1>1. ASSUME TakenTwice
        PROVE  case.min = case.max /\ case.len >= LENGTH_64K
    <2>1. ~Unbounded /\ WideBounds(case.min, case.max) /\ case.len < 2 * Lower
      BY <1>1 DEF TakenTwice, Unbounded, WideBounds
    <2>2. case.len \in Nat /\ Lower \in Nat
      BY CaseBounds
    <2>3. ~FixedBelow64K
      <3> SUFFICES ASSUME FixedBelow64K PROVE FALSE
        OBVIOUS
      <3>1. Upper < LENGTH_64K
        BY DEF FixedBelow64K
      <3>2. Upper >= LENGTH_64K
        BY <2>1 DEF WideBounds, Upper
      <3> QED
        BY <3>1, <3>2, CaseBounds
    <2>4. case.min = case.max
      <3> SUFFICES ASSUME case.min # case.max PROVE FALSE
        OBVIOUS
      <3>1. FirstDeterminant = << [type |-> "constrained", n |-> case.len - Lower - Lower] >>
        BY <2>1, <2>3, MeasuredDeterminant
      <3>2. Underflows(FirstDeterminant)
        BY <2>1, <2>2, <3>1 DEF Underflows
      <3> QED
        BY <3>2 DEF Accepted
    <2> QED
      BY <2>1, <2>3, <2>4, MeasuredDeterminant
  <1>2. case.len \in Nat
    BY CaseBounds
  <1> QED
    BY <1>1, <1>2

\* Only what was not accepted is reversible for its refusal.
LEMMA ReversibleIs ==
  ASSUME case \in Cases, Accepted
  PROVE  Reversible <=>
           \/ /\ case.kind \in {"octets", "bits"}
              /\ \/ ~OutOfRange /\ FixedBelow64K
                 \/ case.len < LENGTH_16K
                 \/ case.kind = "octets" /\ Unbounded /\ case.len < U8 * LENGTH_16K
           \/ /\ case.kind \in {"elements", "characters"}
              /\ Unbounded => \/ case.len < LENGTH_16K
                              \/ case.len \in {k * LENGTH_16K : k \in 1 .. MAX_FRAGMENTS}
           \/ case.kind = "open" /\ case.len < LENGTH_16K
  <1>1. ~(~case.valid \/ (OutOfRange /\ ~case.extensible))
    BY DEF Accepted
  <1>2. /\ ~TakenTwice \/ case.min = case.max
        /\ case.len < LENGTH_16K => ~TakenTwice
    BY NotTakenTwice
  <1>3. CASE case.kind \in {"octets", "bits"}
    BY <1>1, <1>2, <1>3 DEF Reversible
  <1>4. CASE case.kind \in {"elements", "characters"}
    BY <1>1, <1>2, <1>4 DEF Reversible
  <1>5. CASE case.kind = "open"
    BY <1>1, <1>5 DEF Reversible
  <1> QED
    BY <1>3, <1>4, <1>5, CaseBounds

\* Octet and bit strings without a loop.
LEMMA ReversibleStrings ==
  ASSUME case \in Cases, Accepted, case.kind \in {"octets", "bits"}, ~Loops
  PROVE  Reversible <=> (~OutOfRange /\ FixedBelow64K) \/ case.len < LENGTH_16K
  <1>1. case.kind = "octets" /\ Unbounded => case.len < LENGTH_16K
    <2> SUFFICES ASSUME case.kind = "octets", Unbounded PROVE case.len < LENGTH_16K
      OBVIOUS
    <2>1. ~IsFragment(FirstDeterminant)
      BY DEF Loops, Octets
    <2> QED
      BY <2>1, FirstIs, CaseBounds
  <1> QED
    BY <1>1, ReversibleIs

\* Octet strings with one, and bit strings.
LEMMA ReversibleLoops ==
  ASSUME case \in Cases, Accepted, Loops
  PROVE  /\ case.kind \in {"bits", "open"} => ~Reversible
         /\ case.kind = "octets" => (Reversible <=> case.len < U8 * LENGTH_16K)
         /\ Octets => Unbounded /\ case.len >= LENGTH_16K
         /\ ~(~OutOfRange /\ FixedBelow64K)
  <1>1. case.len \in Nat
    BY CaseBounds
  <1>2. Octets => Unbounded /\ case.len >= LENGTH_16K
    <2> SUFFICES ASSUME Octets PROVE Unbounded /\ case.len >= LENGTH_16K
      OBVIOUS
    <2>1. IsFragment(FirstDeterminant)
      BY DEF Loops, Octets
    <2> QED
      BY <2>1, FirstIs
  <1>3. case.kind = "bits" => case.len > LENGTH_64K
    BY DEF Loops, Octets
  <1>4. ~(~OutOfRange /\ FixedBelow64K)
    <2> SUFFICES ASSUME ~OutOfRange, FixedBelow64K PROVE FALSE
      OBVIOUS
    <2>1. case.min # NoBound
      BY DEF FixedBelow64K
    <2>2. ~Unbounded
      BY <2>1 DEF Unbounded
    <2>3. case.len < LENGTH_64K
      BY <2>2, MeasuredDeterminant
    <2> QED
      BY <1>1, <1>2, <1>3, <2>2, <2>3 DEF Loops
  <1>5. case.kind \in {"bits", "open"} => ~Reversible
    <2>1. CASE case.kind = "bits"
      BY <1>1, <1>3, <1>4, <2>1, ReversibleIs
    <2>2. CASE case.kind = "open"
      BY <1>1, <1>2, <2>2, ReversibleIs DEF Octets
    <2> QED
      BY <2>1, <2>2
  <1>6. case.kind = "octets" => (Reversible <=> case.len < U8 * LENGTH_16K)
    BY <1>1, <1>2, <1>4, ReversibleIs DEF Octets
  <1> QED
    BY <1>2, <1>4, <1>5, <1>6

\* Lists and strings of characters, which send everything in one piece, and
\* open types, which are read as one.
LEMMA ReversibleWholes ==
  ASSUME case \in Cases, Accepted
  PROVE  /\ case.kind \in {"elements", "characters"} => (Reversible <=> First = case.len)
         /\ case.kind = "open" => (Reversible <=> ~Loops)
  <1>1. case.len \in Nat
    BY CaseBounds
  <1>2. ASSUME case.kind \in {"elements", "characters"}
        PROVE  Reversible <=> First = case.len
    <2>1. Reversible <=>
            (Unbounded => \/ case.len < LENGTH_16K
                          \/ case.len \in {k * LENGTH_16K : k \in 1 .. MAX_FRAGMENTS})
      BY <1>2, ReversibleIs
    <2>2. CASE ~Unbounded \/ case.len < LENGTH_16K
      <3>1. ~IsFragment(FirstDeterminant)
        BY <1>1, <2>2, FirstIs
      <3> QED
        BY <2>1, <2>2, <3>1, FirstIs
    <2>3. CASE Unbounded /\ case.len >= LENGTH_16K
      <3>1. First = Smaller(Blocks(case.len), MAX_FRAGMENTS) * LENGTH_16K
        BY <2>3, FirstIs
      <3>2. Blocks(case.len) \in Nat
        BY <1>1 DEF Blocks
      <3>3. ASSUME NEW k \in 1 .. MAX_FRAGMENTS, case.len = k * LENGTH_16K
            PROVE  First = case.len
        <4>1. Blocks(case.len) = k
          BY <3>3 DEF Blocks
        <4> QED
          BY <3>1, <3>3, <4>1 DEF Smaller
      <3>4. ASSUME First = case.len
            PROVE  \E k \in 1 .. MAX_FRAGMENTS : case.len = k * LENGTH_16K
        <4> DEFINE k == Smaller(Blocks(case.len), MAX_FRAGMENTS)
        <4>1. k \in 0 .. MAX_FRAGMENTS
          BY <3>2 DEF Smaller
        <4> HIDE DEF k
        <4>2. case.len = k * LENGTH_16K /\ k # 0
          BY <2>3, <3>1, <3>4, <4>1 DEF k
        <4> QED
          BY <4>1, <4>2
      <3> QED
        BY <1>1, <2>1, <2>3, <3>3, <3>4
    <2> QED
      BY <1>1, <2>2, <2>3
  <1>3. ASSUME case.kind = "open"
        PROVE  Reversible <=> ~Loops
    <2>1. Unbounded /\ Octets
      BY <1>3, CaseBounds DEF Unbounded, Octets
    <2>2. Loops <=> case.len >= LENGTH_16K
      BY <1>3, <2>1, FirstIs DEF Loops
    <2> QED
      BY <1>1, <1>3, <2>2, ReversibleIs
  <1> QED
    BY <1>2, <1>3

\* An empty size has no loop and nothing is below zero in it.
LEMMA EmptyIs ==
  ASSUME case \in Cases, Empty
  PROVE  /\ case.len = 0 /\ Lower = 0 /\ ~Loops /\ Accepted
  <1>1. case.len \in Nat /\ Lower \in Nat /\ Upper = 0 /\ ~OutOfRange /\ case.kind = "octets"
    BY CaseBounds DEF Empty
  <1>2. case.len = 0 /\ Lower = 0
    BY <1>1 DEF OutOfRange
  <1>3. ~Unbounded
    BY <1>1, CaseBounds DEF Unbounded
  <1>4. ~Loops
    BY <1>1, <1>3, FirstIs DEF Loops
  <1>5. ~WideBounds(case.min, case.max)
    BY <1>1 DEF WideBounds, Upper
  <1>6. \/ FirstDeterminant = <<>>
        \/ FirstDeterminant = << [type |-> "constrained", n |-> case.len - Lower] >>
    BY <1>3, <1>5, MeasuredDeterminant
  <1>7. ~Underflows(FirstDeterminant)
    BY <1>2, <1>6 DEF Underflows
  <1>8. case.valid
    BY <1>1, CasesAssumption
  <1> QED
    BY <1>1, <1>2, <1>4, <1>7, <1>8 DEF Accepted

-----------------------------------------------------------------------------
(* Piece after piece *)

\* A determinant without bounds, and how many units it announces.
Announces(s, i) == MultipleAt(s, i) \/ LengthAt(s, i)
Count(x) == IF x.type = "multiple" THEN x.n * LENGTH_16K ELSE x.n

\* What a determinant announces is right behind it, and then comes another one.
Pieced(s) ==
    \A i \in 1 .. Len(s) :
        /\ Announces(s, i) /\ Count(s[i]) # 0 =>
              UnitsAt(s, i + 1) /\ s[i + 1].to - s[i + 1].from = Count(s[i])
        /\ i < Len(s) /\ (UnitsAt(s, i) \/ (Announces(s, i) /\ Count(s[i]) = 0)) =>
              Announces(s, i + 1)

\* After 16K units or more there is a further piece.
Closed(s) ==
    \A i \in 1 .. Len(s) :
        Announces(s, i) /\ Count(s[i]) >= LENGTH_16K => i + 2 <= Len(s)

\* A value from 4 MiB on is never written but for its last 4 MiB.  One below has
\* no fragment of no units.
Huge == case.len >= U8 * LENGTH_16K
Falls(s, w) ==
    /\ Huge => /\ w <= case.len - U8 * LENGTH_16K
               /\ \A i \in 1 .. Len(s) : UnitsAt(s, i) => s[i].to <= w
    /\ ~Huge => \A i \in 1 .. Len(s) : MultipleAt(s, i) => s[i].n # 0

\* A stream, an item, and the units it announces.
WithPiece(s, x, w, n) == s \o << x >> \o Units(w, n)

\* What WithPiece makes of a stream, item by item.
PieceShape(t, s, x, w, n) ==
    /\ t \in Seq(Item)
    /\ Len(s) \in Nat
    /\ n = 0 => Len(t) = Len(s) + 1
    /\ n # 0 => Len(t) = Len(s) + 2
    /\ \A i \in 1 .. Len(s) : t[i] = s[i]
    /\ t[Len(s) + 1] = x
    /\ n # 0 => t[Len(s) + 2] = Run(w, n)

\* WithPiece makes what PieceShape says.
LEMMA PieceItems ==
  ASSUME NEW s \in Seq(Item), NEW x \in Item, NEW w \in Nat, NEW n \in Nat
  PROVE  PieceShape(WithPiece(s, x, w, n), s, x, w, n)
  <1> DEFINE t == Append(s, x)
             u == Run(w, n)
  <1>1. s \o << x >> = t
    BY AppendIsConcat
  <1>2. /\ t \in Seq(Item) /\ Len(s) \in Nat /\ Len(t) = Len(s) + 1
        /\ \A i \in 1 .. Len(s) : t[i] = s[i]
        /\ t[Len(s) + 1] = x
    BY AppendedItems
  <1> HIDE DEF t
  <1>3. CASE n = 0
    <2>1. WithPiece(s, x, w, n) = t
      BY <1>1, <1>2, <1>3, ConcatEmptySeq DEF WithPiece, Units
    <2> QED
      BY <1>2, <1>3, <2>1 DEF PieceShape
  <1>4. CASE n # 0
    <2>1. u \in Item
      BY DEF Run, Item
    <2>2. WithPiece(s, x, w, n) = Append(t, u)
      BY <1>1, <1>2, <1>4, <2>1, AppendIsConcat DEF WithPiece, Units
    <2> HIDE DEF u, PieceShape
    <2>3. /\ Append(t, u) \in Seq(Item) /\ Len(Append(t, u)) = Len(t) + 1
          /\ \A i \in 1 .. Len(t) : Append(t, u)[i] = t[i]
          /\ Append(t, u)[Len(t) + 1] = u
      BY <1>2, <2>1, AppendedItems
    <2>4. \A i \in 1 .. Len(s) : Append(t, u)[i] = s[i]
      BY <1>2, <2>3
    <2>5. Append(t, u)[Len(s) + 1] = x
      BY <1>2, <2>3
    <2>6. Append(t, u)[Len(s) + 2] = u /\ Len(Append(t, u)) = Len(s) + 2
      BY <1>2, <2>3
    <2> QED
      BY <1>2, <1>4, <2>2, <2>3, <2>4, <2>5, <2>6 DEF u, PieceShape
  <1> QED
    BY <1>3, <1>4

\* A determinant without bounds announces at most what is left, and leaves 4 MiB
\* if there were that many.
LEMMA CountIs ==
  ASSUME NEW n \in Nat
  PROVE  /\ Count(UnboundedItem(n)) = Announced(<<UnboundedItem(n)>>, n)
         /\ UnboundedItem(n) \in Item
         /\ UnboundedItem(n).type \in {"length", "multiple"}
         /\ n >= U8 * LENGTH_16K =>
              /\ n - Count(UnboundedItem(n)) >= U8 * LENGTH_16K
              /\ Count(UnboundedItem(n)) < LENGTH_16K => Count(UnboundedItem(n)) = 0
  <1> DEFINE x == UnboundedItem(n)
  <1>1. Limited(x) /\ x.type = IF n < LENGTH_16K THEN "length" ELSE "multiple"
    BY UnboundedItemIsLegal
  <1>2. x \in Item /\ x.type \in {"length", "multiple"}
    BY <1>1 DEF Limited
  <1>3. CASE n < LENGTH_16K
    <2>1. x = [type |-> "length", n |-> n]
      BY <1>3 DEF UnboundedItem
    <2> QED
      BY <1>2, <1>3, <2>1 DEF Count, Announced
  <1>4. CASE ~(n < LENGTH_16K)
    <2> DEFINE count == Smaller(Blocks(n), MAX_FRAGMENTS)
    <2>1. x = [type |-> "multiple", n |-> count]
      BY <1>4 DEF UnboundedItem
    <2>2. /\ Blocks(n) \in Nat /\ Blocks(n) < U8
          /\ n >= U8 * LENGTH_16K => n - Blocks(n) * LENGTH_16K >= U8 * LENGTH_16K
      BY <1>4 DEF Blocks
    <2>3. count \in Nat /\ count <= Blocks(n)
      BY <2>2 DEF Smaller
    <2> HIDE DEF count
    <2>4. Count(x) = count * LENGTH_16K /\ Announced(<< x >>, n) = count * LENGTH_16K
      BY <2>1 DEF Count, Announced
    <2> HIDE DEF x
    <2>5. n >= U8 * LENGTH_16K => n - Count(x) >= U8 * LENGTH_16K
      BY <2>2, <2>3, <2>4
    <2>6. Count(x) < LENGTH_16K => Count(x) = 0
      BY <2>3, <2>4
    <2> QED
      BY <1>2, <2>4, <2>5, <2>6 DEF x
  <1> QED
    BY <1>3, <1>4

\* A piece more keeps the pieces whole; a length below 16K is the last of them.
LEMMA PieceAppended ==
  ASSUME NEW s \in Seq(Item), NEW x \in Item, NEW w \in Nat,
         x.type \in {"length", "multiple"}, Count(x) \in Nat, Pieced(s)
  PROVE  /\ Pieced(WithPiece(s, x, w, Count(x)))
         /\ Count(x) < LENGTH_16K => Closed(WithPiece(s, x, w, Count(x)))
  <1> DEFINE n == Count(x)
             t == WithPiece(s, x, w, n)
             e == Len(s)
  <1> HIDE DEF n
  <1>0. n \in Nat /\ Count(x) = n
    BY DEF n
  <1>1. /\ e \in Nat /\ (n = 0 => Len(t) = e + 1) /\ (n # 0 => Len(t) = e + 2)
        /\ \A i \in 1 .. e : t[i] = s[i]
        /\ t[e + 1] = x
        /\ n # 0 => t[e + 2] = Run(w, n)
    <2>1. PieceShape(WithPiece(s, x, w, n), s, x, w, n)
      BY <1>0, PieceItems
    <2>2. PieceShape(t, s, x, w, n)
      BY <2>1
    <2> HIDE DEF t
    <2> QED
      BY <2>2 DEF PieceShape
  <1>2. Run(w, n).type = "units" /\ Run(w, n).to - Run(w, n).from = n
    BY <1>0 DEF Run
  <1> HIDE DEF t
  <1>3. \A i \in 1 .. e : /\ Announces(t, i) <=> Announces(s, i)
                          /\ UnitsAt(t, i) <=> UnitsAt(s, i)
    BY <1>1 DEF Announces, MultipleAt, LengthAt, UnitsAt
  <1>4. Announces(t, e + 1) /\ ~UnitsAt(t, e + 1)
    BY <1>1 DEF Announces, MultipleAt, LengthAt, UnitsAt
  <1>5. n # 0 => UnitsAt(t, e + 2) /\ ~Announces(t, e + 2)
    BY <1>1, <1>2 DEF Announces, MultipleAt, LengthAt, UnitsAt
  <1>6. \A i \in 1 .. Len(t) : \/ i \in 1 .. e \/ i = e + 1 \/ (i = e + 2 /\ n # 0)
    BY <1>1
  <1>7. ASSUME NEW i \in 1 .. e, Announces(s, i), Count(s[i]) # 0
        PROVE  i + 1 \in 1 .. e /\ UnitsAt(s, i + 1) /\ s[i + 1].to - s[i + 1].from = Count(s[i])
    <2>1. UnitsAt(s, i + 1) /\ s[i + 1].to - s[i + 1].from = Count(s[i])
      BY <1>7 DEF Pieced
    <2> QED
      BY <2>1 DEF UnitsAt
  <1>8. Pieced(t)
    <2> SUFFICES ASSUME NEW i \in 1 .. Len(t)
                 PROVE  /\ Announces(t, i) /\ Count(t[i]) # 0 =>
                              UnitsAt(t, i + 1) /\ t[i + 1].to - t[i + 1].from = Count(t[i])
                        /\ i < Len(t) /\ (UnitsAt(t, i) \/ (Announces(t, i) /\ Count(t[i]) = 0)) =>
                              Announces(t, i + 1)
      BY DEF Pieced
    <2>1. CASE i \in 1 .. e
      <3>1. Announces(t, i) /\ Count(t[i]) # 0 =>
              UnitsAt(t, i + 1) /\ t[i + 1].to - t[i + 1].from = Count(t[i])
        <4> SUFFICES ASSUME Announces(t, i), Count(t[i]) # 0
                     PROVE  UnitsAt(t, i + 1) /\ t[i + 1].to - t[i + 1].from = Count(t[i])
          OBVIOUS
        <4>1. Announces(s, i) /\ t[i] = s[i]
          BY <1>1, <1>3, <2>1
        <4>2. i + 1 \in 1 .. e /\ UnitsAt(s, i + 1) /\ s[i + 1].to - s[i + 1].from = Count(s[i])
          BY <1>7, <2>1, <4>1
        <4> QED
          BY <1>1, <1>3, <4>1, <4>2
      <3>2. UnitsAt(t, i) \/ (Announces(t, i) /\ Count(t[i]) = 0) => Announces(t, i + 1)
        <4> SUFFICES ASSUME UnitsAt(t, i) \/ (Announces(t, i) /\ Count(t[i]) = 0)
                     PROVE  Announces(t, i + 1)
          OBVIOUS
        <4>1. UnitsAt(s, i) \/ (Announces(s, i) /\ Count(s[i]) = 0)
          BY <1>1, <1>3, <2>1
        <4>2. CASE i < e
          <5>1. Announces(s, i + 1) /\ i + 1 \in 1 .. e
            BY <1>1, <2>1, <4>1, <4>2 DEF Pieced
          <5> QED
            BY <1>3, <5>1
        <4>3. CASE i = e
          BY <1>4, <4>3
        <4> QED
          BY <1>1, <2>1, <4>2, <4>3
      <3> QED
        BY <3>1, <3>2
    <2>2. CASE i = e + 1
      <3>1. t[i] = x /\ i + 1 = e + 2 /\ ~UnitsAt(t, i)
        BY <1>1, <1>4, <2>2
      <3>2. CASE n = 0
        BY <1>0, <1>1, <3>1, <3>2, <2>2
      <3>3. CASE n # 0
        BY <1>0, <1>1, <1>2, <1>5, <3>1, <3>3
      <3> QED
        BY <3>2, <3>3
    <2>3. CASE i = e + 2 /\ n # 0
      BY <1>1, <1>5, <2>3
    <2> QED
      BY <1>6, <2>1, <2>2, <2>3
  <1>9. ASSUME n < LENGTH_16K
        PROVE  Closed(t)
    <2> SUFFICES ASSUME NEW i \in 1 .. Len(t), Announces(t, i), Count(t[i]) >= LENGTH_16K
                 PROVE  i + 2 <= Len(t)
      BY DEF Closed
    <2>1. CASE i \in 1 .. e
      <3>1. Announces(s, i) /\ t[i] = s[i]
        BY <1>1, <1>3, <2>1
      <3>2. i + 1 \in 1 .. e
        BY <1>7, <2>1, <3>1
      <3> QED
        BY <1>1, <3>2
    <2>2. CASE i = e + 1
      BY <1>0, <1>1, <1>9, <2>2
    <2>3. CASE i = e + 2 /\ n # 0
      BY <1>5, <2>3
    <2> QED
      BY <1>6, <2>1, <2>2, <2>3
  <1> QED
    BY <1>8, <1>9 DEF t, n

\* The piece of what remains.
LEMMA FallsOn ==
  ASSUME case \in Cases, NEW s \in Seq(Item), NEW w \in Nat, w <= case.len, Falls(s, w)
  PROVE  LET x == UnboundedItem(case.len - w)
         IN  /\ Falls(WithPiece(s, x, w, Count(x)), w + Count(x))
             /\ Count(x) < LENGTH_16K => Falls(WithPiece(s, x, w, Count(x)), w)
  <1> DEFINE n == case.len - w
             x == UnboundedItem(n)
             m == Count(x)
             t == WithPiece(s, x, w, m)
             e == Len(s)
  <1>6. case.len \in Nat /\ n \in Nat
    BY CaseBounds
  <1>20. w + n = case.len
    BY <1>6
  <1> HIDE DEF n
  <1>1. /\ x \in Item /\ x.type \in {"length", "multiple"}
        /\ m = Announced(<< x >>, n) /\ m \in Nat
        /\ n >= U8 * LENGTH_16K => n - m >= U8 * LENGTH_16K
        /\ n >= U8 * LENGTH_16K => (m < LENGTH_16K => m = 0)
    <2>1. /\ m = Announced(<< x >>, n) /\ x \in Item /\ x.type \in {"length", "multiple"}
          /\ n >= U8 * LENGTH_16K => n - m >= U8 * LENGTH_16K
          /\ n >= U8 * LENGTH_16K => (m < LENGTH_16K => m = 0)
      BY <1>6, CountIs
    <2>2. Announced(<< x >>, n) \in 0 .. n
      BY <1>6, UnboundedItemAnnounces
    <2> HIDE DEF x, m
    <2> QED
      BY <2>1, <2>2
  <1>2. n < U8 * LENGTH_16K => (x.type = "multiple" => x.n # 0)
    <2> SUFFICES ASSUME n < U8 * LENGTH_16K, x.type = "multiple" PROVE x.n # 0
      OBVIOUS
    <2>1. n >= LENGTH_16K
      BY <1>6, UnboundedItemIsLegal
    <2>2. Announced(<< x >>, n) >= LENGTH_16K
      BY <1>6, <2>1, UnboundedItemAnnounces
    <2>3. m = x.n * LENGTH_16K
      BY DEF Count
    <2> QED
      BY <1>1, <2>2, <2>3
  <1> HIDE DEF x, m
  <1>3. /\ e \in Nat /\ (m = 0 => Len(t) = e + 1) /\ (m # 0 => Len(t) = e + 2)
        /\ \A i \in 1 .. e : t[i] = s[i]
        /\ t[e + 1] = x
        /\ m # 0 => t[e + 2] = Run(w, m)
    <2>1. PieceShape(WithPiece(s, x, w, m), s, x, w, m)
      BY <1>1, PieceItems
    <2>2. PieceShape(t, s, x, w, m)
      BY <2>1
    <2> HIDE DEF t
    <2> QED
      BY <2>2 DEF PieceShape
  <1>4. Run(w, m).type = "units" /\ Run(w, m).to = w + m
    BY DEF Run
  <1> HIDE DEF t
  <1>5. \A i \in 1 .. Len(t) : \/ i \in 1 .. e \/ i = e + 1 \/ (i = e + 2 /\ m # 0)
    BY <1>3
  <1>7. CASE Huge
    <2>1. w <= case.len - U8 * LENGTH_16K
      BY <1>7 DEF Falls
    <2>2. n >= U8 * LENGTH_16K
      BY <1>6, <1>20, <1>7, <2>1 DEF Huge
    <2>3. w + m <= case.len - U8 * LENGTH_16K
      BY <1>1, <1>6, <1>20, <2>2
    <2>4. \A i \in 1 .. Len(t) : UnitsAt(t, i) => t[i].to <= w + m
      <3> SUFFICES ASSUME NEW i \in 1 .. Len(t), UnitsAt(t, i)
                   PROVE  t[i].to <= w + m
        OBVIOUS
      <3>1. CASE i \in 1 .. e
        <4>1. UnitsAt(s, i) /\ t[i] = s[i]
          BY <1>3, <3>1 DEF UnitsAt
        <4>2. s[i].to <= w
          BY <1>7, <3>1, <4>1 DEF Falls
        <4>3. s[i].to \in Nat
          <5>1. s[i] \in Item /\ s[i].type = "units"
            BY <3>1, <4>1, ElementOfSeq DEF UnitsAt
          <5> QED
            BY <5>1 DEF Item
        <4> QED
          BY <1>1, <4>1, <4>2, <4>3
      <3>2. CASE i = e + 1
        BY <1>1, <1>3, <3>2 DEF UnitsAt
      <3>3. CASE i = e + 2 /\ m # 0
        BY <1>1, <1>3, <1>4, <3>3
      <3> QED
        BY <1>5, <3>1, <3>2, <3>3
    <2>5. Falls(t, w + m)
      BY <1>7, <2>3, <2>4 DEF Falls
    <2>6. m < LENGTH_16K => w + m = w
      BY <1>1, <2>2
    <2> QED
      BY <2>5, <2>6 DEF t, m, x, n
  <1>8. CASE ~Huge
    <2>1. n < U8 * LENGTH_16K
      BY <1>6, <1>20, <1>8 DEF Huge
    <2>2. \A i \in 1 .. Len(t) : MultipleAt(t, i) => t[i].n # 0
      <3> SUFFICES ASSUME NEW i \in 1 .. Len(t), MultipleAt(t, i)
                   PROVE  t[i].n # 0
        OBVIOUS
      <3>1. CASE i \in 1 .. e
        <4>1. MultipleAt(s, i) /\ t[i] = s[i]
          BY <1>3, <3>1 DEF MultipleAt
        <4> QED
          BY <1>8, <3>1, <4>1 DEF Falls
      <3>2. CASE i = e + 1
        BY <1>2, <1>3, <2>1, <3>2 DEF MultipleAt
      <3>3. CASE i = e + 2 /\ m # 0
        BY <1>3, <1>4, <3>3 DEF MultipleAt
      <3> QED
        BY <1>5, <3>1, <3>2, <3>3
    <2>3. Falls(t, w) /\ Falls(t, w + m)
      BY <1>8, <2>2 DEF Falls
    <2> QED
      BY <2>3 DEF t, m, x, n
  <1> QED
    BY <1>7, <1>8

\* The units before an item reach to one place.
LEMMA ReachedOnce ==
  ASSUME NEW s \in Seq(Item), NEW k \in Nat, NEW n, NEW m,
         ReachedBefore(s, k, n), ReachedBefore(s, k, m)
  PROVE  n = m
  <1>1. ASSUME NEW i \in 1 .. k - 1, NEW j \in 1 .. k - 1, LastUnits(s, i, k), LastUnits(s, j, k)
        PROVE  i = j
    <2>1. ~(i < j) /\ ~(j < i)
      BY <1>1 DEF LastUnits
    <2> QED
      BY <2>1
  <1>2. ASSUME NEW i \in 1 .. k - 1, LastUnits(s, i, k)
        PROVE  ~(\A j \in 1 .. k - 1 : ~UnitsAt(s, j))
    BY <1>2 DEF LastUnits
  <1>3. CASE n = 0 /\ \A j \in 1 .. k - 1 : ~UnitsAt(s, j)
    BY <1>2, <1>3 DEF ReachedBefore
  <1>4. CASE \E i \in 1 .. k - 1 : LastUnits(s, i, k) /\ s[i].to = n
    BY <1>1, <1>2, <1>4 DEF ReachedBefore
  <1> QED
    BY <1>3, <1>4 DEF ReachedBefore

\* A determinant of the third form and its units take the reader on.
LEMMA ReachGoesOn ==
  ASSUME stream \in Seq(Item), InOrder(stream), Pieced(stream),
         NEW i \in Nat, i < Len(stream), Announces(stream, i + 1),
         NEW n \in Nat, ReachedBefore(stream, i + 1, n)
  PROVE  LET c == Count(stream[i + 1])
             e == IF c = 0 THEN i + 1 ELSE i + 2
         IN  /\ c \in Nat /\ e <= Len(stream)
             /\ Piece(i, NoBound, NoBound) = [n |-> c, end |-> e]
             /\ ReachedBefore(stream, e + 1, n + c)
             /\ e < Len(stream) => Announces(stream, e + 1)
  <1> DEFINE x == stream[i + 1]
             c == Count(x)
             e == IF c = 0 THEN i + 1 ELSE i + 2
  <1>1. Len(stream) \in Nat /\ i + 1 \in 1 .. Len(stream) /\ x \in Item
    BY LenProperties, ElementOfSeq
  <1>2. x.type \in {"length", "multiple"}
    BY DEF Announces, MultipleAt, LengthAt
  <1>3. c \in Nat
    BY <1>1, <1>2 DEF Item, Count
  <1>4. ~UnitsAt(stream, i + 1)
    BY <1>2 DEF UnitsAt
  <1>5. ~WideBounds(NoBound, NoBound) /\ ~NarrowBounds(NoBound, NoBound)
    BY DEF WideBounds, NarrowBounds
  <1>6. /\ NextIs(i, FormOf(NoBound, NoBound))
        /\ LengthOf(NoBound, NoBound, x) = c
    BY <1>2, <1>5 DEF NextIs, FormOf, LengthOf, Count
  <1>7. Piece(i, NoBound, NoBound) = [n |-> c, end |-> AfterUnits(i + 1, c)]
    BY <1>5, <1>6 DEF Piece
  <1> HIDE DEF c, x
  <1>8. \A j \in i + 1 .. (i + 2) - 1 : ~UnitsAt(stream, j)
    BY <1>4
  <1>9. ReachedBefore(stream, i + 2, n)
    <2>1. CASE n = 0 /\ \A j \in 1 .. (i + 1) - 1 : ~UnitsAt(stream, j)
      <3>1. \A j \in 1 .. (i + 2) - 1 : ~UnitsAt(stream, j)
        BY <1>4, <2>1
      <3> QED
        BY <2>1, <3>1 DEF ReachedBefore
    <2>2. CASE \E k \in 1 .. (i + 1) - 1 : LastUnits(stream, k, i + 1) /\ stream[k].to = n
      <3>1. PICK k \in 1 .. (i + 1) - 1 : LastUnits(stream, k, i + 1) /\ stream[k].to = n
        BY <2>2
      <3>2. \A j \in k + 1 .. (i + 2) - 1 : ~UnitsAt(stream, j)
        BY <1>4, <3>1 DEF LastUnits
      <3>3. LastUnits(stream, k, i + 2) /\ k \in 1 .. (i + 2) - 1
        BY <3>1, <3>2 DEF LastUnits
      <3> QED
        BY <3>1, <3>3 DEF ReachedBefore
    <2> QED
      BY <2>1, <2>2 DEF ReachedBefore
  <1>10. CASE c = 0
    <2>1. e = i + 1 /\ AfterUnits(i + 1, c) = i + 1 /\ n + c = n
      BY <1>10 DEF AfterUnits
    <2>2. ReachedBefore(stream, e + 1, n + c)
      BY <1>9, <2>1
    <2>3. e < Len(stream) => Announces(stream, e + 1)
      BY <1>1, <1>10, <2>1 DEF Pieced, c, x
    <2> QED
      BY <1>1, <1>3, <1>7, <2>1, <2>2, <2>3 DEF c, x
  <1>11. CASE c # 0
    <2> DEFINE u == stream[i + 2]
    <2>1. UnitsAt(stream, i + 2) /\ u.to - u.from = c
      <3>1. UnitsAt(stream, (i + 1) + 1) /\ stream[(i + 1) + 1].to - stream[(i + 1) + 1].from = c
        BY <1>1, <1>11 DEF Pieced, c, x
      <3> QED
        BY <3>1
    <2>2. i + 2 \in 1 .. Len(stream) /\ u \in Item /\ u.type = "units"
      BY <1>1, <2>1, ElementOfSeq DEF UnitsAt
    <2>3. u.from \in Nat /\ u.to \in Nat
      BY <2>2 DEF Item
    <2>4. ReachedBefore(stream, i + 2, u.from)
      BY <2>1, <2>2 DEF InOrder
    <2>5. u.from = n
      BY <1>9, <2>4, ReachedOnce
    <2>6. AfterUnits(i + 1, c) = i + 2 /\ e = i + 2
      <3>1. (i + 1) + 1 = i + 2 /\ i + 1 < Len(stream)
        BY <1>1, <2>2
      <3> QED
        BY <1>11, <2>1, <2>2, <3>1 DEF AfterUnits, NextIs
    <2>7. ReachedBefore(stream, e + 1, n + c)
      <3>1. \A j \in (i + 2) + 1 .. (i + 3) - 1 : ~UnitsAt(stream, j)
        OBVIOUS
      <3>2. LastUnits(stream, i + 2, i + 3) /\ i + 2 \in 1 .. (i + 3) - 1
        BY <2>1, <3>1 DEF LastUnits
      <3>3. u.to = n + c
        BY <1>3, <2>1, <2>3, <2>5
      <3>4. e + 1 = i + 3
        BY <2>6
      <3> QED
        BY <3>2, <3>3, <3>4 DEF ReachedBefore
    <2>8. e < Len(stream) => Announces(stream, e + 1)
      BY <2>1, <2>2, <2>6 DEF Pieced
    <2> QED
      BY <1>1, <1>3, <1>7, <2>2, <2>6, <2>7, <2>8 DEF c, x
  <1> QED
    BY <1>10, <1>11

-----------------------------------------------------------------------------
(* The way to the end of reading *)

Writing == {"writeOctets", "writeBits"}

\* What is written when the writer is in phase p, after w units: nothing that
\* was refused, the first piece at the beginning, nothing else without a loop,
\* and one piece after the other in the loop of an octet string.
ShapeOf(p, s, w) ==
    /\ p \in Writing \cup {"read", "readFragments"} => Accepted
    /\ p \in Writing => Loops
    /\ p \in Writing \cup {"read"} /\ ~Empty => Begins(s)
    /\ p = "read" /\ Empty => s = ExtensionFlag
    /\ p = "read" /\ ~Loops /\ ~Empty => Len(s) = After
    /\ p \in Writing \cup {"read", "readFragments"} /\ Loops /\ Octets => Pieced(s) /\ Falls(s, w)
    /\ p \in {"read", "readFragments"} /\ Loops /\ Octets => Closed(s)
    /\ p = "read" /\ Loops /\ Octets => Len(s) > After

\* An octet string in fragments: the reader is where the next determinant is,
\* and its runs are the units before.
OnItsWay(s, a, g) ==
    /\ case.kind = "octets" /\ Loops
    /\ a < Len(s) /\ Announces(s, a + 1)
    /\ ReachedBefore(s, a + 1, Total(g))

\* Nothing that follows gives back the value.
Lost(s, a, g) ==
    /\ ~Reversible
    /\ a = Len(s) \/ (case.kind = "bits" /\ Total(g) # case.len)

RunsOf(p, s, a, g) ==
    /\ p \in Writing \cup {"write", "read"} => g = << >>
    /\ p = "readFragments" => OnItsWay(s, a, g) \/ Lost(s, a, g)

VerdictOf(p, s, a, g) ==
    p \in Ended =>
        (/\ p \notin {"panic", "outOfStep"}
         /\ p = "done" => Total(g) = case.len /\ a = Len(s)) <=> Reversible

ReadingInvOf(p, s, w, a, g) ==
    ShapeOf(p, s, w) /\ RunsOf(p, s, a, g) /\ VerdictOf(p, s, a, g)

\* What IInv does not say: how the reader fares.
ReadingInv == ReadingInvOf(phase, stream, written, at, got)

\* Of the invariant, this part is what the run checks.
LEMMA VerdictSuffices == VerdictOf(phase, stream, at, got) <=> ReversibleWithinLimits
  BY DEF VerdictOf, ReversibleWithinLimits, ReadsBack

\* The case stays what it is, and so do all conditions about it.
LEMMA CaseKept ==
  ASSUME case' = case
  PROVE  /\ OutOfRange' <=> OutOfRange
         /\ Accepted' <=> Accepted
         /\ Loops' <=> Loops
         /\ Octets' <=> Octets
         /\ Empty' <=> Empty
         /\ Reversible' <=> Reversible
         /\ FirstDeterminant' = FirstDeterminant
         /\ ExtensionFlag' = ExtensionFlag
         /\ Prefix' = Prefix /\ Sent' = Sent /\ After' = After
         /\ Huge' <=> Huge
  <1>1. Lower' = Lower /\ Upper' = Upper
    BY DEF Lower, Upper
  <1>2. OutOfRange' <=> OutOfRange
    BY <1>1 DEF OutOfRange
  <1>3. FixedBelow64K' <=> FixedBelow64K
    BY <1>1 DEF FixedBelow64K
  <1>4. FirstDeterminant' = FirstDeterminant
    BY <1>2, <1>3 DEF FirstDeterminant
  <1>5. ExtensionFlag' = ExtensionFlag
    BY <1>2 DEF ExtensionFlag
  <1>6. AfterFlag' = AfterFlag
    BY DEF AfterFlag
  <1>7. Prefix' = Prefix /\ First' = First
    BY <1>4, <1>6 DEF Prefix, First
  <1>8. Sent' = Sent
    BY <1>7 DEF Sent
  <1>9. After' = After
    BY <1>7, <1>8 DEF After
  <1>10. Octets' <=> Octets
    BY DEF Octets
  <1>11. Loops' <=> Loops
    BY <1>4, <1>10 DEF Loops
  <1>12. Accepted' <=> Accepted
    BY <1>2, <1>4 DEF Accepted
  <1>13. Empty' <=> Empty
    BY <1>1, <1>2 DEF Empty
  <1>14. Huge' <=> Huge
    BY DEF Huge
  <1>15. /\ TakenTwice' <=> TakenTwice
         /\ Unbounded' <=> Unbounded
    BY <1>1, <1>2 DEF TakenTwice, Unbounded
  <1>16. Reversible' <=> Reversible
    BY <1>2, <1>3, <1>15 DEF Reversible
  <1> QED
    BY <1>2, <1>4, <1>5, <1>7, <1>8, <1>9, <1>10, <1>11, <1>12, <1>13, <1>14, <1>16

\* The invariant of the next state is about the same value.
LEMMA ReadingInvStep ==
  ASSUME case' = case, ReadingInvOf(phase', stream', written', at', got')
  PROVE  ReadingInv'
  <1>1. /\ OutOfRange' <=> OutOfRange
        /\ Accepted' <=> Accepted
        /\ Loops' <=> Loops
        /\ Octets' <=> Octets
        /\ Empty' <=> Empty
        /\ Reversible' <=> Reversible
        /\ FirstDeterminant' = FirstDeterminant
        /\ ExtensionFlag' = ExtensionFlag
        /\ Prefix' = Prefix /\ Sent' = Sent /\ After' = After
        /\ Huge' <=> Huge
    BY CaseKept
  <1>2. Begins(stream)' <=> Begins(stream')
    <2>1. Flag(OutOfRange)' = Flag(OutOfRange)
      <3>1. OutOfRange' <=> OutOfRange
        BY <1>1
      <3> QED
        BY <3>1, ZenonT(20) DEF Flag
    <2>2. Run(0, Sent)' = Run(0, Sent)
      BY <1>1
    <2> QED
      BY <1>1, <2>1, <2>2 DEF Begins
  <1>3. Falls(stream, written)' <=> Falls(stream', written')
    BY <1>1 DEF Falls, UnitsAt, MultipleAt
  <1>4. /\ Pieced(stream)' <=> Pieced(stream')
        /\ Closed(stream)' <=> Closed(stream')
    BY DEF Pieced, Closed, Announces, UnitsAt, MultipleAt, LengthAt, Count
  <1>5. ShapeOf(phase, stream, written)'
    BY <1>1, <1>2, <1>3, <1>4 DEF ReadingInvOf, ShapeOf, Writing
  <1>6. RunsOf(phase, stream, at, got)'
    BY <1>1 DEF ReadingInvOf, RunsOf, OnItsWay, Lost, Writing
  <1>7. VerdictOf(phase, stream, at, got)'
    BY <1>1 DEF ReadingInvOf, VerdictOf
  <1> QED
    BY <1>5, <1>6, <1>7 DEF ReadingInv, ReadingInvOf

-----------------------------------------------------------------------------
(* Refusing *)

\* A determinant that underflows belongs to a size that is not Reversible.
LEMMA PanicIsLost ==
  ASSUME case \in Cases, case.valid, OutOfRange => case.extensible, Underflows(FirstDeterminant)
  PROVE  ~Reversible
  <1>1. case.len \in Nat /\ Lower \in Nat
    BY CaseBounds
  <1>2. ~Unbounded
    <2> SUFFICES ASSUME Unbounded PROVE FALSE
      OBVIOUS
    <2>1. FirstDeterminant = << UnboundedItem(case.len) >>
      BY UnmeasuredDeterminant
    <2>2. UnboundedItem(case.len).type # "constrained"
      BY <1>1, UnboundedItemIsLegal
    <2> QED
      BY <2>1, <2>2 DEF Underflows
  <1>3. FirstDeterminant # <<>>
    BY DEF Underflows
  <1>4. WideBounds(case.min, case.max) /\ case.min # case.max /\ ~FixedBelow64K
    <2> SUFFICES ASSUME ~(WideBounds(case.min, case.max) /\ case.min # case.max
                           /\ ~FixedBelow64K)
                 PROVE  FALSE
      OBVIOUS
    <2>1. /\ FirstDeterminant = << [type |-> "constrained", n |-> case.len - Lower] >>
          /\ Lower <= case.len
      BY <1>2, <1>3, MeasuredDeterminant
    <2>2. ~Underflows(FirstDeterminant)
      BY <1>1, <2>1 DEF Underflows
    <2> QED
      BY <2>2
  <1>5. ~OutOfRange
    BY <1>2 DEF Unbounded
  <1>6. case.len < 2 * Lower
    <2>1. FirstDeterminant = << [type |-> "constrained", n |-> case.len - Lower - Lower] >>
      BY <1>2, <1>4, MeasuredDeterminant
    <2> QED
      BY <1>1, <2>1 DEF Underflows
  <1>7. TakenTwice
    BY <1>4, <1>5, <1>6 DEF TakenTwice
  <1>8. CASE case.kind \in {"octets", "bits"}
    BY <1>2, <1>4, <1>5, <1>7, <1>8 DEF Reversible
  <1>9. CASE case.kind \in {"elements", "characters"}
    BY <1>2, <1>4, <1>5, <1>7, <1>9 DEF Reversible
  <1>10. CASE case.kind = "open"
    BY <1>4, <1>10, CaseBounds DEF WideBounds
  <1> QED
    BY <1>8, <1>9, <1>10, CaseBounds

\* A value that is refused, and a panic of the writer.
LEMMA RefusingIsRight ==
  ASSUME case \in Cases,
         \/ phase' = "writeError" /\ (~case.valid \/ (OutOfRange /\ ~case.extensible))
         \/ phase' = "panic" /\ ~Reversible
  PROVE  ReadingInvOf(phase', stream', written', at', got')
  <1>1. phase' = "writeError" => Reversible
    BY DEF Reversible
  <1>2. VerdictOf(phase', stream', at', got')
    BY <1>1 DEF VerdictOf
  <1>3. ShapeOf(phase', stream', written') /\ RunsOf(phase', stream', at', got')
    BY DEF ShapeOf, RunsOf, Writing
  <1> QED
    BY <1>2, <1>3 DEF ReadingInvOf

-----------------------------------------------------------------------------
(* Writing *)

\* The first step of a writer begins the stream.
LEMMA FirstBegins ==
  ASSUME case \in Cases, Accepted
  PROVE  /\ Begins(FirstStream(Sent))
         /\ Len(FirstStream(Sent)) = After
  <1> DEFINE f == ExtensionFlag
             t == FirstStream(Sent)
             m == Sent
  <1>1. /\ f \in Seq(Item) /\ Len(f) = AfterFlag
        /\ case.extensible => 1 <= Len(f) /\ f[1] = Flag(OutOfRange)
    BY FlagWritten, EmptySeq DEF ExtensionFlag, AfterFlag
  <1>2. m \in Nat /\ AfterFlag \in {0, 1}
    BY SentIs, PrefixIs
  <1>3. Run(0, m) \in Item
    BY <1>2 DEF Run, Item
  <1>4. t = f \o FirstDeterminant \o Units(0, m)
    BY DEF FirstStream
  <1> HIDE DEF f, t, m
  <1>5. CASE FirstDeterminant = <<>>
    <2>1. Prefix = AfterFlag
      BY <1>5, PrefixIs
    <2>2. t = f \o Units(0, m)
      BY <1>1, <1>4, <1>5, ConcatEmptySeq
    <2>3. CASE m = 0
      <3>1. t = f
        BY <1>1, <2>2, <2>3, ConcatEmptySeq DEF Units
      <3> QED
        BY <1>1, <1>2, <1>5, <2>1, <2>3, <3>1 DEF Begins, After, m, t
    <2>4. CASE m # 0
      <3>1. t = Append(f, Run(0, m))
        BY <1>1, <1>3, <2>2, <2>4, AppendIsConcat DEF Units
      <3>2. /\ Len(t) = Len(f) + 1 /\ \A i \in 1 .. Len(f) : t[i] = f[i]
            /\ t[Len(f) + 1] = Run(0, m)
        BY <1>1, <1>3, <3>1, AppendedItems
      <3>3. case.extensible => 1 <= Len(t) /\ t[1] = Flag(OutOfRange)
        BY <1>1, <1>2, <3>2
      <3>4. Prefix < Len(t) /\ t[Prefix + 1] = Run(0, m) /\ Len(t) = Prefix + 1
        BY <1>1, <1>2, <2>1, <3>2
      <3> QED
        BY <1>2, <1>5, <2>1, <2>4, <3>3, <3>4 DEF Begins, After, m, t
    <2> QED
      BY <2>3, <2>4
  <1>6. CASE FirstDeterminant # <<>>
    <2> DEFINE x == FirstDeterminant[1]
    <2>1. Prefix = AfterFlag + 1 /\ FirstDeterminant = << x >>
      BY <1>6, PrefixIs
    <2>2. x \in Item
      <3>1. ~Underflows(FirstDeterminant)
        BY DEF Accepted
      <3>2. PICK y : FirstDeterminant = << y >> /\ Limited(y)
        BY <1>6, <3>1, FirstDeterminantIsLegal
      <3> QED
        BY <2>1, <3>2 DEF Limited
    <2> HIDE DEF x
    <2>3. t = WithPiece(f, x, 0, m)
      BY <1>4, <2>1 DEF WithPiece
    <2>4. PieceShape(t, f, x, 0, m)
      BY <1>1, <1>2, <2>2, <2>3, PieceItems
    <2>5. /\ Len(t) = (IF m = 0 THEN Prefix ELSE Prefix + 1)
          /\ \A i \in 1 .. Len(f) : t[i] = f[i]
          /\ t[Prefix] = x
          /\ m # 0 => t[Prefix + 1] = Run(0, m)
      BY <1>1, <1>2, <2>1, <2>4 DEF PieceShape
    <2>6. case.extensible => 1 <= Len(t) /\ t[1] = Flag(OutOfRange)
      BY <1>1, <1>2, <2>1, <2>5
    <2> QED
      BY <1>2, <1>6, <2>1, <2>5, <2>6 DEF Begins, After, m, t, x
  <1> QED
    BY <1>5, <1>6

\* A further piece leaves the beginning.
LEMMA BeginsKept ==
  ASSUME case \in Cases, NEW s \in Seq(Item), NEW t, Begins(s),
         NEW x, NEW w, NEW n, PieceShape(t, s, x, w, n)
  PROVE  Begins(t) /\ Len(t) > Len(s) /\ Len(s) >= After
  <1>1. /\ Len(s) \in Nat /\ Len(t) \in Nat /\ Len(t) > Len(s)
        /\ \A i \in 1 .. Len(s) : t[i] = s[i]
    BY DEF PieceShape
  <1>2. /\ Prefix \in Nat /\ (FirstDeterminant # <<>> => Prefix # 0)
    BY PrefixIs
  <1>3. case.extensible => 1 <= Len(t) /\ t[1] = Flag(OutOfRange)
    BY <1>1 DEF Begins
  <1>4. Prefix <= Len(s) /\ Prefix <= Len(t)
    BY <1>1, <1>2 DEF Begins
  <1>5. FirstDeterminant # <<>> => t[Prefix] = FirstDeterminant[1]
    BY <1>1, <1>2, <1>4 DEF Begins
  <1>6. Sent # 0 => Prefix < Len(s) /\ Prefix < Len(t) /\ t[Prefix + 1] = Run(0, Sent)
    BY <1>1, <1>2 DEF Begins
  <1> QED
    BY <1>1, <1>2, <1>3, <1>4, <1>5, <1>6 DEF Begins, After

\* Before anything is read, ShapeOf is what matters.
LEMMA WritingIsRight ==
  ASSUME ShapeOf(phase', stream', written'), phase' \in Writing \cup {"read"}, got' = << >>
  PROVE  ReadingInvOf(phase', stream', written', at', got')
  BY DEF ReadingInvOf, RunsOf, VerdictOf, Writing, Ended

\* A value that is written in one piece.
LEMMA WholeIsRight ==
  ASSUME case \in Cases, Accepted, ~Loops, ~Empty,
         stream' = FirstStream(Sent), phase' = "read", got' = << >>
  PROVE  ReadingInvOf(phase', stream', written', at', got')
  <1>1. Begins(stream') /\ Len(stream') = After
    BY FirstBegins
  <1>2. ShapeOf(phase', stream', written')
    BY <1>1 DEF ShapeOf, Writing
  <1> QED
    BY <1>2, WritingIsRight

\* The first piece of an octet string with a loop.
LEMMA FirstFragmentIsRight ==
  ASSUME case \in Cases, Accepted, Loops, Octets, ~Empty,
         stream' = FirstStream(First), written' = First, phase' = "writeOctets", got' = << >>
  PROVE  ReadingInvOf(phase', stream', written', at', got')
  <1> DEFINE x == UnboundedItem(case.len)
             f == ExtensionFlag
  <1>1. case.len \in Nat /\ Unbounded /\ First = Sent
    BY CaseBounds, ReversibleLoops, SentIs
  <1>2. Begins(stream')
    BY <1>1, FirstBegins
  <1>3. FirstDeterminant = << x >>
    BY <1>1, UnmeasuredDeterminant
  <1>4. x \in Item /\ x.type \in {"length", "multiple"} /\ Count(x) = First
    BY <1>1, <1>3, CountIs DEF First
  <1>5. First \in Nat
    BY SentIs
  <1> HIDE DEF x
  <1>6. stream' = WithPiece(f, x, 0, Count(x))
    BY <1>3, <1>4 DEF FirstStream, WithPiece
  <1>7. f \in Seq(Item) /\ \A i \in 1 .. Len(f) : f[i].type = "extension"
    BY FlagWritten DEF ExtensionFlag, Flag
  <1> HIDE DEF f
  <1>8. Pieced(f)
    BY <1>7 DEF Pieced, Announces, MultipleAt, LengthAt, UnitsAt
  <1>9. Falls(f, 0)
    BY <1>1, <1>7 DEF Falls, Huge, MultipleAt, UnitsAt
  <1>10. Pieced(stream')
    BY <1>4, <1>5, <1>6, <1>7, <1>8, PieceAppended
  <1>11. Falls(stream', First)
    <2>1. 0 <= case.len /\ case.len - 0 = case.len /\ 0 + Count(x) = First
      BY <1>1, <1>4, <1>5
    <2> QED
      BY <1>6, <1>7, <1>9, <2>1, FallsOn DEF x
  <1>12. ShapeOf(phase', stream', written')
    BY <1>2, <1>10, <1>11 DEF ShapeOf, Writing
  <1> QED
    BY <1>12, WritingIsRight DEF Writing

\* The next one.
LEMMA NextFragmentIsRight ==
  ASSUME case \in Cases, ReadingInv, phase = "writeOctets", Octets, stream \in Seq(Item),
         written \in Nat, written <= case.len, got' = got,
         NEW x, x = UnboundedItem(case.len - written),
         stream' = WithPiece(stream, x, written, Count(x)),
         \/ /\ Count(x) < MIN_FRAGMENT_SIZE /\ phase' = "read" /\ written' = written
         \/ written' = written + Count(x) /\ phase' = "writeOctets"
  PROVE  ReadingInvOf(phase', stream', written', at', got')
  <1>1. /\ Accepted /\ Loops /\ Pieced(stream) /\ Falls(stream, written) /\ got = << >>
        /\ ~Empty => Begins(stream)
    BY DEF ReadingInv, ReadingInvOf, ShapeOf, RunsOf, Writing
  <1>2. ~Empty
    BY <1>1, EmptyIs
  <1>3. case.len - written \in Nat
    BY CaseBounds
  <1>4. x \in Item /\ x.type \in {"length", "multiple"} /\ Count(x) \in Nat
    <2> DEFINE n == case.len - written
    <2>1. n \in Nat /\ x = UnboundedItem(n)
      BY <1>3
    <2> HIDE DEF n
    <2>2. /\ Count(UnboundedItem(n)) = Announced(<<UnboundedItem(n)>>, n)
          /\ UnboundedItem(n) \in Item
          /\ UnboundedItem(n).type \in {"length", "multiple"}
      BY <2>1, CountIs
    <2>3. Announced(<<UnboundedItem(n)>>, n) \in 0 .. n
      BY <2>1, UnboundedItemAnnounces
    <2> QED
      BY <2>1, <2>2, <2>3
  <1>5. PieceShape(stream', stream, x, written, Count(x))
    BY <1>4, PieceItems
  <1>6. Begins(stream') /\ Len(stream') > Len(stream) /\ Len(stream) >= After
    BY <1>1, <1>2, <1>5, BeginsKept
  <1>7. Pieced(stream') /\ (Count(x) < LENGTH_16K => Closed(stream'))
    BY <1>1, <1>4, PieceAppended
  <1>8. /\ Falls(stream', written + Count(x))
        /\ Count(x) < LENGTH_16K => Falls(stream', written)
    BY <1>1, FallsOn
  <1>9. Len(stream') > After
    <2>1. Len(stream) \in Nat /\ Len(stream') \in Nat /\ After \in Nat
      BY <1>5, PrefixIs DEF PieceShape, After
    <2> QED
      BY <1>6, <2>1
  <1>10. ShapeOf(phase', stream', written')
    BY <1>1, <1>2, <1>6, <1>7, <1>8, <1>9 DEF ShapeOf, Writing
  <1> QED
    BY <1>1, <1>10, WritingIsRight DEF Writing

\* The first piece of a bit string with a loop, and the next ones.
LEMMA FirstBitsAreRight ==
  ASSUME case \in Cases, Accepted, Loops, case.kind = "bits",
         stream' = FirstStream(Sent), phase' = "writeBits", got' = << >>
  PROVE  ReadingInvOf(phase', stream', written', at', got')
  <1>1. Begins(stream') /\ ~Octets
    BY FirstBegins DEF Octets
  <1>2. ShapeOf(phase', stream', written')
    BY <1>1 DEF ShapeOf, Writing
  <1> QED
    BY <1>2, WritingIsRight DEF Writing

\* A turn of the write loop of a bit string.
LEMMA NextBitsAreRight ==
  ASSUME case \in Cases, ReadingInv, phase = "writeBits", case.kind = "bits", stream \in Seq(Item),
         written \in Nat, NEW n \in Nat, got' = got,
         stream' = NextStream(stream, n, written, n), phase' \in {"read", "writeBits"}
  PROVE  ReadingInvOf(phase', stream', written', at', got')
  <1> DEFINE x == UnboundedItem(n)
  <1>1. /\ Accepted /\ Loops /\ got = << >>
        /\ ~Empty => Begins(stream)
    BY DEF ReadingInv, ReadingInvOf, ShapeOf, RunsOf, Writing
  <1>2. ~Empty /\ ~Octets
    BY DEF Empty, Octets
  <1>3. Determinant(NoBound, NoBound, n) = << x >> /\ x \in Item
    <2>1. Determinant(NoBound, NoBound, n) = << x >> /\ Limited(x)
      BY UnboundedItemIsLegal
    <2> QED
      BY <2>1 DEF Limited
  <1> HIDE DEF x
  <1>4. stream' = WithPiece(stream, x, written, n)
    BY <1>3 DEF NextStream, WithPiece
  <1>5. PieceShape(stream', stream, x, written, n)
    BY <1>3, <1>4, PieceItems
  <1>6. Begins(stream')
    BY <1>1, <1>2, <1>5, BeginsKept
  <1>7. ShapeOf(phase', stream', written')
    BY <1>1, <1>2, <1>6 DEF ShapeOf, Writing
  <1> QED
    BY <1>1, <1>7, WritingIsRight DEF Writing

-----------------------------------------------------------------------------
(* Reading *)

\* What is known of a value that is about to be read.
LEMMA ReaderIsReady ==
  ASSUME case \in Cases, ReadingInv, phase = "read", stream \in Seq(Item)
  PROVE  /\ Accepted /\ got = << >> /\ case.len \in Nat
         /\ Extended <=> OutOfRange
         /\ ~Empty => Begins(stream)
         /\ Empty => stream = ExtensionFlag /\ ~Loops /\ case.len = 0
         /\ ~Loops /\ ~Empty => Len(stream) = After /\ Sent = case.len
         /\ Loops /\ Octets => Pieced(stream) /\ Falls(stream, written) /\ Closed(stream)
         /\ Loops /\ Octets => Len(stream) > After /\ Sent = First
         /\ Loops /\ case.kind = "bits" => Sent = MAX_FRAGMENTS_SIZE
  <1>1. /\ Accepted /\ got = << >>
        /\ ~Empty => Begins(stream)
        /\ Empty => stream = ExtensionFlag
        /\ ~Loops /\ ~Empty => Len(stream) = After
        /\ Loops /\ Octets => Pieced(stream) /\ Falls(stream, written) /\ Closed(stream)
        /\ Loops /\ Octets => Len(stream) > After
    BY DEF ReadingInv, ReadingInvOf, ShapeOf, RunsOf, Writing
  <1>2. /\ ~Loops => Sent = case.len
        /\ Loops /\ Octets => Sent = First
        /\ Loops /\ case.kind = "bits" => Sent = MAX_FRAGMENTS_SIZE
    BY SentIs
  <1>3. case.extensible => stream[1] = Flag(OutOfRange)
    BY <1>1 DEF Begins, ExtensionFlag
  <1>4. Extended <=> OutOfRange
    BY <1>1, <1>3, FlagIsRead DEF Accepted
  <1>5. Empty => ~Loops /\ case.len = 0
    BY EmptyIs
  <1> QED
    BY <1>1, <1>2, <1>4, <1>5, CaseBounds

\* A reader that is done, and one that is out of step.
LEMMA DoneIsRight ==
  ASSUME stream' = stream, phase' = "done",
         Reversible <=> Total(got') = case.len /\ at' = Len(stream)
  PROVE  ReadingInvOf(phase', stream', written', at', got')
  BY DEF ReadingInvOf, ShapeOf, RunsOf, VerdictOf, Writing

\* A reader that is out of step, or panics, has lost something.
LEMMA WrongIsLost ==
  ASSUME ~Reversible, phase' \in {"outOfStep", "panic"}
  PROVE  ReadingInvOf(phase', stream', written', at', got')
  BY DEF ReadingInvOf, ShapeOf, RunsOf, VerdictOf, Writing

\* A reader that looks for further fragments.
LEMMA GoingOnIsRight ==
  ASSUME ReadingInv, phase \in {"read", "readFragments"}, stream' = stream, written' = written,
         phase' = "readFragments", OnItsWay(stream, at', got') \/ Lost(stream, at', got')
  PROVE  ReadingInvOf(phase', stream', written', at', got')
  BY DEF ReadingInv, ReadingInvOf, ShapeOf, RunsOf, VerdictOf, Writing, Ended

\* A SIZE(0) is read without a determinant.
LEMMA ReadEmptyIsRight ==
  ASSUME case \in Cases, ReadingInv, stream \in Seq(Item), ReadEmpty
  PROVE  ReadingInvOf(phase', stream', written', at', got')
  <1>1. /\ phase = "read" /\ case.kind = "octets" /\ Upper = 0 /\ ~Extended
        /\ at' = AfterFlag /\ phase' = "done" /\ stream' = stream /\ got' = got
    BY DEF ReadEmpty
  <1>2. Accepted /\ got = << >> /\ (Extended <=> OutOfRange)
    BY <1>1, ReaderIsReady
  <1>3. Empty
    BY <1>1, <1>2 DEF Empty
  <1>4. stream = ExtensionFlag /\ ~Loops /\ case.len = 0
    BY <1>1, <1>3, ReaderIsReady
  <1>5. Len(stream) = AfterFlag
    BY <1>4, EmptySeq DEF ExtensionFlag, AfterFlag
  <1>6. Total(got') = 0
    BY <1>1, <1>2, TotalOfOne
  <1>7. Reversible
    BY <1>1, <1>2, <1>4, ReversibleIs
  <1> QED
    BY <1>1, <1>4, <1>5, <1>6, <1>7, DoneIsRight

\* Octet and bit strings without a loop: all of it is read at once, and then
\* from 16K on a determinant is looked for that is not there.
LEMMA ReadPlainIsRight ==
  ASSUME case \in Cases, ReadingInv, stream \in Seq(Item), ReadFirst, ~Loops, ~Empty
  PROVE  ReadingInvOf(phase', stream', written', at', got')
  <1>1. phase = "read" /\ case.kind \in {"octets", "bits"} /\ stream' = stream /\ written' = written
    BY DEF ReadFirst
  <1>2. /\ Accepted /\ got = << >> /\ case.len \in Nat /\ Begins(stream)
        /\ Extended <=> OutOfRange
        /\ Len(stream) = After /\ Sent = case.len
    BY <1>1, ReaderIsReady
  <1>3. /\ FirstPiece.n = First /\ First \in Nat
        /\ First # 0 /\ Sent # First => FirstPiece.end = -1
        /\ Sent = First => FirstPiece.end = After
        /\ First = 0 => FirstPiece.end = Prefix
        /\ Prefix \in Nat
    BY <1>2, FirstPieceEnds
  <1>4. Reversible <=> (~OutOfRange /\ FixedBelow64K) \/ case.len < LENGTH_16K
    BY <1>1, <1>2, ReversibleStrings
  <1>5. CASE First = case.len
    <2>1. FirstPiece.end = After /\ After \in Nat
      BY <1>2, <1>3, <1>5 DEF After
    <2>2. /\ at' = Len(stream) /\ got' = << case.len >>
          /\ phase' = IF case.len >= LENGTH_16K /\ (Extended \/ ~FixedBelow64K)
                      THEN "readFragments" ELSE "done"
      BY <1>2, <1>3, <1>5, <2>1 DEF ReadFirst
    <2>3. Total(got') = case.len
      BY <1>2, <2>2, TotalOfOne
    <2>4. CASE case.len >= LENGTH_16K /\ (Extended \/ ~FixedBelow64K)
      <3>1. ~Reversible /\ phase' = "readFragments"
        BY <1>2, <1>4, <2>2, <2>4
      <3>2. Lost(stream, at', got')
        BY <2>2, <3>1 DEF Lost
      <3> QED
        BY <1>1, <3>1, <3>2, GoingOnIsRight
    <2>5. CASE ~(case.len >= LENGTH_16K /\ (Extended \/ ~FixedBelow64K))
      <3>1. Reversible /\ phase' = "done"
        BY <1>2, <1>4, <2>2, <2>5
      <3> QED
        BY <1>1, <2>2, <2>3, <3>1, DoneIsRight
    <2> QED
      BY <2>4, <2>5
  <1>6. CASE First # case.len
    <2>1. ~Reversible /\ case.len >= LENGTH_16K
      <3>1. IsFragment(FirstDeterminant)
        BY <1>6, FirstIs
      <3>2. Unbounded /\ case.len >= LENGTH_16K
        BY <3>1, FirstIs
      <3>3. ~(~OutOfRange /\ FixedBelow64K)
        BY <3>2 DEF Unbounded, FixedBelow64K
      <3> QED
        BY <1>2, <1>4, <3>2, <3>3
    <2>2. CASE First = 0
      <3>1. FirstPiece.end # -1
        BY <1>3, <2>2
      <3>2. got' = << 0 >> /\ phase' = "done"
        BY <1>3, <2>2, <3>1 DEF ReadFirst
      <3>3. Total(got') = 0
        BY <3>2, TotalOfOne
      <3> QED
        BY <1>1, <1>2, <2>1, <3>2, <3>3, DoneIsRight
    <2>3. CASE First # 0
      <3>1. phase' = "outOfStep"
        BY <1>2, <1>3, <1>6, <2>3 DEF ReadFirst
      <3> QED
        BY <2>1, <3>1, WrongIsLost
    <2> QED
      BY <2>2, <2>3
  <1> QED
    BY <1>5, <1>6

\* Bit strings with a loop: the first fragment is never the whole value.
LEMMA ReadBitsIsRight ==
  ASSUME case \in Cases, ReadingInv, stream \in Seq(Item), ReadFirst, Loops, case.kind = "bits"
  PROVE  ReadingInvOf(phase', stream', written', at', got')
  <1>1. /\ phase = "read" /\ stream' = stream /\ written' = written
        /\ case.len > MAX_FRAGMENTS_SIZE /\ ~Empty
    BY DEF ReadFirst, Loops, Octets, Empty
  <1>2. /\ Accepted /\ case.len \in Nat /\ Begins(stream) /\ Sent = MAX_FRAGMENTS_SIZE
        /\ ~Reversible
    BY <1>1, ReaderIsReady, ReversibleLoops
  <1>3. /\ FirstPiece.n = First /\ First \in Nat
        /\ First # 0 /\ Sent # First => FirstPiece.end = -1
    BY <1>2, FirstPieceEnds
  <1>4. CASE FirstPiece.end = -1
    <2>1. phase' = "outOfStep"
      BY <1>4 DEF ReadFirst
    <2> QED
      BY <1>2, <2>1, WrongIsLost
  <1>5. CASE FirstPiece.end # -1
    <2>1. got' = << First >> /\ First # case.len /\ phase' \in {"readFragments", "done"}
      BY <1>1, <1>2, <1>3, <1>5 DEF ReadFirst
    <2>2. Total(got') # case.len
      BY <1>3, <2>1, TotalOfOne
    <2>3. Lost(stream, at', got')
      BY <1>2, <2>2 DEF Lost
    <2> QED
      BY <1>1, <1>2, <2>1, <2>2, <2>3, DoneIsRight, GoingOnIsRight
  <1> QED
    BY <1>4, <1>5

\* Octet strings with a loop: on to the next determinant, if there was a block.
LEMMA ReadFragmentsBegin ==
  ASSUME case \in Cases, ReadingInv, stream \in Seq(Item), ReadFirst, Loops, case.kind = "octets"
  PROVE  ReadingInvOf(phase', stream', written', at', got')
  <1>1. phase = "read" /\ stream' = stream /\ written' = written /\ Octets
    BY DEF ReadFirst, Octets
  <1>2. ~Empty
    BY EmptyIs
  <1>3. /\ Accepted /\ case.len \in Nat /\ Begins(stream) /\ Sent = First /\ Len(stream) > After
        /\ Pieced(stream) /\ (Extended <=> OutOfRange)
    BY <1>1, <1>2, ReaderIsReady
  <1>4. /\ Reversible <=> case.len < U8 * LENGTH_16K
        /\ Unbounded /\ case.len >= LENGTH_16K
        /\ ~(~OutOfRange /\ FixedBelow64K)
    BY <1>1, <1>3, ReversibleLoops
  <1>5. FirstPiece.n = First /\ First \in Nat /\ FirstPiece.end = After /\ Prefix \in Nat
    BY <1>3, FirstPieceEnds
  <1>6. After \in Nat
    BY <1>5 DEF After
  <1>7. /\ at' = After /\ got' = << First >>
        /\ phase' = IF First >= LENGTH_16K THEN "readFragments" ELSE "done"
    BY <1>3, <1>4, <1>5, <1>6 DEF ReadFirst
  <1>8. Total(got') = First
    BY <1>5, <1>7, TotalOfOne
  <1>9. CASE First >= LENGTH_16K
    <2>1. After = Prefix + 1 /\ Prefix < Len(stream) /\ stream[After] = Run(0, First)
      BY <1>3, <1>9 DEF Begins, After
    <2>2. Len(stream) \in Nat /\ After \in 1 .. Len(stream)
      BY <1>3, <1>5, <2>1, LenProperties
    <2>3. UnitsAt(stream, After) /\ stream[After].to = First
      BY <1>5, <2>1, <2>2 DEF UnitsAt, Run
    <2>4. Announces(stream, After + 1)
      BY <1>3, <2>2, <2>3 DEF Pieced
    <2>5. \A j \in After + 1 .. (After + 1) - 1 : ~UnitsAt(stream, j)
      BY <1>6
    <2>6. ReachedBefore(stream, After + 1, First)
      <3>1. LastUnits(stream, After, After + 1) /\ After \in 1 .. (After + 1) - 1
        BY <2>2, <2>3, <2>5 DEF LastUnits
      <3> QED
        BY <2>3, <3>1 DEF ReachedBefore
    <2>7. OnItsWay(stream, at', got')
      BY <1>3, <1>7, <1>8, <2>4, <2>6 DEF OnItsWay
    <2> QED
      BY <1>1, <1>7, <1>9, <2>7, GoingOnIsRight
  <1>10. CASE ~(First >= LENGTH_16K)
    <2>1. First # case.len
      BY <1>4, <1>5, <1>10
    <2>2. ~Reversible
      <3>1. First = Announced(<<UnboundedItem(case.len)>>, case.len)
        BY <1>4, UnmeasuredDeterminant DEF First
      <3>2. case.len < U8 * LENGTH_16K => First >= LENGTH_16K
        BY <1>3, <1>4, <3>1, UnboundedItemAnnounces
      <3> QED
        BY <1>3, <1>4, <1>10, <3>2
    <2> QED
      BY <1>1, <1>7, <1>8, <1>10, <2>1, <2>2, DoneIsRight
  <1> QED
    BY <1>9, <1>10

\* Lists and strings of characters, and open types.
LEMMA ReadWholeIsRight ==
  ASSUME case \in Cases, ReadingInv, phase = "read", stream \in Seq(Item), ReadWhole,
         case.kind \in {"elements", "characters", "open"}
  PROVE  ReadingInvOf(phase', stream', written', at', got')
  <1>1. stream' = stream /\ ~Empty
    BY DEF ReadWhole, Empty
  <1>2. /\ Accepted /\ case.len \in Nat /\ Begins(stream)
        /\ ~Loops => Len(stream) = After /\ Sent = case.len
        /\ Loops /\ Octets => Len(stream) > After /\ Sent = First
    BY <1>1, ReaderIsReady
  <1>3. /\ FirstPiece.n = First /\ First \in Nat
        /\ First # 0 /\ Sent # First => FirstPiece.end = -1
        /\ Sent = First => FirstPiece.end = After
        /\ Prefix \in Nat
    BY <1>2, FirstPieceEnds
  <1>4. Total(<< First >>) = First
    BY <1>3, TotalOfOne
  <1>5. After \in Nat
    BY <1>3 DEF After
  <1>6. CASE case.kind \in {"elements", "characters"}
    <2>1. ~Loops
      BY <1>6 DEF Loops, Octets
    <2>2. Reversible <=> First = case.len
      BY <1>2, <1>6, ReversibleWholes
    <2>3. CASE First = case.len
      <3>1. at' = Len(stream) /\ got' = << First >> /\ phase' = "done"
        BY <1>2, <1>3, <1>5, <2>1, <2>3 DEF ReadWhole
      <3> QED
        BY <1>1, <1>4, <2>2, <2>3, <3>1, DoneIsRight
    <2>4. CASE First # case.len
      <3>1. phase' = "outOfStep" \/ (phase' = "done" /\ got' = << First >>)
        BY <1>3 DEF ReadWhole
      <3>2. Total(<< First >>) # case.len /\ ~Reversible
        BY <1>4, <2>2, <2>4
      <3> QED
        BY <1>1, <3>1, <3>2, DoneIsRight, WrongIsLost
    <2> QED
      BY <2>3, <2>4
  <1>7. CASE case.kind = "open"
    <2>1. Reversible <=> ~Loops
      BY <1>2, <1>7, ReversibleWholes
    <2>2. Octets
      BY <1>7 DEF Octets
    <2>3. CASE Loops
      <3>1. at' = After /\ phase' = "done" /\ at' # Len(stream)
        BY <1>2, <1>3, <1>5, <2>2, <2>3, LenProperties DEF ReadWhole
      <3> QED
        BY <1>1, <2>1, <2>3, <3>1, DoneIsRight
    <2>4. CASE ~Loops
      <3>1. First = case.len
        BY <2>2, <2>4, FirstIs DEF Loops
      <3>2. at' = Len(stream) /\ got' = << First >> /\ phase' = "done"
        BY <1>2, <1>3, <1>5, <2>4, <3>1 DEF ReadWhole
      <3> QED
        BY <1>1, <1>4, <2>1, <2>4, <3>1, <3>2, DoneIsRight
    <2> QED
      BY <2>3, <2>4
  <1> QED
    BY <1>6, <1>7

\* A turn of the loop of a reader that cannot succeed.
LEMMA LostStaysLost ==
  ASSUME case \in Cases, TypeOK, ReadingInv, ReadFragment, Lost(stream, at, got)
  PROVE  ReadingInvOf(phase', stream', written', at', got')
  <1> DEFINE piece == Piece(at, NoBound, NoBound)
  <1>1. /\ stream \in Seq(Item) /\ Len(stream) \in Nat /\ at \in 0 .. Len(stream)
        /\ got \in Seq(Nat)
    BY LenProperties DEF TypeOK
  <1>2. piece.n \in Nat
    BY <1>1, PieceIsIn
  <1>3. ~Reversible
    BY DEF Lost
  <1>4. stream' = stream
    BY DEF ReadFragment
  <1>5. at = Len(stream) => piece.end = -1
    <2> SUFFICES ASSUME at = Len(stream) PROVE piece.end = -1
      OBVIOUS
    <2>1. ~WideBounds(NoBound, NoBound) /\ ~NextIs(at, FormOf(NoBound, NoBound))
      BY DEF WideBounds, NextIs
    <2> QED
      BY <2>1 DEF Piece
  <1> HIDE DEF piece
  <1>6. CASE piece.end = -1
    <2>1. phase' = "outOfStep"
      BY <1>6 DEF ReadFragment, piece
    <2> QED
      BY <1>3, <2>1, WrongIsLost
  <1>7. CASE piece.end # -1
    <2>1. case.kind = "bits" /\ Total(got) # case.len
      BY <1>5, <1>7 DEF Lost
    <2>2. CASE piece.n = 0
      <3>1. phase' = "done" /\ got' = Append(got, 0)
        BY <1>7, <2>1, <2>2 DEF ReadFragment, piece, BufferUnderflows
      <3>2. Total(got') = Total(got)
        BY <1>1, <3>1, TotalGrows
      <3> QED
        BY <1>3, <1>4, <2>1, <3>1, <3>2, DoneIsRight
    <2>3. CASE piece.n # 0
      <3>1. BufferUnderflows(piece.n)
        BY <1>2, <2>1, <2>3 DEF BufferUnderflows
      <3>2. phase' = "panic"
        BY <1>7, <3>1 DEF ReadFragment, piece
      <3> QED
        BY <1>3, <3>2, WrongIsLost
    <2> QED
      BY <2>2, <2>3
  <1> QED
    BY <1>6, <1>7

\* A turn of the loop that reads an octet string.
LEMMA OnItsWayArrives ==
  ASSUME IInv, ReadingInv, ReadFragment, OnItsWay(stream, at, got)
  PROVE  ReadingInvOf(phase', stream', written', at', got')
  <1> DEFINE x == stream[at + 1]
             c == Count(x)
             e == IF c = 0 THEN at + 1 ELSE at + 2
             total == Total(got)
  <1>1. /\ case \in Cases /\ stream \in Seq(Item) /\ Len(stream) \in Nat /\ at \in Nat
        /\ got \in Seq(Nat) /\ InOrder(stream) /\ LengthIsLast(stream)
        /\ written \in 0 .. case.len /\ case.len \in Nat
        /\ phase = "readFragments"
    BY LenProperties, CaseIsLegal DEF IInv, TypeOK, WriterInv, ReadFragment
  <1>2. /\ case.kind = "octets" /\ Loops /\ Octets
        /\ at < Len(stream) /\ Announces(stream, at + 1)
        /\ ReachedBefore(stream, at + 1, total)
    BY DEF OnItsWay, Octets
  <1>3. Accepted /\ Pieced(stream) /\ Closed(stream) /\ Falls(stream, written)
    BY <1>1, <1>2 DEF ReadingInv, ReadingInvOf, ShapeOf, Writing
  <1>4. total \in Nat /\ \A n \in Nat : Total(Append(got, n)) = total + n
    <2>1. ASSUME NEW n \in Nat
          PROVE  Total(got) \in Nat /\ Total(Append(got, n)) = Total(got) + n
      BY <1>1, TotalGrows
    <2> QED
      BY <2>1
  <1> HIDE DEF total
  <1>5. /\ c \in Nat /\ e <= Len(stream)
        /\ Piece(at, NoBound, NoBound) = [n |-> c, end |-> e]
        /\ ReachedBefore(stream, e + 1, total + c)
        /\ e < Len(stream) => Announces(stream, e + 1)
    BY <1>1, <1>2, <1>3, <1>4, ReachGoesOn
  <1>6. ~BufferUnderflows(c)
    BY <1>2 DEF BufferUnderflows
  <1>7. /\ at' = e /\ got' = Append(got, c) /\ stream' = stream /\ written' = written
        /\ phase' = IF c < LENGTH_16K THEN "done" ELSE "readFragments"
    BY <1>1, <1>5, <1>6 DEF ReadFragment
  <1>8. Total(got') = total + c
    BY <1>4, <1>5, <1>7
  <1>9. /\ Reversible <=> case.len < U8 * LENGTH_16K
        /\ case.len >= LENGTH_16K
    BY <1>1, <1>2, <1>3, ReversibleLoops
  <1>10. at + 1 \in 1 .. Len(stream)
    BY <1>1, <1>2
  <1> HIDE DEF e, c
  <1>11. e \in Nat /\ e >= at + 1
    BY <1>1, <1>5 DEF e
  <1>12. CASE c >= LENGTH_16K
    <2>1. (at + 1) + 2 <= Len(stream)
      BY <1>2, <1>3, <1>10, <1>12 DEF Closed, c
    <2>2. e < Len(stream)
      BY <1>1, <2>1 DEF e
    <2>3. OnItsWay(stream, at', got')
      BY <1>2, <1>5, <1>7, <1>8, <2>2 DEF OnItsWay
    <2>4. phase' = "readFragments"
      BY <1>5, <1>7, <1>12
    <2> QED
      BY <1>1, <1>7, <2>3, <2>4, GoingOnIsRight
  <1>13. CASE c < LENGTH_16K /\ ~Huge
    <2>1. case.len < U8 * LENGTH_16K
      BY <1>1, <1>13 DEF Huge
    <2>2. LengthAt(stream, at + 1)
      <3> SUFFICES ASSUME MultipleAt(stream, at + 1) PROVE FALSE
        BY <1>2 DEF Announces
      <3>1. x.n # 0 /\ x.type = "multiple"
        BY <1>3, <1>10, <1>13 DEF Falls, MultipleAt
      <3>2. x \in Item
        BY <1>1, <1>10, ElementOfSeq
      <3>3. x.n \in Nat
        BY <3>1, <3>2 DEF Item
      <3>4. c = x.n * LENGTH_16K
        BY <3>1 DEF c, Count
      <3> QED
        BY <1>13, <3>1, <3>3, <3>4
    <2>3. e = Len(stream)
      <3> SUFFICES ASSUME e < Len(stream) PROVE FALSE
        BY <1>1, <1>5, <1>11
      <3>1. Announces(stream, e + 1) /\ e + 1 \in (at + 1) + 1 .. Len(stream)
        BY <1>1, <1>5, <1>11
      <3> QED
        BY <1>1, <1>10, <2>2, <3>1 DEF LengthIsLast, Announces
    <2>4. ReachedBefore(stream, Len(stream) + 1, case.len)
      <3>1. Small /\ Written
        BY <1>1, <1>2, <1>9, <2>1 DEF Small, Written
      <3> QED
        BY <3>1 DEF IInv, WriterInv
    <2>5. Len(stream) + 1 \in Nat
      BY <1>1
    <2>6. total + c = case.len
      BY <1>1, <1>5, <2>3, <2>4, <2>5, ReachedOnce
    <2>7. phase' = "done"
      BY <1>7, <1>13
    <2> QED
      BY <1>7, <1>8, <1>9, <2>1, <2>3, <2>6, <2>7, DoneIsRight
  <1>14. CASE c < LENGTH_16K /\ Huge
    <2>1. /\ case.len >= U8 * LENGTH_16K
          /\ written <= case.len - U8 * LENGTH_16K
          /\ \A i \in 1 .. Len(stream) : UnitsAt(stream, i) => stream[i].to <= written
      BY <1>3, <1>14 DEF Falls, Huge
    <2>2. total + c <= written
      <3>1. CASE total + c = 0
        BY <1>1, <3>1
      <3>2. CASE \E i \in 1 .. (e + 1) - 1 : LastUnits(stream, i, e + 1) /\ stream[i].to = total + c
        <4>1. PICK i \in 1 .. (e + 1) - 1 : LastUnits(stream, i, e + 1) /\ stream[i].to = total + c
          BY <3>2
        <4>2. UnitsAt(stream, i) /\ i \in 1 .. Len(stream)
          BY <4>1 DEF LastUnits, UnitsAt
        <4> QED
          BY <2>1, <4>1, <4>2
      <3> QED
        BY <1>5, <3>1, <3>2 DEF ReachedBefore
    <2>3. total + c # case.len
      <3>1. total \in Nat /\ c \in Nat /\ written \in Nat /\ case.len \in Nat
        BY <1>1, <1>4, <1>5
      <3>2. case.len >= U8 * LENGTH_16K /\ written <= case.len - U8 * LENGTH_16K
        BY <2>1
      <3> QED
        BY <2>2, <3>1, <3>2
    <2>4. ~Reversible /\ phase' = "done"
      BY <1>1, <1>7, <1>9, <1>14, <2>1
    <2> QED
      BY <1>7, <1>8, <2>3, <2>4, DoneIsRight
  <1> QED
    BY <1>5, <1>12, <1>13, <1>14

-----------------------------------------------------------------------------
(* Every step *)

\* Nothing is written yet, nothing is read.
LEMMA ReadingInvStarts == Init => ReadingInv
  <1> SUFFICES ASSUME Init PROVE ReadingInv
    OBVIOUS
  <1>1. phase = "write" /\ got = << >>
    BY DEF Init
  <1> QED
    BY <1>1 DEF ReadingInv, ReadingInvOf, ShapeOf, RunsOf, VerdictOf, Writing, Ended

\* Every step of writer and reader keeps the invariant.
LEMMA ReadingInvKept == IInv /\ ReadingInv /\ [Next]_vars => ReadingInv'
  <1> SUFFICES ASSUME IInv, ReadingInv, [Next]_vars PROVE ReadingInv'
    OBVIOUS
  <1>1. /\ case \in Cases /\ stream \in Seq(Item) /\ case.len \in Nat
        /\ written \in 0 .. case.len /\ TypeOK
    BY WriterIsReady DEF IInv
  <1>2. case.kind # "characters" => case.valid
    BY <1>1, CasesAssumption
  <1>3. phase = "write" => got = << >>
    BY DEF ReadingInv, ReadingInvOf, RunsOf
  <1> DEFINE Right == ReadingInvOf(phase', stream', written', at', got')
  <1>4. Right /\ case' = case => ReadingInv'
    BY ReadingInvStep
  <1> HIDE DEF Right
  <1>5. CASE RefuseSize
    BY <1>1, <1>4, <1>5, RefusingIsRight DEF RefuseSize, Right
  <1>6. CASE RefuseCharacter
    BY <1>1, <1>4, <1>6, RefusingIsRight DEF RefuseCharacter, Right
  <1>7. CASE WritePanics
    <2>1. ~Reversible
      BY <1>1, <1>7, PanicIsLost DEF WritePanics
    <2> QED
      BY <1>1, <1>4, <1>7, <2>1, RefusingIsRight DEF WritePanics, Right
  <1>8. CASE WriteEmpty
    <2>1. /\ Empty /\ stream' = ExtensionFlag /\ phase' = "read" /\ got' = << >> /\ case' = case
      BY <1>3, <1>8 DEF WriteEmpty, Empty
    <2>2. Accepted /\ ~Loops
      BY <1>1, <2>1, EmptyIs
    <2>3. ShapeOf(phase', stream', written')
      BY <2>1, <2>2 DEF ShapeOf, Writing
    <2> QED
      BY <1>4, <2>1, <2>3, WritingIsRight DEF Right
  <1>9. CASE WriteOctets
    <2>1. /\ phase = "write" /\ Octets /\ case.kind \in {"octets", "open"}
          /\ ~Underflows(FirstDeterminant) /\ (OutOfRange => case.extensible)
          /\ OutOfRange \/ Upper # 0
          /\ stream' = FirstStream(First) /\ written' = First
          /\ phase' = IF IsFragment(FirstDeterminant) THEN "writeOctets" ELSE "read"
          /\ case' = case /\ got' = << >>
      BY <1>3, <1>9 DEF WriteOctets, Octets, FirstStream, First
    <2>2. Accepted /\ ~Empty
      BY <1>2, <2>1 DEF Accepted, Empty
    <2>3. Sent = First
      BY <2>1 DEF Sent
    <2>4. CASE Loops
      <3>1. phase' = "writeOctets"
        BY <2>1, <2>4 DEF Loops
      <3> QED
        BY <1>1, <1>4, <2>1, <2>2, <2>4, <3>1, FirstFragmentIsRight DEF Right
    <2>5. CASE ~Loops
      <3>1. phase' = "read" /\ stream' = FirstStream(Sent)
        BY <2>1, <2>3, <2>5 DEF Loops
      <3> QED
        BY <1>1, <1>4, <2>1, <2>2, <2>5, <3>1, WholeIsRight DEF Right
    <2> QED
      BY <2>4, <2>5
  <1>10. CASE WriteOctetFragment
    <2> DEFINE remaining == case.len - written
               x == UnboundedItem(remaining)
    <2>1. /\ phase = "writeOctets" /\ Octets
          /\ case' = case /\ got' = got /\ remaining \in Nat
          /\ written \in Nat /\ written <= case.len
      BY <1>1, <1>10, WriterIsReady DEF WriteOctetFragment, Octets
    <2> HIDE DEF remaining
    <2>2. Determinant(NoBound, NoBound, remaining) = << x >>
      BY <2>1, UnboundedItemIsLegal
    <2>3. Announced(<< x >>, remaining) = Count(x)
      BY <2>1, CountIs
    <2> HIDE DEF x
    <2>4. /\ stream' = stream \o Determinant(NoBound, NoBound, remaining)
                         \o Units(written, Announced(Determinant(NoBound, NoBound, remaining),
                                                     remaining))
          /\ IF Announced(Determinant(NoBound, NoBound, remaining), remaining)
                   < MIN_FRAGMENT_SIZE
             THEN phase' = "read" /\ written' = written
             ELSE /\ phase' = "writeOctets"
                  /\ written' = written + Announced(Determinant(NoBound, NoBound, remaining),
                                                    remaining)
      BY <1>10, <2>1 DEF WriteOctetFragment, remaining
    <2>5. /\ stream' = WithPiece(stream, x, written, Count(x))
          /\ \/ /\ Count(x) < MIN_FRAGMENT_SIZE /\ phase' = "read" /\ written' = written
             \/ written' = written + Count(x) /\ phase' = "writeOctets"
      BY <2>2, <2>3, <2>4 DEF WithPiece
    <2>6. x = UnboundedItem(case.len - written)
      BY DEF x, remaining
    <2> QED
      BY <1>1, <1>4, <2>1, <2>5, <2>6, NextFragmentIsRight DEF Right
  <1>11. CASE WriteBits
    <2>1. /\ case.kind = "bits" /\ ~Octets
          /\ ~Underflows(FirstDeterminant) /\ (OutOfRange => case.extensible)
          /\ stream' = FirstStream(Sent)
          /\ phase' = IF case.len > MAX_FRAGMENTS_SIZE THEN "writeBits" ELSE "read"
          /\ case' = case /\ got' = << >>
      BY <1>3, <1>11 DEF WriteBits, Octets, FirstStream, Sent
    <2>2. Accepted /\ ~Empty
      BY <1>2, <2>1 DEF Accepted, Empty
    <2>3. Loops <=> case.len > MAX_FRAGMENTS_SIZE
      BY <2>1 DEF Loops
    <2> QED
      BY <1>1, <1>4, <2>1, <2>2, <2>3, WholeIsRight, FirstBitsAreRight DEF Right
  <1>12. CASE WriteBitFragment
    <2> DEFINE rest == Smaller(case.len - written, MAX_FRAGMENTS_SIZE)
               size == rest - (rest % MIN_FRAGMENT_SIZE)
    <2>1. /\ phase = "writeBits" /\ case.kind = "bits" /\ written \in Nat
          /\ case' = case /\ got' = got /\ phase' \in {"read", "writeBits"}
          /\ stream' = NextStream(stream, size, written, size)
      BY <1>1, <1>12, WriterIsReady DEF WriteBitFragment, NextStream
    <2>2. rest \in Nat
      BY <1>1 DEF Smaller
    <2> HIDE DEF rest
    <2>3. size \in Nat
      BY <2>2
    <2> HIDE DEF size
    <2> QED
      BY <1>1, <1>4, <2>1, <2>3, NextBitsAreRight DEF Right
  <1>13. CASE WriteElements \/ WriteCharacters
    <2>1. /\ case.kind \in {"elements", "characters"} /\ case.valid
          /\ ~Underflows(FirstDeterminant) /\ (OutOfRange => case.extensible)
          /\ stream' = FirstStream(case.len) /\ phase' = "read"
          /\ case' = case /\ got' = << >>
      BY <1>2, <1>3, <1>13 DEF WriteElements, WriteCharacters, WriteWhole, FirstStream
    <2>2. Accepted /\ ~Empty /\ ~Loops
      BY <2>1 DEF Accepted, Empty, Loops, Octets
    <2>3. Sent = case.len
      BY <1>1, <2>2, SentIs
    <2>4. stream' = FirstStream(Sent)
      BY <2>1, <2>3
    <2> QED
      BY <1>1, <1>4, <2>1, <2>2, <2>4, WholeIsRight DEF Right
  <1>14. CASE ReadEmpty
    <2>1. case' = case
      BY <1>14 DEF ReadEmpty
    <2> QED
      BY <1>1, <1>4, <1>14, <2>1, ReadEmptyIsRight DEF Right
  <1>15. CASE ReadFirst
    <2>1. /\ case' = case /\ phase = "read" /\ case.kind \in {"octets", "bits"}
          /\ case.kind = "octets" => Upper # 0 \/ Extended
      BY <1>15 DEF ReadFirst
    <2>2. ~Empty
      <3> SUFFICES ASSUME Empty PROVE FALSE
        OBVIOUS
      <3>1. Extended <=> OutOfRange
        BY <1>1, <2>1, ReaderIsReady
      <3> QED
        BY <2>1, <3>1 DEF Empty
    <2>3. CASE ~Loops
      BY <1>1, <1>4, <1>15, <2>1, <2>2, <2>3, ReadPlainIsRight DEF Right
    <2>4. CASE Loops /\ case.kind = "bits"
      BY <1>1, <1>4, <1>15, <2>1, <2>4, ReadBitsIsRight DEF Right
    <2>5. CASE Loops /\ case.kind = "octets"
      BY <1>1, <1>4, <1>15, <2>1, <2>5, ReadFragmentsBegin DEF Right
    <2> QED
      BY <2>1, <2>3, <2>4, <2>5
  <1>16. CASE ReadElements \/ ReadCharacters \/ ReadOpenType
    <2>1. /\ phase = "read" /\ ReadWhole /\ case' = case
          /\ case.kind \in {"elements", "characters", "open"}
      BY <1>16 DEF ReadElements, ReadCharacters, ReadOpenType, ReadWhole
    <2> QED
      BY <1>1, <1>4, <2>1, ReadWholeIsRight DEF Right
  <1>17. CASE ReadFragment
    <2>1. case' = case /\ phase = "readFragments"
      BY <1>17 DEF ReadFragment
    <2>2. OnItsWay(stream, at, got) \/ Lost(stream, at, got)
      BY <2>1 DEF ReadingInv, ReadingInvOf, RunsOf
    <2> QED
      BY <1>1, <1>4, <1>17, <2>1, <2>2, LostStaysLost, OnItsWayArrives DEF Right
  <1>18. CASE UNCHANGED vars
    <2>1. /\ case' = case /\ phase' = phase /\ stream' = stream /\ written' = written
          /\ at' = at /\ got' = got
      BY <1>18 DEF vars
    <2>2. Right
      BY <2>1 DEF ReadingInv, Right
    <2> QED
      BY <1>4, <2>1, <2>2
  <1> QED
    BY <1>5, <1>6, <1>7, <1>8, <1>9, <1>10, <1>11, <1>12, <1>13, <1>14, <1>15, <1>16, <1>17, <1>18
       DEF Next

-----------------------------------------------------------------------------
(* Theorems *)

\* For every length and SIZE: write_octetstring and write_bitstring never count
\* more units than the value has, so no slice src[written..] of theirs is out
\* of bounds, nothing but legal items is written, and a reader is never behind
\* the last of them.
THEOREM SlicesStayInBounds == Spec => []TypeOK
  <1>1. IInv => TypeOK
    BY DEF IInv
  <1> QED
    BY <1>1, Inductive, PTL

\* For every length and SIZE: the fragments both write loops emit are a prefix
\* of the value in order, the announced multiples are at most 64K, a length
\* below 16K closes them, and an octet string below 4 MiB is written to its end.
THEOREM FragmentsStayInOrder == Spec => []FragmentsInOrder
  <1>1. IInv => FragmentsInOrder
    BY InvariantSuffices
  <1> QED
    BY <1>1, Inductive, PTL

\* For every length and SIZE, whatever the kind of value: an encoding ends with
\* the value refused, or with all of its units read and nothing left over,
\* exactly where Reversible says so. In particular lists and character strings
\* without bounds (write_extensible_bit_and_length_or_err drops the size of the
\* fragment) and open types (with_buffer reads one determinant) lose what
\* follows their first fragment, and a wide SIZE, whose lower bound is taken off
\* twice, loses the sizes below twice that bound.
THEOREM LimitsAreExact == Spec => []ReversibleWithinLimits
  <1>1. Init => ReadingInv
    BY ReadingInvStarts
  <1>2. IInv /\ ReadingInv /\ [Next]_vars => ReadingInv'
    BY ReadingInvKept
  <1>3. ReadingInv => ReversibleWithinLimits
    BY VerdictSuffices DEF ReadingInv, ReadingInvOf
  <1>4. Spec => []IInv
    BY Inductive
  <1> QED
    BY <1>1, <1>2, <1>3, <1>4, PTL DEF Spec

=============================================================================
