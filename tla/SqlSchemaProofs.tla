--------------------------- MODULE SqlSchemaProofs ---------------------------
(***************************************************************************)
(* The file that SqlSchema makes of a schema can be executed, for every    *)
(* schema and every stack.                                                 *)
(***************************************************************************)
EXTENDS SqlSchema, FiniteSetTheorems, SequenceTheorems, NaturalsInduction,
        WellFoundedInduction, TLAPS

-----------------------------------------------------------------------------
(* Induction and recursion *)

\* Induction on natural numbers about a set instead of a predicate.
LEMMA InductionBySet ==
  ASSUME NEW S, 0 \in S, \A n \in Nat : n \in S => n + 1 \in S
  PROVE  Nat \subseteq S
  <1> SUFFICES ASSUME Nat \ S # {} PROVE FALSE
    OBVIOUS
  <1>1. PICK x \in Nat \ S : \A y \in Nat \ S : << y, x >> \notin OpToRel(<, Nat)
    BY NatLessThanWellFounded, WFMin
  <1>2. x # 0 /\ x - 1 \in Nat /\ (x - 1) + 1 = x
    OBVIOUS
  <1>3. \A y \in Nat \ S : ~(y < x)
    BY <1>1 DEF OpToRel
  <1> QED
    BY <1>2, <1>3

\* A set of natural numbers that has an element has a least one.
LEMMA LeastElement ==
  ASSUME NEW set, set \subseteq Nat, set # {}
  PROVE  \E x \in set : \A y \in set : x <= y
  <1>1. PICK x \in set : \A y \in set : << y, x >> \notin OpToRel(<, Nat)
    BY NatLessThanWellFounded, WFMin
  <1>2. \A y \in set : ~(y < x)
    BY <1>1 DEF OpToRel
  <1> QED
    BY <1>2

\* The values of f are found by steps, each from the one before it.
Recurs(f, n, base, step) ==
    \A k \in 0 .. n : f[k] = IF k = 0 THEN base ELSE step[<<k, f[k - 1]>>]

\* There is a function that each step takes from the value before it.
LEMMA Recursion ==
  ASSUME NEW n \in Nat, NEW T, NEW base \in T, NEW step,
         \A k \in 1 .. n : \A t \in T : step[<< k, t >>] \in T
  PROVE  \E f \in [0 .. n -> T] : Recurs(f, n, base, step)
  <1> DEFINE Good(f, m) ==
               \A k \in 0 .. m : f[k] = IF k = 0 THEN base ELSE step[<< k, f[k - 1] >>]
             S == {m \in Nat : m <= n => \E f \in [0 .. m -> T] : Good(f, m)}
  <1>1. 0 \in S
    <2>1. [k \in 0 .. 0 |-> base] \in [0 .. 0 -> T] /\ Good([k \in 0 .. 0 |-> base], 0)
      OBVIOUS
    <2> QED
      BY <2>1
  <1>2. ASSUME NEW m \in Nat, m \in S PROVE m + 1 \in S
    <2> SUFFICES ASSUME m + 1 <= n PROVE \E f \in [0 .. m + 1 -> T] : Good(f, m + 1)
      OBVIOUS
    <2>1. PICK f \in [0 .. m -> T] : Good(f, m)
      <3> HIDE DEF Good
      <3>1. m <= n
        OBVIOUS
      <3> QED
        BY <1>2, <3>1
    <2> DEFINE g == [k \in 0 .. m + 1 |-> IF k = m + 1 THEN step[<< m + 1, f[m] >>] ELSE f[k]]
    <2>2. f[m] \in T /\ m + 1 \in 1 .. n
      BY <2>1
    <2>3. step[<< m + 1, f[m] >>] \in T
      BY <2>2
    <2>4. g \in [0 .. m + 1 -> T]
      <3>1. ASSUME NEW k \in 0 .. m + 1, k # m + 1 PROVE f[k] \in T
        BY <3>1
      <3> QED
        BY <2>3, <3>1
    <2>5. ASSUME NEW k \in 0 .. m + 1
          PROVE  g[k] = IF k = 0 THEN base ELSE step[<< k, g[k - 1] >>]
      <3>1. CASE k = m + 1
        <4>1. k - 1 \in 0 .. m + 1 /\ k - 1 # m + 1 /\ k - 1 = m /\ k # 0
          BY <3>1
        <4> QED
          BY <4>1, <3>1
      <3>2. CASE k # m + 1
        <4>1. k \in 0 .. m /\ (k # 0 => k - 1 \in 0 .. m + 1 /\ k - 1 # m + 1)
          BY <3>2
        <4>2. f[k] = IF k = 0 THEN base ELSE step[<< k, f[k - 1] >>]
          BY <2>1, <4>1
        <4> QED
          BY <4>1, <4>2, <3>2
      <3> QED
        BY <3>1, <3>2
    <2> HIDE DEF g
    <2> QED
      BY <2>4, <2>5
  <1>3. n \in S
    <2> HIDE DEF S
    <2> QED
      BY <1>1, <1>2, InductionBySet
  <1>4. PICK f \in [0 .. n -> T] : Good(f, n)
    <2> HIDE DEF Good
    <2> QED
      BY <1>3
  <1> QED
    BY <1>4 DEF Recurs

-----------------------------------------------------------------------------
(* Sequences *)

\* The concatenation of two sequences has the elements of both.
LEMMA ElementsOfConcat ==
  ASSUME NEW T, NEW s \in Seq(T), NEW t \in Seq(T)
  PROVE  s \o t \in Seq(T) /\ ToSet(s \o t) = ToSet(s) \cup ToSet(t)
  <1>1. /\ Len(s) \in Nat /\ Len(t) \in Nat /\ DOMAIN s = 1 .. Len(s) /\ DOMAIN t = 1 .. Len(t)
        /\ s \o t \in Seq(T) /\ Len(s \o t) = Len(s) + Len(t)
        /\ \A i \in 1 .. Len(s) + Len(t) :
              (s \o t)[i] = IF i <= Len(s) THEN s[i] ELSE t[i - Len(s)]
    BY LenProperties, ConcatProperties
  <1>2. DOMAIN (s \o t) = 1 .. Len(s) + Len(t)
    BY <1>1, LenProperties
  <1>3. ASSUME NEW x \in ToSet(s \o t) PROVE x \in ToSet(s) \cup ToSet(t)
    <2>1. PICK i \in 1 .. Len(s) + Len(t) : x = (s \o t)[i]
      BY <1>2 DEF ToSet
    <2>2. CASE i <= Len(s)
      <3>1. i \in DOMAIN s /\ x = s[i]
        BY <1>1, <2>1, <2>2
      <3> QED
        BY <3>1 DEF ToSet
    <2>3. CASE ~(i <= Len(s))
      <3>1. i - Len(s) \in DOMAIN t /\ x = t[i - Len(s)]
        BY <1>1, <2>1, <2>3
      <3> QED
        BY <3>1 DEF ToSet
    <2> QED
      BY <2>2, <2>3
  <1>4. ASSUME NEW i \in DOMAIN s PROVE s[i] \in ToSet(s \o t)
    <2>1. i \in 1 .. Len(s) + Len(t) /\ (s \o t)[i] = s[i]
      BY <1>1
    <2> QED
      BY <1>2, <2>1 DEF ToSet
  <1>5. ASSUME NEW i \in DOMAIN t PROVE t[i] \in ToSet(s \o t)
    <2>1. Len(s) + i \in 1 .. Len(s) + Len(t) /\ ~(Len(s) + i <= Len(s)) /\ Len(s) + i - Len(s) = i
      BY <1>1
    <2>2. (s \o t)[Len(s) + i] = t[i]
      BY <1>1, <2>1
    <2> QED
      BY <1>2, <2>1, <2>2 DEF ToSet
  <1> QED
    BY <1>1, <1>3, <1>4, <1>5 DEF ToSet

\* A sequence of two.
LEMMA TwoInARow ==
  ASSUME NEW d, NEW e
  PROVE  << d, e >> = << d >> \o << e >>
  <1> DEFINE T == {d, e}
             s == << d >>
             u == << e >>
             both == << d, e >>
  <1>1. s \in Seq(T) /\ Len(s) = 1 /\ s[1] = d /\ u \in Seq(T) /\ Len(u) = 1 /\ u[1] = e
    OBVIOUS
  <1>2. both \in Seq(T) /\ Len(both) = 2 /\ both[1] = d /\ both[2] = e
    OBVIOUS
  <1> HIDE DEF s, u, both
  <1>3. s \o u \in Seq(T) /\ Len(s \o u) = 2 /\ (s \o u)[1] = d /\ (s \o u)[2] = e
    <2>1. /\ s \o u \in Seq(T) /\ Len(s \o u) = 1 + 1
          /\ \A i \in 1 .. 1 + 1 : (s \o u)[i] = IF i <= 1 THEN s[i] ELSE u[i - 1]
      <3> HIDE DEF T
      <3>1. /\ s \o u \in Seq(T) /\ Len(s \o u) = Len(s) + Len(u)
            /\ \A i \in 1 .. Len(s) + Len(u) :
                  (s \o u)[i] = IF i <= Len(s) THEN s[i] ELSE u[i - Len(s)]
        BY <1>1, ConcatProperties
      <3>2. Len(s) = 1 /\ Len(u) = 1
        BY <1>1
      <3> QED
        BY <3>1, <3>2
    <2>2. 1 \in 1 .. 1 + 1 /\ 2 \in 1 .. 1 + 1 /\ 1 <= 1 /\ ~(2 <= 1) /\ 2 - 1 = 1 /\ 1 + 1 = 2
      OBVIOUS
    <2>3. (s \o u)[1] = s[1]
      BY <2>1, <2>2
    <2>4. (s \o u)[2] = u[1]
      BY <2>1, <2>2
    <2> QED
      BY <1>1, <2>1, <2>2, <2>3, <2>4
  <1>4. s \o u = both
    BY <1>2, <1>3, SeqEqual
  <1> QED
    BY <1>4 DEF s, u, both

\* A sequence with an element more.
LEMMA ElementsOfAppend ==
  ASSUME NEW T, NEW s \in Seq(T), NEW e \in T
  PROVE  Append(s, e) \in Seq(T) /\ ToSet(Append(s, e)) = ToSet(s) \cup {e}
  <1> DEFINE one == << e >>
  <1>1. one \in Seq(T) /\ Append(s, e) = s \o one
    BY AppendIsConcat
  <1>2. ToSet(one) = {e}
    BY DEF ToSet
  <1> HIDE DEF one
  <1> QED
    BY <1>1, <1>2, ElementsOfConcat

\* A new element can be appended where no element comes twice.
LEMMA AppendedOnce ==
  ASSUME NEW T, NEW s \in Seq(T), NEW e \in T, IsInjective(s), e \notin ToSet(s)
  PROVE  IsInjective(Append(s, e))
  <1> DEFINE n == Len(s)
             t == Append(s, e)
  <1>1. /\ n \in Nat /\ DOMAIN s = 1 .. n /\ DOMAIN t = 1 .. n + 1
        /\ (\A i \in 1 .. n : t[i] = s[i]) /\ t[n + 1] = e
    BY AppendProperties, LenProperties
  <1>2. \A i \in 1 .. n : s[i] # e
    BY <1>1 DEF ToSet
  <1>3. \A i, j \in 1 .. n : s[i] = s[j] => i = j
    BY <1>1 DEF IsInjective
  <1> SUFFICES IsInjective(t)
    OBVIOUS
  <1> HIDE DEF n, t
  <1>4. ASSUME NEW i \in 1 .. n + 1, NEW j \in 1 .. n + 1, t[i] = t[j] PROVE i = j
    <2>1. i \in 1 .. n \/ i = n + 1
      BY <1>1
    <2>2. j \in 1 .. n \/ j = n + 1
      BY <1>1
    <2> QED
      BY <1>1, <1>2, <1>3, <1>4, <2>1, <2>2
  <1> QED
    BY <1>1, <1>4 DEF IsInjective

\* Kept leaves the elements out that are not in the set.
LEMMA ElementsOfKept ==
  ASSUME NEW T, NEW s \in Seq(T), NEW set
  PROVE  /\ Kept(s, set) \in Seq(T) /\ ToSet(Kept(s, set)) = ToSet(s) \cap set
         /\ IsInjective(s) => IsInjective(Kept(s, set))
  <1> DEFINE n == Len(s)
             Kpt(f) == [k \in 0 .. n |->
                          IF k = 0 THEN << >>
                          ELSE IF s[k] \in set THEN Append(f[k - 1], s[k]) ELSE f[k - 1]]
             step == [a \in (1 .. n) \X Seq(T) |->
                        IF s[a[1]] \in set THEN Append(a[2], s[a[1]]) ELSE a[2]]
             kept == CHOOSE f : f = Kpt(f)
  <1>1. n \in Nat /\ DOMAIN s = 1 .. n /\ \A k \in 1 .. n : s[k] \in T
    BY LenProperties
  <1> HIDE DEF n
  <1>2. \A k \in 1 .. n : \A t \in Seq(T) :
           /\ << k, t >> \in (1 .. n) \X Seq(T)
           /\ step[<< k, t >>] = IF s[k] \in set THEN Append(t, s[k]) ELSE t
    OBVIOUS
  <1>3. \A k \in 1 .. n : \A t \in Seq(T) : step[<< k, t >>] \in Seq(T)
    BY <1>1, <1>2, AppendProperties
  <1> DEFINE all == Seq(T)
             base == << >>
  <1>4. base \in all
    OBVIOUS
  <1> HIDE DEF step, all, base
  <1>5. PICK f \in [0 .. n -> all] : Recurs(f, n, base, step)
    <2>1. \A k \in 1 .. n : \A t \in all : step[<< k, t >>] \in all
      BY <1>3 DEF all
    <2> QED
      BY <1>1, <1>4, <2>1, Recursion
  <1> USE DEF all, base
  <1>6. ASSUME NEW k \in 0 .. n
        PROVE  f[k] = Kpt(f)[k]
    <2>1. CASE k = 0
      BY <1>1, <1>5, <2>1 DEF Recurs
    <2>2. CASE k # 0
      <3>1. k \in 1 .. n /\ k - 1 \in 0 .. n
        BY <1>1, <2>2
      <3>2. f[k - 1] \in Seq(T) /\ f[k] = step[<< k, f[k - 1] >>]
        BY <1>1, <1>5, <2>2, <3>1 DEF Recurs
      <3> QED
        BY <1>2, <2>2, <3>1, <3>2
    <2> QED
      BY <2>1, <2>2
  <1>7. f = Kpt(f)
    <2>1. f = [k \in 0 .. n |-> f[k]]
      OBVIOUS
    <2>2. Kpt(f) = [k \in 0 .. n |-> Kpt(f)[k]]
      OBVIOUS
    <2> HIDE DEF Kpt
    <2> QED
      BY <1>6, <2>1, <2>2
  <1>8. kept = Kpt(kept)
    <2> HIDE DEF Kpt
    <2> QED
      BY <1>7
  <1>9. Kept(s, set) = kept[n]
    BY DEF Kept, n
  <1> DEFINE G == {k \in Nat : k <= n => /\ kept[k] \in Seq(T)
                                         /\ ToSet(kept[k]) = {s[i] : i \in 1 .. k} \cap set
                                         /\ IsInjective(s) => IsInjective(kept[k])}
  <1>10. 0 \in G
    <2>1. kept[0] = << >>
      <3>1. kept[0] = Kpt(kept)[0]
        BY <1>8
      <3> QED
        BY <1>1, <3>1
    <2>2. ToSet(<< >>) = {} /\ {s[i] : i \in 1 .. 0} = {} /\ IsInjective(<< >>)
      BY DEF ToSet, IsInjective
    <2> QED
      BY <1>4, <2>1, <2>2
  <1> HIDE DEF kept
  <1>11. ASSUME NEW k \in Nat, k \in G PROVE k + 1 \in G
    <2> SUFFICES ASSUME k + 1 <= n
                 PROVE  /\ kept[k + 1] \in Seq(T)
                        /\ ToSet(kept[k + 1]) = {s[i] : i \in 1 .. k + 1} \cap set
                        /\ IsInjective(s) => IsInjective(kept[k + 1])
      OBVIOUS
    <2>1. k + 1 \in 0 .. n /\ k + 1 # 0 /\ (k + 1) - 1 = k /\ k + 1 \in 1 .. n /\ k <= n
      BY <1>1
    <2>2. kept[k + 1] = IF s[k + 1] \in set THEN Append(kept[k], s[k + 1]) ELSE kept[k]
      <3>1. kept[k + 1] = Kpt(kept)[k + 1]
        BY <1>8
      <3> QED
        BY <2>1, <3>1
    <2>3. /\ kept[k] \in Seq(T) /\ ToSet(kept[k]) = {s[i] : i \in 1 .. k} \cap set
          /\ IsInjective(s) => IsInjective(kept[k])
      BY <1>11, <2>1
    <2>4. s[k + 1] \in T
      BY <1>1, <2>1
    <2>5. {s[i] : i \in 1 .. k + 1} = {s[i] : i \in 1 .. k} \cup {s[k + 1]}
      <3>1. 1 .. k + 1 = (1 .. k) \cup {k + 1}
        OBVIOUS
      <3> QED
        BY <3>1
    <2>6. CASE s[k + 1] \in set
      <3>1. IsInjective(s) => s[k + 1] \notin ToSet(kept[k])
        <4>1. IsInjective(s) => \A i \in 1 .. k : s[i] # s[k + 1]
          <5> SUFFICES ASSUME IsInjective(s), NEW i \in 1 .. k PROVE s[i] # s[k + 1]
            OBVIOUS
          <5>1. i \in DOMAIN s /\ k + 1 \in DOMAIN s /\ i # k + 1
            BY <1>1, <2>1
          <5> QED
            BY <5>1 DEF IsInjective
        <4> QED
          BY <2>3, <4>1
      <3> DEFINE t == kept[k]
      <3>2. t \in Seq(T) /\ ToSet(t) = {s[i] : i \in 1 .. k} \cap set
            /\ kept[k + 1] = Append(t, s[k + 1])
        BY <2>2, <2>3, <2>6
      <3>3. IsInjective(s) => IsInjective(t) /\ s[k + 1] \notin ToSet(t)
        BY <2>3, <3>1
      <3> HIDE DEF t, G
      <3>4. IsInjective(s) => IsInjective(Append(t, s[k + 1]))
        BY <2>4, <3>2, <3>3, AppendedOnce
      <3>5. Append(t, s[k + 1]) \in Seq(T) /\ ToSet(Append(t, s[k + 1])) = ToSet(t) \cup {s[k + 1]}
        BY <2>4, <3>2, ElementsOfAppend
      <3> QED
        BY <2>5, <2>6, <3>2, <3>4, <3>5
    <2>7. CASE s[k + 1] \notin set
      BY <2>2, <2>3, <2>5, <2>7
    <2> QED
      BY <2>6, <2>7
  <1>12. n \in G
    <2> HIDE DEF G
    <2> QED
      BY <1>1, <1>10, <1>11, InductionBySet
  <1>13. {s[i] : i \in 1 .. n} = ToSet(s)
    BY <1>1 DEF ToSet
  <1> QED
    BY <1>1, <1>9, <1>12, <1>13

\* The concatenation of sequences has the elements of each.
LEMMA ElementsOfFlattened ==
  ASSUME NEW T, NEW s \in Seq(Seq(T))
  PROVE  /\ FlattenSeq(s) \in Seq(T)
         /\ ToSet(FlattenSeq(s)) = UNION {ToSet(s[i]) : i \in DOMAIN s}
  <1> DEFINE n == Len(s)
             Flt(f) == [i \in 1 .. n |-> IF i = 1 THEN s[i] ELSE f[i - 1] \o s[i]]
             step == [a \in (1 .. n) \X Seq(T) |-> IF a[1] = 1 THEN s[1] ELSE a[2] \o s[a[1]]]
             flat == CHOOSE f : f = Flt(f)
  <1>1. n \in Nat /\ DOMAIN s = 1 .. n /\ \A i \in 1 .. n : s[i] \in Seq(T)
    BY LenProperties
  <1> HIDE DEF n
  <1>2. \A k \in 1 .. n : \A t \in Seq(T) :
           /\ << k, t >> \in (1 .. n) \X Seq(T)
           /\ step[<< k, t >>] = IF k = 1 THEN s[1] ELSE t \o s[k]
    OBVIOUS
  <1>3. \A k \in 1 .. n : \A t \in Seq(T) : step[<< k, t >>] \in Seq(T)
    BY <1>1, <1>2, ConcatProperties
  <1> DEFINE all == Seq(T)
             base == << >>
  <1>4. base \in all
    OBVIOUS
  <1> HIDE DEF step, all, base
  <1>5. PICK g \in [0 .. n -> all] : Recurs(g, n, base, step)
    <2>1. \A k \in 1 .. n : \A t \in all : step[<< k, t >>] \in all
      BY <1>3 DEF all
    <2> QED
      BY <1>1, <1>4, <2>1, Recursion
  <1> USE DEF all, base
  <1> DEFINE f == [i \in 1 .. n |-> g[i]]
  <1>6. ASSUME NEW i \in 1 .. n
        PROVE  f[i] = Flt(f)[i]
    <2>1. i \in 0 .. n /\ i # 0 /\ i - 1 \in 0 .. n /\ (i # 1 => i - 1 \in 1 .. n)
      BY <1>1
    <2>2. g[i - 1] \in Seq(T) /\ g[i] = step[<< i, g[i - 1] >>]
      BY <1>5, <2>1 DEF Recurs
    <2>3. g[i] = IF i = 1 THEN s[1] ELSE g[i - 1] \o s[i]
      BY <1>2, <2>2
    <2> QED
      BY <2>1, <2>3
  <1>7. f = Flt(f)
    <2>1. f = [k \in 1 .. n |-> f[k]]
      OBVIOUS
    <2>2. Flt(f) = [k \in 1 .. n |-> Flt(f)[k]]
      OBVIOUS
    <2> HIDE DEF Flt, f
    <2> QED
      BY <1>6, <2>1, <2>2
  <1>8. flat = Flt(flat)
    <2> HIDE DEF Flt, f
    <2> QED
      BY <1>7
  <1>9. FlattenSeq(s) = IF n = 0 THEN s ELSE flat[n]
    BY DEF FlattenSeq, n
  <1> HIDE DEF flat
  <1> DEFINE G == {k \in Nat : k \in 1 .. n => /\ flat[k] \in Seq(T)
                                               /\ ToSet(flat[k]) =
                                                      UNION {ToSet(s[i]) : i \in 1 .. k}}
  <1>10. 0 \in G
    OBVIOUS
  <1>11. ASSUME NEW k \in Nat, k \in G PROVE k + 1 \in G
    <2> SUFFICES ASSUME k + 1 \in 1 .. n
                 PROVE  /\ flat[k + 1] \in Seq(T)
                        /\ ToSet(flat[k + 1]) = UNION {ToSet(s[i]) : i \in 1 .. k + 1}
      OBVIOUS
    <2>1. flat[k + 1] = IF k + 1 = 1 THEN s[k + 1] ELSE flat[k] \o s[k + 1]
      <3>1. flat[k + 1] = Flt(flat)[k + 1]
        BY <1>8
      <3>2. (k + 1) - 1 = k
        OBVIOUS
      <3> QED
        BY <3>1, <3>2
    <2>2. s[k + 1] \in Seq(T)
      BY <1>1
    <2>3. CASE k = 0
      <3>1. 1 .. k + 1 = {1} /\ k + 1 = 1
        BY <2>3
      <3> QED
        BY <2>1, <2>2, <3>1
    <2>4. CASE k # 0
      <3>1. k \in 1 .. n /\ k + 1 # 1 /\ 1 .. k + 1 = (1 .. k) \cup {k + 1}
        BY <1>1, <2>4
      <3>2. flat[k] \in Seq(T) /\ ToSet(flat[k]) = UNION {ToSet(s[i]) : i \in 1 .. k}
        BY <1>11, <3>1
      <3>3. UNION {ToSet(s[i]) : i \in 1 .. k + 1}
              = (UNION {ToSet(s[i]) : i \in 1 .. k}) \cup ToSet(s[k + 1])
        BY <3>1
      <3>4. flat[k + 1] = flat[k] \o s[k + 1]
        BY <2>1, <3>1
      <3> DEFINE u == flat[k]
                 v == s[k + 1]
      <3>5. u \in Seq(T) /\ v \in Seq(T) /\ flat[k + 1] = u \o v
        BY <2>2, <3>2, <3>4
      <3>6. UNION {ToSet(s[i]) : i \in 1 .. k + 1} = ToSet(u) \cup ToSet(v)
        BY <3>2, <3>3
      <3> HIDE DEF u, v
      <3>7. u \o v \in Seq(T) /\ ToSet(u \o v) = ToSet(u) \cup ToSet(v)
        BY <3>5, ElementsOfConcat
      <3> QED
        BY <3>5, <3>6, <3>7
    <2> QED
      BY <2>3, <2>4
  <1>12. n \in G
    <2> HIDE DEF G
    <2> QED
      BY <1>1, <1>10, <1>11, InductionBySet
  <1>13. CASE n = 0
    <2>1. s = << >>
      BY <1>1, <1>13, EmptySeq DEF n
    <2> QED
      BY <1>1, <1>4, <1>9, <1>13, <2>1 DEF ToSet
  <1>14. CASE n # 0
    <2>1. n \in 1 .. n
      BY <1>1, <1>14
    <2> QED
      BY <1>1, <1>9, <1>12, <1>14, <2>1
  <1> QED
    BY <1>13, <1>14

-----------------------------------------------------------------------------
(* Names *)

\* What sql_definition_name is given: the words of a name, and a column's name
\* as one of them. No prover knows that a literal is a string.
Texts ==
    STRING \cup {NoRest, "A", "B", "C", "D", "E", "I", "L", "O", "P", "S", "_", "a", "b", "c", "d",
                 "d_", "el", "elete", "hilds", "i", "ilently", "ist", "l", "n", "ndex", "ntry",
                 "ny", "revent", "v", "alue"}
WideColumn == Texts \X Texts
TakenName == << "i", "d_" >>
ColumnsAsRest == {c[1] \o c[2] : c \in WideColumn}
Rests == Texts \cup ColumnsAsRest
WideName == Seq(Texts \X Rests)

\* Strings are texts.
LEMMA StringsAreTexts ==
  STRING \subseteq Texts /\ Texts \subseteq Rests /\ NoRest \in Texts
  BY Zenon DEF Texts, Rests

\* What the names of definitions are made of.
LEMMA LiteralsAreTexts ==
  {"A", "B", "C", "D", "E", "I", "L", "O", "P", "S", "_", "d", "d_", "el", "elete", "hilds", "i",
   "ilently", "ist", "l", "n", "ndex", "ntry", "ny", "revent", "v", "alue"} \subseteq Texts
  BY DEF Texts

\* A name without a lower case letter is as long as it has words.
LEMMA SizeOfInitials ==
  ASSUME NEW T, NEW name \in Seq(T), \A k \in 1 .. Len(name) : Letters(name[k][2]) = 0
  PROVE  Size(name) = Len(name)
  <1> DEFINE n == Len(name)
             Up(f) == [k \in 0 .. n |-> IF k = 0 THEN 0 ELSE f[k - 1] + 1 + Letters(name[k][2])]
             upTo == CHOOSE f : f = Up(f)
             same == [k \in 0 .. n |-> k]
  <1>1. n \in Nat /\ \A k \in 1 .. n : Letters(name[k][2]) = 0
    BY LenProperties
  <1> SUFFICES Size(name) = n
    OBVIOUS
  <1>5. Size(name) = upTo[n]
    BY DEF Size
  <1> HIDE DEF n
  <1>2. ASSUME NEW k \in 0 .. n PROVE same[k] = Up(same)[k]
    <2>1. CASE k = 0
      BY <1>1, <2>1
    <2>2. CASE k # 0
      <3>1. k \in 1 .. n /\ k - 1 \in 0 .. n /\ k = k - 1 + 1 + 0
        BY <1>1, <2>2
      <3> QED
        BY <1>1, <2>2, <3>1
    <2> QED
      BY <2>1, <2>2
  <1>3. same = Up(same)
    <2>1. same = [k \in 0 .. n |-> same[k]]
      OBVIOUS
    <2>2. Up(same) = [k \in 0 .. n |-> Up(same)[k]]
      OBVIOUS
    <2> HIDE DEF Up, same
    <2> QED
      BY <1>2, <2>1, <2>2
  <1>4. upTo = Up(upTo)
    <2> HIDE DEF Up, same
    <2> QED
      BY <1>3
  <1> HIDE DEF upTo
  <1>6. \A k \in 0 .. n : upTo[k] = Up(upTo)[k]
    BY <1>4
  <1> DEFINE G == {k \in Nat : k <= n => upTo[k] = k}
  <1>7. 0 \in G
    BY <1>1, <1>6
  <1>8. ASSUME NEW k \in Nat, k \in G PROVE k + 1 \in G
    <2> SUFFICES ASSUME k + 1 <= n PROVE upTo[k + 1] = k + 1
      OBVIOUS
    <2>1. k + 1 \in 1 .. n /\ k + 1 \in 0 .. n /\ k + 1 # 0 /\ (k + 1) - 1 = k /\ upTo[k] = k
      BY <1>1, <1>8
    <2>2. upTo[k + 1] = upTo[(k + 1) - 1] + 1 + Letters(name[k + 1][2])
      BY <1>6, <2>1
    <2>3. Letters(name[k + 1][2]) = 0
      BY <1>1, <2>1
    <2> QED
      BY <2>1, <2>2, <2>3
  <1>9. n \in G
    <2> HIDE DEF G
    <2> QED
      BY <1>1, <1>7, <1>8, InductionBySet
  <1> QED
    BY <1>1, <1>5, <1>9

\* Where a name is cut, nothing but initials is left of it.
LEMMA OnlyInitials ==
  ASSUME NEW n \in Nat, n > 63, NEW all,
         \A i \in 1 .. n : all[i] \in Texts \X Rests /\ all[i][2] = NoRest
  PROVE  SubSeq(all, 1, 63) \in WideName /\ Size(SubSeq(all, 1, 63)) = 63
  <1> DEFINE Words == Texts \X Rests
             cut == SubSeq(all, 1, 63)
  <1>1. \A i \in 1 .. 63 : i \in 1 .. n /\ all[i] \in Words /\ all[i][2] = NoRest /\ 1 + i - 1 = i
    OBVIOUS
  <1> HIDE DEF Words
  <1>2. cut \in Seq(Words) /\ Len(cut) = 63 /\ \A i \in 1 .. 63 : cut[i] = all[i]
    <2>1. 63 - 1 + 1 = 63 /\ 1 <= 63
      OBVIOUS
    <2> QED
      BY <1>1, <2>1, SubSeqProperties
  <1> HIDE DEF cut
  <1>3. ASSUME NEW i \in 1 .. 63 PROVE Letters(cut[i][2]) = 0
    <2>1. cut[i] = all[i] /\ all[i][2] = NoRest
      BY <1>1, <1>2
    <2> QED
      BY <2>1 DEF Letters
  <1>4. Size(cut) = 63
    <2>1. \A i \in 1 .. Len(cut) : Letters(cut[i][2]) = 0
      BY <1>2, <1>3
    <2> QED
      BY <1>2, <2>1, SizeOfInitials
  <1> QED
    BY <1>2, <1>4 DEF cut, Words, WideName

\* The words that sql_definition_name keeps of a name.
LEMMA CarvedBeforeIs ==
  ASSUME NEW name \in WideName, NEW k \in Nat
  PROVE  /\ CarvedBefore(name, k) \in WideName
         /\ Len(CarvedBefore(name, k)) = Len(name)
         /\ \A i \in 1 .. Len(name) : i < k => CarvedBefore(name, k)[i] = << name[i][1], NoRest >>
  <1> DEFINE n == Len(name)
             carved == CarvedBefore(name, k)
             Words == Texts \X Rests
  <1>1. n \in Nat /\ DOMAIN name = 1 .. n /\ \A i \in 1 .. n : name[i] \in Words
    BY LenProperties DEF WideName
  <1>2. carved = [i \in 1 .. n |-> IF i < k THEN << name[i][1], NoRest >> ELSE name[i]]
    BY <1>1 DEF CarvedBefore
  <1> SUFFICES /\ carved \in WideName /\ Len(carved) = n
               /\ \A i \in 1 .. n : i < k => carved[i] = << name[i][1], NoRest >>
    OBVIOUS
  <1> HIDE DEF n, carved
  <1>3. ASSUME NEW i \in 1 .. n PROVE carved[i] \in Words
    <2>1. name[i] \in Words /\ carved[i] = IF i < k THEN << name[i][1], NoRest >> ELSE name[i]
      BY <1>1, <1>2
    <2>2. name[i][1] \in Texts
      BY <2>1
    <2>3. NoRest \in Rests
      BY StringsAreTexts
    <2> QED
      BY <2>1, <2>2, <2>3
  <1>4. carved \in [1 .. n -> Words]
    BY <1>2, <1>3
  <1>5. carved \in WideName /\ Len(carved) = n
    <2> HIDE DEF Words
    <2>1. carved \in Seq(Words) /\ Len(carved) = n
      BY <1>1, <1>4
    <2> QED
      BY <2>1 DEF Words, WideName
  <1> QED
    BY <1>1, <1>2, <1>5

\* What is left of a name is a name, and nothing more is carved from it.
LEMMA CarvedOnce ==
  ASSUME NEW name \in WideName
  PROVE  Carved(name) \in WideName /\ Carved(Carved(name)) = Carved(name)
  <1> DEFINE fitting == {k \in DOMAIN name :
                           Size(CarvedBefore(name, k)) <= TYPENAME_LENGTH_LIMIT_PSQL}
             least == CHOOSE k \in fitting : \A l \in fitting : k <= l
  <1>1. DOMAIN name = 1 .. Len(name) /\ Len(name) \in Nat
    BY LenProperties DEF WideName
  <1>2. Carved(name) =
          IF Size(name) <= TYPENAME_LENGTH_LIMIT_PSQL THEN name
          ELSE IF fitting # {} THEN CarvedBefore(name, least)
          ELSE IF Len(name) <= TYPENAME_LENGTH_LIMIT_PSQL THEN CarvedBefore(name, Len(name) + 1)
          ELSE SubSeq(CarvedBefore(name, Len(name) + 1), 1, TYPENAME_LENGTH_LIMIT_PSQL)
    BY DEF Carved
  <1>3. ASSUME NEW other, Size(other) <= TYPENAME_LENGTH_LIMIT_PSQL PROVE Carved(other) = other
    BY <1>3 DEF Carved
  <1>4. CASE Size(name) <= TYPENAME_LENGTH_LIMIT_PSQL
    BY <1>2, <1>3, <1>4
  <1>5. CASE ~(Size(name) <= TYPENAME_LENGTH_LIMIT_PSQL) /\ fitting # {}
    <2>1. least \in fitting
      <3>1. fitting \subseteq Nat
        BY <1>1
      <3>2. \E k \in fitting : \A l \in fitting : k <= l
        <4> HIDE DEF fitting
        <4>1. PICK x \in fitting : \A y \in fitting : << y, x >> \notin OpToRel(<, Nat)
          BY <1>5, <3>1, NatLessThanWellFounded, WFMin
        <4>2. \A y \in fitting : ~(y < x)
          BY <3>1, <4>1 DEF OpToRel
        <4> QED
          BY <3>1, <4>2
      <3> HIDE DEF fitting
      <3> QED
        BY <3>2
    <2>2. CarvedBefore(name, least) \in WideName
      BY <1>1, <2>1, CarvedBeforeIs
    <2> QED
      BY <1>2, <1>3, <1>5, <2>1, <2>2
  <1>6. CASE ~(Size(name) <= TYPENAME_LENGTH_LIMIT_PSQL) /\ fitting = {}
    <2> DEFINE n == Len(name)
               all == CarvedBefore(name, n + 1)
               cut == IF n <= 63 THEN all ELSE SubSeq(all, 1, 63)
    <2>1. n \in Nat /\ n + 1 \in Nat /\ \A i \in 1 .. n : i < n + 1
      BY <1>1
    <2>2. /\ all \in WideName /\ Len(all) = n
          /\ \A i \in 1 .. n : all[i] = << name[i][1], NoRest >>
      BY <2>1, CarvedBeforeIs
    <2>3. Carved(name) = cut
      BY <1>2, <1>6 DEF TYPENAME_LENGTH_LIMIT_PSQL
    <2> HIDE DEF n, all
    <2>4. \A i \in 1 .. n : all[i] \in Texts \X Rests /\ all[i][2] = NoRest
      <3>1. \A i \in 1 .. n : all[i] \in Texts \X Rests
        BY <2>1, <2>2, LenProperties DEF WideName
      <3> QED
        BY <2>1, <2>2, <3>1
    <2>5. CASE n <= 63
      <3>1. \A i \in 1 .. n : Letters(all[i][2]) = 0
        BY <2>4 DEF Letters
      <3>2. Size(all) = n
        BY <2>2, <3>1, SizeOfInitials DEF WideName
      <3>3. Size(all) <= TYPENAME_LENGTH_LIMIT_PSQL
        BY <2>5, <3>2 DEF TYPENAME_LENGTH_LIMIT_PSQL
      <3> QED
        BY <1>3, <2>2, <2>3, <2>5, <3>3
    <2>6. CASE ~(n <= 63)
      <3>1. n > 63
        BY <2>1, <2>6
      <3>2. SubSeq(all, 1, 63) \in WideName /\ Size(SubSeq(all, 1, 63)) = 63
        BY <2>1, <2>4, <3>1, OnlyInitials
      <3>3. Size(SubSeq(all, 1, 63)) <= TYPENAME_LENGTH_LIMIT_PSQL
        BY <3>2 DEF TYPENAME_LENGTH_LIMIT_PSQL
      <3> QED
        BY <1>3, <2>3, <2>6, <3>2, <3>3
    <2> QED
      BY <2>5, <2>6
  <1> QED
    BY <1>4, <1>5, <1>6

-----------------------------------------------------------------------------
(* The definitions of a type *)

SqlTypes == {"array", "int4", "text", "bytea", "references", "serial"}
AnyColumn == [name : WideColumn, sql : SqlTypes, to : WideName, notNull : BOOLEAN]
AnyChild == [column : WideColumn, table : WideName]
AnyTable ==
    [kind : {"table"}, name : WideName, columns : Seq(AnyColumn), oneNotNull : Seq(WideColumn)]
AnyRest ==
    [kind : {"index"}, on : WideName, column : WideColumn, name : WideName]
        \cup [kind : {"abandon"}, on : WideName, children : Seq(AnyChild), name : WideName]
        \cup [kind : {"prevent"}, on : WideName, name : WideName]
AnyDefinition == AnyTable \cup [kind : {"enum"}, name : WideName, variants : Nat] \cup AnyRest

IsTable(d) == d.kind \in {"table", "enum"}

\* The names a table refers to, those that a definition is walked on from.
RefsOf(d) == {c.to : c \in {c \in ToSet(d.columns) : c.sql = "references"}}
Needs(d) == IF d.kind = "table" THEN RefsOf(d) ELSE IF d.kind = "enum" THEN {} ELSE {d.on}

\* What the database demands of a table, but for the names of tables.
NamesOf(columns) == {c.name : c \in ToSet(columns)}
NamedOnce(columns) ==
    \A i, j \in DOMAIN columns : columns[i].name = columns[j].name => i = j
Plain(d) ==
    /\ NamedOnce(d.columns)
    /\ ToSet(d.oneNotNull) \subseteq NamesOf(d.columns)
    /\ \A c \in ToSet(d.columns) : c.sql # "array"

\* A name that nothing more is carved from.
ShortName(name) == name \in WideName /\ Carved(name) = name
Short(d) == ShortName(d.name)

\* The walk goes on from the names that a definition needs.
LEMMA WalkedAreNeeded ==
  ASSUME NEW d \in AnyDefinition
  PROVE  WalkedNames(d) \in Seq(WideName) /\ ToSet(WalkedNames(d)) = Needs(d)
  <1>1. CASE d.kind = "table"
    <2> DEFINE set == {c \in ToSet(d.columns) : c.sql = "references"}
               refs == Kept(d.columns, set)
    <2>1. d.columns \in Seq(AnyColumn)
      BY <1>1 DEF AnyDefinition, AnyTable, AnyRest
    <2>2. refs \in Seq(AnyColumn) /\ ToSet(refs) = set
      BY <2>1, ElementsOfKept
    <2>3. WalkedNames(d) = [i \in DOMAIN refs |-> refs[i].to]
      BY <1>1 DEF WalkedNames
    <2> HIDE DEF refs
    <2>4. DOMAIN refs = 1 .. Len(refs) /\ Len(refs) \in Nat
         /\ \A i \in DOMAIN refs : refs[i] \in AnyColumn
      BY <2>2, LenProperties
    <2>5. \A i \in DOMAIN refs : refs[i].to \in WideName
      BY <2>4 DEF AnyColumn
    <2>6. WalkedNames(d) \in Seq(WideName)
      BY <2>3, <2>4, <2>5
    <2>7. ToSet(WalkedNames(d)) = {c.to : c \in ToSet(refs)}
      BY <2>3 DEF ToSet
    <2> QED
      BY <1>1, <2>2, <2>6, <2>7 DEF Needs, RefsOf
  <1>2. CASE d.kind = "enum"
    BY <1>2 DEF WalkedNames, Needs, ToSet
  <1>3. CASE d.kind # "table" /\ d.kind # "enum"
    <2>1. d.on \in WideName
      BY <1>3 DEF AnyDefinition, AnyTable, AnyRest
    <2> DEFINE on == d.on
    <2>2. WalkedNames(d) = << on >> /\ Needs(d) = {on}
      BY <1>3 DEF WalkedNames, Needs
    <2> HIDE DEF on
    <2> QED
      BY <2>1, <2>2 DEF ToSet, on
  <1> QED
    BY <1>1, <1>2, <1>3

\* The initial of a word of its own.
LEMMA CapitalsAreTexts == \A x \in DOMAIN Capital : x \in Texts /\ Capital[x] \in Texts
  <1>1. DOMAIN Capital = {"a", "b", "c", "i"}
    BY DEF Capital
  <1>2. Capital["a"] = "A" /\ Capital["b"] = "B" /\ Capital["c"] = "C" /\ Capital["i"] = "I"
    BY DEF Capital
  <1>3. {"a", "b", "c", "i", "A", "B", "C", "I"} \subseteq Texts
    BY DEF Texts
  <1> QED
    BY <1>1, <1>2, <1>3

\* What a part is made of.
LEMMA PartsAreTexts ==
  ASSUME NEW part \in AnyPart
  PROVE  /\ part.name \in WideColumn /\ part.name[1] \in DOMAIN Capital
         /\ part.of \in {"int4", "text", "bytes", "null", "ref"}
         /\ part.to \in AnyName /\ part.opt \in BOOLEAN /\ part.list \in BOOLEAN
  <1>1. /\ part.name \in PartName
        /\ part.of \in {"int4", "text", "bytes", "null", "ref"}
        /\ part.to \in AnyName /\ part.opt \in BOOLEAN /\ part.list \in BOOLEAN
    BY DEF AnyPart
  <1>2. \A x \in DOMAIN Capital : x \in Texts
    BY CapitalsAreTexts
  <1> DEFINE initials == DOMAIN Capital
  <1>3. PartName = initials \X STRING
    BY DEF PartName
  <1> HIDE DEF initials
  <1>4. part.name \in initials \X Texts
    BY <1>1, <1>3, StringsAreTexts
  <1>5. part.name[1] \in initials /\ part.name[2] \in Texts
        /\ part.name = <<part.name[1], part.name[2]>>
    BY <1>4
  <1> QED
    BY <1>1, <1>2, <1>5 DEF initials, WideColumn

\* The names of columns, and the names made of a table's.
LEMMA NamesAreWide ==
  /\ AnyName \subseteq WideName
  /\ \A table \in WideName : \A column \in WideColumn : ShortName(Index(table, column).name)
  /\ \A table \in WideName : \A children : ShortName(AbandonChildren(table, children).name)
  /\ \A table \in WideName : ShortName(PreventDelete(table).name)
  /\ \A table \in WideName : \A part \in AnyPart : ShortName(ListEntryName(table, part.name))
  /\ \A table \in WideName : ShortName(TupleEntryName(table))
  <1> DEFINE Words == Texts \X Rests
  <1>1. /\ WideColumn \subseteq Words
        /\ \A a, b \in Texts : << a, b >> \in Words
        /\ \A a \in Texts : << a, NoRest >> \in Words
    BY StringsAreTexts DEF WideColumn
  <1>2. \A c \in Texts : \A column \in WideColumn : << c, column[1] \o column[2] >> \in Words
    <2> SUFFICES ASSUME NEW c \in Texts, NEW column \in WideColumn
                 PROVE  << c, column[1] \o column[2] >> \in Words
      OBVIOUS
    <2> DEFINE joined == column[1] \o column[2]
    <2>1. joined \in ColumnsAsRest
      BY Zenon DEF ColumnsAsRest
    <2> HIDE DEF joined
    <2>2. << c, joined >> \in Words
      BY <2>1 DEF Rests
    <2> QED
      BY <2>2 DEF joined
  <1>3. WideName = Seq(Words)
    BY DEF WideName
  <1>4. AnyName \subseteq WideName
    <2>1. (STRING \X STRING) \subseteq Words
      BY <1>1, StringsAreTexts
    <2>2. \A name \in Seq(STRING \X STRING) : name \in Seq(Words)
      <3> HIDE DEF Words
      <3> QED
        BY <2>1, SeqMonotonic
    <2> QED
      BY <1>3, <2>2 DEF AnyName
  <1> HIDE DEF Words
  <1>5. Underline \in Words
    BY <1>1, LiteralsAreTexts DEF Underline
  <1>6. ASSUME NEW table \in WideName, NEW column \in WideColumn
        PROVE  ShortName(Index(table, column).name)
    <2> DEFINE i == << "I", "ndex" >>
               c == << "_", column[1] \o column[2] >>
               end == << Underline, i, c >>
    <2>1. i \in Words /\ c \in Words
      BY <1>1, <1>2, LiteralsAreTexts
    <2>2. Index(table, column).name = Carved(table \o end)
      BY DEF Index
    <2> HIDE DEF i, c
    <2>3. end \in Seq(Words)
      BY <1>5, <2>1
    <2> HIDE DEF end
    <2>4. table \o end \in WideName
      BY <1>3, <2>3, ConcatProperties
    <2> QED
      BY <2>2, <2>4, CarvedOnce DEF ShortName
  <1>7. ASSUME NEW table \in WideName, NEW children
        PROVE  ShortName(AbandonChildren(table, children).name)
    <2> DEFINE d == << "D", "el" >>
               c == << "C", "hilds" >>
               start == << d, c, Underline >>
    <2>1. d \in Words /\ c \in Words
      BY <1>1, LiteralsAreTexts
    <2>2. AbandonChildren(table, children).name = Carved(start \o table)
      BY DEF AbandonChildren
    <2> HIDE DEF d, c
    <2>3. start \in Seq(Words)
      BY <1>5, <2>1
    <2> HIDE DEF start
    <2>4. start \o table \in WideName
      BY <1>3, <2>3, ConcatProperties
    <2> QED
      BY <2>2, <2>4, CarvedOnce DEF ShortName
  <1>8. ASSUME NEW table \in WideName PROVE ShortName(PreventDelete(table).name)
    <2> DEFINE a == << "S", "ilently" >>
               b == << "P", "revent" >>
               c == << "A", "ny" >>
               d == << "D", "elete" >>
               e == << "O", "n" >>
               start == << a, b, c, d, e >>
    <2>1. a \in Words /\ b \in Words /\ c \in Words /\ d \in Words /\ e \in Words
      BY <1>1, LiteralsAreTexts
    <2>2. PreventDelete(table).name = Carved(start \o table)
      BY DEF PreventDelete
    <2> HIDE DEF a, b, c, d, e
    <2>3. start \in Seq(Words)
      BY <2>1
    <2> HIDE DEF start
    <2>4. start \o table \in WideName
      BY <1>3, <2>3, ConcatProperties
    <2> QED
      BY <2>2, <2>4, CarvedOnce DEF ShortName
  <1>9. ASSUME NEW table \in WideName, NEW part \in AnyPart
        PROVE  ShortName(ListEntryName(table, part.name))
    <2> DEFINE w == << Capital[part.name[1]], part.name[2] >>
               end == << Underline, w >>
    <2>1. w \in Words
      <3>2. \A x \in DOMAIN Capital : Capital[x] \in Texts
        BY CapitalsAreTexts
      <3>3. part.name[1] \in DOMAIN Capital /\ part.name[2] \in Texts
        BY PartsAreTexts DEF WideColumn
      <3>4. Capital[part.name[1]] \in Texts
        BY <3>2, <3>3
      <3> QED
        BY <1>1, <3>3, <3>4
    <2>2. ListEntryName(table, part.name) = Carved(table \o end)
      BY DEF ListEntryName
    <2> HIDE DEF w
    <2>3. end \in Seq(Words)
      BY <1>5, <2>1
    <2> HIDE DEF end
    <2>4. table \o end \in WideName
      BY <1>3, <2>3, ConcatProperties
    <2> QED
      BY <2>2, <2>4, CarvedOnce DEF ShortName
  <1>10. ASSUME NEW table \in WideName PROVE ShortName(TupleEntryName(table))
    <2> DEFINE a == << "L", "ist" >>
               b == << "E", "ntry" >>
               end == << a, b >>
    <2>1. a \in Words /\ b \in Words
      BY <1>1, LiteralsAreTexts
    <2>2. TupleEntryName(table) = Carved(table \o end)
      BY DEF TupleEntryName
    <2> HIDE DEF a, b
    <2>3. end \in Seq(Words)
      BY <2>1
    <2> HIDE DEF end
    <2>4. table \o end \in WideName
      BY <1>3, <2>3, ConcatProperties
    <2> QED
      BY <2>2, <2>4, CarvedOnce DEF ShortName
  <1> QED
    BY <1>4, <1>6, <1>7, <1>8, <1>9, <1>10

\* No part's column is named id, and columns are named as differently as parts.
LEMMA ColumnNamesDiffer ==
  /\ FOREIGN_KEY_DEFAULT_COLUMN \in WideColumn
  /\ \A x \in WideColumn :
        /\ ColumnName(x) \in WideColumn
        /\ ColumnName(x) # FOREIGN_KEY_DEFAULT_COLUMN
        /\ x # FOREIGN_KEY_DEFAULT_COLUMN => ColumnName(x) = x
  /\ \A x, y \in WideColumn :
        /\ x # TakenName /\ y # TakenName
        /\ ColumnName(x) = ColumnName(y)
        => x = y
  <1>1. FOREIGN_KEY_DEFAULT_COLUMN \in WideColumn /\ TakenName \in WideColumn
    BY LiteralsAreTexts DEF FOREIGN_KEY_DEFAULT_COLUMN, TakenName, WideColumn
  <1>2. FOREIGN_KEY_DEFAULT_COLUMN # TakenName
    BY DEF FOREIGN_KEY_DEFAULT_COLUMN, TakenName
  <1>3. \A x : ColumnName(x) = IF x = FOREIGN_KEY_DEFAULT_COLUMN THEN TakenName ELSE x
    BY DEF ColumnName, TakenName
  <1> QED
    BY <1>1, <1>2, <1>3

\* The column of a part.
LEMMA PartColumnIs ==
  ASSUME NEW part \in AnyPart, NEW b \in BOOLEAN
  PROVE  /\ PartColumn(part, b) \in AnyColumn
         /\ PartColumn(part, b).name = ColumnName(part.name)
         /\ PartColumn(part, b).to = part.to
         /\ PartColumn(part, b).sql = "array" <=> part.list
         /\ PartColumn(part, b).sql = "references" <=> ~part.list /\ part.of = "ref"
  <1>1. /\ part.name \in WideColumn /\ part.to \in WideName
        /\ part.of \in {"int4", "text", "bytes", "null", "ref"} /\ part.list \in BOOLEAN
    BY PartsAreTexts, NamesAreWide
  <1>2. ColumnName(part.name) \in WideColumn
    BY <1>1, ColumnNamesDiffer
  <1>3. /\ ToSql(part) \in SqlTypes
        /\ ToSql(part) = "array" <=> part.list
        /\ ToSql(part) = "references" <=> ~part.list /\ part.of = "ref"
    BY <1>1 DEF ToSql, SqlTypes
  <1> QED
    BY <1>1, <1>2, <1>3 DEF PartColumn, Column, AnyColumn

\* The parts of a type have names of their own.
WellNamed(parts) ==
    \A i \in DOMAIN parts :
        /\ parts[i].name # TakenName
        /\ \A j \in DOMAIN parts : parts[i].name = parts[j].name => i = j

\* A column for each part.
EachAsColumn(parts, notNull) == [i \in DOMAIN parts |-> PartColumn(parts[i], notNull[i])]

\* The columns of a type's parts.
LEMMA ColumnsOfParts ==
  ASSUME NEW parts \in Seq(AnyPart), WellNamed(parts), NEW notNull \in [DOMAIN parts -> BOOLEAN],
         NEW columns, columns = EachAsColumn(parts, notNull)
  PROVE  /\ columns \in Seq(AnyColumn) /\ NamedOnce(columns)
         /\ \A c \in ToSet(columns) : c.name # FOREIGN_KEY_DEFAULT_COLUMN
         /\ NamesOf(columns) = {ColumnName(p.name) : p \in ToSet(parts)}
         /\ {c.to : c \in {c \in ToSet(columns) : c.sql = "references"}}
              = {p.to : p \in {p \in ToSet(parts) : p.of = "ref" /\ ~p.list}}
         /\ (\E c \in ToSet(columns) : c.sql = "array") <=> (\E p \in ToSet(parts) : p.list)
  <1>1. /\ Len(parts) \in Nat /\ DOMAIN parts = 1 .. Len(parts)
        /\ \A i \in DOMAIN parts : parts[i] \in AnyPart /\ notNull[i] \in BOOLEAN
    BY LenProperties
  <1>2. DOMAIN columns = DOMAIN parts
    BY DEF EachAsColumn
  <1>3. ASSUME NEW i \in DOMAIN parts
        PROVE  /\ columns[i] \in AnyColumn
               /\ columns[i].name = ColumnName(parts[i].name)
               /\ columns[i].to = parts[i].to
               /\ columns[i].sql = "array" <=> parts[i].list
               /\ columns[i].sql = "references" <=> ~parts[i].list /\ parts[i].of = "ref"
               /\ parts[i].name \in WideColumn
    <2>1. columns[i] = PartColumn(parts[i], notNull[i])
      BY DEF EachAsColumn
    <2>2. parts[i] \in AnyPart /\ notNull[i] \in BOOLEAN
      BY <1>1
    <2> QED
      BY <2>1, <2>2, PartColumnIs, PartsAreTexts
  <1>4. columns \in Seq(AnyColumn)
    <2>1. columns = [i \in 1 .. Len(parts) |-> columns[i]]
      BY <1>1 DEF EachAsColumn
    <2> QED
      BY <1>1, <1>3, <2>1
  <1>5. NamedOnce(columns)
    <2> SUFFICES ASSUME NEW i \in DOMAIN parts, NEW j \in DOMAIN parts,
                        columns[i].name = columns[j].name
                 PROVE  i = j
      BY <1>2 DEF NamedOnce
    <2>1. parts[i].name = parts[j].name
      BY <1>3, ColumnNamesDiffer DEF WellNamed
    <2> QED
      BY <2>1 DEF WellNamed
  <1>6. ToSet(columns) = {columns[i] : i \in DOMAIN parts}
        /\ ToSet(parts) = {parts[i] : i \in DOMAIN parts}
    BY <1>2 DEF ToSet
  <1>7. \A c \in ToSet(columns) : c.name # FOREIGN_KEY_DEFAULT_COLUMN
    BY <1>3, <1>6, ColumnNamesDiffer
  <1>8. NamesOf(columns) = {ColumnName(p.name) : p \in ToSet(parts)}
    <2>1. NamesOf(columns) = {columns[i].name : i \in DOMAIN parts}
      BY <1>6 DEF NamesOf
    <2>2. {ColumnName(p.name) : p \in ToSet(parts)}
            = {ColumnName(parts[i].name) : i \in DOMAIN parts}
      BY <1>6
    <2>3. \A i \in DOMAIN parts : columns[i].name = ColumnName(parts[i].name)
      BY <1>3
    <2>4. {columns[i].name : i \in DOMAIN parts} = {ColumnName(parts[i].name) : i \in DOMAIN parts}
      BY <2>3
    <2> QED
      BY <2>1, <2>2, <2>4
  <1>9. {c.to : c \in {c \in ToSet(columns) : c.sql = "references"}}
          = {p.to : p \in {p \in ToSet(parts) : p.of = "ref" /\ ~p.list}}
    <2> DEFINE left == {c.to : c \in {c \in ToSet(columns) : c.sql = "references"}}
               right == {p.to : p \in {p \in ToSet(parts) : p.of = "ref" /\ ~p.list}}
    <2>1. \A x : x \in left <=>
                \E i \in DOMAIN parts : columns[i].sql = "references" /\ x = columns[i].to
      BY <1>6
    <2>2. \A x : x \in right <=> \E i \in DOMAIN parts : /\ parts[i].of = "ref" /\ ~parts[i].list
                                                     /\ x = parts[i].to
      BY <1>6
    <2> HIDE DEF left, right
    <2>3. \A x : x \in left <=> x \in right
      BY <1>3, <2>1, <2>2
    <2>4. left = right
      BY <2>3
    <2> QED
      BY <2>4 DEF left, right
  <1>10. (\E c \in ToSet(columns) : c.sql = "array") <=> (\E p \in ToSet(parts) : p.list)
    <2>1. (\E c \in ToSet(columns) : c.sql = "array") <=>
              \E i \in DOMAIN parts : columns[i].sql = "array"
      BY <1>6
    <2>2. (\E p \in ToSet(parts) : p.list) <=> \E i \in DOMAIN parts : parts[i].list
      BY <1>6
    <2>3. \A i \in DOMAIN parts : columns[i].sql = "array" <=> parts[i].list
      BY <1>3
    <2> QED
      BY <2>1, <2>2, <2>3
  <1> QED
    BY <1>4, <1>5, <1>7, <1>8, <1>9, <1>10

\* The column id before others.
LEMMA WithId ==
  ASSUME NEW columns \in Seq(AnyColumn), NamedOnce(columns),
         \A c \in ToSet(columns) : c.name # FOREIGN_KEY_DEFAULT_COLUMN
  PROVE  /\ << Id >> \o columns \in Seq(AnyColumn) /\ NamedOnce(<< Id >> \o columns)
         /\ ToSet(<< Id >> \o columns) = {Id} \cup ToSet(columns)
         /\ Id.sql = "serial" /\ Id.name = FOREIGN_KEY_DEFAULT_COLUMN
  <1> DEFINE one == << Id >>
             all == one \o columns
  <1>1. /\ Id \in AnyColumn /\ Id.sql = "serial" /\ Id.name = FOREIGN_KEY_DEFAULT_COLUMN
    <2>1. << >> \in WideName
      BY DEF WideName
    <2> QED
      BY <2>1, ColumnNamesDiffer DEF Id, Column, AnyColumn, SqlTypes
  <1>2. one \in Seq(AnyColumn) /\ Len(one) = 1 /\ one[1] = Id /\ ToSet(one) = {Id}
    BY <1>1 DEF ToSet
  <1> HIDE DEF one
  <1>3. /\ Len(columns) \in Nat /\ DOMAIN columns = 1 .. Len(columns)
        /\ all \in Seq(AnyColumn) /\ Len(all) = 1 + Len(columns)
        /\ \A i \in 1 .. 1 + Len(columns) : all[i] = IF i <= 1 THEN one[i] ELSE columns[i - 1]
    <2>1. /\ all \in Seq(AnyColumn) /\ Len(all) = Len(one) + Len(columns)
          /\ \A i \in 1 .. Len(one) + Len(columns) :
                all[i] = IF i <= Len(one) THEN one[i] ELSE columns[i - Len(one)]
      BY <1>2, ConcatProperties
    <2>2. Len(columns) \in Nat /\ DOMAIN columns = 1 .. Len(columns)
      BY LenProperties
    <2> HIDE DEF all
    <2> QED
      BY <1>2, <2>1, <2>2
  <1>4. ToSet(all) = {Id} \cup ToSet(columns)
    BY <1>2, ElementsOfConcat
  <1> HIDE DEF all
  <1>5. DOMAIN all = 1 .. 1 + Len(columns)
    BY <1>3, LenProperties
  <1>6. ASSUME NEW i \in DOMAIN all, NEW j \in DOMAIN all, all[i].name = all[j].name
        PROVE  i = j
    <2>1. \A k \in DOMAIN all : k = 1 => all[k].name = FOREIGN_KEY_DEFAULT_COLUMN
      BY <1>1, <1>2, <1>3, <1>5
    <2>2. \A k \in DOMAIN all : k # 1 => k - 1 \in DOMAIN columns /\ all[k] = columns[k - 1]
      BY <1>3, <1>5
    <2>3. \A k \in DOMAIN columns : columns[k].name # FOREIGN_KEY_DEFAULT_COLUMN
      BY DEF ToSet
    <2>4. CASE i = 1 \/ j = 1
      BY <1>6, <2>1, <2>2, <2>3, <2>4
    <2>5. CASE i # 1 /\ j # 1
      <3>1. i - 1 = j - 1
        BY <1>6, <2>2, <2>5 DEF NamedOnce
      <3> QED
        BY <1>5, <3>1, <1>3
    <2> QED
      BY <2>4, <2>5
  <1>7. NamedOnce(all)
    BY <1>6 DEF NamedOnce
  <1> QED
    BY <1>1, <1>3, <1>4, <1>7 DEF all, one

\* The types whose names a type's own table refers to.
Embedded(t) ==
    IF t.kind \in {"struct", "choice"}
    THEN {p.to : p \in {p \in ToSet(t.parts) : p.of = "ref" /\ ~p.list}} ELSE {}

Supported(t) ==
    t.kind = "choice" => \A p \in ToSet(t.parts) : ~p.list /\ p.name # FOREIGN_KEY_DEFAULT_COLUMN

WellFormed(t) ==
    t.kind # "enum" => WellNamed(t.parts) /\ (t.kind = "tuple" => Len(t.parts) = 1)

\* A type's own table.
OfType(d, t) ==
    /\ d \in AnyDefinition /\ Short(d)
    /\ IsTable(d) /\ d.name = Carved(t.name) /\ Needs(d) = Embedded(t)
    /\ d.kind = "table" => (Plain(d) <=> Supported(t))
    /\ t.kind = "choice" => d.kind = "table"

\* A table of a list's entries.
OfEntry(d, t) ==
    /\ d \in AnyTable /\ Short(d) /\ Plain(d)
    /\ Needs(d) \subseteq {Carved(t.name)} \cup Refs(t)

\* An index, a trigger or a rule of one of the tables.
OfRest(d, tables) == d \in AnyRest /\ Short(d) /\ d.on \in tables

\* What comes with a type's own table.
Company(set, t) ==
    \A d \in set :
        \/ OfEntry(d, t)
        \/ OfRest(d, {Carved(t.name)} \cup {e.name : e \in {e \in set : IsTable(e)}})

\* Two sets in a type's company.
LEMMA CompanyOfBoth ==
  ASSUME NEW t, NEW A, NEW B, Company(A, t), Company(B, t)
  PROVE  Company(A \cup B, t)
  <1> SUFFICES ASSUME NEW d \in A \cup B, ~OfEntry(d, t)
               PROVE  OfRest(d, {Carved(t.name)}
                                  \cup {e.name : e \in {e \in A \cup B : IsTable(e)}})
    BY DEF Company
  <1>1. \/ OfRest(d, {Carved(t.name)} \cup {e.name : e \in {e \in A : IsTable(e)}})
        \/ OfRest(d, {Carved(t.name)} \cup {e.name : e \in {e \in B : IsTable(e)}})
    BY DEF Company
  <1> QED
    BY <1>1 DEF OfRest

\* Any number of sets in a type's company.
LEMMA CompanyOfAll ==
  ASSUME NEW t, NEW S, \A set \in S : Company(set, t)
  PROVE  Company(UNION S, t)
  <1> SUFFICES ASSUME NEW set \in S, NEW d \in set, ~OfEntry(d, t)
               PROVE  OfRest(d, {Carved(t.name)}
                                  \cup {e.name : e \in {e \in UNION S : IsTable(e)}})
    BY DEF Company
  <1>1. OfRest(d, {Carved(t.name)} \cup {e.name : e \in {e \in set : IsTable(e)}})
    BY DEF Company
  <1> QED
    BY <1>1 DEF OfRest

\* Indexes, triggers and rules.
LEMMA RestIs ==
  ASSUME NEW table \in WideName
  PROVE  /\ \A column \in WideColumn :
                OfRest(Index(table, column), {table})
         /\ \A children \in Seq(AnyChild) : OfRest(AbandonChildren(table, children), {table})
         /\ OfRest(PreventDelete(table), {table})
  <1>1. ASSUME NEW column \in WideColumn PROVE OfRest(Index(table, column), {table})
    <2> DEFINE d == Index(table, column)
    <2>1. ShortName(d.name)
      BY NamesAreWide
    <2>2. d = [kind |-> "index", on |-> table, column |-> column, name |-> d.name]
      BY DEF Index
    <2> HIDE DEF d
    <2>3. d \in AnyRest /\ d.on = table
      BY <2>1, <2>2 DEF AnyRest, ShortName
    <2> QED
      BY <2>1, <2>3 DEF OfRest, Short, d
  <1>2. ASSUME NEW children \in Seq(AnyChild)
        PROVE  OfRest(AbandonChildren(table, children), {table})
    <2> DEFINE d == AbandonChildren(table, children)
    <2>1. ShortName(d.name)
      BY NamesAreWide
    <2>2. d = [kind |-> "abandon", on |-> table, children |-> children, name |-> d.name]
      BY DEF AbandonChildren
    <2> HIDE DEF d
    <2>3. d \in AnyRest /\ d.on = table
      BY <2>1, <2>2 DEF AnyRest, ShortName
    <2> QED
      BY <2>1, <2>3 DEF OfRest, Short, d
  <1>3. OfRest(PreventDelete(table), {table})
    <2> DEFINE d == PreventDelete(table)
    <2>1. ShortName(d.name)
      BY NamesAreWide
    <2>2. d = [kind |-> "prevent", on |-> table, name |-> d.name]
      BY DEF PreventDelete
    <2> HIDE DEF d
    <2>3. d \in AnyRest /\ d.on = table
      BY <2>1, <2>2 DEF AnyRest, ShortName
    <2> QED
      BY <2>1, <2>3 DEF OfRest, Short, d
  <1> QED
    BY <1>1, <1>2, <1>3

\* The table of a list's entries and its indexes and triggers.
LEMMA ListTableIs ==
  ASSUME NEW t, NEW entry, NEW part \in AnyPart, ShortName(Carved(t.name)), ShortName(entry),
         part.of = "ref" => part.to \in Refs(t)
  PROVE  /\ ListTable(Carved(t.name), entry, part) \in Seq(AnyDefinition)
         /\ Company(ToSet(ListTable(Carved(t.name), entry, part)), t)
  <1> DEFINE table == Carved(t.name)
             parent == TUPLE_LIST_ENTRY_PARENT_COLUMN
             value == TUPLE_LIST_ENTRY_VALUE_COLUMN
             element == [part EXCEPT !.list = FALSE]
             first == Column(parent, "references", table, TRUE)
             second == Column(value, ToSql(element), part.to, TRUE)
             columns == << first, second >>
             d == Table(entry, columns, << >>)
             i == Index(entry, parent)
             j == Index(entry, value)
             some == << d, i, j >>
             more == AbandonValue(entry, part)
  <1>1. parent \in WideColumn /\ value \in WideColumn /\ parent # value
    BY LiteralsAreTexts
       DEF TUPLE_LIST_ENTRY_PARENT_COLUMN, TUPLE_LIST_ENTRY_VALUE_COLUMN, WideColumn
  <1>2. /\ part.to \in WideName /\ part.of \in {"int4", "text", "bytes", "null", "ref"}
    BY PartsAreTexts, NamesAreWide
  <1>3. /\ ToSql(element) \in SqlTypes /\ ToSql(element) # "array"
        /\ ToSql(element) = "references" => part.of = "ref"
    <2>1. ~element.list /\ element.of = part.of
      BY DEF AnyPart
    <2> HIDE DEF element
    <2> QED
      BY <1>2, <2>1 DEF ToSql, SqlTypes
  <1> DEFINE sql == ToSql(element)
  <1> HIDE DEF parent, value, sql
  <1>4. /\ first \in AnyColumn /\ first.name = parent /\ first.sql = "references"
        /\ first.to = table
        /\ second \in AnyColumn /\ second.name = value /\ second.sql = sql /\ second.to = part.to
    <2>1. second = Column(value, sql, part.to, TRUE)
      BY DEF sql
    <2> QED
      BY <1>1, <1>2, <1>3, <2>1 DEF sql, Column, AnyColumn, ShortName, SqlTypes
  <1> HIDE DEF first, second, table
  <1>5. /\ columns \in Seq(AnyColumn) /\ ToSet(columns) = {first, second}
    BY <1>4 DEF ToSet
  <1>6. NamedOnce(columns)
    <2>1. DOMAIN columns = {1, 2} /\ columns[1] = first /\ columns[2] = second
      OBVIOUS
    <2> QED
      BY <1>1, <1>4, <2>1 DEF NamedOnce
  <1> HIDE DEF columns
  <1>7. /\ d.kind = "table" /\ d.name = entry /\ d.columns = columns /\ d.oneNotNull = << >>
        /\ d \in AnyTable
    BY <1>5 DEF Table, AnyTable, ShortName
  <1> HIDE DEF d
  <1>8. Needs(d) \subseteq {table} \cup Refs(t)
    <2>1. Needs(d) = {c.to : c \in {c \in ToSet(columns) : c.sql = "references"}}
      BY <1>7 DEF Needs, RefsOf
    <2> QED
      BY <1>3, <1>4, <1>5, <2>1 DEF sql
  <1>9. Plain(d)
    <2>1. ToSet(d.oneNotNull) = {}
      BY <1>7 DEF ToSet
    <2>2. \A c \in ToSet(columns) : c.sql # "array"
      BY <1>3, <1>4, <1>5 DEF sql
    <2> QED
      BY <1>6, <1>7, <2>1, <2>2 DEF Plain
  <1>10. OfEntry(d, t)
    BY <1>7, <1>8, <1>9 DEF OfEntry, Short, table
  <1>11. OfRest(i, {entry}) /\ OfRest(j, {entry})
    BY <1>1, RestIs DEF ShortName
  <1> HIDE DEF i, j
  <1>12. more \in Seq(AnyDefinition) /\ \A e \in ToSet(more) : OfRest(e, {entry})
    <2> DEFINE child == [column |-> value, table |-> part.to]
               children == << child >>
               e == AbandonChildren(entry, children)
    <2>1. child \in AnyChild
      BY <1>1, <1>2 DEF AnyChild
    <2> HIDE DEF child
    <2>2. children \in Seq(AnyChild)
      BY <2>1
    <2>3. OfRest(e, {entry})
      BY <2>2, RestIs DEF ShortName
    <2>4. more = IF part.of = "ref" THEN << e >> ELSE << >>
      BY DEF AbandonValue, value, child
    <2> HIDE DEF e, more
    <2>5. e \in AnyDefinition
      BY <2>3 DEF OfRest, AnyDefinition
    <2>6. CASE part.of = "ref"
      BY <2>3, <2>4, <2>5, <2>6 DEF ToSet
    <2>7. CASE part.of # "ref"
      BY <2>4, <2>7 DEF ToSet
    <2> QED
      BY <2>6, <2>7
  <1>13. some \in Seq(AnyDefinition) /\ ToSet(some) = {d, i, j}
    BY <1>7, <1>11 DEF OfRest, AnyDefinition, ToSet
  <1>14. ListTable(table, entry, part) = some \o more
    BY DEF ListTable, d, i, j, columns, first, second, parent, value
  <1> HIDE DEF some, more
  <1>15. some \o more \in Seq(AnyDefinition) /\ ToSet(some \o more) = {d, i, j} \cup ToSet(more)
    BY <1>12, <1>13, ElementsOfConcat
  <1> DEFINE set == {d, i, j} \cup ToSet(more)
  <1>16. ASSUME NEW e \in set, e # d
         PROVE  OfRest(e, {Carved(t.name)} \cup {f.name : f \in {f \in set : IsTable(f)}})
    <2>1. entry \in {f.name : f \in {f \in set : IsTable(f)}}
      BY <1>7 DEF IsTable
    <2>2. OfRest(e, {entry})
      BY <1>11, <1>12, <1>16
    <2> QED
      BY <2>1, <2>2 DEF OfRest
  <1>17. Company(set, t)
    BY <1>10, <1>16 DEF Company
  <1> QED
    BY <1>14, <1>15, <1>17 DEF table

\* The indexes of a type's columns that refer to other tables, and the trigger.
LEMMA IndexesAndAbandonIs ==
  ASSUME NEW t, ShortName(Carved(t.name)), NEW parts \in Seq(AnyPart)
  PROVE  /\ IndexesAndAbandon(Carved(t.name), parts) \in Seq(AnyDefinition)
         /\ Company(ToSet(IndexesAndAbandon(Carved(t.name), parts)), t)
  <1> DEFINE table == Carved(t.name)
             set == {part \in ToSet(parts) : part.of = "ref" /\ ~part.list}
             refs == Kept(parts, set)
             indexes == [i \in DOMAIN refs |-> Index(table, ColumnName(refs[i].name))]
             children == [i \in DOMAIN refs |->
                            [column |-> ColumnName(refs[i].name), table |-> refs[i].to]]
             e == AbandonChildren(table, children)
             more == IF refs = << >> THEN << >> ELSE << e >>
  <1>1. refs \in Seq(AnyPart)
    BY ElementsOfKept
  <1>2. IndexesAndAbandon(table, parts) = indexes \o more
    BY DEF IndexesAndAbandon
  <1>3. table \in WideName
    BY DEF ShortName
  <1> HIDE DEF refs, table
  <1>4. /\ Len(refs) \in Nat /\ DOMAIN refs = 1 .. Len(refs)
        /\ \A i \in DOMAIN refs : refs[i] \in AnyPart
    BY <1>1, LenProperties
  <1>5. \A i \in DOMAIN refs : ColumnName(refs[i].name) \in WideColumn /\ refs[i].to \in WideName
    BY <1>4, PartsAreTexts, ColumnNamesDiffer, NamesAreWide
  <1>6. \A i \in DOMAIN refs : OfRest(indexes[i], {table})
    BY <1>3, <1>5, RestIs
  <1>7. children \in Seq(AnyChild)
    <2>1. \A i \in DOMAIN refs : children[i] \in AnyChild
      BY <1>5 DEF AnyChild
    <2> QED
      BY <1>4, <2>1
  <1> HIDE DEF children
  <1>8. OfRest(e, {table})
    BY <1>3, <1>7, RestIs
  <1>9. \A d : OfRest(d, {table}) => d \in AnyDefinition
    BY DEF OfRest, AnyDefinition
  <1>10. indexes \in Seq(AnyDefinition) /\ \A d \in ToSet(indexes) : OfRest(d, {table})
    <2>1. DOMAIN indexes = DOMAIN refs
      OBVIOUS
    <2>2. \A i \in DOMAIN refs : indexes[i] \in AnyDefinition
      BY <1>6, <1>9
    <2>3. indexes \in Seq(AnyDefinition)
      BY <1>4, <2>2
    <2> QED
      BY <1>6, <2>1, <2>3 DEF ToSet
  <1> HIDE DEF indexes, e
  <1>11. more \in Seq(AnyDefinition) /\ \A d \in ToSet(more) : OfRest(d, {table})
    <2>1. CASE refs = << >>
      BY <2>1 DEF ToSet
    <2>2. CASE refs # << >>
      <3>1. more = << e >>
        BY <2>2
      <3>2. e \in AnyDefinition
        BY <1>8, <1>9
      <3> QED
        BY <1>8, <3>1, <3>2 DEF ToSet
    <2> QED
      BY <2>1, <2>2
  <1> HIDE DEF more
  <1>12. /\ indexes \o more \in Seq(AnyDefinition)
         /\ ToSet(indexes \o more) = ToSet(indexes) \cup ToSet(more)
    BY <1>10, <1>11, ElementsOfConcat
  <1>13. \A d \in ToSet(indexes \o more) : OfRest(d, {table})
    BY <1>10, <1>11, <1>12
  <1>14. Company(ToSet(indexes \o more), t)
    BY <1>13 DEF Company, OfRest, table
  <1> QED
    BY <1>2, <1>12, <1>14 DEF table

\* The names of the tables among the definitions.
TablesOf(D) == {D[j].name : j \in {j \in DOMAIN D : IsTable(D[j])}}

\* A type's own table and its company.
Made(D, t) ==
    /\ D \in Seq(AnyDefinition) /\ Len(D) >= 1 /\ OfType(D[1], t)
    /\ \A i \in DOMAIN D : i # 1 =>
          \/ OfEntry(D[i], t)
          \/ OfRest(D[i], TablesOf(D))

\* A table with what belongs to it is what a type makes.
LEMMA TableWithCompany ==
  ASSUME NEW t, NEW d, OfType(d, t), NEW more \in Seq(AnyDefinition), Company(ToSet(more), t)
  PROVE  Made(<< d >> \o more, t)
  <1> DEFINE one == << d >>
             D == one \o more
             tables == TablesOf(D)
  <1>1. one \in Seq(AnyDefinition) /\ Len(one) = 1 /\ one[1] = d
    BY DEF OfType
  <1> HIDE DEF one
  <1>2. /\ Len(more) \in Nat /\ DOMAIN more = 1 .. Len(more)
        /\ D \in Seq(AnyDefinition) /\ Len(D) = 1 + Len(more)
        /\ \A i \in 1 .. 1 + Len(more) : D[i] = IF i <= 1 THEN one[i] ELSE more[i - 1]
    <2>1. /\ D \in Seq(AnyDefinition) /\ Len(D) = Len(one) + Len(more)
          /\ \A i \in 1 .. Len(one) + Len(more) :
                D[i] = IF i <= Len(one) THEN one[i] ELSE more[i - Len(one)]
      BY <1>1, ConcatProperties
    <2>2. Len(more) \in Nat /\ DOMAIN more = 1 .. Len(more)
      BY LenProperties
    <2> HIDE DEF D
    <2> QED
      BY <1>1, <2>1, <2>2
  <1>3. DOMAIN D = 1 .. 1 + Len(more)
    <2> HIDE DEF D
    <2> QED
      BY <1>2, LenProperties
  <1> HIDE DEF D
  <1>4. 1 \in DOMAIN D /\ D[1] = d
    BY <1>1, <1>2, <1>3
  <1>5. \A i \in DOMAIN D : i # 1 => i - 1 \in DOMAIN more /\ D[i] = more[i - 1]
    BY <1>2, <1>3
  <1>6. \A i \in DOMAIN more : i + 1 \in DOMAIN D /\ D[i + 1] = more[i]
    BY <1>2, <1>3
  <1>7. Carved(t.name) \in tables
    BY <1>4 DEF OfType, TablesOf
  <1>8. {e.name : e \in {e \in ToSet(more) : IsTable(e)}} \subseteq tables
    BY <1>6 DEF ToSet, TablesOf
  <1>9. ASSUME NEW i \in DOMAIN D, i # 1 PROVE OfEntry(D[i], t) \/ OfRest(D[i], tables)
    <2>1. D[i] \in ToSet(more)
      BY <1>5, <1>9 DEF ToSet
    <2>2. OfEntry(D[i], t)
            \/ OfRest(D[i], {Carved(t.name)} \cup {e.name : e \in {e \in ToSet(more) : IsTable(e)}})
      BY <2>1 DEF Company
    <2> HIDE DEF tables
    <2> QED
      BY <1>7, <1>8, <2>2 DEF OfRest
  <1>10. Len(D) >= 1
    BY <1>2
  <1> QED
    BY <1>2, <1>4, <1>9, <1>10 DEF Made, D, one

\* What a type is made of.
LEMMA TypesAre ==
  ASSUME NEW t \in AnyType
  PROVE  /\ t.name \in AnyName /\ ShortName(Carved(t.name))
         /\ t.kind \in {"struct", "choice", "tuple", "enum"}
         /\ t.kind # "enum" => t.parts \in Seq(AnyPart)
         /\ t.kind = "enum" => t.variants \in Nat
  <1>1. /\ t.name \in AnyName
        /\ t.kind \in {"struct", "choice", "tuple", "enum"}
        /\ t.kind # "enum" => t.parts \in Seq(AnyPart)
        /\ t.kind = "enum" => t.variants \in Nat
    BY DEF AnyType
  <1> QED
    BY <1>1, NamesAreWide, CarvedOnce DEF ShortName

\* Some of the parts of a type have names of their own.
LEMMA KeptWellNamed ==
  ASSUME NEW parts \in Seq(AnyPart), WellNamed(parts), NEW set
  PROVE  WellNamed(Kept(parts, set))
  <1> DEFINE kept == Kept(parts, set)
  <1>1. IsInjective(parts)
    BY DEF IsInjective, WellNamed
  <1>2. ToSet(kept) \subseteq ToSet(parts) /\ IsInjective(kept)
    BY <1>1, ElementsOfKept
  <1> HIDE DEF kept
  <1>3. \A p, q \in ToSet(parts) : p.name # TakenName /\ (p.name = q.name => p = q)
    BY DEF WellNamed, ToSet
  <1>4. \A i \in DOMAIN kept : kept[i] \in ToSet(parts)
    BY <1>2 DEF ToSet
  <1>5. \A i, j \in DOMAIN kept : kept[i] = kept[j] => i = j
    BY <1>2 DEF IsInjective
  <1>6. WellNamed(kept)
    BY <1>3, <1>4, <1>5 DEF WellNamed
  <1> QED
    BY <1>6 DEF kept

\* A table of a type.
LEMMA TableIs ==
  ASSUME NEW t \in AnyType, t.kind # "enum", NEW columns \in Seq(AnyColumn),
         NEW oneNotNull \in Seq(WideColumn),
         {c.to : c \in {c \in ToSet(columns) : c.sql = "references"}} = Embedded(t),
         Supported(t) <=> /\ NamedOnce(columns) /\ ToSet(oneNotNull) \subseteq NamesOf(columns)
                          /\ \A c \in ToSet(columns) : c.sql # "array"
  PROVE  OfType(Table(Carved(t.name), columns, oneNotNull), t)
  <1> DEFINE d == Table(Carved(t.name), columns, oneNotNull)
  <1>1. ShortName(Carved(t.name))
    BY TypesAre
  <1>2. /\ d.kind = "table" /\ d.name = Carved(t.name)
        /\ d.columns = columns /\ d.oneNotNull = oneNotNull
    BY DEF Table
  <1>3. d \in AnyTable
    BY <1>1 DEF Table, AnyTable, ShortName
  <1> HIDE DEF d
  <1>4. Needs(d) = Embedded(t)
    BY <1>2 DEF Needs, RefsOf
  <1>5. Plain(d) <=> Supported(t)
    BY <1>2 DEF Plain
  <1> QED
    BY <1>1, <1>2, <1>3, <1>4, <1>5 DEF OfType, AnyDefinition, Short, IsTable, d

\* struct_to_table_info: the lists are in tables of their own.
LEMMA StructIs ==
  ASSUME NEW t \in AnyType, WellFormed(t), t.kind = "struct"
  PROVE  Made(DefinitionToSql(t), t)
  <1> DEFINE table == Carved(t.name)
             parts == t.parts
             embedded == Kept(parts, {part \in ToSet(parts) : ~part.list})
             lists == Kept(parts, {part \in ToSet(parts) : part.list})
             notNull == [i \in DOMAIN embedded |-> ~embedded[i].opt /\ embedded[i].of # "null"]
             columns == [i \in DOMAIN embedded |-> PartColumn(embedded[i], notNull[i])]
             d == Table(table, << Id >> \o columns, << >>)
             some == IndexesAndAbandon(table, parts)
             each == [i \in DOMAIN lists |->
                        ListTable(table, ListEntryName(table, lists[i].name), lists[i])]
             more == FlattenSeq(each)
  <1>1. parts \in Seq(AnyPart) /\ WellNamed(parts) /\ ShortName(table)
    BY TypesAre DEF WellFormed
  <1>2. DefinitionToSql(t) = (<< d >> \o some) \o more
    <2>1. columns = [i \in DOMAIN embedded |->
                       PartColumn(embedded[i], ~embedded[i].opt /\ embedded[i].of # "null")]
      OBVIOUS
    <2>2. DefinitionToSql(t) = StructToTable(table, parts)
      BY DEF DefinitionToSql
    <2> QED
      BY <2>1, <2>2 DEF StructToTable
  <1>3. /\ embedded \in Seq(AnyPart) /\ WellNamed(embedded)
        /\ ToSet(embedded) = {part \in ToSet(parts) : ~part.list}
    BY <1>1, ElementsOfKept, KeptWellNamed
  <1>4. /\ lists \in Seq(AnyPart) /\ ToSet(lists) \subseteq ToSet(parts)
    BY <1>1, ElementsOfKept
  <1> HIDE DEF embedded, lists
  <1>5. notNull \in [DOMAIN embedded -> BOOLEAN]
    OBVIOUS
  <1> HIDE DEF notNull
  <1>6. /\ columns \in Seq(AnyColumn) /\ NamedOnce(columns)
        /\ \A c \in ToSet(columns) : c.name # FOREIGN_KEY_DEFAULT_COLUMN
        /\ {c.to : c \in {c \in ToSet(columns) : c.sql = "references"}}
              = {p.to : p \in {p \in ToSet(embedded) : p.of = "ref" /\ ~p.list}}
        /\ (\E c \in ToSet(columns) : c.sql = "array") <=> (\E p \in ToSet(embedded) : p.list)
    <2>1. columns = EachAsColumn(embedded, notNull)
      BY DEF EachAsColumn
    <2> HIDE DEF columns
    <2> QED
      BY <1>3, <1>5, <2>1, ColumnsOfParts
  <1> HIDE DEF columns
  <1> DEFINE all == << Id >> \o columns
  <1>7. /\ all \in Seq(AnyColumn) /\ NamedOnce(all) /\ ToSet(all) = {Id} \cup ToSet(columns)
        /\ Id.sql = "serial"
    BY <1>6, WithId
  <1> HIDE DEF all
  <1>8. {c.to : c \in {c \in ToSet(all) : c.sql = "references"}} = Embedded(t)
    <2>1. {c \in ToSet(all) : c.sql = "references"} = {c \in ToSet(columns) : c.sql = "references"}
      BY <1>7
    <2>2. {p \in ToSet(embedded) : p.of = "ref" /\ ~p.list}
            = {p \in ToSet(parts) : p.of = "ref" /\ ~p.list}
      BY <1>3
    <2> QED
      BY <1>6, <2>1, <2>2 DEF Embedded
  <1>9. \A c \in ToSet(all) : c.sql # "array"
    BY <1>3, <1>6, <1>7
  <1>10. OfType(d, t)
    <2>1. << >> \in Seq(WideColumn) /\ ToSet(<< >>) = {}
      BY DEF ToSet
    <2>2. Supported(t)
      BY DEF Supported
    <2>3. OfType(Table(table, all, << >>), t)
      BY <1>7, <1>8, <1>9, <2>1, <2>2, TableIs
    <2> QED
      BY <2>3 DEF all
  <1>11. some \in Seq(AnyDefinition) /\ Company(ToSet(some), t)
    BY <1>1, IndexesAndAbandonIs
  <1>12. more \in Seq(AnyDefinition) /\ Company(ToSet(more), t)
    <2>1. \A i \in DOMAIN lists : lists[i] \in AnyPart /\ lists[i] \in ToSet(parts)
      BY <1>4, LenProperties DEF ToSet
    <2>2. ASSUME NEW i \in DOMAIN lists
          PROVE  each[i] \in Seq(AnyDefinition) /\ Company(ToSet(each[i]), t)
      <3>1. lists[i].of = "ref" => lists[i].to \in Refs(t)
        BY <2>1 DEF Refs
      <3>2. ShortName(ListEntryName(table, lists[i].name))
        BY <1>1, <2>1, NamesAreWide DEF ShortName
      <3> QED
        BY <1>1, <2>1, <3>1, <3>2, ListTableIs
    <2>3. DOMAIN each = DOMAIN lists
      OBVIOUS
    <2> HIDE DEF each
    <2>4. each \in Seq(Seq(AnyDefinition))
      <3>1. Len(lists) \in Nat /\ DOMAIN lists = 1 .. Len(lists)
        BY <1>4, LenProperties
      <3>2. each = [i \in 1 .. Len(lists) |-> each[i]]
        BY <2>3, <3>1 DEF each
      <3> DEFINE Defs == Seq(AnyDefinition)
      <3>3. \A i \in 1 .. Len(lists) : each[i] \in Defs
        BY <2>2, <3>1
      <3> HIDE DEF Defs
      <3>4. each \in Seq(Defs)
        BY <3>1, <3>2, <3>3
      <3> QED
        BY <3>4 DEF Defs
    <2>5. /\ more \in Seq(AnyDefinition)
          /\ ToSet(more) = UNION {ToSet(each[i]) : i \in DOMAIN each}
      BY <2>4, ElementsOfFlattened
    <2>6. Company(UNION {ToSet(each[i]) : i \in DOMAIN each}, t)
      BY <2>2, <2>3, CompanyOfAll
    <2> QED
      BY <2>5, <2>6
  <1> HIDE DEF d, some, more
  <1>13. /\ some \o more \in Seq(AnyDefinition)
         /\ Company(ToSet(some \o more), t)
    BY <1>11, <1>12, ElementsOfConcat, CompanyOfBoth
  <1>14. Made(<< d >> \o (some \o more), t)
    BY <1>10, <1>13, TableWithCompany
  <1>15. (<< d >> \o some) \o more = << d >> \o (some \o more)
    <2>1. << d >> \in Seq(AnyDefinition)
      BY <1>10 DEF OfType
    <2> QED
      BY <1>11, <1>12, <2>1, ConcatAssociative
  <1> QED
    BY <1>2, <1>14, <1>15

\* data_enum_to_table: a column for each alternative.
LEMMA ChoiceIs ==
  ASSUME NEW t \in AnyType, WellFormed(t), t.kind = "choice"
  PROVE  Made(DefinitionToSql(t), t)
  <1> DEFINE table == Carved(t.name)
             parts == t.parts
             hasId == \E i \in DOMAIN parts : parts[i].name = FOREIGN_KEY_DEFAULT_COLUMN
             notNull == [i \in DOMAIN parts |-> FALSE]
             columns == [i \in DOMAIN parts |-> PartColumn(parts[i], notNull[i])]
             all == (IF hasId THEN << >> ELSE << Id >>) \o columns
             names == [i \in DOMAIN parts |-> parts[i].name]
             d == Table(table, all, names)
             some == IndexesAndAbandon(table, parts)
  <1>1. parts \in Seq(AnyPart) /\ WellNamed(parts) /\ ShortName(table)
    BY TypesAre DEF WellFormed
  <1>2. DefinitionToSql(t) = << d >> \o some
    <2>1. columns = [i \in DOMAIN parts |-> PartColumn(parts[i], FALSE)]
      OBVIOUS
    <2>2. DefinitionToSql(t) = DataEnumToTable(table, parts)
      BY DEF DefinitionToSql
    <2> QED
      BY <2>1, <2>2 DEF DataEnumToTable
  <1> HIDE DEF parts
  <1>3. notNull \in [DOMAIN parts -> BOOLEAN]
    OBVIOUS
  <1> HIDE DEF notNull
  <1>4. /\ columns \in Seq(AnyColumn) /\ NamedOnce(columns)
        /\ \A c \in ToSet(columns) : c.name # FOREIGN_KEY_DEFAULT_COLUMN
        /\ NamesOf(columns) = {ColumnName(p.name) : p \in ToSet(parts)}
        /\ {c.to : c \in {c \in ToSet(columns) : c.sql = "references"}}
              = {p.to : p \in {p \in ToSet(parts) : p.of = "ref" /\ ~p.list}}
        /\ (\E c \in ToSet(columns) : c.sql = "array") <=> (\E p \in ToSet(parts) : p.list)
    <2>1. columns = EachAsColumn(parts, notNull)
      BY DEF EachAsColumn
    <2> HIDE DEF columns
    <2> QED
      BY <1>1, <1>3, <2>1, ColumnsOfParts
  <1> HIDE DEF columns
  <1>5. /\ hasId <=> \E p \in ToSet(parts) : p.name = FOREIGN_KEY_DEFAULT_COLUMN
        /\ \A p \in ToSet(parts) : p.name \in WideColumn
    <2>1. \A i \in DOMAIN parts : parts[i] \in AnyPart
      BY <1>1, LenProperties
    <2> QED
      BY <2>1, PartsAreTexts DEF ToSet
  <1>6. names \in Seq(WideColumn) /\ ToSet(names) = {p.name : p \in ToSet(parts)}
    <2>1. Len(parts) \in Nat /\ DOMAIN parts = 1 .. Len(parts)
      BY <1>1, LenProperties
    <2>2. \A i \in DOMAIN parts : names[i] \in WideColumn
      BY <1>5 DEF ToSet
    <2>3. names \in Seq(WideColumn)
      BY <2>1, <2>2
    <2> QED
      BY <2>3 DEF ToSet
  <1> HIDE DEF hasId, names
  <1>7. /\ all \in Seq(AnyColumn) /\ NamedOnce(all)
        /\ ToSet(all) = IF hasId THEN ToSet(columns) ELSE {Id} \cup ToSet(columns)
        /\ Id.sql = "serial"
    <2>1. /\ << Id >> \o columns \in Seq(AnyColumn) /\ NamedOnce(<< Id >> \o columns)
          /\ ToSet(<< Id >> \o columns) = {Id} \cup ToSet(columns)
          /\ Id.sql = "serial"
      BY <1>4, WithId
    <2>2. << >> \o columns = columns
      BY <1>4, ConcatEmptySeq
    <2>3. all = IF hasId THEN << >> \o columns ELSE << Id >> \o columns
      OBVIOUS
    <2> HIDE DEF all
    <2> QED
      BY <1>4, <2>1, <2>2, <2>3
  <1> HIDE DEF all
  <1>8. {c.to : c \in {c \in ToSet(all) : c.sql = "references"}} = Embedded(t)
    <2>1. {c \in ToSet(all) : c.sql = "references"} = {c \in ToSet(columns) : c.sql = "references"}
      BY <1>7
    <2> QED
      BY <1>4, <2>1 DEF Embedded, parts
  <1>9. (\A c \in ToSet(all) : c.sql # "array") <=> (\A p \in ToSet(parts) : ~p.list)
    <2>1. (\E c \in ToSet(all) : c.sql = "array") <=> (\E c \in ToSet(columns) : c.sql = "array")
      BY <1>7
    <2> QED
      BY <1>4, <2>1
  <1>10. ToSet(names) \subseteq NamesOf(all) <=> ~hasId
    <2>1. CASE hasId
      <3>1. FOREIGN_KEY_DEFAULT_COLUMN \in ToSet(names)
        BY <1>5, <1>6, <2>1
      <3>2. NamesOf(all) = NamesOf(columns)
        BY <1>7, <2>1 DEF NamesOf
      <3>3. FOREIGN_KEY_DEFAULT_COLUMN \notin NamesOf(columns)
        BY <1>4 DEF NamesOf
      <3> QED
        BY <2>1, <3>1, <3>2, <3>3
    <2>2. CASE ~hasId
      <3>1. NamesOf(columns) \subseteq NamesOf(all)
        BY <1>7, <2>2 DEF NamesOf
      <3>2. \A p \in ToSet(parts) : ColumnName(p.name) = p.name
        BY <1>5, <2>2, ColumnNamesDiffer
      <3>3. ToSet(names) \subseteq NamesOf(columns)
        BY <1>4, <1>6, <3>2
      <3> QED
        BY <2>2, <3>1, <3>3
    <2> QED
      BY <2>1, <2>2
  <1>11. Supported(t) <=> /\ NamedOnce(all) /\ ToSet(names) \subseteq NamesOf(all)
                          /\ \A c \in ToSet(all) : c.sql # "array"
    <2>1. Supported(t) <=> (\A p \in ToSet(parts) : ~p.list) /\ ~hasId
      BY <1>5 DEF Supported, parts
    <2> QED
      BY <1>7, <1>9, <1>10, <2>1
  <1>12. OfType(d, t)
    BY <1>6, <1>7, <1>8, <1>11, TableIs
  <1>13. some \in Seq(AnyDefinition) /\ Company(ToSet(some), t)
    BY <1>1, IndexesAndAbandonIs
  <1> HIDE DEF d, some
  <1> QED
    BY <1>2, <1>12, <1>13, TableWithCompany

\* rust_enum_to_sql_enum: the rows and the rule that keeps them.
LEMMA EnumIs ==
  ASSUME NEW t \in AnyType, t.kind = "enum"
  PROVE  Made(DefinitionToSql(t), t)
  <1> DEFINE table == Carved(t.name)
             d == [kind |-> "enum", name |-> table, variants |-> t.variants]
             e == PreventDelete(table)
             more == << e >>
  <1>1. ShortName(table) /\ t.variants \in Nat
    BY TypesAre
  <1>2. DefinitionToSql(t) = << d, e >>
    <2>1. DefinitionToSql(t) = EnumToTable(table, t.variants)
      BY DEF DefinitionToSql
    <2> QED
      BY <2>1 DEF EnumToTable
  <1>3. OfType(d, t)
    <2>1. d \in AnyDefinition
      BY <1>1 DEF AnyDefinition, ShortName
    <2>2. Needs(d) = Embedded(t)
      BY DEF Needs, Embedded
    <2> QED
      BY <1>1, <2>1, <2>2 DEF OfType, Short, IsTable
  <1>4. OfRest(e, {table})
    BY <1>1, RestIs DEF ShortName
  <1> HIDE DEF d, e
  <1>5. more \in Seq(AnyDefinition) /\ ToSet(more) = {e}
    BY <1>4 DEF OfRest, AnyDefinition, ToSet
  <1>6. Company(ToSet(more), t)
    BY <1>4, <1>5 DEF Company, OfRest
  <1>7. << d, e >> = << d >> \o more
    BY TwoInARow
  <1> HIDE DEF more
  <1> QED
    BY <1>2, <1>3, <1>5, <1>6, <1>7, TableWithCompany

\* tuple_struct_to_table_info: a table of the entries.
LEMMA TupleIs ==
  ASSUME NEW t \in AnyType, WellFormed(t), t.kind = "tuple"
  PROVE  Made(DefinitionToSql(t), t)
  <1> DEFINE table == Carved(t.name)
             part == t.parts[1]
             d == Table(table, << Id >>, << >>)
             more == ListTable(table, TupleEntryName(table), part)
  <1>1. t.parts \in Seq(AnyPart) /\ Len(t.parts) = 1 /\ ShortName(table)
    BY TypesAre DEF WellFormed
  <1>2. part \in AnyPart /\ part \in ToSet(t.parts)
    <2>1. DOMAIN t.parts = 1 .. 1
      BY <1>1, LenProperties
    <2>2. 1 \in DOMAIN t.parts
      BY <2>1
    <2> QED
      BY <1>1, <2>2, LenProperties DEF ToSet
  <1>3. part.of = "ref" => part.to \in Refs(t)
    BY <1>2 DEF Refs
  <1>4. more \in Seq(AnyDefinition) /\ Company(ToSet(more), t)
    BY <1>1, <1>2, <1>3, ListTableIs, NamesAreWide DEF ShortName
  <1>5. DefinitionToSql(t) = << d >> \o more
    BY DEF DefinitionToSql
  <1> DEFINE all == << Id >>
             none == << >>
  <1>6. /\ all \in Seq(AnyColumn) /\ NamedOnce(all) /\ ToSet(all) = {Id} /\ Id.sql = "serial"
    <2>1. /\ << >> \in Seq(AnyColumn) /\ NamedOnce(<< >>) /\ ToSet(<< >>) = {}
      BY DEF NamedOnce, ToSet
    <2>2. /\ << Id >> \o << >> \in Seq(AnyColumn) /\ NamedOnce(<< Id >> \o << >>)
          /\ ToSet(<< Id >> \o << >>) = {Id} \cup ToSet(<< >>)
          /\ Id.sql = "serial" /\ Id.name = FOREIGN_KEY_DEFAULT_COLUMN
      BY <2>1, WithId
    <2>3. Id \in AnyColumn
      <3>1. Id \in ToSet(<< Id >> \o << >>)
        BY <2>2
      <3> DEFINE some == << Id >> \o << >>
      <3>2. some \in Seq(AnyColumn) /\ Id \in ToSet(some)
        BY <2>2, <3>1
      <3> HIDE DEF some
      <3> QED
        BY <3>2, LenProperties DEF ToSet
    <2>4. << Id >> \o << >> = << Id >>
      BY <2>3, ConcatEmptySeq
    <2> QED
      BY <2>1, <2>2, <2>4
  <1>7. none \in Seq(WideColumn) /\ ToSet(none) = {}
    BY DEF ToSet
  <1> HIDE DEF all, none
  <1>8. {c.to : c \in {c \in ToSet(all) : c.sql = "references"}} = Embedded(t)
    BY <1>6 DEF Embedded
  <1>9. Supported(t) <=> /\ NamedOnce(all) /\ ToSet(none) \subseteq NamesOf(all)
                         /\ \A c \in ToSet(all) : c.sql # "array"
    BY <1>6, <1>7 DEF Supported
  <1>10. OfType(Table(table, all, none), t)
    BY <1>6, <1>7, <1>8, <1>9, TableIs
  <1>11. OfType(d, t)
    BY <1>10 DEF all, none
  <1> HIDE DEF d, more
  <1> QED
    BY <1>4, <1>5, <1>11, TableWithCompany

\* Every type is made a table of its own and what belongs to it.
LEMMA Converted ==
  ASSUME NEW t \in AnyType, WellFormed(t)
  PROVE  Made(DefinitionToSql(t), t)
  BY TypesAre, StructIs, ChoiceIs, EnumIs, TupleIs

-----------------------------------------------------------------------------
(* The order of the definitions *)

\* The elements of D in another order.
Permutes(at, S) ==
    /\ at \in [S -> S]
    /\ \A i, j \in S : at[i] = at[j] => i = j
    /\ \A j \in S : \E i \in S : at[i] = j
Rearranged(D, at) == [i \in DOMAIN D |-> D[at[i]]]

\* Where a strict total order puts each of n elements.
Rank(order, n, j) == Cardinality({i \in 1 .. n : << i, j >> \in order})

\* A strict total order puts each element in a place of its own.
LEMMA Ranked ==
  ASSUME NEW n \in Nat, NEW order,
         \A i \in 1 .. n : << i, i >> \notin order,
         \A i, j \in 1 .. n : i # j => << i, j >> \in order \/ << j, i >> \in order,
         \A i, j, k \in 1 .. n :
            << i, j >> \in order /\ << j, k >> \in order => << i, k >> \in order,
         NEW at, at = [place \in 1 .. n |-> at[place]],
         \A place \in 1 .. n : (\E j \in 1 .. n : Rank(order, n, j) = place - 1)
            => at[place] \in 1 .. n /\ Rank(order, n, at[place]) = place - 1
  PROVE  /\ Permutes(at, 1 .. n)
         /\ \A p, q \in 1 .. n : << at[p], at[q] >> \in order => p < q
  <1> DEFINE all == 1 .. n
             Below(j) == {i \in all : << i, j >> \in order}
             rank == [j \in all |-> Rank(order, n, j)]
             places == 0 .. n - 1
  <1>1. IsFiniteSet(all) /\ Cardinality(all) = n /\ IsFiniteSet(places) /\ Cardinality(places) = n
    <2>1. 0 \in Int /\ 1 \in Int /\ n \in Int /\ n - 1 \in Int
      OBVIOUS
    <2>2. IsFiniteSet(1 .. n) /\ Cardinality(1 .. n) = IF 1 > n THEN 0 ELSE n - 1 + 1
      BY <2>1, FS_Interval
    <2>3. /\ IsFiniteSet(0 .. n - 1)
          /\ Cardinality(0 .. n - 1) = IF 0 > n - 1 THEN 0 ELSE n - 1 - 0 + 1
      BY <2>1, FS_Interval
    <2>4. (IF 1 > n THEN 0 ELSE n - 1 + 1) = n /\ (IF 0 > n - 1 THEN 0 ELSE n - 1 - 0 + 1) = n
      OBVIOUS
    <2> QED
      BY <2>2, <2>3, <2>4
  <1>2. \A j \in all : rank[j] = Cardinality(Below(j))
    BY DEF Rank
  <1>3. \A S : S \subseteq all => IsFiniteSet(S) /\ Cardinality(S) \in Nat
    BY <1>1, FS_Subset, FS_CardinalityType
  <1>4. ASSUME NEW i \in all, NEW j \in all, << i, j >> \in order PROVE rank[i] < rank[j]
    <2>1. Below(i) \cup {i} \subseteq Below(j) /\ i \notin Below(i) /\ Below(j) \subseteq all
      BY <1>4
    <2> HIDE DEF Below, rank
    <2>2. IsFiniteSet(Below(j)) /\ IsFiniteSet(Below(i)) /\ Below(i) \subseteq all
      BY <1>3, <2>1
    <2>3. Cardinality(Below(i) \cup {i}) = Cardinality(Below(i)) + 1
      BY <2>1, <2>2, FS_AddElement
    <2>4. Cardinality(Below(i) \cup {i}) <= Cardinality(Below(j))
      BY <2>1, <2>2, FS_Subset
    <2>5. Cardinality(Below(i)) \in Nat /\ Cardinality(Below(j)) \in Nat
      BY <1>3, <2>1, <2>2
    <2>6. rank[i] = Cardinality(Below(i)) /\ rank[j] = Cardinality(Below(j))
      BY <1>2
    <2> QED
      BY <2>3, <2>4, <2>5, <2>6
  <1>5. ASSUME NEW j \in all PROVE rank[j] \in places
    <2>1. Below(j) \cup {j} \subseteq all /\ j \notin Below(j) /\ Below(j) \subseteq all
      OBVIOUS
    <2> HIDE DEF Below, rank, all
    <2>2. IsFiniteSet(Below(j)) /\ Cardinality(Below(j)) \in Nat
      BY <1>3, <2>1
    <2>3. Cardinality(Below(j) \cup {j}) = Cardinality(Below(j)) + 1
      BY <2>1, <2>2, FS_AddElement
    <2>4. Cardinality(Below(j) \cup {j}) <= n
      BY <1>1, <2>1, FS_Subset
    <2> QED
      BY <1>2, <2>2, <2>3, <2>4
  <1>6. rank \in Injection(all, places)
    <2>1. rank \in [all -> places]
      <3>1. rank = [j \in all |-> rank[j]]
        OBVIOUS
      <3> HIDE DEF rank, places, all
      <3> QED
        BY <1>5, <3>1
    <2>2. ASSUME NEW i \in all, NEW j \in all, rank[i] = rank[j] PROVE i = j
      <3> SUFFICES ASSUME i # j PROVE FALSE
        OBVIOUS
      <3>1. rank[i] < rank[j] \/ rank[j] < rank[i]
        <4> HIDE DEF rank
        <4> QED
          BY <1>4
      <3>2. rank[i] \in Int
        <4> HIDE DEF rank
        <4> QED
          BY <1>5
      <3> HIDE DEF rank
      <3> QED
        BY <2>2, <3>1, <3>2
    <2> HIDE DEF rank, places, all
    <2> QED
      BY <2>1, <2>2 DEF Injection, IsInjective
  <1> HIDE DEF rank, places, all, Below
  <1>7. \A k \in places : \E j \in all : rank[j] = k
    <2>1. rank \in Surjection(all, places)
      BY <1>1, <1>6, FS_Injection
    <2> QED
      BY <2>1 DEF Surjection
  <1>8. ASSUME NEW p \in all PROVE at[p] \in all /\ rank[at[p]] = p - 1
    <2>1. (\E j \in all : Rank(order, n, j) = p - 1)
            => at[p] \in all /\ Rank(order, n, at[p]) = p - 1
      BY DEF all
    <2>2. p - 1 \in places
      BY DEF all, places
    <2>3. \A j \in all : rank[j] = Rank(order, n, j)
      BY DEF rank
    <2>4. \E j \in all : Rank(order, n, j) = p - 1
      BY <1>7, <2>2, <2>3
    <2>5. at[p] \in all /\ Rank(order, n, at[p]) = p - 1
      BY <2>1, <2>4
    <2> QED
      BY <2>3, <2>5
  <1>9. at \in [all -> all]
    BY <1>8 DEF all
  <1>10. ASSUME NEW p \in all, NEW q \in all, at[p] = at[q] PROVE p = q
    <2>1. p \in Int /\ q \in Int
      BY DEF all
    <2>2. p - 1 = q - 1
      BY <1>8, <1>10
    <2> QED
      BY <2>1, <2>2
  <1>11. ASSUME NEW j \in all PROVE \E p \in all : at[p] = j
    <2>1. rank[j] \in places
      BY <1>5
    <2>2. rank[j] + 1 \in all /\ (rank[j] + 1) - 1 = rank[j]
      BY <2>1 DEF all, places
    <2>3. at[rank[j] + 1] \in all /\ rank[at[rank[j] + 1]] = rank[j]
      BY <1>8, <2>2
    <2>4. at[rank[j] + 1] = j
      BY <1>6, <2>3 DEF Injection, IsInjective
    <2> QED
      BY <2>2, <2>4
  <1>12. ASSUME NEW p \in all, NEW q \in all, << at[p], at[q] >> \in order PROVE p < q
    <2>1. rank[at[p]] < rank[at[q]]
      BY <1>4, <1>8, <1>12
    <2>2. p - 1 < q - 1
      BY <1>8, <2>1
    <2>3. p \in Int /\ q \in Int
      BY DEF all
    <2> QED
      BY <2>2, <2>3
  <1>13. Permutes(at, all)
    BY <1>9, <1>10, <1>11 DEF Permutes
  <1> QED
    BY <1>12, <1>13 DEF all

-----------------------------------------------------------------------------
(* Circles of types *)

\* What is known of a schema.
LEMMA SchemasAre ==
  ASSUME NEW s \in Schemas
  PROVE  /\ s.types \in Seq(AnyType) /\ Len(s.types) \in Nat /\ DOMAIN s.types = 1 .. Len(s.types)
         /\ MaxDepth \in Nat /\ Len(s.types) < MaxDepth
         /\ \A k \in DOMAIN s.types :
              /\ s.types[k] \in AnyType /\ WellFormed(s.types[k])
              /\ \A name \in Refs(s.types[k]) : \E l \in DOMAIN s.types : s.types[l].name = name
  <1> DEFINE types == s.types
  <1>1. types \in Seq(AnyType)
    BY SchemasAssumption
  <1>2. /\ MaxDepth \in Nat /\ Len(types) < MaxDepth
    BY DepthAssumption
  <1>3. \A t \in {t \in ToSet(types) : t.kind # "enum"} :
            /\ \A i \in DOMAIN t.parts :
                /\ t.parts[i].of = "ref" => \E u \in ToSet(types) : u.name = t.parts[i].to
                /\ t.parts[i].name # TakenName
                /\ \A j \in DOMAIN t.parts : t.parts[i].name = t.parts[j].name => i = j
            /\ t.kind = "tuple" => Len(t.parts) = 1
    BY SchemasAssumption DEF TakenName
  <1> HIDE DEF types
  <1>4. Len(types) \in Nat /\ DOMAIN types = 1 .. Len(types)
        /\ \A k \in DOMAIN types : types[k] \in AnyType
    BY <1>1, LenProperties
  <1>5. ASSUME NEW k \in DOMAIN types
        PROVE  /\ WellFormed(types[k])
               /\ \A name \in Refs(types[k]) : \E l \in DOMAIN types : types[l].name = name
    <2> DEFINE t == types[k]
    <2>1. t \in ToSet(types)
      BY DEF ToSet
    <2> HIDE DEF t
    <2>2. CASE t.kind = "enum"
      BY <2>2 DEF WellFormed, Refs, t
    <2>3. CASE t.kind # "enum"
      <3>1. WellFormed(t)
        BY <1>3, <2>1, <2>3 DEF WellFormed, WellNamed
      <3>2. ASSUME NEW name \in Refs(t) PROVE \E l \in DOMAIN types : types[l].name = name
        <4>1. PICK i \in DOMAIN t.parts : t.parts[i].of = "ref" /\ t.parts[i].to = name
          BY <2>3 DEF Refs, ToSet
        <4>2. PICK u \in ToSet(types) : u.name = name
          BY <1>3, <2>1, <2>3, <4>1
        <4> QED
          BY <4>2 DEF ToSet
      <3> QED
        BY <3>1, <3>2 DEF t
    <2> QED
      BY <2>2, <2>3
  <1> QED
    BY <1>1, <1>2, <1>4, <1>5 DEF types

\* The types that refer to a type, and those that refer to them.
Above(n) == {m \in TypeNames : n \in Reached(RefersTo(m))}

\* What a type refers to are types.
LEMMA RefersToTypes ==
  ASSUME schema \in Schemas
  PROVE  /\ \A n : RefersTo(n) \subseteq TypeNames
         /\ TypeNames = {schema.types[k].name : k \in DOMAIN schema.types}
         /\ IsFiniteSet(TypeNames) /\ Cardinality(TypeNames) <= Len(schema.types)
         /\ \A k \in DOMAIN schema.types :
               Embedded(schema.types[k]) \subseteq RefersTo(schema.types[k].name)
         /\ \A k \in DOMAIN schema.types : Embedded(schema.types[k]) \subseteq Refs(schema.types[k])
         /\ \A n : \A m \in RefersTo(n) : \E k \in DOMAIN schema.types :
                schema.types[k].name = n /\ m \in Embedded(schema.types[k])
  <1> DEFINE types == schema.types
  <1>1. /\ types \in Seq(AnyType) /\ Len(types) \in Nat /\ DOMAIN types = 1 .. Len(types)
        /\ \A k \in DOMAIN types : \A name \in Refs(types[k]) :
                  \E l \in DOMAIN types : types[l].name = name
    BY SchemasAre
  <1>2. ToSet(types) = {types[k] : k \in DOMAIN types}
    BY DEF ToSet
  <1>3. TypeNames = {types[k].name : k \in DOMAIN types}
    BY <1>2 DEF TypeNames
  <1>4. \A t : Embedded(t) \subseteq Refs(t)
    <2> SUFFICES ASSUME NEW t, NEW n \in Embedded(t) PROVE n \in Refs(t)
      OBVIOUS
    <2>1. t.kind \in {"struct", "choice"}
      BY DEF Embedded
    <2>2. PICK p \in ToSet(t.parts) : p.of = "ref" /\ n = p.to
      BY <2>1 DEF Embedded
    <2>3. t.kind # "enum"
      BY <2>1
    <2> QED
      BY <2>2, <2>3 DEF Refs
  <1>5. ASSUME NEW k \in DOMAIN types, NEW m \in Embedded(types[k])
        PROVE m \in RefersTo(types[k].name)
    <2> DEFINE t == types[k]
               set == {p.to : p \in {p \in ToSet(t.parts) : p.of = "ref" /\ ~p.list}}
    <2>1. t \in ToSet(schema.types) /\ t.kind \in {"struct", "choice"} /\ m \in set
      BY <1>2 DEF Embedded
    <2> QED
      BY <2>1 DEF RefersTo
  <1>6. ASSUME NEW n, NEW m \in RefersTo(n)
        PROVE  \E k \in DOMAIN types : types[k].name = n /\ m \in Embedded(types[k])
    <2>1. PICK t \in ToSet(types) :
             /\ t.name = n /\ t.kind \in {"struct", "choice"}
             /\ m \in {p.to : p \in {p \in ToSet(t.parts) : p.of = "ref" /\ ~p.list}}
      BY DEF RefersTo
    <2>2. m \in Embedded(t)
      BY <2>1 DEF Embedded
    <2>3. PICK k \in DOMAIN types : t = types[k]
      BY <1>2
    <2> QED
      BY <2>1, <2>2, <2>3
  <1> HIDE DEF types
  <1>7. \A n : RefersTo(n) \subseteq TypeNames
    BY <1>1, <1>3, <1>4, <1>6
  <1>8. IsFiniteSet(TypeNames) /\ Cardinality(TypeNames) <= Len(types)
    <2> DEFINE f == [k \in 1 .. Len(types) |-> types[k].name]
    <2>1. f \in Surjection(1 .. Len(types), TypeNames)
      BY <1>1, <1>3 DEF Surjection
    <2>2. ExistsSurjection(1 .. Len(types), TypeNames)
      BY <2>1 DEF ExistsSurjection
    <2> QED
      BY <1>1, <2>2, FS_NatSurjection, FS_SurjCardinalityBound
  <1> QED
    BY <1>3, <1>4, <1>5, <1>6, <1>7, <1>8 DEF types

\* Fewer types are above what refers than above what it refers to.
LEMMA AboveRises ==
  ASSUME schema \in Schemas, ~Circular, NEW m \in TypeNames, NEW n \in RefersTo(m)
  PROVE  /\ Cardinality(Above(m)) \in Nat /\ Cardinality(Above(n)) \in Nat
         /\ Cardinality(Above(m)) < Cardinality(Above(n))
  <1>1. n \in TypeNames
    BY RefersToTypes
  <1>2. n \in Reached(RefersTo(m))
    BY <1>1 DEF Reached
  <1>3. m \in Above(n)
    BY <1>2 DEF Above
  <1>4. m \notin Above(m)
    BY DEF Above, Circular
  <1>5. ASSUME NEW l \in Above(m) PROVE l \in Above(n)
    <2>1. l \in TypeNames /\ m \in Reached(RefersTo(l))
      BY DEF Above
    <2>2. n \in Reached(RefersTo(l))
      BY <1>1, <2>1 DEF Reached
    <2> QED
      BY <2>1, <2>2 DEF Above
  <1>6. Above(m) \subseteq TypeNames /\ Above(n) \subseteq TypeNames
    BY DEF Above
  <1>7. IsFiniteSet(Above(m)) /\ IsFiniteSet(Above(n))
    BY <1>6, RefersToTypes, FS_Subset
  <1>8. Cardinality(Above(m)) \in Nat /\ Cardinality(Above(n)) \in Nat
    BY <1>7, FS_CardinalityType
  <1>9. Cardinality(Above(m) \cup {m}) = Cardinality(Above(m)) + 1
    BY <1>4, <1>7, FS_AddElement
  <1>10. Above(m) \cup {m} \subseteq Above(n)
    BY <1>3, <1>5
  <1>11. Cardinality(Above(m) \cup {m}) <= Cardinality(Above(n))
    BY <1>7, <1>10, FS_Subset
  <1> QED
    BY <1>8, <1>9, <1>11

\* Not all types are above a type.
LEMMA AboveBounded ==
  ASSUME schema \in Schemas, ~Circular, NEW n \in TypeNames
  PROVE  Cardinality(Above(n)) \in Nat /\ Cardinality(Above(n)) < Len(schema.types)
  <1>1. Above(n) \subseteq TypeNames /\ n \notin Above(n)
    BY DEF Above, Circular
  <1>2. IsFiniteSet(Above(n)) /\ IsFiniteSet(TypeNames)
        /\ Cardinality(TypeNames) <= Len(schema.types)
    BY <1>1, RefersToTypes, FS_Subset
  <1>3. Cardinality(Above(n)) \in Nat /\ Cardinality(TypeNames) \in Nat
    BY <1>2, FS_CardinalityType
  <1>4. Cardinality(Above(n) \cup {n}) = Cardinality(Above(n)) + 1
    BY <1>1, <1>2, FS_AddElement
  <1>5. Above(n) \cup {n} \subseteq TypeNames
    BY <1>1
  <1>6. Cardinality(Above(n) \cup {n}) <= Cardinality(TypeNames)
    BY <1>2, <1>5, FS_Subset
  <1>7. Len(schema.types) \in Nat
    BY SchemasAre
  <1> QED
    BY <1>2, <1>3, <1>4, <1>6, <1>7

-----------------------------------------------------------------------------
(* The definitions of all types *)

\* The tables of the first n types are at pos; all else belongs to them.
Placed(D, pos, types, n) ==
    /\ D \in Seq(AnyDefinition)
    /\ pos \in [1 .. n -> DOMAIN D]
    /\ \A k, l \in 1 .. n : pos[k] = pos[l] => k = l
    /\ \A k \in 1 .. n : OfType(D[pos[k]], types[k])
    /\ \A i \in DOMAIN D : (\A k \in 1 .. n : pos[k] # i) =>
          \/ \E k \in 1 .. n : OfEntry(D[i], types[k])
          \/ OfRest(D[i], TablesOf(D))

\* The definitions of another type can follow.
LEMMA PlacedNext ==
  ASSUME NEW D, NEW pos, NEW types, NEW n \in Nat, Placed(D, pos, types, n),
         NEW more, Made(more, types[n + 1])
  PROVE  \E other : Placed(D \o more, other, types, n + 1)
  <1> DEFINE all == D \o more
             len == Len(D)
             other == [k \in 1 .. n + 1 |-> IF k = n + 1 THEN len + 1 ELSE pos[k]]
  <1>1. /\ D \in Seq(AnyDefinition) /\ len \in Nat /\ DOMAIN D = 1 .. len
        /\ more \in Seq(AnyDefinition) /\ Len(more) \in Nat /\ DOMAIN more = 1 .. Len(more)
        /\ Len(more) >= 1
    BY LenProperties DEF Placed, Made
  <1>2. /\ all \in Seq(AnyDefinition) /\ DOMAIN all = 1 .. len + Len(more)
        /\ \A i \in 1 .. len + Len(more) : all[i] = IF i <= len THEN D[i] ELSE more[i - len]
    <2>1. /\ all \in Seq(AnyDefinition) /\ Len(all) = len + Len(more)
          /\ \A i \in 1 .. len + Len(more) : all[i] = IF i <= len THEN D[i] ELSE more[i - len]
      BY <1>1, ConcatProperties
    <2> HIDE DEF all, len
    <2> QED
      BY <2>1, LenProperties
  <1> DEFINE m == Len(more)
  <1> HIDE DEF all, len, m
  <1>3. \A i \in DOMAIN D : i \in DOMAIN all /\ all[i] = D[i] /\ i # len + 1
    BY <1>1, <1>2 DEF m
  <1>4. \A i \in DOMAIN more : len + i \in DOMAIN all /\ all[len + i] = more[i]
    <2> SUFFICES ASSUME NEW i \in DOMAIN more PROVE len + i \in DOMAIN all /\ all[len + i] = more[i]
      OBVIOUS
    <2>1. len + i \in 1 .. len + Len(more) /\ ~(len + i <= len) /\ (len + i) - len = i
      BY <1>1
    <2> QED
      BY <1>2, <2>1
  <1>5. \A i \in DOMAIN all : i \in DOMAIN D \/ (i - len \in DOMAIN more /\ len + (i - len) = i)
    BY <1>1, <1>2 DEF m
  <1>6. len + 1 \in DOMAIN all /\ all[len + 1] = more[1]
    <2>1. 1 \in DOMAIN more
      BY <1>1
    <2> QED
      BY <1>4, <2>1
  <1>7. \A k \in 1 .. n + 1 : k = n + 1 \/ k \in 1 .. n
    OBVIOUS
  <1>8. /\ \A k \in 1 .. n : other[k] = pos[k] /\ pos[k] \in DOMAIN D /\ k \in 1 .. n + 1
        /\ other[n + 1] = len + 1 /\ n + 1 \in 1 .. n + 1
    BY DEF Placed
  <1>9. other \in [1 .. n + 1 -> DOMAIN all]
    <2>1. other = [k \in 1 .. n + 1 |-> other[k]]
      OBVIOUS
    <2> HIDE DEF other
    <2>2. \A k \in 1 .. n + 1 : other[k] \in DOMAIN all
      BY <1>3, <1>6, <1>7, <1>8
    <2> QED
      BY <2>1, <2>2
  <1> HIDE DEF other
  <1>10. ASSUME NEW k \in 1 .. n + 1, NEW l \in 1 .. n + 1, other[k] = other[l] PROVE k = l
    <2>1. \A j \in 1 .. n : other[j] # len + 1
      BY <1>3, <1>8
    <2> QED
      BY <1>7, <1>8, <1>10, <2>1 DEF Placed
  <1>11. ASSUME NEW k \in 1 .. n + 1 PROVE OfType(all[other[k]], types[k])
    <2>1. CASE k = n + 1
      BY <1>6, <1>8, <2>1 DEF Made
    <2>2. CASE k \in 1 .. n
      <3>1. all[other[k]] = D[pos[k]]
        BY <1>3, <1>8, <2>2
      <3> QED
        BY <2>2, <3>1 DEF Placed
    <2> QED
      BY <1>7, <2>1, <2>2
  <1>12. TablesOf(D) \subseteq TablesOf(all) /\ TablesOf(more) \subseteq TablesOf(all)
    BY <1>3, <1>4 DEF TablesOf
  <1>13. ASSUME NEW i \in DOMAIN all, \A k \in 1 .. n + 1 : other[k] # i
         PROVE  \/ \E k \in 1 .. n + 1 : OfEntry(all[i], types[k])
                \/ OfRest(all[i], TablesOf(all))
    <2>1. CASE i \in DOMAIN D
      <3>1. \A k \in 1 .. n : pos[k] # i
        BY <1>8, <1>13
      <3>2. (\E k \in 1 .. n : OfEntry(D[i], types[k])) \/ OfRest(D[i], TablesOf(D))
        BY <2>1, <3>1 DEF Placed
      <3> QED
        BY <1>3, <1>8, <1>12, <2>1, <3>2 DEF OfRest
    <2>2. CASE i \notin DOMAIN D
      <3> DEFINE j == i - len
      <3>1. j \in DOMAIN more /\ len + j = i
        BY <1>5, <2>2
      <3> HIDE DEF j
      <3>2. all[i] = more[j]
        BY <1>4, <3>1
      <3>3. j # 1
        BY <1>8, <1>13, <3>1
      <3>4. OfEntry(more[j], types[n + 1]) \/ OfRest(more[j], TablesOf(more))
        BY <3>1, <3>3 DEF Made
      <3> QED
        BY <1>8, <1>12, <3>2, <3>4 DEF OfRest
    <2> QED
      BY <2>1, <2>2
  <1>14. Placed(all, other, types, n + 1)
    BY <1>2, <1>9, <1>10, <1>11, <1>13 DEF Placed
  <1> QED
    BY <1>14 DEF all

\* The definitions can be put in another order.
LEMMA PlacedAgain ==
  ASSUME NEW D, NEW pos, NEW types, NEW n \in Nat, Placed(D, pos, types, n),
         NEW at, Permutes(at, DOMAIN D)
  PROVE  \E other : Placed(Rearranged(D, at), other, types, n)
  <1> USE DEF Permutes
  <1> DEFINE all == [i \in DOMAIN D |-> D[at[i]]]
             back == [j \in DOMAIN D |-> CHOOSE i \in DOMAIN D : at[i] = j]
             other == [k \in 1 .. n |-> back[pos[k]]]
  <1>1. /\ D \in Seq(AnyDefinition) /\ Len(D) \in Nat /\ DOMAIN D = 1 .. Len(D)
        /\ \A i \in DOMAIN D : D[i] \in AnyDefinition
        /\ pos \in [1 .. n -> DOMAIN D]
    <2>1. D \in Seq(AnyDefinition) /\ pos \in [1 .. n -> DOMAIN D]
      BY DEF Placed
    <2> QED
      BY <2>1, LenProperties
  <1>2. \A i \in DOMAIN D : all[i] = D[at[i]] /\ at[i] \in DOMAIN D
    OBVIOUS
  <1>3. \A j \in DOMAIN D : back[j] \in DOMAIN D /\ at[back[j]] = j
    OBVIOUS
  <1>4. DOMAIN all = DOMAIN D /\ all \in Seq(AnyDefinition)
    <2>1. \A i \in DOMAIN D : D[at[i]] \in AnyDefinition
      BY <1>1, <1>2
    <2> QED
      BY <1>1, <2>1
  <1>5. \A k \in 1 .. n : other[k] = back[pos[k]]
    OBVIOUS
  <1>6. other = [k \in 1 .. n |-> other[k]]
    OBVIOUS
  <1> HIDE DEF all, back, other
  <1>7. \A k \in 1 .. n : pos[k] \in DOMAIN D /\ other[k] \in DOMAIN D /\ at[other[k]] = pos[k]
    BY <1>1, <1>3, <1>5
  <1>8. other \in [1 .. n -> DOMAIN D]
    BY <1>6, <1>7
  <1>9. ASSUME NEW k \in 1 .. n, NEW l \in 1 .. n, other[k] = other[l] PROVE k = l
    <2>1. pos[k] = pos[l]
      BY <1>7, <1>9
    <2> QED
      BY <2>1 DEF Placed
  <1>10. ASSUME NEW k \in 1 .. n PROVE OfType(all[other[k]], types[k])
    <2>1. all[other[k]] = D[pos[k]]
      BY <1>2, <1>7
    <2>2. OfType(D[pos[k]], types[k])
      BY DEF Placed
    <2> QED
      BY <2>1, <2>2
  <1>11. TablesOf(D) \subseteq TablesOf(all)
    <2> SUFFICES ASSUME NEW j \in DOMAIN D, IsTable(D[j]) PROVE D[j].name \in TablesOf(all)
      BY DEF TablesOf
    <2>1. back[j] \in DOMAIN all /\ all[back[j]] = D[j]
      BY <1>2, <1>3, <1>4
    <2> QED
      BY <2>1 DEF TablesOf
  <1>12. ASSUME NEW i \in DOMAIN D, \A k \in 1 .. n : other[k] # i
         PROVE  \/ \E k \in 1 .. n : OfEntry(all[i], types[k])
                \/ OfRest(all[i], TablesOf(all))
    <2>1. \A k \in 1 .. n : pos[k] # at[i]
      BY <1>7, <1>12
    <2>2. (\E k \in 1 .. n : OfEntry(D[at[i]], types[k])) \/ OfRest(D[at[i]], TablesOf(D))
      BY <1>2, <2>1 DEF Placed
    <2> QED
      BY <1>2, <1>11, <2>2 DEF OfRest
  <1>13. Placed(all, other, types, n)
    BY <1>4, <1>8, <1>9, <1>10, <1>12 DEF Placed
  <1> QED
    BY <1>13 DEF all, Rearranged

\* The definitions of all types of the schema.
AllPlaced(pos) == Placed(definitions, pos, schema.types, Len(schema.types))

\* No definition has the name of a table of another one.
Unique(D) ==
    \A i, j \in DOMAIN D : IsTable(D[i]) /\ D[i].name = D[j].name => i = j

\* Where no names meet, a table is alone with its name.
LEMMA ClearUnique ==
  ASSUME definitions \in Seq(AnyDefinition), ~NamesClash, ~FunctionNamedAsTable
  PROVE  Unique(definitions)
  <1> SUFFICES ASSUME NEW i \in DOMAIN definitions, NEW j \in DOMAIN definitions,
                      IsTable(definitions[i]), definitions[i].name = definitions[j].name
               PROVE  i = j
    BY DEF Unique
  <1> DEFINE d == definitions[j]
  <1>1. d \in AnyDefinition
    BY LenProperties
  <1> HIDE DEF d
  <1>2. d.kind \in {"table", "enum", "index", "abandon", "prevent"}
    BY <1>1 DEF AnyDefinition, AnyTable, AnyRest
  <1>3. definitions[i].kind \in {"table", "enum"}
    BY DEF IsTable
  <1>4. d.kind \notin {"abandon", "prevent"}
    BY <1>3 DEF FunctionNamedAsTable, d
  <1>5. d.kind \in {"table", "enum", "index"}
    BY <1>2, <1>4
  <1> QED
    BY <1>3, <1>5 DEF NamesClash, d

\* Nothing more is carved from the names of the definitions.
LEMMA AllShort ==
  ASSUME schema \in Schemas, NEW pos, AllPlaced(pos), NEW i \in DOMAIN definitions
  PROVE  Short(definitions[i]) /\ definitions[i] \in AnyDefinition
  <1>1. definitions[i] \in AnyDefinition
    <2>1. definitions \in Seq(AnyDefinition)
      BY DEF AllPlaced, Placed
    <2> QED
      BY <2>1, LenProperties
  <1>2. CASE \E k \in 1 .. Len(schema.types) : pos[k] = i
    BY <1>1, <1>2 DEF AllPlaced, Placed, OfType
  <1>3. CASE \A k \in 1 .. Len(schema.types) : pos[k] # i
    <2>1. \/ \E k \in 1 .. Len(schema.types) : OfEntry(definitions[i], schema.types[k])
          \/ OfRest(definitions[i], TablesOf(definitions))
      BY <1>3 DEF AllPlaced, Placed
    <2> QED
      BY <1>1, <2>1 DEF OfEntry, OfRest
  <1> QED
    BY <1>2, <1>3

\* What a definition needs is a type's table, or a table next to it.
LEMMA NeededAreThere ==
  ASSUME schema \in Schemas, NEW pos, AllPlaced(pos), NEW i \in DOMAIN definitions,
         NEW n \in Needs(definitions[i])
  PROVE  /\ Carved(n) \in TablesOf(definitions)
         /\ n = Carved(n) \/ \E k \in DOMAIN schema.types : n \in Refs(schema.types[k])
         /\ IsTable(definitions[i]) =>
               \E l \in DOMAIN schema.types : Carved(n) = Carved(schema.types[l].name)
  <1> DEFINE types == schema.types
             len == Len(types)
             d == definitions[i]
             tables == TablesOf(definitions)
  <1>1. /\ DOMAIN types = 1 .. len /\ len \in Nat
        /\ \A k \in DOMAIN types :
              \A name \in Refs(types[k]) : \E l \in DOMAIN types : types[l].name = name
    BY SchemasAre
  <1>2. /\ \A k \in DOMAIN types : pos[k] \in DOMAIN definitions /\
                  OfType(definitions[pos[k]], types[k])
        /\ (\A k \in DOMAIN types : pos[k] # i) =>
              (\E k \in DOMAIN types : OfEntry(d, types[k])) \/ OfRest(d, tables)
    BY <1>1 DEF AllPlaced, Placed
  <1>3. \A k \in DOMAIN types : Carved(types[k].name) \in tables
    BY <1>2 DEF OfType, TablesOf
  <1>4. \A x \in tables : Carved(x) = x
    BY AllShort DEF TablesOf, Short, ShortName
  <1>5. ASSUME NEW k \in DOMAIN types, n \in Refs(types[k])
        PROVE  Carved(n) \in tables /\ \E l \in DOMAIN types : Carved(n) = Carved(types[l].name)
    BY <1>1, <1>3, <1>5
  <1>6. CASE \E k \in DOMAIN types : pos[k] = i
    <2>1. PICK k \in DOMAIN types : pos[k] = i
      BY <1>6
    <2>2. n \in Refs(types[k])
      <3>1. n \in Embedded(types[k])
        BY <1>2, <2>1 DEF OfType
      <3> QED
        BY <3>1, RefersToTypes
    <2> QED
      BY <1>5, <2>2
  <1>7. CASE \E k \in DOMAIN types : OfEntry(d, types[k])
    <2>1. PICK k \in DOMAIN types : OfEntry(d, types[k])
      BY <1>7
    <2>2. n = Carved(types[k].name) \/ n \in Refs(types[k])
      BY <2>1 DEF OfEntry
    <2>3. CASE n \in Refs(types[k])
      BY <1>5, <2>3
    <2>4. CASE n = Carved(types[k].name)
      <3>1. n \in tables /\ Carved(n) = n
        BY <1>3, <1>4, <2>4
      <3> QED
        BY <2>4, <3>1
    <2> QED
      BY <2>2, <2>3, <2>4
  <1>8. CASE OfRest(d, tables)
    <2>1. d \in AnyRest /\ d.on \in tables
      BY <1>8 DEF OfRest
    <2>2. d.kind \notin {"table", "enum"}
      BY <2>1 DEF AnyRest
    <2>3. n = d.on /\ ~IsTable(d)
      BY <2>2 DEF Needs, IsTable
    <2> QED
      BY <1>4, <2>1, <2>3
  <1> QED
    BY <1>2, <1>6, <1>7, <1>8

\* Where the names do not meet, the walk goes on to tables.
LEMMA NeededAreTables ==
  ASSUME schema \in Schemas, NEW pos, AllPlaced(pos), Unique(definitions),
         NEW i \in DOMAIN definitions, NEW j \in DOMAIN definitions,
         definitions[j].name \in Needs(definitions[i])
  PROVE  IsTable(definitions[j])
  <1> DEFINE n == definitions[j].name
  <1>1. Carved(n) = n
    BY AllShort DEF Short, ShortName
  <1>2. n \in TablesOf(definitions)
    BY <1>1, NeededAreThere
  <1>3. PICK l \in DOMAIN definitions : IsTable(definitions[l]) /\ definitions[l].name = n
    BY <1>2 DEF TablesOf
  <1> QED
    BY <1>3 DEF Unique

\* How deep the walk can find a name: a function or an index nowhere, a list's
\* entries from their index, a type behind those that refer to it.
Owners(x) == {k \in DOMAIN schema.types : Carved(schema.types[k].name) = x}
Level(x) ==
    IF Owners(x) # {}
    THEN 2 + Cardinality(Above(schema.types[CHOOSE k \in Owners(x) : TRUE].name))
    ELSE IF x \in TablesOf(definitions) THEN 1 ELSE 0

\* No name is found deeper than the stack has room for.
LEMMA LevelBounded ==
  ASSUME schema \in Schemas, ~Circular, NEW x
  PROVE  Level(x) \in Nat /\ Level(x) <= MaxDepth
  <1> DEFINE k == CHOOSE k \in Owners(x) : TRUE
             types == schema.types
  <1>1. Len(types) \in Nat /\ MaxDepth \in Nat /\ Len(types) < MaxDepth
    BY SchemasAre
  <1>2. CASE Owners(x) # {}
    <2>1. k \in DOMAIN types
      BY <1>2 DEF Owners
    <2>2. types[k].name \in TypeNames
      BY <2>1, RefersToTypes
    <2>3. Cardinality(Above(types[k].name)) \in Nat
          /\ Cardinality(Above(types[k].name)) < Len(types)
      BY <2>2, AboveBounded
    <2>4. Level(x) = 2 + Cardinality(Above(types[k].name))
      BY <1>2 DEF Level
    <2> QED
      BY <1>1, <2>3, <2>4
  <1>3. CASE Owners(x) = {}
    <2>1. Level(x) = 0 \/ Level(x) = 1
      BY <1>3 DEF Level
    <2>2. 1 <= MaxDepth
      BY <1>1
    <2> QED
      BY <1>1, <2>1, <2>2
  <1> QED
    BY <1>2, <1>3

\* The level of a type's table.
LEMMA LevelOfType ==
  ASSUME schema \in Schemas, NEW pos, AllPlaced(pos), Unique(definitions),
         NEW k \in DOMAIN schema.types
  PROVE  /\ Level(Carved(schema.types[k].name)) = 2 + Cardinality(Above(schema.types[k].name))
         /\ Owners(Carved(schema.types[k].name)) = {k}
  <1> DEFINE types == schema.types
             x == Carved(types[k].name)
  <1>1. DOMAIN types = 1 .. Len(types)
    BY SchemasAre
  <1>2. /\ \A l \in DOMAIN types : pos[l] \in DOMAIN definitions /\
                  OfType(definitions[pos[l]], types[l])
        /\ \A l, m \in DOMAIN types : pos[l] = pos[m] => l = m
    BY <1>1 DEF AllPlaced, Placed
  <1>3. ASSUME NEW l \in Owners(x) PROVE l = k
    <2>1. l \in DOMAIN types /\ Carved(types[l].name) = x
      BY DEF Owners
    <2>2. pos[l] = pos[k]
      BY <1>2, <2>1 DEF OfType, Unique
    <2> QED
      BY <1>2, <2>1, <2>2
  <1>4. Owners(x) = {k}
    BY <1>3 DEF Owners
  <1>5. Level(x) = 2 + Cardinality(Above(types[CHOOSE l \in {k} : TRUE].name))
    BY <1>4 DEF Level
  <1>6. (CHOOSE l \in {k} : TRUE) = k
    OBVIOUS
  <1> QED
    BY <1>4, <1>5, <1>6

\* What is needed is on a higher level.
LEMMA LevelRises ==
  ASSUME schema \in Schemas, ~Circular, NEW pos, AllPlaced(pos), Unique(definitions),
         NEW i \in DOMAIN definitions, NEW j \in DOMAIN definitions,
         definitions[j].name \in Needs(definitions[i])
  PROVE  Level(definitions[i].name) < Level(definitions[j].name)
  <1> DEFINE types == schema.types
             len == Len(types)
             d == definitions[i]
             n == definitions[j].name
             tables == TablesOf(definitions)
  <1>1. DOMAIN types = 1 .. len
    BY SchemasAre
  <1>2. /\ \A k \in DOMAIN types : pos[k] \in DOMAIN definitions /\
                  OfType(definitions[pos[k]], types[k])
        /\ (\A k \in DOMAIN types : pos[k] # i) =>
              (\E k \in DOMAIN types : OfEntry(d, types[k])) \/ OfRest(d, tables)
    BY <1>1 DEF AllPlaced, Placed
  <1>3. Carved(n) = n
    BY AllShort DEF Short, ShortName
  <1>4. Level(n) \in Nat /\ Level(d.name) \in Nat
    BY LevelBounded
  <1>5. IsTable(definitions[j])
    BY NeededAreTables
  <1>6. CASE \E k \in DOMAIN types : pos[k] = i
    <2>1. PICK k \in DOMAIN types : pos[k] = i
      BY <1>6
    <2>2. n \in Embedded(types[k]) /\ d.name = Carved(types[k].name)
      BY <1>2, <2>1 DEF OfType
    <2>3. n \in RefersTo(types[k].name) /\ types[k].name \in TypeNames
      BY <2>2, RefersToTypes
    <2>4. PICK l \in DOMAIN types : types[l].name = n
      BY <2>3, RefersToTypes
    <2>5. Level(d.name) = 2 + Cardinality(Above(types[k].name))
      BY <2>2, LevelOfType
    <2>6. Level(n) = 2 + Cardinality(Above(n))
      BY <1>3, <2>4, LevelOfType
    <2>7. /\ Cardinality(Above(types[k].name)) \in Nat /\ Cardinality(Above(n)) \in Nat
          /\ Cardinality(Above(types[k].name)) < Cardinality(Above(n))
      BY <2>3, AboveRises
    <2> QED
      BY <2>5, <2>6, <2>7
  <1>7. CASE ~(\E k \in DOMAIN types : pos[k] = i)
    <2>1. ASSUME IsTable(d) PROVE Owners(d.name) = {}
      <3> SUFFICES ASSUME NEW k \in Owners(d.name) PROVE FALSE
        OBVIOUS
      <3>1. k \in DOMAIN types /\ Carved(types[k].name) = d.name
        BY DEF Owners
      <3>2. pos[k] = i
        BY <1>2, <2>1, <3>1 DEF OfType, Unique
      <3> QED
        BY <1>7, <3>1, <3>2
    <2>2. CASE IsTable(d)
      <3>1. Level(d.name) <= 1
        BY <2>1, <2>2 DEF Level
      <3>2. PICK l \in DOMAIN types : Carved(types[l].name) = n
        BY <1>3, <2>2, NeededAreThere
      <3>3. Level(n) = 2 + Cardinality(Above(types[l].name))
        BY <3>2, LevelOfType
      <3>4. Cardinality(Above(types[l].name)) \in Nat
        BY AboveBounded, RefersToTypes
      <3> QED
        BY <1>4, <3>1, <3>3, <3>4
    <2>3. CASE ~IsTable(d)
      <3>1. d.name \notin tables
        <4>1. ASSUME NEW l \in DOMAIN definitions, IsTable(definitions[l]),
                     definitions[l].name = d.name
              PROVE  FALSE
          <5>1. l = i
            BY <4>1 DEF Unique
          <5> QED
            BY <2>3, <4>1, <5>1
        <4> QED
          BY <4>1 DEF TablesOf
      <3>2. Owners(d.name) = {}
        BY <1>2, <3>1 DEF Owners, OfType, TablesOf
      <3>3. Level(d.name) = 0
        BY <3>1, <3>2 DEF Level
      <3>4. n \in tables
        BY <1>5 DEF TablesOf
      <3>5. Level(n) # 0
        <4>1. CASE Owners(n) = {}
          BY <3>4, <4>1 DEF Level
        <4>2. CASE Owners(n) # {}
          <5>1. PICK l \in DOMAIN types : Carved(types[l].name) = n
            BY <4>2 DEF Owners
          <5>2. Level(n) = 2 + Cardinality(Above(types[l].name))
            BY <5>1, LevelOfType
          <5>3. Cardinality(Above(types[l].name)) \in Nat
            BY AboveBounded, RefersToTypes
          <5> QED
            BY <5>2, <5>3
        <4> QED
          BY <4>1, <4>2
      <3> QED
        BY <1>4, <3>3, <3>5
    <2> QED
      BY <2>2, <2>3
  <1> QED
    BY <1>6, <1>7

-----------------------------------------------------------------------------
(* The execution of the file *)

IsRelation(d) == d.kind \in {"table", "enum", "index"}

\* A definition that can be executed when the first n have been.
Fits(D, n, d) ==
    /\ IsRelation(d) => \A j \in 1 .. n : IsRelation(D[j]) => D[j].name # d.name
    /\ d.kind = "table" =>
          Plain(d) /\ \A x \in Needs(d) : \E j \in 1 .. n : IsTable(D[j]) /\ D[j].name = Carved(x)
    /\ ~IsTable(d) => \E j \in 1 .. n : IsTable(D[j]) /\ D[j].name = d.on

\* The first n definitions have been executed.
Executed(D, n) ==
    created \in Seq(AnyDefinition) /\ Len(created) = n /\ \A i \in 1 .. n : created[i] = D[i]

\* What the database asks for.
LEMMA ExecutableIs ==
  ASSUME NEW D, NEW n \in Nat, Executed(D, n), NEW d \in AnyDefinition
  PROVE  Executable(d) <=> Fits(D, n, d)
  <1>1. DOMAIN created = 1 .. n /\ \A i \in 1 .. n : created[i] = D[i]
    <2>1. created \in Seq(AnyDefinition) /\ Len(created) = n /\ \A i \in 1 .. n : created[i] = D[i]
      BY DEF Executed
    <2> QED
      BY <2>1, LenProperties
  <1>2. \A x : x \in Relations <=> \E j \in 1 .. n : IsRelation(D[j]) /\ D[j].name = x
    BY <1>1 DEF Relations, IsRelation
  <1>3. \A x : x \in TableNames <=> \E j \in 1 .. n : IsTable(D[j]) /\ D[j].name = x
    <2>1. \A e : e \in Tables <=> \E j \in 1 .. n : IsTable(D[j]) /\ e = D[j]
      BY <1>1 DEF Tables, IsTable
    <2> QED
      BY <2>1 DEF TableNames
  <1>4. d.kind \in {"table", "enum", "index", "abandon", "prevent"}
    BY DEF AnyDefinition, AnyTable, AnyRest
  <1>5. CASE d.kind = "table"
    <2> DEFINE columns == d.columns
               names == [i \in DOMAIN columns |-> columns[i].name]
    <2>1. IsInjective(names) <=> NamedOnce(columns)
      BY DEF IsInjective, NamedOnce
    <2>2. ToSet(names) = NamesOf(columns)
      BY DEF ToSet, NamesOf
    <2>3. Executable(d) <=>
            /\ d.name \notin Relations /\ IsInjective(names)
               /\ ToSet(d.oneNotNull) \subseteq ToSet(names)
            /\ \A c \in ToSet(columns) :
                /\ c.sql # "array"
                /\ c.sql = "references" => Carved(c.to) \in TableNames
      BY <1>5 DEF Executable, References
    <2> HIDE DEF names, columns
    <2>4. (\A c \in ToSet(columns) : c.sql = "references" => Carved(c.to) \in TableNames)
            <=> \A x \in Needs(d) : Carved(x) \in TableNames
      BY <1>5 DEF Needs, RefsOf, columns
    <2>5. Executable(d) <=>
            /\ d.name \notin Relations /\ NamedOnce(columns)
            /\ ToSet(d.oneNotNull) \subseteq NamesOf(columns)
            /\ \A c \in ToSet(columns) : c.sql # "array"
            /\ \A x \in Needs(d) : Carved(x) \in TableNames
      BY <2>1, <2>2, <2>3, <2>4
    <2>6. Plain(d) <=> /\ NamedOnce(columns) /\ ToSet(d.oneNotNull) \subseteq NamesOf(columns)
                       /\ \A c \in ToSet(columns) : c.sql # "array"
      BY DEF Plain, columns
    <2>7. Executable(d) <=> /\ d.name \notin Relations /\ Plain(d)
                            /\ \A x \in Needs(d) : Carved(x) \in TableNames
      BY <2>5, <2>6
    <2>8. IsRelation(d) /\ IsTable(d)
      BY <1>5 DEF IsRelation, IsTable
    <2> QED
      BY <1>2, <1>3, <1>5, <2>7, <2>8 DEF Fits
  <1>6. CASE d.kind = "enum"
    <2>1. Executable(d) <=> d.name \notin Relations
      BY <1>6 DEF Executable
    <2>2. IsRelation(d) /\ IsTable(d)
      BY <1>6 DEF IsRelation, IsTable
    <2> QED
      BY <1>2, <1>6, <2>1, <2>2 DEF Fits
  <1>7. CASE d.kind = "index"
    <2>1. Executable(d) <=> d.name \notin Relations /\ d.on \in TableNames
      BY <1>7 DEF Executable
    <2>2. IsRelation(d) /\ ~IsTable(d)
      BY <1>7 DEF IsRelation, IsTable
    <2> QED
      BY <1>2, <1>3, <1>7, <2>1, <2>2 DEF Fits
  <1>8. CASE d.kind \in {"abandon", "prevent"}
    <2>1. Executable(d) <=> d.on \in TableNames
      BY <1>8 DEF Executable
    <2>2. ~IsRelation(d) /\ ~IsTable(d) /\ d.kind # "table"
      BY <1>8 DEF IsRelation, IsTable
    <2> QED
      BY <1>3, <2>1, <2>2 DEF Fits
  <1> QED
    BY <1>4, <1>5, <1>6, <1>7, <1>8

\* Each definition comes behind the tables it needs.
Ordered(D) ==
    \A i, j \in DOMAIN D : D[j].name \in Needs(D[i]) => j < i

\* A definition behind the tables it needs can be executed.
LEMMA FitsWhenClear ==
  ASSUME schema \in Schemas, NEW pos, AllPlaced(pos), Ordered(definitions),
         ~LongNameReferred, ~AlternativeNotSupported, ~NamesClash,
         NEW i \in DOMAIN definitions
  PROVE  Fits(definitions, i - 1, definitions[i])
  <1> DEFINE d == definitions[i]
             types == schema.types
             len == Len(types)
  <1>1. DOMAIN types = 1 .. len /\ \A k \in DOMAIN types : types[k] \in ToSet(types)
    BY SchemasAre DEF ToSet
  <1>2. /\ \A k \in DOMAIN types : OfType(definitions[pos[k]], types[k])
        /\ (\A k \in DOMAIN types : pos[k] # i) =>
              (\E k \in DOMAIN types : OfEntry(d, types[k])) \/ OfRest(d, TablesOf(definitions))
    BY <1>1 DEF AllPlaced, Placed
  <1>3. d \in AnyDefinition
    BY AllShort
  <1>4. DOMAIN definitions = 1 .. Len(definitions) /\ Len(definitions) \in Nat
    <2>1. definitions \in Seq(AnyDefinition)
      BY DEF AllPlaced, Placed
    <2> QED
      BY <2>1, LenProperties
  <1>5. /\ \A j \in 1 .. i - 1 : j \in DOMAIN definitions /\ j # i
        /\ \A j \in DOMAIN definitions : j < i => j \in 1 .. i - 1
    BY <1>4
  <1>6. ASSUME IsRelation(d), NEW j \in 1 .. i - 1, IsRelation(definitions[j])
        PROVE  definitions[j].name # d.name
    BY <1>5, <1>6 DEF NamesClash, IsRelation
  <1>7. ASSUME NEW x \in Needs(d)
        PROVE  \E j \in 1 .. i - 1 : IsTable(definitions[j]) /\ definitions[j].name = Carved(x)
    <2>1. Carved(x) \in TablesOf(definitions)
      BY NeededAreThere
    <2>2. PICK j \in DOMAIN definitions : IsTable(definitions[j]) /\ definitions[j].name = Carved(x)
      BY <2>1 DEF TablesOf
    <2>3. x = Carved(x)
      BY <1>1, NeededAreThere DEF LongNameReferred
    <2>4. j < i
      BY <2>2, <2>3 DEF Ordered
    <2> QED
      BY <1>5, <2>2, <2>4
  <1>8. ASSUME d.kind = "table" PROVE Plain(d)
    <2>1. CASE \E k \in DOMAIN types : pos[k] = i
      <3>1. PICK k \in DOMAIN types : pos[k] = i
        BY <2>1
      <3>2. OfType(d, types[k])
        BY <1>2, <3>1
      <3>3. Supported(types[k])
        BY <1>1 DEF Supported, AlternativeNotSupported
      <3> QED
        BY <1>8, <3>2, <3>3 DEF OfType
    <2>2. CASE \E k \in DOMAIN types : OfEntry(d, types[k])
      BY <2>2 DEF OfEntry
    <2>3. CASE OfRest(d, TablesOf(definitions))
      BY <1>8, <2>3 DEF OfRest, AnyRest
    <2> QED
      BY <1>2, <2>1, <2>2, <2>3
  <1>9. ASSUME ~IsTable(d)
        PROVE  \E j \in 1 .. i - 1 : IsTable(definitions[j]) /\ definitions[j].name = d.on
    <2>1. Needs(d) = {d.on}
      BY <1>9 DEF IsTable, Needs
    <2>2. Carved(d.on) = d.on
      <3>1. d.on \in TablesOf(definitions)
        <4>1. ~(\E k \in DOMAIN types : pos[k] = i)
          BY <1>2, <1>9 DEF OfType
        <4>2. ~(\E k \in DOMAIN types : OfEntry(d, types[k]))
          BY <1>9 DEF OfEntry, AnyTable, IsTable
        <4> QED
          BY <1>2, <4>1, <4>2 DEF OfRest
      <3> QED
        BY <3>1, AllShort DEF TablesOf, Short, ShortName
    <2> QED
      BY <1>7, <2>1, <2>2
  <1> QED
    BY <1>6, <1>7, <1>8, <1>9 DEF Fits

\* Where all could be executed, no names meet and the types are not in a circle.
LEMMA FitsOnlyClear ==
  ASSUME schema \in Schemas, NEW pos, AllPlaced(pos),
         \A i \in DOMAIN definitions : Fits(definitions, i - 1, definitions[i])
  PROVE  ~Circular /\ ~AlternativeNotSupported /\ ~NamesClash
  <1> DEFINE types == schema.types
             len == Len(types)
  <1>1. DOMAIN types = 1 .. len /\ ToSet(types) = {types[k] : k \in DOMAIN types}
    BY SchemasAre DEF ToSet
  <1>2. /\ \A k \in DOMAIN types : pos[k] \in DOMAIN definitions /\
                  OfType(definitions[pos[k]], types[k])
        /\ \A k, l \in DOMAIN types : pos[k] = pos[l] => k = l
    BY <1>1 DEF AllPlaced, Placed
  <1>3. DOMAIN definitions = 1 .. Len(definitions) /\ Len(definitions) \in Nat
    <2>1. definitions \in Seq(AnyDefinition)
      BY DEF AllPlaced, Placed
    <2> QED
      BY <2>1, LenProperties
  <1>4. \A i, j \in DOMAIN definitions : i \in Int /\ (j < i => j \in 1 .. i - 1)
    BY <1>3
  <1>5. ASSUME NEW i \in DOMAIN definitions, NEW j \in DOMAIN definitions,
               IsRelation(definitions[i]), IsRelation(definitions[j]),
               definitions[i].name = definitions[j].name
        PROVE  i = j
    <2>1. ~(j < i)
      BY <1>4, <1>5 DEF Fits
    <2>2. ~(i < j)
      BY <1>4, <1>5 DEF Fits
    <2> QED
      BY <1>4, <2>1, <2>2
  <1>6. ~NamesClash
    BY <1>5 DEF NamesClash, IsRelation
  <1>7. ASSUME NEW k \in DOMAIN types PROVE Supported(types[k])
    <2> DEFINE d == definitions[pos[k]]
    <2>1. OfType(d, types[k]) /\ Fits(definitions, pos[k] - 1, d)
      BY <1>2
    <2> HIDE DEF d
    <2>2. CASE types[k].kind = "choice"
      BY <2>1, <2>2 DEF OfType, Fits
    <2>3. CASE types[k].kind # "choice"
      BY <2>3 DEF Supported
    <2> QED
      BY <2>2, <2>3
  <1>8. ~AlternativeNotSupported
    BY <1>1, <1>7 DEF AlternativeNotSupported, Supported
  <1>9. ASSUME NEW k \in DOMAIN types, NEW l \in DOMAIN types,
               Carved(types[k].name) = Carved(types[l].name)
        PROVE  k = l
    <2>1. /\ IsRelation(definitions[pos[k]]) /\ IsRelation(definitions[pos[l]])
          /\ definitions[pos[k]].name = definitions[pos[l]].name
      BY <1>2, <1>9 DEF OfType, IsTable, IsRelation
    <2> QED
      BY <1>2, <1>5, <2>1
  <1>10. ASSUME NEW k \in DOMAIN types, NEW m \in Embedded(types[k])
         PROVE  \E l \in DOMAIN types : types[l].name = m /\ pos[l] < pos[k]
    <2> DEFINE i == pos[k]
               d == definitions[i]
    <2>1. i \in DOMAIN definitions /\ OfType(d, types[k]) /\ Fits(definitions, i - 1, d)
      BY <1>2
    <2>2. PICK l \in DOMAIN types : types[l].name = m
      <3>1. m \in Refs(types[k])
        BY RefersToTypes
      <3> QED
        BY <3>1, SchemasAre
    <2> HIDE DEF i, d
    <2>3. m \in Needs(d) /\ d.kind = "table"
      <3>1. m \in Needs(d) /\ IsTable(d)
        BY <2>1 DEF OfType
      <3> QED
        BY <3>1 DEF Needs, IsTable
    <2>4. PICK j \in 1 .. i - 1 : IsTable(definitions[j]) /\ definitions[j].name = Carved(m)
      BY <2>1, <2>3 DEF Fits
    <2>5. j \in DOMAIN definitions /\ j < i
      BY <1>3, <2>1, <2>4
    <2>6. /\ IsRelation(definitions[j]) /\ IsRelation(definitions[pos[l]])
          /\ definitions[pos[l]].name = definitions[j].name
      BY <1>2, <2>2, <2>4 DEF OfType, IsTable, IsRelation
    <2>7. pos[l] = j
      BY <1>2, <1>5, <2>5, <2>6
    <2> QED
      BY <2>2, <2>5, <2>7 DEF i
  <1>11. ~Circular
    <2> SUFFICES ASSUME NEW n \in TypeNames, n \in Reached(RefersTo(n)) PROVE FALSE
      BY DEF Circular
    <2>1. PICK top \in DOMAIN types : types[top].name = n
      BY RefersToTypes
    <2> DEFINE closed == {types[k].name : k \in {k \in DOMAIN types : pos[k] < pos[top]}}
    <2>2. closed \in SUBSET TypeNames
      BY RefersToTypes
    <2>3. ASSUME NEW k \in DOMAIN types, NEW m \in RefersTo(types[k].name)
          PROVE  \E l \in DOMAIN types : types[l].name = m /\ pos[l] < pos[k]
      <3>1. PICK other \in DOMAIN types : types[other].name = types[k].name
                 /\ m \in Embedded(types[other])
        BY RefersToTypes
      <3>2. other = k
        BY <1>9, <3>1
      <3> QED
        BY <1>10, <3>1, <3>2
    <2>4. RefersTo(n) \subseteq closed
      BY <2>1, <2>3
    <2>5. \A k \in DOMAIN types : pos[k] \in Int
      BY <1>2, <1>3
    <2>6. ASSUME NEW m \in closed, NEW x \in RefersTo(m) PROVE x \in closed
      <3>1. PICK k \in DOMAIN types : types[k].name = m /\ pos[k] < pos[top]
        BY <2>6
      <3>2. PICK l \in DOMAIN types : types[l].name = x /\ pos[l] < pos[k]
        BY <2>3, <2>6, <3>1
      <3>3. pos[l] < pos[top]
        BY <2>5, <3>1, <3>2
      <3> QED
        BY <3>2, <3>3
    <2>7. n \in closed
      <3> HIDE DEF closed
      <3>1. \A m \in closed : RefersTo(m) \subseteq closed
        BY <2>6
      <3> QED
        BY <2>2, <2>4, <3>1 DEF Reached
    <2>8. PICK k \in DOMAIN types : types[k].name = n /\ pos[k] < pos[top]
      BY <2>7
    <2>9. k = top
      BY <1>9, <2>1, <2>8
    <2> QED
      BY <2>5, <2>8, <2>9
  <1> QED
    BY <1>6, <1>8, <1>11

-----------------------------------------------------------------------------
(* The inductive invariant *)

Calls == ToSet(frames)
AnyCall == [at : DOMAIN definitions, depth : Nat]

Typed ==
    /\ schema \in Schemas
    /\ definitions \in Seq(AnyDefinition)
    /\ next \in Nat \ {0}

\* The types before the next one have their definitions.
Converting ==
    phase = "convert" =>
        /\ next <= Len(schema.types) + 1
        /\ \E pos : Placed(definitions, pos, schema.types, next - 1)
        /\ depths = << >> /\ frames = << >> /\ created = << >>

AllConverted == phase \in {"walk", "create"} => \E pos : AllPlaced(pos)

\* Each definition that the walk has started at has a depth, or is about to.
Visiting ==
    phase = "walk" =>
        /\ created = << >>
        /\ frames \in Seq(AnyCall)
        /\ \A x \in DOMAIN depths : depths[x] \in Nat
        /\ \A i \in DOMAIN definitions :
              i < next => \/ definitions[i].name \in DOMAIN depths
                          \/ \E c \in Calls : c.at = i

\* The name is deeper, or there is a call that puts it deeper.
Deeper(x, depth) ==
    \/ x \in DOMAIN depths /\ depths[x] > depth
    \/ \E c \in Calls : definitions[c.at].name = x /\ c.depth > depth

\* What the definition needs is deeper than the definition.
Settled(i) ==
    /\ definitions[i].name \in DOMAIN depths
    /\ \A j \in DOMAIN definitions :
          definitions[j].name \in Needs(definitions[i])
            => Deeper(definitions[j].name, depths[definitions[i].name])

\* Only tables are deeper than where the walk starts, and each definition that
\* the walk has started at is settled, or about to be.
Walking ==
    phase = "walk" /\ Unique(definitions) =>
        /\ \A c \in Calls : IsTable(definitions[c.at]) \/ c.depth = 0
        /\ \A x \in DOMAIN depths : x \in TablesOf(definitions) \/ depths[x] = 0
        /\ \A i \in DOMAIN definitions : i < next => Settled(i) \/ \E c \in Calls : c.at = i

\* The walk ends where there is no circle.
Bounded ==
    phase = "walk" /\ Unique(definitions) /\ ~Circular =>
        /\ \A c \in Calls : c.depth <= Level(definitions[c.at].name)
        /\ \A x \in DOMAIN depths : depths[x] <= Level(x)

\* What has been executed, and the order of what has not.
Creating ==
    phase = "create" =>
        /\ next <= Len(definitions) + 1
        /\ Executed(definitions, next - 1)
        /\ \A i \in DOMAIN definitions : i < next => Fits(definitions, i - 1, definitions[i])
        /\ Unique(definitions) => Ordered(definitions)

CreatedInv ==
    /\ Typed /\ Converting /\ AllConverted /\ Visiting /\ Walking /\ Bounded /\ Creating
    /\ CreatedAsDeclared

\* Nothing is converted, walked or created at first.
LEMMA InitCreated == SchemaInit => CreatedInv
  <1> SUFFICES ASSUME SchemaInit PROVE CreatedInv
    OBVIOUS
  <1> USE DEF SchemaInit
  <1>1. Typed
    BY DEF Typed
  <1>2. Converting
    <2> DEFINE none == << >>
    <2>1. none \in Seq(AnyDefinition) /\ DOMAIN none = {} /\ none \in [1 .. 0 -> {}]
      OBVIOUS
    <2> HIDE DEF none
    <2>2. Placed(none, none, schema.types, 0)
      BY <2>1 DEF Placed
    <2>3. Len(schema.types) \in Nat
      BY SchemasAre
    <2>4. next - 1 = 0 /\ definitions = none /\ next <= Len(schema.types) + 1
      BY <2>3 DEF none
    <2> QED
      BY <2>2, <2>4 DEF Converting
  <1>3. AllConverted /\ Visiting /\ Walking /\ Bounded /\ Creating /\ CreatedAsDeclared
    BY DEF AllConverted, Visiting, Walking, Bounded, Creating, CreatedAsDeclared
  <1> QED
    BY <1>1, <1>2, <1>3 DEF CreatedInv

\* A type is converted.
LEMMA StepConvert ==
  ASSUME CreatedInv, Convert
  PROVE  CreatedInv'
  <1> USE DEF CreatedInv
  <1> DEFINE types == schema.types
             more == DefinitionToSql(types[next])
  <1>1. /\ types \in Seq(AnyType) /\ Len(types) \in Nat /\ DOMAIN types = 1 .. Len(types)
        /\ \A k \in DOMAIN types : types[k] \in AnyType /\ WellFormed(types[k])
    BY SchemasAre DEF Typed
  <1>2. /\ phase = "convert" /\ next <= Len(types) + 1 /\ next \in Nat /\ next >= 1
        /\ depths = << >> /\ frames = << >> /\ created = << >>
        /\ UNCHANGED << schema, depths, frames, created >>
        /\ definitions \in Seq(AnyDefinition) /\ schema \in Schemas
    BY DEF Convert, Converting, Typed
  <1>3. PICK pos : Placed(definitions, pos, types, next - 1)
    BY <1>2 DEF Converting
  <1> HIDE DEF types, CreatedInv
  <1>4. CASE next <= Len(types)
    <2>1. /\ definitions' = definitions \o more /\ next' = next + 1 /\ phase' = "convert"
      BY <1>2, <1>4 DEF Convert, types
    <2>2. next \in DOMAIN types /\ next - 1 \in Nat /\ (next - 1) + 1 = next
      BY <1>1, <1>2, <1>4
    <2>3. Made(more, types[next])
      BY <1>1, <2>2, Converted
    <2> HIDE DEF more
    <2>4. Made(more, types[(next - 1) + 1])
      BY <2>2, <2>3
    <2>5. \E other : Placed(definitions \o more, other, types, (next - 1) + 1)
      BY <1>3, <2>2, <2>4, PlacedNext
    <2>6. \E other : Placed(definitions', other, types, next' - 1)
      BY <1>2, <2>1, <2>2, <2>5
    <2>7. definitions' \in Seq(AnyDefinition)
      BY <2>6 DEF Placed
    <2>8. Typed'
      BY <1>2, <2>1, <2>7 DEF Typed
    <2>9. Converting'
      BY <1>1, <1>2, <1>4, <2>1, <2>6 DEF Converting, types
    <2>10. (AllConverted /\ Visiting /\ Walking /\ Bounded /\ Creating /\ CreatedAsDeclared)'
      BY <2>1 DEF AllConverted, Visiting, Walking, Bounded, Creating, CreatedAsDeclared
    <2> QED
      BY <2>8, <2>9, <2>10 DEF CreatedInv
  <1>5. CASE ~(next <= Len(types))
    <2>1. /\ phase' = "walk" /\ next' = 1 /\ UNCHANGED definitions
      BY <1>2, <1>5 DEF Convert, types
    <2>2. next - 1 = Len(types)
      BY <1>1, <1>2, <1>5
    <2>3. AllPlaced(pos)
      BY <1>3, <2>2 DEF AllPlaced, types
    <2>4. Typed'
      BY <1>2, <2>1 DEF Typed
    <2>5. AllConverted'
      BY <1>2, <2>1, <2>3 DEF AllConverted, AllPlaced
    <2>6. Calls' = {} /\ DOMAIN depths' = {} /\ frames' = << >> /\ created' = << >>
      BY <1>2 DEF Calls, ToSet
    <2>7. \A i \in DOMAIN definitions : ~(i < 1)
      <3>1. DOMAIN definitions = 1 .. Len(definitions) /\ Len(definitions) \in Nat
        BY <1>2, LenProperties
      <3> QED
        BY <3>1
    <2>8. Visiting'
      BY <2>1, <2>6, <2>7 DEF Visiting
    <2>9. Walking'
      BY <2>1, <2>6, <2>7 DEF Walking
    <2>10. Bounded'
      BY <2>6 DEF Bounded
    <2>11. (Converting /\ Creating /\ CreatedAsDeclared)'
      BY <2>1 DEF Converting, Creating, CreatedAsDeclared
    <2> QED
      BY <2>4, <2>5, <2>8, <2>9, <2>10, <2>11 DEF CreatedInv
  <1> QED
    BY <1>4, <1>5

\* While the schema and the definitions stay, so does all that is said of them.
LEMMA SameDefinitions ==
  ASSUME UNCHANGED << schema, definitions >>
  PROVE  /\ \A x : Level(x)' = Level(x)
         /\ Unique(definitions)' <=> Unique(definitions)
         /\ Circular' <=> Circular
         /\ \A pos : AllPlaced(pos)' <=> AllPlaced(pos)
         /\ NamesClash' <=> NamesClash
         /\ FunctionNamedAsTable' <=> FunctionNamedAsTable
  <1>1. \A n : RefersTo(n)' = RefersTo(n)
    BY DEF RefersTo
  <1>2. TypeNames' = TypeNames
    BY DEF TypeNames
  <1>3. \A n : Reached(n)' = Reached(n)
    BY <1>1, <1>2 DEF Reached
  <1>4. Circular' <=> Circular
    BY <1>1, <1>2, <1>3 DEF Circular
  <1>5. \A n : Above(n)' = Above(n)
    BY <1>1, <1>2, <1>3 DEF Above
  <1>6. \A x : Owners(x)' = Owners(x)
    BY DEF Owners
  <1>7. \A x : Level(x)' = Level(x)
    <2>1. TablesOf(definitions)' = TablesOf(definitions)
      BY DEF TablesOf
    <2> QED
      BY <1>1, <1>2, <1>3, <1>6, <2>1 DEF Level, Above
  <1>8. Unique(definitions)' <=> Unique(definitions)
    OBVIOUS
  <1>9. \A pos : AllPlaced(pos)' <=> AllPlaced(pos)
    BY DEF AllPlaced
  <1>10. NamesClash' <=> NamesClash
    BY DEF NamesClash
  <1>11. FunctionNamedAsTable' <=> FunctionNamedAsTable
    BY DEF FunctionNamedAsTable
  <1> QED
    BY <1>4, <1>7, <1>8, <1>9, <1>10, <1>11

\* The walk starts at another definition.
LEMMA StepStartWalk ==
  ASSUME CreatedInv, StartWalk
  PROVE  CreatedInv'
  <1> DEFINE one == [at |-> next, depth |-> 0]
  <1>1. Typed /\ AllConverted /\ Visiting /\ Walking /\ Bounded
    BY DEF CreatedInv
  <1>2. /\ phase = "walk" /\ frames = << >> /\ next <= Len(definitions)
        /\ frames' = << one >> /\ next' = next + 1
        /\ UNCHANGED << schema, phase, definitions, depths, created >>
    BY DEF StartWalk
  <1>3. /\ schema \in Schemas /\ definitions \in Seq(AnyDefinition) /\ next \in Nat \ {0}
        /\ DOMAIN definitions = 1 .. Len(definitions) /\ Len(definitions) \in Nat
    BY <1>1, LenProperties DEF Typed
  <1>4. next \in DOMAIN definitions /\ one \in AnyCall /\ one.at = next /\ one.depth = 0
    BY <1>2, <1>3 DEF AnyCall
  <1>5. Calls = {} /\ Calls' = {one} /\ frames' \in Seq(AnyCall)
    <2>1. Calls = {}
      BY <1>2 DEF Calls, ToSet
    <2> HIDE DEF one
    <2>2. ToSet(<< one >>) = {one} /\ << one >> \in Seq(AnyCall)
      BY <1>4 DEF ToSet
    <2> QED
      BY <1>2, <2>1, <2>2 DEF Calls
  <1>6. AnyCall' = AnyCall
    BY <1>2 DEF AnyCall
  <1> HIDE DEF one
  <1>7. \A i \in DOMAIN definitions : i < next' <=> i < next \/ i = next
    BY <1>2, <1>3
  <1>8. Typed'
    BY <1>2, <1>3 DEF Typed
  <1>9. AllConverted'
    BY <1>1, <1>2, SameDefinitions DEF AllConverted
  <1>10. Visiting'
    <2>1. ASSUME NEW i \in DOMAIN definitions, i < next'
          PROVE  definitions[i].name \in DOMAIN depths \/ \E c \in Calls' : c.at = i
      BY <1>1, <1>2, <1>4, <1>5, <1>7, <2>1 DEF Visiting
    <2> QED
      BY <1>1, <1>2, <1>5, <1>6, <2>1 DEF Visiting
  <1>11. Walking'
    <2> SUFFICES ASSUME Unique(definitions) PROVE Walking'
      BY <1>2, SameDefinitions DEF Walking
    <2>1. \A x \in DOMAIN depths : x \in TablesOf(definitions) \/ depths[x] = 0
      BY <1>1, <1>2 DEF Walking
    <2>2. ASSUME NEW i \in DOMAIN definitions, i < next, Settled(i) PROVE Settled(i)'
      BY <1>2, <1>5, <2>2 DEF Settled, Deeper
    <2>3. ASSUME NEW i \in DOMAIN definitions, i < next'
          PROVE  Settled(i)' \/ \E c \in Calls' : c.at = i
      <3>1. CASE i = next
        BY <1>4, <1>5, <3>1
      <3>2. CASE i < next
        BY <1>1, <1>2, <1>5, <2>2, <3>2 DEF Walking
      <3> QED
        BY <1>7, <2>3, <3>1, <3>2
    <2> QED
      BY <1>2, <1>4, <1>5, <2>1, <2>3 DEF Walking
  <1>12. Bounded'
    <2> SUFFICES ASSUME Unique(definitions), ~Circular PROVE Bounded'
      BY <1>2, SameDefinitions DEF Bounded
    <2>1. \A x \in DOMAIN depths : depths[x] <= Level(x)
      BY <1>1, <1>2 DEF Bounded
    <2>2. 0 <= Level(definitions[next].name)
      BY <1>3, LevelBounded
    <2>3. \A c \in Calls' : c.depth <= Level(definitions[c.at].name)
      BY <1>4, <1>5, <2>2
    <2> QED
      BY <1>2, <2>1, <2>3, SameDefinitions DEF Bounded
  <1>13. (Converting /\ Creating /\ CreatedAsDeclared)'
    BY <1>2 DEF Converting, Creating, CreatedAsDeclared
  <1> QED
    BY <1>8, <1>9, <1>10, <1>11, <1>12, <1>13 DEF CreatedInv

\* walk_from_name finds a definition of the name where there is one.
LEMMA CallsForIs ==
  ASSUME definitions \in Seq(AnyDefinition), NEW n, NEW depth \in Nat
  PROVE  /\ CallsFor(n, depth) \in Seq(AnyCall)
         /\ \A c \in ToSet(CallsFor(n, depth)) :
               c.at \in DOMAIN definitions /\ definitions[c.at].name = n /\ c.depth = depth
         /\ \A j \in DOMAIN definitions : definitions[j].name = n =>
               \E c \in ToSet(CallsFor(n, depth)) : definitions[c.at].name = n /\ c.depth = depth
  <1> DEFINE named == {i \in DOMAIN definitions : definitions[i].name = n}
             least == CHOOSE i \in named : \A j \in named : i <= j
             one == [at |-> least, depth |-> depth]
  <1>1. DOMAIN definitions = 1 .. Len(definitions) /\ Len(definitions) \in Nat
    BY LenProperties
  <1>2. CASE named = {}
    <2> DEFINE none == << >>
    <2>1. CallsFor(n, depth) = none
      BY <1>2 DEF CallsFor
    <2>2. none \in Seq(AnyCall) /\ ToSet(none) = {}
      BY DEF ToSet
    <2> HIDE DEF none
    <2> QED
      BY <1>2, <2>1, <2>2
  <1>3. CASE named # {}
    <2>1. named \subseteq Nat
      BY <1>1
    <2>2. \E x \in named : \A y \in named : x <= y
      <3> HIDE DEF named
      <3> QED
        BY <1>3, <2>1, LeastElement
    <2>3. least \in named
      BY <2>2
    <2>4. CallsFor(n, depth) = << one >>
      BY <1>3 DEF CallsFor
    <2>5. one \in AnyCall /\ one.at = least /\ one.depth = depth
      BY <2>3 DEF AnyCall
    <2> HIDE DEF one
    <2>6. << one >> \in Seq(AnyCall) /\ ToSet(<< one >>) = {one}
      BY <2>5 DEF ToSet
    <2> QED
      BY <2>3, <2>4, <2>5, <2>6
  <1> QED
    BY <1>2, <1>3

\* What a call of walk_graph does: it puts its definition at depth, and makes
\* new calls for what the definition needs.
Walked(call, depth, new, rest) ==
    /\ call \in AnyCall /\ depth \in Nat
    /\ Calls = {call} \cup rest
    /\ frames' \in Seq(AnyCall) /\ Calls' = new \cup rest
    /\ depth >= call.depth
    /\ DOMAIN depths' = DOMAIN depths \cup {definitions[call.at].name}
    /\ depths'[definitions[call.at].name] = depth
    /\ \A y \in DOMAIN depths : y # definitions[call.at].name => depths'[y] = depths[y]
    /\ definitions[call.at].name \in DOMAIN depths => depth >= depths[definitions[call.at].name]
    /\ \/ depth = call.depth
       \/ /\ definitions[call.at].name \in DOMAIN depths
          /\ depth = depths[definitions[call.at].name]
    /\ \A c \in new : /\ c.at \in DOMAIN definitions /\ c.depth = depth + 1
                      /\ definitions[c.at].name \in Needs(definitions[call.at])
    /\ \A j \in DOMAIN definitions : definitions[j].name \in Needs(definitions[call.at]) =>
          \E c \in new : definitions[c.at].name = definitions[j].name /\ c.depth = depth + 1
    /\ phase' = IF depth > MaxDepth THEN "overflow" ELSE "walk"

\* A call of walk_graph.
LEMMA WalkedOnce ==
  ASSUME Typed, Visiting, WalkGraph
  PROVE  \E call, depth, new, rest : Walked(call, depth, new, rest)
  <1> DEFINE call == Head(frames)
             d == definitions[call.at]
             x == d.name
             depth == IF x \in DOMAIN depths /\ depths[x] >= call.depth
                      THEN depths[x] ELSE call.depth
             names == WalkedNames(d)
             made == [i \in DOMAIN names |-> CallsFor(names[i], depth + 1)]
             new == ToSet(FlattenSeq(made))
             rest == ToSet(Tail(frames))
  <1>1. /\ phase = "walk" /\ frames # << >>
        /\ depths' = [n \in DOMAIN depths \cup {x} |-> IF n = x THEN depth ELSE depths[n]]
        /\ frames' = FlattenSeq(made) \o Tail(frames)
        /\ phase' = IF depth > MaxDepth THEN "overflow" ELSE phase
    BY DEF WalkGraph, DepthOfCall
  <1>2. /\ definitions \in Seq(AnyDefinition) /\ frames \in Seq(AnyCall)
        /\ \A y \in DOMAIN depths : depths[y] \in Nat
    BY <1>1 DEF Typed, Visiting
  <1>3. /\ call \in AnyCall /\ Tail(frames) \in Seq(AnyCall) /\ Len(Tail(frames)) \in Nat
        /\ frames = << call >> \o Tail(frames)
    <2>1. /\ Len(frames) \in Nat /\ Len(frames) # 0 /\ DOMAIN frames = 1 .. Len(frames)
      BY <1>1, <1>2, EmptySeq, LenProperties
    <2>2. /\ call \in AnyCall /\ Tail(frames) \in Seq(AnyCall)
      BY <1>1, <1>2, HeadTailProperties
    <2>3. Len(Tail(frames)) = Len(frames) - 1
          /\ \A i \in 1 .. Len(Tail(frames)) : Tail(frames)[i] = frames[i + 1]
      BY <1>1, <1>2, HeadTailProperties
    <2>4. frames = << call >> \o Tail(frames)
      <3> DEFINE one == << call >>
                 tail == Tail(frames)
                 all == one \o tail
      <3>1. one \in Seq(AnyCall) /\ Len(one) = 1 /\ one[1] = frames[1]
        <4>1. call = frames[1]
          OBVIOUS
        <4> HIDE DEF call
        <4> QED
          BY <2>2, <4>1
      <3>2. tail \in Seq(AnyCall) /\ Len(tail) = Len(frames) - 1
        BY <2>2, <2>3
      <3>3. \A i \in 1 .. Len(tail) : tail[i] = frames[i + 1]
        BY <2>3
      <3> HIDE DEF one, tail
      <3>4. /\ all \in Seq(AnyCall) /\ Len(all) = Len(one) + Len(tail)
            /\ \A i \in 1 .. Len(one) + Len(tail) :
                  all[i] = IF i <= Len(one) THEN one[i] ELSE tail[i - Len(one)]
        BY <3>1, <3>2, ConcatProperties
      <3> HIDE DEF all
      <3>5. \A i \in 1 .. Len(frames) : all[i] = frames[i]
        <4> SUFFICES ASSUME NEW i \in 1 .. Len(frames) PROVE all[i] = frames[i]
          OBVIOUS
        <4>1. CASE i = 1
          BY <2>1, <3>1, <3>2, <3>4, <4>1
        <4>2. CASE i # 1
          <5>1. i - 1 \in 1 .. Len(tail) /\ (i - 1) + 1 = i
            BY <2>1, <3>2, <4>2
          <5>2. all[i] = tail[i - 1]
            BY <2>1, <3>1, <3>2, <3>4, <4>2
          <5> QED
            BY <3>3, <5>1, <5>2
        <4> QED
          BY <4>1, <4>2
      <3>6. Len(all) = Len(frames)
        BY <2>1, <3>1, <3>2, <3>4
      <3>7. all = frames
        BY <1>2, <3>4, <3>5, <3>6, SeqEqual
      <3> QED
        BY <3>7 DEF all, one, tail
    <2> QED
      BY <2>2, <2>4, LenProperties
  <1>4. Calls = {call} \cup rest
    <2> DEFINE one == << call >>
               tail == Tail(frames)
    <2>1. one \in Seq(AnyCall) /\ ToSet(one) = {call}
      BY <1>3 DEF ToSet
    <2>2. frames = one \o tail /\ tail \in Seq(AnyCall)
      BY <1>3
    <2> HIDE DEF one, call, tail
    <2>3. ToSet(one \o tail) = ToSet(one) \cup ToSet(tail)
      BY <2>1, <2>2, ElementsOfConcat
    <2> QED
      BY <2>1, <2>2, <2>3 DEF Calls, tail
  <1> HIDE DEF call
  <1>5. call.at \in DOMAIN definitions /\ call.depth \in Nat /\ d \in AnyDefinition
    <2>1. call.at \in DOMAIN definitions /\ call.depth \in Nat
      BY <1>3 DEF AnyCall
    <2> QED
      BY <1>2, <2>1, LenProperties
  <1> HIDE DEF d
  <1>6. /\ depth \in Nat /\ depth >= call.depth
        /\ x \in DOMAIN depths => depth >= depths[x]
        /\ depth = call.depth \/ (x \in DOMAIN depths /\ depth = depths[x])
    BY <1>2, <1>5
  <1>7. names \in Seq(WideName) /\ ToSet(names) = Needs(d)
    BY <1>5, WalkedAreNeeded
  <1> HIDE DEF depth, x, names
  <1>8. \A i \in DOMAIN names :
          /\ CallsFor(names[i], depth + 1) \in Seq(AnyCall)
          /\ \A c \in ToSet(CallsFor(names[i], depth + 1)) :
               c.at \in DOMAIN definitions /\ definitions[c.at].name = names[i]
                  /\ c.depth = depth + 1
          /\ \A j \in DOMAIN definitions : definitions[j].name = names[i] =>
               \E c \in ToSet(CallsFor(names[i], depth + 1)) :
                  definitions[c.at].name = names[i] /\ c.depth = depth + 1
    BY <1>2, <1>6, CallsForIs
  <1>9. made \in Seq(Seq(AnyCall)) /\ DOMAIN made = DOMAIN names
    <2>1. DOMAIN names = 1 .. Len(names) /\ Len(names) \in Nat
      BY <1>7, LenProperties
    <2> QED
      BY <1>8, <2>1
  <1>10. \A i \in DOMAIN names : made[i] = CallsFor(names[i], depth + 1)
    OBVIOUS
  <1> HIDE DEF made
  <1>11. /\ FlattenSeq(made) \in Seq(AnyCall)
         /\ new = UNION {ToSet(made[i]) : i \in DOMAIN made}
    BY <1>9, ElementsOfFlattened
  <1>12. frames' \in Seq(AnyCall) /\ ToSet(frames') = new \cup rest
    <2> DEFINE tail == Tail(frames)
               flat == FlattenSeq(made)
    <2>1. flat \in Seq(AnyCall) /\ tail \in Seq(AnyCall) /\ frames' = flat \o tail
      BY <1>1, <1>3, <1>11
    <2>2. new = ToSet(flat) /\ rest = ToSet(tail)
      OBVIOUS
    <2> HIDE DEF tail, flat, new, rest
    <2> QED
      BY <2>1, <2>2, ElementsOfConcat
  <1> HIDE DEF new, rest
  <1>13. Calls' = new \cup rest
    BY <1>12 DEF Calls
  <1>14. Needs(d) = {names[i] : i \in DOMAIN names}
    BY <1>7 DEF ToSet
  <1>15. ASSUME NEW c \in new
         PROVE  c.at \in DOMAIN definitions /\ c.depth = depth + 1
                 /\ definitions[c.at].name \in Needs(d)
    <2>1. PICK i \in DOMAIN names : c \in ToSet(CallsFor(names[i], depth + 1))
      BY <1>9, <1>10, <1>11
    <2> QED
      BY <1>8, <1>14, <2>1
  <1>16. ASSUME NEW j \in DOMAIN definitions, definitions[j].name \in Needs(d)
         PROVE  \E c \in new : definitions[c.at].name = definitions[j].name /\ c.depth = depth + 1
    <2>1. PICK i \in DOMAIN names : definitions[j].name = names[i]
      BY <1>14, <1>16
    <2>2. PICK c \in ToSet(CallsFor(names[i], depth + 1)) :
             definitions[c.at].name = names[i] /\ c.depth = depth + 1
      BY <1>8, <2>1
    <2>3. c \in new
      BY <1>9, <1>10, <1>11, <2>2
    <2> QED
      BY <2>1, <2>2, <2>3
  <1>17. /\ DOMAIN depths' = DOMAIN depths \cup {x} /\ depths'[x] = depth
         /\ \A y \in DOMAIN depths : y # x => depths'[y] = depths[y]
    BY <1>1
  <1>18. Walked(call, depth, new, rest)
    BY <1>1, <1>3, <1>4, <1>6, <1>12, <1>13, <1>15, <1>16, <1>17 DEF Walked, x, d
  <1> QED
    BY <1>18

\* walk_graph is called for a definition.
LEMMA StepWalkGraph ==
  ASSUME CreatedInv, WalkGraph
  PROVE  CreatedInv'
  <1>1. Typed /\ AllConverted /\ Visiting /\ Walking /\ Bounded
    BY DEF CreatedInv
  <1>2. phase = "walk" /\ UNCHANGED << schema, definitions, next, created >>
    BY DEF WalkGraph
  <1>3. PICK call, depth, new, rest : Walked(call, depth, new, rest)
    BY <1>1, WalkedOnce
  <1> DEFINE a == call.at
             x == definitions[a].name
  <1>4. /\ schema \in Schemas /\ definitions \in Seq(AnyDefinition)
        /\ \A y \in DOMAIN depths : depths[y] \in Nat
        /\ MaxDepth \in Nat
    <2>1. schema \in Schemas /\ definitions \in Seq(AnyDefinition)
      BY <1>1 DEF Typed
    <2> QED
      BY <1>1, <1>2, <2>1, SchemasAre DEF Visiting
  <1>5. PICK pos : AllPlaced(pos)
    BY <1>1, <1>2 DEF AllConverted
  <1>6. /\ a \in DOMAIN definitions /\ call.depth \in Nat /\ depth \in Nat /\ depth >= call.depth
        /\ Calls = {call} \cup rest /\ Calls' = new \cup rest /\ frames' \in Seq(AnyCall)
    BY <1>3 DEF Walked, AnyCall
  <1>7. /\ DOMAIN depths' = DOMAIN depths \cup {x} /\ depths'[x] = depth
        /\ \A y \in DOMAIN depths : y # x => depths'[y] = depths[y]
        /\ x \in DOMAIN depths => depth >= depths[x]
        /\ depth = call.depth \/ (x \in DOMAIN depths /\ depth = depths[x])
    BY <1>3 DEF Walked
  <1>8. /\ \A c \in new : /\ c.at \in DOMAIN definitions /\ c.depth = depth + 1
                          /\ definitions[c.at].name \in Needs(definitions[a])
        /\ \A j \in DOMAIN definitions : definitions[j].name \in Needs(definitions[a]) =>
              \E c \in new : definitions[c.at].name = definitions[j].name /\ c.depth = depth + 1
        /\ phase' = IF depth > MaxDepth THEN "overflow" ELSE "walk"
    BY <1>3 DEF Walked
  <1> HIDE DEF a, x
  <1>9. \A y \in DOMAIN depths : y \in DOMAIN depths' /\ depths'[y] \in Nat
                          /\ depths'[y] >= depths[y]
    BY <1>4, <1>6, <1>7
  <1>10. \A y \in DOMAIN depths' : depths'[y] \in Nat
    BY <1>6, <1>7, <1>9
  <1>11. Typed'
    BY <1>1, <1>2 DEF Typed
  <1>12. AllConverted'
    BY <1>2, <1>5, SameDefinitions DEF AllConverted
  <1>13. Visiting'
    <2>1. ASSUME NEW i \in DOMAIN definitions, i < next
          PROVE  definitions[i].name \in DOMAIN depths' \/ \E c \in Calls' : c.at = i
      <3>1. CASE i = a
        BY <1>7, <3>1 DEF x
      <3>2. CASE i # a
        <4>1. definitions[i].name \in DOMAIN depths \/ \E c \in Calls : c.at = i
          BY <1>1, <1>2, <2>1 DEF Visiting
        <4> QED
          BY <1>6, <1>9, <3>2, <4>1 DEF a
      <3> QED
        BY <3>1, <3>2
    <2>2. AnyCall' = AnyCall
      BY <1>2 DEF AnyCall
    <2>3. created = << >>
      BY <1>1, <1>2 DEF Visiting
    <2> QED
      BY <1>2, <1>6, <1>10, <2>1, <2>2, <2>3 DEF Visiting
  <1>14. Walking'
    <2> SUFFICES ASSUME Unique(definitions) PROVE Walking'
      BY <1>2, SameDefinitions DEF Walking
    <2>1. /\ \A c \in Calls : IsTable(definitions[c.at]) \/ c.depth = 0
          /\ \A y \in DOMAIN depths : y \in TablesOf(definitions) \/ depths[y] = 0
          /\ \A i \in DOMAIN definitions : i < next => Settled(i) \/ \E c \in Calls : c.at = i
      BY <1>1, <1>2 DEF Walking
    <2>2. \A c \in Calls' : IsTable(definitions[c.at]) \/ c.depth = 0
      <3>1. \A c \in new : IsTable(definitions[c.at])
        BY <1>4, <1>5, <1>6, <1>8, NeededAreTables
      <3> QED
        BY <1>6, <2>1, <3>1
    <2>3. x \in TablesOf(definitions) \/ depth = 0
      <3>1. IsTable(definitions[a]) => x \in TablesOf(definitions)
        BY <1>6 DEF TablesOf, x
      <3>2. IsTable(definitions[a]) \/ call.depth = 0
        BY <1>6, <2>1 DEF a
      <3> QED
        BY <1>7, <2>1, <3>1, <3>2
    <2>4. \A y \in DOMAIN depths' : y \in TablesOf(definitions) \/ depths'[y] = 0
      BY <1>7, <2>1, <2>3
    <2>5. ASSUME NEW y, NEW least \in Nat, Deeper(y, least)
          PROVE  Deeper(y, least)'
      <3>1. CASE y \in DOMAIN depths /\ depths[y] > least
        <4>1. y \in DOMAIN depths' /\ depths'[y] > least
          BY <1>4, <1>9, <3>1
        <4> QED
          BY <4>1 DEF Deeper
      <3>2. CASE \E c \in Calls : definitions[c.at].name = y /\ c.depth > least
        <4>1. PICK c \in Calls : definitions[c.at].name = y /\ c.depth > least
          BY <3>2
        <4>2. CASE c = call
          <5>1. y = x /\ depth > least
            BY <1>6, <4>1, <4>2 DEF x, a
          <5> QED
            BY <1>7, <5>1 DEF Deeper
        <4>3. CASE c \in rest
          <5>1. c \in Calls'
            BY <1>6, <4>3
          <5> QED
            BY <1>2, <4>1, <5>1 DEF Deeper
        <4> QED
          BY <1>6, <4>2, <4>3
      <3> QED
        BY <2>5, <3>1, <3>2 DEF Deeper
    <2>6. Settled(a)'
      <3>1. ASSUME NEW j \in DOMAIN definitions, definitions[j].name \in Needs(definitions[a])
            PROVE  Deeper(definitions[j].name, depth)'
        <4>1. PICK c \in new : definitions[c.at].name = definitions[j].name /\ c.depth = depth + 1
          BY <1>8, <3>1
        <4>2. c \in Calls' /\ c.depth > depth
          BY <1>6, <4>1
        <4> QED
          BY <1>2, <4>1, <4>2 DEF Deeper
      <3> QED
        BY <1>2, <1>7, <3>1 DEF Settled, x
    <2>7. ASSUME NEW i \in DOMAIN definitions, Settled(i) PROVE Settled(i)'
      <3> DEFINE n == definitions[i].name
      <3>1. n \in DOMAIN depths /\ depths[n] \in Nat
        BY <1>4, <2>7 DEF Settled
      <3>2. ASSUME n = x, i # a PROVE depths'[n] = depths[n]
        <4>1. x \notin TablesOf(definitions)
          <5> SUFFICES ASSUME NEW j \in DOMAIN definitions, IsTable(definitions[j]),
                              definitions[j].name = x
                       PROVE  FALSE
            BY DEF TablesOf
          <5>1. j = a
            BY <1>6 DEF Unique, x
          <5>2. j = i
            BY <3>2 DEF Unique
          <5> QED
            BY <3>2, <5>1, <5>2
        <4>2. depth = 0 /\ depths[x] = 0
          BY <2>1, <2>3, <3>1, <3>2, <4>1
        <4> QED
          BY <1>7, <3>2, <4>2
      <3>3. CASE i = a
        BY <2>6, <3>3
      <3>4. CASE i # a
        <4>1. depths'[n] = depths[n] /\ n \in DOMAIN depths'
          BY <1>7, <1>9, <3>1, <3>2, <3>4
        <4>2. ASSUME NEW j \in DOMAIN definitions, definitions[j].name \in Needs(definitions[i])
              PROVE  Deeper(definitions[j].name, depths[n])'
          <5>1. Deeper(definitions[j].name, depths[n])
            BY <2>7, <4>2 DEF Settled
          <5>2. PICK y, least : y = definitions[j].name /\ least = depths[n]
            OBVIOUS
          <5>3. Deeper(y, least)'
            BY <2>5, <3>1, <5>1, <5>2
          <5>4. definitions'[j].name = y /\ (depths[n])' = least
            BY <1>2, <4>1, <5>2
          <5> QED
            BY <5>3, <5>4 DEF Deeper
        <4> QED
          BY <1>2, <4>1, <4>2 DEF Settled
      <3> QED
        BY <3>3, <3>4
    <2>8. ASSUME NEW i \in DOMAIN definitions, i < next
          PROVE  Settled(i)' \/ \E c \in Calls' : c.at = i
      <3>1. CASE i = a
        BY <2>6, <3>1
      <3>2. CASE i # a
        BY <1>6, <2>1, <2>7, <2>8, <3>2 DEF a
      <3> QED
        BY <3>1, <3>2
    <2> QED
      BY <1>2, <2>2, <2>4, <2>8 DEF Walking
  <1>15. ASSUME Unique(definitions), ~Circular
         PROVE  /\ depth <= Level(x) /\ Level(x) \in Nat /\ Level(x) <= MaxDepth
                /\ \A c \in Calls' : c.depth <= Level(definitions[c.at].name)
                /\ \A y \in DOMAIN depths' : depths'[y] <= Level(y)
    <2>1. /\ \A c \in Calls : c.depth <= Level(definitions[c.at].name)
          /\ \A y \in DOMAIN depths : depths[y] <= Level(y)
      BY <1>1, <1>2, <1>15 DEF Bounded
    <2>2. \A y : Level(y) \in Nat /\ Level(y) <= MaxDepth
      BY <1>4, <1>15, LevelBounded
    <2>3. depth <= Level(x)
      BY <1>6, <1>7, <2>1 DEF x, a
    <2>4. ASSUME NEW c \in new PROVE c.depth <= Level(definitions[c.at].name)
      <3>1. Level(x) < Level(definitions[c.at].name)
        BY <1>4, <1>5, <1>6, <1>8, <1>15, LevelRises DEF x
      <3>2. c.depth = depth + 1
        BY <1>8
      <3> QED
        BY <1>6, <2>2, <2>3, <3>1, <3>2
    <2>5. \A y \in DOMAIN depths' : depths'[y] <= Level(y)
      BY <1>7, <2>1, <2>3
    <2> QED
      BY <1>6, <2>1, <2>2, <2>3, <2>4, <2>5
  <1>16. Bounded'
    <2> SUFFICES ASSUME Unique(definitions), ~Circular PROVE Bounded'
      BY <1>2, SameDefinitions DEF Bounded
    <2> QED
      BY <1>2, <1>15, SameDefinitions DEF Bounded
  <1>17. CreatedAsDeclared'
    <2>1. phase' \in {"walk", "overflow"}
      BY <1>8
    <2>2. ASSUME phase' = "overflow" PROVE Circular \/ NamesClash \/ FunctionNamedAsTable
      <3>1. depth > MaxDepth
        BY <1>8, <2>2
      <3>2. ~(Unique(definitions) /\ ~Circular)
        BY <1>4, <1>6, <1>15, <3>1
      <3> QED
        BY <1>4, <3>2, ClearUnique
    <2> QED
      BY <1>2, <2>1, <2>2, SameDefinitions DEF CreatedAsDeclared
  <1>18. (Converting /\ Creating)'
    BY <1>8 DEF Converting, Creating
  <1> QED
    BY <1>11, <1>12, <1>13, <1>14, <1>16, <1>17, <1>18 DEF CreatedInv

\* The definitions are sorted: each comes behind the tables it needs.
LEMMA StepSort ==
  ASSUME CreatedInv, SortDefinitions
  PROVE  CreatedInv'
  <1> DEFINE n == Len(definitions)
             depth(k) == depths[definitions[k].name]
             order == {p \in (1 .. n) \X (1 .. n) : Before(p[1], p[2])}
             at == [place \in 1 .. n |-> AtPlace(place)]
  <1>1. Typed /\ AllConverted /\ Visiting /\ Walking
    BY DEF CreatedInv
  <1>2. /\ phase = "walk" /\ frames = << >> /\ next > n
        /\ definitions' = [place \in DOMAIN definitions |-> definitions[AtPlace(place)]]
        /\ phase' = "create" /\ next' = 1
        /\ UNCHANGED << schema, depths, frames, created >>
    BY DEF SortDefinitions
  <1>3. /\ schema \in Schemas /\ definitions \in Seq(AnyDefinition) /\ next \in Nat
        /\ DOMAIN definitions = 1 .. n /\ n \in Nat /\ created = << >>
    BY <1>1, <1>2, LenProperties DEF Typed, Visiting
  <1>4. Calls = {} /\ \A i \in DOMAIN definitions : i < next
    <2>1. \A i \in DOMAIN definitions : i < next
      BY <1>2, <1>3
    <2> QED
      BY <1>2, <2>1 DEF Calls, ToSet
  <1>5. PICK pos : AllPlaced(pos)
    BY <1>1, <1>2 DEF AllConverted
  <1>6. \A k \in 1 .. n : definitions[k].name \in DOMAIN depths /\ depth(k) \in Nat
    BY <1>1, <1>2, <1>3, <1>4 DEF Visiting
  <1>7. \A i, j \in 1 .. n :
          << i, j >> \in order <=> depth(i) > depth(j) \/ (depth(i) = depth(j) /\ i < j)
    BY DEF Before
  <1> HIDE DEF order, depth
  <1>8. \A i \in 1 .. n : << i, i >> \notin order
    BY <1>6, <1>7
  <1>9. \A i, j \in 1 .. n : i # j => << i, j >> \in order \/ << j, i >> \in order
    BY <1>6, <1>7
  <1>10. \A i, j, k \in 1 .. n :
           << i, j >> \in order /\ << j, k >> \in order => << i, k >> \in order
    <2> SUFFICES ASSUME NEW i \in 1 .. n, NEW j \in 1 .. n, NEW k \in 1 .. n,
                        << i, j >> \in order, << j, k >> \in order
                 PROVE  << i, k >> \in order
      OBVIOUS
    <2>1. depth(i) \in Nat /\ depth(j) \in Nat /\ depth(k) \in Nat
      BY <1>6
    <2>2. depth(i) > depth(j) \/ (depth(i) = depth(j) /\ i < j)
      BY <1>7
    <2>3. depth(j) > depth(k) \/ (depth(j) = depth(k) /\ j < k)
      BY <1>7
    <2>4. depth(i) > depth(k) \/ (depth(i) = depth(k) /\ i < k)
      BY <2>1, <2>2, <2>3
    <2> QED
      BY <1>7, <2>4
  <1>11. ASSUME NEW place \in 1 .. n, \E j \in 1 .. n : Rank(order, n, j) = place - 1
         PROVE  at[place] \in 1 .. n /\ Rank(order, n, at[place]) = place - 1
    <2>1. ASSUME NEW j \in 1 .. n
          PROVE  Rank(order, n, j) = Cardinality({i \in DOMAIN definitions : Before(i, j)})
      <3>1. {i \in 1 .. n : << i, j >> \in order} = {i \in DOMAIN definitions : Before(i, j)}
        BY <1>3 DEF order
      <3> QED
        BY <3>1 DEF Rank
    <2>2. \E j \in DOMAIN definitions :
            Cardinality({i \in DOMAIN definitions : Before(i, j)}) = place - 1
      BY <1>3, <1>11, <2>1
    <2>3. /\ AtPlace(place) \in DOMAIN definitions
          /\ Cardinality({i \in DOMAIN definitions : Before(i, AtPlace(place))}) = place - 1
      BY <2>2 DEF AtPlace
    <2> QED
      BY <1>3, <2>1, <2>3
  <1>12. at = [place \in 1 .. n |-> at[place]]
    OBVIOUS
  <1>13. \A place \in 1 .. n : definitions'[place] = definitions[at[place]]
    BY <1>2, <1>3
  <1>14. definitions' = [place \in DOMAIN definitions |-> definitions[at[place]]]
    BY <1>2, <1>3
  <1> HIDE DEF at
  <1>15. /\ Permutes(at, 1 .. n)
         /\ at \in [1 .. n -> 1 .. n] /\ \A j \in 1 .. n : \E p \in 1 .. n : at[p] = j
         /\ \A p, q \in 1 .. n : << at[p], at[q] >> \in order => p < q
    <2>1. /\ Permutes(at, 1 .. n)
          /\ \A p, q \in 1 .. n : << at[p], at[q] >> \in order => p < q
      BY <1>3, <1>8, <1>9, <1>10, <1>11, <1>12, Ranked
    <2> QED
      BY <2>1 DEF Permutes
  <1>16. \E other : Placed(definitions', other, schema.types, Len(schema.types))
    <2>1. Len(schema.types) \in Nat
      BY <1>3, SchemasAre
    <2>2. Placed(definitions, pos, schema.types, Len(schema.types))
      BY <1>5 DEF AllPlaced
    <2>3. PICK D, f, types, len :
             D = definitions /\ f = at /\ types = schema.types /\ len = Len(schema.types)
      OBVIOUS
    <2>4. Placed(D, pos, types, len) /\ len \in Nat
      BY <2>1, <2>2, <2>3
    <2>5. Permutes(f, DOMAIN D)
      BY <1>3, <1>15, <2>3
    <2>6. \E other : Placed(Rearranged(D, f), other, types, len)
      BY <2>4, <2>5, PlacedAgain
    <2>7. definitions' = Rearranged(D, f)
      BY <1>14, <2>3 DEF Rearranged
    <2> QED
      BY <2>3, <2>6, <2>7
  <1>17. definitions' \in Seq(AnyDefinition) /\ DOMAIN definitions' = 1 .. n
         /\ Len(definitions') = n
    <2>1. definitions' \in Seq(AnyDefinition)
      BY <1>16 DEF Placed
    <2>2. DOMAIN definitions' = 1 .. n
      BY <1>2, <1>3
    <2>3. Len(definitions') \in Nat /\ DOMAIN definitions' = 1 .. Len(definitions')
      BY <2>1, LenProperties
    <2> QED
      BY <1>3, <2>1, <2>2, <2>3
  <1>18. Typed'
    BY <1>2, <1>3, <1>17 DEF Typed
  <1>19. AllConverted'
    BY <1>2, <1>16 DEF AllConverted, AllPlaced
  <1>20. Creating'
    <2>1. ASSUME Unique(definitions') PROVE Unique(definitions)
      <3> SUFFICES ASSUME NEW i \in 1 .. n, NEW j \in 1 .. n, IsTable(definitions[i]),
                          definitions[i].name = definitions[j].name
                   PROVE  i = j
        BY <1>3 DEF Unique
      <3>1. PICK p \in 1 .. n : at[p] = i
        BY <1>15
      <3>2. PICK q \in 1 .. n : at[q] = j
        BY <1>15
      <3>3. IsTable(definitions'[p]) /\ definitions'[p].name = definitions'[q].name
        BY <1>13, <3>1, <3>2
      <3>4. p = q
        BY <1>17, <2>1, <3>3 DEF Unique
      <3> QED
        BY <3>1, <3>2, <3>4
    <2>2. ASSUME Unique(definitions),
                 NEW p \in 1 .. n, NEW q \in 1 .. n,
                 definitions'[q].name \in Needs(definitions'[p])
          PROVE  q < p
      <3>1. at[p] \in DOMAIN definitions /\ at[q] \in DOMAIN definitions
        BY <1>3, <1>15
      <3>2. definitions[at[q]].name \in Needs(definitions[at[p]])
        BY <1>13, <2>2
      <3>3. Settled(at[p])
        BY <1>1, <1>2, <1>4, <2>2, <3>1 DEF Walking
      <3>4. Deeper(definitions[at[q]].name, depths[definitions[at[p]].name])
        BY <3>1, <3>2, <3>3 DEF Settled
      <3>5. depth(at[q]) > depth(at[p])
        BY <1>4, <3>4 DEF Deeper, depth
      <3>6. << at[q], at[p] >> \in order
        BY <1>3, <1>7, <3>1, <3>5
      <3> QED
        BY <1>15, <3>6
    <2>3. Unique(definitions') => Ordered(definitions')
      BY <1>17, <2>1, <2>2 DEF Ordered
    <2>4. Executed(definitions', 0)
      <3> DEFINE none == << >>
      <3>1. none \in Seq(AnyDefinition) /\ Len(none) = 0 /\ \A i \in 1 .. 0 : FALSE
        OBVIOUS
      <3> HIDE DEF none
      <3> QED
        BY <1>3, <3>1 DEF Executed, none
    <2>5. next' - 1 = 0 /\ next' <= n + 1 /\ created' = created
      BY <1>2, <1>3
    <2>6. Executed(definitions, next - 1)'
      <3>1. created' \in Seq(AnyDefinition) /\ Len(created') = 0
        BY <2>4, <2>5 DEF Executed
      <3> QED
        BY <2>5, <3>1 DEF Executed
    <2>7. \A i \in DOMAIN definitions' : ~(i < next')
      BY <1>2, <1>17
    <2> QED
      BY <1>17, <2>3, <2>5, <2>6, <2>7 DEF Creating
  <1>21. (Converting /\ Visiting /\ Walking /\ Bounded /\ CreatedAsDeclared)'
    BY <1>2 DEF Converting, Visiting, Walking, Bounded, CreatedAsDeclared
  <1> QED
    BY <1>18, <1>19, <1>20, <1>21 DEF CreatedInv

\* The database executes a definition, or rejects the file.
LEMMA StepExecute ==
  ASSUME CreatedInv, Execute
  PROVE  CreatedInv'
  <1> DEFINE d == definitions[next]
             n == Len(definitions)
  <1>1. Typed /\ AllConverted /\ Creating
    BY DEF CreatedInv
  <1>2. phase = "create" /\ UNCHANGED << schema, definitions, depths, frames >>
    BY DEF Execute
  <1>3. /\ schema \in Schemas /\ definitions \in Seq(AnyDefinition) /\ next \in Nat \ {0}
        /\ DOMAIN definitions = 1 .. n /\ n \in Nat
    BY <1>1, LenProperties DEF Typed
  <1>4. /\ next <= n + 1 /\ Executed(definitions, next - 1)
        /\ \A i \in DOMAIN definitions : i < next => Fits(definitions, i - 1, definitions[i])
        /\ Unique(definitions) => Ordered(definitions)
    BY <1>1, <1>2 DEF Creating
  <1>5. PICK pos : AllPlaced(pos)
    BY <1>1, <1>2 DEF AllConverted
  <1>6. CASE next > n
    <2>1. phase' = "use" /\ UNCHANGED << next, created >>
      BY <1>2, <1>6 DEF Execute
    <2>2. \A i \in DOMAIN definitions : Fits(definitions, i - 1, definitions[i])
      <3>1. \A i \in DOMAIN definitions : i < next
        BY <1>3, <1>6
      <3> QED
        BY <1>4, <3>1
    <2>3. ~Circular /\ ~AlternativeNotSupported /\ ~NamesClash
      BY <1>3, <1>5, <2>2, FitsOnlyClear
    <2>4. ~AlternativeNotSupported'
      BY <1>2, <2>3 DEF AlternativeNotSupported
    <2>5. CreatedAsDeclared'
      BY <1>2, <2>1, <2>3, <2>4, SameDefinitions DEF CreatedAsDeclared
    <2>6. (Typed /\ Converting /\ AllConverted /\ Visiting /\ Walking /\ Bounded /\ Creating)'
      BY <1>2, <1>3, <2>1
      DEF Typed, Converting, AllConverted, Visiting, Walking, Bounded, Creating
    <2> QED
      BY <2>5, <2>6 DEF CreatedInv
  <1>7. CASE ~(next > n)
    <2>1. next \in DOMAIN definitions /\ next - 1 \in Nat /\ next <= n
      BY <1>3, <1>7
    <2>2. d \in AnyDefinition
      BY <1>3, <2>1
    <2> HIDE DEF d
    <2>3. Executable(d) <=> Fits(definitions, next - 1, d)
      BY <1>4, <2>1, <2>2, ExecutableIs
    <2>4. CASE Executable(d)
      <3>1. created' = Append(created, d) /\ next' = next + 1 /\ phase' = "create"
        BY <1>2, <1>7, <2>4 DEF Execute, d
      <3>2. /\ created \in Seq(AnyDefinition) /\ Len(created) = next - 1
            /\ \A i \in 1 .. next - 1 : created[i] = definitions[i]
        BY <1>4 DEF Executed
      <3>3. /\ created' \in Seq(AnyDefinition) /\ Len(created') = next
            /\ \A i \in 1 .. next : created'[i] = definitions[i]
        <4>1. /\ created' \in Seq(AnyDefinition) /\ Len(created') = Len(created) + 1
              /\ \A i \in 1 .. Len(created) : created'[i] = created[i]
              /\ created'[Len(created) + 1] = d
          BY <2>2, <3>1, <3>2, AppendProperties
        <4>2. Len(created) + 1 = next /\ \A i \in 1 .. next : i \in 1 .. next - 1 \/ i = next
          BY <2>1, <3>2
        <4> QED
          BY <3>2, <4>1, <4>2 DEF d
      <3>4. next' - 1 = next
        BY <1>3, <3>1
      <3>5. Executed(definitions, next - 1)'
        BY <1>2, <3>3, <3>4 DEF Executed
      <3>6. \A i \in DOMAIN definitions : i < next' => Fits(definitions, i - 1, definitions[i])
        <4>1. \A i \in DOMAIN definitions : i < next' => i < next \/ i = next
          BY <1>3, <3>1
        <4> QED
          BY <1>4, <2>3, <2>4, <4>1 DEF d
      <3>7. Creating'
        <4>1. next' <= n + 1
          BY <1>3, <2>1, <3>1
        <4>2. (\A i \in DOMAIN definitions : i < next => Fits(definitions, i - 1, definitions[i]))'
          BY <1>2, <3>6 DEF Fits
        <4>3. (Unique(definitions) => Ordered(definitions))'
          BY <1>2, <1>4
        <4> QED
          BY <1>2, <3>5, <4>1, <4>2, <4>3 DEF Creating
      <3>8. AllConverted'
        BY <1>2, <1>5, SameDefinitions DEF AllConverted
      <3>9. Typed'
        BY <1>2, <1>3, <3>1 DEF Typed
      <3>10. (Converting /\ Visiting /\ Walking /\ Bounded /\ CreatedAsDeclared)'
        BY <3>1 DEF Converting, Visiting, Walking, Bounded, CreatedAsDeclared
      <3> QED
        BY <3>7, <3>8, <3>9, <3>10 DEF CreatedInv
    <2>5. CASE ~Executable(d)
      <3>1. phase' = "rejected" /\ UNCHANGED << next, created >>
        BY <1>2, <1>7, <2>5 DEF Execute, d
      <3>2. LongNameReferred \/ AlternativeNotSupported \/ NamesClash \/ FunctionNamedAsTable
        <4> SUFFICES ASSUME ~LongNameReferred, ~AlternativeNotSupported, ~NamesClash,
                            ~FunctionNamedAsTable
                     PROVE  FALSE
          OBVIOUS
        <4>1. Ordered(definitions)
          BY <1>3, <1>4, ClearUnique
        <4>2. Fits(definitions, next - 1, d)
          BY <1>3, <1>5, <2>1, <4>1, FitsWhenClear DEF d
        <4> QED
          BY <2>3, <2>5, <4>2
      <3>3. /\ LongNameReferred' <=> LongNameReferred
            /\ AlternativeNotSupported' <=> AlternativeNotSupported
        BY <1>2 DEF LongNameReferred, AlternativeNotSupported
      <3>4. CreatedAsDeclared'
        BY <1>2, <3>1, <3>2, <3>3, SameDefinitions DEF CreatedAsDeclared
      <3>5. (Typed /\ Converting /\ AllConverted /\ Visiting /\ Walking /\ Bounded /\ Creating)'
        BY <1>2, <1>3, <3>1
        DEF Typed, Converting, AllConverted, Visiting, Walking, Bounded, Creating
      <3> QED
        BY <3>4, <3>5 DEF CreatedInv
    <2> QED
      BY <2>4, <2>5
  <1> QED
    BY <1>6, <1>7

\* Nothing is lost while nothing happens.
LEMMA StepCreatedStutters ==
  ASSUME CreatedInv, UNCHANGED schemaVars
  PROVE  CreatedInv'
  <1>1. UNCHANGED << schema, phase, definitions, depths, frames, next, created >>
    BY DEF schemaVars
  <1>2. Calls' = Calls
    BY <1>1 DEF Calls
  <1>3. \A i : Settled(i)' <=> Settled(i)
    BY <1>1, <1>2 DEF Settled, Deeper
  <1>4. Typed' /\ Converting' /\ AllConverted' /\ Creating'
    BY <1>1, SameDefinitions DEF CreatedInv, Typed, Converting, AllConverted, Creating, Executed
  <1>5. Visiting'
    BY <1>1, <1>2 DEF CreatedInv, Visiting, AnyCall
  <1>6. Walking'
    BY <1>1, <1>2, <1>3, SameDefinitions DEF CreatedInv, Walking
  <1>7. Bounded'
    BY <1>1, <1>2, SameDefinitions DEF CreatedInv, Bounded
  <1>8. CreatedAsDeclared'
    BY <1>1, SameDefinitions
    DEF CreatedInv, CreatedAsDeclared, LongNameReferred, AlternativeNotSupported
  <1> QED
    BY <1>4, <1>5, <1>6, <1>7, <1>8 DEF CreatedInv

\* For every set of schemas and every stack: the walk overflows only where the
\* types are in a circle or names meet, the database rejects the file only for
\* one of the reasons named, and what it accepts has none of the first three
\* (fix_table_declaration_occurrence puts each table behind those it refers to).
THEOREM Created == SchemaSpec => []CreatedAsDeclared
  <1>1. SchemaInit => CreatedInv
    BY InitCreated
  <1>2. CreatedInv /\ [SchemaNext]_schemaVars => CreatedInv'
    <2> SUFFICES ASSUME CreatedInv, [SchemaNext]_schemaVars PROVE CreatedInv'
      OBVIOUS
    <2> QED
      BY StepConvert, StepStartWalk, StepWalkGraph, StepSort, StepExecute, StepCreatedStutters
      DEF SchemaNext
  <1>3. CreatedInv => CreatedAsDeclared
    BY DEF CreatedInv
  <1> QED
    BY <1>1, <1>2, <1>3, PTL DEF SchemaSpec

=============================================================================
