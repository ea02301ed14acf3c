------------------------ MODULE SchemaResolutionProofs ------------------------
(***************************************************************************)
(* Both walks of SchemaResolution find what SchemaMeaning says that names  *)
(* and tags mean, for all modules that a parser can make and every depth   *)
(* of the stack.                                                           *)
(***************************************************************************)
EXTENDS SchemaMeaning, SequenceTheorems, NaturalsInduction,
        WellFoundedInduction, TLAPS

\* Induction on natural numbers about a set instead of a predicate.
LEMMA InductionBySet ==
  ASSUME NEW S, 0 \in S, \A n \in Nat : n \in S => n + 1 \in S
  PROVE  Nat \subseteq S
  <1> SUFFICES ASSUME Nat \ S # {} PROVE FALSE
    OBVIOUS
  <1>1. PICK x \in Nat \ S : \A y \in Nat \ S : << y, x >> \notin OpToRel(<, Nat)
    BY NatLessThanWellFounded, WFMin
  <1>2. x # 0 /\ x - 1 \in Nat /\ (x - 1) + 1 = x
    OBVIOUS
  <1>3. \A y \in Nat \ S : ~(y < x)
    BY <1>1 DEF OpToRel
  <1> QED
    BY <1>2, <1>3

\* A set of natural numbers that has an element has a least one.
LEMMA LeastElement ==
  ASSUME NEW set, set \subseteq Nat, set # {}
  PROVE  \E x \in set : \A y \in set : x <= y
  <1>1. PICK x \in set : \A y \in set : << y, x >> \notin OpToRel(<, Nat)
    BY NatLessThanWellFounded, WFMin
  <1>2. \A y \in set : ~(y < x)
    BY <1>1 DEF OpToRel
  <1> QED
    BY <1>2


-----------------------------------------------------------------------------
(* Sequences and minima *)

\* The concatenation of sequences has their elements.
LEMMA FlattenIsSeq ==
  ASSUME NEW T, NEW s \in Seq(Seq(T))
  PROVE  FlattenSeq(s) \in Seq(T)
  <1> DEFINE e == Len(s)
             Rec(f, m) == f = [i \in 1 .. m |-> IF i = 1 THEN s[i] ELSE f[i - 1] \o s[i]]
             S == {m \in Nat : m <= e => \E f \in [1 .. m -> Seq(T)] : Rec(f, m)}
  <1>1. e \in Nat /\ \A i \in 1 .. e : s[i] \in Seq(T)
    BY LenProperties, ElementOfSeq
  <1> HIDE DEF e
  <1>2. 0 \in S
    <2>1. [i \in 1 .. 0 |-> << >>] \in [1 .. 0 -> Seq(T)] /\ Rec([i \in 1 .. 0 |-> << >>], 0)
      OBVIOUS
    <2> QED
      BY <2>1
  <1>3. ASSUME NEW m \in Nat, m \in S PROVE m + 1 \in S
    <2> SUFFICES ASSUME m + 1 <= e PROVE \E f \in [1 .. m + 1 -> Seq(T)] : Rec(f, m + 1)
      <3> HIDE DEF Rec
      <3> QED
        OBVIOUS
    <2>1. PICK f \in [1 .. m -> Seq(T)] : Rec(f, m)
      <3> HIDE DEF Rec
      <3>1. m <= e
        BY <1>1
      <3> QED
        BY <1>3, <3>1
    <2> DEFINE last == IF m = 0 THEN s[1] ELSE f[m] \o s[m + 1]
               g == [i \in 1 .. m + 1 |-> IF i = m + 1 THEN last ELSE f[i]]
    <2>2. last \in Seq(T)
      <3>1. s[m + 1] \in Seq(T) /\ s[1] \in Seq(T)
        BY <1>1
      <3>2. m # 0 => f[m] \in Seq(T)
        BY <2>1
      <3> QED
        BY <3>1, <3>2, ConcatProperties
    <2>3. g \in [1 .. m + 1 -> Seq(T)]
      <3>1. ASSUME NEW i \in 1 .. m + 1 PROVE g[i] \in Seq(T)
        <4> HIDE DEF last, Rec
        <4> QED
          BY <2>1, <2>2
      <3>2. g = [i \in 1 .. m + 1 |-> g[i]]
        OBVIOUS
      <3> HIDE DEF g
      <3> QED
        BY <3>1, <3>2
    <2>4. Rec(g, m + 1)
      <3>1. ASSUME NEW i \in 1 .. m + 1
            PROVE  g[i] = IF i = 1 THEN s[i] ELSE g[i - 1] \o s[i]
        <4>1. CASE i = m + 1 /\ m # 0
          <5>1. i - 1 = m /\ g[m] = f[m] /\ i # 1
            BY <4>1
          <5> QED
            BY <5>1, <4>1
        <4>2. CASE i = m + 1 /\ m = 0
          BY <4>2
        <4>3. CASE i \in 1 .. m
          <5>1. f[i] = IF i = 1 THEN s[i] ELSE f[i - 1] \o s[i]
            BY <2>1, <4>3
          <5>2. g[i] = f[i] /\ (i # 1 => g[i - 1] = f[i - 1])
            <6> HIDE DEF last
            <6>1. i \in 1 .. m + 1 /\ i # m + 1 /\ (i # 1 => i - 1 \in 1 .. m + 1 /\ i - 1 # m + 1)
              BY <4>3
            <6> QED
              BY <6>1
          <5> QED
            BY <5>1, <5>2, <4>3
        <4> QED
          BY <4>1, <4>2, <4>3
      <3>2. g = [i \in 1 .. m + 1 |-> g[i]]
        OBVIOUS
      <3> HIDE DEF g
      <3> QED
        BY <3>1, <3>2
    <2> HIDE DEF g, Rec
    <2> QED
      BY <2>3, <2>4
  <1>4. e \in S
    <2> HIDE DEF S
    <2>1. Nat \subseteq S
      BY <1>2, <1>3, InductionBySet
    <2> QED
      BY <1>1, <2>1
  <1> DEFINE flat == CHOOSE f : Rec(f, e)
  <1>5. PICK h \in [1 .. e -> Seq(T)] : Rec(h, e)
    <2> HIDE DEF Rec
    <2>1. e <= e
      BY <1>1
    <2> QED
      BY <1>4, <2>1
  <1>6. Rec(flat, e)
    <2> HIDE DEF Rec
    <2> QED
      BY <1>5
  <1>7. FlattenSeq(s) = IF e = 0 THEN s ELSE flat[e]
    BY DEF FlattenSeq, e
  <1>8. ASSUME e # 0 PROVE flat[e] \in Seq(T)
    <2> DEFINE G == {i \in Nat : i \in 1 .. e => flat[i] \in Seq(T)}
    <2>1. 0 \in G
      OBVIOUS
    <2>2. ASSUME NEW i \in Nat, i \in G PROVE i + 1 \in G
      <3> SUFFICES ASSUME i + 1 \in 1 .. e PROVE flat[i + 1] \in Seq(T)
        OBVIOUS
      <3> HIDE DEF flat
      <3>1. s[i + 1] \in Seq(T) /\ (i # 0 => flat[i] \in Seq(T))
        BY <1>1, <2>2
      <3>2. flat[i + 1] = IF i + 1 = 1 THEN s[i + 1] ELSE flat[(i + 1) - 1] \o s[i + 1]
        BY <1>1, <1>6
      <3>3. i # 0 => flat[i] \o s[i + 1] \in Seq(T)
        BY <3>1, ConcatProperties
      <3> QED
        BY <3>1, <3>2, <3>3
    <2>3. Nat \subseteq G
      <3> HIDE DEF G
      <3> QED
        BY <2>1, <2>2, InductionBySet
    <2>4. e \in 1 .. e
      BY <1>1, <1>8
    <2> HIDE DEF flat
    <2> QED
      BY <1>1, <2>3, <2>4
  <1>9. e = 0 => s \in Seq(T)
    BY EmptySeq DEF e
  <1> HIDE DEF flat
  <1> QED
    BY <1>7, <1>8, <1>9

\* The least of a set of numbers.
LEMMA MinIs ==
  ASSUME NEW S, S \subseteq Nat, S # {}
  PROVE  Min(S) \in S /\ \A y \in S : Min(S) <= y
  <1>1. \E x \in S : \A y \in S : x <= y
    BY LeastElement
  <1> QED
    BY <1>1 DEF Min

\* A lower bound that is in the set is its minimum.
LEMMA MinUnique ==
  ASSUME NEW S, S \subseteq Nat, NEW a \in S, \A y \in S : a <= y
  PROVE  Min(S) = a
  <1>1. Min(S) \in S /\ Min(S) <= a
    BY MinIs
  <1>2. Min(S) \in Nat /\ a \in Nat /\ a <= Min(S)
    BY <1>1
  <1> QED
    BY <1>1, <1>2

\* The index of the first of a sequence.
LEMMA FirstOf ==
  ASSUME NEW I, I \subseteq Nat \ {0}, I # {}
  PROVE  Min(I) \in I /\ Min(I) # 0
  <1>1. Min(I) \in I
    BY MinIs
  <1> QED
    BY <1>1

-----------------------------------------------------------------------------
(* Modules, and what they declare and import *)

Loaded == models \in Seq(AnyModule) /\ models # << >>

\* What a module is made of.
LEMMA ModuleIs ==
  ASSUME Loaded
  PROVE  /\ Len(models) \in Nat \ {0} /\ DOMAIN models = 1 .. Len(models)
         /\ \A m \in DOMAIN models :
              /\ models[m] \in AnyModule
              /\ models[m].imports \in Seq([what : SUBSET STRING, from : STRING, fromOid : Nat])
              /\ models[m].definitions \in Seq([name : STRING, tag : AnyOwnTag, type : AnyType])
              /\ models[m].values \in
                   Seq({v \in [name : STRING, integer : BOOLEAN, v : Int, needs : Seq(AnyLookup)] :
                          v.v < UsizeModulus})
  <1>1. Len(models) \in Nat /\ DOMAIN models = 1 .. Len(models)
    BY LenProperties DEF Loaded
  <1>2. Len(models) # 0
    BY EmptySeq DEF Loaded
  <1>3. \A m \in DOMAIN models : models[m] \in AnyModule
    BY ElementOfSeq, <1>1 DEF Loaded
  <1> QED
    BY <1>1, <1>2, <1>3 DEF AnyModule

\* A value that is found is one of the module, and below the modulus.
LEMMA ValueIs ==
  ASSUME Loaded, NEW m \in DOMAIN models, NEW name, Value(m, name) # 0
  PROVE  /\ Value(m, name) \in DOMAIN models[m].values
         /\ models[m].values[Value(m, name)].integer \in BOOLEAN
         /\ models[m].values[Value(m, name)].v \in Int
         /\ models[m].values[Value(m, name)].v < UsizeModulus
  <1> DEFINE s == models[m].values
             I == {i \in 1 .. Len(s) : s[i].name = name}
  <1>1. s \in Seq({v \in [name : STRING, integer : BOOLEAN, v : Int, needs : Seq(AnyLookup)] :
                     v.v < UsizeModulus})
    BY ModuleIs
  <1>2. Value(m, name) = IF I # {} THEN Min(I) ELSE 0
    BY DEF Value, SelectInSeq
  <1> HIDE DEF s
  <1>3. Len(s) \in Nat /\ DOMAIN s = 1 .. Len(s) /\ I \subseteq Nat \ {0}
    BY <1>1, LenProperties
  <1>4. Value(m, name) \in I
    BY <1>2, <1>3, FirstOf
  <1>5. Value(m, name) \in 1 .. Len(s)
    BY <1>4
  <1>6. s[Value(m, name)] \in {v \in [name : STRING, integer : BOOLEAN, v : Int,
                                      needs : Seq(AnyLookup)] : v.v < UsizeModulus}
    BY <1>1, <1>5, ElementOfSeq
  <1> QED
    BY <1>3, <1>5, <1>6 DEF s

\* A definition that is found is one of the module.
LEMMA DefinitionIs ==
  ASSUME Loaded, NEW m \in DOMAIN models, NEW name, Definition(m, name) # 0
  PROVE  /\ Definition(m, name) \in DOMAIN models[m].definitions
         /\ models[m].definitions[Definition(m, name)].type \in AnyType
         /\ models[m].definitions[Definition(m, name)].tag \in AnyOwnTag
  <1> DEFINE s == models[m].definitions
             I == {i \in 1 .. Len(s) : s[i].name = name}
  <1>1. s \in Seq([name : STRING, tag : AnyOwnTag, type : AnyType])
    BY ModuleIs
  <1>2. Definition(m, name) = IF I # {} THEN Min(I) ELSE 0
    BY DEF Definition, SelectInSeq
  <1> HIDE DEF s
  <1>3. Len(s) \in Nat /\ DOMAIN s = 1 .. Len(s) /\ I \subseteq Nat \ {0}
    BY <1>1, LenProperties
  <1>4. Definition(m, name) \in I
    BY <1>2, <1>3, FirstOf
  <1>5. Definition(m, name) \in 1 .. Len(s)
    BY <1>4
  <1>6. s[Definition(m, name)] \in [name : STRING, tag : AnyOwnTag, type : AnyType]
    BY <1>1, <1>5, ElementOfSeq
  <1> QED
    BY <1>3, <1>5, <1>6 DEF s

\* The import that is found, if there is one.
LEMMA NamingIs ==
  ASSUME Loaded, NEW m \in DOMAIN models, NEW name
  PROVE  /\ Naming(m, name) = 0 <=> Importers(m, name) = {}
         /\ Naming(m, name) # 0 => Naming(m, name) \in Importers(m, name)
  <1> DEFINE s == models[m].imports
             I == {i \in 1 .. Len(s) : name \in s[i].what}
  <1>1. s \in Seq([what : SUBSET STRING, from : STRING, fromOid : Nat])
    BY ModuleIs
  <1>2. Naming(m, name) = IF I # {} THEN Min(I) ELSE 0
    BY DEF Naming, SelectInSeq
  <1>3. Len(s) \in Nat /\ DOMAIN s = 1 .. Len(s) /\ I \subseteq Nat \ {0}
    BY <1>1, LenProperties
  <1>4. Importers(m, name) = I
    BY <1>3 DEF Importers
  <1> HIDE DEF I
  <1> QED
    BY <1>2, <1>3, <1>4, FirstOf

\* No name is imported twice: what is found is all that a name may mean.
LEMMA ImportedIs ==
  ASSUME Loaded, Identified, NEW m \in DOMAIN models, NEW name
  PROVE  /\ Naming(m, name) = 0 => ImportedFrom(m, name) = {}
         /\ Naming(m, name) # 0 =>
              /\ Naming(m, name) \in DOMAIN models[m].imports
              /\ ImportedFrom(m, name) = Meant(models[m].imports[Naming(m, name)])
  <1>1. CASE Naming(m, name) = 0
    BY <1>1, NamingIs DEF ImportedFrom
  <1>2. CASE Naming(m, name) # 0
    <2> DEFINE i == Naming(m, name)
    <2>1. i \in DOMAIN models[m].imports /\ name \in models[m].imports[i].what
      BY <1>2, NamingIs DEF Importers
    <2> HIDE DEF i
    <2>2. ASSUME NEW j \in Importers(m, name) PROVE j = i
      BY <2>1, <2>2 DEF Importers, Identified
    <2>3. Importers(m, name) = {i}
      BY <2>1, <2>2 DEF Importers
    <2> QED
      BY <1>2, <2>1, <2>3 DEF ImportedFrom, i
  <1> QED
    BY <1>1, <1>2

\* model_with_imported_item finds the module that is meant, or none if none is.
LEMMA ModelIsMeant ==
  ASSUME Loaded, Identified, NEW m \in DOMAIN models, NEW name
  PROVE  LET n == ModelWithImportedItem(m, name)
         IN  IF n = 0 THEN ImportedFrom(m, name) = {}
             ELSE n \in DOMAIN models /\ ImportedFrom(m, name) = {n}
  <1>1. CASE Naming(m, name) = 0
    BY <1>1, ImportedIs DEF ModelWithImportedItem
  <1>2. CASE Naming(m, name) # 0
    <2> DEFINE import == models[m].imports[Naming(m, name)]
               I == {n \in 1 .. Len(models) :
                       \/ models[n].oid # NoOid /\ models[n].oid = import.fromOid
                       \/ models[n].name = import.from}
    <2>1. ModelWithImportedItem(m, name) = IF I # {} THEN Min(I) ELSE 0
      BY <1>2 DEF ModelWithImportedItem, SelectInSeq
    <2>2. I \subseteq Nat \ {0} /\ DOMAIN models = 1 .. Len(models)
      BY ModuleIs
    <2>3. ImportedFrom(m, name) = Meant(import) /\ Naming(m, name) \in DOMAIN models[m].imports
      BY <1>2, ImportedIs
    <2>4. ASSUME NEW n \in 1 .. Len(models) PROVE n \in I <=> n \in Meant(import)
      <3>1. models[n].name = import.from => n \in Meant(import)
        BY <2>2, <2>3, <2>4 DEF Identified
      <3> HIDE DEF import
      <3> QED
        BY <2>2, <2>4, <3>1 DEF Meant
    <2>5. I = Meant(import)
      <3>1. Meant(import) \subseteq 1 .. Len(models)
        BY <2>2 DEF Meant
      <3> HIDE DEF import
      <3> QED
        BY <2>4, <3>1
    <2>6. ASSUME NEW n \in I, NEW k \in I PROVE n = k
      <3>1. n \in Meant(import) /\ k \in Meant(import)
        BY <2>5, <2>6
      <3>2. n \in DOMAIN models /\ k \in DOMAIN models
        BY <2>2, <2>6
      <3> HIDE DEF import
      <3> QED
        BY <3>1, <3>2 DEF Meant, Identified
    <2> HIDE DEF I, import
    <2> QED
      BY <2>1, <2>2, <2>3, <2>5, <2>6, FirstOf DEF I
  <1> QED
    BY <1>1, <1>2

\* resolve_tag finds the same one.
LEMMA TagModelIsMeant ==
  ASSUME Loaded, Unambiguous, NEW m \in DOMAIN models, NEW name
  PROVE  LET n == TagModel(m, name)
         IN  IF n = 0 THEN ImportedFrom(m, name) = {}
             ELSE /\ n \in DOMAIN models /\ ImportedFrom(m, name) = {n}
                  /\ Definition(m, name) = 0
  <1>0. Identified
    BY DEF Unambiguous
  <1>1. CASE Naming(m, name) = 0
    BY <1>0, <1>1, ImportedIs DEF TagModel
  <1>2. CASE Naming(m, name) # 0
    <2> DEFINE import == models[m].imports[Naming(m, name)]
               I == {n \in 1 .. Len(models) : models[n].name = import.from}
    <2>1. TagModel(m, name) = IF I # {} THEN Min(I) ELSE 0
      BY <1>2 DEF TagModel, SelectInSeq
    <2>2. I \subseteq Nat \ {0} /\ DOMAIN models = 1 .. Len(models)
      BY ModuleIs
    <2>3. ImportedFrom(m, name) = Meant(import) /\ Naming(m, name) \in DOMAIN models[m].imports
      BY <1>0, <1>2, ImportedIs
    <2>4. ASSUME NEW n \in 1 .. Len(models) PROVE n \in I <=> n \in Meant(import)
      <3>1. models[n].name = import.from => n \in Meant(import)
        BY <1>0, <2>2, <2>3, <2>4 DEF Identified
      <3>2. n \in Meant(import) => models[n].name = import.from
        BY <2>2, <2>3, <2>4 DEF Unambiguous
      <3> HIDE DEF import
      <3> QED
        BY <2>2, <2>4, <3>1, <3>2
    <2>5. I = Meant(import)
      <3>1. Meant(import) \subseteq 1 .. Len(models)
        BY <2>2 DEF Meant
      <3> HIDE DEF import
      <3> QED
        BY <2>4, <3>1
    <2>6. ASSUME NEW n \in I, NEW k \in I PROVE n = k
      <3>1. n \in DOMAIN models /\ k \in DOMAIN models /\ models[n].name = models[k].name
        BY <2>2, <2>6
      <3> HIDE DEF import
      <3> QED
        BY <1>0, <3>1 DEF Identified
    <2>7. Definition(m, name) = 0
      BY <1>2, <2>3, NamingIs DEF Importers, Unambiguous
    <2>8. \A n \in I : n \in DOMAIN models
      BY <2>2
    <2> HIDE DEF I, import
    <2>9. CASE I = {}
      BY <2>1, <2>3, <2>5, <2>9
    <2>10. CASE I # {}
      <3>1. Min(I) \in I /\ Min(I) # 0 /\ TagModel(m, name) = Min(I)
        BY <2>1, <2>2, <2>10, FirstOf
      <3>2. I = {Min(I)}
        BY <2>6, <3>1
      <3> QED
        BY <2>3, <2>5, <2>7, <2>8, <3>1, <3>2
    <2> QED
      BY <2>9, <2>10
  <1> QED
    BY <1>1, <1>2

-----------------------------------------------------------------------------
(* Where a name leads to *)

\* What is reached from one module.
LEMMA ReachedIs ==
  ASSUME NEW m \in DOMAIN models, NEW for, NEW name
  PROVE  /\ m \in Reached({m}, for, name) /\ Reached({m}, for, name) \subseteq DOMAIN models
  BY DEF Reached

\* Nothing else is reached than what any closed set has.
LEMMA ReachedIsLeast ==
  ASSUME NEW m \in DOMAIN models, NEW for, NEW name, NEW closed,
         closed \subseteq DOMAIN models, m \in closed,
         \A n \in closed : Passes(n, for, name) \subseteq closed
  PROVE  Reached({m}, for, name) \subseteq closed
  BY DEF Reached

\* Imports lead to modules.
LEMMA PassesToModules ==
  ASSUME NEW m, NEW for, NEW name
  PROVE  Passes(m, for, name) \subseteq DOMAIN models
  BY DEF Passes, ImportedFrom, Meant

\* What a module that is reached passes on to is reached.
LEMMA ReachedIsClosed ==
  ASSUME NEW m \in DOMAIN models, NEW for, NEW name, NEW n \in Reached({m}, for, name)
  PROVE  Passes(n, for, name) \subseteq Reached({m}, for, name)
  <1>1. SUFFICES ASSUME NEW k \in Passes(n, for, name) PROVE k \in Reached({m}, for, name)
    OBVIOUS
  <1>2. k \in DOMAIN models
    BY <1>1, PassesToModules
  <1>3. ASSUME NEW closed \in SUBSET DOMAIN models, {m} \subseteq closed,
               \A x \in closed : Passes(x, for, name) \subseteq closed
        PROVE  k \in closed
    <2>1. n \in closed
      BY <1>3 DEF Reached
    <2> QED
      BY <1>1, <1>3, <2>1
  <1> QED
    BY <1>2, <1>3 DEF Reached

\* A name that a module declares means just that.
LEMMA DeclaredHere ==
  ASSUME NEW m \in DOMAIN models, NEW for, NEW name, Declares(m, for, name)
  PROVE  Declarers(m, for, name) = {m}
  <1>1. Passes(m, for, name) = {}
    BY DEF Passes
  <1>2. Reached({m}, for, name) = {m}
    <2>1. /\ {m} \subseteq DOMAIN models /\ m \in {m}
          /\ \A n \in {m} : Passes(n, for, name) \subseteq {m}
      BY <1>1
    <2> QED
      BY <2>1, ReachedIs, ReachedIsLeast
  <1> QED
    BY <1>2 DEF Declarers

\* A name that is imported means what it means there.
LEMMA DeclaredThere ==
  ASSUME NEW m \in DOMAIN models, NEW for, NEW name, ~Declares(m, for, name),
         NEW n \in DOMAIN models, ImportedFrom(m, name) = {n}
  PROVE  Declarers(m, for, name) = Declarers(n, for, name)
  <1>1. Passes(m, for, name) = {n}
    BY DEF Passes
  <1> DEFINE there == Reached({n}, for, name)
             here == {m} \cup there
  <1>2. here \in SUBSET DOMAIN models /\ \A x \in here : Passes(x, for, name) \subseteq here
    BY <1>1, ReachedIs, ReachedIsClosed
  <1>3. Reached({m}, for, name) \subseteq here
    <2> HIDE DEF here
    <2>1. m \in here
      BY DEF here
    <2> QED
      BY <1>2, <2>1, ReachedIsLeast
  <1>4. there \subseteq Reached({m}, for, name)
    <2> DEFINE closed == Reached({m}, for, name)
    <2>1. closed \in SUBSET DOMAIN models /\ m \in closed
      BY ReachedIs
    <2>2. \A x \in closed : Passes(x, for, name) \subseteq closed
      BY ReachedIsClosed
    <2>3. n \in closed
      BY <1>1, <2>1, <2>2
    <2> HIDE DEF closed
    <2>4. there \subseteq closed
      BY <2>1, <2>2, <2>3, ReachedIsLeast
    <2> QED
      BY <2>4 DEF closed
  <1> QED
    BY <1>3, <1>4 DEF Declarers

\* A name that is neither declared nor imported means nothing.
LEMMA DeclaredNowhere ==
  ASSUME NEW m \in DOMAIN models, NEW for, NEW name, ~Declares(m, for, name),
         ImportedFrom(m, name) = {}
  PROVE  Declarers(m, for, name) = {}
  <1>1. Passes(m, for, name) = {}
    BY DEF Passes
  <1>2. Reached({m}, for, name) = {m}
    <2>1. /\ {m} \subseteq DOMAIN models /\ m \in {m}
          /\ \A n \in {m} : Passes(n, for, name) \subseteq {m}
      BY <1>1
    <2> QED
      BY <2>1, ReachedIs, ReachedIsLeast
  <1> QED
    BY <1>2 DEF Declarers

\* Who declares a name is a module that does.
LEMMA DeclarersDeclare ==
  ASSUME NEW m \in DOMAIN models, NEW for, NEW name, NEW d \in Declarers(m, for, name)
  PROVE  d \in DOMAIN models /\ Declares(d, for, name)
  BY ReachedIs DEF Declarers

-----------------------------------------------------------------------------
(* What there is to look up, and to ask for *)

\* The types that a component may have.
LEMMA SimpleTypeIs ==
  ASSUME NEW t \in AnySimpleType
  PROVE  /\ t \in AnyType /\ t.kind \in {"plain", "enumerated", "reference"}
         /\ t.kind = "plain" => t.tag \in Nat /\ t.needs \in Seq(AnyLookup)
         /\ t.kind = "enumerated" => t.tag \in Nat
         /\ t.kind = "reference" => t.to \in STRING
  BY DEF AnySimpleType, AnyType

\* The types that a definition may have.
LEMMA TypeIs ==
  ASSUME NEW t \in AnyType
  PROVE  /\ t.kind \in {"choice", "set"} \/ t \in AnySimpleType
         /\ t.kind \in {"choice", "set"} =>
              t.of \in Seq(AnyComponent) /\ t.roots \in Nat /\ t.roots <= Len(t.of)
         /\ t.kind = "choice" => t.roots \in Nat \ {0}
         /\ t.kind = "set" => t.tag \in Nat
  BY DEF AnyType, AnySimpleType

\* What a component looks up are look-ups.
LEMMA ComponentLookupsAre ==
  ASSUME NEW c \in AnyComponent
  PROVE  ComponentLookups(c) \in Seq(AnyLookup)
  <1> DEFINE first == IF c.type.kind = "plain" THEN c.type.needs ELSE << >>
             through == IF c.type.kind = "reference" THEN c.type.to ELSE NoName
             lookup == [wants |-> "value", name |-> c.default, through |-> through]
             second == IF c.default = NoName THEN << >> ELSE << lookup >>
  <1>1. c.type \in AnySimpleType /\ c.default \in STRING \cup {NoName}
    BY DEF AnyComponent
  <1>2. first \in Seq(AnyLookup)
    BY <1>1, SimpleTypeIs, EmptySeq
  <1>3. through \in STRING \cup {NoName}
    BY <1>1, SimpleTypeIs
  <1> HIDE DEF through
  <1>4. c.default # NoName => lookup \in AnyLookup
    BY <1>1, <1>3 DEF AnyLookup
  <1> HIDE DEF lookup
  <1>5. second \in Seq(AnyLookup)
    BY <1>4, EmptySeq
  <1>6. ComponentLookups(c) = first \o second
    BY DEF ComponentLookups, lookup, through
  <1> HIDE DEF first, second
  <1> QED
    BY <1>2, <1>5, <1>6, ConcatProperties

\* So is what a type looks up ...
LEMMA TypeLookupsAre ==
  ASSUME NEW t \in AnyType
  PROVE  TypeLookups(t) \in Seq(AnyLookup)
  <1>1. CASE t.kind = "plain"
    BY <1>1, TypeIs, SimpleTypeIs DEF TypeLookups
  <1>2. CASE t.kind \in {"choice", "set"}
    <2> DEFINE s == [i \in DOMAIN t.of |-> ComponentLookups(t.of[i])]
    <2>1. t.of \in Seq(AnyComponent)
      BY <1>2, TypeIs
    <2>2. Len(t.of) \in Nat /\ DOMAIN t.of = 1 .. Len(t.of)
      BY <2>1, LenProperties
    <2>3. ASSUME NEW i \in 1 .. Len(t.of) PROVE s[i] \in Seq(AnyLookup)
      BY <2>1, <2>2, <2>3, ElementOfSeq, ComponentLookupsAre
    <2>4. s \in Seq(Seq(AnyLookup))
      <3>1. s = [i \in 1 .. Len(t.of) |-> s[i]]
        BY <2>2
      <3> HIDE DEF s
      <3> QED
        BY <2>2, <2>3, <3>1, IsASeq
    <2>5. TypeLookups(t) = FlattenSeq(s)
      BY <1>2 DEF TypeLookups
    <2> HIDE DEF s
    <2> QED
      BY <2>4, <2>5, FlattenIsSeq
  <1>3. CASE t.kind \notin {"plain", "choice", "set"}
    BY <1>3, EmptySeq DEF TypeLookups
  <1> QED
    BY <1>1, <1>2, <1>3

\* ... and what a module does.
LEMMA LookupsAre ==
  ASSUME Loaded, NEW m \in DOMAIN models
  PROVE  Lookups(m) \in Seq(AnyLookup)
  <1> DEFINE values == models[m].values
             definitions == models[m].definitions
             first == [i \in DOMAIN values |-> values[i].needs]
             second == [i \in DOMAIN definitions |-> TypeLookups(definitions[i].type)]
  <1>1. first \in Seq(Seq(AnyLookup))
    <2>1. values \in Seq({v \in [name : STRING, integer : BOOLEAN, v : Int,
                                  needs : Seq(AnyLookup)] : v.v < UsizeModulus})
      BY ModuleIs
    <2>2. Len(values) \in Nat /\ DOMAIN values = 1 .. Len(values)
      BY <2>1, LenProperties
    <2> HIDE DEF values
    <2>3. ASSUME NEW i \in 1 .. Len(values) PROVE first[i] \in Seq(AnyLookup)
      <3>1. values[i] \in [name : STRING, integer : BOOLEAN, v : Int, needs : Seq(AnyLookup)]
        BY <2>1, <2>3, ElementOfSeq
      <3> QED
        BY <2>2, <3>1
    <2>4. first = [i \in 1 .. Len(values) |-> first[i]]
      BY <2>2
    <2> HIDE DEF first
    <2> QED
      BY <2>2, <2>3, <2>4, IsASeq
  <1>2. second \in Seq(Seq(AnyLookup))
    <2>1. definitions \in Seq([name : STRING, tag : AnyOwnTag, type : AnyType])
      BY ModuleIs
    <2>2. Len(definitions) \in Nat /\ DOMAIN definitions = 1 .. Len(definitions)
      BY <2>1, LenProperties
    <2> HIDE DEF definitions
    <2>3. ASSUME NEW i \in 1 .. Len(definitions) PROVE second[i] \in Seq(AnyLookup)
      <3>1. definitions[i] \in [name : STRING, tag : AnyOwnTag, type : AnyType]
        BY <2>1, <2>3, ElementOfSeq
      <3>2. definitions[i].type \in AnyType
        BY <3>1
      <3> QED
        BY <2>2, <3>2, TypeLookupsAre
    <2>4. second = [i \in 1 .. Len(definitions) |-> second[i]]
      BY <2>2
    <2> HIDE DEF second
    <2> QED
      BY <2>2, <2>3, <2>4, IsASeq
  <1>3. Lookups(m) = FlattenSeq(first) \o FlattenSeq(second)
    BY DEF Lookups
  <1> HIDE DEF first, second
  <1> QED
    BY <1>1, <1>2, <1>3, FlattenIsSeq, ConcatProperties

AnyQuestion == [model : DOMAIN models, definition : Nat, component : Nat, type : AnyType]

\* What a module asks for are questions.
LEMMA QuestionsAre ==
  ASSUME Loaded, NEW m \in DOMAIN models
  PROVE  Questions(m) \in Seq(AnyQuestion)
  <1> DEFINE definitions == models[m].definitions
             Of(d) == IF definitions[d].type.kind \in {"choice", "set"}
                      THEN definitions[d].type.of ELSE << >>
             own(d) == [model |-> m, definition |-> d, component |-> 0,
                        type |-> definitions[d].type]
             first(d) == [c \in DOMAIN Of(d) |-> [model |-> m, definition |-> d, component |-> c,
                                                  type |-> Of(d)[c].type]]
             second(d) == IF definitions[d].type.kind = "choice" /\ definitions[d].tag = NoTag
                          THEN << own(d) >> ELSE << >>
             s == [d \in DOMAIN definitions |-> first(d) \o second(d)]
  <1>1. definitions \in Seq([name : STRING, tag : AnyOwnTag, type : AnyType])
    BY ModuleIs
  <1>2. Len(definitions) \in Nat /\ DOMAIN definitions = 1 .. Len(definitions)
    BY <1>1, LenProperties
  <1>3. Questions(m) = FlattenSeq(s)
    BY DEF Questions
  <1> HIDE DEF definitions
  <1>4. ASSUME NEW d \in 1 .. Len(definitions) PROVE first(d) \o second(d) \in Seq(AnyQuestion)
    <2>1. definitions[d] \in [name : STRING, tag : AnyOwnTag, type : AnyType]
      BY <1>1, <1>4, ElementOfSeq
    <2>2. definitions[d].type \in AnyType /\ d \in Nat
      BY <2>1
    <2>3. own(d) \in AnyQuestion
      BY <2>2 DEF AnyQuestion
    <2>4. second(d) \in Seq(AnyQuestion)
      <3> HIDE DEF own
      <3> QED
        BY <2>3, EmptySeq
    <2>5. Of(d) \in Seq(AnyComponent)
      BY <2>2, TypeIs, EmptySeq
    <2>6. first(d) \in Seq(AnyQuestion)
      <3> HIDE DEF Of
      <3>1. Len(Of(d)) \in Nat /\ DOMAIN Of(d) = 1 .. Len(Of(d))
        BY <2>5, LenProperties
      <3>2. ASSUME NEW c \in 1 .. Len(Of(d)) PROVE first(d)[c] \in AnyQuestion
        <4>1. Of(d)[c] \in AnyComponent
          BY <2>5, <3>2, ElementOfSeq
        <4>2. Of(d)[c].type \in AnyType
          BY <4>1, SimpleTypeIs DEF AnyComponent
        <4> QED
          BY <2>2, <3>1, <4>2 DEF AnyQuestion
      <3>3. first(d) = [c \in 1 .. Len(Of(d)) |-> first(d)[c]]
        BY <3>1
      <3> HIDE DEF first
      <3> QED
        BY <3>1, <3>2, <3>3, IsASeq
    <2> HIDE DEF first, second
    <2> QED
      BY <2>4, <2>6, ConcatProperties
  <1>5. s \in Seq(Seq(AnyQuestion))
    <2> HIDE DEF first, second
    <2>1. \A d \in 1 .. Len(definitions) : s[d] \in Seq(AnyQuestion)
      BY <1>2, <1>4
    <2>2. s = [d \in 1 .. Len(definitions) |-> s[d]]
      BY <1>2
    <2> HIDE DEF s
    <2> QED
      BY <1>2, <2>1, <2>2, IsASeq
  <1> HIDE DEF s
  <1> QED
    BY <1>3, <1>5, FlattenIsSeq

\* And so is what all of them ask for.
LEMMA AllQuestionsAre ==
  ASSUME Loaded
  PROVE  FlattenSeq([m \in DOMAIN models |-> Questions(m)]) \in Seq(AnyQuestion)
  <1> DEFINE s == [m \in DOMAIN models |-> Questions(m)]
  <1>1. Len(models) \in Nat /\ DOMAIN models = 1 .. Len(models)
    BY ModuleIs
  <1>2. \A m \in 1 .. Len(models) : s[m] \in Seq(AnyQuestion)
    BY <1>1, QuestionsAre
  <1>3. s = [m \in 1 .. Len(models) |-> s[m]]
    BY <1>1
  <1> HIDE DEF s
  <1>4. s \in Seq(Seq(AnyQuestion))
    BY <1>1, <1>2, <1>3, IsASeq
  <1> QED
    BY <1>4, FlattenIsSeq DEF s

-----------------------------------------------------------------------------
(* What stays while the modules do *)

\* Where a module declares a name, and where it imports it from.
LEMMA PlacesKept ==
  ASSUME models' = models, NEW m, NEW name
  PROVE  /\ Value(m, name)' = Value(m, name)
         /\ Definition(m, name)' = Definition(m, name)
         /\ ImportedFrom(m, name)' = ImportedFrom(m, name)
  <1>1. Value(m, name)' = Value(m, name)
    BY DEF Value, SelectInSeq
  <1>2. Definition(m, name)' = Definition(m, name)
    BY DEF Definition, SelectInSeq
  <1>3. ImportedFrom(m, name)' = ImportedFrom(m, name)
    BY DEF ImportedFrom, Importers, Meant
  <1> QED
    BY <1>1, <1>2, <1>3

\* Where a name leads to.
LEMMA DeclarersKept ==
  ASSUME models' = models, NEW m, NEW for, NEW name
  PROVE  Declarers(m, for, name)' = Declarers(m, for, name)
  <1>1. ASSUME NEW n
        PROVE  /\ Declares(n, for, name)' <=> Declares(n, for, name)
               /\ Passes(n, for, name)' = Passes(n, for, name)
    BY PlacesKept DEF Declares, Passes
  <1>2. Reached({m}, for, name)' = Reached({m}, for, name)
    BY <1>1 DEF Reached
  <1> QED
    BY <1>1, <1>2 DEF Declarers

\* What makes names unambiguous, and what they mean.
LEMMA MeaningKept ==
  ASSUME models' = models
  PROVE  /\ Identified' <=> Identified
         /\ Unambiguous' <=> Unambiguous
         /\ \A m, lookup : IsItem(m, lookup)' <=> IsItem(m, lookup)
         /\ \A m, lookup : MeantValues(m, lookup)' = MeantValues(m, lookup)
  <1>1. Identified' <=> Identified
    BY DEF Identified, Meant
  <1>2. Unambiguous' <=> Unambiguous
    BY <1>1, PlacesKept DEF Unambiguous, Meant
  <1>3. ASSUME NEW m, NEW lookup PROVE IsItem(m, lookup)' <=> IsItem(m, lookup)
    BY DeclarersKept, PlacesKept DEF IsItem
  <1>4. ASSUME NEW m, NEW lookup PROVE MeantValues(m, lookup)' = MeantValues(m, lookup)
    BY DeclarersKept, PlacesKept DEF MeantValues
  <1> QED
    BY <1>1, <1>2, <1>3, <1>4

-----------------------------------------------------------------------------
(* Names: what is found so far, and where the search is *)

AnyResult == [item : BOOLEAN, v : Int]
AnyFound == [model : DOMAIN models, lookup : AnyLookup, at : DOMAIN models, result : AnyResult]
AnySearch == [at : DOMAIN models, for : {"type", "value"}, depth : 1 .. MaxDepth]

ResolvingTyped ==
    /\ Loaded
    /\ phase \in Ended \cup {"resolve", "tag"}
    /\ current \in DOMAIN models
    /\ todo \in Seq(AnyLookup)
    /\ search # << >> => /\ phase \in {"resolve"} \cup Ended
                         /\ todo # << >>
                         /\ search = << search[1] >> /\ search[1] \in AnySearch
    /\ found \in Seq(AnyFound)

\* A search goes on with what it began with; a value is searched for if there is
\* no such item.
Wanted(lookup, for) == IF for = "type" THEN lookup.through ELSE lookup.name
LeadsOn(at, for) ==
    LET lookup == Head(todo)
    IN  /\ Declarers(at, for, Wanted(lookup, for)) = Declarers(current, for, Wanted(lookup, for))
        /\ IF for = "type" THEN lookup.through # NoName ELSE ~IsItem(current, lookup)
SearchMeant == Identified /\ search # << >> => LeadsOn(search[1].at, search[1].for)

AsDeclared(f) ==
    /\ f.result.item <=> IsItem(f.model, f.lookup)
    /\ ~f.result.item => \E value \in MeantValues(f.model, f.lookup) :
                            \/ f.result.v = value.v
                            \/ f.lookup.wants = "size" /\ value.v < 0
FoundMeant == Identified => \A i \in 1 .. Len(found) : AsDeclared(found[i])

EndMeant ==
    Identified =>
        /\ phase = "unresolved" => MeantValues(current, Head(todo)) = {}
        /\ phase = "unparsed" => \E value \in MeantValues(current, Head(todo)) : ~value.integer

ResolveInv == ResolvingTyped /\ SearchMeant /\ FoundMeant /\ EndMeant

\* The invariant of the search is more than the property.
LEMMA ResolveInvSuffices == ResolveInv => FoundAsDeclared
  <1> SUFFICES ASSUME ResolveInv, Identified PROVE FoundAsDeclared
    BY DEF FoundAsDeclared
  <1>1. DOMAIN found = 1 .. Len(found)
    BY LenProperties DEF ResolveInv, ResolvingTyped
  <1>2. \A f \in Range(found) : AsDeclared(f)
    BY <1>1 DEF Range, ResolveInv, FoundMeant
  <1> QED
    BY <1>2 DEF FoundAsDeclared, AsDeclared, ResolveInv, EndMeant

\* What was found stays as declared.
LEMMA FoundKept ==
  ASSUME FoundMeant, models' = models, found' = found
  PROVE  FoundMeant'
  <1>1. ASSUME NEW f PROVE AsDeclared(f)' <=> AsDeclared(f)
    BY MeaningKept DEF AsDeclared
  <1> QED
    BY <1>1, MeaningKept DEF FoundMeant

\* A search that is on its way keeps the invariant, if it leads on.
LEMMA SearchKeeps ==
  ASSUME ResolveInv, models' = models, current' = current, todo' = todo, found' = found,
         phase' = "resolve", todo # << >>, NEW at \in DOMAIN models, NEW for \in {"type", "value"},
         NEW depth \in 1 .. MaxDepth,
         search' = << [at |-> at, for |-> for, depth |-> depth] >>,
         Identified => LeadsOn(at, for)
  PROVE  ResolveInv'
  <1>1. ResolvingTyped'
    BY DEF ResolveInv, ResolvingTyped, Loaded, AnySearch, AnyFound
  <1>2. SearchMeant'
    <2>1. LeadsOn(at, for)' <=> LeadsOn(at, for)
      BY DeclarersKept, MeaningKept DEF LeadsOn
    <2>2. search'[1].at = at /\ search'[1].for = for
      OBVIOUS
    <2> QED
      BY <2>1, <2>2, MeaningKept DEF SearchMeant
  <1>3. FoundMeant'
    BY FoundKept DEF ResolveInv
  <1>4. EndMeant'
    BY DEF EndMeant
  <1> QED
    BY <1>1, <1>2, <1>3, <1>4 DEF ResolveInv

\* An end keeps it, if it is justified.
LEMMA EndKeeps ==
  ASSUME ResolveInv, models' = models, current' = current, todo' = todo, found' = found,
         search' = search, phase' \in Ended,
         Identified /\ phase' = "unresolved" => MeantValues(current, Head(todo)) = {},
         Identified /\ phase' = "unparsed" =>
            \E value \in MeantValues(current, Head(todo)) : ~value.integer
  PROVE  ResolveInv'
  <1>1. ResolvingTyped'
    BY DEF ResolveInv, ResolvingTyped, Loaded, AnySearch, AnyFound
  <1>2. SearchMeant'
    <2>1. ASSUME NEW at, NEW for PROVE LeadsOn(at, for)' <=> LeadsOn(at, for)
      BY DeclarersKept, MeaningKept DEF LeadsOn
    <2> QED
      BY <2>1, MeaningKept DEF SearchMeant, ResolveInv
  <1>3. FoundMeant'
    BY FoundKept DEF ResolveInv
  <1>4. EndMeant'
    BY MeaningKept DEF EndMeant
  <1> QED
    BY <1>1, <1>2, <1>3, <1>4 DEF ResolveInv

\* Something found keeps it, if it is as declared.
LEMMA FindKeeps ==
  ASSUME ResolveInv, phase = "resolve", search # << >>, NEW result \in AnyResult, Finds(result),
         Identified => AsDeclared([model |-> current, lookup |-> Head(todo), at |-> search[1].at,
                                   result |-> result])
  PROVE  ResolveInv'
  <1> DEFINE f == [model |-> current, lookup |-> Head(todo), at |-> search[1].at,
                   result |-> result]
  <1>1. /\ models' = models /\ phase' = phase /\ current' = current
        /\ found' = Append(found, f) /\ todo' = Tail(todo) /\ search' = << >>
    BY DEF Finds
  <1>2. todo # << >> /\ Head(todo) \in AnyLookup /\ Tail(todo) \in Seq(AnyLookup)
    BY HeadTailProperties DEF ResolveInv, ResolvingTyped
  <1>3. f \in AnyFound
    BY <1>2 DEF ResolveInv, ResolvingTyped, AnyFound, AnySearch
  <1> HIDE DEF f
  <1>4. /\ Append(found, f) \in Seq(AnyFound) /\ Len(found) \in Nat
        /\ Len(Append(found, f)) = Len(found) + 1
        /\ \A i \in 1 .. Len(found) : Append(found, f)[i] = found[i]
        /\ Append(found, f)[Len(found) + 1] = f
    <2>1. found \in Seq(AnyFound)
      BY DEF ResolveInv, ResolvingTyped
    <2> QED
      BY <1>3, <2>1, AppendProperties, LenProperties
  <1>5. ResolvingTyped'
    <2>1. AnyFound' = AnyFound
      BY <1>1 DEF AnyFound
    <2> QED
      BY <1>1, <1>2, <1>4, <2>1 DEF ResolveInv, ResolvingTyped, Loaded
  <1>6. SearchMeant'
    BY <1>1 DEF SearchMeant
  <1>7. FoundMeant'
    <2>1. ASSUME NEW g PROVE AsDeclared(g)' <=> AsDeclared(g)
      BY <1>1, MeaningKept DEF AsDeclared
    <2>2. Identified => \A i \in 1 .. Len(found) + 1 : AsDeclared(Append(found, f)[i])
      BY <1>4 DEF ResolveInv, FoundMeant, f
    <2> QED
      BY <1>1, <1>4, <2>1, <2>2, MeaningKept DEF FoundMeant
  <1>8. EndMeant'
    BY <1>1 DEF EndMeant
  <1> QED
    BY <1>5, <1>6, <1>7, <1>8 DEF ResolveInv

-----------------------------------------------------------------------------
(* Steps of the ResolveScope *)

\* The search in progress.
LEMMA SearchIs ==
  ASSUME ResolveInv, search # << >>
  PROVE  /\ search[1].at \in DOMAIN models /\ search[1].for \in {"type", "value"}
         /\ search[1].depth \in 1 .. MaxDepth
         /\ search = << search[1] >>
         /\ todo # << >> /\ Head(todo) \in AnyLookup
         /\ Sought = Wanted(Head(todo), search[1].for)
         /\ Declares(search[1].at, search[1].for, Sought) <=> Here # 0
         /\ Identified => LeadsOn(search[1].at, search[1].for)
  <1>1. /\ search[1] \in AnySearch /\ search = << search[1] >>
        /\ todo # << >> /\ todo \in Seq(AnyLookup)
    BY DEF ResolveInv, ResolvingTyped
  <1>2. Head(todo) \in AnyLookup
    BY <1>1, HeadTailProperties
  <1>3. Declares(search[1].at, search[1].for, Sought) <=> Here # 0
    BY DEF Declares, Here
  <1>4. Identified => LeadsOn(search[1].at, search[1].for)
    BY DEF ResolveInv, SearchMeant
  <1> QED
    BY <1>1, <1>2, <1>3, <1>4 DEF AnySearch, Sought, Wanted

\* The depth of the stack allows a call.
LEMMA DepthIs == MaxDepth \in Nat \ {0} /\ UsizeModulus \in Nat \ {0} /\ 1 \in 1 .. MaxDepth
  BY ProgramsAssumption

\* A search begins where the name is used.
LEMMA StartLookupKeeps ==
  ASSUME ResolveInv, StartLookup
  PROVE  ResolveInv'
  <1> DEFINE for == IF Head(todo).through = NoName THEN "value" ELSE "type"
  <1>1. /\ models' = models /\ current' = current /\ todo' = todo /\ found' = found
        /\ phase' = "resolve" /\ todo # << >>
        /\ search' = << [at |-> current, for |-> for, depth |-> 1] >>
    BY DEF StartLookup, Searching
  <1>2. for \in {"type", "value"} /\ current \in DOMAIN models
    BY DEF ResolveInv, ResolvingTyped
  <1>3. LeadsOn(current, for)
    BY DEF LeadsOn, IsItem
  <1> HIDE DEF for
  <1> QED
    BY <1>1, <1>2, <1>3, DepthIs, SearchKeeps

\* It begins anew for a value, if there is no such item.
LEMMA InsteadKeeps ==
  ASSUME ResolveInv, phase = "resolve", search # << >>, LookForValueInstead,
         Identified => ~IsItem(current, Head(todo))
  PROVE  ResolveInv'
  <1>1. /\ models' = models /\ current' = current /\ todo' = todo /\ found' = found
        /\ phase' = "resolve" /\ todo # << >>
        /\ search' = << [at |-> current, for |-> "value", depth |-> 1] >>
    BY SearchIs DEF LookForValueInstead, Searching
  <1>2. current \in DOMAIN models
    BY DEF ResolveInv, ResolvingTyped
  <1>3. Identified => LeadsOn(current, "value")
    BY DEF LeadsOn
  <1> QED
    BY <1>1, <1>2, <1>3, DepthIs, SearchKeeps

\* A value is found where it is declared.
LEMMA FindValueKeeps ==
  ASSUME ResolveInv, FindValue
  PROVE  ResolveInv'
  <1> DEFINE at == search[1].at
             lookup == Head(todo)
             value == models[at].values[Here]
  <1>1. phase = "resolve" /\ search # << >> /\ Here # 0 /\ search[1].for = "value"
    BY DEF FindValue
  <1>2. at \in DOMAIN models /\ lookup \in AnyLookup /\ Sought = lookup.name
    BY <1>1, SearchIs DEF Wanted
  <1>3. Here = Value(at, lookup.name)
    BY <1>1, <1>2 DEF Here
  <1>4. Identified => value \in MeantValues(current, lookup) /\ ~IsItem(current, lookup)
    <2> SUFFICES ASSUME Identified
                 PROVE  value \in MeantValues(current, lookup) /\ ~IsItem(current, lookup)
      OBVIOUS
    <2>1. LeadsOn(at, "value") /\ Declares(at, "value", lookup.name)
      BY <1>1, <1>2, SearchIs
    <2>2. Declarers(current, "value", lookup.name) = {at}
      BY <1>2, <2>1, DeclaredHere DEF LeadsOn, Wanted
    <2> QED
      BY <1>3, <2>1, <2>2 DEF MeantValues, LeadsOn
  <1>5. value.integer \in BOOLEAN /\ value.v \in Int /\ value.v < UsizeModulus
    <2>1. Loaded
      BY DEF ResolveInv, ResolvingTyped
    <2> QED
      BY <1>1, <1>2, <1>3, <2>1, ValueIs
  <1>6. \/ lookup.wants = "value" /\ Finds(Literal(value.v))
        \/ ~value.integer /\ Fails("unparsed")
        \/ lookup.wants = "integer" /\ Finds(Literal(value.v))
        \/ lookup.wants = "size" /\ Finds(Literal(AsUsize(value.v)))
    BY DEF FindValue
  <1> HIDE DEF value, lookup, at
  <1>7. ASSUME NEW v \in Int, Finds(Literal(v)),
               v = value.v \/ (lookup.wants = "size" /\ value.v < 0)
        PROVE  ResolveInv'
    <2>1. Literal(v) \in AnyResult /\ Literal(v).item = FALSE /\ Literal(v).v = v
      BY DEF Literal, AnyResult
    <2> DEFINE r == Literal(v)
               f == [model |-> current, lookup |-> Head(todo), at |-> search[1].at, result |-> r]
    <2>2. f.result = r /\ f.model = current /\ f.lookup = lookup
      BY DEF lookup
    <2> HIDE DEF r, f
    <2>3. Identified => AsDeclared(f)
      BY <1>4, <1>7, <2>1, <2>2 DEF AsDeclared, r
    <2> QED
      BY <1>1, <1>7, <2>1, <2>3, FindKeeps DEF f, r
  <1>8. CASE Fails("unparsed") /\ ~value.integer
    <2>1. /\ models' = models /\ current' = current /\ todo' = todo /\ found' = found
          /\ search' = search /\ phase' = "unparsed"
      BY <1>8 DEF Fails, resolving
    <2> QED
      BY <1>4, <1>8, <2>1, EndKeeps DEF Ended, lookup
  <1>9. CASE lookup.wants \in {"value", "integer"} /\ Finds(Literal(value.v))
    BY <1>5, <1>7, <1>9
  <1>10. CASE lookup.wants = "size" /\ Finds(Literal(AsUsize(value.v)))
    <2>1. AsUsize(value.v) \in Int /\ (value.v >= 0 => AsUsize(value.v) = value.v)
      BY <1>5, DepthIs DEF AsUsize
    <2>2. value.v >= 0 \/ value.v < 0
      BY <1>5
    <2> QED
      BY <1>7, <1>10, <2>1, <2>2
  <1> QED
    BY <1>6, <1>8, <1>9, <1>10

\* A type is found where it is declared.
LEMMA FindTypeKeeps ==
  ASSUME ResolveInv, FindType
  PROVE  ResolveInv'
  <1> DEFINE at == search[1].at
             lookup == Head(todo)
             type == models[at].definitions[Here].type
             fits == type.kind = "enumerated" /\ lookup.name \in type.items
  <1>1. phase = "resolve" /\ search # << >> /\ Here # 0 /\ search[1].for = "type"
    BY DEF FindType
  <1>2. at \in DOMAIN models /\ Sought = lookup.through
    BY <1>1, SearchIs DEF Wanted
  <1>3. Here = Definition(at, lookup.through)
    BY <1>1, <1>2 DEF Here
  <1>4. Identified => (IsItem(current, lookup) <=> fits)
    <2> SUFFICES ASSUME Identified PROVE IsItem(current, lookup) <=> fits
      OBVIOUS
    <2>1. LeadsOn(at, "type") /\ Declares(at, "type", lookup.through)
      BY <1>1, <1>2, SearchIs
    <2>2. Declarers(current, "type", lookup.through) = {at} /\ lookup.through # NoName
      BY <1>2, <2>1, DeclaredHere DEF LeadsOn, Wanted
    <2> QED
      BY <1>3, <2>2 DEF IsItem
  <1>5. IF fits THEN Finds(Item) ELSE LookForValueInstead
    BY DEF FindType
  <1> HIDE DEF fits, at
  <1>6. CASE fits
    <2>1. Item \in AnyResult /\ Item.item = TRUE
      BY DEF Item, AnyResult
    <2> DEFINE f == [model |-> current, lookup |-> Head(todo), at |-> search[1].at, result |-> Item]
    <2>2. f.result = Item /\ f.model = current /\ f.lookup = lookup
      OBVIOUS
    <2> HIDE DEF f, lookup
    <2>3. Identified => AsDeclared(f)
      BY <1>4, <1>6, <2>1, <2>2 DEF AsDeclared
    <2> QED
      BY <1>1, <1>5, <1>6, <2>1, <2>3, FindKeeps DEF f
  <1>7. CASE ~fits
    BY <1>1, <1>4, <1>5, <1>7, InsteadKeeps
  <1> QED
    BY <1>6, <1>7

\* The search goes on where the import leads to.
LEMMA FollowImportKeeps ==
  ASSUME ResolveInv, FollowImport
  PROVE  ResolveInv'
  <1> DEFINE at == search[1].at
             for == search[1].for
             next == ModelWithImportedItem(at, Sought)
  <1>0. Loaded
    BY DEF ResolveInv, ResolvingTyped
  <1>1. phase = "resolve" /\ search # << >> /\ Here = 0 /\ next # 0
    BY DEF FollowImport
  <1>2. /\ at \in DOMAIN models /\ Sought = Wanted(Head(todo), for) /\ ~Declares(at, for, Sought)
        /\ Identified => LeadsOn(at, for)
        /\ for \in {"type", "value"} /\ search[1].depth \in 1 .. MaxDepth /\ todo # << >>
    BY <1>1, SearchIs
  <1>3. next \in DOMAIN models
    \* the index of a module, whichever it is
    <2> DEFINE i == Naming(at, Sought)
               I == {n \in 1 .. Len(models) :
                       \/ models[n].oid # NoOid /\ models[n].oid = models[at].imports[i].fromOid
                       \/ models[n].name = models[at].imports[i].from}
    <2>1. next = IF I # {} THEN Min(I) ELSE 0
      BY <1>1 DEF ModelWithImportedItem, SelectInSeq
    <2>2. I \subseteq Nat \ {0} /\ DOMAIN models = 1 .. Len(models)
      BY <1>0, ModuleIs
    <2>3. next \in I
      <3> HIDE DEF I
      <3> QED
        BY <1>1, <2>1, <2>2, FirstOf
    <2> QED
      BY <2>2, <2>3
  <1>4. Identified => LeadsOn(next, for)
    <2> SUFFICES ASSUME Identified PROVE LeadsOn(next, for)
      OBVIOUS
    <2>1. ImportedFrom(at, Sought) = {next}
      BY <1>0, <1>1, <1>2, ModelIsMeant
    <2>2. Declarers(at, for, Sought) = Declarers(next, for, Sought)
      BY <1>2, <1>3, <2>1, DeclaredThere
    <2> HIDE DEF next, for, at
    <2> QED
      BY <1>2, <2>2 DEF LeadsOn
  <1>5. CASE search[1].depth = MaxDepth
    <2>1. /\ models' = models /\ current' = current /\ todo' = todo /\ found' = found
          /\ search' = search /\ phase' = "overflow"
      BY <1>5 DEF FollowImport, Fails, resolving
    <2> QED
      BY <2>1, EndKeeps DEF Ended
  <1>6. CASE search[1].depth # MaxDepth
    <2> DEFINE depth == search[1].depth + 1
    <2>1. /\ models' = models /\ current' = current /\ todo' = todo /\ found' = found
          /\ phase' = "resolve"
          /\ search' = << [at |-> next, for |-> for, depth |-> depth] >>
      BY <1>1, <1>6 DEF FollowImport
    <2>3. depth \in 1 .. MaxDepth
      BY <1>2, <1>6, DepthIs
    <2> HIDE DEF next, depth, for
    <2> QED
      BY <1>2, <1>3, <1>4, <2>1, <2>3, SearchKeeps
  <1> QED
    BY <1>5, <1>6

\* It fails where no import leads on.
LEMMA MissKeeps ==
  ASSUME ResolveInv, Miss
  PROVE  ResolveInv'
  <1> DEFINE at == search[1].at
             for == search[1].for
             lookup == Head(todo)
  <1>0. Loaded
    BY DEF ResolveInv, ResolvingTyped
  <1>1. /\ phase = "resolve" /\ search # << >> /\ Here = 0
        /\ ModelWithImportedItem(at, Sought) = 0
        /\ IF for = "type" THEN LookForValueInstead ELSE Fails("unresolved")
    BY DEF Miss
  <1>2. /\ at \in DOMAIN models /\ Sought = Wanted(lookup, for) /\ ~Declares(at, for, Sought)
        /\ Identified => LeadsOn(at, for)
        /\ for \in {"type", "value"}
    BY <1>1, SearchIs
  <1>3. Identified => Declarers(current, for, Sought) = {}
    <2> SUFFICES ASSUME Identified PROVE Declarers(current, for, Sought) = {}
      OBVIOUS
    <2>1. ImportedFrom(at, Sought) = {}
      BY <1>0, <1>1, <1>2, ModelIsMeant
    <2>2. Declarers(at, for, Sought) = {}
      BY <1>2, <2>1, DeclaredNowhere
    <2> HIDE DEF at, for
    <2> QED
      BY <1>2, <2>2 DEF LeadsOn
  <1>4. CASE for = "type"
    <2>1. Identified => ~IsItem(current, lookup)
      BY <1>2, <1>3, <1>4 DEF IsItem, Wanted
    <2> QED
      BY <1>1, <1>4, <2>1, InsteadKeeps
  <1>5. CASE for = "value"
    <2>1. /\ models' = models /\ current' = current /\ todo' = todo /\ found' = found
          /\ search' = search /\ phase' = "unresolved"
      BY <1>1, <1>5 DEF Fails, resolving
    <2>2. Identified => MeantValues(current, lookup) = {}
      BY <1>2, <1>3, <1>5 DEF MeantValues, Wanted
    <2> QED
      BY <2>1, <2>2, EndKeeps DEF Ended
  <1> QED
    BY <1>2, <1>4, <1>5

\* The next module, or the tags.
LEMMA NextModelKeeps ==
  ASSUME ResolveInv, NextModel
  PROVE  ResolveInv'
  <1>1. models' = models /\ search = << >> /\ search' = << >> /\ found' = found
    BY DEF NextModel
  <1>2. /\ current' \in DOMAIN models /\ todo' \in Seq(AnyLookup)
        /\ phase' \in {"resolve", "tag"}
    <2>1. CASE current < Len(models)
      <3>1. current' = current + 1 /\ todo' = Lookups(current') /\ phase' = "resolve"
        <4>1. phase = "resolve" /\ phase' = phase
          BY <2>1 DEF NextModel
        <4> QED
          BY <2>1, <4>1 DEF NextModel
      <3>2. Loaded' /\ Loaded /\ current \in DOMAIN models
        BY <1>1 DEF ResolveInv, ResolvingTyped, Loaded
      <3>3. current' \in DOMAIN models
        BY <2>1, <3>1, <3>2, ModuleIs
      <3> QED
        BY <3>1, <3>2, <3>3, LookupsAre
    <2>2. CASE ~(current < Len(models))
      BY <2>2 DEF NextModel, ResolveInv, ResolvingTyped
    <2> QED
      BY <2>1, <2>2
  <1>3. ResolvingTyped'
    BY <1>1, <1>2 DEF ResolveInv, ResolvingTyped, Loaded, AnyFound
  <1>4. SearchMeant' /\ EndMeant'
    BY <1>1, <1>2 DEF SearchMeant, EndMeant
  <1>5. FoundMeant'
    BY <1>1, FoundKept DEF ResolveInv
  <1> QED
    BY <1>3, <1>4, <1>5 DEF ResolveInv

\* The TagResolver and what comes after it change nothing of this.
LEMMA TaggingKeeps ==
  ASSUME ResolveInv, phase = "tag", UNCHANGED <<models, resolving>>,
         phase' \in {"tag", "overflow", "done", "untagged"}
  PROVE  ResolveInv'
  <1>1. /\ models' = models /\ current' = current /\ todo' = todo /\ found' = found
        /\ search' = search /\ search = << >>
    BY DEF resolving, ResolveInv, ResolvingTyped, Ended
  <1>2. ResolvingTyped'
    BY <1>1 DEF ResolveInv, ResolvingTyped, Loaded, AnyFound, Ended
  <1>3. SearchMeant' /\ EndMeant'
    BY <1>1 DEF SearchMeant, EndMeant
  <1>4. FoundMeant'
    BY <1>1, FoundKept DEF ResolveInv
  <1> QED
    BY <1>2, <1>3, <1>4 DEF ResolveInv

-----------------------------------------------------------------------------
(* Tags: the calls in progress *)

AnyFrame ==
    [op : {"type"}, at : DOMAIN models, type : AnyType]
    \cup [op : {"reference"}, at : DOMAIN models, name : STRING, from : {"imports", "definitions"}]
    \cup [op : {"choice"}, at : DOMAIN models, least : AnyOwnTag, left : Seq(AnyComponent)]
AnyTag == [question : AnyQuestion, tag : AnyOwnTag]

\* The calls that have called another one: all but the innermost, and that one
\* too when it has its answer.
Waiting == {i \in 1 .. Len(frames) : i # 1 \/ answer # Pending}
Awaits(frame) ==
    CASE frame.op = "type" -> FALSE
      [] frame.op = "choice" -> frame.left # << >> /\ Head(frame.left).tag = NoTag
      [] frame.op = "reference" ->
           IF frame.from = "imports" THEN TagModel(frame.at, frame.name) # 0
           ELSE LET d == Definition(frame.at, frame.name)
                IN  d # 0 /\ models[frame.at].definitions[d].tag = NoTag

TaggingTyped ==
    /\ asked \in Seq(AnyQuestion)
    /\ frames \in Seq(AnyFrame) /\ Len(frames) <= MaxDepth
    /\ answer \in AnyOwnTag \cup {Pending}
    /\ tags \in Seq(AnyTag)
    /\ frames # << >> \/ answer # Pending => asked # << >> /\ phase \in {"tag", "overflow"}
    /\ answer # Pending => phase = "tag"
    /\ \A i \in Waiting : Awaits(frames[i])

\* What a call that waits asks for, and what a call was asked for.
Asks(frame) ==
    CASE frame.op = "choice" -> [at |-> frame.at, type |-> Head(frame.left).type]
      [] frame.op = "reference" ->
           IF frame.from = "imports"
           THEN [at |-> TagModel(frame.at, frame.name),
                 type |-> [kind |-> "reference", to |-> frame.name]]
           ELSE [at |-> frame.at,
                 type |-> models[frame.at].definitions[Definition(frame.at, frame.name)].type]
Goal(i) ==
    IF i = Len(frames) THEN [at |-> Head(asked).model, type |-> Head(asked).type]
    ELSE Asks(frames[i + 1])

\* The tag of a type is the smallest it leads to, or there is none.
Means(m, type, tag) ==
    IF tag = NoTag THEN Dangling(m, type)
    ELSE /\ ~Dangling(m, type)
         /\ tag \in AllTags(m, type) /\ \A other \in AllTags(m, type) : tag <= other

\* The same of an alternative.
PartTags(m, c) == IF c.tag # NoTag THEN {c.tag} ELSE AllTags(m, c.type)
PartDangles(m, c) == c.tag = NoTag /\ Dangling(m, c.type)

\* The alternatives in front of those left are through.
Through(frame, type) == type.roots - Len(frame.left)
LeastSoFar(frame, type) ==
    /\ Len(frame.left) <= type.roots
    /\ \A i \in 1 .. Len(frame.left) : frame.left[i] = type.of[Through(frame, type) + i]
    /\ frame.least = NoTag <=> Through(frame, type) = 0
    /\ \A c \in 1 .. Through(frame, type) :
          /\ ~PartDangles(frame.at, type.of[c])
          /\ \A tag \in PartTags(frame.at, type.of[c]) : frame.least <= tag
    /\ frame.least # NoTag =>
          \E c \in 1 .. Through(frame, type) : frame.least \in PartTags(frame.at, type.of[c])

\* A call is for what was asked for.
Answers(frame, goal) ==
    /\ frame.at = goal.at
    /\ CASE frame.op = "type" -> frame.type = goal.type
         [] frame.op = "reference" ->
              /\ goal.type.kind = "reference" /\ goal.type.to = frame.name
              /\ \/ frame.from = "imports"
                 \/ Definition(frame.at, frame.name) # 0
                 \/ Dangling(frame.at, goal.type)
         [] frame.op = "choice" -> goal.type.kind = "choice" /\ LeastSoFar(frame, goal.type)

TagsMeant ==
    Unambiguous =>
        /\ \A i \in 1 .. Len(frames) : Answers(frames[i], Goal(i))
        /\ answer # Pending => Means(Goal(0).at, Goal(0).type, answer)
        /\ \A i \in 1 .. Len(tags) :
              Means(tags[i].question.model, tags[i].question.type, tags[i].tag)

TagInv == TaggingTyped /\ TagsMeant

-----------------------------------------------------------------------------
(* All of this depends on nothing but the modules *)

\* Where an import leads to for a tag.
LEMMA TagModelKept ==
  ASSUME models' = models, NEW m, NEW name
  PROVE  TagModel(m, name)' = TagModel(m, name)
  BY DEF TagModel, Naming, SelectInSeq

\* What is behind a type.
LEMMA BehindKept ==
  ASSUME models' = models, NEW m, NEW type
  PROVE  /\ Behind(m, type)' = Behind(m, type)
         /\ Lost(m, type)' <=> Lost(m, type)
  <1>1. \A x : TagOf(x)' = TagOf(x) /\ TypeOf(x)' = TypeOf(x)
    BY DEF TagOf, TypeOf
  <1>2. Definitions' = Definitions
    BY DEF Definitions
  <1>3. ASSUME NEW n, NEW t PROVE Meanings(n, t)' = Meanings(n, t)
    BY DeclarersKept, PlacesKept DEF Meanings
  <1>4. Behind(m, type)' = Behind(m, type)
    BY <1>1, <1>2, <1>3 DEF Behind
  <1>5. Lost(m, type)' <=> Lost(m, type)
    BY DeclarersKept DEF Lost
  <1> QED
    BY <1>4, <1>5

\* The tags of a type.
LEMMA TagsKept ==
  ASSUME models' = models, NEW m, NEW type
  PROVE  /\ Dangling(m, type)' <=> Dangling(m, type)
         /\ AllTags(m, type)' = AllTags(m, type)
  <1>1. \A x : TagOf(x)' = TagOf(x) /\ TypeOf(x)' = TypeOf(x)
    BY DEF TagOf, TypeOf
  <1>2. ASSUME NEW n, NEW t PROVE Lost(n, t)' <=> Lost(n, t)
    BY BehindKept
  <1>3. Dangling(m, type)' <=> Dangling(m, type)
    BY <1>1, <1>2, BehindKept DEF Dangling
  <1>4. AllTags(m, type)' = AllTags(m, type)
    BY <1>1, BehindKept DEF AllTags
  <1> QED
    BY <1>3, <1>4

\* Of whatever type, tag and call.
LEMMA CallsKept ==
  ASSUME models' = models
  PROVE  /\ \A m, type, tag : Means(m, type, tag)' <=> Means(m, type, tag)
         /\ \A frame : Awaits(frame)' <=> Awaits(frame)
         /\ \A frame : Asks(frame)' = Asks(frame)
         /\ \A frame, goal : Answers(frame, goal)' <=> Answers(frame, goal)
  <1>1. ASSUME NEW m, NEW type, NEW tag PROVE Means(m, type, tag)' <=> Means(m, type, tag)
    BY TagsKept DEF Means
  <1>2. ASSUME NEW frame PROVE Awaits(frame)' <=> Awaits(frame)
    BY TagModelKept, PlacesKept DEF Awaits
  <1>3. ASSUME NEW frame PROVE Asks(frame)' = Asks(frame)
    BY TagModelKept, PlacesKept DEF Asks
  <1>4. ASSUME NEW frame, NEW goal PROVE Answers(frame, goal)' <=> Answers(frame, goal)
    <2>1. ASSUME NEW m, NEW c
          PROVE  /\ PartTags(m, c)' = PartTags(m, c)
                 /\ PartDangles(m, c)' <=> PartDangles(m, c)
      BY TagsKept DEF PartTags, PartDangles
    <2>2. LeastSoFar(frame, goal.type)' <=> LeastSoFar(frame, goal.type)
      BY <2>1 DEF LeastSoFar, Through
    <2> QED
      BY <2>2, PlacesKept, TagsKept DEF Answers
  <1> QED
    BY <1>1, <1>2, <1>3, <1>4

-----------------------------------------------------------------------------
(* The stack of calls *)

\* One more call.
LEMMA PushShape ==
  ASSUME NEW T, NEW s \in Seq(T), NEW c \in T
  PROVE  LET r == << c >> \o s
         IN  /\ r \in Seq(T) /\ Len(s) \in Nat /\ Len(r) = Len(s) + 1 /\ r[1] = c
             /\ \A i \in 1 .. Len(s) : r[i + 1] = s[i]
  OBVIOUS

\* Another call in place of the innermost.
LEMMA GotoShape ==
  ASSUME NEW T, NEW s \in Seq(T), s # << >>, NEW c \in T
  PROVE  LET r == << c >> \o Tail(s)
         IN  /\ r \in Seq(T) /\ Len(s) \in Nat \ {0} /\ Len(r) = Len(s) /\ r[1] = c
             /\ \A i \in 2 .. Len(s) : r[i] = s[i]
  OBVIOUS

\* One call less.
LEMMA ReturnShape ==
  ASSUME NEW T, NEW s \in Seq(T), s # << >>
  PROVE  /\ Tail(s) \in Seq(T) /\ Len(s) \in Nat \ {0} /\ Len(Tail(s)) = Len(s) - 1
         /\ \A i \in 1 .. Len(s) - 1 : Tail(s)[i] = s[i + 1]
  OBVIOUS

-----------------------------------------------------------------------------
(* The moves of the TagResolver: it calls, goes on, and returns *)

\* What a move leaves alone.
LEMMA TaggingIs ==
  ASSUME Tagging
  PROVE  phase = "tag" /\ models' = models /\ asked' = asked /\ tags' = tags
  BY DEF Tagging

\* The sets of values stay with the modules.
LEMMA SetsKept ==
  ASSUME models' = models
  PROVE  AnyFrame' = AnyFrame /\ AnyTag' = AnyTag /\ AnyQuestion' = AnyQuestion
  BY DEF AnyFrame, AnyTag, AnyQuestion

\* The stack of calls.
LEMMA StackIs ==
  ASSUME TagInv
  PROVE  /\ frames \in Seq(AnyFrame) /\ Len(frames) \in Nat
         /\ frames # << >> <=> Len(frames) # 0
         /\ \A i \in 1 .. Len(frames) : frames[i] \in AnyFrame
  <1>1. frames \in Seq(AnyFrame)
    BY DEF TagInv, TaggingTyped
  <1> QED
    BY <1>1

\* A call is refused for want of stack.
LEMMA OverflowKeeps ==
  ASSUME TagInv, models' = models, asked' = asked, frames' = frames, answer' = answer,
         tags' = tags, phase' = "overflow", answer = Pending
  PROVE  TagInv'
  <1>1. TaggingTyped'
    <2>1. Waiting' = Waiting
      BY DEF Waiting
    <2> QED
      BY <2>1, CallsKept, SetsKept DEF TagInv, TaggingTyped
  <1>2. TagsMeant'
    <2>1. \A i : Goal(i)' = Goal(i)
      BY CallsKept DEF Goal
    <2> QED
      BY <2>1, CallsKept, MeaningKept DEF TagInv, TagsMeant
  <1> QED
    BY <1>1, <1>2 DEF TagInv

\* A call goes on as another one, for the same goal.
LEMMA GotoKeeps ==
  ASSUME TagInv, Tagging, frames # << >>, NEW call \in AnyFrame, Goto(call),
         Unambiguous => Answers(call, Goal(1))
  PROVE  TagInv' /\ phase' = "tag"
  <1>1. /\ phase = "tag" /\ models' = models /\ asked' = asked /\ tags' = tags
        /\ phase' = "tag" /\ answer' = Pending /\ frames' = << call >> \o Tail(frames)
    BY TaggingIs DEF Goto, Below
  <1>2. /\ frames' \in Seq(AnyFrame) /\ Len(frames) \in Nat \ {0} /\ Len(frames') = Len(frames)
        /\ frames'[1] = call /\ \A i \in 2 .. Len(frames) : frames'[i] = frames[i]
    BY <1>1, StackIs, GotoShape
  <1>3. TaggingTyped'
    <2>1. ASSUME NEW i \in Waiting' PROVE frames'[i] = frames[i] /\ i \in Waiting
      BY <1>1, <1>2 DEF Waiting
    <2> QED
      BY <1>1, <1>2, <2>1, CallsKept, SetsKept DEF TagInv, TaggingTyped
  <1>4. TagsMeant'
    <2>1. ASSUME NEW i \in 1 .. Len(frames) PROVE Goal(i)' = Goal(i)
      <3>1. CASE i = Len(frames)
        BY <1>1, <1>2, <3>1 DEF Goal
      <3>2. CASE i # Len(frames)
        <4>1. i + 1 \in 2 .. Len(frames)
          BY <1>2, <3>2
        <4>2. frames'[i + 1] = frames[i + 1]
          BY <1>2, <4>1
        <4> QED
          BY <1>1, <1>2, <3>2, <4>2, CallsKept DEF Goal
      <3> QED
        BY <3>1, <3>2
    <2>2. ASSUME Unambiguous, NEW i \in 1 .. Len(frames) PROVE Answers(frames'[i], Goal(i))
      <3>1. CASE i = 1
        BY <1>2, <2>2, <3>1
      <3>2. CASE i # 1
        BY <1>2, <2>2, <3>2 DEF TagInv, TagsMeant
      <3> QED
        BY <3>1, <3>2
    <2> QED
      BY <1>1, <1>2, <2>1, <2>2, CallsKept, MeaningKept DEF TagInv, TagsMeant
  <1> QED
    BY <1>1, <1>3, <1>4 DEF TagInv

\* A call makes another one, for what it asks for.
LEMMA PushKeeps ==
  ASSUME TagInv, Tagging, frames # << >>, answer = Pending, NEW call \in AnyFrame, Push(call),
         Awaits(frames[1]), Unambiguous => Answers(call, Asks(frames[1]))
  PROVE  TagInv' /\ phase' \in {"tag", "overflow"}
  <1>1. phase = "tag" /\ models' = models /\ asked' = asked /\ tags' = tags
    BY TaggingIs
  <1>2. CASE Len(frames) = MaxDepth
    BY <1>1, <1>2, OverflowKeeps DEF Push
  <1>3. CASE Len(frames) # MaxDepth
    <2>1. phase' = "tag" /\ answer' = Pending /\ frames' = << call >> \o frames
      BY <1>1, <1>3 DEF Push
    <2>2. /\ frames' \in Seq(AnyFrame) /\ Len(frames) \in Nat /\ Len(frames) # 0
          /\ Len(frames') = Len(frames) + 1
          /\ frames'[1] = call /\ \A i \in 1 .. Len(frames) : frames'[i + 1] = frames[i]
      BY <2>1, StackIs, PushShape
    <2>3. Len(frames') <= MaxDepth
      BY <1>3, <2>2, DepthIs DEF TagInv, TaggingTyped
    <2>4. TaggingTyped'
      <3>1. ASSUME NEW i \in Waiting' PROVE Awaits(frames'[i])
        <4>1. i - 1 \in 1 .. Len(frames) /\ i = (i - 1) + 1
          BY <2>1, <2>2 DEF Waiting
        <4>2. frames'[i] = frames[i - 1]
          BY <2>2, <4>1
        <4>3. i - 1 = 1 \/ i - 1 \in Waiting
          BY <4>1 DEF Waiting
        <4> QED
          BY <4>2, <4>3 DEF TagInv, TaggingTyped
      <3> QED
        BY <1>1, <2>1, <2>2, <2>3, <3>1, CallsKept, SetsKept DEF TagInv, TaggingTyped
    <2>5. TagsMeant'
      <3>1. Goal(1)' = Asks(frames[1]) /\ \A i \in 1 .. Len(frames) : Goal(i + 1)' = Goal(i)
        <4>1. Goal(1)' = Asks(frames[1])
          BY <1>1, <2>2, CallsKept DEF Goal
        <4>2. ASSUME NEW i \in 1 .. Len(frames) PROVE Goal(i + 1)' = Goal(i)
          <5>1. CASE i = Len(frames)
            BY <1>1, <2>2, <5>1 DEF Goal
          <5>2. CASE i # Len(frames)
            <6>1. i + 1 \in 1 .. Len(frames)
              BY <2>2, <5>2
            <6>2. frames'[(i + 1) + 1] = frames[i + 1] /\ i + 1 # Len(frames')
              BY <2>2, <5>2, <6>1
            <6> QED
              BY <1>1, <5>2, <6>2, CallsKept DEF Goal
          <5> QED
            BY <5>1, <5>2
        <4> QED
          BY <4>1, <4>2
      <3>2. ASSUME Unambiguous, NEW i \in 1 .. Len(frames') PROVE Answers(frames[i], Goal(i))'
        <4>1. CASE i = 1
          BY <1>1, <2>2, <3>1, <3>2, <4>1, CallsKept
        <4>2. CASE i # 1
          <5>1. i - 1 \in 1 .. Len(frames) /\ i = (i - 1) + 1
            BY <2>2, <4>2
          <5>2. frames'[i] = frames[i - 1] /\ Goal(i)' = Goal(i - 1)
            BY <2>2, <3>1, <5>1
          <5>3. Answers(frames[i - 1], Goal(i - 1))
            BY <3>2, <5>1 DEF TagInv, TagsMeant
          <5> QED
            BY <1>1, <5>2, <5>3, CallsKept
        <4> QED
          BY <4>1, <4>2
      <3> QED
        BY <1>1, <2>1, <3>2, CallsKept, MeaningKept DEF TagInv, TagsMeant
    <2> QED
      BY <2>1, <2>4, <2>5 DEF TagInv
  <1> QED
    BY <1>2, <1>3

\* A call returns, with a tag that its goal means.
LEMMA ReturnKeeps ==
  ASSUME TagInv, Tagging, frames # << >>, NEW tag \in AnyOwnTag, Return(tag),
         Unambiguous => Means(Goal(1).at, Goal(1).type, tag)
  PROVE  TagInv' /\ phase' = "tag"
  <1>1. /\ phase = "tag" /\ models' = models /\ asked' = asked /\ tags' = tags
        /\ phase' = "tag" /\ answer' = tag /\ frames' = Tail(frames)
    BY TaggingIs DEF Return, Below
  <1>2. /\ frames' \in Seq(AnyFrame) /\ Len(frames) \in Nat \ {0} /\ Len(frames') = Len(frames) - 1
        /\ \A i \in 1 .. Len(frames) - 1 : frames'[i] = frames[i + 1]
    BY <1>1, StackIs, ReturnShape
  <1>3. Len(frames') <= MaxDepth
    BY <1>2, DepthIs DEF TagInv, TaggingTyped
  <1>4. TaggingTyped'
    <2>1. ASSUME NEW i \in Waiting' PROVE Awaits(frames'[i])
      <3>1. i \in 1 .. Len(frames) - 1 /\ i + 1 \in Waiting
        BY <1>2 DEF Waiting
      <3> QED
        BY <1>2, <3>1 DEF TagInv, TaggingTyped
    <2>2. asked # << >>
      BY DEF TagInv, TaggingTyped
    <2> QED
      BY <1>1, <1>2, <1>3, <2>1, <2>2, CallsKept, SetsKept DEF TagInv, TaggingTyped
  <1>5. TagsMeant'
    <2>1. \A i \in 0 .. Len(frames) - 1 : Goal(i)' = Goal(i + 1)
      <3>1. ASSUME NEW i \in 0 .. Len(frames) - 1 PROVE Goal(i)' = Goal(i + 1)
        <4>1. CASE i = Len(frames')
          BY <1>1, <1>2, <4>1 DEF Goal
        <4>2. CASE i # Len(frames')
          <5>1. i + 1 \in 1 .. Len(frames) - 1
            BY <1>2, <4>2
          <5>2. frames'[i + 1] = frames[(i + 1) + 1] /\ i + 1 # Len(frames)
            BY <1>2, <5>1
          <5> QED
            BY <1>1, <4>2, <5>2, CallsKept DEF Goal
        <4> QED
          BY <4>1, <4>2
      <3> QED
        BY <3>1
    <2>2. ASSUME Unambiguous, NEW i \in 1 .. Len(frames') PROVE Answers(frames[i], Goal(i))'
      <3>1. i \in 1 .. Len(frames) - 1 /\ i + 1 \in 1 .. Len(frames)
        BY <1>2
      <3>2. frames'[i] = frames[i + 1] /\ Goal(i)' = Goal(i + 1)
        BY <1>2, <2>1, <3>1
      <3>3. Answers(frames[i + 1], Goal(i + 1))
        BY <2>2, <3>1 DEF TagInv, TagsMeant
      <3> QED
        BY <1>1, <3>2, <3>3, CallsKept
    <2>3. Goal(0)' = Goal(1)
      BY <1>2, <2>1
    <2> QED
      BY <1>1, <2>2, <2>3, CallsKept, MeaningKept DEF TagInv, TagsMeant
  <1> QED
    BY <1>1, <1>4, <1>5 DEF TagInv

-----------------------------------------------------------------------------
(* Where names lead to *)

Follows(x) == IF TagOf(x) = NoTag THEN Meanings(x[1], TypeOf(x)) ELSE {}
Closed(S) == \A x \in S : Follows(x) \subseteq S

\* Names mean definitions.
LEMMA MeaningsAre ==
  ASSUME Loaded, NEW m \in DOMAIN models, NEW type
  PROVE  Meanings(m, type) \subseteq Definitions
  <1> SUFFICES ASSUME NEW name, NEW d \in Declarers(m, "type", name)
               PROVE  << d, Definition(d, name) >> \in Definitions
    BY DEF Meanings
  <1>1. d \in DOMAIN models /\ Definition(d, name) # 0
    BY DeclarersDeclare DEF Declares
  <1>2. Definition(d, name) \in DOMAIN models[d].definitions
    BY <1>1, DefinitionIs
  <1> QED
    BY <1>1, <1>2 DEF Definitions

\* A definition has its module, its tag and its type.
LEMMA DefinitionsAre ==
  ASSUME Loaded, NEW x \in Definitions
  PROVE  x[1] \in DOMAIN models /\ TagOf(x) \in AnyOwnTag /\ TypeOf(x) \in AnyType
  <1>1. PICK m \in DOMAIN models : \E d \in DOMAIN models[m].definitions : x = << m, d >>
    BY DEF Definitions
  <1>2. PICK d \in DOMAIN models[m].definitions : x = << m, d >>
    BY <1>1
  <1>3. models[m].definitions \in Seq([name : STRING, tag : AnyOwnTag, type : AnyType])
    BY ModuleIs
  <1>4. models[m].definitions[d] \in [name : STRING, tag : AnyOwnTag, type : AnyType]
    BY <1>3, ElementOfSeq, LenProperties
  <1> QED
    BY <1>2, <1>4 DEF TagOf, TypeOf

\* What is behind a type, in terms of closed sets.
LEMMA BehindAs ==
  ASSUME NEW m, NEW type
  PROVE  Behind(m, type) =
           {x \in Definitions : \A closed \in SUBSET Definitions :
               Meanings(m, type) \subseteq closed /\ Closed(closed) => x \in closed}
  <1> DEFINE leads == UNION {{<<x, y>> : y \in Meanings(x[1], TypeOf(x))} :
                                x \in {x \in Definitions : TagOf(x) = NoTag}}
  <1>1. ASSUME NEW closed \in SUBSET Definitions
        PROVE  (\A l \in leads : l[1] \in closed => l[2] \in closed) <=> Closed(closed)
    <2>1. \A l : l \in leads <=> \E x \in Definitions : \E y \in Meanings(x[1], TypeOf(x)) :
                                    TagOf(x) = NoTag /\ l = << x, y >>
      OBVIOUS
    <2> HIDE DEF leads
    <2>2. ASSUME \A l \in leads : l[1] \in closed => l[2] \in closed PROVE Closed(closed)
      <3> SUFFICES ASSUME NEW x \in closed, NEW y \in Follows(x) PROVE y \in closed
        BY DEF Closed
      <3>1. TagOf(x) = NoTag /\ y \in Meanings(x[1], TypeOf(x)) /\ x \in Definitions
        BY DEF Follows
      <3>2. << x, y >> \in leads
        BY <2>1, <3>1
      <3>3. << x, y >>[1] = x /\ << x, y >>[2] = y
        OBVIOUS
      <3> QED
        BY <2>2, <3>2, <3>3
    <2>3. ASSUME Closed(closed), NEW l \in leads, l[1] \in closed PROVE l[2] \in closed
      <3>1. PICK x \in Definitions :
               \E y \in Meanings(x[1], TypeOf(x)) : TagOf(x) = NoTag /\ l = << x, y >>
        BY <2>1
      <3>2. PICK y \in Meanings(x[1], TypeOf(x)) : TagOf(x) = NoTag /\ l = << x, y >>
        BY <3>1
      <3>3. l[1] = x /\ l[2] = y
        BY <3>2
      <3> QED
        BY <2>3, <3>2, <3>3 DEF Closed, Follows
    <2> QED
      BY <2>2, <2>3
  <1>2. Behind(m, type) = {x \in Definitions : \A closed \in SUBSET Definitions :
            /\ Meanings(m, type) \subseteq closed
            /\ \A l \in leads : l[1] \in closed => l[2] \in closed
            => x \in closed}
    BY DEF Behind
  <1> HIDE DEF leads
  <1> QED
    BY <1>1, <1>2

\* It is the same behind types whose names mean the same.
LEMMA BehindSame ==
  ASSUME NEW m, NEW type, NEW n, NEW other, Meanings(m, type) = Meanings(n, other)
  PROVE  Behind(m, type) = Behind(n, other)
  BY BehindAs

\* It has what the names of the type mean, and is closed.
LEMMA BehindIs ==
  ASSUME Loaded, NEW m \in DOMAIN models, NEW type
  PROVE  /\ Meanings(m, type) \subseteq Behind(m, type)
         /\ Behind(m, type) \subseteq Definitions
         /\ Closed(Behind(m, type))
  <1>1. Meanings(m, type) \subseteq Behind(m, type) /\ Behind(m, type) \subseteq Definitions
    BY BehindAs, MeaningsAre
  <1>2. Closed(Behind(m, type))
    <2> SUFFICES ASSUME NEW x \in Behind(m, type), NEW y \in Follows(x)
                 PROVE  y \in Behind(m, type)
      BY DEF Closed
    <2>1. x \in Definitions
      BY <1>1
    <2>2. y \in Definitions
      <3>1. y \in Meanings(x[1], TypeOf(x))
        BY DEF Follows
      <3> QED
        BY <2>1, <3>1, DefinitionsAre, MeaningsAre
    <2>3. ASSUME NEW closed \in SUBSET Definitions, Meanings(m, type) \subseteq closed,
                 Closed(closed)
          PROVE  y \in closed
      <3>1. x \in closed
        BY <2>3, BehindAs
      <3> QED
        BY <2>3, <3>1 DEF Closed
    <2> QED
      BY <2>2, <2>3, BehindAs
  <1> QED
    BY <1>1, <1>2

\* It is the least such set.
LEMMA BehindIsLeast ==
  ASSUME NEW m, NEW type, NEW closed, closed \subseteq Definitions,
         Meanings(m, type) \subseteq closed, Closed(closed)
  PROVE  Behind(m, type) \subseteq closed
  BY BehindAs

-----------------------------------------------------------------------------
(* The tags of types, by kind *)

\* A type that is no name and no CHOICE has its own tag.
LEMMA OtherTypeTag ==
  ASSUME NEW m, NEW type \in AnyType, type.kind \notin {"reference", "choice"}
  PROVE  Means(m, type, type.tag) /\ type.tag \in Nat
  <1>1. type.tag \in Nat
    BY TypeIs, SimpleTypeIs
  <1>2. Parts(type) = {type}
    BY DEF Parts
  <1>3. NamesIn(type) = {} /\ TagsIn(type) = {type.tag}
    BY <1>2 DEF NamesIn, TagsIn
  <1>4. Meanings(m, type) = {} /\ ~Lost(m, type)
    BY <1>3 DEF Meanings, Lost
  <1>5. Behind(m, type) = {}
    <2>1. {} \subseteq Definitions /\ Closed({})
      BY DEF Closed
    <2> QED
      BY <1>4, <2>1, BehindIsLeast
  <1>6. ~Dangling(m, type) /\ AllTags(m, type) = {type.tag}
    BY <1>3, <1>4, <1>5 DEF Dangling, AllTags
  <1> QED
    BY <1>1, <1>6 DEF Means, NoTag

\* A name leads to where it is declared.
LEMMA ReferenceIs ==
  ASSUME NEW m, NEW type, type.kind = "reference"
  PROVE  /\ TagsIn(type) = {} /\ NamesIn(type) = {type.to}
         /\ Meanings(m, type) =
              {<<d, Definition(d, type.to)>> : d \in Declarers(m, "type", type.to)}
         /\ Lost(m, type) <=> Declarers(m, "type", type.to) = {}
  <1>1. Parts(type) = {type}
    BY DEF Parts
  <1>2. TagsIn(type) = {} /\ NamesIn(type) = {type.to}
    BY <1>1 DEF TagsIn, NamesIn
  <1> QED
    BY <1>2 DEF Meanings, Lost

\* A name means the same in modules where it leads to the same.
LEMMA ReferenceElsewhere ==
  ASSUME NEW m, NEW n, NEW type, type.kind = "reference", NEW other, other.kind = "reference",
         other.to = type.to,
         Declarers(m, "type", type.to) = Declarers(n, "type", type.to), NEW tag
  PROVE  Means(m, type, tag) <=> Means(n, other, tag)
  <1>1. /\ Meanings(m, type) = Meanings(n, other)
        /\ TagsIn(type) = TagsIn(other)
        /\ Lost(m, type) <=> Lost(n, other)
    <2>1. /\ TagsIn(type) = {}
          /\ Meanings(m, type) =
               {<<d, Definition(d, type.to)>> : d \in Declarers(m, "type", type.to)}
          /\ Lost(m, type) <=> Declarers(m, "type", type.to) = {}
      BY ReferenceIs
    <2>2. /\ TagsIn(other) = {}
          /\ Meanings(n, other) =
               {<<d, Definition(d, type.to)>> : d \in Declarers(m, "type", type.to)}
          /\ Lost(n, other) <=> Declarers(m, "type", type.to) = {}
      BY ReferenceIs
    <2> QED
      BY <2>1, <2>2
  <1>2. Behind(m, type) = Behind(n, other)
    BY <1>1, BehindSame
  <1>3. /\ Dangling(m, type) <=> Dangling(n, other)
        /\ AllTags(m, type) = AllTags(n, other)
    BY <1>1, <1>2 DEF Dangling, AllTags
  <1> QED
    BY <1>3 DEF Means

\* A name that nobody declares has no tag.
LEMMA ReferenceNowhere ==
  ASSUME NEW m, NEW type, type.kind = "reference", Declarers(m, "type", type.to) = {}
  PROVE  Dangling(m, type)
  BY ReferenceIs DEF Dangling

\* A name that is declared here.
LEMMA ReferenceHere ==
  ASSUME Loaded, NEW m \in DOMAIN models, NEW type, type.kind = "reference",
         Definition(m, type.to) # 0
  PROVE  LET x == << m, Definition(m, type.to) >>
         IN  /\ Meanings(m, type) = {x} /\ ~Lost(m, type) /\ x \in Definitions
             /\ TagOf(x) = models[m].definitions[Definition(m, type.to)].tag
             /\ TypeOf(x) = models[m].definitions[Definition(m, type.to)].type
  <1>1. Declarers(m, "type", type.to) = {m}
    BY DeclaredHere DEF Declares
  <1>2. Meanings(m, type) = {<< m, Definition(m, type.to) >>} /\ ~Lost(m, type)
    BY <1>1, ReferenceIs
  <1> QED
    BY <1>2, MeaningsAre DEF TagOf, TypeOf

\* A definition with a tag has that tag.
LEMMA ReferenceTagged ==
  ASSUME Loaded, NEW m \in DOMAIN models, NEW type, type.kind = "reference",
         Definition(m, type.to) # 0,
         NEW tag \in Nat, tag = models[m].definitions[Definition(m, type.to)].tag
  PROVE  Means(m, type, tag)
  <1> DEFINE x == << m, Definition(m, type.to) >>
  <1>1. /\ Meanings(m, type) = {x} /\ ~Lost(m, type) /\ x \in Definitions
        /\ TagOf(x) = tag
    BY ReferenceHere
  <1> HIDE DEF x
  <1>2. tag # NoTag
    BY DEF NoTag
  <1>3. Behind(m, type) = {x}
    <2>1. Closed({x})
      BY <1>1, <1>2 DEF Closed, Follows
    <2>2. Behind(m, type) \subseteq {x}
      BY <1>1, <2>1, BehindIsLeast
    <2> QED
      BY <1>1, <2>2, BehindIs
  <1>4. ~Dangling(m, type) /\ AllTags(m, type) = {tag}
    BY <1>1, <1>2, <1>3, ReferenceIs DEF Dangling, AllTags
  <1> QED
    BY <1>2, <1>4 DEF Means

\* A definition without one is as good as its type.
LEMMA ReferenceUntagged ==
  ASSUME Loaded, NEW m \in DOMAIN models, NEW type, type.kind = "reference",
         Definition(m, type.to) # 0,
         models[m].definitions[Definition(m, type.to)].tag = NoTag, NEW tag
  PROVE  Means(m, type, tag) <=>
         Means(m, models[m].definitions[Definition(m, type.to)].type, tag)
  <1> DEFINE x == << m, Definition(m, type.to) >>
             t == models[m].definitions[Definition(m, type.to)].type
  <1>1. /\ Meanings(m, type) = {x} /\ ~Lost(m, type) /\ x \in Definitions
        /\ TagOf(x) = NoTag /\ TypeOf(x) = t
    BY ReferenceHere
  <1>2. x[1] = m
    OBVIOUS
  <1> HIDE DEF x, t
  <1>3. Follows(x) = Meanings(m, t)
    BY <1>1, <1>2 DEF Follows
  <1>4. Behind(m, type) = {x} \cup Behind(m, t)
    <2>1. Closed({x} \cup Behind(m, t)) /\ {x} \cup Behind(m, t) \subseteq Definitions
      BY <1>1, <1>3, BehindIs DEF Closed
    <2>2. Behind(m, type) \subseteq {x} \cup Behind(m, t)
      BY <1>1, <2>1, BehindIsLeast
    <2>3. x \in Behind(m, type) /\ Closed(Behind(m, type)) /\ Behind(m, type) \subseteq Definitions
      BY <1>1, BehindIs
    <2>4. Meanings(m, t) \subseteq Behind(m, type)
      BY <1>3, <2>3 DEF Closed
    <2>5. Behind(m, t) \subseteq Behind(m, type)
      BY <2>3, <2>4, BehindIsLeast
    <2> QED
      BY <2>2, <2>3, <2>5
  <1>5. Dangling(m, type) <=> Dangling(m, t)
    BY <1>1, <1>2, <1>4 DEF Dangling
  <1>6. AllTags(m, type) = AllTags(m, t)
    BY <1>1, <1>2, <1>4, ReferenceIs DEF AllTags
  <1> QED
    BY <1>5, <1>6 DEF Means, t

-----------------------------------------------------------------------------
(* The tags of a CHOICE are those of the alternatives in its root *)

\* The alternatives of a CHOICE.
LEMMA ChoiceIs ==
  ASSUME NEW type \in AnyType, type.kind = "choice"
  PROVE  /\ type.of \in Seq(AnyComponent) /\ type.roots \in 1 .. Len(type.of)
         /\ Roots(type) = {type.of[c] : c \in 1 .. type.roots}
         /\ \A c \in Roots(type) : c.type \in AnySimpleType /\ c.tag \in AnyOwnTag
         /\ \A c \in Roots(type) : Parts(c.type) = {c.type}
         /\ Parts(type) = {c.type : c \in {c \in Roots(type) : c.tag = NoTag}}
  <1>1. type.of \in Seq(AnyComponent) /\ type.roots \in 1 .. Len(type.of)
    BY TypeIs, LenProperties
  <1>2. \A c \in Roots(type) : c \in AnyComponent
    BY <1>1, ElementOfSeq, LenProperties DEF Roots
  <1>3. ASSUME NEW c \in Roots(type)
        PROVE  c.type \in AnySimpleType /\ c.tag \in AnyOwnTag /\ Parts(c.type) = {c.type}
    <2>1. c.type \in AnySimpleType /\ c.tag \in AnyOwnTag
      BY <1>2 DEF AnyComponent
    <2>2. c.type.kind # "choice"
      BY <2>1, SimpleTypeIs
    <2> QED
      BY <2>1, <2>2 DEF Parts
  <1>4. Parts(type) = {c.type : c \in {c \in Roots(type) : c.tag = NoTag}}
    BY DEF Parts
  <1> QED
    BY <1>1, <1>3, <1>4 DEF Roots

\* The untagged alternatives of the root.
UntaggedRoots(type) == {c \in Roots(type) : c.tag = NoTag}

\* The names of a CHOICE are those of its untagged alternatives.
LEMMA ChoiceNames ==
  ASSUME NEW m, NEW type \in AnyType, type.kind = "choice"
  PROVE  /\ NamesIn(type) = UNION {NamesIn(c.type) : c \in UntaggedRoots(type)}
         /\ Meanings(m, type) = UNION {Meanings(m, c.type) : c \in UntaggedRoots(type)}
         /\ Lost(m, type) <=> \E c \in UntaggedRoots(type) : Lost(m, c.type)
         /\ TagsIn(type) = ({c.tag : c \in Roots(type)} \ {NoTag})
                           \cup UNION {TagsIn(c.type) : c \in UntaggedRoots(type)}
  <1>1. /\ \A c \in Roots(type) : Parts(c.type) = {c.type}
        /\ Parts(type) = {c.type : c \in UntaggedRoots(type)}
        /\ UntaggedRoots(type) \subseteq Roots(type)
        /\ \A c \in Roots(type) : c.type.kind # "choice"
    BY ChoiceIs, SimpleTypeIs DEF UntaggedRoots
  <1>2. NamesIn(type) = UNION {NamesIn(c.type) : c \in UntaggedRoots(type)}
    <2>1. \A x : x \in NamesIn(type) <=>
                 \E c \in UntaggedRoots(type) : c.type.kind = "reference" /\ x = c.type.to
      BY <1>1 DEF NamesIn
    <2>2. \A c \in UntaggedRoots(type) : \A x :
             x \in NamesIn(c.type) <=> c.type.kind = "reference" /\ x = c.type.to
      BY <1>1 DEF NamesIn
    <2> QED
      BY <2>1, <2>2
  <1>3. Meanings(m, type) = UNION {Meanings(m, c.type) : c \in UntaggedRoots(type)}
    BY <1>2 DEF Meanings
  <1>4. Lost(m, type) <=> \E c \in UntaggedRoots(type) : Lost(m, c.type)
    BY <1>2 DEF Lost
  <1>5. TagsIn(type) = ({c.tag : c \in Roots(type)} \ {NoTag})
                      \cup UNION {TagsIn(c.type) : c \in UntaggedRoots(type)}
    <2> DEFINE Own(t) == {p.tag : p \in {p \in Parts(t) : p.kind # "reference"}}
    <2>1. \A c \in UntaggedRoots(type) : TagsIn(c.type) = Own(c.type)
      BY <1>1 DEF TagsIn
    <2>2. TagsIn(type) = Own(type) \cup ({c.tag : c \in Roots(type)} \ {NoTag})
      BY DEF TagsIn
    <2>3. Own(type) = UNION {Own(c.type) : c \in UntaggedRoots(type)}
      BY <1>1
    <2> HIDE DEF Own
    <2>4. UNION {TagsIn(c.type) : c \in UntaggedRoots(type)}
          = UNION {Own(c.type) : c \in UntaggedRoots(type)}
      BY <2>1
    <2> QED
      BY <2>2, <2>3, <2>4
  <1> QED
    BY <1>2, <1>3, <1>4, <1>5

\* So is what they lead to.
LEMMA ChoiceBehind ==
  ASSUME Loaded, NEW m \in DOMAIN models, NEW type \in AnyType, type.kind = "choice"
  PROVE  Behind(m, type) = UNION {Behind(m, c.type) : c \in UntaggedRoots(type)}
  <1> DEFINE all == UNION {Behind(m, c.type) : c \in UntaggedRoots(type)}
  <1>1. Behind(m, type) \subseteq all
    <2>1. all \subseteq Definitions /\ Meanings(m, type) \subseteq all
      BY ChoiceNames, BehindIs
    <2>2. Closed(all)
      BY BehindIs DEF Closed
    <2> HIDE DEF all
    <2> QED
      BY <2>1, <2>2, BehindIsLeast
  <1>2. ASSUME NEW c \in UntaggedRoots(type) PROVE Behind(m, c.type) \subseteq Behind(m, type)
    <2>1. /\ Meanings(m, c.type) \subseteq Behind(m, type)
          /\ Closed(Behind(m, type)) /\ Behind(m, type) \subseteq Definitions
      BY ChoiceNames, BehindIs
    <2> QED
      BY <2>1, BehindIsLeast
  <1> QED
    BY <1>1, <1>2

\* It has the tags of all its alternatives, and none if one of them has none.
LEMMA ChoiceMeans ==
  ASSUME Loaded, NEW m \in DOMAIN models, NEW type \in AnyType, type.kind = "choice"
  PROVE  /\ Dangling(m, type) <=> \E c \in Roots(type) : PartDangles(m, c)
         /\ AllTags(m, type) = UNION {PartTags(m, c) : c \in Roots(type)}
  <1>1. Behind(m, type) = UNION {Behind(m, c.type) : c \in UntaggedRoots(type)}
    BY ChoiceBehind
  <1>2. Lost(m, type) <=> \E c \in UntaggedRoots(type) : Lost(m, c.type)
    BY ChoiceNames
  <1>3. Dangling(m, type) <=> \E c \in UntaggedRoots(type) : Dangling(m, c.type)
    BY <1>1, <1>2 DEF Dangling
  <1>4. Dangling(m, type) <=> \E c \in Roots(type) : PartDangles(m, c)
    BY <1>3 DEF PartDangles, UntaggedRoots
  <1>5. TagsIn(type) = ({c.tag : c \in Roots(type)} \ {NoTag})
                      \cup UNION {TagsIn(c.type) : c \in UntaggedRoots(type)}
    BY ChoiceNames
  <1> DEFINE TagsOf(x) == IF TagOf(x) = NoTag THEN TagsIn(TypeOf(x)) ELSE {TagOf(x)}
  <1>6. \A t : AllTags(m, t) = TagsIn(t) \cup UNION {TagsOf(x) : x \in Behind(m, t)}
    BY DEF AllTags
  <1> HIDE DEF TagsOf
  <1>7. AllTags(m, type) = ({c.tag : c \in Roots(type)} \ {NoTag})
                          \cup UNION {AllTags(m, c.type) : c \in UntaggedRoots(type)}
    BY <1>1, <1>5, <1>6
  <1>8. ({c.tag : c \in Roots(type)} \ {NoTag})
        \cup UNION {AllTags(m, c.type) : c \in UntaggedRoots(type)}
        = UNION {PartTags(m, c) : c \in Roots(type)}
    BY DEF PartTags, UntaggedRoots
  <1> QED
    BY <1>4, <1>7, <1>8

-----------------------------------------------------------------------------
(* The calls of the TagResolver *)

\* The module that an import leads to is one of them.
LEMMA TagModelIs ==
  ASSUME Loaded, NEW m \in DOMAIN models, NEW name, TagModel(m, name) # 0
  PROVE  TagModel(m, name) \in DOMAIN models
  <1> DEFINE I == {n \in 1 .. Len(models) :
                     models[n].name = models[m].imports[Naming(m, name)].from}
  <1>1. TagModel(m, name) = IF I # {} THEN Min(I) ELSE 0
    BY DEF TagModel, SelectInSeq
  <1>2. I \subseteq Nat \ {0} /\ I \subseteq DOMAIN models
    BY ModuleIs
  <1> HIDE DEF I
  <1> QED
    BY <1>1, <1>2, FirstOf

\* The innermost call.
LEMMA TopIs ==
  ASSUME TagInv, frames # << >>
  PROVE  /\ Top = frames[1] /\ Top \in AnyFrame /\ Top.at \in DOMAIN models
         /\ Top.op \in {"type", "reference", "choice"}
         /\ Top.op = "type" => Top.type \in AnyType
         /\ Top.op = "reference" => /\ Top.name \in STRING
                                    /\ Top.from \in {"imports", "definitions"}
         /\ Top.op = "choice" => Top.least \in AnyOwnTag /\ Top.left \in Seq(AnyComponent)
         /\ Unambiguous => Answers(Top, Goal(1))
         /\ answer # Pending => /\ Awaits(Top) /\ Goal(0) = Asks(Top)
                                /\ Unambiguous => Means(Goal(0).at, Goal(0).type, answer)
  <1>1. Top = frames[1] /\ 1 \in 1 .. Len(frames) /\ Top \in AnyFrame /\ 0 # Len(frames)
    BY StackIs DEF Top
  <1>2. answer # Pending => Awaits(Top) /\ Goal(0) = Asks(Top)
    BY <1>1 DEF TagInv, TaggingTyped, Waiting, Goal
  <1>3. Unambiguous => Answers(Top, Goal(1))
    BY <1>1 DEF TagInv, TagsMeant
  <1>4. answer # Pending /\ Unambiguous => Means(Goal(0).at, Goal(0).type, answer)
    BY DEF TagInv, TagsMeant
  <1> HIDE DEF Top
  <1> QED
    BY <1>1, <1>2, <1>3, <1>4 DEF AnyFrame

\* resolve_type_tag goes on by the kind of the type.
LEMMA ResolveTypeTagKeeps ==
  ASSUME Loaded, TagInv, ResolveTypeTag
  PROVE  TagInv' /\ phase' = "tag"
  <1>1. Tagging /\ frames # << >> /\ answer = Pending /\ Top.op = "type"
    BY DEF ResolveTypeTag, Calls
  <1>2. /\ Top.at \in DOMAIN models /\ Top.type \in AnyType
        /\ Unambiguous => Goal(1).at = Top.at /\ Goal(1).type = Top.type
    BY <1>1, TopIs DEF Answers
  <1>3. \/ Top.type.kind = "reference" /\ Goto(ReferenceCall(Top.at, Top.type.to))
        \/ Top.type.kind = "choice" /\ Goto(ChoiceCall(Top.at, Top.type))
        \/ Top.type.kind \notin {"reference", "choice"} /\ Return(Top.type.tag)
    BY DEF ResolveTypeTag
  <1> HIDE DEF Top
  <1>4. CASE Top.type.kind = "reference" /\ Goto(ReferenceCall(Top.at, Top.type.to))
    <2> DEFINE call == ReferenceCall(Top.at, Top.type.to)
    <2>1. Top.type.to \in STRING
      BY <1>2, <1>4, TypeIs, SimpleTypeIs
    <2>2. /\ call \in AnyFrame /\ call.op = "reference" /\ call.at = Top.at
          /\ call.name = Top.type.to /\ call.from = "imports"
      BY <1>2, <2>1 DEF AnyFrame, ReferenceCall
    <2> HIDE DEF call
    <2>3. Unambiguous => Answers(call, Goal(1))
      BY <1>2, <1>4, <2>2 DEF Answers
    <2> QED
      BY <1>1, <1>4, <2>2, <2>3, GotoKeeps DEF call
  <1>5. CASE Top.type.kind = "choice" /\ Goto(ChoiceCall(Top.at, Top.type))
    <2> DEFINE call == ChoiceCall(Top.at, Top.type)
               type == Top.type
    <2>1. /\ type.of \in Seq(AnyComponent) /\ type.roots \in Nat /\ type.roots <= Len(type.of)
      BY <1>2, <1>5, TypeIs
    <2>2. /\ call.op = "choice" /\ call.at = Top.at /\ call.least = NoTag
          /\ call.left = SubSeq(type.of, 1, type.roots)
      BY DEF ChoiceCall
    <2> HIDE DEF type
    <2>3. /\ call.left \in Seq(AnyComponent) /\ Len(call.left) = type.roots
          /\ \A i \in 1 .. type.roots : call.left[i] = type.of[i]
      BY <2>1, <2>2, SubSeqProperties
    <2>4. call \in AnyFrame
      BY <1>2, <2>2, <2>3 DEF AnyFrame, ChoiceCall, AnyOwnTag, type
    <2> HIDE DEF call
    <2>5. LeastSoFar(call, type)
      BY <2>1, <2>2, <2>3 DEF LeastSoFar, Through
    <2>6. Unambiguous => Answers(call, Goal(1))
      BY <1>2, <1>5, <2>2, <2>5 DEF Answers, type
    <2> QED
      BY <1>1, <1>5, <2>4, <2>6, GotoKeeps DEF call
  <1>6. CASE Top.type.kind \notin {"reference", "choice"} /\ Return(Top.type.tag)
    BY <1>1, <1>2, <1>6, OtherTypeTag, ReturnKeeps DEF AnyOwnTag
  <1> QED
    BY <1>3, <1>4, <1>5, <1>6

\* A reference is asked for in the module of the call, by its name.
LEMMA ReferenceGoal ==
  ASSUME TagInv, frames # << >>, Top.op = "reference", Unambiguous
  PROVE  /\ Goal(1).at = Top.at /\ Goal(1).type.kind = "reference" /\ Goal(1).type.to = Top.name
         /\ \/ Top.from = "imports"
            \/ Definition(Top.at, Top.name) # 0
            \/ Dangling(Top.at, Goal(1).type)
  BY TopIs DEF Answers

\* The way of a name through imports, for tags.
LEMMA ImportedTag ==
  ASSUME Loaded, Unambiguous, NEW m \in DOMAIN models, NEW type, type.kind = "reference"
  PROVE  LET next == TagModel(m, type.to)
         IN  /\ next = 0 /\ Definition(m, type.to) = 0 => Dangling(m, type)
             /\ next # 0 => Declarers(m, "type", type.to) = Declarers(next, "type", type.to)
  <1> DEFINE next == TagModel(m, type.to)
  <1>1. IF next = 0 THEN ImportedFrom(m, type.to) = {}
        ELSE /\ next \in DOMAIN models /\ ImportedFrom(m, type.to) = {next}
             /\ Definition(m, type.to) = 0
    BY TagModelIsMeant
  <1> HIDE DEF next
  <1>2. ASSUME next = 0, Definition(m, type.to) = 0 PROVE Dangling(m, type)
    <2>1. ~Declares(m, "type", type.to)
      BY <1>2 DEF Declares
    <2> QED
      BY <1>1, <1>2, <2>1, DeclaredNowhere, ReferenceNowhere
  <1>3. ASSUME next # 0
        PROVE  Declarers(m, "type", type.to) = Declarers(next, "type", type.to)
    <2>1. ~Declares(m, "type", type.to)
      BY <1>1, <1>3 DEF Declares
    <2> QED
      BY <1>1, <1>3, <2>1, DeclaredThere
  <1> QED
    BY <1>2, <1>3 DEF next

\* resolve_tag asks the module that the name is imported from.
LEMMA ResolveImportedTagKeeps ==
  ASSUME Loaded, TagInv, ResolveImportedTag
  PROVE  TagInv' /\ phase' \in {"tag", "overflow"}
  <1> DEFINE next == TagModel(Top.at, Top.name)
  <1>1. /\ Tagging /\ frames # << >> /\ answer = Pending /\ Top.op = "reference"
        /\ Top.from = "imports"
        /\ IF next # 0 THEN Push(ReferenceCall(next, Top.name))
           ELSE Goto([Top EXCEPT !.from = "definitions"])
    BY DEF ResolveImportedTag, Calls
  <1>2. /\ Top = frames[1] /\ Top \in AnyFrame
        /\ Top.at \in DOMAIN models /\ Top.name \in STRING
    BY <1>1, TopIs
  <1>3. next # 0 => next \in DOMAIN models
    BY <1>2, TagModelIs
  <1> HIDE DEF Top
  <1>4. CASE next # 0
    <2> DEFINE call == ReferenceCall(next, Top.name)
               goal == [kind |-> "reference", to |-> Top.name]
    <2>1. Awaits(Top) /\ Asks(Top) = [at |-> next, type |-> goal]
      BY <1>1, <1>4 DEF Awaits, Asks
    <2> HIDE DEF next
    <2>2. /\ call \in AnyFrame /\ call.op = "reference" /\ call.at = next
          /\ call.name = Top.name /\ call.from = "imports"
      BY <1>2, <1>3, <1>4 DEF AnyFrame, ReferenceCall
    <2>3. goal.kind = "reference" /\ goal.to = Top.name
      OBVIOUS
    <2> HIDE DEF call, goal
    <2>4. Answers(call, Asks(Top))
      BY <2>1, <2>2, <2>3 DEF Answers
    <2> QED
      BY <1>1, <1>2, <1>4, <2>1, <2>2, <2>4, PushKeeps DEF call
  <1>5. CASE next = 0
    <2> DEFINE call == [Top EXCEPT !.from = "definitions"]
    <2>1. /\ call \in AnyFrame /\ call.op = "reference" /\ call.at = Top.at
          /\ call.name = Top.name /\ call.from = "definitions"
      BY <1>1, <1>2 DEF AnyFrame
    <2> HIDE DEF call
    <2>2. ASSUME Unambiguous PROVE Answers(call, Goal(1))
      <3>1. /\ Goal(1).at = Top.at /\ Goal(1).type.kind = "reference"
            /\ Goal(1).type.to = Top.name
        BY <1>1, <2>2, ReferenceGoal
      <3>2. Definition(Top.at, Top.name) # 0 \/ Dangling(Top.at, Goal(1).type)
        BY <1>2, <1>5, <2>2, <3>1, ImportedTag
      <3> QED
        BY <2>1, <3>1, <3>2 DEF Answers
    <2> QED
      BY <1>1, <1>5, <2>1, <2>2, GotoKeeps DEF call
  <1> QED
    BY <1>4, <1>5

\* resolve_tag asks the definition of the module itself.
LEMMA ResolveLocalTagKeeps ==
  ASSUME Loaded, TagInv, ResolveLocalTag
  PROVE  TagInv' /\ phase' \in {"tag", "overflow"}
  <1> DEFINE d == Definition(Top.at, Top.name)
             definition == models[Top.at].definitions[d]
  <1>1. /\ Tagging /\ frames # << >> /\ answer = Pending /\ Top.op = "reference"
        /\ Top.from = "definitions"
        /\ IF d = 0 THEN Return(NoTag)
           ELSE IF definition.tag # NoTag THEN Return(definition.tag)
                ELSE Push(TypeCall(Top.at, definition.type))
    BY DEF ResolveLocalTag, Calls
  <1>2. /\ Top = frames[1] /\ Top \in AnyFrame
        /\ Top.at \in DOMAIN models /\ Top.name \in STRING
    BY <1>1, TopIs
  <1>3. d # 0 => definition.type \in AnyType /\ definition.tag \in AnyOwnTag
    BY <1>2, DefinitionIs
  <1>4. Unambiguous => /\ Goal(1).at = Top.at /\ Goal(1).type.kind = "reference"
                       /\ Goal(1).type.to = Top.name
                       /\ d # 0 \/ Dangling(Top.at, Goal(1).type)
    BY <1>1, ReferenceGoal
  <1> HIDE DEF Top
  <1>5. CASE d = 0
    <2>1. Unambiguous => Means(Goal(1).at, Goal(1).type, NoTag)
      BY <1>4, <1>5 DEF Means
    <2>2. NoTag \in AnyOwnTag /\ Return(NoTag)
      BY <1>1, <1>5 DEF AnyOwnTag
    <2> QED
      BY <1>1, <2>1, <2>2, ReturnKeeps
  <1>6. CASE d # 0 /\ definition.tag # NoTag
    <2>1. definition.tag \in Nat
      BY <1>3, <1>6 DEF AnyOwnTag
    <2>2. Unambiguous => Means(Goal(1).at, Goal(1).type, definition.tag)
      BY <1>2, <1>4, <1>6, <2>1, ReferenceTagged
    <2> QED
      BY <1>1, <1>3, <1>6, <2>2, ReturnKeeps
  <1>7. CASE d # 0 /\ definition.tag = NoTag
    <2> DEFINE call == TypeCall(Top.at, definition.type)
    <2>1. Awaits(Top) /\ Asks(Top) = [at |-> Top.at, type |-> definition.type]
      BY <1>1, <1>7 DEF Awaits, Asks
    <2> HIDE DEF definition, d
    <2>2. /\ call \in AnyFrame /\ call.op = "type" /\ call.at = Top.at
          /\ call.type = definition.type
      BY <1>2, <1>3, <1>7 DEF AnyFrame, TypeCall
    <2>3. Push(call)
      BY <1>1, <1>7
    <2> HIDE DEF call
    <2>4. Answers(call, Asks(Top))
      BY <2>1, <2>2 DEF Answers
    <2> QED
      BY <1>1, <1>2, <2>1, <2>2, <2>3, <2>4, PushKeeps
  <1> QED
    BY <1>5, <1>6, <1>7

\* The answer for a name is that for what it means.
LEMMA ReferenceReturnedKeeps ==
  ASSUME Loaded, TagInv, ReferenceReturned
  PROVE  TagInv' /\ phase' = "tag"
  <1> DEFINE next == TagModel(Top.at, Top.name)
             goal == [kind |-> "reference", to |-> Top.name]
             type == models[Top.at].definitions[Definition(Top.at, Top.name)].type
  <1>1. /\ Tagging /\ frames # << >> /\ answer # Pending /\ Top.op = "reference"
        /\ IF answer = NoTag /\ Top.from = "imports"
           THEN Goto([Top EXCEPT !.from = "definitions"])
           ELSE Return(answer)
    BY DEF ReferenceReturned, Returned
  <1>2. /\ Top = frames[1] /\ Top \in AnyFrame
        /\ Top.at \in DOMAIN models /\ Top.name \in STRING
        /\ Top.from \in {"imports", "definitions"}
        /\ Awaits(Top) /\ Goal(0) = Asks(Top)
        /\ Unambiguous => Means(Goal(0).at, Goal(0).type, answer)
    BY <1>1, TopIs
  <1>3. Unambiguous => /\ Goal(1).at = Top.at /\ Goal(1).type.kind = "reference"
                       /\ Goal(1).type.to = Top.name
    BY <1>1, ReferenceGoal
  <1>4. answer \in AnyOwnTag
    BY <1>1 DEF TagInv, TaggingTyped
  <1> HIDE DEF Top
  <1>5. ASSUME Unambiguous, Top.from = "imports"
        PROVE  Means(Top.at, Goal(1).type, answer)
    <2>1. next # 0 /\ Goal(0) = [at |-> next, type |-> goal]
      BY <1>1, <1>2, <1>5 DEF Awaits, Asks
    <2>2. Declarers(Top.at, "type", Top.name) = Declarers(next, "type", Top.name)
      BY <1>2, <1>3, <1>5, <2>1, ImportedTag
    <2>3. Means(next, goal, answer)
      BY <1>2, <1>5, <2>1
    <2>4. goal.kind = "reference" /\ goal.to = Top.name
      OBVIOUS
    <2> HIDE DEF next, goal
    <2> QED
      BY <1>3, <1>5, <2>2, <2>3, <2>4, ReferenceElsewhere
  <1>6. ASSUME Unambiguous, Top.from = "definitions"
        PROVE  Means(Top.at, Goal(1).type, answer)
    <2>1. /\ Definition(Top.at, Top.name) # 0 /\ Goal(0) = [at |-> Top.at, type |-> type]
          /\ models[Top.at].definitions[Definition(Top.at, Top.name)].tag = NoTag
      BY <1>1, <1>2, <1>6 DEF Awaits, Asks
    <2>2. Means(Top.at, type, answer)
      BY <1>2, <1>6, <2>1
    <2> QED
      BY <1>2, <1>3, <1>6, <2>1, <2>2, ReferenceUntagged
  <1>7. CASE answer = NoTag /\ Top.from = "imports"
    <2> DEFINE call == [Top EXCEPT !.from = "definitions"]
    <2>1. /\ call \in AnyFrame /\ call.op = "reference" /\ call.at = Top.at
          /\ call.name = Top.name /\ call.from = "definitions"
      BY <1>1, <1>2 DEF AnyFrame
    <2>2. Goto(call)
      BY <1>1, <1>7
    <2> HIDE DEF call
    <2>3. Unambiguous => Dangling(Top.at, Goal(1).type)
      BY <1>5, <1>7 DEF Means
    <2>4. Unambiguous => Answers(call, Goal(1))
      BY <1>3, <2>1, <2>3 DEF Answers
    <2> QED
      BY <1>1, <2>1, <2>2, <2>4, GotoKeeps
  <1>8. CASE ~(answer = NoTag /\ Top.from = "imports")
    <2>1. Return(answer)
      BY <1>1, <1>8
    <2>2. Unambiguous => Means(Goal(1).at, Goal(1).type, answer)
      BY <1>2, <1>3, <1>5, <1>6
    <2> QED
      BY <1>1, <1>4, <2>1, <2>2, ReturnKeeps
  <1> QED
    BY <1>7, <1>8

-----------------------------------------------------------------------------
(* The alternatives of a CHOICE *)

\* The smaller one of two tags, the first of which may be missing.
LEMMA LeastIs ==
  ASSUME NEW a \in AnyOwnTag, NEW b \in Nat
  PROVE  /\ Least(a, b) \in Nat /\ Least(a, b) \in {a, b} /\ Least(a, b) <= b
         /\ a # NoTag => Least(a, b) <= a
  BY DEF Least, AnyOwnTag, NoTag

\* The next alternative is through.
LEMMA LeastGoesOn ==
  ASSUME NEW frame, frame.least \in AnyOwnTag, frame.left \in Seq(AnyComponent), frame.left # << >>,
         NEW type, type.roots \in Nat, LeastSoFar(frame, type),
         ~PartDangles(frame.at, Head(frame.left)),
         NEW tag \in Nat, tag \in PartTags(frame.at, Head(frame.left)),
         \A other \in PartTags(frame.at, Head(frame.left)) : tag <= other,
         \A c \in 1 .. Through(frame, type) : PartTags(frame.at, type.of[c]) \subseteq Nat,
         PartTags(frame.at, Head(frame.left)) \subseteq Nat,
         NEW next, next.at = frame.at, next.least = Least(frame.least, tag),
         next.left = Tail(frame.left)
  PROVE  LeastSoFar(next, type)
  <1> DEFINE k == Through(frame, type)
  <1>1. /\ Len(frame.left) \in Nat \ {0} /\ Len(next.left) = Len(frame.left) - 1
        /\ \A i \in 1 .. Len(frame.left) - 1 : next.left[i] = frame.left[i + 1]
        /\ Head(frame.left) = frame.left[1]
    BY HeadTailProperties, LenProperties
  <1>2. /\ k \in Nat /\ Through(next, type) = k + 1 /\ Len(frame.left) <= type.roots
        /\ \A i \in 1 .. Len(frame.left) : frame.left[i] = type.of[k + i]
        /\ frame.least = NoTag <=> k = 0
    BY <1>1 DEF LeastSoFar, Through
  <1>3. /\ \A c \in 1 .. k :
              /\ ~PartDangles(frame.at, type.of[c])
              /\ \A t \in PartTags(frame.at, type.of[c]) : frame.least <= t
        /\ frame.least # NoTag =>
              \E c \in 1 .. k : frame.least \in PartTags(frame.at, type.of[c])
        /\ \A c \in 1 .. k : PartTags(frame.at, type.of[c]) \subseteq Nat
    BY DEF LeastSoFar
  <1> HIDE DEF k
  <1>4. Head(frame.left) = type.of[k + 1]
    BY <1>1, <1>2
  <1>5. /\ next.least \in Nat /\ next.least \in {frame.least, tag} /\ next.least <= tag
        /\ frame.least # NoTag => next.least <= frame.least
    BY LeastIs
  <1>6. ASSUME NEW i \in 1 .. Len(next.left) PROVE next.left[i] = type.of[(k + 1) + i]
    <2>1. i + 1 \in 1 .. Len(frame.left) /\ i \in 1 .. Len(frame.left) - 1
          /\ k + (i + 1) = (k + 1) + i
      BY <1>1, <1>2
    <2> QED
      BY <1>1, <1>2, <2>1
  <1>7. ASSUME NEW c \in 1 .. k + 1
        PROVE  /\ ~PartDangles(frame.at, type.of[c])
               /\ \A t \in PartTags(frame.at, type.of[c]) : next.least <= t
    <2>1. CASE c = k + 1
      <3>1. ASSUME NEW t \in PartTags(frame.at, type.of[c]) PROVE next.least <= t
        <4>1. t \in Nat /\ tag <= t
          BY <1>4, <2>1, <3>1
        <4> QED
          BY <1>5, <4>1
      <3> QED
        BY <1>4, <2>1, <3>1
    <2>2. CASE c # k + 1
      <3>1. c \in 1 .. k /\ frame.least # NoTag
        BY <1>2, <1>7, <2>2
      <3>2. ASSUME NEW t \in PartTags(frame.at, type.of[c]) PROVE next.least <= t
        <4>1. t \in Nat /\ frame.least <= t /\ frame.least \in Nat
          BY <1>3, <3>1, <3>2 DEF AnyOwnTag
        <4> QED
          BY <1>5, <3>1, <4>1
      <3> QED
        BY <1>3, <3>1, <3>2
    <2> QED
      BY <2>1, <2>2
  <1>8. next.least # NoTag
    BY <1>5 DEF NoTag
  <1>9. \E c \in 1 .. k + 1 : next.least \in PartTags(frame.at, type.of[c])
    <2>1. CASE next.least = tag
      <3>1. k + 1 \in 1 .. k + 1
        BY <1>2
      <3> QED
        BY <1>4, <2>1, <3>1
    <2>2. CASE next.least # tag
      <3>1. next.least = frame.least
        BY <1>5, <2>2
      <3>2. PICK c \in 1 .. k : frame.least \in PartTags(frame.at, type.of[c])
        BY <1>3, <1>8, <3>1
      <3>3. c \in 1 .. k + 1
        BY <1>2
      <3> QED
        BY <3>1, <3>2, <3>3
    <2> QED
      BY <2>1, <2>2
  <1>10. Len(next.left) <= type.roots /\ Through(next, type) # 0
    BY <1>1, <1>2
  <1> QED
    BY <1>2, <1>6, <1>7, <1>8, <1>9, <1>10 DEF LeastSoFar

\* Tags are numbers.
LEMMA TagsInAre ==
  ASSUME NEW type \in AnyType
  PROVE  TagsIn(type) \subseteq Nat
  <1>1. CASE type.kind = "choice"
    <2>1. ASSUME NEW p \in Parts(type), p.kind # "reference" PROVE p.tag \in Nat
      <3>1. p \in AnySimpleType
        BY <1>1, ChoiceIs
      <3> QED
        BY <2>1, <3>1, SimpleTypeIs
    <2>2. {c.tag : c \in Roots(type)} \ {NoTag} \subseteq Nat
      BY <1>1, ChoiceIs DEF AnyOwnTag
    <2> QED
      BY <1>1, <2>1, <2>2 DEF TagsIn
  <1>2. CASE type.kind # "choice"
    <2>1. type.kind # "reference" => type.tag \in Nat
      BY <1>2, OtherTypeTag
    <2>2. Parts(type) = {type}
      BY <1>2 DEF Parts
    <2> QED
      BY <1>2, <2>1, <2>2 DEF TagsIn
  <1> QED
    BY <1>1, <1>2

\* And so are all that a type leads to.
LEMMA AllTagsAre ==
  ASSUME Loaded, NEW m \in DOMAIN models, NEW type \in AnyType
  PROVE  AllTags(m, type) \subseteq Nat
  <1>1. ASSUME NEW x \in Behind(m, type)
        PROVE  (IF TagOf(x) = NoTag THEN TagsIn(TypeOf(x)) ELSE {TagOf(x)}) \subseteq Nat
    <2>1. TagOf(x) \in AnyOwnTag /\ TypeOf(x) \in AnyType
      BY BehindIs, DefinitionsAre
    <2> QED
      BY <2>1, TagsInAre DEF AnyOwnTag
  <1>2. TagsIn(type) \subseteq Nat
    BY TagsInAre
  <1> QED
    BY <1>1, <1>2 DEF AllTags

\* And those of an alternative.
LEMMA PartTagsAre ==
  ASSUME Loaded, NEW m \in DOMAIN models, NEW c \in AnyComponent
  PROVE  /\ PartTags(m, c) \subseteq Nat /\ c.type \in AnyType /\ c.tag \in AnyOwnTag
         /\ c.tag # NoTag => c.tag \in Nat /\ PartTags(m, c) = {c.tag} /\ ~PartDangles(m, c)
  <1>1. c.type \in AnyType /\ c.tag \in AnyOwnTag
    BY SimpleTypeIs DEF AnyComponent
  <1>2. c.tag # NoTag => c.tag \in Nat
    BY <1>1 DEF AnyOwnTag
  <1> QED
    BY <1>1, <1>2, AllTagsAre DEF PartTags, PartDangles

\* What is asked for is a type.
LEMMA GoalIs ==
  ASSUME Loaded, TagInv, frames # << >>
  PROVE  Goal(1).type \in AnyType
  <1>1. CASE Len(frames) = 1
    <2>1. asked \in Seq(AnyQuestion) /\ asked # << >>
      BY DEF TagInv, TaggingTyped
    <2>2. Head(asked) \in AnyQuestion
      BY <2>1
    <2> QED
      BY <1>1, <2>2 DEF Goal, AnyQuestion
  <1>2. CASE Len(frames) # 1
    <2> DEFINE f == frames[2]
    <2>1. 2 \in Waiting /\ f \in AnyFrame
      <3>1. Len(frames) \in Nat /\ Len(frames) # 0
        BY StackIs
      <3>2. \A n \in Nat : n # 0 /\ n # 1 => 2 \in 1 .. n
        OBVIOUS
      <3>3. 2 \in 1 .. Len(frames)
        BY <1>2, <3>1, <3>2
      <3> QED
        BY <3>3, StackIs DEF Waiting
    <2>2. Awaits(f) /\ Goal(1) = Asks(f)
      BY <1>2, <2>1 DEF TagInv, TaggingTyped, Goal
    <2> HIDE DEF f
    <2>3. CASE f.op = "type"
      BY <2>2, <2>3 DEF Awaits
    <2>4. CASE f.op = "choice"
      <3>1. f.left \in Seq(AnyComponent) /\ f.left # << >>
        BY <2>1, <2>2, <2>4 DEF AnyFrame, Awaits
      <3>2. Head(f.left) \in AnyComponent
        BY <3>1
      <3> QED
        BY <2>2, <2>4, <3>2, SimpleTypeIs DEF Asks, AnyComponent
    <2>5. CASE f.op = "reference"
      <3>1. f.at \in DOMAIN models /\ f.name \in STRING
        BY <2>1, <2>5 DEF AnyFrame
      <3>2. CASE f.from = "imports"
        <4>1. Goal(1).type = [kind |-> "reference", to |-> f.name]
          BY <2>2, <2>5, <3>2 DEF Asks
        <4>2. [kind |-> "reference", to |-> f.name] \in AnySimpleType
          BY <3>1 DEF AnySimpleType
        <4> QED
          BY <4>1, <4>2, SimpleTypeIs
      <3>3. CASE f.from # "imports"
        <4>1. /\ Definition(f.at, f.name) # 0
              /\ Goal(1).type = models[f.at].definitions[Definition(f.at, f.name)].type
          BY <2>2, <2>5, <3>3 DEF Awaits, Asks
        <4> QED
          BY <3>1, <4>1, DefinitionIs
      <3> QED
        BY <3>2, <3>3
    <2> QED
      BY <2>1, <2>3, <2>4, <2>5 DEF AnyFrame
  <1> QED
    BY <1>1, <1>2

\* The choice that is asked for, and its alternatives.
LEMMA ChoiceGoal ==
  ASSUME Loaded, TagInv, frames # << >>, Top.op = "choice", Unambiguous
  PROVE  LET type == Goal(1).type
             k == Through(Top, type)
         IN  /\ Goal(1).at = Top.at /\ type \in AnyType /\ type.kind = "choice"
             /\ LeastSoFar(Top, type) /\ type.roots \in Nat /\ k \in 0 .. type.roots
             /\ \A c \in 1 .. type.roots : type.of[c] \in Roots(type)
             /\ \A c \in 1 .. type.roots : PartTags(Top.at, type.of[c]) \subseteq Nat
             /\ Top.left # << >> => Head(Top.left) \in Roots(type)
  <1> DEFINE type == Goal(1).type
  <1>1. /\ Goal(1).at = Top.at /\ type.kind = "choice" /\ LeastSoFar(Top, type)
        /\ Top.left \in Seq(AnyComponent) /\ Top.at \in DOMAIN models
    BY TopIs DEF Answers
  <1>2. type \in AnyType
    BY GoalIs
  <1> HIDE DEF Top, type
  <1>3. /\ type.of \in Seq(AnyComponent) /\ type.roots \in 1 .. Len(type.of) /\ Len(type.of) \in Nat
        /\ Roots(type) = {type.of[c] : c \in 1 .. type.roots}
    BY <1>1, <1>2, ChoiceIs, LenProperties
  <1>4. type.roots \in Nat /\ \A c \in 1 .. type.roots : type.of[c] \in AnyComponent
    BY <1>3, ElementOfSeq
  <1>5. Through(Top, type) \in 0 .. type.roots
    BY <1>1, <1>4, LenProperties DEF LeastSoFar, Through
  <1>6. ASSUME Top.left # << >> PROVE Head(Top.left) \in Roots(type)
    <2>1. Len(Top.left) \in Nat \ {0} /\ Head(Top.left) = Top.left[1] /\ Len(Top.left) <= type.roots
      BY <1>1, <1>6 DEF LeastSoFar
    <2>2. Through(Top, type) + 1 \in 1 .. type.roots
      BY <1>4, <2>1 DEF Through
    <2>3. Head(Top.left) = type.of[Through(Top, type) + 1]
      BY <1>1, <2>1 DEF LeastSoFar
    <2> QED
      BY <1>3, <2>2, <2>3
  <1>7. \A c \in 1 .. type.roots : PartTags(Top.at, type.of[c]) \subseteq Nat
    BY <1>1, <1>4, PartTagsAre
  <1> QED
    BY <1>1, <1>2, <1>3, <1>4, <1>5, <1>6, <1>7 DEF type

\* A CHOICE goes on to its next alternative.
LEMMA NextAlternativeKeeps ==
  ASSUME Loaded, TagInv, Tagging, frames # << >>, Top.op = "choice", Top.left # << >>,
         NEW tag \in Nat,
         Goto([Top EXCEPT !.least = Least(@, tag), !.left = Tail(@)]),
         Unambiguous => /\ ~PartDangles(Top.at, Head(Top.left))
                        /\ tag \in PartTags(Top.at, Head(Top.left))
                        /\ \A other \in PartTags(Top.at, Head(Top.left)) : tag <= other
  PROVE  TagInv' /\ phase' = "tag"
  <1> DEFINE next == [Top EXCEPT !.least = Least(@, tag), !.left = Tail(@)]
             type == Goal(1).type
  <1>1. /\ Top \in AnyFrame /\ Top.at \in DOMAIN models
        /\ Top.least \in AnyOwnTag /\ Top.left \in Seq(AnyComponent)
    BY TopIs
  <1> HIDE DEF Top
  <1>2. Least(Top.least, tag) \in AnyOwnTag /\ Tail(Top.left) \in Seq(AnyComponent)
    BY <1>1, LeastIs, HeadTailProperties DEF AnyOwnTag
  <1>3. /\ next.op = "choice" /\ next.at = Top.at /\ next.least = Least(Top.least, tag)
        /\ next.left = Tail(Top.left)
    BY <1>1 DEF AnyFrame
  <1>4. next \in AnyFrame
    BY <1>1, <1>2 DEF AnyFrame
  <1>5. Goto(next)
    OBVIOUS
  <1> HIDE DEF next
  <1>6. ASSUME Unambiguous PROVE Answers(next, Goal(1))
    <2>1. /\ Goal(1).at = Top.at /\ type.kind = "choice"
          /\ LeastSoFar(Top, type) /\ type.roots \in Nat /\ Through(Top, type) \in 0 .. type.roots
          /\ \A c \in 1 .. type.roots : PartTags(Top.at, type.of[c]) \subseteq Nat
          /\ Head(Top.left) \in Roots(type)
          /\ Roots(type) = {type.of[c] : c \in 1 .. type.roots}
      BY <1>6, ChoiceGoal DEF Roots
    <2> HIDE DEF type
    <2>2. /\ \A c \in 1 .. Through(Top, type) : PartTags(Top.at, type.of[c]) \subseteq Nat
          /\ PartTags(Top.at, Head(Top.left)) \subseteq Nat
      BY <2>1
    <2>3. LeastSoFar(next, type)
      BY <1>1, <1>3, <1>6, <2>1, <2>2, LeastGoesOn
    <2> QED
      BY <1>3, <2>1, <2>3 DEF Answers, type
  <1> QED
    BY <1>4, <1>5, <1>6, GotoKeeps

\* All alternatives are through.
LEMMA LeastOfAll ==
  ASSUME Loaded, TagInv, frames # << >>, Top.op = "choice", Top.left = << >>, Unambiguous
  PROVE  Means(Goal(1).at, Goal(1).type, Top.least)
  <1> DEFINE type == Goal(1).type
  <1>1. /\ Goal(1).at = Top.at /\ type \in AnyType /\ type.kind = "choice"
        /\ LeastSoFar(Top, type) /\ type.roots \in 1 .. Len(type.of)
        /\ Roots(type) = {type.of[c] : c \in 1 .. type.roots}
        /\ Top.at \in DOMAIN models
    BY ChoiceGoal, ChoiceIs, TopIs
  <1> HIDE DEF type, Top
  <1>2. Through(Top, type) = type.roots
    BY <1>1 DEF Through
  <1>3. /\ Top.least # NoTag
        /\ \A c \in Roots(type) : /\ ~PartDangles(Top.at, c)
                                  /\ \A tag \in PartTags(Top.at, c) : Top.least <= tag
        /\ \E c \in Roots(type) : Top.least \in PartTags(Top.at, c)
    BY <1>1, <1>2 DEF LeastSoFar
  <1>4. ~Dangling(Top.at, type)
    BY <1>1, <1>3, ChoiceMeans
  <1>5. AllTags(Top.at, type) = UNION {PartTags(Top.at, c) : c \in Roots(type)}
    BY <1>1, ChoiceMeans
  <1> QED
    BY <1>1, <1>3, <1>4, <1>5 DEF Means, type

\* An alternative is through, or is asked for its tag.
LEMMA ResolveVariantTagKeeps ==
  ASSUME Loaded, TagInv, ResolveVariantTag
  PROVE  TagInv' /\ phase' \in {"tag", "overflow"}
  <1>1. /\ Tagging /\ frames # << >> /\ answer = Pending /\ Top.op = "choice"
        /\ IF Top.left = << >> THEN Return(Top.least)
           ELSE IF Head(Top.left).tag # NoTag
           THEN Goto([Top EXCEPT !.least = Least(@, Head(Top.left).tag), !.left = Tail(@)])
           ELSE Push(TypeCall(Top.at, Head(Top.left).type))
    BY DEF ResolveVariantTag, Calls
  <1>2. /\ Top = frames[1] /\ Top.at \in DOMAIN models
        /\ Top.least \in AnyOwnTag /\ Top.left \in Seq(AnyComponent)
    BY <1>1, TopIs
  <1>3. CASE Top.left = << >>
    <2>1. Unambiguous => Means(Goal(1).at, Goal(1).type, Top.least)
      BY <1>1, <1>3, LeastOfAll
    <2> QED
      BY <1>1, <1>2, <1>3, <2>1, ReturnKeeps
  <1>4. CASE Top.left # << >>
    <2> DEFINE c == Head(Top.left)
    <2>1. c \in AnyComponent
      BY <1>2, <1>4
    <2>2. CASE c.tag # NoTag
      <3>1. c.tag \in Nat /\ PartTags(Top.at, c) = {c.tag} /\ ~PartDangles(Top.at, c)
        BY <1>2, <2>1, <2>2, PartTagsAre
      <3>2. /\ c.tag \in PartTags(Top.at, c)
            /\ \A other \in PartTags(Top.at, c) : c.tag <= other
        BY <3>1
      <3>3. Goto([Top EXCEPT !.least = Least(@, c.tag), !.left = Tail(@)])
        BY <1>1, <1>4, <2>2
      <3> QED
        BY <1>1, <1>4, <3>1, <3>2, <3>3, NextAlternativeKeeps
    <2>3. CASE c.tag = NoTag
      <3> DEFINE call == TypeCall(Top.at, c.type)
      <3>1. Awaits(Top) /\ Asks(Top) = [at |-> Top.at, type |-> c.type]
        BY <1>1, <1>4, <2>3 DEF Awaits, Asks
      <3>2. c.type \in AnyType
        BY <1>2, <2>1, PartTagsAre
      <3>3. Push(call)
        BY <1>1, <1>4, <2>3
      <3> HIDE DEF Top, c
      <3>4. call \in AnyFrame /\ call.op = "type" /\ call.at = Top.at /\ call.type = c.type
        BY <1>2, <3>2 DEF AnyFrame, TypeCall
      <3> HIDE DEF call
      <3>5. Answers(call, Asks(Top))
        BY <3>1, <3>4 DEF Answers
      <3> QED
        BY <1>1, <1>2, <3>1, <3>3, <3>4, <3>5, PushKeeps
    <2> QED
      BY <2>2, <2>3
  <1> QED
    BY <1>3, <1>4

\* An alternative has been asked for its tag.
LEMMA VariantReturnedKeeps ==
  ASSUME Loaded, TagInv, VariantReturned
  PROVE  TagInv' /\ phase' = "tag"
  <1> DEFINE c == Head(Top.left)
  <1>1. /\ Tagging /\ frames # << >> /\ answer # Pending /\ Top.op = "choice"
        /\ IF answer = NoTag THEN Return(NoTag)
           ELSE Goto([Top EXCEPT !.least = Least(@, answer), !.left = Tail(@)])
    BY DEF VariantReturned, Returned
  <1>2. /\ Top = frames[1] /\ Top.at \in DOMAIN models
        /\ Awaits(Top) /\ Goal(0) = Asks(Top)
        /\ Unambiguous => Means(Goal(0).at, Goal(0).type, answer)
    BY <1>1, TopIs
  <1>3. Top.left # << >> /\ c.tag = NoTag /\ Goal(0) = [at |-> Top.at, type |-> c.type]
    BY <1>1, <1>2 DEF Awaits, Asks
  <1>4. answer \in AnyOwnTag
    BY <1>1 DEF TagInv, TaggingTyped
  <1>5. Unambiguous => Means(Top.at, c.type, answer)
    BY <1>2, <1>3
  <1>6. CASE answer = NoTag
    <2>1. ASSUME Unambiguous PROVE Means(Goal(1).at, Goal(1).type, NoTag)
      <3> DEFINE type == Goal(1).type
      <3>1. /\ Goal(1).at = Top.at /\ type \in AnyType /\ type.kind = "choice"
            /\ c \in Roots(type)
        BY <1>1, <1>3, <2>1, ChoiceGoal
      <3>2. PartDangles(Top.at, c)
        BY <1>3, <1>5, <1>6, <2>1 DEF Means, PartDangles
      <3> HIDE DEF type, c, Top
      <3>3. Dangling(Top.at, type)
        BY <1>2, <3>1, <3>2, ChoiceMeans
      <3> QED
        BY <3>1, <3>3 DEF Means, type
    <2>2. Return(NoTag) /\ NoTag \in AnyOwnTag
      BY <1>1, <1>6 DEF AnyOwnTag
    <2> QED
      BY <1>1, <2>1, <2>2, ReturnKeeps
  <1>7. CASE answer # NoTag
    <2>1. answer \in Nat
      BY <1>4, <1>7 DEF AnyOwnTag
    <2>2. Unambiguous => /\ ~PartDangles(Top.at, c)
                         /\ answer \in PartTags(Top.at, c)
                         /\ \A other \in PartTags(Top.at, c) : answer <= other
      BY <1>3, <1>5, <1>7 DEF Means, PartDangles, PartTags
    <2> QED
      BY <1>1, <1>3, <1>7, <2>1, <2>2, NextAlternativeKeeps
  <1> QED
    BY <1>6, <1>7

\* The first call for a question.
LEMMA AskTagKeeps ==
  ASSUME Loaded, TagInv, AskTag
  PROVE  TagInv' /\ phase' = "tag"
  <1> DEFINE question == Head(asked)
             call == TypeCall(question.model, question.type)
  <1>1. /\ Tagging /\ frames = << >> /\ answer = Pending /\ asked # << >>
        /\ frames' = << call >> /\ phase' = phase /\ answer' = answer
    BY DEF AskTag
  <1>2. /\ phase = "tag" /\ models' = models /\ asked' = asked /\ tags' = tags
    BY <1>1, TaggingIs
  <1>3. question \in AnyQuestion
    BY <1>1, HeadTailProperties DEF TagInv, TaggingTyped
  <1> HIDE DEF question
  <1>4. /\ call \in AnyFrame /\ call.op = "type" /\ call.at = question.model
        /\ call.type = question.type
    BY <1>3 DEF AnyFrame, TypeCall, AnyQuestion
  <1> HIDE DEF call
  <1>5. frames' \in Seq(AnyFrame) /\ Len(frames') = 1 /\ frames'[1] = call
    BY <1>1, <1>4
  <1>6. TaggingTyped'
    <2>1. Waiting' = {}
      BY <1>1, <1>5 DEF Waiting
    <2>2. Len(frames') <= MaxDepth
      BY <1>5, DepthIs
    <2> QED
      BY <1>1, <1>2, <1>5, <2>1, <2>2, SetsKept DEF TagInv, TaggingTyped
  <1>7. TagsMeant'
    <2>1. Goal(1)' = [at |-> question.model, type |-> question.type]
      BY <1>2, <1>5 DEF Goal, question
    <2>2. Answers(call, Goal(1)')
      BY <1>4, <2>1 DEF Answers
    <2>3. ASSUME NEW i \in 1 .. Len(frames') PROVE Answers(frames[i], Goal(i))'
      BY <1>2, <1>5, <2>2, CallsKept
    <2> QED
      BY <1>1, <1>2, <2>3, CallsKept, MeaningKept DEF TagInv, TagsMeant
  <1> QED
    BY <1>1, <1>2, <1>6, <1>7 DEF TagInv

\* The answer to a question.
LEMMA TagAnsweredKeeps ==
  ASSUME Loaded, TagInv, TagAnswered
  PROVE  TagInv' /\ phase' = "tag"
  <1> DEFINE question == Head(asked)
             t == [question |-> question, tag |-> answer]
  <1>1. /\ phase = "tag" /\ frames = << >> /\ answer # Pending /\ models' = models
        /\ tags' = Append(tags, t) /\ asked' = Tail(asked) /\ answer' = Pending
        /\ phase' = phase /\ frames' = frames
    BY DEF TagAnswered
  <1>2. asked # << >> /\ asked \in Seq(AnyQuestion) /\ tags \in Seq(AnyTag) /\ answer \in AnyOwnTag
    BY <1>1 DEF TagInv, TaggingTyped
  <1>3. question \in AnyQuestion /\ asked' \in Seq(AnyQuestion)
    BY <1>1, <1>2, HeadTailProperties
  <1>4. Unambiguous => Means(question.model, question.type, answer)
    BY <1>1 DEF TagInv, TagsMeant, Goal
  <1> HIDE DEF question
  <1>5. t \in AnyTag /\ t.question = question /\ t.tag = answer
    BY <1>2, <1>3 DEF AnyTag
  <1> HIDE DEF t
  <1>6. /\ tags' \in Seq(AnyTag) /\ Len(tags) \in Nat /\ Len(tags') = Len(tags) + 1
        /\ \A i \in 1 .. Len(tags) : tags'[i] = tags[i]
        /\ tags'[Len(tags) + 1] = t
    BY <1>1, <1>2, <1>5, AppendProperties, LenProperties
  <1>7. TaggingTyped'
    <2>1. Waiting' = {}
      BY <1>1 DEF Waiting
    <2> QED
      BY <1>1, <1>3, <1>6, <2>1, SetsKept DEF TagInv, TaggingTyped
  <1>8. TagsMeant'
    <2>1. ASSUME Unambiguous, NEW i \in 1 .. Len(tags')
          PROVE  Means(tags'[i].question.model, tags'[i].question.type, tags'[i].tag)
      <3>1. CASE i \in 1 .. Len(tags)
        BY <1>6, <2>1, <3>1 DEF TagInv, TagsMeant
      <3>2. CASE i = Len(tags) + 1
        BY <1>4, <1>5, <1>6, <2>1, <3>2
      <3> QED
        BY <1>6, <3>1, <3>2
    <2> QED
      BY <1>1, <2>1, CallsKept, MeaningKept DEF TagInv, TagsMeant
  <1> QED
    BY <1>1, <1>7, <1>8 DEF TagInv

\* Nobody has been called.
LEMMA QuietKeeps ==
  ASSUME TagInv, models' = models, frames' = frames, answer' = answer, tags' = tags,
         asked' \in Seq(AnyQuestion), frames = << >>, answer = Pending
  PROVE  TagInv'
  <1>1. Waiting' = {}
    BY DEF Waiting
  <1>2. TaggingTyped'
    BY <1>1, SetsKept DEF TagInv, TaggingTyped
  <1>3. TagsMeant'
    BY CallsKept, MeaningKept DEF TagInv, TagsMeant
  <1> QED
    BY <1>2, <1>3 DEF TagInv

\* The end of all questions.
LEMMA GenerateKeeps ==
  ASSUME TagInv, Generate
  PROVE  TagInv' /\ phase' \in {"done", "untagged"}
  <1>1. /\ models' = models /\ frames' = frames /\ answer' = answer /\ tags' = tags
        /\ asked' = asked /\ asked = << >> /\ phase' \in {"done", "untagged"}
    BY DEF Generate, tagging
  <1>2. frames = << >> /\ answer = Pending /\ asked' \in Seq(AnyQuestion)
    BY <1>1 DEF TagInv, TaggingTyped
  <1> QED
    BY <1>1, <1>2, QuietKeeps

-----------------------------------------------------------------------------
(* The invariant of both walks *)

ResolutionInv == ResolveInv /\ TagInv

\* The invariant holds of every program that is loaded.
LEMMA ResolutionStarts == Init => ResolutionInv
  <1> SUFFICES ASSUME Init PROVE ResolutionInv
    OBVIOUS
  <1>1. Loaded
    BY ProgramsAssumption DEF Init, Loaded
  <1>2. 1 \in DOMAIN models
    BY <1>1, ModuleIs
  <1>3. todo \in Seq(AnyLookup)
    BY <1>1, <1>2, LookupsAre DEF Init
  <1>4. /\ phase = "resolve" /\ current = 1 /\ search = << >> /\ found = << >>
        /\ asked = << >> /\ frames = << >> /\ answer = Pending /\ tags = << >>
    BY DEF Init
  <1>5. ResolveInv
    BY <1>1, <1>2, <1>3, <1>4, EmptySeq
    DEF ResolveInv, ResolvingTyped, SearchMeant, FoundMeant, EndMeant
  <1>6. Waiting = {} /\ Len(frames) = 0
    BY <1>4 DEF Waiting
  <1>7. TaggingTyped
    BY <1>4, <1>6, EmptySeq, DepthIs DEF TaggingTyped
  <1>8. TagsMeant
    BY <1>4, <1>6 DEF TagsMeant
  <1> QED
    BY <1>5, <1>7, <1>8 DEF ResolutionInv, TagInv

\* The look-ups leave the tags alone.
LEMMA ResolvingKeeps ==
  ASSUME ResolutionInv, StartLookup \/ FindValue \/ FindType \/ FollowImport \/ Miss
  PROVE  ResolutionInv'
  <1>1. phase = "resolve" /\ models' = models /\ UNCHANGED tagging
    BY DEF StartLookup, FindValue, FindType, FollowImport, Miss, Finds, Fails, LookForValueInstead
  <1>2. ResolveInv'
    BY StartLookupKeeps, FindValueKeeps, FindTypeKeeps, FollowImportKeeps, MissKeeps
    DEF ResolutionInv
  <1>3. frames = << >> /\ answer = Pending /\ asked \in Seq(AnyQuestion)
    BY <1>1 DEF ResolutionInv, TagInv, TaggingTyped
  <1>4. TagInv'
    BY <1>1, <1>3, QuietKeeps DEF tagging, ResolutionInv
  <1> QED
    BY <1>2, <1>4 DEF ResolutionInv

\* The questions are asked when all names are resolved.
LEMMA NextModelKeepsBoth ==
  ASSUME ResolutionInv, NextModel
  PROVE  ResolutionInv'
  <1>1. /\ phase = "resolve" /\ models' = models /\ frames' = frames /\ answer' = answer
        /\ tags' = tags
        /\ asked' = asked \/ asked' = FlattenSeq([m \in DOMAIN models |-> Questions(m)])
    BY DEF NextModel
  <1>2. frames = << >> /\ answer = Pending /\ asked \in Seq(AnyQuestion)
    BY <1>1 DEF ResolutionInv, TagInv, TaggingTyped
  <1>3. asked' \in Seq(AnyQuestion)
    BY <1>1, <1>2, AllQuestionsAre DEF ResolutionInv, ResolveInv, ResolvingTyped
  <1> QED
    BY <1>1, <1>2, <1>3, QuietKeeps, NextModelKeeps DEF ResolutionInv

\* The tags leave the look-ups alone.
LEMMA TaggingKeepsBoth ==
  ASSUME ResolutionInv,
         \/ AskTag \/ ResolveTypeTag \/ ResolveImportedTag \/ ResolveLocalTag
         \/ ReferenceReturned \/ ResolveVariantTag \/ VariantReturned \/ TagAnswered \/ Generate
  PROVE  ResolutionInv'
  <1>1. phase = "tag" /\ UNCHANGED << models, resolving >>
    BY DEF AskTag, ResolveTypeTag, ResolveImportedTag, ResolveLocalTag, ReferenceReturned,
           ResolveVariantTag, VariantReturned, TagAnswered, Generate, Calls, Returned, Tagging
  <1>2. Loaded /\ TagInv
    BY DEF ResolutionInv, ResolveInv, ResolvingTyped
  <1>3. TagInv' /\ phase' \in {"tag", "overflow", "done", "untagged"}
    BY <1>2, AskTagKeeps, ResolveTypeTagKeeps, ResolveImportedTagKeeps, ResolveLocalTagKeeps,
       ReferenceReturnedKeeps, ResolveVariantTagKeeps, VariantReturnedKeeps, TagAnsweredKeeps,
       GenerateKeeps
  <1>4. ResolveInv'
    BY <1>1, <1>3, TaggingKeeps DEF ResolutionInv
  <1> QED
    BY <1>3, <1>4 DEF ResolutionInv

\* Nothing changes without a step.
LEMMA ResolutionStutters ==
  ASSUME ResolutionInv, UNCHANGED vars
  PROVE  ResolutionInv'
  <1>1. /\ models' = models /\ phase' = phase /\ current' = current /\ todo' = todo
        /\ search' = search /\ found' = found /\ asked' = asked /\ frames' = frames
        /\ answer' = answer /\ tags' = tags
    BY DEF vars, resolving, tagging
  <1>2. ResolvingTyped'
    BY <1>1 DEF ResolutionInv, ResolveInv, ResolvingTyped, Loaded, AnySearch, AnyFound
  <1>3. SearchMeant' /\ EndMeant'
    <2>1. ASSUME NEW at, NEW for PROVE LeadsOn(at, for)' <=> LeadsOn(at, for)
      BY <1>1, DeclarersKept, MeaningKept DEF LeadsOn
    <2> QED
      BY <1>1, <2>1, MeaningKept DEF SearchMeant, EndMeant, ResolutionInv, ResolveInv
  <1>4. FoundMeant'
    BY <1>1, FoundKept DEF ResolutionInv, ResolveInv
  <1>5. TaggingTyped'
    <2>1. Waiting' = Waiting
      BY <1>1 DEF Waiting
    <2> QED
      BY <1>1, <2>1, CallsKept, SetsKept DEF ResolutionInv, TagInv, TaggingTyped
  <1>6. TagsMeant'
    <2>1. \A i : Goal(i)' = Goal(i)
      BY <1>1, CallsKept DEF Goal
    <2> QED
      BY <1>1, <2>1, CallsKept, MeaningKept DEF ResolutionInv, TagInv, TagsMeant
  <1> QED
    BY <1>2, <1>3, <1>4, <1>5, <1>6 DEF ResolutionInv, ResolveInv, TagInv

\* The invariant of both walks.
LEMMA ResolutionInvHolds == Spec => []ResolutionInv
  <1>1. ResolutionInv /\ [Next]_vars => ResolutionInv'
    <2> SUFFICES ASSUME ResolutionInv, [Next]_vars PROVE ResolutionInv'
      OBVIOUS
    <2>1. CASE Next
      BY <2>1, ResolvingKeeps, NextModelKeepsBoth, TaggingKeepsBoth DEF Next
    <2>2. CASE UNCHANGED vars
      BY <2>2, ResolutionStutters
    <2> QED
      BY <2>1, <2>2
  <1> QED
    BY ResolutionStarts, <1>1, PTL DEF Spec

-----------------------------------------------------------------------------

\* The searches and calls of both walks stay of their types: the stack of
\* resolve_tag and resolve_type_tag never exceeds its limit, and an answer is there
\* only while tags are resolved.
THEOREM TypeCorrect == Spec => []TypeOK
  <1>1. ResolutionInv => TypeOK
    <2> SUFFICES ASSUME ResolutionInv PROVE TypeOK
      OBVIOUS
    <2>1. search # << >> => Len(search) = 1 /\ search[1].depth \in 1 .. MaxDepth
      BY DEF ResolutionInv, ResolveInv, ResolvingTyped, AnySearch
    <2>2. Len(search) <= 1
      <3>1. Len(search) = 0 \/ Len(search) = 1
        BY <2>1
      <3>2. 0 <= 1 /\ 1 <= 1
        OBVIOUS
      <3> QED
        BY <3>1, <3>2, Zenon
    <2> QED
      BY <2>1, <2>2
      DEF ResolutionInv, ResolveInv, ResolvingTyped, TagInv, TaggingTyped, TypeOK
  <1> QED
    BY ResolutionInvHolds, <1>1, PTL

\* Names are found as they are declared: every value that value_reference and
\* definition find through IMPORTS is the one that the name means, and a look-up
\* fails only for a name without a meaning, for all modules that are Identified.
THEOREM NamesAreFoundAsDeclared == Spec => []FoundAsDeclared
  <1>1. ResolutionInv => FoundAsDeclared
    BY ResolveInvSuffices DEF ResolutionInv
  <1> QED
    BY ResolutionInvHolds, <1>1, PTL

\* There is one such tag.
LEMMA MeansMeant ==
  ASSUME Loaded, NEW m \in DOMAIN models, NEW type \in AnyType, NEW tag, Means(m, type, tag)
  PROVE  tag = MeantTag(m, type)
  <1>1. CASE tag = NoTag
    BY <1>1 DEF Means, MeantTag
  <1>2. CASE tag # NoTag
    <2>1. /\ ~Dangling(m, type)
          /\ tag \in AllTags(m, type) /\ \A other \in AllTags(m, type) : tag <= other
      BY <1>2 DEF Means
    <2>2. Min(AllTags(m, type)) = tag
      BY <2>1, AllTagsAre, MinUnique
    <2> QED
      BY <2>1, <2>2 DEF MeantTag
  <1> QED
    BY <1>1, <1>2

\* Tags are as meant: what resolve_tag and resolve_type_tag answer is the smallest
\* tag that the type leads to through names, imports and alternatives, or none if
\* it leads to a name that nobody declares, for all modules that are Unambiguous.
THEOREM TagsAreAsMeant == Spec => []TagsAsMeant
  <1>1. ResolutionInv => TagsAsMeant
    <2> SUFFICES ASSUME ResolutionInv, Unambiguous, NEW i \in 1 .. Len(tags)
                 PROVE  tags[i].tag = MeantTag(tags[i].question.model, tags[i].question.type)
      <3>1. DOMAIN tags = 1 .. Len(tags)
        BY LenProperties DEF ResolutionInv, TagInv, TaggingTyped
      <3> QED
        BY <3>1 DEF TagsAsMeant, Range
    <2>1. tags[i] \in AnyTag /\ Loaded
      BY ElementOfSeq DEF ResolutionInv, ResolveInv, ResolvingTyped, TagInv, TaggingTyped
    <2>2. tags[i].question.model \in DOMAIN models /\ tags[i].question.type \in AnyType
      BY <2>1 DEF AnyTag, AnyQuestion
    <2>3. Means(tags[i].question.model, tags[i].question.type, tags[i].tag)
      BY DEF ResolutionInv, TagInv, TagsMeant
    <2> QED
      BY <2>1, <2>2, <2>3, MeansMeant
  <1> QED
    BY ResolutionInvHolds, <1>1, PTL
=============================================================================
