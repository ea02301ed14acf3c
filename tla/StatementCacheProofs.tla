------------------------ MODULE StatementCacheProofs ------------------------
(***************************************************************************)
(* Safety of StatementCache for every number of tasks, texts, statements   *)
(* and losses.                                                             *)
(***************************************************************************)
EXTENDS StatementCache, TLAPS

\* The call that has the turn of a text left its marker in the slow map.
FillerHasMarker ==
    \A t \in Tasks : pc[t] \in Filling => slow[key[t]].state = "awaiting"

\* A call past the fast lookup missed there, and the fast map cannot change
\* while it is under way.
PastFastMissed ==
    \A t \in Tasks :
        pc[t] \in {"lock_map", "at_map"} \cup Filling
            => fast[key[t]] = NoStatement

\* A call on its way to the insertion has a statement to insert.
InserterHasStatement ==
    \A t \in Tasks :
        pc[t] \in {"lock_insert", "at_insert"} => stmt[t] \in Statements

\* What was stored or found is what a call returns or has returned.
HeldIsStored ==
    \A t \in Tasks :
        /\ pc[t] = "idle" /\ stmt[t] # NoStatement => stmt[t] = Stored(key[t])
        /\ pc[t] = "notify"
            => stmt[t] \in Statements /\ stmt[t] = Stored(key[t])

\* The inductive invariant.
IInv ==
    /\ TypeOK
    /\ FillerHasMarker
    /\ PastFastMissed
    /\ InserterHasStatement
    /\ HeldIsStored
    /\ OnePreparationAtATime
    /\ MapsAreDisjoint

LEMMA InitIInv == Init => IInv
  BY ConstantsAssumption
  DEF Init, IInv, TypeOK, Entry, Absent, PCs, Filling, FillerHasMarker,
      PastFastMissed, InserterHasStatement, HeldIsStored,
      OnePreparationAtATime, MapsAreDisjoint

\* Types are kept, given that what is inserted is a statement.
LEMMA TypeStep ==
  TypeOK /\ InserterHasStatement /\ [Next]_vars => TypeOK'
  <1> SUFFICES ASSUME TypeOK, InserterHasStatement, [Next]_vars
               PROVE  TypeOK'
    OBVIOUS
  <1> USE DEF TypeOK
  <1>1. ASSUME NEW t \in Tasks, NEW k \in Keys, Call(t, k) PROVE TypeOK'
    BY <1>1 DEF Call, PCs
  <1>2. ASSUME NEW t \in Tasks, LookupFast(t) PROVE TypeOK'
    BY <1>2 DEF LookupFast, PCs
  <1>3. ASSUME NEW t \in Tasks, AcquireMap(t) PROVE TypeOK'
    BY <1>3 DEF AcquireMap, PCs
  <1>4. ASSUME NEW t \in Tasks, FindAwaiting(t) PROVE TypeOK'
    BY <1>4 DEF FindAwaiting, PCs, Entry, Absent
  <1>5. ASSUME NEW t \in Tasks, FindReady(t) PROVE TypeOK'
    BY <1>5 DEF FindReady, PCs, Entry, Absent
  <1>6. ASSUME NEW t \in Tasks, FindMissing(t) PROVE TypeOK'
    BY <1>6 DEF FindMissing, PCs, Entry, Absent, Awaiting
  <1>7. ASSUME NEW t \in Tasks, MarkerReleased(t) PROVE TypeOK'
    BY <1>7 DEF MarkerReleased, PCs
  <1>8. ASSUME NEW t \in Tasks, NEW s \in Statements, Prepared(t, s)
        PROVE  TypeOK'
    BY <1>8 DEF Prepared, PCs
  <1>9. ASSUME NEW t \in Tasks, Insert(t) PROVE TypeOK'
    BY <1>9 DEF Insert, PCs, Entry, Ready, InserterHasStatement
  <1>10. ASSUME NEW t \in Tasks, Notify(t) PROVE TypeOK'
    BY <1>10 DEF Notify, PCs
  <1>11. ASSUME NEW t \in Tasks, Lose(t) PROVE TypeOK'
    BY <1>11, ConstantsAssumption DEF Lose, PCs
  <1>12. ASSUME Optimize PROVE TypeOK'
    BY <1>12 DEF Optimize, Entry, Absent
  <1>13. CASE UNCHANGED vars
    BY <1>13 DEF vars
  <1> QED
    BY <1>1, <1>2, <1>3, <1>4, <1>5, <1>6, <1>7, <1>8, <1>9, <1>10, <1>11,
       <1>12, <1>13
    DEF Next, Step, Reply, PrepareFails, DropFuture

\* The rest of the invariant, one action at a time.
LEMMA IInvStep == IInv /\ [Next]_vars => IInv'
  <1> SUFFICES ASSUME IInv, [Next]_vars PROVE IInv'
    OBVIOUS
  <1>t. TypeOK /\ TypeOK'
    BY TypeStep DEF IInv
  <1> DEFINE Rest == /\ FillerHasMarker
                     /\ PastFastMissed
                     /\ InserterHasStatement
                     /\ HeldIsStored
                     /\ OnePreparationAtATime
                     /\ MapsAreDisjoint
  <1> SUFFICES Rest'
    BY <1>t DEF IInv
  <1> USE <1>t, ConstantsAssumption
      DEF TypeOK, IInv, FillerHasMarker, PastFastMissed, InserterHasStatement,
          HeldIsStored, OnePreparationAtATime, MapsAreDisjoint, Filling
  \* Actions that leave both maps alone and do not enter the filling part.
  <1>1. ASSUME NEW t \in Tasks, NEW k \in Keys, Call(t, k) PROVE Rest'
    BY <1>1 DEF Call, Stored
  <1>2. ASSUME NEW t \in Tasks, LookupFast(t) PROVE Rest'
    BY <1>2 DEF LookupFast, Stored
  <1>3. ASSUME NEW t \in Tasks, AcquireMap(t) PROVE Rest'
    BY <1>3 DEF AcquireMap, Stored
  <1>4. ASSUME NEW t \in Tasks, FindAwaiting(t) PROVE Rest'
    BY <1>4 DEF FindAwaiting, Stored
  <1>5. ASSUME NEW t \in Tasks, FindReady(t) PROVE Rest'
    BY <1>5 DEF FindReady, Stored, Absent, Entry
  \* The text had no entry, so nobody else was filling it.
  <1>6. ASSUME NEW t \in Tasks, FindMissing(t) PROVE Rest'
    <2>1. \A u \in Tasks : pc[u] \in Filling => key[u] # key[t]
      BY <1>6 DEF FindMissing, Absent
    <2>2. \A k \in Keys : Stored(k)' = Stored(k)
      BY <1>6 DEF FindMissing, Stored, Absent, Awaiting
    <2>3. (FillerHasMarker /\ PastFastMissed /\ InserterHasStatement)'
      BY <1>6 DEF FindMissing, Awaiting
    <2>4. HeldIsStored'
      BY <1>6, <2>2 DEF FindMissing
    <2>5. OnePreparationAtATime'
      BY <1>6, <2>1 DEF FindMissing
    <2>6. MapsAreDisjoint'
      BY <1>6 DEF FindMissing
    <2> QED
      BY <2>3, <2>4, <2>5, <2>6
  <1>7. ASSUME NEW t \in Tasks, MarkerReleased(t) PROVE Rest'
    BY <1>7 DEF MarkerReleased, Stored
  <1>8. ASSUME NEW t \in Tasks, NEW s \in Statements, Prepared(t, s)
        PROVE  Rest'
    BY <1>8 DEF Prepared, Stored
  \* Nobody else was filling the text, so no other marker is overwritten.
  <1>9. ASSUME NEW t \in Tasks, Insert(t) PROVE Rest'
    <2>1. /\ fast[key[t]] = NoStatement
          /\ Stored(key[t]) = NoStatement
          /\ stmt[t] \in Statements
      BY <1>9 DEF Insert, Stored
    <2>2. /\ Stored(key[t])' = stmt[t]
          /\ \A k \in Keys \ {key[t]} : Stored(k)' = Stored(k)
      BY <1>9, <2>1 DEF Insert, Stored, Ready
    <2>3. (FillerHasMarker /\ PastFastMissed /\ InserterHasStatement)'
      BY <1>9 DEF Insert
    <2>4. HeldIsStored'
      BY <1>9, <2>1, <2>2 DEF Insert
    <2>5. OnePreparationAtATime'
      BY <1>9 DEF Insert
    <2>6. MapsAreDisjoint'
      BY <1>9, <2>1 DEF Insert
    <2> QED
      BY <2>3, <2>4, <2>5, <2>6
  <1>10. ASSUME NEW t \in Tasks, Notify(t) PROVE Rest'
    BY <1>10 DEF Notify, Stored
  <1>11. ASSUME NEW t \in Tasks, Lose(t) PROVE Rest'
    BY <1>11 DEF Lose, Stored
  \* No text is in both maps, so the extension overwrites no statement.
  <1>12. ASSUME Optimize PROVE Rest'
    <2>1. \A k \in Keys : Stored(k) # NoStatement => Stored(k)' = Stored(k)
      BY <1>12 DEF Optimize, Stored, Entry, Absent
    <2> QED
      BY <1>12, <2>1 DEF Optimize
  <1>13. CASE UNCHANGED vars
    BY <1>13 DEF vars, Stored
  <1> QED
    BY <1>1, <1>2, <1>3, <1>4, <1>5, <1>6, <1>7, <1>8, <1>9, <1>10, <1>11,
       <1>12, <1>13
    DEF Next, Step, Reply, PrepareFails, DropFuture

LEMMA IInvHolds == Spec => []IInv
  BY InitIInv, IInvStep, PTL DEF Spec

\* Every variable keeps its type.
THEOREM TypeCorrect == Spec => []TypeOK
  BY IInvHolds, PTL DEF IInv

\* However many calls meet, fail or are dropped, no two of them prepare one
\* text at the same time.
THEOREM OneAtATime == Spec => []OnePreparationAtATime
  BY IInvHolds, PTL DEF IInv

\* What a call returned is what the cache holds.
THEOREM AnswersHold == Spec => []AnswersAreStored
  <1>1. IInv => AnswersAreStored
    BY DEF IInv, HeldIsStored, AnswersAreStored
  <1> QED
    BY <1>1, IInvHolds, PTL

\* optimize overwrites nothing.
THEOREM Disjoint == Spec => []MapsAreDisjoint
  BY IInvHolds, PTL DEF IInv

-----------------------------------------------------------------------------
\* What a step does to the settled statement of a text.
LEMMA StoredStep ==
  IInv /\ [Next]_vars =>
    \A k \in Keys : Stored(k) # NoStatement =>
        Stored(k)' = Stored(k) /\ prepares'[k] = prepares[k]
  <1> SUFFICES ASSUME IInv, [Next]_vars, NEW k \in Keys,
                      Stored(k) # NoStatement
               PROVE  Stored(k)' = Stored(k) /\ prepares'[k] = prepares[k]
    OBVIOUS
  <1> USE DEF IInv, TypeOK, Stored
  <1>1. ASSUME NEW t \in Tasks, FindMissing(t)
        PROVE  Stored(k)' = Stored(k) /\ prepares'[k] = prepares[k]
    <2>1. k # key[t]
      BY <1>1 DEF FindMissing, PastFastMissed, Absent
    <2> QED
      BY <1>1, <2>1 DEF FindMissing
  <1>2. ASSUME NEW t \in Tasks, Insert(t)
        PROVE  Stored(k)' = Stored(k) /\ prepares'[k] = prepares[k]
    <2>1. k # key[t]
      BY <1>2 DEF Insert, PastFastMissed, FillerHasMarker, Filling
    <2> QED
      BY <1>2, <2>1 DEF Insert
  <1>3. ASSUME Optimize
        PROVE  Stored(k)' = Stored(k) /\ prepares'[k] = prepares[k]
    BY <1>3 DEF Optimize, MapsAreDisjoint, Absent
  <1>4. CASE UNCHANGED <<fast, slow, prepares>>
    BY <1>4
  <1> QED
    BY <1>1, <1>2, <1>3, <1>4
    DEF Next, vars, Step, Reply, Call, LookupFast, AcquireMap, FindAwaiting,
        FindReady, MarkerReleased, Prepared, PrepareFails, DropFuture, Lose,
        Notify

\* The statement of a text neither changes nor gets lost, over any number of
\* insertions and optimisations.
THEOREM StatementsStay == Spec => StoredForever
  <1>1. IInv /\ [Next]_vars =>
          [\A k \in Keys : Stored(k) # NoStatement
              => Stored(k)' = Stored(k)]_vars
    BY StoredStep
  <1> QED
    BY <1>1, IInvHolds, PTL DEF Spec, StoredForever

\* The backend is not asked again for what the cache has.
THEOREM NoSecondRequest == Spec => NoRequestForStored
  <1>1. IInv /\ [Next]_vars =>
          [\A k \in Keys : Stored(k) # NoStatement
              => prepares'[k] = prepares[k]]_vars
    BY StoredStep
  <1> QED
    BY <1>1, IInvHolds, PTL DEF Spec, NoRequestForStored

-----------------------------------------------------------------------------
\* The mapped turn is the one call that fills the text.
LEMMA TurnIs ==
  IInv => \A k \in Keys :
            /\ \A t \in Tasks :
                  pc[t] \in Filling /\ key[t] = k => TurnOf(k) = t
            /\ (\A t \in Tasks : ~(pc[t] \in Filling /\ key[t] = k))
                  => TurnOf(k) = NoTask
  BY DEF IInv, TurnOf, OnePreparationAtATime

LEMMA PromiseInit == Init => Promise!Init
  <1> SUFFICES ASSUME Init PROVE Promise!Init
    OBVIOUS
  <1>1. \A k \in Keys : Stored(k) = NoStatement
    BY DEF Init, Stored, Absent
  <1>2. \A k \in Keys : TurnOf(k) = NoTask
    BY InitIInv, TurnIs DEF Init, Filling
  <1> QED
    BY <1>1, <1>2 DEF Init, Promise!Init, InCall

\* A step of the cache is a step of PreparedOnce, or none.
LEMMA PromiseStep ==
  IInv /\ IInv' /\ [Next]_vars => [Promise!Next]_(Promise!vars)
  <1> SUFFICES ASSUME IInv, IInv', [Next]_vars
               PROVE  [Promise!Next]_(Promise!vars)
    OBVIOUS
  <1>turn. \A k \in Keys :
            /\ \A t \in Tasks :
                  pc[t] \in Filling /\ key[t] = k => TurnOf(k) = t
            /\ (\A t \in Tasks : ~(pc[t] \in Filling /\ key[t] = k))
                  => TurnOf(k) = NoTask
    BY TurnIs
  <1>turn1. \A k \in Keys :
            /\ \A t \in Tasks :
                  pc'[t] \in Filling /\ key'[t] = k => TurnOf(k)' = t
            /\ (\A t \in Tasks : ~(pc'[t] \in Filling /\ key'[t] = k))
                  => TurnOf(k)' = NoTask
    BY DEF IInv, TurnOf, OnePreparationAtATime
  <1> DEFINE SameStore == \A k \in Keys : Stored(k)' = Stored(k)
             SameTurn  == \A k \in Keys : TurnOf(k)' = TurnOf(k)
  <1> USE DEF IInv, TypeOK, InCall
  \* A step that neither begins nor ends a call and stores nothing.
  <1>stutter. ASSUME SameStore, SameTurn, UNCHANGED key,
                     \A t \in Tasks : InCall(t)' = InCall(t),
                     \A t \in Tasks : ~InCall(t) => stmt'[t] = stmt[t]
              PROVE  UNCHANGED Promise!vars
    BY <1>stutter DEF Promise!vars
  <1>1. ASSUME NEW t \in Tasks, NEW k \in Keys, Call(t, k)
        PROVE  Promise!Ask(t, k)
    <2>1. SameStore
      BY <1>1 DEF Call, Stored
    <2>2. SameTurn
      BY <1>1, <1>turn, <1>turn1 DEF Call, Filling
    <2> QED
      BY <1>1, <2>1, <2>2 DEF Call, Promise!Ask
  <1>2. ASSUME NEW t \in Tasks, LookupFast(t)
        PROVE  Promise!Answer(t) \/ UNCHANGED Promise!vars
    <2>1. SameStore
      BY <1>2 DEF LookupFast, Stored
    <2>2. SameTurn
      BY <1>2, <1>turn, <1>turn1 DEF LookupFast, Filling
    <2>3. CASE fast[key[t]] = NoStatement
      BY <1>2, <1>stutter, <2>1, <2>2, <2>3 DEF LookupFast
    <2>4. CASE fast[key[t]] # NoStatement
      BY <1>2, <2>1, <2>2, <2>4 DEF LookupFast, Promise!Answer, Stored
    <2> QED
      BY <2>3, <2>4
  <1>3. ASSUME NEW t \in Tasks, AcquireMap(t)
        PROVE  UNCHANGED Promise!vars
    <2>1. SameStore
      BY <1>3 DEF AcquireMap, Stored
    <2>2. SameTurn
      BY <1>3, <1>turn, <1>turn1 DEF AcquireMap, Filling
    <2> QED
      BY <1>3, <1>stutter, <2>1, <2>2 DEF AcquireMap
  <1>4. ASSUME NEW t \in Tasks, FindAwaiting(t)
        PROVE  UNCHANGED Promise!vars
    <2>1. SameStore
      BY <1>4 DEF FindAwaiting, Stored
    <2>2. SameTurn
      BY <1>4, <1>turn, <1>turn1 DEF FindAwaiting, Filling
    <2> QED
      BY <1>4, <1>stutter, <2>1, <2>2 DEF FindAwaiting
  <1>5. ASSUME NEW t \in Tasks, FindReady(t)
        PROVE  Promise!Answer(t)
    <2>1. SameStore
      BY <1>5 DEF FindReady, Stored
    <2>2. SameTurn
      BY <1>5, <1>turn, <1>turn1 DEF FindReady, Filling
    <2>3. /\ Stored(key[t]) = slow[key[t]].stmt
          /\ Stored(key[t]) \in Statements
      BY <1>5 DEF FindReady, Stored, Entry, Absent, MapsAreDisjoint
    <2> QED
      BY <1>5, <2>1, <2>2, <2>3, ConstantsAssumption
      DEF FindReady, Promise!Answer
  <1>6. ASSUME NEW t \in Tasks, FindMissing(t)
        PROVE  Promise!TakeTurn(t)
    <2>1. SameStore
      BY <1>6 DEF FindMissing, Stored, Absent, Awaiting
    <2>2. \A u \in Tasks : pc[u] \in Filling => key[u] # key[t]
      BY <1>6 DEF FindMissing, FillerHasMarker, Absent
    <2>3. TurnOf(key[t]) = NoTask
      BY <2>2, <1>turn
    <2>4. TurnOf(key[t])' = t
      BY <1>6, <1>turn1 DEF FindMissing, Filling
    <2>5. \A k \in Keys \ {key[t]} : TurnOf(k)' = TurnOf(k)
      BY <1>6, <1>turn, <1>turn1 DEF FindMissing, Filling
    <2>6. Stored(key[t]) = NoStatement
      BY <1>6 DEF FindMissing, Stored, Absent, PastFastMissed
    <2> QED
      BY <1>6, <2>1, <2>3, <2>4, <2>5, <2>6
      DEF FindMissing, Promise!TakeTurn
  <1>7. ASSUME NEW t \in Tasks, MarkerReleased(t)
        PROVE  UNCHANGED Promise!vars
    <2>1. SameStore
      BY <1>7 DEF MarkerReleased, Stored
    <2>2. SameTurn
      BY <1>7, <1>turn, <1>turn1 DEF MarkerReleased, Filling
    <2> QED
      BY <1>7, <1>stutter, <2>1, <2>2 DEF MarkerReleased
  <1>8. ASSUME NEW t \in Tasks, NEW s \in Statements, Prepared(t, s)
        PROVE  UNCHANGED Promise!vars
    <2>1. SameStore
      BY <1>8 DEF Prepared, Stored
    <2>2. SameTurn
      BY <1>8, <1>turn, <1>turn1 DEF Prepared, Filling
    <2> QED
      BY <1>8, <1>stutter, <2>1, <2>2 DEF Prepared
  <1>9. ASSUME NEW t \in Tasks, Insert(t)
        PROVE  Promise!Settle(t)
    <2>1. /\ fast[key[t]] = NoStatement
          /\ stmt[t] \in Statements
      BY <1>9 DEF Insert, PastFastMissed, InserterHasStatement, Filling
    <2>2. /\ Stored(key[t])' = stmt[t]
          /\ \A k \in Keys \ {key[t]} : Stored(k)' = Stored(k)
      BY <1>9, <2>1 DEF Insert, Stored, Ready
    <2>3. TurnOf(key[t]) = t
      BY <1>9, <1>turn DEF Insert, Filling
    <2>4. TurnOf(key[t])' = NoTask
      BY <1>9, <1>turn1 DEF Insert, Filling, OnePreparationAtATime
    <2>5. \A k \in Keys \ {key[t]} : TurnOf(k)' = TurnOf(k)
      BY <1>9, <1>turn, <1>turn1 DEF Insert, Filling
    <2>6. \A u \in Tasks : pc'[u] = "idle" <=> pc[u] = "idle"
      BY <1>9 DEF Insert
    <2>7. key' = key /\ stmt' = stmt /\ pc[t] # "idle"
      BY <1>9 DEF Insert
    <2> QED
      BY <2>1, <2>2, <2>3, <2>4, <2>5, <2>6, <2>7 DEF Promise!Settle
  <1>10. ASSUME NEW t \in Tasks, Notify(t)
         PROVE  Promise!Answer(t)
    <2>1. SameStore
      BY <1>10 DEF Notify, Stored
    <2>2. SameTurn
      BY <1>10, <1>turn, <1>turn1 DEF Notify, Filling
    <2>3. /\ stmt[t] # NoStatement
          /\ stmt[t] = Stored(key[t])
      BY <1>10, ConstantsAssumption DEF Notify, HeldIsStored
    <2>4. \A u \in Tasks : pc'[u] = "idle" <=> u = t \/ pc[u] = "idle"
      BY <1>10 DEF Notify
    <2> QED
      BY <1>10, <2>1, <2>2, <2>3, <2>4 DEF Notify, Promise!Answer
  \* Giving up frees the turn if the call had it.
  <1>11. ASSUME NEW t \in Tasks, pc[t] # "idle", pc[t] # "notify", Lose(t)
         PROVE  Promise!GiveUp(t)
    <2>1. SameStore
      BY <1>11 DEF Lose, Stored
    <2>0. key' = key
      BY <1>11 DEF Lose
    <2>2. \A k \in Keys \ {key[t]} : TurnOf(k)' = TurnOf(k)
      BY <1>11, <1>turn, <1>turn1 DEF Lose, Filling
    <2>3. TurnOf(key[t])' = IF TurnOf(key[t]) = t THEN NoTask
                                                  ELSE TurnOf(key[t])
      <3>1. CASE pc[t] \in Filling
        <4>1. TurnOf(key[t]) = t
          BY <3>1, <1>turn
        <4>2. \A u \in Tasks : ~(pc'[u] \in Filling /\ key'[u] = key[t])
          BY <1>11, <3>1 DEF Lose, Filling, OnePreparationAtATime
        <4> QED
          BY <4>1, <4>2, <2>0, <1>turn1
      <3>2. CASE pc[t] \notin Filling
        <4>1. \A u \in Tasks :
                pc'[u] \in Filling /\ key'[u] = key[t]
                  <=> pc[u] \in Filling /\ key[u] = key[t]
          BY <1>11, <3>2 DEF Lose, Filling
        <4>2. TurnOf(key[t])' = TurnOf(key[t])
          BY <4>1, <2>0, <1>turn, <1>turn1
        <4>3. TurnOf(key[t]) # t
          BY <3>2, <1>turn, ConstantsAssumption
        <4> QED
          BY <4>2, <4>3
      <3> QED
        BY <3>1, <3>2
    <2> QED
      BY <1>11, <2>1, <2>2, <2>3 DEF Lose, Promise!GiveUp
  <1>12. ASSUME Optimize
         PROVE  UNCHANGED Promise!vars
    <2>1. SameStore
      BY <1>12 DEF Optimize, Stored, Absent, Entry, MapsAreDisjoint
    <2>2. SameTurn
      BY <1>12, <1>turn, <1>turn1 DEF Optimize, Filling
    <2> QED
      BY <1>12, <1>stutter, <2>1, <2>2 DEF Optimize
  <1>13. CASE UNCHANGED vars
    BY <1>13 DEF vars, Promise!vars, Stored, TurnOf
  <1> QED
    BY <1>1, <1>2, <1>3, <1>4, <1>5, <1>6, <1>7, <1>8, <1>9, <1>10, <1>11,
       <1>12, <1>13
    DEF Next, Promise!Next, Step, Reply, PrepareFails, DropFuture, Suspended

\* Everything a caller sees of the cache is what PreparedOnce promises.
THEOREM Refinement == Spec => PromiseKept
  BY PromiseInit, PromiseStep, IInvHolds, PTL
  DEF Spec, PromiseKept, Promise!Spec
=============================================================================
