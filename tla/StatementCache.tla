--------------------------- MODULE StatementCache ---------------------------
(***************************************************************************)
(* The prepared statement cache of src/src/io/async_psql/mod.rs: the fast  *)
(* (read-only) and slow (Mutex protected) lookup maps of Cache, and        *)
(* Context::prepared, called by several futures that share a Context.      *)
(*                                                                         *)
(* One action per stretch of prepared() between two points where another   *)
(* future or thread can get in: the await points, and the sections that    *)
(* hold the lock of the slow map.  The backend (an external PostgreSQL     *)
(* connection) answers or fails a prepare request at any later time; a     *)
(* future can be dropped at every await point, as try_join! does with the  *)
(* siblings of a failed future.                                            *)
(***************************************************************************)
EXTENDS Naturals

CONSTANTS
    Tasks,        \* futures that share one Context
    Keys,         \* statement texts
    Statements,   \* prepared statements the backend can hand out
    NoTask,       \* nobody holds the lock
    NoStatement,  \* no statement
    MaxLosses     \* bound: failed preparations and dropped futures in a run

ASSUME ConstantsAssumption ==
    /\ NoTask \notin Tasks
    /\ NoStatement \notin Statements
    /\ MaxLosses \in Nat

VARIABLES
    fast,      \* Cache::fast
    slow,      \* Cache::slow, the content of the Mutex
    mapLock,   \* who holds the Mutex of Cache::slow
    pc,        \* where in prepared() a task is
    key,       \* statement_str of the task's current or last call
    ticket,    \* the marker Mutex the task locked or waits for (0: none)
    stmt,      \* the statement received or returned
    prepares,  \* prepare requests sent per text; numbers the marker mutexes
    losses     \* failed preparations and dropped futures so far

vars == <<fast, slow, mapLock, pc, key, ticket, stmt, prepares, losses>>

Absent == [state |-> "absent"]
Awaiting(n) == [state |-> "awaiting", mutex |-> n]
Ready(s) == [state |-> "ready", stmt |-> s]

Entry ==
    {Absent}
        \cup [state : {"awaiting"}, mutex : Nat \ {0}]
        \cup [state : {"ready"}, stmt : Statements]

PCs == {"idle", "lookup", "lock_map", "at_map", "await_marker", "preparing",
        "lock_insert", "at_insert", "notify"}

\* Where a call holds the lock of its marker mutex, the guard `lock`.
Owning == {"preparing", "lock_insert", "at_insert", "notify"}

\* Where a call that has the turn has not stored its statement yet.
Filling == {"preparing", "lock_insert", "at_insert"}

\* The await points: a future dropped there runs no further line.
Suspended == {"lock_map", "await_marker", "preparing", "lock_insert"}

MarkerLocked(k, n) ==
    \E u \in Tasks : pc[u] \in Owning /\ key[u] = k /\ ticket[u] = n

-----------------------------------------------------------------------------
Init ==
    /\ fast = [k \in Keys |-> NoStatement]
    /\ slow = [k \in Keys |-> Absent]
    /\ mapLock = NoTask
    /\ pc = [t \in Tasks |-> "idle"]
    /\ key \in [Tasks -> Keys]
    /\ ticket = [t \in Tasks |-> 0]
    /\ stmt = [t \in Tasks |-> NoStatement]
    /\ prepares = [k \in Keys |-> 0]
    /\ losses = 0

\* A caller enters prepared(k).
Call(t, k) ==
    /\ pc[t] = "idle"
    /\ pc' = [pc EXCEPT ![t] = "lookup"]
    /\ key' = [key EXCEPT ![t] = k]
    /\ stmt' = [stmt EXCEPT ![t] = NoStatement]
    /\ UNCHANGED <<fast, slow, mapLock, ticket, prepares, losses>>

\* Mutant: the fast map is not consulted.
LookupFastNever(t) ==
    /\ pc[t] = "lookup"
    /\ pc' = [pc EXCEPT ![t] = "lock_map"]
    /\ UNCHANGED <<fast, slow, mapLock, key, ticket, stmt, prepares, losses>>

\* The fast map is read without a lock; a miss goes on to the slow map.
LookupFast(t) ==
    /\ pc[t] = "lookup"
    /\ \/ /\ fast[key[t]] # NoStatement
          /\ stmt' = [stmt EXCEPT ![t] = fast[key[t]]]
          /\ pc' = [pc EXCEPT ![t] = "idle"]
       \/ /\ fast[key[t]] = NoStatement
          /\ pc' = [pc EXCEPT ![t] = "lock_map"]
          /\ UNCHANGED stmt
    /\ UNCHANGED <<fast, slow, mapLock, key, ticket, prepares, losses>>

\* slow.lock().await completes, for the lookup and for the insertion.
AcquireMap(t) ==
    /\ pc[t] \in {"lock_map", "lock_insert"}
    /\ mapLock = NoTask
    /\ mapLock' = t
    /\ pc' = [pc EXCEPT ![t] = IF @ = "lock_map" THEN "at_map" ELSE "at_insert"]
    /\ UNCHANGED <<fast, slow, key, ticket, stmt, prepares, losses>>

\* An Awaiting marker: its mutex is cloned and the map released.
FindAwaiting(t) ==
    /\ pc[t] = "at_map"
    /\ slow[key[t]].state = "awaiting"
    /\ ticket' = [ticket EXCEPT ![t] = slow[key[t]].mutex]
    /\ mapLock' = NoTask
    /\ pc' = [pc EXCEPT ![t] = "await_marker"]
    /\ UNCHANGED <<fast, slow, key, stmt, prepares, losses>>

FindReady(t) ==
    /\ pc[t] = "at_map"
    /\ slow[key[t]].state = "ready"
    /\ stmt' = [stmt EXCEPT ![t] = slow[key[t]].stmt]
    /\ mapLock' = NoTask
    /\ pc' = [pc EXCEPT ![t] = "idle"]
    /\ UNCHANGED <<fast, slow, key, ticket, prepares, losses>>

\* Mutant: the marker is not stored.
FindMissingUnmarked(t) ==
    /\ pc[t] = "at_map"
    /\ slow[key[t]] = Absent
    /\ prepares' = [prepares EXCEPT ![key[t]] = @ + 1]
    /\ ticket' = [ticket EXCEPT ![t] = prepares[key[t]] + 1]
    /\ mapLock' = NoTask
    /\ pc' = [pc EXCEPT ![t] = "preparing"]
    /\ UNCHANGED <<fast, slow, key, stmt, losses>>

\* No entry: a new marker mutex is locked and stored, the map released and
\* the prepare request sent.
FindMissing(t) ==
    /\ pc[t] = "at_map"
    /\ slow[key[t]] = Absent
    /\ prepares' = [prepares EXCEPT ![key[t]] = @ + 1]
    /\ ticket' = [ticket EXCEPT ![t] = prepares[key[t]] + 1]
    /\ slow' = [slow EXCEPT ![key[t]] = Awaiting(prepares[key[t]] + 1)]
    /\ mapLock' = NoTask
    /\ pc' = [pc EXCEPT ![t] = "preparing"]
    /\ UNCHANGED <<fast, key, stmt, losses>>

\* Mutant: the call does not go back to the lookup.
MarkerReleasedStays(t) ==
    /\ pc[t] = "await_marker"
    /\ ~MarkerLocked(key[t], ticket[t])
    /\ UNCHANGED vars

\* The marker's lock is obtained, dropped at once, and the loop continues.
MarkerReleased(t) ==
    /\ pc[t] = "await_marker"
    /\ ~MarkerLocked(key[t], ticket[t])
    /\ ticket' = [ticket EXCEPT ![t] = 0]
    /\ pc' = [pc EXCEPT ![t] = "lookup"]
    /\ UNCHANGED <<fast, slow, mapLock, key, stmt, prepares, losses>>

\* Mutant: the answer is not kept.
PreparedUnkept(t, s) ==
    /\ pc[t] = "preparing"
    /\ pc' = [pc EXCEPT ![t] = "lock_insert"]
    /\ UNCHANGED <<fast, slow, mapLock, key, ticket, stmt, prepares, losses>>

\* The backend answers the prepare request.
Prepared(t, s) ==
    /\ pc[t] = "preparing"
    /\ stmt' = [stmt EXCEPT ![t] = s]
    /\ pc' = [pc EXCEPT ![t] = "lock_insert"]
    /\ UNCHANGED <<fast, slow, mapLock, key, ticket, prepares, losses>>

\* The statement is stored and the temporary guard of the map dropped.
Insert(t) ==
    /\ pc[t] = "at_insert"
    /\ slow' = [slow EXCEPT ![key[t]] = Ready(stmt[t])]
    /\ mapLock' = NoTask
    /\ pc' = [pc EXCEPT ![t] = "notify"]
    /\ UNCHANGED <<fast, key, ticket, stmt, prepares, losses>>

\* drop(lock) lets the waiting calls go on, and the statement is returned.
Notify(t) ==
    /\ pc[t] = "notify"
    /\ ticket' = [ticket EXCEPT ![t] = 0]
    /\ pc' = [pc EXCEPT ![t] = "idle"]
    /\ UNCHANGED <<fast, slow, mapLock, key, stmt, prepares, losses>>

\* A call that ends without a statement drops its locks; the marker it may
\* have stored stays in the slow map.
Lose(t) ==
    /\ losses < MaxLosses
    /\ losses' = losses + 1
    /\ ticket' = [ticket EXCEPT ![t] = 0]
    /\ stmt' = [stmt EXCEPT ![t] = NoStatement]
    /\ pc' = [pc EXCEPT ![t] = "idle"]
    /\ UNCHANGED <<fast, slow, mapLock, key, prepares>>

\* prepare() fails: `?` returns from prepared() before anything is stored.
PrepareFails(t) ==
    /\ pc[t] = "preparing"
    /\ Lose(t)

\* The future is dropped at the await point it is suspended at.
DropFuture(t) ==
    /\ pc[t] \in Suspended
    /\ Lose(t)

\* Mutant: the slow map is copied, not drained.
OptimizeCopies ==
    /\ \A t \in Tasks : pc[t] = "idle"
    /\ fast' = [k \in Keys |->
                    IF slow[k].state = "ready" THEN slow[k].stmt ELSE fast[k]]
    /\ UNCHANGED <<slow, mapLock, pc, key, ticket, stmt, prepares, losses>>

\* Mutant: the fast map is replaced, not extended.
OptimizeReplaces ==
    /\ \A t \in Tasks : pc[t] = "idle"
    /\ fast' = [k \in Keys |->
                    IF slow[k].state = "ready" THEN slow[k].stmt ELSE NoStatement]
    /\ slow' = [k \in Keys |-> Absent]
    /\ UNCHANGED <<mapLock, pc, key, ticket, stmt, prepares, losses>>

\* Cache::optimize has &mut self, so no call is under way.
Optimize ==
    /\ \A t \in Tasks : pc[t] = "idle"
    /\ fast' = [k \in Keys |->
                    IF slow[k].state = "ready" THEN slow[k].stmt ELSE fast[k]]
    /\ slow' = [k \in Keys |-> Absent]
    /\ UNCHANGED <<mapLock, pc, key, ticket, stmt, prepares, losses>>

\* What a task does by itself once it is polled.
Step(t) ==
    \/ LookupFast(t)
    \/ AcquireMap(t)
    \/ FindAwaiting(t)
    \/ FindReady(t)
    \/ FindMissing(t)
    \/ MarkerReleased(t)
    \/ Insert(t)
    \/ Notify(t)

Reply(t) ==
    \/ \E s \in Statements : Prepared(t, s)
    \/ PrepareFails(t)

Next ==
    \/ \E t \in Tasks :
        \/ \E k \in Keys : Call(t, k)
        \/ Step(t)
        \/ Reply(t)
        \/ DropFuture(t)
    \/ Optimize

Spec == Init /\ [][Next]_vars

InCall(t) == pc[t] # "idle"

\* A marker nobody will ever replace: the call that stored it is gone.
Abandoned(k) ==
    /\ slow[k].state = "awaiting"
    /\ ~MarkerLocked(k, slow[k].mutex)

\* Some call goes round at an abandoned marker.  It finds every lock free, so
\* it never returns Pending, and the futures that share its thread are not
\* polled again; on another thread it takes the lock of the map again and again.
Looping == \E t \in Tasks : InCall(t) /\ Abandoned(key[t])

\* As long as no call loops, every future that can go on is polled and the
\* backend answers every request.  Weak fairness only: the Mutex of the futures
\* crate gives a lock to whichever call asks first when it is free.
Fairness ==
    \A t \in Tasks :
        /\ WF_vars(~Looping /\ Step(t))
        /\ WF_vars(~Looping /\ Reply(t))

FairSpec == Spec /\ Fairness

\* More than the code can count on: every future gets on whatever the others
\* do, and a call gets a lock that is free again and again.
FairestSpec ==
    /\ Spec
    /\ \A t \in Tasks : SF_vars(Step(t)) /\ WF_vars(Reply(t))

-----------------------------------------------------------------------------
(* Properties *)

\* Every variable holds a value of its type; in particular every Ready entry
\* holds a statement the backend handed out.
TypeOK ==
    /\ fast \in [Keys -> Statements \cup {NoStatement}]
    /\ slow \in [Keys -> Entry]
    /\ mapLock \in Tasks \cup {NoTask}
    /\ pc \in [Tasks -> PCs]
    /\ key \in [Tasks -> Keys]
    /\ ticket \in [Tasks -> Nat]
    /\ stmt \in [Tasks -> Statements \cup {NoStatement}]
    /\ prepares \in [Keys -> Nat]
    /\ losses \in 0 .. MaxLosses

\* The statement a text is settled to, in whichever map it is.
Stored(k) ==
    IF fast[k] # NoStatement THEN fast[k]
    ELSE IF slow[k].state = "ready" THEN slow[k].stmt
    ELSE NoStatement

\* Two calls never prepare one text at the same time: the Awaiting marker
\* "will not issue further prepare requests", whatever was dropped or failed.
OnePreparationAtATime ==
    \A t, u \in Tasks :
        pc[t] \in Filling /\ pc[u] \in Filling /\ key[t] = key[u] => t = u

\* A statement that was handed out is the one the cache holds, so any two
\* calls for one text were answered with one statement, before and after any
\* number of optimisations.
AnswersAreStored ==
    \A t \in Tasks :
        pc[t] = "idle" /\ stmt[t] # NoStatement => stmt[t] = Stored(key[t])

\* No text is in both maps, so optimize (fast.extend) never overwrites the
\* statement of the fast map.
MapsAreDisjoint ==
    \A k \in Keys : fast[k] # NoStatement => slow[k] = Absent

\* Once settled, a text is never settled to another statement and never
\* forgotten: not by a late insertion, not by optimize.
StoredForever ==
    [][\A k \in Keys : Stored(k) # NoStatement => Stored(k)' = Stored(k)]_vars

\* No request is sent to the backend for a text that has its statement.
NoRequestForStored ==
    [][\A k \in Keys : Stored(k) # NoStatement => prepares'[k] = prepares[k]]_vars

\* No call enters any more: the callers have asked for all they will ask for,
\* as one join! or try_join_all has after a while.
CallsCease == <>[][~\E t \in Tasks, k \in Keys : Call(t, k)]_vars

\* Each of finitely many calls ends, unless some call goes round at a marker
\* that a lost call left behind: nothing else keeps a call of prepared() from
\* ending, neither the order of the two kinds of locks nor a dropped sibling.
CallsEndUnlessLooping ==
    CallsCease => \A t \in Tasks : InCall(t) ~> ~InCall(t) \/ Looping

\* Each call ends: an Awaiting marker that was waited for "should now result
\* in StatementState::Ready(_)".
CallsEnd == \A t \in Tasks : InCall(t) ~> ~InCall(t)

-----------------------------------------------------------------------------
\* The task that prepares k.
TurnOf(k) ==
    IF \E t \in Tasks : pc[t] \in Filling /\ key[t] = k
    THEN CHOOSE t \in Tasks : pc[t] \in Filling /\ key[t] = k
    ELSE NoTask

Promise ==
    INSTANCE PreparedOnce WITH
        store  <- [k \in Keys |-> Stored(k)],
        turn   <- [k \in Keys |-> TurnOf(k)],
        asking <- [t \in Tasks |-> InCall(t)],
        answer <- [t \in Tasks |-> IF InCall(t) THEN NoStatement ELSE stmt[t]]

\* The cache keeps the promise of PreparedOnce.
PromiseKept == Promise!Spec
=============================================================================
