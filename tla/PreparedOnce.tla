---------------------------- MODULE PreparedOnce ----------------------------
(***************************************************************************)
(* What Context::prepared promises to its callers, without its maps and    *)
(* locks: a statement text is prepared by one call at a time, the          *)
(* statement it is prepared to is settled once, and every call that is     *)
(* answered is answered with the settled statement.  A call may also be    *)
(* given up (its preparation failed, or the future was dropped).           *)
(***************************************************************************)
CONSTANTS
    Tasks,        \* concurrent callers of prepared()
    Keys,         \* statement texts
    Statements,   \* prepared statements the backend can hand out
    NoTask,
    NoStatement

VARIABLES
    store,    \* the settled statement of a text, NoStatement before
    turn,     \* the call that is preparing the text, or NoTask
    asking,   \* whether the task is inside a call
    key,      \* the text of the task's current or last call
    answer    \* what the task's last call returned; NoStatement for none

vars == <<store, turn, asking, key, answer>>

Init ==
    /\ store = [k \in Keys |-> NoStatement]
    /\ turn = [k \in Keys |-> NoTask]
    /\ asking = [t \in Tasks |-> FALSE]
    /\ key \in [Tasks -> Keys]
    /\ answer = [t \in Tasks |-> NoStatement]

Ask(t, k) ==
    /\ ~asking[t]
    /\ asking' = [asking EXCEPT ![t] = TRUE]
    /\ key' = [key EXCEPT ![t] = k]
    /\ answer' = [answer EXCEPT ![t] = NoStatement]
    /\ UNCHANGED <<store, turn>>

\* A text is prepared only while it has no statement and nobody prepares it.
TakeTurn(t) ==
    /\ asking[t]
    /\ store[key[t]] = NoStatement
    /\ turn[key[t]] = NoTask
    /\ turn' = [turn EXCEPT ![key[t]] = t]
    /\ UNCHANGED <<store, asking, key, answer>>

Settle(t) ==
    /\ asking[t]
    /\ turn[key[t]] = t
    /\ turn' = [turn EXCEPT ![key[t]] = NoTask]
    /\ \E s \in Statements : store' = [store EXCEPT ![key[t]] = s]
    /\ UNCHANGED <<asking, key, answer>>

Answer(t) ==
    /\ asking[t]
    /\ store[key[t]] # NoStatement
    /\ asking' = [asking EXCEPT ![t] = FALSE]
    /\ answer' = [answer EXCEPT ![t] = store[key[t]]]
    /\ UNCHANGED <<store, turn, key>>

GiveUp(t) ==
    /\ asking[t]
    /\ asking' = [asking EXCEPT ![t] = FALSE]
    /\ turn' = [turn EXCEPT ![key[t]] = IF @ = t THEN NoTask ELSE @]
    /\ UNCHANGED <<store, key, answer>>

Next ==
    \E t \in Tasks :
        \/ \E k \in Keys : Ask(t, k)
        \/ TakeTurn(t)
        \/ Settle(t)
        \/ Answer(t)
        \/ GiveUp(t)

Spec == Init /\ [][Next]_vars
=============================================================================
