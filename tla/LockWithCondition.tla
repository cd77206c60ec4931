--------------------------- MODULE LockWithCondition ---------------------------
(***************************************************************************)
(* What a Mutex with a ConditionVariable promises: at most one owner; a    *)
(* waiter gives up the lock and starts waiting in one step; a signal never *)
(* leaves every waiter waiting and a broadcast leaves none.  Waking up for *)
(* no reason (EINTR, timeout) is allowed, as the callers' loops expect.    *)
(***************************************************************************)
EXTENDS FiniteSets

CONSTANTS Thread, None

VARIABLES
    owner,     \* the thread that holds the lock, or None
    waiting    \* the threads waiting for a signal

vars == <<owner, waiting>>

Init == owner = None /\ waiting = {}

Acquire(t) ==
    /\ owner = None /\ t \notin waiting
    /\ owner' = t
    /\ UNCHANGED waiting

Release(t) ==
    /\ owner = t
    /\ owner' = None
    /\ UNCHANGED waiting

Wait(t) ==
    /\ owner = t
    /\ owner' = None
    /\ waiting' = waiting \cup {t}

\* At least one waiter stops waiting, if there is one.
Signal(t) ==
    /\ owner = t
    /\ waiting # {}
    /\ waiting' \in (SUBSET waiting) \ {waiting}
    /\ UNCHANGED owner

Broadcast(t) ==
    /\ owner = t
    /\ waiting' = {}
    /\ UNCHANGED owner

SpuriousWakeup(t) ==
    /\ t \in waiting
    /\ waiting' = waiting \ {t}
    /\ UNCHANGED owner

Next == \E t \in Thread :
    \/ Acquire(t) \/ Release(t) \/ Wait(t)
    \/ Signal(t) \/ Broadcast(t) \/ SpuriousWakeup(t)

Spec == Init /\ [][Next]_vars

==============================================================================
