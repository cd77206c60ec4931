-------------------------------- MODULE Mutex --------------------------------
(***************************************************************************)
(* The futex-based Mutex of runtime/base/mutex.cc together with one        *)
(* ConditionVariable whose guard_ it is.                                   *)
(*                                                                         *)
(* state_and_contenders_ is one 32-bit word: bit 0 says "held", the rest   *)
(* counts contenders.  It is the pair <<held, contenders>> here; a futex   *)
(* wait or a compare-and-set compares the pair.  A compare-and-set whose   *)
(* expected value is stale (or that fails spuriously) loops back to the    *)
(* load it came from, so the load and the successful compare-and-set are   *)
(* one step.  Every other access to shared state is a step of its own.  A  *)
(* local variable goes back to 0 where it leaves its scope.                *)
(***************************************************************************)
EXTENDS Threads, Integers, FiniteSets

CONSTANTS
    Recursive,      \* recursive_
    MaxRecursion,   \* bound on the nesting of recursive locking
    MaxSignals,     \* bound on sequence_: how often the waiters are signalled
    FutexRequeues   \* FALSE: the Windows futex(), where REQUEUE wakes all

ASSUME BoundAssumption == MaxRecursion \in Nat /\ MaxSignals \in Nat
ASSUME FlagAssumption == Recursive \in BOOLEAN /\ FutexRequeues \in BOOLEAN

VARIABLES
    held,            \* bit 0 of state_and_contenders_
    contenders,      \* the other bits of state_and_contenders_
    exclusive_owner,
    recursion_count,
    sequence,        \* ConditionVariable::sequence_
    num_waiters,     \* ConditionVariable::num_waiters_
    mutexq,          \* kernel queue of the futex on state_and_contenders_
    cvq,             \* kernel queue of the futex on sequence_
    pc,              \* where each thread is
    in_wait,         \* the threads inside ConditionVariable::Wait
    cur_state,       \* per thread: contenders half of the local cur_state
    cur_sequence,    \* per thread: the local cur_sequence
    old_recursion    \* per thread: the local old_recursion_count

lockvars == <<held, contenders, exclusive_owner, recursion_count>>
cvvars == <<sequence, num_waiters>>
queues == <<mutexq, cvq>>
locals == <<cur_state, cur_sequence, old_recursion>>
vars == <<lockvars, cvvars, queues, pc, in_wait, locals>>

PC == {"out", "lock", "contend", "futex", "sleep", "reload", "uncontend", "own",
       "cs", "unlock", "wake", "cvfutex", "cvsleep", "cvreturn"}

\* A thread asleep in futex() that the kernel has taken off both queues.
Woken(t) == pc[t] \in {"sleep", "cvsleep"} /\ t \notin mutexq /\ t \notin cvq

Goto(t, l) == pc' = [pc EXCEPT ![t] = l]

Init ==
    /\ held = 0 /\ contenders = 0
    /\ exclusive_owner = None /\ recursion_count = 0
    /\ sequence = 0 /\ num_waiters = 0
    /\ mutexq = {} /\ cvq = {}
    /\ pc = [t \in Thread |-> "out"]
    /\ in_wait = {}
    /\ cur_state = [t \in Thread |-> 0]
    /\ cur_sequence = [t \in Thread |-> 0]
    /\ old_recursion = [t \in Thread |-> 0]

------------------------------------------------------------------------------
(* Mutex::ExclusiveLock *)

\* A thread that does not hold the mutex goes on to take it.
FirstLock(t) ==
    /\ pc[t] = "out"
    /\ Goto(t, "lock")
    /\ UNCHANGED <<lockvars, cvvars, queues, in_wait, locals>>

\* A recursive call by the owner only counts.
RecursiveLock(t) ==
    /\ pc[t] = "cs" /\ Recursive
    /\ recursion_count < MaxRecursion
    /\ recursion_count' = recursion_count + 1
    /\ UNCHANGED <<held, contenders, exclusive_owner, cvvars, queues, pc, in_wait, locals>>

ExclusiveLock(t) == IF pc[t] = "cs" THEN RecursiveLock(t) ELSE FirstLock(t)

\* The compare-and-set that takes the lock.
LockCas(t) ==
    /\ pc[t] = "lock"
    /\ held = 0
    /\ held' = 1
    /\ Goto(t, "own")
    /\ UNCHANGED <<contenders, exclusive_owner, recursion_count, cvvars, queues, in_wait, locals>>

\* ExclusiveTryLock and ExclusiveTryLockWithSpinning, when they succeed.  When
\* they return false they have changed nothing.
TryLock(t) ==
    /\ pc[t] = "out"
    /\ held = 0
    /\ held' = 1
    /\ Goto(t, "own")
    /\ UNCHANGED <<contenders, exclusive_owner, recursion_count, cvvars, queues, in_wait, locals>>

\* The load saw the lock held and WaitBrieflyFor gave up.
SpinFailed(t) ==
    /\ pc[t] = "lock"
    /\ held = 1
    /\ cur_state' = [cur_state EXCEPT ![t] = contenders]
    /\ Goto(t, "contend")
    /\ UNCHANGED <<lockvars, cvvars, queues, in_wait, cur_sequence, old_recursion>>

IncrementContenders(t) ==
    /\ pc[t] = "contend"
    /\ contenders' = contenders + 1
    /\ cur_state' = [cur_state EXCEPT ![t] = @ + 1]
    /\ Goto(t, "futex")
    /\ UNCHANGED <<held, exclusive_owner, recursion_count, cvvars, queues, in_wait, cur_sequence,
                   old_recursion>>

\* FUTEX_WAIT: sleep only while the word is still "held" with the contenders
\* the thread last saw, otherwise EAGAIN.
FutexWait(t) ==
    /\ pc[t] = "futex"
    /\ \/ /\ held = 1 /\ contenders = cur_state[t]
          /\ mutexq' = mutexq \cup {t}
          /\ Goto(t, "sleep")
       \/ /\ ~(held = 1 /\ contenders = cur_state[t])
          /\ Goto(t, "reload")
          /\ UNCHANGED mutexq
    /\ UNCHANGED <<lockvars, cvvars, cvq, in_wait, locals>>

\* Return from the futex wait after a wake-up.
FutexReturn(t) ==
    /\ pc[t] = "sleep" /\ Woken(t)
    /\ Goto(t, "reload")
    /\ UNCHANGED <<lockvars, cvvars, queues, in_wait, locals>>

\* EINTR, or ETIMEDOUT when monitor timeouts are enabled.
FutexInterrupted(t) ==
    /\ pc[t] = "sleep" /\ t \in mutexq
    /\ mutexq' = mutexq \ {t}
    /\ Goto(t, "reload")
    /\ UNCHANGED <<lockvars, cvvars, cvq, in_wait, locals>>

\* do ... while ((cur_state & kHeldMask) != 0)
Reload(t) ==
    /\ pc[t] = "reload"
    /\ cur_state' = [cur_state EXCEPT ![t] = contenders]
    /\ Goto(t, IF held = 1 THEN "futex" ELSE "uncontend")
    /\ UNCHANGED <<lockvars, cvvars, queues, in_wait, cur_sequence, old_recursion>>

DecrementContenders(t) ==
    /\ pc[t] = "uncontend"
    /\ contenders' = contenders - 1
    /\ cur_state' = [cur_state EXCEPT ![t] = 0]
    /\ Goto(t, "lock")
    /\ UNCHANGED <<held, exclusive_owner, recursion_count, cvvars, queues, in_wait, cur_sequence,
                   old_recursion>>

\* After the compare-and-set: record the owner.
SetOwner(t) ==
    /\ pc[t] = "own"
    /\ exclusive_owner' = t
    /\ recursion_count' = recursion_count + 1
    /\ Goto(t, IF t \in in_wait THEN "cvreturn" ELSE "cs")
    /\ UNCHANGED <<held, contenders, cvvars, queues, in_wait, locals>>

------------------------------------------------------------------------------
(* Mutex::ExclusiveUnlock and WakeupToRespondToEmptyCheckpoint *)

ExclusiveUnlock(t) ==
    /\ pc[t] = "cs"
    /\ recursion_count' = recursion_count - 1
    /\ IF ~Recursive \/ recursion_count' = 0
       THEN exclusive_owner' = None /\ Goto(t, "unlock")
       ELSE UNCHANGED <<exclusive_owner, pc>>
    /\ UNCHANGED <<held, contenders, cvvars, queues, in_wait, locals>>

\* ExclusiveUnlock returns to its caller, which is WaitHoldingLocks for a waiting thread.
AfterUnlock(t) == IF t \in in_wait THEN "cvfutex" ELSE "out"

\* The compare-and-set that releases the lock; new_state != 0 asks for a wake.
UnlockCas(t) ==
    /\ pc[t] = "unlock"
    /\ held' = 0
    /\ Goto(t, IF contenders # 0 THEN "wake" ELSE AfterUnlock(t))
    /\ UNCHANGED <<contenders, exclusive_owner, recursion_count, cvvars, queues, in_wait, locals>>

\* Mutant of UnlockWake: the futex wake is forgotten.
UnlockWake_Forgotten(t) ==
    /\ pc[t] = "wake"
    /\ Goto(t, AfterUnlock(t))
    /\ UNCHANGED <<lockvars, cvvars, queues, in_wait, locals>>

\* FUTEX_WAKE of one thread.
UnlockWake(t) ==
    /\ pc[t] = "wake"
    /\ \/ mutexq = {} /\ UNCHANGED mutexq
       \/ \E w \in mutexq : mutexq' = mutexq \ {w}
    /\ Goto(t, AfterUnlock(t))
    /\ UNCHANGED <<lockvars, cvvars, cvq, in_wait, locals>>

\* A thread that runs an empty checkpoint wakes all the sleepers of the mutex.
WakeupToRespondToEmptyCheckpoint ==
    /\ contenders # 0 /\ mutexq # {}
    /\ mutexq' = {}
    /\ UNCHANGED <<lockvars, cvvars, cvq, pc, in_wait, locals>>

------------------------------------------------------------------------------
(* ConditionVariable *)

\* Mutant of Wait: does not make the guard contended.
Wait_Uncontended(t) ==
    /\ pc[t] = "cs"
    /\ old_recursion' = [old_recursion EXCEPT ![t] = recursion_count]
    /\ num_waiters' = num_waiters + 1
    /\ cur_sequence' = [cur_sequence EXCEPT ![t] = sequence]
    /\ recursion_count' = 0
    /\ exclusive_owner' = None
    /\ in_wait' = in_wait \cup {t}
    /\ Goto(t, "unlock")
    /\ UNCHANGED <<held, contenders, sequence, queues, cur_state>>

\* Mutant of Wait: does not set the guard's recursion count to 1 first.
Wait_KeepsDepth(t) ==
    /\ pc[t] = "cs"
    /\ old_recursion' = [old_recursion EXCEPT ![t] = recursion_count]
    /\ num_waiters' = num_waiters + 1
    /\ contenders' = contenders + 1
    /\ cur_sequence' = [cur_sequence EXCEPT ![t] = sequence]
    /\ recursion_count' = recursion_count - 1
    /\ exclusive_owner' = None
    /\ in_wait' = in_wait \cup {t}
    /\ Goto(t, "unlock")
    /\ UNCHANGED <<held, sequence, queues, cur_state>>

\* Wait, WaitHoldingLocks and TimedWait up to and including the first half of
\* guard_.ExclusiveUnlock.
Wait(t) ==
    /\ pc[t] = "cs"
    /\ old_recursion' = [old_recursion EXCEPT ![t] = recursion_count]
    /\ num_waiters' = num_waiters + 1
    /\ contenders' = contenders + 1
    /\ cur_sequence' = [cur_sequence EXCEPT ![t] = sequence]
    /\ recursion_count' = 0
    /\ exclusive_owner' = None
    /\ in_wait' = in_wait \cup {t}
    /\ Goto(t, "unlock")
    /\ UNCHANGED <<held, sequence, queues, cur_state>>

\* Mutant of CvFutexWait: sleeps without comparing the sequence number.
CvFutexWait_NoCompare(t) ==
    /\ pc[t] = "cvfutex"
    /\ cvq' = cvq \cup {t}
    /\ Goto(t, "cvsleep")
    /\ UNCHANGED <<lockvars, cvvars, mutexq, in_wait, locals>>

\* FUTEX_WAIT on sequence_: a signal since the unlock makes it return EAGAIN.
CvFutexWait(t) ==
    /\ pc[t] = "cvfutex"
    /\ \/ /\ cur_sequence[t] = sequence
          /\ cvq' = cvq \cup {t}
          /\ Goto(t, "cvsleep")
       \/ /\ cur_sequence[t] # sequence
          /\ Goto(t, "lock")
          /\ UNCHANGED cvq
    /\ UNCHANGED <<lockvars, cvvars, mutexq, in_wait, locals>>

CvFutexReturn(t) ==
    /\ pc[t] = "cvsleep" /\ Woken(t)
    /\ Goto(t, "lock")
    /\ UNCHANGED <<lockvars, cvvars, queues, in_wait, locals>>

\* EINTR, or ETIMEDOUT of a TimedWait, on whichever queue the thread now is.
CvFutexInterrupted(t) ==
    /\ pc[t] = "cvsleep" /\ ~Woken(t)
    /\ mutexq' = mutexq \ {t}
    /\ cvq' = cvq \ {t}
    /\ Goto(t, "lock")
    /\ UNCHANGED <<lockvars, cvvars, in_wait, locals>>

\* Mutant of WaitReturn: the guard stays contended.
WaitReturn_StaysContended(t) ==
    /\ pc[t] = "cvreturn"
    /\ num_waiters' = num_waiters - 1
    /\ recursion_count' = old_recursion[t]
    /\ in_wait' = in_wait \ {t}
    /\ cur_sequence' = [cur_sequence EXCEPT ![t] = 0]
    /\ old_recursion' = [old_recursion EXCEPT ![t] = 0]
    /\ Goto(t, "cs")
    /\ UNCHANGED <<held, contenders, exclusive_owner, sequence, queues, cur_state>>

\* The end of Wait, after guard_.ExclusiveLock.
WaitReturn(t) ==
    /\ pc[t] = "cvreturn"
    /\ num_waiters' = num_waiters - 1
    /\ contenders' = contenders - 1
    /\ recursion_count' = old_recursion[t]
    /\ in_wait' = in_wait \ {t}
    /\ cur_sequence' = [cur_sequence EXCEPT ![t] = 0]
    /\ old_recursion' = [old_recursion EXCEPT ![t] = 0]
    /\ Goto(t, "cs")
    /\ UNCHANGED <<held, exclusive_owner, sequence, queues, cur_state>>

\* FUTEX_REQUEUE of the threads S; the Windows futex() wakes everyone instead.
Requeue(S) ==
    IF FutexRequeues
    THEN cvq' = cvq \ S /\ mutexq' = mutexq \cup S
    ELSE cvq' = {} /\ mutexq' = {}

\* Mutant of RequeueWaiters: the sequence number is not bumped.
RequeueWaiters_SameSequence(t, S) ==
    /\ pc[t] = "cs"
    /\ num_waiters > 0
    /\ Requeue(S)
    /\ UNCHANGED <<lockvars, sequence, num_waiters, pc, in_wait, locals>>

\* RequeueWaiters; the callers hold the guard.
RequeueWaiters(t, S) ==
    /\ pc[t] = "cs"
    /\ num_waiters > 0
    /\ sequence < MaxSignals
    /\ sequence' = sequence + 1
    /\ Requeue(S)
    /\ UNCHANGED <<lockvars, num_waiters, pc, in_wait, locals>>

Signal(t) ==
    \/ cvq = {} /\ RequeueWaiters(t, {})
    \/ \E w \in cvq : RequeueWaiters(t, {w})

Broadcast(t) == RequeueWaiters(t, cvq)

------------------------------------------------------------------------------
LockStep(t) ==
    \/ LockCas(t) \/ SpinFailed(t) \/ IncrementContenders(t) \/ FutexWait(t)
    \/ FutexReturn(t) \/ Reload(t) \/ DecrementContenders(t) \/ SetOwner(t)

UnlockStep(t) == UnlockCas(t) \/ UnlockWake(t)

WaitStep(t) == CvFutexWait(t) \/ CvFutexReturn(t) \/ WaitReturn(t)

Call(t) ==
    \/ ExclusiveLock(t) \/ TryLock(t) \/ Wait(t)
    \/ Signal(t) \/ Broadcast(t)

Interrupt(t) == FutexInterrupted(t) \/ CvFutexInterrupted(t)

Next ==
    \/ \E t \in Thread :
          LockStep(t) \/ UnlockStep(t) \/ WaitStep(t)
          \/ Call(t) \/ ExclusiveUnlock(t) \/ Interrupt(t)
    \/ WakeupToRespondToEmptyCheckpoint

Spec == Init /\ [][Next]_vars

\* A thread inside an operation keeps being scheduled, and a critical section
\* ends.  Nothing is assumed of new calls, signals, interrupts or timeouts.
Fairness ==
    \A t \in Thread :
        WF_vars(LockStep(t) \/ UnlockStep(t) \/ WaitStep(t) \/ ExclusiveUnlock(t))

FairSpec == Spec /\ Fairness

------------------------------------------------------------------------------
(* Properties *)

\* Every variable keeps the type of the field of mutex.h, or of the local of mutex.cc, that
\* it stands for.
TypeOK ==
    /\ held \in {0, 1} /\ contenders \in Int
    /\ exclusive_owner \in Thread \cup {None} /\ recursion_count \in Int
    /\ sequence \in Nat /\ num_waiters \in Int
    /\ mutexq \subseteq Thread /\ cvq \subseteq Thread
    /\ pc \in [Thread -> PC]
    /\ in_wait \subseteq Thread
    /\ cur_state \in [Thread -> Int]
    /\ cur_sequence \in [Thread -> Nat]
    /\ old_recursion \in [Thread -> Int]

\* The threads between the compare-and-set that takes the lock and the one that
\* releases it.
Holders == {t \in Thread : pc[t] \in {"own", "cs", "unlock", "cvreturn"}}

\* The lock word says "held" exactly when some thread holds the mutex, two never
\* do, and exclusive_owner_ is the holder's from SetOwner to ExclusiveUnlock and
\* 0 elsewhere: the DCHECKs on GetExclusiveOwnerTid of mutex.cc cannot fail.
MutualExclusion ==
    /\ \A t \in Holders : Holders = {t}
    /\ held = 1 <=> Holders # {}
    /\ \A t \in Thread : exclusive_owner = t <=> pc[t] \in {"cs", "cvreturn"}

\* Threads counted once by ExclusiveLock, and once by Wait.
LockContenders == {t \in Thread : pc[t] \in {"futex", "sleep", "reload", "uncontend"}}

\* The contender count is exact: each thread is counted for the futex wait in
\* ExclusiveLock and again for its wait on the condition variable, so it never
\* underflows and an unlock that reads 0 contenders has nobody to wake.
ContendersExact ==
    /\ contenders = Cardinality(LockContenders) + Cardinality(in_wait)
    /\ num_waiters = Cardinality(in_wait)

\* The threads that are awake and will take the lock or wake another thread.
Awake == {t \in Thread :
            \/ pc[t] \in {"lock", "contend", "futex", "reload", "uncontend", "wake"}
            \/ Woken(t)}

\* No wake-up is lost: when the mutex is free and some thread sleeps on it
\* (because it blocked in ExclusiveLock, or because RequeueWaiters moved it
\* there), another thread is awake that will lock it or wake a sleeper.
NoLostWakeup == held = 0 /\ mutexq # {} => Awake # {}

\* A recursive Wait gives the lock up completely and restores the nesting depth:
\* the depth is positive exactly while a thread has the lock, and a waiter
\* remembers a positive one.
RecursionRestored ==
    /\ recursion_count > 0 <=> exclusive_owner # None
    /\ recursion_count >= 0
    /\ \A t \in in_wait : old_recursion[t] > 0

\* The abstract owner, and the threads still waiting for a signal, as the callers
\* see them.
Owner == IF Holders = {} THEN None ELSE CHOOSE t \in Holders : TRUE

Waiting == {t \in in_wait :
              \/ pc[t] \in {"wake", "cvfutex"} /\ cur_sequence[t] = sequence
              \/ t \in cvq}

Abstract == INSTANCE LockWithCondition WITH owner <- Owner, waiting <- Waiting

\* The futex protocol implements the abstract lock with a condition variable: a
\* thread starts to wait in the step that releases the lock, and once signalled
\* it does not go back to sleep without another call of Wait.
ImplementsLock == Abstract!Spec

\* A Signal reaches a waiter and a Broadcast reaches all, also the ones between
\* their unlock and their futex wait, which are not on the kernel queue yet.
SignalReaches ==
    [][\A t \in Thread :
          /\ Signal(t) /\ Waiting # {} => Waiting' # Waiting
          /\ Broadcast(t) => Waiting' = {}]_vars

\* A free mutex that some thread sleeps on, blocked in ExclusiveLock or requeued
\* by a signal, is taken again: by that thread or by another that got there
\* first, which then has a sleeper to wake when it unlocks.
EventuallyTaken == (mutexq # {}) ~> (held = 1)

==============================================================================
