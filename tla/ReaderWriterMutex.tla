--------------------------- MODULE ReaderWriterMutex ---------------------------
(***************************************************************************)
(* The futex-based ReaderWriterMutex of runtime/base/mutex.cc and          *)
(* mutex-inl.h, the kind of lock mutator_lock_ and heap_bitmap_lock_ are.  *)
(*                                                                         *)
(* state_ is -1 while a writer holds the lock and the number of readers    *)
(* otherwise.  It is also the futex word: a contender sleeps only while it *)
(* still has the value the contender loaded.  As in Mutex, a load and the  *)
(* compare-and-set that succeeds on it are one step, and every other       *)
(* access to shared state is a step of its own.                            *)
(***************************************************************************)
EXTENDS Integers, FiniteSets

CONSTANTS
    Thread,   \* the threads using the lock
    None      \* "no owner": exclusive_owner_ == 0

VARIABLES
    state,            \* state_
    num_contenders,   \* num_contenders_
    exclusive_owner,  \* exclusive_owner_
    futexq,           \* kernel queue of the futex on state_
    pc,               \* where each thread is
    mode,             \* per thread: which of the three lock calls it is in
    cur_state         \* per thread: the local cur_state

lockvars == <<state, num_contenders, exclusive_owner>>
vars == <<lockvars, futexq, pc, mode, cur_state>>

PC == {"out", "lock", "contend", "futex", "sleep", "uncontend", "timedout", "own",
       "exclusive", "shared", "unlock", "check", "wake"}
Mode == {"exclusive", "timed", "shared"}

Goto(t, l) == pc' = [pc EXCEPT ![t] = l]

\* cur_state lets a caller of this mode take the lock.
Admits(m, s) == IF m = "shared" THEN s >= 0 ELSE s = 0

Init ==
    /\ state = 0 /\ num_contenders = 0 /\ exclusive_owner = None
    /\ futexq = {}
    /\ pc = [t \in Thread |-> "out"]
    /\ mode = [t \in Thread |-> "exclusive"]
    /\ cur_state = [t \in Thread |-> 0]

------------------------------------------------------------------------------
(* ExclusiveLock, ExclusiveLockWithTimeout, SharedLock and SharedTryLock *)

\* A call of one of the three by a thread that does not hold the lock.
Call(t) ==
    /\ pc[t] = "out"
    /\ \E m \in Mode : mode' = [mode EXCEPT ![t] = m]
    /\ Goto(t, "lock")
    /\ UNCHANGED <<lockvars, futexq, cur_state>>

\* Mutant of ExclusiveCas: readers are not seen, only another writer is.
ExclusiveCas_IgnoresReaders(t) ==
    /\ pc[t] = "lock" /\ mode[t] # "shared"
    /\ state # -1
    /\ state' = -1
    /\ Goto(t, "own")
    /\ UNCHANGED <<num_contenders, exclusive_owner, futexq, mode, cur_state>>

\* The compare-and-set from 0 to -1.
ExclusiveCas(t) ==
    /\ pc[t] = "lock" /\ mode[t] # "shared"
    /\ state = 0
    /\ state' = -1
    /\ Goto(t, "own")
    /\ UNCHANGED <<num_contenders, exclusive_owner, futexq, mode, cur_state>>

SetOwner(t) ==
    /\ pc[t] = "own"
    /\ exclusive_owner' = t
    /\ Goto(t, "exclusive")
    /\ UNCHANGED <<state, num_contenders, futexq, mode, cur_state>>

\* The compare-and-set that adds a reader.
SharedCas(t) ==
    /\ pc[t] = "lock" /\ mode[t] = "shared"
    /\ state >= 0
    /\ state' = state + 1
    /\ Goto(t, "shared")
    /\ UNCHANGED <<num_contenders, exclusive_owner, futexq, mode, cur_state>>

\* SharedTryLock, when it succeeds.  When it returns false it changed nothing.
SharedTryLock(t) ==
    /\ pc[t] = "out"
    /\ state >= 0
    /\ state' = state + 1
    /\ mode' = [mode EXCEPT ![t] = "shared"]
    /\ Goto(t, "shared")
    /\ UNCHANGED <<num_contenders, exclusive_owner, futexq, cur_state>>

\* The load saw the lock taken and WaitBrieflyFor gave up.
SpinFailed(t) ==
    /\ pc[t] = "lock"
    /\ ~Admits(mode[t], state)
    /\ cur_state' = [cur_state EXCEPT ![t] = state]
    /\ Goto(t, "contend")
    /\ UNCHANGED <<lockvars, futexq, mode>>

\* ComputeRelativeTimeSpec finds the deadline passed: "return false".
TimedOutBeforeWait(t) ==
    /\ pc[t] = "lock" /\ mode[t] = "timed"
    /\ state # 0
    /\ Goto(t, "out")
    /\ UNCHANGED <<lockvars, futexq, mode, cur_state>>

\* num_contenders_.fetch_add(1).  The empty checkpoint a contender of an
\* expected_mutexes_on_weak_ref_access_ lock runs here changes nothing of the lock.
IncrementContenders(t) ==
    /\ pc[t] = "contend"
    /\ num_contenders' = num_contenders + 1
    /\ Goto(t, "futex")
    /\ UNCHANGED <<state, exclusive_owner, futexq, mode, cur_state>>

\* FUTEX_WAIT: sleep only while state_ is still cur_state, otherwise EAGAIN.
FutexWait(t) ==
    /\ pc[t] = "futex"
    /\ \/ /\ state = cur_state[t]
          /\ futexq' = futexq \cup {t}
          /\ Goto(t, "sleep")
       \/ /\ state # cur_state[t]
          /\ Goto(t, "uncontend")
          /\ UNCHANGED futexq
    /\ UNCHANGED <<lockvars, mode, cur_state>>

\* futex() returns: woken by another thread, or EINTR.
FutexReturn(t) ==
    /\ pc[t] = "sleep"
    /\ futexq' = futexq \ {t}
    /\ Goto(t, "uncontend")
    /\ UNCHANGED <<lockvars, mode, cur_state>>

\* futex() returns ETIMEDOUT.
FutexTimesOut(t) ==
    /\ pc[t] = "sleep" /\ mode[t] = "timed" /\ t \in futexq
    /\ futexq' = futexq \ {t}
    /\ Goto(t, "timedout")
    /\ UNCHANGED <<lockvars, mode, cur_state>>

\* num_contenders_.fetch_sub(1), then back to the loop, or "return false".
DecrementContenders(t) ==
    /\ pc[t] \in {"uncontend", "timedout"}
    /\ num_contenders' = num_contenders - 1
    /\ cur_state' = [cur_state EXCEPT ![t] = 0]
    /\ Goto(t, IF pc[t] = "uncontend" THEN "lock" ELSE "out")
    /\ UNCHANGED <<state, exclusive_owner, futexq, mode>>

------------------------------------------------------------------------------
(* ExclusiveUnlock and SharedUnlock *)

\* exclusive_owner_.store(0).
ExclusiveUnlock(t) ==
    /\ pc[t] = "exclusive"
    /\ exclusive_owner' = None
    /\ Goto(t, "unlock")
    /\ UNCHANGED <<state, num_contenders, futexq, mode, cur_state>>

\* The compare-and-set from -1 to 0.
UnlockCas(t) ==
    /\ pc[t] = "unlock"
    /\ state = -1
    /\ state' = 0
    /\ Goto(t, "check")
    /\ UNCHANGED <<num_contenders, exclusive_owner, futexq, mode, cur_state>>

\* Mutant of SharedUnlock: no reader ever looks for contenders.
SharedUnlock_NoWake(t) ==
    /\ pc[t] = "shared"
    /\ state > 0
    /\ state' = state - 1
    /\ Goto(t, "out")
    /\ UNCHANGED <<num_contenders, exclusive_owner, futexq, mode, cur_state>>

\* The compare-and-set that removes a reader; the last one looks for contenders.
SharedUnlock(t) ==
    /\ pc[t] = "shared"
    /\ state > 0
    /\ state' = state - 1
    /\ Goto(t, IF state = 1 THEN "check" ELSE "out")
    /\ UNCHANGED <<num_contenders, exclusive_owner, futexq, mode, cur_state>>

\* The load of num_contenders_ after the lock was given up.
CheckContenders(t) ==
    /\ pc[t] = "check"
    /\ Goto(t, IF num_contenders > 0 THEN "wake" ELSE "out")
    /\ UNCHANGED <<lockvars, futexq, mode, cur_state>>

\* FUTEX_WAKE with kWakeAll.
WakeAll(t) ==
    /\ pc[t] = "wake"
    /\ futexq' = {}
    /\ Goto(t, "out")
    /\ UNCHANGED <<lockvars, mode, cur_state>>

\* WakeupToRespondToEmptyCheckpoint, by the thread in RunEmptyCheckpoint.
WakeupToRespondToEmptyCheckpoint ==
    /\ num_contenders > 0 /\ futexq # {}
    /\ futexq' = {}
    /\ UNCHANGED <<lockvars, pc, mode, cur_state>>

------------------------------------------------------------------------------
Step(t) ==
    \/ ExclusiveCas(t) \/ SetOwner(t) \/ SharedCas(t)
    \/ SpinFailed(t) \/ IncrementContenders(t) \/ FutexWait(t) \/ DecrementContenders(t)
    \/ UnlockCas(t) \/ CheckContenders(t) \/ WakeAll(t)

Next ==
    \/ \E t \in Thread :
           \/ Call(t) \/ SharedTryLock(t) \/ Step(t)
           \/ FutexReturn(t) \/ TimedOutBeforeWait(t) \/ FutexTimesOut(t)
           \/ ExclusiveUnlock(t) \/ SharedUnlock(t)
    \/ WakeupToRespondToEmptyCheckpoint

Spec == Init /\ [][Next]_vars

------------------------------------------------------------------------------
(* Properties *)

Readers == {t \in Thread : pc[t] = "shared"}
Writers == {t \in Thread : pc[t] \in {"own", "exclusive", "unlock"}}

TypeOK ==
    /\ state \in Int /\ num_contenders \in Int
    /\ exclusive_owner \in Thread \cup {None}
    /\ futexq \subseteq Thread
    /\ pc \in [Thread -> PC]
    /\ mode \in [Thread -> Mode]
    /\ cur_state \in [Thread -> Int]

\* ReaderWriterMutex implements the abstract reader-writer lock: a writer excludes
\* readers and other writers, from the compare-and-set that takes the lock to the
\* one that gives it up.
Lock == INSTANCE ReaderWriterLock WITH readers <- Readers, writers <- Writers
ImplementsReaderWriterLock == Lock!Spec

\* No contender is left asleep: while one sleeps on the futex, either the lock is
\* in a state that keeps that contender out, or some thread that gave the lock up
\* has still to look at num_contenders_ or to issue the FUTEX_WAKE, and will find
\* the sleeper counted.  The readers' and the writers' conditions differ.
NoSleeperForgotten ==
    \A t \in futexq :
        \/ ~Admits(mode[t], state)
        \/ \E u \in Thread : pc[u] = "wake" \/ (pc[u] = "check" /\ num_contenders > 0)

==============================================================================
