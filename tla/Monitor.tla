-------------------------------- MODULE Monitor --------------------------------
(***************************************************************************)
(* The monitor of one Java object: runtime/monitor.cc with the lock word   *)
(* (runtime/lock_word.h), the identity hash code (runtime/mirror/          *)
(* object.cc) and Thread::Interrupt.  Threads enter, leave, wait, notify   *)
(* and ask for the hash code; the lock word is thin until the lock is      *)
(* contended, waited on, too deep, or needed together with a hash code.    *)
(* Then it is inflated: by its owner, or by a contender that suspends the  *)
(* owner for it.  The collector deflates it while all threads are          *)
(* suspended.                                                              *)
(*                                                                         *)
(* A thread may be suspended between any two steps except where its pc is  *)
(* in RunnablePc.  Suspension itself is ThreadSuspension's, monitor_lock_  *)
(* Mutex's: here a thread is suspended, or takes the lock, in one step.    *)
(* An operation that throws IllegalMonitorStateException changes nothing   *)
(* and is left out.                                                        *)
(***************************************************************************)
EXTENDS Integers, Sequences, FiniteSets

CONSTANTS
    Thread,
    None,      \* no thread
    Hash,      \* the identity hash codes that may be generated, not 0
    MaxCount,  \* kThinLockMaxCount
    MaxHeld    \* bound on how often a thread enters

ThreadAssumption == IsFiniteSet(Thread) /\ None \notin Thread
BoundAssumption == Hash \subseteq Nat \ {0} /\ MaxCount \in Nat /\ MaxHeld \in Nat

VARIABLES
    lock_word,
    \* The Monitor, if lock_word is fat.
    monitor_lock, owner, lock_count, num_waiters, wait_set, wake_set, hash_code,
    \* Per thread.
    pc, todo,        \* where it is, and in which operation
    target,          \* whose lock it inflates
    new_hash,        \* the hash code for the monitor it makes
    suspended_by,    \* the threads that have suspended it
    prev_lock_count,
    wait_monitor,    \* does wait_monitor_ point to the monitor?
    interrupted,
    held,            \* history: how often it has entered and not left
    hashes           \* history: the hash codes that have been returned

monitor == <<monitor_lock, owner, lock_count, num_waiters, wait_set, wake_set, hash_code>>
inflation == <<target, new_hash, suspended_by>>
waiting == <<prev_lock_count, wait_monitor, interrupted>>
history == <<held, hashes>>
vars == <<lock_word, monitor, pc, todo, inflation, waiting, history>>

Op == {"enter", "exit", "hash", "wait", "relock"}

Unlocked == [state |-> "unlocked"]
Fat == [state |-> "fat"]
Thin(t, n) == [state |-> "thin", owner |-> t, count |-> n]
HashWord(h) == [state |-> "hash", hash |-> h]

ThinBy(t) == lock_word.state = "thin" /\ lock_word.owner = t

\* Where a thread is Runnable and does not poll for suspension.
RunnablePc == {"fat", "install"}

\* No thread keeps t suspended.
MayRun(t) == suspended_by[t] = {}

Goto(t, l) == pc' = [pc EXCEPT ![t] = l]
At(t, l) == pc[t] = l /\ (l \in RunnablePc \/ MayRun(t))

Init ==
    /\ lock_word = Unlocked
    /\ monitor_lock = None /\ owner = None /\ lock_count = 0 /\ num_waiters = 0
    /\ wait_set = <<>> /\ wake_set = <<>> /\ hash_code = 0
    /\ pc = [t \in Thread |-> "java"] /\ todo = [t \in Thread |-> "enter"]
    /\ target = [t \in Thread |-> None] /\ new_hash = [t \in Thread |-> 0]
    /\ suspended_by = [t \in Thread |-> {}]
    /\ prev_lock_count = [t \in Thread |-> 0]
    /\ wait_monitor = [t \in Thread |-> FALSE] /\ interrupted = [t \in Thread |-> FALSE]
    /\ held = [t \in Thread |-> 0] /\ hashes = {}

\* Java code calls an operation; exit and wait only inside a synchronized block.
Call(t, op) ==
    /\ At(t, "java")
    /\ CASE op = "enter" -> held[t] < MaxHeld
         [] op = "hash"  -> TRUE
         [] OTHER        -> held[t] > 0
    /\ todo' = [todo EXCEPT ![t] = op]
    /\ Goto(t, "op")
    /\ UNCHANGED <<lock_word, monitor, inflation, waiting, history>>

\* A local variable is reset when it is no longer needed.
Idle(t) == todo' = [todo EXCEPT ![t] = "enter"]
Return(t) == Goto(t, "java") /\ Idle(t)
Entered(t) == held' = [held EXCEPT ![t] = @ + 1] /\ UNCHANGED hashes

------------------------------------------------------------------------------
(* Thin locks: MonitorEnter, MonitorExit, IdentityHashCode *)

Fits(n) == n <= MaxCount

EnterThin(t) ==
    /\ At(t, "op") /\ todo[t] = "enter"
    /\ \/ lock_word = Unlocked /\ lock_word' = Thin(t, 0)
       \/ ThinBy(t) /\ Fits(lock_word.count + 1) /\ lock_word' = Thin(t, lock_word.count + 1)
    /\ Entered(t) /\ Return(t)
    /\ UNCHANGED <<monitor, inflation, waiting>>

ExitThin(t) ==
    /\ At(t, "op") /\ todo[t] = "exit"
    /\ ThinBy(t)
    /\ lock_word' = IF lock_word.count = 0 THEN Unlocked ELSE Thin(t, lock_word.count - 1)
    /\ held' = [held EXCEPT ![t] = @ - 1]
    /\ Return(t)
    /\ UNCHANGED <<monitor, inflation, waiting, hashes>>

\* The hash code is in the lock word, or is put there.
HashThin(t) ==
    /\ At(t, "op") /\ todo[t] = "hash"
    /\ \E h \in Hash :
          /\ \/ lock_word = Unlocked /\ lock_word' = HashWord(h)
             \/ lock_word = HashWord(h) /\ UNCHANGED lock_word
          /\ hashes' = hashes \cup {h}
    /\ Return(t)
    /\ UNCHANGED <<monitor, inflation, waiting, held>>

\* The lock word refers to a monitor.
ReadFat(t) ==
    /\ At(t, "op")
    /\ lock_word = Fat
    /\ Goto(t, "fat")
    /\ UNCHANGED <<lock_word, monitor, todo, inflation, waiting, history>>

------------------------------------------------------------------------------
(* Inflation *)

\* The operation needs a monitor.  h is its hash code, 0 if it has none.
NeedsMonitor(t, h) ==
    CASE todo[t] = "enter" ->
            \/ ThinBy(t) /\ ~Fits(lock_word.count + 1) /\ h = 0
            \/ lock_word.state = "thin" /\ ~ThinBy(t) /\ h = 0
            \/ lock_word.state = "hash" /\ h = lock_word.hash
      [] todo[t] = "hash" -> lock_word.state = "thin" /\ h # 0
      [] todo[t] = "wait" -> ThinBy(t) /\ h = 0
      [] OTHER -> FALSE

\* Inflate at once, if nobody else holds the lock, or suspend its owner first.
BeginInflate(t, h) ==
    /\ At(t, "op")
    /\ NeedsMonitor(t, h)
    /\ LET o == IF lock_word.state = "thin" THEN lock_word.owner ELSE None
       IN  /\ target' = [target EXCEPT ![t] = o]
           /\ Goto(t, IF o \in {t, None} THEN "install" ELSE "suspend")
    /\ new_hash' = [new_hash EXCEPT ![t] = h]
    /\ UNCHANGED <<lock_word, monitor, todo, suspended_by, waiting, history>>

\* MonitorEnter(trylock) gives up.
TryFailsThin(t) ==
    /\ At(t, "op") /\ todo[t] = "enter"
    /\ lock_word.state = "thin" /\ ~ThinBy(t)
    /\ Return(t)
    /\ UNCHANGED <<lock_word, monitor, inflation, waiting, history>>

Forget(t) == target' = [target EXCEPT ![t] = None] /\ new_hash' = [new_hash EXCEPT ![t] = 0]

\* SuspendThreadByThreadId, with t itself suspended.  It may time out.
SuspendOwner(t) ==
    /\ pc[t] = "suspend"
    /\ \/ /\ MayRun(t) /\ pc[target[t]] \notin RunnablePc
          /\ suspended_by' = [suspended_by EXCEPT ![target[t]] = @ \cup {t}]
          /\ Goto(t, "recheck")
          /\ UNCHANGED <<target, new_hash>>
       \/ Goto(t, "op") /\ Forget(t) /\ UNCHANGED suspended_by
    /\ UNCHANGED <<lock_word, monitor, todo, waiting, history>>

\* Resume the owner, if another thread, and go back to the loop.
ResumeOwner(t) ==
    /\ suspended_by' = [u \in Thread |-> IF u = target[t] THEN suspended_by[u] \ {t}
                                                          ELSE suspended_by[u]]
    /\ Forget(t)

StillThin(t) == ThinBy(target[t])

\* The owner is suspended: is it still the owner?
Recheck(t) ==
    /\ At(t, "recheck")
    /\ IF StillThin(t) THEN Goto(t, "install") /\ UNCHANGED inflation
                       ELSE Goto(t, "op") /\ ResumeOwner(t)
    /\ UNCHANGED <<lock_word, monitor, todo, waiting, history>>

\* A mutant: the monitor starts with a count of 0.
InstalledCount_Zero == 0

InstalledCount == IF lock_word.state = "thin" THEN lock_word.count ELSE 0

\* The CHECKs of Monitor::Install, and its fatal error if the lock word is unlocked.
InstallChecks(t) ==
    CASE lock_word.state = "thin" -> lock_word.owner = target[t]
      [] lock_word.state = "hash" -> target[t] = None /\ new_hash[t] = lock_word.hash
      [] OTHER                    -> lock_word = Fat

\* Monitor::Install: publish the new monitor.
Publish(t) ==
    /\ lock_word # Fat /\ lock_word' = Fat
    /\ monitor_lock' = target[t] /\ owner' = target[t]
    /\ lock_count' = InstalledCount
    /\ num_waiters' = 0 /\ wait_set' = <<>> /\ wake_set' = <<>>
    /\ hash_code' = new_hash[t]

\* Another thread has inflated it, or the weak compare-and-set fails.
NotPublished == UNCHANGED <<lock_word, monitor>>

Install(t) ==
    /\ At(t, "install")
    /\ IF InstallChecks(t) THEN (Publish(t) \/ NotPublished) /\ Goto(t, "op")
                           ELSE NotPublished /\ Goto(t, "fatal")
    /\ ResumeOwner(t)
    /\ UNCHANGED <<todo, waiting, history>>

------------------------------------------------------------------------------
(* The monitor: Lock, TryLock, Unlock, GetHashCode *)

\* RemoveFromWaitSet: a wait set without t, which is in it once at most.
Without(set, t) ==
    LET n == CHOOSE n \in DOMAIN set : set[n] = t
    IN  IF \E k \in DOMAIN set : set[k] = t
        THEN SubSeq(set, 1, n - 1) \o SubSeq(set, n + 1, Len(set))
        ELSE set

\* t holds monitor_lock_ and is Runnable: it has entered, or its wait is over.
Locked(t, waiters) ==
    /\ owner' = t
    /\ IF todo[t] = "relock"
       THEN /\ lock_count' = prev_lock_count[t]
            /\ num_waiters' = waiters - 1
            /\ wait_set' = Without(wait_set, t) /\ wake_set' = Without(wake_set, t)
            /\ prev_lock_count' = [prev_lock_count EXCEPT ![t] = 0]
            /\ UNCHANGED history
       ELSE /\ Entered(t)
            /\ num_waiters' = waiters
            /\ UNCHANGED <<lock_count, wait_set, wake_set, prev_lock_count>>
    /\ Return(t)
    /\ UNCHANGED <<lock_word, hash_code, inflation, wait_monitor, interrupted>>

Locking(t) == At(t, "fat") /\ todo[t] \in {"enter", "relock"}

LockRecursive(t) ==
    /\ Locking(t) /\ owner = t
    /\ lock_count' = lock_count + 1
    /\ Entered(t) /\ Return(t)
    /\ UNCHANGED <<lock_word, monitor_lock, owner, num_waiters, wait_set, wake_set, hash_code,
                   inflation, waiting>>

TryLock(t) ==
    /\ Locking(t) /\ owner # t /\ monitor_lock = None
    /\ monitor_lock' = t
    /\ Locked(t, num_waiters)

TryFailsFat(t) ==
    /\ Locking(t) /\ todo[t] = "enter" /\ owner # t /\ monitor_lock # None
    /\ Return(t)
    /\ UNCHANGED <<lock_word, monitor, inflation, waiting, history>>

CountWaiter == num_waiters' = num_waiters + 1

\* "Do this before releasing the mutator lock so that we don't get deflated."
LockBlocks(t) ==
    /\ Locking(t) /\ owner # t /\ monitor_lock # None
    /\ CountWaiter
    /\ Goto(t, "blocked")
    /\ UNCHANGED <<lock_word, monitor_lock, owner, lock_count, wait_set, wake_set, hash_code, todo,
                   inflation, waiting, history>>

\* The lock is taken in a suspended state; owner_ is set when t is Runnable again.
LockAcquired(t) ==
    /\ pc[t] = "blocked" /\ monitor_lock = None
    /\ monitor_lock' = t
    /\ Goto(t, "acquired")
    /\ UNCHANGED <<lock_word, owner, lock_count, num_waiters, wait_set, wake_set, hash_code, todo,
                   inflation, waiting, history>>

LockDone(t) ==
    /\ At(t, "acquired")
    /\ Locked(t, num_waiters - 1)
    /\ UNCHANGED monitor_lock

\* A mutant: the first notified thread is dropped from the wake set without a signal.
SignalWaiter_Dropped(goto, still) ==
    /\ wake_set' = IF wake_set = <<>> THEN <<>> ELSE Tail(wake_set)
    /\ pc' = goto

\* The place of the first notified thread that still waits, or 0.
FirstWaiting(still) ==
    LET places == {n \in DOMAIN wake_set : still[wake_set[n]]}
    IN  IF places = {} THEN 0 ELSE CHOOSE n \in places : \A k \in places : n <= k

\* SignalWaiterAndReleaseMonitorLock: signal the first notified thread that still waits; those
\* before it are dropped.  goto is the pc of all threads but the one that is woken.
SignalWaiter(goto, still) ==
    LET n == FirstWaiting(still)
        last == IF n = 0 THEN Len(wake_set) ELSE n
    IN  /\ wake_set' = SubSeq(wake_set, last + 1, Len(wake_set))
        /\ pc' = [u \in Thread |-> IF n # 0 /\ u = wake_set[n] /\ pc[u] = "waiting"
                                   THEN "woken" ELSE goto[u]]

UnlockFat(t) ==
    /\ At(t, "fat") /\ todo[t] = "exit"
    /\ owner = t
    /\ IF lock_count = 0
       THEN /\ owner' = None /\ monitor_lock' = None
            /\ SignalWaiter([pc EXCEPT ![t] = "java"], wait_monitor)
            /\ UNCHANGED lock_count
       ELSE /\ lock_count' = lock_count - 1
            /\ Goto(t, "java") /\ UNCHANGED <<owner, monitor_lock, wake_set>>
    /\ Idle(t)
    /\ held' = [held EXCEPT ![t] = @ - 1]
    /\ UNCHANGED <<lock_word, num_waiters, wait_set, hash_code, inflation, waiting, hashes>>

\* A mutant: the hash code of the monitor is always made anew.
OldHash_Ignored == 0

OldHash == hash_code

GetHashCode(t) ==
    /\ At(t, "fat") /\ todo[t] = "hash"
    /\ \E h \in Hash :
          /\ OldHash \in {0, h}
          /\ hash_code' = h
          /\ hashes' = hashes \cup {h}
    /\ Return(t)
    /\ UNCHANGED <<lock_word, monitor_lock, owner, lock_count, num_waiters, wait_set, wake_set,
                   inflation, waiting, held>>

------------------------------------------------------------------------------
(* Wait, Notify, Interrupt *)

\* Monitor::Wait up to the change of state.
WaitBegin(t) ==
    /\ At(t, "fat") /\ todo[t] = "wait"
    /\ owner = t
    /\ prev_lock_count' = [prev_lock_count EXCEPT ![t] = lock_count]
    /\ lock_count' = 0
    /\ owner' = None
    /\ num_waiters' = num_waiters + 1
    /\ Goto(t, "release")
    /\ UNCHANGED <<lock_word, monitor_lock, wait_set, wake_set, hash_code, todo, inflation,
                   wait_monitor, interrupted, history>>

\* With its wait mutex held t joins the wait set, releases the monitor and falls asleep,
\* unless it has been interrupted.
WaitRelease(t) ==
    /\ pc[t] = "release"
    /\ wait_set' = Append(wait_set, t)
    /\ wait_monitor' = [wait_monitor EXCEPT ![t] = TRUE]
    /\ monitor_lock' = None
    /\ SignalWaiter([pc EXCEPT ![t] = IF interrupted[t] THEN "woken" ELSE "waiting"], wait_monitor)
    /\ UNCHANGED <<lock_word, owner, lock_count, num_waiters, hash_code, todo, inflation,
                   prev_lock_count, interrupted, history>>

\* The wait times out, or a signal interrupts its futex wait.
TimedOut(t) ==
    /\ pc[t] = "waiting"
    /\ Goto(t, "woken")
    /\ UNCHANGED <<lock_word, monitor, todo, inflation, waiting, history>>

Interrupt(t) ==
    /\ ~interrupted[t]
    /\ interrupted' = [interrupted EXCEPT ![t] = TRUE]
    /\ pc' = [pc EXCEPT ![t] = IF @ = "waiting" THEN "woken" ELSE @]
    /\ UNCHANGED <<lock_word, monitor, todo, inflation, prev_lock_count, wait_monitor, history>>

\* Runnable again: wait_monitor_ is reset and the monitor is locked again.  An interrupt that
\* came too late to be seen by the wait stays.
WaitEnds(t) ==
    /\ At(t, "woken")
    /\ wait_monitor' = [wait_monitor EXCEPT ![t] = FALSE]
    /\ \E b \in {FALSE, interrupted[t]} : interrupted' = [interrupted EXCEPT ![t] = b]
    /\ todo' = [todo EXCEPT ![t] = "relock"]
    /\ Goto(t, "fat")
    /\ UNCHANGED <<lock_word, monitor, inflation, prev_lock_count, history>>

\* Notify puts the first waiting thread before the notified ones, NotifyAll all behind them.
Notify(t) ==
    /\ At(t, "java") /\ lock_word = Fat /\ owner = t
    /\ wait_set # <<>>
    /\ \/ wait_set' = Tail(wait_set) /\ wake_set' = <<Head(wait_set)>> \o wake_set
       \/ wait_set' = <<>> /\ wake_set' = wake_set \o wait_set
    /\ UNCHANGED <<lock_word, monitor_lock, owner, lock_count, num_waiters, hash_code, pc, todo,
                   inflation, waiting, history>>

------------------------------------------------------------------------------
\* Monitor::Deflate, with all threads suspended.
Deflate ==
    /\ \A t \in Thread : pc[t] \notin RunnablePc
    /\ lock_word = Fat
    /\ num_waiters = 0 /\ monitor_lock = None
    /\ lock_word' = IF hash_code = 0 THEN Unlocked ELSE HashWord(hash_code)
    /\ hash_code' = 0
    /\ UNCHANGED <<monitor_lock, owner, lock_count, num_waiters, wait_set, wake_set, pc, todo,
                   inflation, waiting, history>>

Step(t) ==
    \/ EnterThin(t) \/ ExitThin(t) \/ HashThin(t) \/ ReadFat(t)
    \/ \E h \in Hash \cup {0} : BeginInflate(t, h)
    \/ TryFailsThin(t) \/ SuspendOwner(t) \/ Recheck(t) \/ Install(t)
    \/ LockRecursive(t) \/ TryLock(t) \/ TryFailsFat(t) \/ LockBlocks(t)
    \/ LockAcquired(t) \/ LockDone(t) \/ UnlockFat(t) \/ GetHashCode(t)
    \/ WaitBegin(t) \/ WaitRelease(t) \/ TimedOut(t) \/ WaitEnds(t)

Next ==
    \/ Deflate
    \/ \E t \in Thread : Step(t) \/ Notify(t) \/ Interrupt(t)
    \/ \E t \in Thread, op \in Op \ {"relock"} : Call(t, op)

Spec == Init /\ [][Next]_vars

------------------------------------------------------------------------------
(* Properties *)

\* The types, and with them that no thread gets to "fatal": Install never meets a lock word
\* that is unlocked, has another owner or another hash code.
TypeOK ==
    /\ lock_word \in {Unlocked, Fat} \cup {HashWord(h) : h \in Hash}
                        \cup {Thin(t, n) : t \in Thread, n \in 0..MaxCount}
    /\ monitor_lock \in Thread \cup {None} /\ owner \in Thread \cup {None}
    /\ lock_count \in Nat /\ num_waiters \in Nat
    /\ wait_set \in Seq(Thread) /\ wake_set \in Seq(Thread)
    /\ hash_code \in Hash \cup {0}
    /\ pc \in [Thread -> {"java", "op", "fat", "suspend", "recheck", "install", "blocked",
                          "acquired", "release", "waiting", "woken"}]
    /\ todo \in [Thread -> Op]
    /\ suspended_by \in [Thread -> SUBSET Thread]
    /\ hashes \in SUBSET Hash

\* t is in wait, and has given up the lock.
InWait(t) == pc[t] \in {"release", "waiting", "woken"} \/ (pc[t] # "java" /\ todo[t] = "relock")

\* A thread between its enter and its exit owns the lock, as deep as it entered it, in
\* whatever form and whoever inflated it; wait gives it up and gets back the same depth.
\* So no two threads are in a synchronized block.
OwnershipExact ==
    \A t \in Thread : held[t] > 0 =>
        IF InWait(t) THEN prev_lock_count[t] = held[t] - 1
        ELSE \/ lock_word = Thin(t, held[t] - 1)
             \/ /\ lock_word = Fat /\ monitor_lock = t /\ owner = t
                /\ lock_count = held[t] - 1

\* A thread that uses the monitor, blocks on it or waits on it, uses the monitor of the
\* object: it is not deflated and freed under it.
MonitorInUse ==
    \A t \in Thread :
        pc[t] \in {"fat", "blocked", "acquired", "release", "waiting", "woken"} => lock_word = Fat

\* A thread that has been notified and not yet woken is not forgotten: somebody holds the
\* monitor, or has been woken and will lock it, and signals when releasing it.
NotificationKept ==
    lock_word = Fat /\ wake_set # <<>> =>
        \/ monitor_lock # None
        \/ \E t \in Thread : pc[t] = "woken" \/ (todo[t] = "relock" /\ pc[t] \in {"fat", "blocked"})

\* The identity hash code of an object never changes, through inflation and deflation.
HashStable == Cardinality(hashes) <= 1

==============================================================================
