--------------------------- MODULE ThreadSuspension ---------------------------
(***************************************************************************)
(* Thread suspension: ThreadList::SuspendAll/ResumeAll, SuspendThread and  *)
(* Resume, Register and Unregister (runtime/thread_list.cc) and the state  *)
(* transitions of the threads they act on (runtime/thread-inl.h,           *)
(* runtime/thread.cc).                                                     *)
(*                                                                         *)
(* thread_list_lock_ is only ever taken together with, and outside of,     *)
(* thread_suspend_count_lock_ here, so one variable, lock, stands for      *)
(* both.  A critical section in which no other thread can act on what it   *)
(* reads is one step.  A requester that sets a target's flags and then     *)
(* reads the target's state keeps the lock over two steps, because the     *)
(* target's own compare-and-set of its state takes no lock.                *)
(***************************************************************************)
EXTENDS Integers, FiniteSets

CONSTANTS
    Thread,       \* the threads that may exist
    None,         \* no thread
    MaxRequests   \* bound on the number of SuspendAll and SuspendThread calls

ASSUME ThreadAssumption == IsFiniteSet(Thread) /\ None \notin Thread
ASSUME BoundAssumption == MaxRequests \in Nat

VARIABLES
    list,              \* ThreadList::list_
    suspend_all_count, \* ThreadList::suspend_all_count_
    lock,              \* owner of thread_suspend_count_lock_
    mutator_lock,      \* exclusive owner of mutator_lock_
    resume_q,          \* the threads waiting on Thread::resume_cond_
    state,             \* kRunnable, or any of the suspended states
    flags,             \* the flags of state_and_flags
    suspend_count,     \* tls32_.suspend_count
    suspendall_barrier,\* whose pending_threads active_suspendall_barrier points to
    suspend1_barriers, \* whose wrapped_barrier active_suspend1_barriers holds
    pending,           \* per requester: pending_threads or wrapped_barrier.barrier_
    pc,                \* where each thread is
    ret,               \* where it goes after a change of state
    target,            \* per requester: the thread it suspends
    todo,              \* per SuspendAll: the threads it has not yet visited
    requests           \* how many requests have been made

global == <<list, suspend_all_count, mutator_lock>>
thread == <<state, flags, suspend_count, suspendall_barrier, suspend1_barriers>>
local == <<pc, ret, target, todo>>
vars == <<global, lock, resume_q, thread, pending, local, requests>>

Flag == {"kSuspendRequest", "kActiveSuspendBarrier", "kSuspensionImmune"}

\* Where a thread is while it is Runnable ...
RunnablePC == {"java", "st_lock", "st_check", "st_leave", "st_hold"}
\* ... while it runs SuspendAll or what it protects ...
SuspendAllPC == {"sa_loop", "sa_check", "sa_wait", "sa_mutator", "sa_body"}
\* ... and at other times.
PC == RunnablePC \cup SuspendAllPC
        \cup {"new", "native", "pass", "resume", "st_wait", "sa_lock", "unregister", "exited"}

Goto(t, l) == pc' = [pc EXCEPT ![t] = l]

Init ==
    /\ list = {} /\ suspend_all_count = 0 /\ mutator_lock = None
    /\ lock = None /\ resume_q = {}
    /\ state = [t \in Thread |-> "kSuspended"]
    /\ flags = [t \in Thread |-> {}]
    /\ suspend_count = [t \in Thread |-> 0]
    /\ suspendall_barrier = [t \in Thread |-> None]
    /\ suspend1_barriers = [t \in Thread |-> {}]
    /\ pending = [t \in Thread |-> 0]
    /\ pc = [t \in Thread |-> "new"]
    /\ ret = [t \in Thread |-> "native"]
    /\ target = [t \in Thread |-> None]
    /\ todo = [t \in Thread |-> {}]
    /\ requests = 0

------------------------------------------------------------------------------
(* The parts of Thread that the operations share. *)

\* A mutant: the state is not looked at.
IsSuspended_FlagOnly(t) == "kSuspendRequest" \in flags[t]

IsSuspended(t) == state[t] # "kRunnable" /\ "kSuspendRequest" \in flags[t]

\* The flags of t after DecrementSuspendCount.
AfterDecrement(t) ==
    IF suspend_count[t] = 1 THEN flags[t] \ {"kSuspendRequest"} ELSE flags[t]

\* A mutant: the barrier stays in the list.
RemoveSuspend1Barrier_Kept(t, r) == suspend1_barriers[t]

RemoveSuspend1Barrier(t, r) == suspend1_barriers[t] \ {r}

\* A mutant: nobody is woken.
Broadcast_Forgotten == UNCHANGED resume_q

\* resume_cond_->Broadcast
Broadcast == resume_q' = {}

\* The flags of t once the barriers all and ones are all it has.
WithBarriers(t, all, ones) ==
    IF all = None /\ ones = {} THEN flags[t] \ {"kActiveSuspendBarrier"} ELSE flags[t]

\* PassActiveSuspendBarriers: t passes every barrier it has been given.
PassActiveSuspendBarriers(t) ==
    /\ lock = None
    /\ "kActiveSuspendBarrier" \in flags[t]
    /\ pending' = [r \in Thread |->
                      IF r = suspendall_barrier[t] \/ r \in suspend1_barriers[t]
                      THEN pending[r] - 1 ELSE pending[r]]
    /\ suspendall_barrier' = [suspendall_barrier EXCEPT ![t] = None]
    /\ suspend1_barriers' = [suspend1_barriers EXCEPT ![t] = {}]
    /\ flags' = [flags EXCEPT ![t] = @ \ {"kActiveSuspendBarrier"}]

\* TransitionFromRunnableToSuspended up to the compare-and-set of the state;
\* l is where the thread is to go once it has checked its barriers.
ToSuspended(t, l) ==
    /\ state' = [state EXCEPT ![t] = "kSuspended"]
    /\ ret' = [ret EXCEPT ![t] = l]
    /\ Goto(t, "pass")

------------------------------------------------------------------------------
(* Transitions of a thread. *)

\* A native method call.
EnterNative(t) ==
    /\ pc[t] = "java"
    /\ ToSuspended(t, "native")
    /\ UNCHANGED <<global, lock, resume_q, flags, suspend_count, suspendall_barrier,
                   suspend1_barriers, pending, target, todo, requests>>

\* CheckSuspend and FullSuspendCheck: suspend, then become runnable again.
CheckSuspend(t) ==
    /\ pc[t] = "java"
    /\ "kSuspendRequest" \in flags[t] /\ "kSuspensionImmune" \notin flags[t]
    /\ ToSuspended(t, "java")
    /\ UNCHANGED <<global, lock, resume_q, flags, suspend_count, suspendall_barrier,
                   suspend1_barriers, pending, target, todo, requests>>

\* CheckActiveSuspendBarriers at the end of TransitionFromRunnableToSuspended,
\* and the same test in TransitionFromSuspendedToRunnable.
PassBarriers(t) ==
    /\ pc[t] \in {"pass", "resume"} /\ t \notin resume_q
    /\ PassActiveSuspendBarriers(t)
    /\ UNCHANGED <<global, lock, resume_q, state, suspend_count, local, requests>>

NoBarriers(t) ==
    /\ pc[t] = "pass"
    /\ "kActiveSuspendBarrier" \notin flags[t]
    /\ Goto(t, IF ret[t] \in RunnablePC THEN "resume" ELSE ret[t])
    /\ UNCHANGED <<global, lock, resume_q, thread, pending, ret, target, todo, requests>>

\* The return from native code.
LeaveNative(t) ==
    /\ pc[t] = "native"
    /\ Goto(t, "resume")
    /\ ret' = [ret EXCEPT ![t] = "java"]
    /\ UNCHANGED <<global, lock, resume_q, thread, pending, target, todo, requests>>

\* TransitionFromSuspendedToRunnable waits on resume_cond_ ...
AwaitResume(t) ==
    /\ pc[t] = "resume" /\ t \notin resume_q
    /\ "kActiveSuspendBarrier" \notin flags[t]
    /\ "kSuspendRequest" \in flags[t]
    /\ lock = None
    /\ resume_q' = resume_q \cup {t}
    /\ UNCHANGED <<global, lock, thread, pending, local, requests>>

\* ... until no flag is set, and then changes the state.
BecomeRunnable(t) ==
    /\ pc[t] = "resume" /\ t \notin resume_q
    /\ flags[t] \cap {"kSuspendRequest", "kActiveSuspendBarrier"} = {}
    /\ state' = [state EXCEPT ![t] = "kRunnable"]
    /\ Goto(t, ret[t])
    /\ UNCHANGED <<global, lock, resume_q, flags, suspend_count, suspendall_barrier,
                   suspend1_barriers, pending, ret, target, todo, requests>>

------------------------------------------------------------------------------
(* ThreadList::Register and Unregister *)

\* A mutant: an attaching thread ignores a SuspendAll that is under way.
RequestsToInherit_None == 0

\* A thread that attaches during a SuspendAll is suspended by it.
RequestsToInherit == suspend_all_count

Register(t) ==
    /\ pc[t] = "new"
    /\ lock = None
    /\ list' = list \cup {t}
    /\ suspend_count' = [suspend_count EXCEPT ![t] = @ + RequestsToInherit]
    /\ flags' = [flags EXCEPT ![t] = IF RequestsToInherit = 1
                                     THEN @ \cup {"kSuspendRequest"} ELSE @]
    /\ Goto(t, "native")
    /\ UNCHANGED <<suspend_all_count, mutator_lock, lock, resume_q, state, suspendall_barrier,
                   suspend1_barriers, pending, ret, target, todo, requests>>

BeginUnregister(t) ==
    /\ pc[t] = "native"
    /\ Goto(t, "unregister")
    /\ UNCHANGED <<global, lock, resume_q, thread, pending, ret, target, todo, requests>>

\* A mutant: a thread detaches while a request on it is pending.
MayDetach_Always(t) == TRUE

\* The loop of Unregister ends when no suspend request is left.
MayDetach(t) == "kSuspendRequest" \notin flags[t]

Unregister(t) ==
    /\ pc[t] = "unregister"
    /\ lock = None
    /\ MayDetach(t)
    /\ list' = list \ {t}
    /\ Goto(t, "exited")
    /\ UNCHANGED <<suspend_all_count, mutator_lock, lock, resume_q, thread, pending, ret, target,
                   todo, requests>>

------------------------------------------------------------------------------
(* ThreadList::SuspendAll and ResumeAll *)

BeginSuspendAll(r) ==
    /\ pc[r] = "native"
    /\ requests < MaxRequests
    /\ requests' = requests + 1
    /\ Goto(r, "sa_lock")
    /\ UNCHANGED <<global, lock, resume_q, thread, pending, ret, target, todo>>

\* Another SuspendAll is in progress: wait for it on resume_cond_.
SuspendAllBusy(r) ==
    /\ pc[r] = "sa_lock" /\ r \notin resume_q
    /\ lock = None
    /\ suspend_all_count # 0
    /\ resume_q' = resume_q \cup {r}
    /\ UNCHANGED <<global, lock, thread, pending, local, requests>>

\* "Never run multiple SuspendAlls concurrently."
NoSuspendAll == suspend_all_count = 0

SuspendAllLock(r) ==
    /\ pc[r] = "sa_lock" /\ r \notin resume_q
    /\ lock = None
    /\ NoSuspendAll
    /\ lock' = r
    /\ suspend_all_count' = suspend_all_count + 1
    /\ pending' = [pending EXCEPT ![r] = Cardinality(list) - 1]
    /\ todo' = [todo EXCEPT ![r] = list \ {r}]
    /\ Goto(r, "sa_loop")
    /\ UNCHANGED <<list, mutator_lock, resume_q, thread, ret, target, requests>>

\* One turn of the loop over list_: IncrementSuspendCount with pending_threads ...
SuspendAllRequest(r, t) ==
    /\ pc[r] = "sa_loop"
    /\ t \in todo[r]
    /\ suspendall_barrier' = [suspendall_barrier EXCEPT ![t] = r]
    /\ suspend_count' = [suspend_count EXCEPT ![t] = @ + 1]
    /\ flags' = [flags EXCEPT ![t] = @ \cup {"kSuspendRequest", "kActiveSuspendBarrier"}]
    /\ todo' = [todo EXCEPT ![r] = @ \ {t}]
    /\ target' = [target EXCEPT ![r] = t]
    /\ Goto(r, "sa_check")
    /\ UNCHANGED <<global, lock, resume_q, state, suspend1_barriers, pending, ret, requests>>

\* ... and the barrier passed on behalf of a thread that is already suspended.
SuspendAllCheck(r) ==
    /\ pc[r] = "sa_check"
    /\ LET t == target[r] IN
       IF IsSuspended(t)
       THEN /\ pending' = [pending EXCEPT ![r] = @ - 1]
            /\ suspendall_barrier' = [suspendall_barrier EXCEPT ![t] = None]
            /\ flags' = [flags EXCEPT ![t] = WithBarriers(t, None, suspend1_barriers[t])]
       ELSE UNCHANGED <<pending, suspendall_barrier, flags>>
    /\ target' = [target EXCEPT ![r] = None]
    /\ Goto(r, "sa_loop")
    /\ UNCHANGED <<global, lock, resume_q, state, suspend_count, suspend1_barriers, ret, todo,
                   requests>>

SuspendAllUnlock(r) ==
    /\ pc[r] = "sa_loop"
    /\ todo[r] = {}
    /\ flags' = [flags EXCEPT ![r] = @ \cup {"kSuspensionImmune"}]
    /\ lock' = None
    /\ Goto(r, "sa_wait")
    /\ UNCHANGED <<global, resume_q, state, suspend_count, suspendall_barrier, suspend1_barriers,
                   pending, ret, target, todo, requests>>

\* WaitForSuspendBarrier returns once the barrier is 0.
SuspendAllWait(r) ==
    /\ pc[r] = "sa_wait"
    /\ pending[r] <= 0
    /\ Goto(r, "sa_mutator")
    /\ UNCHANGED <<global, lock, resume_q, thread, pending, ret, target, todo, requests>>

\* SuspendAll then takes the mutator lock exclusively.
SuspendAllMutator(r) ==
    /\ pc[r] = "sa_mutator"
    /\ mutator_lock = None
    /\ mutator_lock' = r
    /\ Goto(r, "sa_body")
    /\ UNCHANGED <<list, suspend_all_count, lock, resume_q, thread, pending, ret, target, todo,
                   requests>>

ResumeAll(r) ==
    /\ pc[r] = "sa_body"
    /\ lock = None
    /\ mutator_lock' = None
    /\ suspend_count' = [t \in Thread |-> suspend_count[t] - (IF t \in list \ {r} THEN 1 ELSE 0)]
    /\ flags' = [t \in Thread |->
                    CASE t = r -> flags[t] \ {"kSuspensionImmune"}
                      [] t \in list \ {r} -> AfterDecrement(t)
                      [] OTHER -> flags[t]]
    /\ suspend_all_count' = suspend_all_count - 1
    /\ Broadcast
    /\ Goto(r, "native")
    /\ UNCHANGED <<list, lock, state, suspendall_barrier, suspend1_barriers, pending, ret, target,
                   todo, requests>>

------------------------------------------------------------------------------
(* ThreadList::SuspendThread and Resume *)

\* A mutant: the requester does not look at its own suspend count.
MaySuspendOthers_Always(r) == TRUE

\* A requester that is itself asked to suspend does so first, to avoid a cycle.
MaySuspendOthers(r) == suspend_count[r] = 0

\* One turn of the loop of SuspendThread, with the target in the thread list.
SuspendThreadTry(r, t) ==
    /\ lock = None
    /\ target' = [target EXCEPT ![r] = t]
    /\ IF MaySuspendOthers(r)
       THEN /\ suspend1_barriers' = [suspend1_barriers EXCEPT ![t] = @ \cup {r}]
            /\ pending' = [pending EXCEPT ![r] = 1]
            /\ suspend_count' = [suspend_count EXCEPT ![t] = @ + 1]
            /\ flags' = [flags EXCEPT ![t] = @ \cup {"kSuspendRequest", "kActiveSuspendBarrier"}]
            /\ lock' = r
            /\ Goto(r, "st_check")
            /\ UNCHANGED <<state, ret>>
       ELSE /\ ToSuspended(r, "st_lock")
            /\ UNCHANGED <<suspend1_barriers, pending, suspend_count, flags, lock>>
    /\ UNCHANGED <<global, resume_q, suspendall_barrier, todo>>

\* SuspendThreadByPeer and SuspendThreadByThreadId find the thread in the list.
SuspendThread(r, t) ==
    /\ pc[r] = "java"
    /\ requests < MaxRequests
    /\ requests' = requests + 1
    /\ t \in list \ {r}
    /\ SuspendThreadTry(r, t)

SuspendThreadRetry(r) ==
    /\ pc[r] = "st_lock"
    /\ target[r] \in list
    /\ SuspendThreadTry(r, target[r])
    /\ UNCHANGED requests

\* tef.HasExited(): the target exited while the requester was suspended.
SuspendThreadExited(r) ==
    /\ pc[r] = "st_lock"
    /\ lock = None
    /\ target[r] \notin list
    /\ target' = [target EXCEPT ![r] = None]
    /\ ToSuspended(r, "native")
    /\ UNCHANGED <<global, lock, resume_q, flags, suspend_count, suspendall_barrier,
                   suspend1_barriers, pending, todo, requests>>

\* If the target is already suspended its barrier is taken back at once.
SuspendThreadCheck(r) ==
    /\ pc[r] = "st_check"
    /\ LET t == target[r] IN
       IF IsSuspended(t)
       THEN /\ suspend1_barriers' = [suspend1_barriers EXCEPT ![t] = RemoveSuspend1Barrier(t, r)]
            /\ flags' = [flags EXCEPT ![t] = WithBarriers(t, suspendall_barrier[t],
                                                          RemoveSuspend1Barrier(t, r))]
            /\ ret' = [ret EXCEPT ![r] = "st_hold"]
       ELSE /\ ret' = [ret EXCEPT ![r] = "st_wait"]
            /\ UNCHANGED <<suspend1_barriers, flags>>
    /\ lock' = None
    /\ Goto(r, "st_leave")
    /\ UNCHANGED <<global, resume_q, state, suspend_count, suspendall_barrier, pending, target, todo,
                   requests>>

\* The requester leaves the Runnable state before it waits.
SuspendThreadLeave(r) ==
    /\ pc[r] = "st_leave"
    /\ ToSuspended(r, ret[r])
    /\ UNCHANGED <<global, lock, resume_q, flags, suspend_count, suspendall_barrier,
                   suspend1_barriers, pending, target, todo, requests>>

\* WaitForSuspendBarrier succeeds; the caller goes back to Runnable.
SuspendThreadWait(r) ==
    /\ pc[r] = "st_wait"
    /\ pending[r] <= 0
    /\ Goto(r, "resume")
    /\ ret' = [ret EXCEPT ![r] = "st_hold"]
    /\ UNCHANGED <<global, lock, resume_q, thread, pending, target, todo, requests>>

\* WaitForSuspendBarrier timed out and the caller will try again (attempt_of_4 is
\* 1, 2 or 3): take the barrier and the request back, unless the target passed
\* the barrier in the meantime, which is SuspendThreadWait.
SuspendThreadGiveUp(r) ==
    /\ pc[r] = "st_wait"
    /\ lock = None
    /\ pending[r] # 0
    /\ LET t == target[r] IN
       /\ suspend1_barriers' = [suspend1_barriers EXCEPT ![t] = RemoveSuspend1Barrier(t, r)]
       /\ suspend_count' = [suspend_count EXCEPT ![t] = @ - 1]
       /\ flags' = [flags EXCEPT ![t] =
                       WithBarriers(t, suspendall_barrier[t], RemoveSuspend1Barrier(t, r))
                         \ (flags[t] \ AfterDecrement(t))]
    /\ Broadcast
    /\ target' = [target EXCEPT ![r] = None]
    /\ Goto(r, "native")
    /\ UNCHANGED <<global, lock, state, suspendall_barrier, pending, ret, todo, requests>>

\* The requester has done its work on the suspended thread.
Resume(r) ==
    /\ pc[r] = "st_hold"
    /\ lock = None
    /\ LET t == target[r] IN
       /\ suspend_count' = [suspend_count EXCEPT ![t] = @ - 1]
       /\ flags' = [flags EXCEPT ![t] = AfterDecrement(t)]
    /\ Broadcast
    /\ target' = [target EXCEPT ![r] = None]
    /\ Goto(r, "java")
    /\ UNCHANGED <<global, lock, state, suspendall_barrier, suspend1_barriers, pending, ret, todo,
                   requests>>

------------------------------------------------------------------------------
\* Every thread has detached.
Terminated == (\A t \in Thread : pc[t] = "exited") /\ UNCHANGED vars

\* What a thread does by itself once it has started it.
Step(t) ==
    \/ PassBarriers(t) \/ NoBarriers(t) \/ AwaitResume(t) \/ BecomeRunnable(t)
    \/ CheckSuspend(t) \/ Unregister(t)
    \/ SuspendAllBusy(t) \/ SuspendAllLock(t) \/ (\E u \in Thread : SuspendAllRequest(t, u))
    \/ SuspendAllCheck(t) \/ SuspendAllUnlock(t) \/ SuspendAllWait(t) \/ SuspendAllMutator(t)
    \/ ResumeAll(t)
    \/ SuspendThreadRetry(t) \/ SuspendThreadExited(t) \/ SuspendThreadCheck(t)
    \/ SuspendThreadLeave(t) \/ SuspendThreadWait(t) \/ Resume(t)

\* What it may or may not do.
Choice(t) ==
    \/ Register(t) \/ BeginUnregister(t) \/ EnterNative(t) \/ LeaveNative(t)
    \/ BeginSuspendAll(t) \/ (\E u \in Thread : SuspendThread(t, u)) \/ SuspendThreadGiveUp(t)

Next == (\E t \in Thread : Step(t) \/ Choice(t)) \/ Terminated

Spec == Init /\ [][Next]_vars
FairSpec == Spec /\ \A t \in Thread : WF_vars(Step(t))

------------------------------------------------------------------------------
(* Properties *)

\* r has asked its target to suspend and has not yet resumed it.
Requesting(r) ==
    \/ pc[r] \in {"st_check", "st_leave", "st_wait", "st_hold"}
    \/ pc[r] \in {"pass", "resume"} /\ ret[r] \in {"st_wait", "st_hold"}

\* The request of r counts towards the suspend count of t.
Suspends(r, t) ==
    \/ pc[r] \in SuspendAllPC /\ t \in list \ {r} /\ t \notin todo[r]
    \/ Requesting(r) /\ target[r] = t

\* r waits for its barrier, or will.
Waiting1(r) ==
    \/ pc[r] \in {"st_check", "st_wait"}
    \/ pc[r] \in {"st_leave", "pass"} /\ ret[r] = "st_wait"

\* Every variable keeps the type that the declarations in thread.h and thread_list.h give it.
TypeOK ==
    /\ list \in SUBSET Thread /\ suspend_all_count \in {0, 1}
    /\ lock \in Thread \cup {None} /\ mutator_lock \in Thread \cup {None}
    /\ resume_q \in SUBSET Thread
    /\ state \in [Thread -> {"kRunnable", "kSuspended"}]
    /\ flags \in [Thread -> SUBSET Flag]
    /\ suspend_count \in [Thread -> Int]
    /\ suspendall_barrier \in [Thread -> Thread \cup {None}]
    /\ suspend1_barriers \in [Thread -> SUBSET Thread]
    /\ pending \in [Thread -> Int]
    /\ pc \in [Thread -> PC]
    /\ ret \in [Thread -> {"java", "native", "st_lock", "st_wait", "st_hold"}]
    /\ target \in [Thread -> Thread \cup {None}]
    /\ todo \in [Thread -> SUBSET Thread]
    /\ requests \in Nat

\* The suspend count of a thread is the number of requests on it that have not been taken
\* back, and kSuspendRequest is set exactly while there is one: no interleaving of
\* SuspendAll, SuspendThread, its time-out, Register and the two resumes loses or repeats
\* an IncrementSuspendCount or a DecrementSuspendCount.
SuspendCountExact ==
    \A t \in Thread :
        /\ suspend_count[t] = Cardinality({r \in Thread : Suspends(r, t)})
        /\ "kSuspendRequest" \in flags[t] <=> suspend_count[t] > 0

\* A thread never holds a pointer to a barrier in a stack frame that is gone: the requester
\* a barrier belongs to is still in SuspendAllInternal or SuspendThread, waiting for it.
BarriersAlive ==
    \A t, r \in Thread :
        /\ suspendall_barrier[t] = r => pc[r] \in {"sa_loop", "sa_check", "sa_wait"}
        /\ r \in suspend1_barriers[t] => Waiting1(r) /\ target[r] = t

\* Once SuspendAll has returned, and until ResumeAll, no other thread is Runnable.
SuspendAllExclusive ==
    \A r \in Thread : pc[r] \in {"sa_mutator", "sa_body"} =>
        \A t \in Thread : state[t] = "kSuspended"

\* A thread that SuspendThread has suspended stays in the thread list and suspended until
\* its requester resumes it, so neither of the fatal errors in Resume can occur.
TargetStaysSuspended ==
    \A r \in Thread : Requesting(r) /\ ~Waiting1(r) =>
        target[r] \in list /\ IsSuspended(target[r])

\* Threads never suspend each other in a cycle: among any threads there is one that none of
\* them suspends with SuspendThread.
NoSuspensionCycle ==
    \A S \in (SUBSET Thread) \ {{}} :
        \E t \in S : \A r \in S : ~(Requesting(r) /\ target[r] = t)

\* SuspendAll and SuspendThread get through and the thread they suspended goes on, whatever
\* other requests are made at the same time, and a thread that passes barriers or waits to
\* become Runnable gets on: nobody misses the broadcast on resume_cond_ or the last pass of a
\* barrier, and no two threads wait for each other to suspend.
SuspensionsEnd ==
    \A t \in Thread :
        []<>(pc[t] \notin {"pass", "resume", "sa_lock"} \cup SuspendAllPC /\ target[t] = None)

==============================================================================
