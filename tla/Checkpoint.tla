------------------------------ MODULE Checkpoint ------------------------------
(***************************************************************************)
(* Checkpoints: ThreadList::RunCheckpoint (runtime/thread_list.cc), the    *)
(* handshake with the threads it visits (Thread::RequestCheckpoint and     *)
(* RunCheckpointFunction, runtime/thread.cc), and the wait of its callers  *)
(* on a Barrier (runtime/barrier.cc) that every run of the closure passes. *)
(*                                                                         *)
(* The closure is named after the thread that asks for it: it lives on     *)
(* that thread's stack until its wait is over.  As in ThreadSuspension one *)
(* variable stands for thread_list_lock_ and thread_suspend_count_lock_.   *)
(* Waiting on resume_cond_ is left to that module: here a thread with a    *)
(* positive suspend count just cannot become Runnable.                     *)
(***************************************************************************)
EXTENDS Integers, Sequences, FiniteSets

CONSTANTS
    Thread,       \* the threads that may exist
    None,         \* no thread
    MaxRequests,  \* bound on the number of RunCheckpoint calls
    MaxFlips      \* bound on the number of thread flips

ThreadAssumption == IsFiniteSet(Thread) /\ None \notin Thread
BoundAssumption == MaxRequests \in Nat /\ MaxFlips \in Nat

VARIABLES
    list,          \* ThreadList::list_
    lock,          \* owner of thread_suspend_count_lock_
    state,         \* kRunnable, or any of the suspended states
    request,       \* the threads with kCheckpointRequest
    checkpoints,   \* checkpoint_function followed by checkpoint_overflow_
    suspend_count, \* tls32_.suspend_count; positive iff kSuspendRequest is set
    flip,          \* kPendingFlipFunction, kRunningFlipFunction or neither
    running,       \* the closure a thread has taken from its list and not yet run
    pc,            \* where each thread is
    ret,           \* where it goes after a change of state
    mode,          \* per requester: how it stands to the mutator lock
    todo,          \* per requester: the threads left in this sweep
    remaining,     \* per requester: remaining_threads
    current,       \* per requester: the thread it deals with
    count,         \* per requester: count
    barrier,       \* per requester: the count_ of its Barrier
    ran,           \* per requester: how often its closure ran on each thread
    requests,      \* how many requests have been made
    flips          \* how many thread flips there have been

thread == <<state, request, checkpoints, suspend_count, flip, running>>
sweep == <<mode, todo, remaining, current, count>>
vars == <<list, lock, thread, pc, ret, sweep, barrier, ran, requests, flips>>

\* In the mutator lock already, to be acquired, or not at all.
Mode == {"held", "acquire", "none"}

Goto(t, l) == pc' = [pc EXCEPT ![t] = l]

Init ==
    /\ list = {} /\ lock = None
    /\ state = [t \in Thread |-> "kSuspended"]
    /\ request = {}
    /\ checkpoints = [t \in Thread |-> <<>>]
    /\ suspend_count = [t \in Thread |-> 0]
    /\ flip = [t \in Thread |-> "none"]
    /\ running = [t \in Thread |-> None]
    /\ pc = [t \in Thread |-> "new"]
    /\ ret = [t \in Thread |-> "native"]
    /\ mode = [t \in Thread |-> "none"]
    /\ todo = [t \in Thread |-> {}] /\ remaining = [t \in Thread |-> {}]
    /\ current = [t \in Thread |-> None]
    /\ count = [t \in Thread |-> 0] /\ barrier = [t \in Thread |-> 0]
    /\ ran = [t \in Thread |-> [u \in Thread |-> 0]]
    /\ requests = 0 /\ flips = 0

------------------------------------------------------------------------------
(* What every thread does. *)

\* The closure of r runs on t, and passes the barrier.
Run(r, t) ==
    /\ ran' = [ran EXCEPT ![r][t] = @ + 1]
    /\ barrier' = [barrier EXCEPT ![r] = @ - 1]

Register(t) ==
    /\ pc[t] = "new" /\ lock = None
    /\ list' = list \cup {t}
    /\ Goto(t, "native")
    /\ UNCHANGED <<lock, thread, ret, sweep, barrier, ran, requests, flips>>

Unregister(t) ==
    /\ pc[t] = "native" /\ lock = None
    /\ suspend_count[t] = 0 /\ flip[t] # "running"
    /\ list' = list \ {t}
    /\ Goto(t, "exited")
    /\ UNCHANGED <<lock, thread, ret, sweep, barrier, ran, requests, flips>>

LeaveNative(t) ==
    /\ pc[t] = "native"
    /\ Goto(t, "resume")
    /\ ret' = [ret EXCEPT ![t] = "java"]
    /\ UNCHANGED <<list, lock, thread, sweep, barrier, ran, requests, flips>>

\* TransitionFromSuspendedToRunnable, which runs a pending flip function and waits for one
\* that another thread is running.
BecomeRunnable(t) ==
    /\ pc[t] = "resume"
    /\ suspend_count[t] = 0
    /\ flip[t] # "running"
    /\ flip' = [flip EXCEPT ![t] = "none"]
    /\ state' = [state EXCEPT ![t] = "kRunnable"]
    /\ Goto(t, ret[t])
    /\ UNCHANGED <<list, lock, request, checkpoints, suspend_count, running, ret, sweep, barrier,
                   ran, requests, flips>>

\* A call of native code, or a suspend check that finds kSuspendRequest.
Suspend(t, l) ==
    /\ pc[t] = "java" /\ running[t] = None
    /\ l = "java" => suspend_count[t] > 0
    /\ Goto(t, "leave")
    /\ ret' = [ret EXCEPT ![t] = l]
    /\ UNCHANGED <<list, lock, thread, sweep, barrier, ran, requests, flips>>

NothingToRun(t) == t \notin request

\* TransitionToSuspendedAndRunCheckpoints changes the state once no checkpoint is left.
BecomeSuspended(t) ==
    /\ pc[t] = "leave" /\ running[t] = None
    /\ NothingToRun(t)
    /\ state' = [state EXCEPT ![t] = "kSuspended"]
    /\ Goto(t, IF ret[t] \in {"java", "rc_lock"} THEN "resume" ELSE ret[t])
    /\ UNCHANGED <<list, lock, request, checkpoints, suspend_count, flip, running, ret, sweep, barrier,
                   ran, requests, flips>>

\* RunCheckpointFunction clears the flag when it takes the last closure.
FlagAfter(t) == IF Len(checkpoints[t]) > 1 THEN request ELSE request \ {t}

\* RunCheckpointFunction: take the next closure, under the lock ...
TakeCheckpoint(t) ==
    /\ pc[t] \in {"java", "leave"} /\ running[t] = None
    /\ t \in request
    /\ lock = None
    /\ running' = [running EXCEPT ![t] = Head(checkpoints[t])]
    /\ checkpoints' = [checkpoints EXCEPT ![t] = Tail(@)]
    /\ request' = FlagAfter(t)
    /\ UNCHANGED <<list, lock, state, suspend_count, flip, pc, ret, sweep, barrier, ran, requests, flips>>

\* ... and run it, outside the lock.
RunCheckpointFunction(t) ==
    /\ running[t] # None
    /\ Run(running[t], t)
    /\ running' = [running EXCEPT ![t] = None]
    /\ UNCHANGED <<list, lock, state, request, checkpoints, suspend_count, flip, pc, ret, sweep, requests, flips>>

------------------------------------------------------------------------------
(* ThreadList::RunCheckpoint *)

Begin(r, m) ==
    /\ requests < MaxRequests
    /\ requests' = requests + 1
    /\ mode' = [mode EXCEPT ![r] = m]
    /\ ran' = [ran EXCEPT ![r] = [t \in Thread |-> 0]]
    /\ barrier' = [barrier EXCEPT ![r] = 0]

\* A Runnable caller, one that wants the mutator lock, and one that does not.
RunCheckpoint(r) ==
    /\ \/ pc[r] = "java" /\ running[r] = None /\ Begin(r, "held") /\ Goto(r, "rc_start")
          /\ UNCHANGED ret
       \/ pc[r] = "native" /\ Begin(r, "none") /\ Goto(r, "rc_start") /\ UNCHANGED ret
       \/ pc[r] = "native" /\ Begin(r, "acquire") /\ Goto(r, "resume")
          /\ ret' = [ret EXCEPT ![r] = "rc_start"]
    /\ UNCHANGED <<list, lock, thread, todo, remaining, current, count, flips>>

\* A mutant: the requester itself is not counted.
InitialCount_Others(r) == Cardinality(list \ {r})

\* Every thread of the list, the requester included, runs the closure.
InitialCount(r) == Cardinality(list)

Lock(r) ==
    /\ pc[r] = "rc_start"
    /\ lock = None /\ lock' = r
    /\ count' = [count EXCEPT ![r] = InitialCount(r)]
    /\ todo' = [todo EXCEPT ![r] = list \ {r}]
    /\ Goto(r, "rc_first")
    /\ UNCHANGED <<list, thread, ret, mode, remaining, current, barrier, ran, requests, flips>>

\* RequestCheckpoint sets the flag of a Runnable thread ...
SetRequest(r, t) ==
    /\ state[t] = "kRunnable"
    /\ request' = request \cup {t}
    /\ current' = [current EXCEPT ![r] = t]
    /\ todo' = [todo EXCEPT ![r] = @ \ {t}]
    /\ ret' = [ret EXCEPT ![r] = pc[r]]
    /\ Goto(r, "rc_insert")
    /\ UNCHANGED <<list, lock, state, checkpoints, suspend_count, flip, running, mode, count, barrier,
                   ran, requests, flips>>

\* ... and then adds the closure.
InsertCheckpoint(r) ==
    /\ pc[r] = "rc_insert"
    /\ checkpoints' = [checkpoints EXCEPT ![current[r]] = Append(@, r)]
    /\ current' = [current EXCEPT ![r] = None]
    /\ Goto(r, ret[r])
    /\ UNCHANGED <<list, lock, state, request, suspend_count, flip, running, ret, mode, todo, remaining,
                   count, barrier, ran, requests, flips>>

\* First try to install the closure in each thread.
FirstRunnable(r, t) ==
    /\ pc[r] = "rc_first" /\ t \in todo[r]
    /\ SetRequest(r, t)
    /\ UNCHANGED remaining

FirstSuspended(r, t) ==
    /\ pc[r] = "rc_first" /\ t \in todo[r]
    /\ state[t] # "kRunnable"
    /\ todo' = [todo EXCEPT ![r] = @ \ {t}]
    /\ remaining' = [remaining EXCEPT ![r] = @ \cup {t}]
    /\ UNCHANGED <<list, lock, thread, pc, ret, mode, current, count, barrier, ran, requests, flips>>

\* The next sweep over the remaining threads, if there are any.
NextSweep(r) ==
    /\ pc[r] \in {"rc_first", "rc_sweep"} /\ todo[r] = {}
    /\ remaining[r] # {}
    /\ todo' = [todo EXCEPT ![r] = remaining[r]]
    /\ Goto(r, "rc_sweep")
    /\ UNCHANGED <<list, lock, thread, ret, mode, remaining, current, count, barrier, ran, requests, flips>>

\* A mutant: the thread stays in remaining_threads.
Done_Kept(r, t) == remaining[r]

\* remaining_threads[i] = nullptr
Done(r, t) == remaining[r] \ {t}

CountAfterExit(r) == count[r] - 1

\* tefs[i].HasExited()
SweepExited(r, t) ==
    /\ pc[r] = "rc_sweep" /\ t \in todo[r]
    /\ t \notin list
    /\ todo' = [todo EXCEPT ![r] = @ \ {t}]
    /\ remaining' = [remaining EXCEPT ![r] = Done(r, t)]
    /\ count' = [count EXCEPT ![r] = CountAfterExit(r)]
    /\ UNCHANGED <<list, lock, thread, pc, ret, mode, current, barrier, ran, requests, flips>>

\* The thread became Runnable and will run the closure itself.
SweepRunnable(r, t) ==
    /\ pc[r] = "rc_sweep" /\ t \in todo[r]
    /\ t \in list
    /\ SetRequest(r, t)
    /\ remaining' = [remaining EXCEPT ![r] = Done(r, t)]

\* RequestCheckpoint found the thread suspended.
SweepSuspended(r, t) ==
    /\ pc[r] = "rc_sweep" /\ t \in todo[r]
    /\ t \in list /\ state[t] # "kRunnable"
    /\ todo' = [todo EXCEPT ![r] = @ \ {t}]
    /\ current' = [current EXCEPT ![r] = t]
    /\ Goto(r, "rc_suspend")
    /\ UNCHANGED <<list, lock, thread, ret, mode, remaining, count, barrier, ran, requests, flips>>

\* A mutant: the check is the wrong way round.
StaysSuspended_Inverted(t) == state[t] = "kRunnable"

\* A mutant: the thread's state is not looked at again.
StaysSuspended_Unchecked(t) == TRUE

\* IsSuspended() after the increment of the suspend count.
StaysSuspended(t) == state[t] # "kRunnable"

Held(r) == [suspend_count EXCEPT ![current[r]] = @ + 1]

\* IncrementSuspendCount, so that a suspended thread stays so.
SweepIncrement(r) ==
    /\ pc[r] = "rc_suspend"
    /\ suspend_count' = Held(r)
    /\ Goto(r, "rc_check")
    /\ UNCHANGED <<list, lock, state, request, checkpoints, flip, running, ret, sweep, barrier,
                   ran, requests, flips>>

\* It is suspended: release the locks to run the closure.
SweepHold(r) ==
    /\ pc[r] = "rc_check"
    /\ StaysSuspended(current[r])
    /\ lock' = None
    /\ Goto(r, "rc_run")
    /\ UNCHANGED <<list, thread, ret, sweep, barrier, ran, requests, flips>>

\* The suspend count goes down again and the thread is left to the next sweep.
Skip(r) ==
    /\ suspend_count' = [suspend_count EXCEPT ![current[r]] = @ - 1]
    /\ current' = [current EXCEPT ![r] = None]
    /\ Goto(r, "rc_sweep")
    /\ UNCHANGED <<list, state, request, checkpoints, flip, running, ret, mode, todo, remaining,
                   count, barrier, ran, requests, flips>>

\* The thread became Runnable before the increment.
SweepMissed(r) ==
    /\ pc[r] = "rc_check"
    /\ ~StaysSuspended(current[r])
    /\ Skip(r)
    /\ UNCHANGED lock

\* Another thread is running the flip function of the thread.
SweepFlipping(r) ==
    /\ pc[r] = "rc_run" /\ mode[r] # "none"
    /\ flip[current[r]] = "running"
    /\ lock = None /\ lock' = r
    /\ Skip(r)

\* The requester runs the closure on behalf of the suspended thread, and before it, if the
\* closure may look at Java objects, the thread's pending flip function.
RunOnBehalf(r) ==
    /\ pc[r] = "rc_run"
    /\ mode[r] # "none" => flip[current[r]] # "running"
    /\ flip' = IF mode[r] = "none" THEN flip ELSE [flip EXCEPT ![current[r]] = "none"]
    /\ Run(r, current[r])
    /\ Goto(r, "rc_release")
    /\ UNCHANGED <<list, lock, state, request, checkpoints, suspend_count, running, ret, sweep,
                   requests, flips>>

\* The thread may run again.  With acquire_mutator_lock the requester now gives others
\* a chance to suspend it.
ReleaseThread(r) ==
    /\ pc[r] = "rc_release"
    /\ lock = None
    /\ suspend_count' = [suspend_count EXCEPT ![current[r]] = @ - 1]
    /\ remaining' = [remaining EXCEPT ![r] = Done(r, current[r])]
    /\ current' = [current EXCEPT ![r] = None]
    /\ IF mode[r] = "acquire"
       THEN /\ ret' = [ret EXCEPT ![r] = "rc_lock"]
            /\ Goto(r, "leave")
            /\ UNCHANGED lock
       ELSE /\ lock' = r
            /\ Goto(r, "rc_sweep")
            /\ UNCHANGED ret
    /\ UNCHANGED <<list, state, request, checkpoints, flip, running, mode, todo, count, barrier, ran,
                   requests, flips>>

Relock(r) ==
    /\ pc[r] = "rc_lock"
    /\ lock = None /\ lock' = r
    /\ Goto(r, "rc_sweep")
    /\ UNCHANGED <<list, thread, ret, sweep, barrier, ran, requests, flips>>

\* No thread remains: unlock, and run the closure on the requester itself.
RunOnSelf(r) ==
    /\ pc[r] \in {"rc_first", "rc_sweep"} /\ todo[r] = {} /\ remaining[r] = {}
    /\ lock' = None
    /\ Goto(r, "rc_self")
    /\ UNCHANGED <<list, thread, ret, sweep, barrier, ran, requests, flips>>

\* RunCheckpoint returns count; the caller waits for the barrier in a suspended state.
Return(r) ==
    /\ pc[r] = "rc_self"
    /\ ran' = [ran EXCEPT ![r][r] = @ + 1]
    /\ barrier' = [barrier EXCEPT ![r] = @ - 1 + count[r]]
    /\ IF mode[r] = "none"
       THEN Goto(r, "rc_wait") /\ UNCHANGED ret
       ELSE Goto(r, "leave") /\ ret' = [ret EXCEPT ![r] = "rc_wait"]
    /\ UNCHANGED <<list, lock, thread, sweep, requests, flips>>

\* Barrier::Increment returns.
WaitOver(r) ==
    /\ pc[r] = "rc_wait"
    /\ barrier[r] = 0
    /\ IF mode[r] = "held" THEN Goto(r, "resume") /\ ret' = [ret EXCEPT ![r] = "java"]
                           ELSE Goto(r, "native") /\ UNCHANGED ret
    /\ count' = [count EXCEPT ![r] = 0]
    /\ ran' = [ran EXCEPT ![r] = [t \in Thread |-> 0]]
    /\ UNCHANGED <<list, lock, thread, mode, todo, remaining, current, barrier, requests, flips>>

------------------------------------------------------------------------------
(* ThreadList::FlipThreadRoots, as far as a checkpoint notices it (see FlipFunction) *)

\* With all threads suspended each gets a flip function.
FlipThreadRoots ==
    /\ flips < MaxFlips /\ flips' = flips + 1
    /\ list # {} /\ lock = None
    /\ \A t \in list : state[t] # "kRunnable" /\ flip[t] = "none"
    /\ flip' = [t \in Thread |-> IF t \in list THEN "pending" ELSE flip[t]]
    /\ UNCHANGED <<list, lock, state, request, checkpoints, suspend_count, running, pc, ret, sweep,
                   barrier, ran, requests>>

\* Some other thread starts to run the flip function of t ...
FlipBegin(t) ==
    /\ t \in list /\ flip[t] = "pending"
    /\ flip' = [flip EXCEPT ![t] = "running"]
    /\ UNCHANGED <<list, lock, state, request, checkpoints, suspend_count, running, pc, ret, sweep,
                   barrier, ran, requests, flips>>

\* ... and ends it.
FlipEnd(t) ==
    /\ flip[t] = "running"
    /\ flip' = [flip EXCEPT ![t] = "none"]
    /\ UNCHANGED <<list, lock, state, request, checkpoints, suspend_count, running, pc, ret, sweep,
                   barrier, ran, requests, flips>>

------------------------------------------------------------------------------
\* Every thread has detached.
Terminated == (\A t \in Thread : pc[t] = "exited") /\ UNCHANGED vars

\* What a thread does by itself.
Step(t) ==
    \/ BecomeRunnable(t) \/ BecomeSuspended(t) \/ TakeCheckpoint(t) \/ RunCheckpointFunction(t)
    \/ Suspend(t, "java")
    \/ Lock(t) \/ InsertCheckpoint(t) \/ NextSweep(t) \/ SweepIncrement(t)
    \/ SweepHold(t) \/ SweepMissed(t) \/ SweepFlipping(t)
    \/ RunOnBehalf(t) \/ ReleaseThread(t) \/ Relock(t) \/ RunOnSelf(t) \/ Return(t) \/ WaitOver(t)
    \/ \E u \in Thread : \/ FirstRunnable(t, u) \/ FirstSuspended(t, u) \/ SweepExited(t, u)
                         \/ SweepRunnable(t, u) \/ SweepSuspended(t, u)

\* What it may or may not do.
Choice(t) ==
    \/ Register(t) \/ Unregister(t) \/ LeaveNative(t) \/ Suspend(t, "native")
    \/ RunCheckpoint(t) \/ FlipBegin(t)

Next == (\E t \in Thread : Step(t) \/ Choice(t) \/ FlipEnd(t)) \/ FlipThreadRoots \/ Terminated

Spec == Init /\ [][Next]_vars

\* No thread stops, and none for ever becomes Runnable just between the failure of
\* RequestCheckpoint and the increment of its suspend count.
FairSpec ==
    /\ Spec
    /\ \A t \in Thread :
          /\ WF_vars(Step(t)) /\ WF_vars(FlipEnd(t))
          /\ SF_vars(SweepIncrement(t) /\ StaysSuspended(current[t]))

------------------------------------------------------------------------------
(* Properties *)

\* r is in RunCheckpoint or waits for its barrier: its closure exists.
Active(r) ==
    \/ pc[r] \in {"rc_start", "rc_first", "rc_insert", "rc_sweep", "rc_suspend", "rc_check",
                  "rc_run", "rc_release", "rc_lock", "rc_self", "rc_wait"}
    \/ pc[r] \in {"resume", "leave"} /\ ret[r] \in {"rc_start", "rc_lock", "rc_wait"}

\* The closure of r is still to run on t.
Pending(r, t) == running[t] = r \/ \E i \in DOMAIN checkpoints[t] : checkpoints[t][i] = r

\* No closure runs or waits to run after its requester's wait for the barrier is over: it
\* would be on a stack frame that is gone.
ClosureAlive == \A r, t \in Thread : Pending(r, t) => Active(r)

\* A closure runs at most once on each thread, whether the thread runs it or the requester.
AtMostOnce ==
    \A r, t \in Thread : ran[r][t] + (IF Pending(r, t) THEN 1 ELSE 0) <= 1

\* What RunCheckpoint returns is the number of times the closure has run or will run, so
\* that the barrier neither lets the requester go early nor holds it for ever.
CountExact ==
    \A r \in Thread : pc[r] = "rc_wait" \/ (pc[r] = "leave" /\ ret[r] = "rc_wait") =>
        barrier[r] = Cardinality({t \in Thread : Pending(r, t)})

\* While the requester runs the closure for a thread, that thread is in the list and not
\* Runnable, and has no checkpoint of its own in hand.
OnBehalfExclusive ==
    \A r \in Thread : pc[r] \in {"rc_run", "rc_release"} =>
        /\ current[r] \in list
        /\ state[current[r]] = "kSuspended" /\ running[current[r]] = None

\* A suspended thread has no checkpoint to run, and a thread that takes the lock to run one
\* finds it: the fatal error of TransitionFromSuspendedToRunnable and the CHECK of
\* RunCheckpointFunction cannot fail.
RequestsConsistent ==
    \A t \in Thread :
        /\ state[t] = "kSuspended" => t \notin request /\ checkpoints[t] = <<>>
        /\ lock = None => (t \in request <=> checkpoints[t] # <<>>)

==============================================================================
