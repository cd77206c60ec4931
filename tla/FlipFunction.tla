----------------------------- MODULE FlipFunction -----------------------------
(***************************************************************************)
(* Thread flips: ThreadList::FlipThreadRoots (runtime/thread_list.cc)      *)
(* leaves every thread a flip function while all are suspended.  The       *)
(* thread itself when it becomes Runnable, a thread that runs a checkpoint *)
(* on its behalf, and the collector race to run it                         *)
(* (Thread::EnsureFlipFunctionStarted, runtime/thread.cc).                 *)
(*                                                                         *)
(* thread_list_lock_ and thread_suspend_count_lock_ are held within single *)
(* steps only.  suspend_all stands for the suspend count that              *)
(* SuspendAllInternal adds to every thread, pins for those of the threads  *)
(* that run a checkpoint on a thread's behalf; how they come to hold is in *)
(* ThreadSuspension and Checkpoint.                                        *)
(***************************************************************************)
EXTENDS Integers, FiniteSets

CONSTANTS
    Mutator,   \* the mutator threads that may exist
    Gc,        \* the thread that runs the collector
    None,      \* no thread
    MaxFlips   \* bound on the number of thread flips

ThreadAssumption ==
    IsFiniteSet(Mutator) /\ Gc \notin Mutator /\ None \notin Mutator \cup {Gc}
BoundAssumption == MaxFlips \in Nat

All == Mutator \cup {Gc}

VARIABLES
    list,           \* ThreadList::list_
    runnable,       \* the threads in state kRunnable
    suspend_all,    \* every thread has a suspend request of the collector
    pins,           \* per thread: the threads that keep it suspended for a checkpoint
    pending,        \* the threads with kPendingFlipFunction
    running,        \* the threads with kRunningFlipFunction
    flip_function,  \* the threads whose tlsPtr_.flip_function is not null
    resume_cond,    \* the threads that wait on resume_cond_
    pc,             \* where each thread is
    arg,            \* the thread whose flip function it deals with
    ret,            \* where it goes after running a flip function
    exit_flags,     \* the threads that the collector's ThreadExitFlags are registered with
    flipping,       \* flipping_threads
    todo,           \* those of flipping_threads still to be visited in this pass
    flipped,        \* how often each thread's flip function ran in this flip
    flips           \* how many flips there have been

flags == <<runnable, suspend_all, pins, pending, running, flip_function>>
collector == <<exit_flags, flipping, todo, flips>>
vars == <<list, flags, resume_cond, pc, arg, ret, collector, flipped>>

Goto(t, l) == pc' = [pc EXCEPT ![t] = l]

\* kSuspendRequest
SuspendRequest(t) == t # Gc /\ (suspend_all \/ pins[t] # {})

Init ==
    /\ list = {Gc}
    /\ runnable = {} /\ suspend_all = FALSE
    /\ pins = [t \in All |-> {}]
    /\ pending = {} /\ running = {} /\ flip_function = {} /\ resume_cond = {}
    /\ pc = [t \in All |-> IF t = Gc THEN "gc_idle" ELSE "new"]
    /\ arg = [t \in All |-> None]
    /\ ret = [t \in All |-> "java"]
    /\ exit_flags = {} /\ flipping = {} /\ todo = {}
    /\ flipped = [t \in All |-> 0]
    /\ flips = 0

------------------------------------------------------------------------------
(* Running a flip function *)

\* A mutant: the pending flag stays.
Unclaimed_Kept(u) == pending

Unclaimed(u) == pending \ {u}

\* The compare-and-set that gives t the flip function of u to run.
Claim(t, u, l) ==
    /\ u \in pending
    /\ pending' = Unclaimed(u)
    /\ running' = running \cup {u}
    /\ arg' = [arg EXCEPT ![t] = u]
    /\ ret' = [ret EXCEPT ![t] = l]
    /\ Goto(t, "flip_run")
    /\ UNCHANGED <<list, suspend_all, flip_function, resume_cond, flipped>>

\* RunFlipFunction: run the closure ...
RunFlipFunction(t) ==
    /\ pc[t] = "flip_run"
    /\ flip_function' = flip_function \ {arg[t]}
    /\ flipped' = [flipped EXCEPT ![arg[t]] = @ + 1]
    /\ Goto(t, "flip_clear")
    /\ UNCHANGED <<list, runnable, suspend_all, pins, pending, running, resume_cond, arg, ret,
                   collector>>

\* ... clear the flag, after which the thread may go away ...
ClearRunning(t) ==
    /\ pc[t] = "flip_clear"
    /\ running' = running \ {arg[t]}
    /\ Goto(t, "flip_broadcast")
    /\ UNCHANGED <<list, runnable, suspend_all, pins, pending, flip_function, resume_cond, arg, ret,
                   collector, flipped>>

\* ... and wake whoever waits for it; the locals of the call are gone.
BroadcastFlipped(t) ==
    /\ pc[t] = "flip_broadcast"
    /\ resume_cond' = {}
    /\ Goto(t, ret[t])
    /\ arg' = [arg EXCEPT ![t] = IF ret[t] = "java" THEN None ELSE @]
    /\ ret' = [ret EXCEPT ![t] = "java"]
    /\ UNCHANGED <<list, flags, collector, flipped>>

StillRunning(u) == u \in running

\* WaitForFlipFunction: test the flag and start to wait, under thread_suspend_count_lock_.
WaitForFlipFunction(t, u, from, to) ==
    /\ pc[t] = from /\ t \notin resume_cond
    /\ IF StillRunning(u)
       THEN resume_cond' = resume_cond \cup {t} /\ UNCHANGED pc
       ELSE Goto(t, to) /\ UNCHANGED resume_cond
    /\ UNCHANGED <<list, flags, arg, ret, collector, flipped>>

------------------------------------------------------------------------------
(* Mutators *)

\* A thread that attaches during a SuspendAll inherits its request; it has nothing to flip.
Register(t) ==
    /\ pc[t] = "new"
    /\ list' = list \cup {t}
    /\ Goto(t, "native")
    /\ UNCHANGED <<flags, resume_cond, arg, ret, collector, flipped>>

\* No kRunningFlipFunction, no kSuspendRequest.
MayDetach(t) == t \notin running /\ ~SuspendRequest(t)

\* A flip function it has not run by then is never run.
Unregister(t) ==
    /\ pc[t] = "native"
    /\ MayDetach(t)
    /\ list' = list \ {t}
    /\ Goto(t, "exited")
    /\ UNCHANGED <<flags, resume_cond, arg, ret, collector, flipped>>

LeaveNative(t) ==
    /\ pc[t] = "native"
    /\ Goto(t, "resume")
    /\ UNCHANGED <<list, flags, resume_cond, arg, ret, collector, flipped>>

\* A mutant: a thread becomes Runnable without a look at kRunningFlipFunction.
Flipped_NotPending(t) == t \notin pending

\* None of FlipFunctionFlags() is set.
Flipped(t) == t \notin pending \cup running

\* TransitionFromSuspendedToRunnable with nothing to flip ...
BecomeRunnable(t) ==
    /\ pc[t] = "resume"
    /\ ~SuspendRequest(t) /\ Flipped(t)
    /\ runnable' = runnable \cup {t}
    /\ Goto(t, "java")
    /\ UNCHANGED <<list, suspend_all, pins, pending, running, flip_function, resume_cond, arg, ret,
                   collector, flipped>>

\* ... with a pending flip function, which it claims as it becomes Runnable ...
BecomeRunnableAndFlip(t) ==
    /\ pc[t] = "resume"
    /\ ~SuspendRequest(t)
    /\ Claim(t, t, "java")
    /\ runnable' = runnable \cup {t}
    /\ UNCHANGED <<pins, collector>>

\* ... and with one that another thread is running.
AwaitFlip(t) ==
    /\ pc[t] = "resume"
    /\ ~SuspendRequest(t) /\ t \in running
    /\ Goto(t, "flip_wait")
    /\ UNCHANGED <<list, flags, resume_cond, arg, ret, collector, flipped>>

\* A suspend check, or a call of native code.
BecomeSuspended(t, l) ==
    /\ pc[t] = "java"
    /\ l = "resume" => SuspendRequest(t)
    /\ runnable' = runnable \ {t}
    /\ Goto(t, l)
    /\ UNCHANGED <<list, suspend_all, pins, pending, running, flip_function, resume_cond, arg, ret,
                   collector, flipped>>

\* A Runnable thread keeps u suspended to run a checkpoint on its behalf; u may be the thread
\* that runs the collector, which is not Runnable.
Pin(t, u) ==
    /\ pc[t] = "java" /\ t # u
    /\ u \in list \ runnable
    /\ pins' = [pins EXCEPT ![u] = @ \cup {t}]
    /\ arg' = [arg EXCEPT ![t] = u]
    /\ Goto(t, "pinned")
    /\ UNCHANGED <<list, runnable, suspend_all, pending, running, flip_function, resume_cond, ret,
                   collector, flipped>>

\* Its call of EnsureFlipFunctionStarted finds a flip function to run ...
EnsureFlipped(t) ==
    /\ pc[t] = "pinned"
    /\ Claim(t, arg[t], "pinned")
    /\ UNCHANGED <<runnable, pins, collector>>

\* ... or finds none, or one that another thread runs: RunCheckpoint then gives up for now
\* and RequestSynchronousCheckpoint waits.
EnsureNothingPending(t) ==
    /\ pc[t] = "pinned" /\ arg[t] \notin pending
    /\ \/ arg[t] \in running /\ Goto(t, "unpin")
       \/ Goto(t, "flip_await")
    /\ UNCHANGED <<list, flags, resume_cond, arg, ret, collector, flipped>>

\* The suspend count goes down again, with a broadcast.
Unpin(t) ==
    /\ pc[t] \in {"unpin", "behalf"}
    /\ pins' = [pins EXCEPT ![arg[t]] = @ \ {t}]
    /\ arg' = [arg EXCEPT ![t] = None]
    /\ resume_cond' = {}
    /\ Goto(t, "java")
    /\ UNCHANGED <<list, runnable, suspend_all, pending, running, flip_function, ret, collector,
                   flipped>>

------------------------------------------------------------------------------
(* ThreadList::FlipThreadRoots, by the collector *)

SuspendAll ==
    /\ pc[Gc] = "gc_idle" /\ flips < MaxFlips
    /\ flips' = flips + 1
    /\ suspend_all' = TRUE
    /\ Goto(Gc, "gc_suspending")
    /\ UNCHANGED <<list, runnable, pins, pending, running, flip_function, resume_cond, arg, ret,
                   exit_flags, flipping, todo, flipped>>

\* With all suspended, SetFlipFunction and NotifyOnThreadExit for every thread of the list.
SetFlipFunctions ==
    /\ pc[Gc] = "gc_suspending" /\ runnable = {}
    /\ pending' = list /\ flip_function' = list
    /\ exit_flags' = list /\ flipping' = list /\ todo' = list
    /\ flipped' = [t \in All |-> 0]
    /\ Goto(Gc, "gc_resume")
    /\ UNCHANGED <<list, runnable, suspend_all, pins, running, resume_cond, arg, ret, flips>>

ResumeAll ==
    /\ pc[Gc] = "gc_resume"
    /\ suspend_all' = FALSE
    /\ resume_cond' = {}
    /\ Goto(Gc, "gc_ensure")
    /\ UNCHANGED <<list, runnable, pins, pending, running, flip_function, arg, ret, collector,
                   flipped>>

\* exit_flags[i].HasExited()
HasExited(u) == u \notin list

\* The first pass, the collector itself first: EnsureFlipFunctionStarted runs the function ...
EnsureStarted(u) ==
    /\ pc[Gc] = "gc_ensure" /\ u \in todo /\ (Gc \in todo => u = Gc)
    /\ ~HasExited(u)
    /\ todo' = todo \ {u}
    /\ Claim(Gc, u, "gc_finished")
    /\ UNCHANGED <<runnable, pins, exit_flags, flipping, flips>>

\* ... or finds it finished, as it is when the thread has exited ...
EnsureFinished(u) ==
    /\ pc[Gc] = "gc_ensure" /\ u \in todo /\ (Gc \in todo => u = Gc)
    /\ HasExited(u) \/ u \notin pending \cup running
    /\ todo' = todo \ {u}
    /\ arg' = [arg EXCEPT ![Gc] = u]
    /\ Goto(Gc, "gc_finished")
    /\ UNCHANGED <<list, flags, resume_cond, ret, exit_flags, flipping, flips, flipped>>

\* ... or running on another thread: left to the second pass.
EnsureRunning(u) ==
    /\ pc[Gc] = "gc_ensure" /\ u \in todo /\ (Gc \in todo => u = Gc)
    /\ ~HasExited(u) /\ u \in running
    /\ todo' = todo \ {u}
    /\ UNCHANGED <<list, flags, resume_cond, pc, arg, ret, exit_flags, flipping, flips, flipped>>

Unfinished(u) == flipping \ {u}

\* UnregisterThreadExitFlag; flipping_threads[i] = nullptr
Finished(from, to) ==
    /\ pc[Gc] = from
    /\ exit_flags' = exit_flags \ {arg[Gc]}
    /\ flipping' = Unfinished(arg[Gc])
    /\ arg' = [arg EXCEPT ![Gc] = None]
    /\ Goto(Gc, to)
    /\ UNCHANGED <<list, flags, resume_cond, ret, todo, flips, flipped>>

EnsureUnregister == Finished("gc_finished", "gc_ensure")

\* The second pass: wait for the flips that others run.
SecondPass(u) ==
    /\ pc[Gc] \in {"gc_ensure", "gc_second"} /\ todo = {} /\ u \in flipping
    /\ arg' = [arg EXCEPT ![Gc] = u]
    /\ Goto(Gc, "gc_await")
    /\ UNCHANGED <<list, flags, resume_cond, ret, collector, flipped>>

\* WaitForFlipFunctionTestingExited
AwaitTestingExited ==
    IF arg[Gc] \in list
    THEN WaitForFlipFunction(Gc, arg[Gc], "gc_await", "gc_waited")
    ELSE /\ pc[Gc] = "gc_await" /\ Gc \notin resume_cond
         /\ Goto(Gc, "gc_waited")
         /\ UNCHANGED <<list, flags, resume_cond, arg, ret, collector, flipped>>

AwaitUnregister == Finished("gc_waited", "gc_second")

FlipReturns ==
    /\ pc[Gc] \in {"gc_ensure", "gc_second"} /\ todo = {} /\ flipping = {}
    /\ Goto(Gc, "gc_idle")
    /\ UNCHANGED <<list, flags, resume_cond, arg, ret, collector, flipped>>

------------------------------------------------------------------------------
Flip(t) == RunFlipFunction(t) \/ ClearRunning(t) \/ BroadcastFlipped(t)

\* What a mutator does by itself.
MutatorStep(t) ==
    \/ Flip(t)
    \/ BecomeRunnable(t) \/ BecomeRunnableAndFlip(t) \/ AwaitFlip(t)
    \/ WaitForFlipFunction(t, t, "flip_wait", "resume")
    \/ BecomeSuspended(t, "resume")
    \/ EnsureFlipped(t) \/ EnsureNothingPending(t) \/ Unpin(t)
    \/ WaitForFlipFunction(t, arg[t], "flip_await", "behalf")

MutatorChoice(t) ==
    \/ Register(t) \/ Unregister(t) \/ LeaveNative(t) \/ BecomeSuspended(t, "native")
    \/ \E u \in All : Pin(t, u)

FlipThreadRoots ==
    \/ Flip(Gc)
    \/ SetFlipFunctions \/ ResumeAll \/ EnsureUnregister \/ AwaitTestingExited \/ AwaitUnregister
    \/ FlipReturns
    \/ \E u \in All : EnsureStarted(u) \/ EnsureFinished(u) \/ EnsureRunning(u) \/ SecondPass(u)

\* All mutators have detached and the collector is done.
Terminated ==
    /\ \A t \in Mutator : pc[t] = "exited"
    /\ pc[Gc] = "gc_idle" /\ flips = MaxFlips
    /\ UNCHANGED vars

Next ==
    \/ \E t \in Mutator : MutatorStep(t) \/ MutatorChoice(t)
    \/ SuspendAll \/ FlipThreadRoots \/ Terminated

Spec == Init /\ [][Next]_vars

\* No thread stops while it has something to do, and managed code polls for suspension again
\* and again.
FairSpec ==
    /\ Spec
    /\ \A t \in Mutator : WF_vars(MutatorStep(t)) /\ SF_vars(BecomeSuspended(t, "resume"))
    /\ WF_vars(FlipThreadRoots)

------------------------------------------------------------------------------
(* Properties *)

\* t runs managed code, and may look at any reference on its stack.
InJava(t) == pc[t] \in {"java", "pinned", "flip_await", "unpin", "behalf"}

\* Managed code never runs on a thread whose flip function has not been run to its end.
FlippedBeforeJava ==
    \A t \in Mutator : InJava(t) => t \notin pending \cup running \cup flip_function

\* A flip function is claimed by one thread only, and only while it has not been run.
FlipExactlyOnce ==
    /\ \A t \in All : pc[t] = "flip_run" => arg[t] \in flip_function
    /\ \A t, u \in All :
          pc[t] \in {"flip_run", "flip_clear"} /\ pc[u] \in {"flip_run", "flip_clear"}
             /\ arg[t] = arg[u] => t = u

\* A checkpoint that is run on behalf of a thread finds that thread suspended and flipped.
BehalfFlipped ==
    \A t \in Mutator : pc[t] = "behalf" =>
        arg[t] \in list \ runnable /\ arg[t] \notin pending \cup running

\* A thread whose flip function is being run has not been deleted.
TargetAlive ==
    \A t \in All : pc[t] \in {"flip_run", "flip_clear"} => arg[t] \in list

\* When FlipThreadRoots returns all flips are complete, of threads that still exist, and none
\* of its ThreadExitFlags is registered any more.
FlipsComplete ==
    pc[Gc] = "gc_idle" => (pending \cup running) \cap list = {} /\ exit_flags = {}

==============================================================================
