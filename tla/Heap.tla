--------------------------------- MODULE Heap ---------------------------------
(***************************************************************************)
(* How runtime/gc/heap.cc decides who collects and when: the lock and      *)
(* condition gc_complete_lock_ / gc_complete_cond_ with                    *)
(* collector_type_running_, the GC numbers gcs_completed_ and              *)
(* max_gc_requested_, the heap task daemon's concurrent GCs and trims, GC  *)
(* critical sections, the disabling of moving GCs, and shutdown.           *)
(*                                                                         *)
(* What a collection does to the heap is left out; gc_complete_lock_       *)
(* sections are single steps.  A thread waiting on gc_complete_cond_ is in *)
(* waiters and stays at the pc whose test it will repeat.  One thread, a   *)
(* debugger, may suspend another and go on allocating before it resumes    *)
(* it; a suspended thread stops where it would become runnable.            *)
(***************************************************************************)
EXTENDS Threads, Integers, FiniteSets

CONSTANTS
    Daemon,     \* the heap task daemon
    Suspender,  \* the mutator that may suspend another
    W,          \* GC numbers are modulo W, for the code's 2^32
    StartNum,   \* the GC number at the start, close to W
    MaxOps      \* bound on the operations a mutator starts, one more for the Suspender

ASSUME HeapAssumption ==
    /\ IsFiniteSet(Thread)
    /\ W \in Nat \ {0}
    /\ StartNum \in 0..W-1

All == Thread \cup {Daemon}

VARIABLES
    collector_type,          \* is collector_type_ a moving collector?  Fixed
    collector_type_running,
    waiters,                 \* threads waiting on gc_complete_cond_
    gcs_completed,
    max_gc_requested,
    disable_moving_gc_count,
    gc_disabled_for_shutdown,
    shutting_down,           \* Runtime::IsShuttingDown
    gc_tasks,                \* the numbers of the queued ConcurrentGCTasks
    pending_trim,            \* pending_heap_trim_ # nullptr
    pc,
    num,                     \* per thread: requested_gc_num, observed_gc_num or GC_NUM_ANY
    seen,                    \* per thread: starting_gc_num of the wait, or the loaded maximum
    waited,                  \* per thread: what WaitForGcToComplete will return
    gc_type,                 \* the daemon's gc_type: 1 sticky, 2 partial, 3 full
    suspended,               \* the thread the Suspender holds suspended, or None
    ops                      \* per mutator: operations left

gcvars == <<collector_type_running, gcs_completed>>
reqvars == <<max_gc_requested, gc_tasks, pending_trim>>
offvars == <<collector_type, disable_moving_gc_count, gc_disabled_for_shutdown, shutting_down>>
locals == <<num, seen, waited, gc_type>>
env == <<suspended, ops>>
vars == <<gcvars, reqvars, offvars, waiters, pc, locals, env>>

ANY == W        \* GC_NUM_ANY
Plus(n, k) == (n + k) % W

\* "unsigned comparison, assuming a non-huge difference, but dealing with wrapping"
GCNumberLt(n1, n2) ==
    LET difference == (n2 - n1 + W) % W
    IN  difference > 0 /\ difference <= W \div 2

\* t may be, or become, runnable: nobody holds it suspended, nor all but the daemon.
Runnable(t) == suspended # t /\ (pc[Daemon] = "deflating" => t = Daemon)

Goto(t, l) == pc' = [pc EXCEPT ![t] = l]
Idle(t) == IF t = Daemon THEN "task" ELSE "idle"

Init ==
    /\ collector_type \in {"moving", "nonmoving"}
    /\ collector_type_running = "none"
    /\ waiters = {}
    /\ gcs_completed = StartNum /\ max_gc_requested = StartNum
    /\ disable_moving_gc_count = 0
    /\ gc_disabled_for_shutdown = FALSE /\ shutting_down = FALSE
    /\ gc_tasks = {} /\ pending_trim = FALSE
    /\ pc = [t \in All |-> Idle(t)]
    /\ num = [t \in All |-> ANY]
    /\ seen = [t \in All |-> ANY]
    /\ waited = [t \in All |-> FALSE]
    /\ gc_type = 1
    /\ suspended = None
    /\ ops = [t \in Thread |-> IF t = Suspender THEN MaxOps + 1 ELSE MaxOps]

------------------------------------------------------------------------------
(* WaitForGcToCompleteLocked *)

\* The places that wait for one GC at most (only_one), and those that wait
\* until nothing runs.
OneGc == {"alloc", "native_wait", "concurrent", "shutdown_wait"}
AnyGc == {"collect", "start", "compact", "deflate", "trim", "no_moving_wait"}

Free == collector_type_running = "none"

\* The wait is over for a thread at an only_one place.
OneGcDone(t) == Free \/ (seen[t] # ANY /\ ~GCNumberLt(gcs_completed, Plus(seen[t], 1)))

\* gc_complete_cond_->Wait.  On waking the thread reads last_gc_type_, which is not
\* kGcTypeNone once a GC completed, and StartNum of them have.
Wait(t) ==
    /\ t \notin waiters
    /\ \/ pc[t] \in AnyGc /\ ~Free
       \/ pc[t] \in OneGc /\ ~OneGcDone(t)
    /\ waiters' = waiters \cup {t}
    /\ seen' = IF pc[t] \in OneGc /\ seen[t] = ANY
               THEN [seen EXCEPT ![t] = gcs_completed] ELSE seen
    /\ waited' = [waited EXCEPT ![t] = TRUE]
    /\ UNCHANGED <<gcvars, reqvars, offvars, pc, num, gc_type, env>>

\* The wait returns without a broadcast (EINTR).
WakeSpuriously(t) ==
    /\ t \in waiters
    /\ waiters' = waiters \ {t}
    /\ UNCHANGED <<gcvars, reqvars, offvars, pc, locals, env>>

\* t holds gc_complete_lock_ at l and its wait, if any, is over.
At(t, l) == pc[t] = l /\ t \notin waiters /\ Free
AtOne(t, l) == pc[t] = l /\ t \notin waiters /\ OneGcDone(t)

\* A wait that is left: its locals go out of scope.
LeaveWait(t) ==
    /\ seen' = [seen EXCEPT ![t] = ANY]
    /\ waited' = [waited EXCEPT ![t] = FALSE]

------------------------------------------------------------------------------
(* CollectGarbageInternal and FinishGC *)

\* A mutator starts an operation in the runnable state.
Begin(t) ==
    /\ t \in Thread /\ pc[t] = "idle" /\ Runnable(t) /\ ops[t] > 0 /\ ~shutting_down
    /\ ops' = [ops EXCEPT ![t] = @ - 1]

\* CollectGarbage: an explicit GC.
CollectGarbage(t) ==
    /\ Begin(t)
    /\ num' = [num EXCEPT ![t] = ANY]
    /\ Goto(t, "internal")
    /\ UNCHANGED <<gcvars, reqvars, offvars, waiters, seen, waited, gc_type, suspended>>

\* AllocateInternalWithGc waits for a running GC first.
AllocateInternalWithGc(t) ==
    /\ Begin(t)
    /\ Goto(t, "alloc")
    /\ UNCHANGED <<gcvars, reqvars, offvars, waiters, locals, suspended>>

\* Runnable again, it either finds memory or asks for the next GC.
AllocateAfterWait(t) ==
    /\ AtOne(t, "alloc") /\ Runnable(t)
    /\ LeaveWait(t)
    /\ \/ /\ waited[t]
          /\ Goto(t, "idle")
          /\ UNCHANGED num
       \/ /\ num' = [num EXCEPT ![t] = Plus(gcs_completed, 1)]
          /\ Goto(t, "internal")
    /\ UNCHANGED <<gcvars, reqvars, offvars, waiters, gc_type, env>>

\* CollectGarbageInternal returned kGcTypeNone: the daemon consults gc_plan_.
ReturnNone(t) ==
    /\ Goto(t, IF t = Daemon THEN "plan" ELSE "idle")
    /\ num' = IF t = Daemon THEN num ELSE [num EXCEPT ![t] = ANY]

\* The early returns: kGcTypePartial without a zygote space, which counts nothing, and
\* "If we are throwing a stack overflow error we probably don't have enough stack",
\* which counts as a GC, without gc_complete_lock_.
CollectEarlyReturn(t) ==
    /\ pc[t] = "internal"
    /\ \/ t = Daemon /\ gc_type = 2 /\ UNCHANGED gcs_completed
       \/ t \in Thread /\ gcs_completed' = Plus(gcs_completed, 1)
    /\ ReturnNone(t)
    /\ UNCHANGED <<collector_type_running, reqvars, offvars, waiters, seen, waited, gc_type, env>>

CollectGarbageInternal(t) ==
    /\ pc[t] = "internal"
    /\ t = Daemon => gc_type # 2
    /\ Goto(t, "collect")
    /\ UNCHANGED <<gcvars, reqvars, offvars, waiters, locals, env>>

AlreadyDone(t) == num[t] # ANY /\ ~GCNumberLt(gcs_completed, num[t])
Impossible == (collector_type = "moving" /\ disable_moving_gc_count # 0) \/ gc_disabled_for_shutdown

\* Mutant of CollectNot: a GC that is disabled is not counted.
CollectNot_Uncounted(t) ==
    /\ At(t, "collect")
    /\ AlreadyDone(t) \/ Impossible
    /\ LeaveWait(t)
    /\ ReturnNone(t)
    /\ UNCHANGED <<gcvars, reqvars, offvars, waiters, gc_type, env>>

\* "The appropriate GC was already triggered elsewhere", or GC is disabled, which
\* counts as a GC.
CollectNot(t) ==
    /\ At(t, "collect")
    /\ AlreadyDone(t) \/ Impossible
    /\ gcs_completed' = IF AlreadyDone(t) THEN gcs_completed ELSE Plus(gcs_completed, 1)
    /\ LeaveWait(t)
    /\ ReturnNone(t)
    /\ UNCHANGED <<collector_type_running, reqvars, offvars, waiters, gc_type, env>>

\* Mutant of CollectStart: disable_moving_gc_count_ was read before the wait, and may
\* have changed since.
CollectStart_StaleCount(t) ==
    /\ At(t, "collect")
    /\ ~AlreadyDone(t)
    /\ waited[t] \/ ~Impossible
    /\ collector_type_running' = "gc"
    /\ LeaveWait(t)
    /\ Goto(t, "gc")
    /\ UNCHANGED <<gcs_completed, reqvars, offvars, waiters, num, gc_type, env>>

CollectStart(t) ==
    /\ At(t, "collect")
    /\ ~AlreadyDone(t) /\ ~Impossible
    /\ collector_type_running' = "gc"
    /\ LeaveWait(t)
    /\ Goto(t, "gc")
    /\ UNCHANGED <<gcs_completed, reqvars, offvars, waiters, num, gc_type, env>>

\* The collector ran; RequestTrim.
CollectRun(t) ==
    /\ pc[t] = "gc"
    /\ pending_trim' = (pending_trim \/ ~shutting_down)
    /\ Goto(t, "finish")
    /\ UNCHANGED <<gcvars, max_gc_requested, gc_tasks, offvars, waiters, locals, env>>

\* FinishGC(gc_type); counted: gc_type # kGcTypeNone.
FinishGC(t, counted) ==
    /\ collector_type_running' = "none"
    /\ gcs_completed' = IF counted THEN Plus(gcs_completed, 1) ELSE gcs_completed
    /\ waiters' = {}

CollectFinish(t) ==
    /\ pc[t] = "finish"
    /\ FinishGC(t, TRUE)
    /\ Goto(t, IF t = Daemon THEN "gc_done" ELSE "idle")
    /\ num' = IF t = Daemon THEN num ELSE [num EXCEPT ![t] = ANY]
    /\ UNCHANGED <<reqvars, offvars, seen, waited, gc_type, env>>

------------------------------------------------------------------------------
(* RequestConcurrentGC, and CheckGCForNative around it *)

\* starting_gc_num = GetCurrentGcNum(), and the target is exceeded.
CheckGCForNative(t) ==
    /\ Begin(t)
    /\ num' = [num EXCEPT ![t] = gcs_completed]
    /\ Goto(t, "request")
    /\ UNCHANGED <<gcvars, reqvars, offvars, waiters, seen, waited, gc_type, suspended>>

\* The load of max_gc_requested_, and CanAddHeapTask.
RequestLoad(t) ==
    /\ pc[t] = "request" /\ Runnable(t)
    /\ CASE GCNumberLt(num[t], max_gc_requested) -> Goto(t, "native") /\ UNCHANGED <<seen, num>>
         [] ~GCNumberLt(num[t], max_gc_requested) /\ ~shutting_down ->
                /\ seen' = [seen EXCEPT ![t] = max_gc_requested]
                /\ Goto(t, "request_cas")
                /\ UNCHANGED num
         [] OTHER -> /\ Goto(t, "idle")
                     /\ num' = [num EXCEPT ![t] = ANY]
                     /\ UNCHANGED seen
    /\ UNCHANGED <<gcvars, reqvars, offvars, waiters, waited, gc_type, env>>

\* The compare-and-set, and AddTask if it succeeded.
RequestCas(t) ==
    /\ pc[t] = "request_cas" /\ Runnable(t)
    /\ IF max_gc_requested = seen[t]
       THEN /\ max_gc_requested' = Plus(num[t], 1)
            /\ gc_tasks' = gc_tasks \cup {Plus(num[t], 1)}
       ELSE UNCHANGED <<max_gc_requested, gc_tasks>>
    /\ seen' = [seen EXCEPT ![t] = ANY]
    /\ Goto(t, "requested")
    /\ UNCHANGED <<gcvars, pending_trim, offvars, waiters, num, waited, gc_type, env>>

\* RequestConcurrentGC returns true; the caller may be content with that.
RequestReturn(t) ==
    /\ pc[t] = "requested" /\ Runnable(t)
    /\ \/ Goto(t, "native") /\ UNCHANGED num
       \/ Goto(t, "idle") /\ num' = [num EXCEPT ![t] = ANY]
    /\ UNCHANGED <<gcvars, reqvars, offvars, waiters, seen, waited, gc_type, env>>

\* The head of the kGcWaitIters loop: no GC is outstanding, or wait for one.
NativeLoop(t) ==
    /\ pc[t] = "native" /\ Runnable(t)
    /\ IF GCNumberLt(gcs_completed, max_gc_requested)
       THEN Goto(t, "native_wait") /\ UNCHANGED num
       ELSE Goto(t, "idle") /\ num' = [num EXCEPT ![t] = ANY]
    /\ UNCHANGED <<gcvars, reqvars, offvars, waiters, seen, waited, gc_type, env>>

\* WaitForGcToComplete returned: done if it waited for a GC, otherwise it goes on to the
\* CHECK.
NativeWaited(t) ==
    /\ AtOne(t, "native_wait") /\ Runnable(t)
    /\ LeaveWait(t)
    /\ \/ waited[t] /\ Goto(t, "idle") /\ num' = [num EXCEPT ![t] = ANY]
       \/ ~waited[t] /\ Goto(t, "native_check") /\ UNCHANGED num
    /\ UNCHANGED <<gcvars, reqvars, offvars, waiters, gc_type, env>>

\* The next iteration.
NativeCheck(t) ==
    /\ pc[t] = "native_check" /\ Runnable(t)
    /\ Goto(t, "native")
    /\ UNCHANGED <<gcvars, reqvars, offvars, waiters, locals, env>>

\* The loop ended: kGcWaitIters.
NativeGiveUp(t) ==
    /\ pc[t] = "native_check" /\ Runnable(t)
    /\ Goto(t, "idle") /\ num' = [num EXCEPT ![t] = ANY]
    /\ UNCHANGED <<gcvars, reqvars, offvars, waiters, seen, waited, gc_type, env>>

------------------------------------------------------------------------------
(* The heap task daemon: ConcurrentGCTask and HeapTrimTask, which it runs in state kNative *)

\* ConcurrentGC returns at once while the runtime is shutting down.
RunConcurrentGCTask(n) ==
    /\ pc[Daemon] = "task" /\ n \in gc_tasks
    /\ gc_tasks' = gc_tasks \ {n}
    /\ num' = [num EXCEPT ![Daemon] = n]
    /\ Goto(Daemon, IF shutting_down THEN "gc_done" ELSE "concurrent")
    /\ UNCHANGED <<gcvars, max_gc_requested, pending_trim, offvars, waiters,
                   seen, waited, gc_type, env>>

\* WaitForGcToComplete returned.  "If this incremented GC number, we're done."
ConcurrentGC ==
    /\ AtOne(Daemon, "concurrent")
    /\ LeaveWait(Daemon)
    /\ IF GCNumberLt(gcs_completed, num[Daemon])
       THEN gc_type' \in 1..3 /\ Goto(Daemon, "internal")
       ELSE Goto(Daemon, "gc_done") /\ UNCHANGED gc_type
    /\ UNCHANGED <<gcvars, reqvars, offvars, waiters, num, env>>

\* Mutant of TryNextGcType: when the type chosen could not run, no other is tried.
TryNextGcType_GiveUp ==
    /\ pc[Daemon] = "plan"
    /\ Goto(Daemon, "gc_done")
    /\ UNCHANGED <<gcvars, reqvars, offvars, waiters, locals, env>>

\* The loop over gc_plan_: "somebody did it for us", or try the next larger type.
TryNextGcType ==
    /\ pc[Daemon] = "plan"
    /\ IF GCNumberLt(gcs_completed, num[Daemon]) /\ gc_type < 3
       THEN gc_type' = gc_type + 1 /\ Goto(Daemon, "internal")
       ELSE Goto(Daemon, "gc_done") /\ UNCHANGED gc_type
    /\ UNCHANGED <<gcvars, reqvars, offvars, waiters, num, seen, waited, env>>

\* The CHECK_IMPLIES of ConcurrentGCTask::Run.
ConcurrentGCTaskDone ==
    /\ pc[Daemon] = "gc_done"
    /\ num' = [num EXCEPT ![Daemon] = ANY]
    /\ gc_type' = 1
    /\ Goto(Daemon, "task")
    /\ UNCHANGED <<gcvars, reqvars, offvars, waiters, seen, waited, env>>

\* HeapTrimTask: Trim deflates the monitors first, unless pauses matter.
RunTrimTask ==
    /\ pc[Daemon] = "task" /\ pending_trim
    /\ \E l \in {"deflate", "trim_tables"} : Goto(Daemon, l)
    /\ UNCHANGED <<gcvars, reqvars, offvars, waiters, locals, env>>

\* StartGC by a thread that is not runnable: for the critical section around the deflation,
\* and for TrimSpaces.
StartGC(from, to) ==
    /\ At(Daemon, from)
    /\ collector_type_running' = "trim"
    /\ LeaveWait(Daemon)
    /\ Goto(Daemon, to)
    /\ UNCHANGED <<gcs_completed, reqvars, offvars, waiters, num, gc_type, env>>

DeflateStart == StartGC("deflate", "suspend_all")
TrimStart == StartGC("trim", "trimming")

\* ScopedSuspendAll: the others become runnable again only after ResumeAll.  The daemon goes
\* on even if it is asked to suspend itself.
SuspendAll ==
    /\ pc[Daemon] = "suspend_all" /\ \A t \in Thread : pc[t] # "critical"
    /\ Goto(Daemon, "deflating")
    /\ UNCHANGED <<gcvars, reqvars, offvars, waiters, locals, env>>

\* DeflateMonitors, and ResumeAll.
DeflateMonitors ==
    /\ pc[Daemon] = "deflating"
    /\ Goto(Daemon, "deflated")
    /\ UNCHANGED <<gcvars, reqvars, offvars, waiters, locals, env>>

\* FinishGC(kGcTypeNone) at the end of the critical section.
DeflateFinish ==
    /\ pc[Daemon] = "deflated"
    /\ FinishGC(Daemon, FALSE)
    /\ Goto(Daemon, "trim_tables")
    /\ UNCHANGED <<reqvars, offvars, locals, env>>

\* TrimIndirectReferenceTables runs a checkpoint under ScopedObjectAccess.
TrimIndirectReferenceTables ==
    /\ pc[Daemon] = "trim_tables" /\ Runnable(Daemon)
    /\ Goto(Daemon, "trim")
    /\ UNCHANGED <<gcvars, reqvars, offvars, waiters, locals, env>>

\* TrimSpaces walks the spaces under ScopedObjectAccess: it must become runnable with
\* collector_type_running_ set.
TrimSpaces ==
    /\ pc[Daemon] = "trimming" /\ Runnable(Daemon)
    /\ Goto(Daemon, "trim_finish")
    /\ UNCHANGED <<gcvars, reqvars, offvars, waiters, locals, env>>

\* FinishGC(kGcTypeNone) and ClearPendingTrim.
TrimFinish ==
    /\ pc[Daemon] = "trim_finish"
    /\ FinishGC(Daemon, FALSE)
    /\ pending_trim' = FALSE
    /\ Goto(Daemon, "task")
    /\ UNCHANGED <<max_gc_requested, gc_tasks, offvars, locals, env>>

------------------------------------------------------------------------------
(* GC critical sections: StartGC by a runnable thread *)

EnterCriticalSection(t) ==
    /\ Begin(t)
    /\ Goto(t, "start")
    /\ UNCHANGED <<gcvars, reqvars, offvars, waiters, locals, suspended>>

\* The first half of StartGCRunnable's loop.
StartGCRunnable(t) ==
    /\ At(t, "start")
    /\ collector_type_running' = "critical"
    /\ LeaveWait(t)
    /\ Goto(t, "try")
    /\ UNCHANGED <<gcs_completed, reqvars, offvars, waiters, num, gc_type, env>>

\* TryTransitionFromSuspendedToRunnable.
TryRunnable(t) ==
    /\ pc[t] = "try"
    /\ Goto(t, IF Runnable(t) THEN "critical" ELSE "back_out")
    /\ UNCHANGED <<gcvars, reqvars, offvars, waiters, locals, env>>

\* "TransitionFromSuspendedToRunnable will handle suspension request and block":
\* collector_type_running_ is given up first, and gc_complete_cond_ is not broadcast.
BackOut(t) ==
    /\ pc[t] = "back_out"
    /\ collector_type_running' = "none"
    /\ Goto(t, "blocked")
    /\ UNCHANGED <<gcs_completed, reqvars, offvars, waiters, locals, env>>

RunnableAgain(t) ==
    /\ pc[t] = "blocked" /\ Runnable(t)
    /\ Goto(t, "start")
    /\ UNCHANGED <<gcvars, reqvars, offvars, waiters, locals, env>>

\* FinishGC(kGcTypeNone) at the end of the section.
ExitCriticalSection(t) ==
    /\ pc[t] = "critical"
    /\ FinishGC(t, FALSE)
    /\ Goto(t, "idle")
    /\ UNCHANGED <<reqvars, offvars, locals, env>>

------------------------------------------------------------------------------
(* Moving GCs disabled; homogeneous space compaction; shutdown; suspension *)

IsMovingGc(type) == type = "hsc" \/ (type = "gc" /\ collector_type = "moving")

IncrementDisableMovingGC(t) ==
    /\ Begin(t)
    /\ disable_moving_gc_count' = disable_moving_gc_count + 1
    /\ Goto(t, IF IsMovingGc(collector_type_running) THEN "no_moving_wait" ELSE "no_moving")
    /\ UNCHANGED <<gcvars, reqvars, collector_type, gc_disabled_for_shutdown, shutting_down,
                   waiters, locals, suspended>>

DisableMovingWaited(t) ==
    /\ At(t, "no_moving_wait")
    /\ LeaveWait(t)
    /\ Goto(t, "no_moving")
    /\ UNCHANGED <<gcvars, reqvars, offvars, waiters, num, gc_type, env>>

DecrementDisableMovingGC(t) ==
    /\ pc[t] = "no_moving" /\ Runnable(t)
    /\ disable_moving_gc_count' = disable_moving_gc_count - 1
    /\ Goto(t, "idle")
    /\ UNCHANGED <<gcvars, reqvars, collector_type, gc_disabled_for_shutdown, shutting_down,
                   waiters, locals, env>>

PerformHomogeneousSpaceCompact(t) ==
    /\ Begin(t) /\ collector_type = "nonmoving"
    /\ Goto(t, "compact")
    /\ UNCHANGED <<gcvars, reqvars, offvars, waiters, locals, suspended>>

\* kErrorReject, kErrorVMShuttingDown, or start.  The shutdown test comes after
\* collector_type_running_ was set, and leaves it through FinishGC.
CompactStart(t) ==
    /\ At(t, "compact")
    /\ LeaveWait(t)
    /\ IF disable_moving_gc_count # 0
       THEN Goto(t, "idle") /\ UNCHANGED collector_type_running
       ELSE Goto(t, "compacting") /\ collector_type_running' = "hsc"
    /\ UNCHANGED <<gcs_completed, reqvars, offvars, waiters, num, gc_type, env>>

Compact(t) ==
    /\ pc[t] = "compacting"
    /\ FinishGC(t, ~shutting_down)
    /\ Goto(t, "idle")
    /\ UNCHANGED <<reqvars, offvars, locals, env>>

\* Runtime::~Runtime: DisableGCForShutdown, wait for a running GC, SetShuttingDown.
DisableGCForShutdown(t) ==
    /\ Begin(t) /\ ~gc_disabled_for_shutdown
    /\ gc_disabled_for_shutdown' = TRUE
    /\ Goto(t, "shutdown_wait")
    /\ UNCHANGED <<gcvars, reqvars, collector_type, disable_moving_gc_count, shutting_down,
                   waiters, locals, suspended>>

SetShuttingDown(t) ==
    /\ AtOne(t, "shutdown_wait") /\ Runnable(t)
    /\ LeaveWait(t)
    /\ shutting_down' = TRUE
    /\ Goto(t, "idle")
    /\ UNCHANGED <<gcvars, reqvars, collector_type, disable_moving_gc_count,
                   gc_disabled_for_shutdown, waiters, num, gc_type, env>>

\* SuspendThreadByPeer returns once the other thread is not runnable, which a thread in
\* a GC critical section is until it leaves it.
Suspend(t) ==
    /\ Begin(Suspender)
    /\ suspended = None /\ t # Suspender /\ pc[t] # "critical"
    /\ suspended' = t
    /\ UNCHANGED <<gcvars, reqvars, offvars, waiters, pc, locals>>

Resume ==
    /\ suspended # None /\ pc[Suspender] = "idle"
    /\ suspended' = None
    /\ UNCHANGED <<gcvars, reqvars, offvars, waiters, pc, locals, ops>>

------------------------------------------------------------------------------
\* What a mutator does once it is in an operation.
Step(t) ==
    \/ Wait(t) \/ AllocateAfterWait(t)
    \/ CollectGarbageInternal(t) \/ CollectNot(t) \/ CollectStart(t) \/ CollectRun(t) \/ CollectFinish(t)
    \/ RequestLoad(t) \/ RequestCas(t) \/ RequestReturn(t)
    \/ NativeLoop(t) \/ NativeWaited(t) \/ NativeCheck(t) \/ NativeGiveUp(t)
    \/ StartGCRunnable(t) \/ TryRunnable(t) \/ BackOut(t) \/ RunnableAgain(t)
    \/ ExitCriticalSection(t) \/ DisableMovingWaited(t) \/ DecrementDisableMovingGC(t)
    \/ CompactStart(t) \/ Compact(t) \/ SetShuttingDown(t)

DaemonStep ==
    \/ Wait(Daemon) \/ CollectEarlyReturn(Daemon) \/ CollectGarbageInternal(Daemon)
    \/ CollectNot(Daemon) \/ CollectStart(Daemon) \/ CollectRun(Daemon) \/ CollectFinish(Daemon)
    \/ ConcurrentGC \/ TryNextGcType \/ ConcurrentGCTaskDone
    \/ DeflateStart \/ SuspendAll \/ DeflateMonitors \/ DeflateFinish
    \/ TrimIndirectReferenceTables \/ TrimStart \/ TrimSpaces \/ TrimFinish
    \/ RunTrimTask \/ \E n \in gc_tasks : RunConcurrentGCTask(n)

Start(t) ==
    \/ CollectGarbage(t) \/ AllocateInternalWithGc(t) \/ CheckGCForNative(t)
    \/ EnterCriticalSection(t) \/ IncrementDisableMovingGC(t)
    \/ PerformHomogeneousSpaceCompact(t) \/ DisableGCForShutdown(t)

Next ==
    \/ \E t \in Thread : Start(t) \/ Step(t) \/ CollectEarlyReturn(t)
    \/ DaemonStep
    \/ \E t \in All : WakeSpuriously(t) \/ Suspend(t)
    \/ Resume

Spec == Init /\ [][Next]_vars

\* Threads are scheduled, an operation once begun goes on, the daemon serves its tasks,
\* the loop of CheckGCForNative is bounded, and whoever suspended a thread resumes it
\* once it is done with its own work.
Fairness ==
    /\ \A t \in Thread : WF_vars(Step(t)) /\ SF_vars(NativeGiveUp(t))
    /\ WF_vars(DaemonStep)
    /\ WF_vars(Resume)

FairSpec == Spec /\ Fairness

------------------------------------------------------------------------------
(* Properties *)

Owners == {t \in All : pc[t] \in {"gc", "finish", "try", "critical", "back_out",
                                  "compacting", "suspend_all", "deflating", "deflated",
                                  "trimming", "trim_finish"}}

TypeOK ==
    /\ collector_type_running \in {"none", "gc", "hsc", "critical", "trim"}
    /\ waiters \subseteq All
    /\ gcs_completed \in 0..W-1 /\ max_gc_requested \in 0..W-1
    /\ gc_tasks \subseteq 0..W-1
    /\ disable_moving_gc_count \in 0..Cardinality(Thread)
    /\ num \in [All -> 0..W] /\ seen \in [All -> 0..W] /\ waited \in [All -> BOOLEAN]

\* "Ensure there is only one GC at a time": at most one thread is between the critical
\* section that set collector_type_running_ and the one that clears it, and
\* collector_type_running_ says so.  No thread that returned from
\* IncrementDisableMovingGC sees a moving GC run until it calls the Decrement.
GcExclusive ==
    /\ Cardinality(Owners) = (IF Free THEN 0 ELSE 1)
    /\ (\E t \in Thread : pc[t] = "no_moving") => ~IsMovingGc(collector_type_running)

\* The CHECKs on GC numbers hold, across the wrap of the counters: a ConcurrentGCTask
\* never runs for a number more than one ahead, the GC it asked for has been counted when
\* it ends unless the runtime is shutting down, and the number a native allocation waits
\* for was requested.
GcNumbersChecked ==
    /\ \A n \in gc_tasks : GCNumberLt(n, Plus(gcs_completed, 2))
    /\ pc[Daemon] = "gc_done" /\ GCNumberLt(gcs_completed, num[Daemon]) => shutting_down
    /\ \A t \in Thread : pc[t] = "native_check" => GCNumberLt(num[t], max_gc_requested)

\* A thread is blocked from running while collector_type_running_ is its own, or gave it
\* up without a broadcast because it was.
BlockedInGc == \E t \in All : pc[t] \in {"back_out", "blocked"}
                              \/ (pc[t] = "trimming" /\ ~Runnable(t))

\* A thread that waits on gc_complete_cond_ wakes up and gets past its wait.
GcWaitersReturn == \A t \in All : []<>(t \notin waiters)

\* A GC requested of the heap task daemon is eventually counted as completed, whoever
\* runs it and whatever disables it, unless the runtime shuts down first.
RequestedGcCompletes == []<>(~GCNumberLt(gcs_completed, max_gc_requested) \/ shutting_down)

\* When the suspension of a thread never meets the two places that hold
\* collector_type_running_ and then wait to be runnable, every wait for a GC ends and every
\* requested GC completes.
GcProgresses == <>BlockedInGc \/ (GcWaitersReturn /\ RequestedGcCompletes)

==============================================================================
