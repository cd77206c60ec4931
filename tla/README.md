# TLA+ models of the Android Runtime's concurrency core

These modules model the part of ART by which threads lock, wait, suspend one
another, hand each other work and share Java monitors, and the protocols built on
it: who collects garbage and when, weak references during a concurrent collection,
the initialisation of classes, the collection of compiled code. TLC checks them on
small instances; TLAPS proves nearly all of their safety properties for any number of
threads, requests, objects and classes. Paths below are relative to `src/`.

ART is about 620,000 lines of compilers, file formats, tools, services and a
runtime. The models stand for about 6,500 of them, one in a hundred: the ones
where several threads meet. What the rest is, and why it is left out, is in
section 6.

## 1. Inventory of the system

ART executes managed code next to a garbage collector, a JIT compiler, debugger
and profiler agents and native code, in one process. Ahead-of-time compilation,
packaging and diagnosis are programs of their own. `PROJECT.json` lists every
component; this is how they fall apart.

| Part | State and operations | What makes it hard |
| --- | --- | --- |
| `runtime/base/mutex*` | a futex word with a held bit and a contender count, a sequence number and requeue for condition variables; reader-writer mutexes | lost wake-ups, requeue, two operating systems |
| `runtime/thread_list*`, `thread*` | the list of threads, a word of state and flags per thread, suspend counts, barriers on requesters' stacks, checkpoint closures, flip functions, exit flags | requester and target race on the same word without a lock; threads attach and exit at any time; time-outs |
| `runtime/monitor*`, `lock_word.h` | the lock word (unlocked, thin, fat, hash), the monitor with wait set and wake set | inflation by a thread that does not hold the lock, deflation, interrupts and time-outs against notification |
| `runtime/gc/task_processor*` | a queue of timed tasks, one daemon | one condition variable for two kinds of waiters |
| `runtime/gc/` heap and collectors | spaces, allocation stacks, mark bitmaps, read barriers, reference queues; collection requests and JNI critical sections | concurrent marking and copying |
| `runtime/class_linker*` | class status, initialisation lock | initialisation cycles between threads |
| `runtime/jit/` | the code cache and its collection | code in use by a stack that nobody holds a lock on |
| `runtime/jni/`, `interpreter/`, `verifier/`, `oat/`, `entrypoints/`, `arch/` | mostly sequential | size rather than concurrency |
| `runtime/thread_pool*`, `barrier*`, `signal_catcher*`, `instrumentation*` | clients of the layer above | |
| `compiler/`, `dex2oat/`, `artd/`, `odrefresh/`, `libartservice/`, `lib*`, `tools/`, `*dump/`, `profman/`, `openjdkjvmti/` | compilers, services, file formats, tools | size; file formats |

How the modelled parts interact: every one uses `Mutex`; `SuspendAll` waits with
`WaitForSuspendBarrier`; `FlipThreadRoots` is a `SuspendAll` that leaves work
behind, and passes a gate that JNI critical sections hold closed; checkpoints run
on behalf of suspended threads and so have to respect both; monitors are inflated
under `SuspendThread` and deflated under `SuspendAll`, and classes are initialised
under their monitors; the code cache marks the code in use by a checkpoint; the
task processor starts the collections, which revoke mark stacks by checkpoints and
wait out the readers of weak references by empty checkpoints.

The properties that make the layer correct: a lock excludes and loses no
wake-up; a thread that is said to be suspended stays so until it is resumed; no
request is lost, repeated or left behind; no pointer to a dead stack frame or
thread is followed; each flip function and checkpoint runs exactly once and
before managed code can tell; a synchronized block excludes in whatever form the
lock is; at most one collection runs and each one asked for happens; no reference
comes back after another reader has seen it cleared; a class is initialised once and
used by other threads only afterwards; code is freed only when no stack and no
entry point leads to it; and everyone who waits is eventually let go. The hazards
behind them are listed, with their lines, in `PROJECT.json`.

## 2. Modules

One module per component, in the order they build on one another. Variables and
actions keep the names of the fields and functions; an action's comment names
the part of the function it stands for, and `map` in `PROJECT.json` gives its
lines.

| Module | Models | Steps |
| --- | --- | --- |
| `Mutex` | `Mutex` and `ConditionVariable` over `futex()`, with Linux's requeue or the Windows port's wake-all (`FutexRequeues`) | each atomic access to the futex word and each system call |
| `LockWithCondition` | what they promise: a lock, and a set of waiting threads that a signal reaches | |
| `ThreadSuspension` | `SuspendAll`/`ResumeAll`, `SuspendThread`/`Resume`, `Register`/`Unregister`, and a thread's changes of state | one per critical section; where flags are set and then the state read, two, as the target takes no lock |
| `SuspendBarrier` | `WaitForSuspendBarrier`: futex, time-outs, four attempts, thread dumps, tracers; `uint64_t` arithmetic modulo `Word` | each load, wait and wake-up; a clock |
| `Checkpoint` | `RunCheckpoint` with its sweeps over suspended threads, `RequestCheckpoint`, `RunCheckpointFunction`, the caller's `Barrier` | as in `ThreadSuspension`, and each closure |
| `FlipFunction` | `FlipThreadRoots`, `EnsureFlipFunctionStarted`, `RunFlipFunction`, the two waits for it, thread exit flags | each change of a flag, each critical section |
| `ReaderWriterMutex` | the futex-based reader-writer mutex, the kind `mutator_lock_` is | as in `Mutex` |
| `ReaderWriterLock` | what it promises: one writer, or any number of readers | |
| `Monitor` | one object's monitor: lock word, inflation, `Lock`, `TryLock`, `Unlock`, `Wait`, `Notify`, `Interrupt`, identity hash code, deflation | each compare-and-set of the lock word, each stretch a thread runs without a suspend point |
| `TaskProcessor` | `runtime/gc/task_processor.cc` | one per method, as each holds `lock_` |
| `ThreadFlipGate` | JNI critical sections, nested ones included, against `ThreadFlipBegin` and `ThreadFlipEnd` | one per section under `thread_flip_lock_` |
| `Heap` | who collects and when: `WaitForGcToComplete`, `CollectGarbageInternal`, concurrent requests and their 32-bit numbers (modulo `W`), `CheckGCForNative`, trims, homogeneous space compaction, GC critical sections, moving collections disabled, shutdown | one per section under `gc_complete_lock_`, each atomic access, each change to and from Runnable |
| `WeakReferences` | the copying phase of the concurrent copying collector from the first `ProcessMarkStack` to `ReenableWeakRefAccess`: mark stacks in their three modes, read barriers, `GetReferent`, weak and finalizer references, JNI weak globals, empty checkpoints, and a mutex expected on weak reference access (`LockKind`) | each load, push and pop; one per critical section |
| `ClassInit` | `InitializeClass`, `WaitForInitializeClass`, `VerifyClass`, `InitializeDefaultInterfaceRecursive`, `SetStatus` | one per stretch under the class's monitor that calls nothing out |
| `JitCodeCache` | commit, entry points, zombie code and its collection, on-stack replacement, invalidation, unloading, redefinition | one per section under `jit_lock_`, each access to an entry point |
| `Threads`, `ThreadWaits`, `ThreadStacks` | the constants and variables that components checked together share | |
| `SynchronizationParts`, `ObjectMonitor`, `ProgressParts`, `ClassProgress`, `StackVisits`, `CheckpointVisits`, `ReferenceMarking` | one or two components each, under the variables and with the properties that the MC modules, which extend them, give them, so that the proofs need not carry the rest; `ReferenceMarking` is `WeakReferences` over any heap, of which the MC modules take small ones | |
| `SynchronizationProofs`, `MonitorProofs`, `ThreadSuspensionProofs`, `CheckpointProofs`, `ThreadStackProofs`, `HeapProofs`, `ClassInitProofs`, `WeakReferencesProofs` | theorems and proofs | |
| `MC...` | instances for TLC | |

Four MC modules hold several components. A variable `component` (`graph` in
`MCWeakReferences`) is chosen initially and says which component takes the steps of
the behaviour; the others have no steps, and their variables stay `None` or as they
were initially. It is several model checkings in one run, not a product: nothing
that one component does limits another, and a property is an implication from its
component.

### How state and actions correspond to the code

* **`Mutex`**. `held` and `contenders` are the two parts of
  `state_and_contenders_`, `sequence` and `num_waiters` the condition variable's
  fields, `mutexq` and `cvq` the kernel's queues of the two futex words;
  `cur_state`, `cur_sequence`, `old_recursion` are locals. `ExclusiveLock` runs
  through FirstLock, LockCas, SpinFailed, IncrementContenders, FutexWait, FutexReturn or
  FutexInterrupted, Reload, DecrementContenders, SetOwner, or is RecursiveLock; `ExclusiveUnlock`
  through UnlockCas and UnlockWake; `Wait` and `TimedWait` through Wait,
  CvFutexWait, CvFutexReturn or CvFutexInterrupted, and WaitReturn. `Requeue` is
  `futex()` itself, as either operating system has it.
* **`ThreadSuspension`**. `state`, `flags`, `suspend_count` and the two barrier
  variables are the thread's `tls32_` and `tlsPtr_` fields; a barrier is named
  after the requester whose stack it is on, and `pending` is its value. A thread
  goes from managed code to native code and back by EnterNative, CheckSuspend,
  PassBarriers, NoBarriers, LeaveNative, AwaitResume and BecomeRunnable.
  `SuspendAllInternal` is SuspendAllLock, then SuspendAllRequest and
  SuspendAllCheck for each thread, SuspendAllUnlock, SuspendAllWait;
  `SuspendThread` is SuspendThreadTry (its critical section), SuspendThreadCheck,
  SuspendThreadLeave, SuspendThreadWait or SuspendThreadGiveUp (its time-out), with
  SuspendThreadRetry and SuspendThreadExited for its other turns.
* **`SuspendBarrier`**. The variables are the locals of `WaitForSuspendBarrier`,
  the barrier, the clock and the time of a SIGQUIT dump. FirstLoad to Reload are
  its body; NextAttempt and Abort are its callers.
* **`Checkpoint`**. `checkpoints` is `checkpoint_function` followed by
  `checkpoint_overflow_`. A RunCheckpoint asks the Runnable threads first
  (FirstRunnable, InsertCheckpoint) and then sweeps over the others: the Sweep
  actions are the branches of that loop, RunOnBehalf and ReleaseThread its body for
  a thread it holds. TakeCheckpoint and RunCheckpointFunction are the target's
  side, WaitOver the end of the caller's wait.
* **`FlipFunction`**. `pending` and `running` are the two flags,
  `exit_flags` the collector's `ThreadExitFlag`s. The collector goes through
  SuspendAll, SetFlipFunctions, ResumeAll, a first pass (EnsureStarted,
  EnsureFinished, EnsureRunning, Finished) and a second (AwaitTestingExited).
  RunFlipFunction, ClearRunning and BroadcastFlipped are one function, run by
  whoever claimed it. Pin, EnsureFlipped, EnsureNothingPending and Unpin are a
  checkpoint on another thread's behalf, or `RequestSynchronousCheckpoint`; the other
  thread may be the collector's own, whose flip function others then compete for.
* **`Monitor`**. `lock_word` is the object's, the rest the monitor's fields;
  `held` and `hashes` record what the program was told. Thin locks: EnterThin,
  ExitThin, HashThin. Inflation: BeginInflate, SuspendOwner, Recheck, Install.
  Fat locks: LockRecursive, TryLock, LockBlocks, LockAcquired, LockDone, UnlockFat,
  GetHashCode. Waiting: WaitBegin, WaitRelease, TimedOut, Interrupt, WaitEnds,
  Notify, and SignalWaiter as part of a release. Deflate is the sweep under SuspendAll.
* **`TaskProcessor`**. `cond` is the set of waiters of `cond_`; GetNothing, GetTask
  and GetTimedWait are the three turns of `GetTask`'s loop; BeginPoll, Poll and
  PollTimedOut are `WaitForThread`. `diverted` records that, in the daemon's present
  wait, a signal went to a polling thread in its place.
* **`ReaderWriterMutex`**. `state` is `state_`, -1 for a writer and otherwise the
  number of readers, and the futex word. The three lock calls share SpinFailed,
  IncrementContenders, FutexWait, FutexReturn and DecrementContenders and differ in
  the states they admit; FutexTimesOut and TimedOutBeforeWait belong to
  `ExclusiveLockWithTimeout`. The two unlocks end in CheckContenders and WakeAll.
* **`ThreadFlipGate`**. IncrementDisableThreadFlip, EnterWait and Enter are the entry
  to a critical section, ThreadFlipBegin and BeginAgain the collector's wait.
* **`Heap`**. `waiters` is the wait set of `gc_complete_cond_`; `num`, `seen` and
  `waited` are locals. Every operation that waits for a collection goes through Wait
  and LeaveWait. CollectNot, CollectStart, CollectRun and CollectFinish are
  `CollectGarbageInternal`; RequestLoad and RequestCas are `RequestConcurrentGC`;
  RunConcurrentGCTask, ConcurrentGC, TryNextGcType and ConcurrentGCTaskDone are the
  daemon's task; `Trim` is DeflateStart, SuspendAll, DeflateMonitors and DeflateFinish,
  skipped where pauses matter, then TrimIndirectReferenceTables, TrimStart, TrimSpaces
  and TrimFinish; EnterCriticalSection, TryRunnable, BackOut and RunnableAgain are
  `ScopedGCCriticalSection` with `StartGCRunnable`. Suspend and Resume are another
  thread's SuspendThread. The collection itself is one step.
* **`WeakReferences`**. `gc` is the collector's place in `CopyingPhase`; `color`
  says what has been marked and scanned. PopRevoked, Pop, ScanField, ScanReferent,
  Blacken and OnceEnds are `ProcessMarkStack`; AskEmptyCheckpoint to BarrierTimedOut
  are `RunEmptyCheckpoint` with its periodic wake-ups. A thread loads fields
  (LoadField, ReadBarrierMark, PushOntoMarkStack), calls `GetReferent` (LoadReferent,
  GetReferent, SlowPathDone, SlowPathPredict), decodes weak globals, and responds at
  suspend checks, in waits and at the contended mutex. Marking stands for copying: a
  reference a thread holds has been marked.
* **`ClassInit`**. A frame has the function, the class, a place and an index;
  VerifyBegin to PerformClassVerification are `VerifyClass`, AlreadyInitialized to
  ClinitDone `InitializeClass`, SuperInterface to InterfaceFailed
  `InitializeDefaultInterfaceRecursive`. `program` is what each `<clinit>` uses.
* **`JitCodeCache`**. The maps and sets are the cache's own. LoadEntryPoint,
  CompareExchange and AddZombieCode are `InvalidateCompiledCodeFor` and its like;
  DoCollection, MarkCode, RemoveUnmarkedCode and CollectionDone are a collection;
  `stack` is the compiled code on a thread's stack.

### Composition

Composition is by abstraction. `Mutex` is shown to implement
`LockWithCondition`; the other modules use locks and condition variables at that
level: a critical section is a step, a wait is membership in a set. `Checkpoint`
and `Monitor` use suspension as `ThreadSuspension` establishes it: a thread with
a positive suspend count cannot become Runnable, and a suspended target stays
until it is resumed. `JitCodeCache` and `WeakReferences` use checkpoints as
`Checkpoint` establishes them: once on each thread, not beside its own steps.
`ClassInit` uses a monitor as `Monitor` does, and `Heap` the daemon's queue as
`TaskProcessor`. `thread_list_lock_` is only taken outside
`thread_suspend_count_lock_` in these operations, so `ThreadSuspension`,
`Checkpoint` and `FlipFunction` have one variable for both, or none where the
critical section is one step.

Memory ordering is sequentially consistent in all modules. `mutator_gc_coord.md`
argues for the weaker orders the code uses; that argument is not checked here.

Several definitions have a form with a suffix (`MayDetach_Always`): a plausible
bug in that place, used to see that a property would notice it. They are in no
specification.

## 3. Runs

| Run | Instance | Shows |
| --- | --- | --- |
| `mutex` | 3 threads, Linux futex, not recursive, 2 signals | exact contender count; no lost wake-up; refinement of `LockWithCondition`; a signal reaches a waiter that is not yet asleep; a free mutex with sleepers is taken again |
| `suspension` | 3 threads, 4 requests | exact suspend counts; no barrier outlives its requester; exclusion under SuspendAll; targets stay; no suspension cycle; SuspendAll gets through and whoever waits to be Runnable becomes so; no deadlock |
| `synchronization` | a recursive mutex with wake-all requeue; a monitor with 3 threads that enter past what a thin lock counts; a reader-writer mutex; a suspend barrier with 2 holdouts and 4 waits per attempt | the depth survives a wait; ownership and depth across thin, fat and wait, and no use of a deflated monitor; no notification stranded; one hash code; no sleeper forgotten by readers and writers, who implement `ReaderWriterLock`; no sleep on a barrier that is zero; no abort before the whole time-out, and the elapsed-time CHECK holds without a tracer; no deadlock |
| `thread_stacks` | checkpoints with 3 threads, and with 2 threads and 2 flips; flips with 3 mutators; the code cache with 2 mutators; marking with two weak references and a finalizer reference; a weak global | the closure runs once per thread, never beside its thread, never after its requester is gone; a flip function runs once, on a thread that exists, before managed code; running code and code that is an entry point is not freed; threads hold marked references only; marking has converged when it is declared done; a referent seen cleared is not seen again; no deadlock |
| `progress` | checkpoints, flips, the flip gate, class initialisation with 2 threads; 2 tasks, 1 polling thread, clock to 2 | RunCheckpoint and its caller's wait end; `FlipThreadRoots` returns, and passes the gate of JNI critical sections although threads go on entering them; queued tasks run in time unless a polling thread took the daemon's signal; initialisation ends where no cycle of needs exists; no flip in a critical section; the daemon never oversleeps, with the same exception, nor sleeps on after `Stop`; `<clinit>` runs once, after the superclass's |
| `heap` | 2 mutators and the daemon, one operation each, collection numbers modulo 16 that wrap at the first | one collection at a time; numbers in the order the CHECKs ask for across the wrap-around; threads that wait for a collection return, and a requested collection completes, where no thread was suspended at the wrong time |
| `weak_references` | 2 threads with a weak global; 1 thread with a finalizer reference | the copying phase ends and all threads blocked on weak references are let in, also when one of them holds a mutex that others wait for |
| `suspend_barrier_traced`, `task_processor_polled`, `heap_suspended`, `interface_flag`, `jit_redefinition` | small instances | violated: see findings |

Deadlock is checked in `mutex`, `suspension`, `synchronization` and `thread_stacks`
and the two older violation runs. It is not in the others, where the operations are
bounded and the system rests when they are used up, or, in `progress`, where threads
that initialise classes in a cycle may wait for each other as the language
specification allows.

### Bounds

Every counter that could grow has a named bound in a guard. Three threads are
the smallest number for a requester, a target and a third that interferes with
both (a second requester, an attaching thread, a contender that arrives while
another inflates). `MaxRequests = 4` in `suspension` lets one thread retry while
the two others collide and one of these asks again. `MaxSignals` bounds the
condition variable's `sequence_`; after two signals every order of waiter and
signaller has occurred. For monitors, `MaxCount = 1` makes thin locks overflow at
the third entry, which `MaxHeld = 3` reaches. Two flips let a thread meet the second
while the traces of the first are still there: in `progress`, and beside checkpoints,
where `MaxFlipped = 2` threads are attached at a time once threads are flipped; three
mutators meet one flip. In `SuspendBarrier` twenty waits are four, the time-out
sixteen milliseconds of four units, `Word` a power of two above every value that is not a wrap-around;
`MaxNow` and `MaxDump` limit delays and dumps, the latter below `DumpWait`. The
time-out's share is a whole number of milliseconds: the rounding at
`runtime/thread_list.cc:738` is not exercised.

In `Heap`, 32-bit collection numbers are numbers modulo 16 starting at 15, so that
the first collection wraps; one operation per mutator still lets requests, waits, a
trim and the daemon's task meet, as one task may try three kinds of collection. The
classes of `progress` are a superclass, its subclass, and two interfaces of the
subclass of which the upper one has default methods; in one program `<clinit>` of
that interface uses the superclass, the other is the cycle of a superclass that uses
its subclass. A code cache of two places, one for baseline code,
has code replaced, freed and its place used again. The object graphs are the
smallest in which a referent is reached again through a finalizer after weak
references to it were cleared. Symmetry is used in safety runs only, over threads
that are interchangeable.

### Fairness

* `Mutex`: weak fairness of a thread inside an operation or a critical section;
  none of calls, signals, interrupts or time-outs. The kernel schedules runnable
  threads, and critical sections end.
* `ThreadSuspension`: weak fairness of each thread's own steps (`Step`),
  including the suspend check: compiled code polls at loop back-edges and method
  entries. Calls and time-outs are not fair.
* `Checkpoint`: the same, and strong fairness of one outcome: a sweep that keeps
  coming back to a suspended thread at last finds it still suspended. The code
  retries without a bound and says that the race "should be exceedingly rare".
* `FlipFunction`: weak fairness of steps, and strong fairness of the poll for
  suspension of a thread that goes in and out of native code.
* `TaskProcessor`: weak fairness of the daemon, of pollers and of the clock.
* `ThreadFlipGate`: weak fairness of the collector, strong fairness of leaving the
  outermost critical section: sections end, however often they nest. Entering is not
  fair, and may go on forever.
* `Heap`: weak fairness of the threads' steps, of the daemon and of Resume; strong
  fairness of the end of `CheckGCForNative`'s loop, which the code bounds.
* `ClassInit`: weak fairness of the threads' steps: verifiers and `<clinit>` end.
* `WeakReferences`: weak fairness of the collector and of the threads' steps, strong
  fairness of the response at a suspend check, as threads go in and out of native
  code, and of taking the mutex: a thread that again and again finds it free gets it
  some time. The mutex promises no such order; without it a thread may starve at
  any mutex.

## 4. Proofs

All developments have the same shape: an inductive invariant, lemmas that every
step keeps it, and theorems that follow by `PTL`. Where most actions change little,
the steps are sorted by kind first (what they do to the owner, to a claim, to
a role) and one lemma says what that kind preserves; an action then needs only the
proof that it is of its kind.

**`SynchronizationProofs`, `Mutex`**, for any finite set of threads, either futex,
recursive or not.
`IInv` is `TypeOK`, `QueuesConsistent` (who is on which kernel queue, by pc),
`MutualExclusion`, `ContendersExact`, `NoLostWakeup` and `RecursionInv`.
`NoLostWakeup` needs the exact contender count: an unlocker that sees no
contender then knows that nobody sleeps. `SequenceInv` (a waiter that has not
gone to sleep remembers a sequence number not later than the present one) is
added for the refinement.

* `MutexIsExclusive`, `MutexContendersExact`, `MutexLosesNoWakeup`,
  `MutexRestoresRecursion`: the four invariants. `MutualExclusion` is in no run of
  its own: the refinement of `LockWithCondition` contains it.
* `MutexImplementsLock`: `Spec => ImplementsLock`, step by step.
* `SignalReachesWaiter`: the action property of Signal and Broadcast.

**`SynchronizationProofs`, `ReaderWriterMutex` and `SuspendBarrier`**, for any finite
set of threads. The invariant of the reader-writer mutex, `RWInv`, is its
types, `StateExact` (`state_` is -1 for one writer and no reader, else the number of
readers), `RWContendersExact` (`num_contenders_` is the number of threads between
counting themselves and leaving), `Sleepers` (who sleeps does so on a state that
did not admit it) and `NoSleeperForgotten`. The last needs the exact count, as for
the mutex: an unlocker that reads 0 leaves nobody asleep.

* `NobodyForgotten`, and `ReaderWriterRefines`, the refinement of `ReaderWriterLock`.
* `WaiterWoken`: `NoSleepPastZero` of `SuspendBarrier`, for any number of threads to
  wait for: the barrier does not go up again, and the last pass is followed by a wake-up.

**`MonitorProofs`**, for any finite set of threads, any bound on the count of a thin
lock and any hash codes. `MonitorInv` is the types, `Place` and `Owning` per thread
(what a thread's place says about its operation and its depth; who the owner is, thin,
fat, or between `monitor_lock_` and `owner_`), `AtRest` (a monitor that is not published
is not used), `WaitersExact` (`num_waiters_` counts the threads that block and those in
wait, so that `Deflate` leaves nobody behind), `SuspensionsExact` (the owner of a lock
that is being inflated is suspended from `SuspendOwner` to `Install`), `InstallReady`, `HashesExact` and
`NotificationKept`. Exact suspensions are why the lock word that `Install` exchanges is
the one `Inflate` has seen.

* `OwnershipHolds`, `NotificationHolds`, `HashHolds`: the properties of the run.
  `InstallNeverAborts` is `TypeOK`, which excludes the place to which an `Install` with a
  failing check goes.

**`ThreadSuspensionProofs`**, for any finite set of threads and any
`MaxRequests`. The invariant adds to the properties: `ControlInv` (pc, lock,
state and list agree), `SuspendAllInv` (one SuspendAll at a time), `TargetInv`
(targets are other threads of the list), `BarrierFlagExact` (the flag is set
exactly while a barrier is to be passed), `BarrierInv` and `PendingExact` (a
barrier's count is the number of threads that still point to it). Exact pending
counts are why a SuspendAll whose barrier reached 0 has no Runnable thread left;
exact suspend counts are why such a thread cannot leave.

* `SuspendCountsAreExact`, `BarriersStayAlive`, `SuspendAllExcludes`,
  `TargetsStaySuspended`, `SuspensionIsAcyclic`.

**`HeapProofs`**: `Heap`, for any finite set of threads and any width of the GC numbers,
`ThreadFlipGate` and `TaskProcessor`.

* `OneGcAtATime`: `GcExclusive`. `OwnerInv` says which thread set
  `collector_type_running_` and to what, `MovingInv` that
  `disable_moving_gc_count_` counts the threads between Increment and Decrement, a
  waiting one included; a moving collection starts only when it is 0.
* `HeapTypes`: the GC numbers keep their width, the counter its range.
* `GateHolds`: `NoFlipInCritical`. `GateInv` adds that a thread's own count is zero
  exactly outside all sections, so that nested entries do not change the global one.
* `DaemonAwake`: `NoOversleep`, for any tasks, times, pollers and bounds: the daemon's
  wait ends by the first task's time, unless a polling thread took a signal in the
  daemon's place (`Missed`, finding 2), and does not outlast `Stop`. `TasksInv`
  adds what the daemon has taken and what `Stop` found. `TakenInOrder` is the action
  property behind `TasksRunInTime`: no task is taken before its time, or before one
  whose time comes first.

**`CheckpointProofs`**, for any finite set of threads, any number of RunCheckpoint calls
and of flips. `CheckpointInv` is an account per requester: `AccountOK` says that the
count, less the runs that have passed the barrier, is one for the requester and one for
each thread that owes it a run (still to be visited, asked, queued or running); `OnceOK`
that what is owed has not happened; `QueueOK` that `kCheckpointRequest` is set exactly
while a closure is queued or about to be; `HeldOK` that a suspend count is the number of
requesters that keep the thread suspended; `VisitOK` what a sweep still has to deal with.

* `ClosuresStayAlive`, `ClosuresRunOnce`, `BehalfIsExclusive`: the properties of the run.

**`ThreadStackProofs`**, about the two components of `StackVisits`: a behaviour of
`MCThreadStacks` with `component` "flip" or "jit" is one of theirs.

* `FlippedFirst`, `FlippedOnce`: `FlippedBeforeJava`, `FlipExactlyOnce`, for any
  number of threads and flips. `FlipClaims` says that `kRunningFlipFunction` is set
  exactly while one thread has claimed the function; `ThreadOK`, per thread, that a
  Runnable thread has no function but one it runs itself, and that a thread another
  acts on behalf of stays suspended; `FlipPasses` that what the two passes of
  `FlipThreadRoots` still have to do covers every function that has not been run,
  those of threads that detach included.
* `RunningKept`, `EntriesKept`: `RunningCodeKept`, `EntryPointsKept`, for any number
  of threads, methods and places for code, any threshold and any stack depth.
  `CodeRoles` says that code has one role at most: entry point of its own method,
  OSR entry, held by an actor that will install or has replaced it, zombie, or set
  aside. `CodeKept` says that once a thread has been marked, what it runs of the code
  set aside is in the bitmap; as code set aside is no entry, it cannot call into
  more. Both are up to the first redefinition that frees code set aside (`left_behind`,
  finding 5), after which code may have two roles.

**`ClassInitProofs`**, for any classes, supertypes, static initialisers and threads.
`ClassInv` speaks of the frames on the threads' stacks, counted from the outermost so
that calls and returns leave the others in place: `WorkersUnique` (no two frames verify or
initialise the same class), `FrameOK` (the class is in the state in which the frame left
it, and the superclass of a class past its superclass is usable), `LinkOK` (a frame that
initialises its superclass has called for it or has its answer), `AnswerOK` and `ClassOK`.

* `InitializedOnceHolds`: `InitializedOnce`, with the CHECKs of the code (`failed` is FALSE).

**`WeakReferencesProofs`**, for every heap and any finite set of threads, from
`GraphAssumption` as a hypothesis.

* `ToSpaceHolds`. `MarkingInv` says that what a black object refers to is marked, its
  referent included, and that the fields of an object that is about to become black are.
* `MarkingHasConverged`. `ConvergenceInv` adds `TriColour` (what is marked has been scanned
  or is on a mark stack, on its way there or just taken from there), `Phases`, `Answers`
  (the barrier of the empty checkpoint is exact) and `SecondRound`: after an empty round,
  while the next one is empty too, a thread that still has to push an object implies one
  that has not answered the empty checkpoint. When all have answered, nobody has.
* `WeakClearedTogether`. `Converged` says that from then on there is a set of marked
  objects that the threads are within and that refer to nothing outside it, and, in a heap
  without a JNI weak global, that no object of which null has been or will be returned is
  among them. With a weak global it does not hold of the model: let `w1` and `w2` refer to
  `x`, and an object `z` that awaits its finalizer, and to which the weak global refers, have
  `w2` and `x` as fields. `w1` is cleared, then `z` is marked for its finalizer, `w2` and `x` with
  it; the weak global is swept after that, and a thread gets `z` from it, and `x` from `w2`.
  Hence the hypothesis `WeakGlobal = None`; the run checks `ClearedTogether` on the heap
  without a weak global.

The assumptions are named in the modules that declare the constants, and TLC
evaluates them in every run: finitely many threads, `None` is not one of them, the
types of the bounds and of the tables of classes (`ClassAssumption`: no class is its own
superclass) and objects (`GraphAssumption`, which `MCThreadStacks` evaluates for its two
heaps); for `Heap` also a start number within the width
(`HeapAssumption`); for `JitCodeCache` that the worker is no mutator and the records
of an entry point change are not code (`CodeAssumption`).

Only model-checked, and why:

* all liveness properties: the prover does not handle fairness and ENABLED;
* `GcNumbersChecked`: it holds only while numbers that are compared are less than half
  the width apart, which bounds the number of operations between two steps of a
  thread, not the state;
* `TimeoutsHonest`: its products and quotients of time-outs and attempts modulo `Word`
  are beyond the solver, and it is about the constants the code has.

## 5. Findings

1. `suspend_barrier_traced`. `WaitForSuspendBarrier` checks, after each wait that
   timed out, that `i` shares of `timeout_ns` have passed
   (`runtime/thread_list.cc:844`). A thread that is found stopped by a tracer
   gets a new `timeout_ns` after the first wait (line 836), with `i` already 1:
   the next time-out fails the CHECK.
2. `task_processor_polled`. `AddTask` wakes one waiter of `cond_`
   (`runtime/gc/task_processor.cc:45`). A thread in `WaitForThread` waits there
   too and may take the signal; the daemon sleeps on with a task that is due.

3. `heap_suspended`. `StartGCRunnable` claims the collector and gives it up again
   when its thread is being suspended (`runtime/gc/heap.cc:1749`), without waking the
   threads that began to wait in between. `TrimSpaces` becomes Runnable with the
   collector claimed, which the comment at line 1743 warns of.
4. `interface_flag`. `kAccRecursivelyInitialized` is set for an interface that the
   calling thread has only begun to initialise (`runtime/class_linker.cc:6509`);
   another thread that initialises an implementing class skips the interface.
5. `jit_redefinition`. A collection sets zombie code aside in `processed_zombie_code_`
   and keeps it, as a thread is running it. The thread returns and the method is
   redefined, with the JIT stopped: `RemoveMethodLocked` frees the code but leaves it in
   that set (`runtime/jit/jit_code_cache.cc:964`), from where a later collection frees
   it again.

### Noticed and not made into a run

* `Mutex::ExclusiveLock` sleeps again while the mutex is held without looking for an
  empty checkpoint (`runtime/base/mutex.cc:484`), unlike `ReaderWriterMutex`, so the
  wake-up "so they will respond to the emtpy checkpoint" (line 760) has no effect on
  it. With `LockKind = "Mutex"` in `MCWeakReferences.cfg`, `CollectionEnds` fails: the
  holder waits for weak reference access, the other thread sleeps, the collector waits
  for the other thread. Among the mutexes expected there only `jni_libraries_lock_` is
  of that kind, and the one caller found that may sleep on it while Runnable is
  `UnloadNativeLibraries` in the zygote, so whether it happens is open.
* The scaling at `runtime/thread_list.cc:859` multiplies and divides by the same
  number and then subtracts a count of iterations from nanoseconds, where the comment
  asks for a fraction; the subtraction at line 857 wraps for a dump older than
  `kDumpWaitNSecs`.
* A thread that is notified and interrupted before it runs may consume the
  notification and throw, where `Object.notify` would have another thread woken.
* `RequestConcurrentGC` takes a failed compare-and-set as "somebody else did"
  (`runtime/gc/heap.cc:4129`); the other requester may have asked for an earlier
  number. `gcs_completed_` is incremented outside `gc_complete_lock_`
  (`heap.cc:2880`), which `heap.h:1714` says guards it.
* `InitializeClass`'s `DCHECK(IsVerifyError)` may fail when `VerifyClass` only waited.
* `DoCollection`'s early return leaves `gc_task_scheduled_` set; zombies added between
  the move and the reset wait for the next `AddZombieCode`; OSR code erased by an
  invalidation never becomes a zombie.
* The comment in `DecodeWeakGlobal` says that the concurrent copying collector
  disables access by checkpoints; it does so in a pause.

## 6. Left out

Of the modelled parts:

* `Mutex`: the pthread variant, lock levels. `Monitor`: pool, list, contention
  logging. `Checkpoint`: `RequestSynchronousCheckpoint` beyond what flips need.
* `Heap`: sizes, and the repeated collections of `AllocateInternalWithGc`, of which
  one is kept; collector transitions.
* `WeakReferences`: copying, regions and the generational mode; soft and phantom
  references, `Reference.clear` and the queues seen by Java; finalizer references
  whose referent is already marked.
* `ClassInit`: what the verifier decides, transactions, the difference between
  initialised and visibly initialised.
* `JitCodeCache`: JNI stubs, profiling data, the zygote's region, class hierarchy
  analysis, memory layout; there is one worker.

Not modelled, by reason; `PROJECT.json` has them one by one:

* Sequential and large: the optimizing compiler, the verifier, the interpreter and
  entry points, class linking, dex, oat, image and profile files, the tools, dex2oat,
  the services, the native loader. Their correctness is about data that a small
  instance cannot have.
* Outside the program's own steps: the userfaultfd protocol of mark_compact, signal
  and fault handling, debugger connections, the Windows port's system emulation.
* Bound to real time: the shutdown of daemon threads, which sleeps and gives up.
* Of one lock or one compare-and-set, with no order to get wrong: thread pool,
  monitor pool, allocation stacks, spaces and allocators, reference tables.
* Clients of what is modelled: instrumentation, JVMTI's suspension, mark_sweep.
