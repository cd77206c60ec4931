------------------------------ MODULE HeapProofs ------------------------------
(***************************************************************************)
(* Proofs about the heap.  Heap, for every number of threads, every width  *)
(* of the GC numbers and any number of operations: GCs exclude each other  *)
(* and the sections that disable moving GCs, and the variables keep their  *)
(* types.  ThreadFlipGate: no thread is flipped inside a JNI critical      *)
(* section.  TaskProcessor: the daemon does not oversleep, and takes the   *)
(* tasks in the order of their times.                                      *)
(***************************************************************************)
EXTENDS Heap, ProgressParts, FiniteSetTheorems, TLAPS

\* What collector_type_running_ is while a thread is at l, if the thread owns it.
RunsAs(l) ==
    IF l \in {"gc", "finish"} THEN "gc"
    ELSE IF l \in {"try", "critical", "back_out"} THEN "critical"
    ELSE IF l \in {"suspend_all", "deflating", "deflated", "trimming", "trim_finish"} THEN "trim"
    ELSE IF l = "compacting" THEN "hsc" ELSE "none"

\* Between IncrementDisableMovingGC and DecrementDisableMovingGC.
Disables(l) == l \in {"no_moving", "no_moving_wait"}
Disabling == {t \in Thread : Disables(pc[t])}

\* Every thread, and nothing else, is at a place.
Placed == pc = [t \in All |-> pc[t]]

\* The thread that set collector_type_running_ is the only one that is between setting and
\* clearing it.
OwnerInv ==
    /\ Placed
    /\ \A t \in All : RunsAs(pc[t]) # "none" => collector_type_running = RunsAs(pc[t])
    /\ \A t, u \in All : RunsAs(pc[t]) # "none" /\ RunsAs(pc[u]) # "none" => t = u
    /\ ~Free => \E t \in All : RunsAs(pc[t]) # "none"

\* disable_moving_gc_count_ counts the threads that disable moving GCs, and none of those
\* that returned from IncrementDisableMovingGC shares its time with one.
MovingInv ==
    /\ disable_moving_gc_count = Cardinality(Disabling)
    /\ \A t \in Thread : pc[t] = "no_moving" => ~IsMovingGc(collector_type_running)

GcInv == OwnerInv /\ MovingInv

------------------------------------------------------------------------------
(* The kinds of step: what an action does to collector_type_running_ *)

Moves(t) ==
    /\ Placed'
    /\ \A u \in All \ {t} : pc'[u] = pc[u]
    /\ ~Disables(pc[t]) /\ ~Disables(pc'[t])
    /\ UNCHANGED <<collector_type, disable_moving_gc_count>>

\* t goes on within its GC, or outside every GC.
Keeps(t) == Moves(t) /\ RunsAs(pc'[t]) = RunsAs(pc[t]) /\ UNCHANGED collector_type_running

\* t finds collector_type_running_ clear and sets it; for a moving GC nobody disables them.
Acquires(t) ==
    /\ Moves(t)
    /\ Free /\ RunsAs(pc'[t]) # "none" /\ collector_type_running' = RunsAs(pc'[t])
    /\ IsMovingGc(collector_type_running)' => disable_moving_gc_count = 0

\* The owner of collector_type_running_ clears it and leaves its GC.
Releases(t) ==
    /\ Moves(t)
    /\ RunsAs(pc[t]) # "none" /\ RunsAs(pc'[t]) = "none" /\ collector_type_running' = "none"

Ownership(t) == Keeps(t) \/ Acquires(t) \/ Releases(t)

gcInvVars == <<pc, collector_type, collector_type_running, disable_moving_gc_count>>

\* A finite set of threads disables moving GCs.
LEMMA DisablingFinite == IsFiniteSet(Disabling) /\ IsFiniteSet(Disabling')
  BY HeapAssumption, FS_Subset DEF Disabling

\* A step of a thread that disables moving GCs neither before nor after it, and starts
\* none while they are disabled.
LEMMA MovingStep ==
  ASSUME GcInv, NEW t \in All, Ownership(t)
  PROVE  MovingInv'
  <1>0. /\ Moves(t)
        /\ \/ collector_type_running' \in {collector_type_running, "none"}
           \/ IsMovingGc(collector_type_running)' => disable_moving_gc_count = 0
    BY DEF Ownership, Keeps, Acquires, Releases
  <1>1. Disabling' = Disabling
    BY <1>0 DEF Moves, GcInv, OwnerInv, Disabling, Disables, All
  <1>2. \A u \in Thread : pc'[u] = "no_moving" => pc[u] = "no_moving" /\ u \in Disabling
    BY <1>0 DEF Moves, GcInv, OwnerInv, Disabling, Disables, All
  <1>3. disable_moving_gc_count = 0 => Disabling = {}
    BY Zenon, DisablingFinite, FS_EmptySet DEF GcInv, MovingInv
  <1>4. \A u \in Thread : pc'[u] = "no_moving" => ~IsMovingGc(collector_type_running)'
    <2>1. CASE collector_type_running' \in {collector_type_running, "none"}
      BY <2>1, <1>0, <1>2 DEF Moves, GcInv, MovingInv, IsMovingGc
    <2>2. CASE IsMovingGc(collector_type_running)' => disable_moving_gc_count = 0
      BY <2>2, <1>2, <1>3
    <2> QED
      BY <1>0, <2>1, <2>2
  <1> QED
    BY <1>0, <1>1, <1>4 DEF Moves, GcInv, MovingInv

\* Every such step keeps the owner unique.
LEMMA OwnerStep ==
  ASSUME OwnerInv, NEW t \in All, Ownership(t)
  PROVE  OwnerInv'
  <1>1. CASE Keeps(t)
    BY <1>1 DEF Keeps, Moves, OwnerInv, Free
  <1>2. CASE Acquires(t)
    BY <1>2 DEF Acquires, Moves, OwnerInv, Free
  <1>3. CASE Releases(t)
    BY <1>3 DEF Releases, Moves, OwnerInv, Free
  <1> QED
    BY <1>1, <1>2, <1>3 DEF Ownership

\* IncrementDisableMovingGC counts the caller and makes it wait for a moving GC.
LEMMA IncrementKeepsInv ==
  ASSUME GcInv, NEW t \in Thread, IncrementDisableMovingGC(t)
  PROVE  GcInv'
  <1>1. t \in All /\ pc[t] = "idle"
    BY DEF All, IncrementDisableMovingGC, Begin
  <1>2. \/ pc' = [pc EXCEPT ![t] = "no_moving"] /\ ~IsMovingGc(collector_type_running)
        \/ pc' = [pc EXCEPT ![t] = "no_moving_wait"]
    BY Zenon DEF IncrementDisableMovingGC, Goto
  <1>3. /\ UNCHANGED <<collector_type, collector_type_running>>
        /\ disable_moving_gc_count' = disable_moving_gc_count + 1
    BY DEF IncrementDisableMovingGC, gcvars
  <1>4. Disabling' = Disabling \cup {t} /\ t \notin Disabling
    BY <1>1, <1>2 DEF GcInv, OwnerInv, Placed, Disabling, Disables, All
  <1>5. disable_moving_gc_count' = Cardinality(Disabling')
    BY <1>3, <1>4, DisablingFinite, FS_AddElement DEF GcInv, MovingInv
  <1>6. \A u \in Thread : pc'[u] = "no_moving" => ~IsMovingGc(collector_type_running)'
    BY <1>1, <1>2, <1>3 DEF GcInv, OwnerInv, Placed, MovingInv, IsMovingGc, All
  <1>7. /\ RunsAs("idle") = "none"
        /\ RunsAs("no_moving") = "none" /\ RunsAs("no_moving_wait") = "none"
    BY DEF RunsAs
  <1>8. OwnerInv'
    BY <1>1, <1>2, <1>3, <1>7 DEF GcInv, OwnerInv, Placed, Free
  <1> QED
    BY <1>5, <1>6, <1>8 DEF GcInv, MovingInv

\* IncrementDisableMovingGC returns once no GC runs at all.
LEMMA WaitedKeepsInv ==
  ASSUME GcInv, NEW t \in Thread, DisableMovingWaited(t)
  PROVE  GcInv'
  <1>1. /\ t \in All /\ pc[t] = "no_moving_wait" /\ Free
        /\ pc' = [pc EXCEPT ![t] = "no_moving"]
        /\ UNCHANGED <<collector_type, collector_type_running, disable_moving_gc_count>>
    BY DEF All, DisableMovingWaited, At, Goto, gcvars, offvars
  <1>2. Disabling' = Disabling
    BY <1>1 DEF GcInv, OwnerInv, Placed, Disabling, Disables, All
  <1>3. ~IsMovingGc(collector_type_running)'
    BY <1>1 DEF IsMovingGc, Free
  <1>4. RunsAs("no_moving_wait") = "none" /\ RunsAs("no_moving") = "none"
    BY DEF RunsAs
  <1>5. OwnerInv'
    BY <1>1, <1>4 DEF GcInv, OwnerInv, Placed, Free
  <1> QED
    BY <1>1, <1>2, <1>3, <1>5 DEF GcInv, MovingInv

\* DecrementDisableMovingGC takes the caller out of the count.
LEMMA DecrementKeepsInv ==
  ASSUME GcInv, NEW t \in Thread, DecrementDisableMovingGC(t)
  PROVE  GcInv'
  <1>1. /\ t \in All /\ pc[t] = "no_moving"
        /\ pc' = [pc EXCEPT ![t] = "idle"]
        /\ UNCHANGED <<collector_type, collector_type_running>>
        /\ disable_moving_gc_count' = disable_moving_gc_count - 1
    BY DEF All, DecrementDisableMovingGC, Goto, gcvars
  <1>2. Disabling' = Disabling \ {t} /\ t \in Disabling
    BY <1>1 DEF GcInv, OwnerInv, Placed, Disabling, Disables, All
  <1>3. disable_moving_gc_count' = Cardinality(Disabling')
    BY <1>1, <1>2, DisablingFinite, FS_RemoveElement DEF GcInv, MovingInv
  <1>4. \A u \in Thread : pc'[u] = "no_moving" => ~IsMovingGc(collector_type_running)'
    BY <1>1 DEF GcInv, OwnerInv, Placed, MovingInv, IsMovingGc, All
  <1>5. RunsAs("no_moving") = "none" /\ RunsAs("idle") = "none"
    BY DEF RunsAs
  <1>6. OwnerInv'
    BY <1>1, <1>5 DEF GcInv, OwnerInv, Placed, Free
  <1> QED
    BY <1>3, <1>4, <1>6 DEF GcInv, MovingInv

------------------------------------------------------------------------------
(* Every action is one of these kinds *)

\* An allocation after its wait, and CollectGarbageInternal.
LEMMA CollectKind ==
  ASSUME Placed, NEW t \in All,
         \/ AllocateAfterWait(t)
         \/ CollectEarlyReturn(t)
         \/ CollectGarbageInternal(t)
         \/ CollectNot(t)
         \/ CollectStart(t)
         \/ CollectRun(t)
         \/ CollectFinish(t)
  PROVE  Ownership(t)
  <1>1. CASE AllocateAfterWait(t)
    BY <1>1 DEF AllocateAfterWait, AtOne, Goto, gcvars, offvars, Ownership, Keeps,
       Moves, RunsAs, Disables, Placed, All
  <1>2. CASE CollectEarlyReturn(t)
    BY Zenon, <1>2 DEF CollectEarlyReturn, ReturnNone, Goto, gcvars, offvars, Ownership, Keeps,
       Moves, RunsAs, Disables, Placed, All
  <1>3. CASE CollectGarbageInternal(t)
    BY Zenon, <1>3 DEF CollectGarbageInternal, Goto, gcvars, offvars, Ownership, Keeps, Moves,
       RunsAs, Disables, Placed, All
  <1>4. CASE CollectNot(t)
    BY <1>4 DEF CollectNot, At, ReturnNone, Goto, gcvars, offvars, Ownership, Keeps,
       Moves, RunsAs, Disables, Placed, All
  <1>5. CASE CollectStart(t)
    BY Zenon, <1>5 DEF CollectStart, Impossible, IsMovingGc, Goto, At, gcvars, offvars,
       Ownership, Acquires, Moves, RunsAs, Disables, Placed, All
  <1>6. CASE CollectRun(t)
    BY <1>6 DEF CollectRun, Goto, gcvars, offvars, Ownership, Keeps, Moves, RunsAs,
       Disables, Placed, All
  <1>7. CASE CollectFinish(t)
    BY Zenon, <1>7 DEF CollectFinish, Goto, FinishGC, gcvars, offvars, Ownership, Releases,
       Moves, RunsAs, Disables, Placed, All
  <1> QED
    BY <1>1, <1>2, <1>3, <1>4, <1>5, <1>6, <1>7

\* RequestConcurrentGC, and the loop of CheckGCForNative around it.
LEMMA NativeKind ==
  ASSUME Placed, NEW t \in All,
         \/ RequestLoad(t)
         \/ RequestCas(t)
         \/ RequestReturn(t)
         \/ NativeLoop(t)
         \/ NativeWaited(t)
         \/ NativeCheck(t)
         \/ NativeGiveUp(t)
  PROVE  Ownership(t)
  <1>1. CASE RequestLoad(t)
    BY <1>1 DEF RequestLoad, Goto, gcvars, offvars, Ownership, Keeps, Moves, RunsAs,
       Disables, Placed, All
  <1>2. CASE RequestCas(t)
    BY Zenon, <1>2 DEF RequestCas, Goto, gcvars, offvars, Ownership, Keeps, Moves, RunsAs,
       Disables, Placed, All
  <1>3. CASE RequestReturn(t)
    BY <1>3 DEF RequestReturn, Goto, gcvars, offvars, Ownership, Keeps, Moves, RunsAs,
       Disables, Placed, All
  <1>4. CASE NativeLoop(t)
    BY <1>4 DEF NativeLoop, Goto, gcvars, offvars, Ownership, Keeps, Moves, RunsAs,
       Disables, Placed, All
  <1>5. CASE NativeWaited(t)
    BY <1>5 DEF NativeWaited, AtOne, Goto, gcvars, offvars, Ownership, Keeps, Moves,
       RunsAs, Disables, Placed, All
  <1>6. CASE NativeCheck(t)
    BY <1>6 DEF NativeCheck, Goto, gcvars, offvars, Ownership, Keeps, Moves, RunsAs,
       Disables, Placed, All
  <1>7. CASE NativeGiveUp(t)
    BY Zenon, <1>7 DEF NativeGiveUp, Goto, gcvars, offvars, Ownership, Keeps, Moves, RunsAs,
       Disables, Placed, All
  <1> QED
    BY <1>1, <1>2, <1>3, <1>4, <1>5, <1>6, <1>7

\* A critical section, a homogeneous space compaction, and the end of shutdown.
LEMMA SectionKind ==
  ASSUME Placed, NEW t \in All,
         \/ StartGCRunnable(t)
         \/ TryRunnable(t)
         \/ BackOut(t)
         \/ RunnableAgain(t)
         \/ ExitCriticalSection(t)
         \/ CompactStart(t)
         \/ Compact(t)
         \/ SetShuttingDown(t)
  PROVE  Ownership(t)
  <1>1. CASE StartGCRunnable(t)
    BY Zenon, <1>1 DEF StartGCRunnable, IsMovingGc, Goto, At, gcvars, offvars, Ownership,
       Acquires, Moves, RunsAs, Disables, Placed, All
  <1>2. CASE TryRunnable(t)
    BY <1>2 DEF TryRunnable, Goto, gcvars, offvars, Ownership, Keeps, Moves, RunsAs,
       Disables, Placed, All
  <1>3. CASE BackOut(t)
    BY Zenon, <1>3 DEF BackOut, Goto, gcvars, offvars, Ownership, Releases, Moves, RunsAs,
       Disables, Placed, All
  <1>4. CASE RunnableAgain(t)
    BY <1>4 DEF RunnableAgain, Goto, gcvars, offvars, Ownership, Keeps, Moves, RunsAs,
       Disables, Placed, All
  <1>5. CASE ExitCriticalSection(t)
    BY Zenon, <1>5 DEF ExitCriticalSection, Goto, FinishGC, gcvars, offvars, Ownership,
       Releases, Moves, RunsAs, Disables, Placed, All
  <1>6. CASE CompactStart(t)
    BY <1>6 DEF CompactStart, At, Free, Goto, gcvars, offvars, Ownership, Keeps,
       Acquires, Moves, RunsAs, Disables, Placed, All
  <1>7. CASE Compact(t)
    BY Zenon, <1>7 DEF Compact, Goto, FinishGC, gcvars, offvars, Ownership, Releases, Moves,
       RunsAs, Disables, Placed, All
  <1>8. CASE SetShuttingDown(t)
    BY <1>8 DEF SetShuttingDown, AtOne, Goto, gcvars, offvars, Ownership, Keeps, Moves,
       RunsAs, Disables, Placed, All
  <1> QED
    BY <1>1, <1>2, <1>3, <1>4, <1>5, <1>6, <1>7, <1>8

\* A mutator starts an operation that does not disable moving GCs.
LEMMA StartKind ==
  ASSUME Placed, NEW t \in Thread,
         \/ CollectGarbage(t)
         \/ AllocateInternalWithGc(t)
         \/ CheckGCForNative(t)
         \/ EnterCriticalSection(t)
         \/ PerformHomogeneousSpaceCompact(t)
         \/ DisableGCForShutdown(t)
  PROVE  Ownership(t)
  <1>1. CASE CollectGarbage(t)
    BY <1>1 DEF CollectGarbage, Begin, Goto, gcvars, offvars, Ownership, Keeps, Moves,
       RunsAs, Disables, Placed, All
  <1>2. CASE AllocateInternalWithGc(t)
    BY <1>2 DEF AllocateInternalWithGc, Begin, Goto, gcvars, offvars, Ownership, Keeps,
       Moves, RunsAs, Disables, Placed, All
  <1>3. CASE CheckGCForNative(t)
    BY <1>3 DEF CheckGCForNative, Begin, Goto, gcvars, offvars, Ownership, Keeps, Moves,
       RunsAs, Disables, Placed, All
  <1>4. CASE EnterCriticalSection(t)
    BY <1>4 DEF EnterCriticalSection, Begin, Goto, gcvars, offvars, Ownership, Keeps,
       Moves, RunsAs, Disables, Placed, All
  <1>5. CASE PerformHomogeneousSpaceCompact(t)
    BY <1>5 DEF PerformHomogeneousSpaceCompact, Begin, Goto, gcvars, offvars, Ownership,
       Keeps, Moves, RunsAs, Disables, Placed, All
  <1>6. CASE DisableGCForShutdown(t)
    BY <1>6 DEF DisableGCForShutdown, Begin, Goto, gcvars, offvars, Ownership, Keeps,
       Moves, RunsAs, Disables, Placed, All
  <1> QED
    BY <1>1, <1>2, <1>3, <1>4, <1>5, <1>6

\* What only the heap task daemon does.
LEMMA DaemonKind ==
  ASSUME Placed,
         \/ ConcurrentGC
         \/ TryNextGcType
         \/ ConcurrentGCTaskDone
         \/ TrimStart
         \/ TrimSpaces
         \/ TrimFinish
         \/ RunTrimTask
         \/ \E n \in gc_tasks : RunConcurrentGCTask(n)
         \/ DeflateStart
         \/ SuspendAll
         \/ DeflateMonitors
         \/ DeflateFinish
         \/ TrimIndirectReferenceTables
  PROVE  Ownership(Daemon)
  <1>1. CASE ConcurrentGC
    BY Zenon, <1>1 DEF ConcurrentGC, AtOne, Goto, gcvars, offvars, Ownership, Keeps, Moves,
       RunsAs, Disables, Placed, All
  <1>2. CASE TryNextGcType
    BY Zenon, <1>2 DEF TryNextGcType, Goto, gcvars, offvars, Ownership, Keeps, Moves, RunsAs,
       Disables, Placed, All
  <1>3. CASE ConcurrentGCTaskDone
    BY <1>3 DEF ConcurrentGCTaskDone, Goto, gcvars, offvars, Ownership, Keeps, Moves,
       RunsAs, Disables, Placed, All
  <1>4. CASE TrimStart
    BY Zenon, <1>4 DEF TrimStart, StartGC, IsMovingGc, Goto, At, gcvars, offvars, Ownership,
       Acquires, Moves, RunsAs, Disables, Placed, All
  <1>5. CASE TrimSpaces
    BY Zenon, <1>5 DEF TrimSpaces, Goto, gcvars, offvars, Ownership, Keeps, Moves, RunsAs,
       Disables, Placed, All
  <1>6. CASE TrimFinish
    BY <1>6 DEF TrimFinish, Goto, FinishGC, gcvars, offvars, Ownership, Releases, Moves,
       RunsAs, Disables, Placed, All
  <1>7. CASE RunTrimTask
    BY Zenon, <1>7 DEF RunTrimTask, Goto, gcvars, offvars, Ownership, Keeps, Moves, RunsAs,
       Disables, Placed, All
  <1>8. CASE \E n \in gc_tasks : RunConcurrentGCTask(n)
    BY <1>8 DEF RunConcurrentGCTask, Goto, gcvars, offvars, Ownership, Keeps, Moves,
       RunsAs, Disables, Placed, All
  <1>9. CASE DeflateStart
    BY Zenon, <1>9 DEF DeflateStart, StartGC, IsMovingGc, Goto, At, gcvars, offvars, Ownership,
       Acquires, Moves, RunsAs, Disables, Placed, All
  <1>10. CASE SuspendAll \/ DeflateMonitors \/ TrimIndirectReferenceTables
    BY <1>10 DEF SuspendAll, DeflateMonitors, TrimIndirectReferenceTables, Goto, gcvars,
       offvars, Ownership, Keeps, Moves, RunsAs, Disables, Placed, All
  <1>11. CASE DeflateFinish
    BY <1>11 DEF DeflateFinish, Goto, FinishGC, gcvars, offvars, Ownership, Releases, Moves,
       RunsAs, Disables, Placed, All
  <1> QED
    BY <1>1, <1>2, <1>3, <1>4, <1>5, <1>6, <1>7, <1>8, <1>9, <1>10, <1>11

------------------------------------------------------------------------------
(* GCs exclude each other and the sections that disable moving GCs *)

\* At the start nothing runs and nothing is disabled.
LEMMA GcInit == Init => GcInv
  <1> SUFFICES ASSUME Init PROVE GcInv
    OBVIOUS
  <1>1. Placed /\ \A t \in All : pc[t] \in {"idle", "task"}
    BY DEF Init, Placed, Idle
  <1>2. OwnerInv
    BY <1>1 DEF OwnerInv, RunsAs, Init, Free
  <1>3. Disabling = {}
    BY <1>1 DEF Disabling, Disables, All
  <1>4. \A t \in Thread : pc[t] # "no_moving"
    BY <1>1 DEF All
  <1> QED
    BY <1>2, <1>3, <1>4, FS_EmptySet DEF GcInv, MovingInv, Init

\* Every step keeps the invariant.
LEMMA GcNext == GcInv /\ [Next]_vars => GcInv'
  <1> SUFFICES ASSUME GcInv, [Next]_vars PROVE GcInv'
    OBVIOUS
  <1>1. Placed
    BY DEF GcInv, OwnerInv
  <1>2. ASSUME NEW t \in All, Ownership(t) PROVE GcInv'
    BY <1>2, OwnerStep, MovingStep DEF GcInv
  <1>3. ASSUME UNCHANGED gcInvVars PROVE GcInv'
    <2>1. Disabling' = Disabling
      BY <1>3 DEF Disabling, gcInvVars
    <2> QED
      BY <1>3, <2>1 DEF GcInv, OwnerInv, MovingInv, Placed, Free, IsMovingGc, gcInvVars
  <1>4. ASSUME NEW t \in All, Wait(t) \/ WakeSpuriously(t) \/ Suspend(t) PROVE GcInv'
    BY <1>3, <1>4 DEF Wait, WakeSpuriously, Suspend, gcvars, offvars, gcInvVars
  <1>5. ASSUME NEW t \in Thread, Start(t) PROVE GcInv'
    <2>1. CASE IncrementDisableMovingGC(t)
      BY <2>1, IncrementKeepsInv
    <2>2. CASE ~IncrementDisableMovingGC(t)
      BY <1>1, <1>2, <1>5, <2>2, StartKind DEF Start, All
    <2> QED
      BY <2>1, <2>2
  <1>6. ASSUME NEW t \in Thread, Step(t) PROVE GcInv'
    <2>1. CASE DisableMovingWaited(t)
      BY <2>1, WaitedKeepsInv
    <2>2. CASE DecrementDisableMovingGC(t)
      BY <2>2, DecrementKeepsInv
    <2>3. CASE Wait(t)
      BY <1>4, <2>3 DEF All
    <2>4. CASE ~(DisableMovingWaited(t) \/ DecrementDisableMovingGC(t) \/ Wait(t))
      BY <1>1, <1>2, <1>6, <2>4, CollectKind, NativeKind, SectionKind DEF Step, All
    <2> QED
      BY <2>1, <2>2, <2>3, <2>4
  <1>7. ASSUME NEW t \in Thread, CollectEarlyReturn(t) PROVE GcInv'
    BY <1>1, <1>2, <1>7, CollectKind DEF All
  <1>8. CASE DaemonStep
    <2>1. Daemon \in All
      BY DEF All
    <2>2. CASE Wait(Daemon)
      BY <1>4, <2>1, <2>2
    <2>3. CASE ~Wait(Daemon)
      BY <1>1, <1>2, <1>8, <2>1, <2>3, CollectKind, DaemonKind DEF DaemonStep
    <2> QED
      BY <2>2, <2>3
  <1>9. CASE Resume
    BY <1>3, <1>9 DEF Resume, gcvars, offvars, gcInvVars
  <1>10. CASE UNCHANGED vars
    BY <1>3, <1>10 DEF vars, gcvars, offvars, gcInvVars
  <1> QED
    BY <1>4, <1>5, <1>6, <1>7, <1>8, <1>9, <1>10 DEF Next

\* A unique owner is counted as one.
LEMMA GcInvExclusive == GcInv => GcExclusive
  <1> SUFFICES ASSUME GcInv PROVE GcExclusive
    OBVIOUS
  <1>1. Owners = {t \in All : RunsAs(pc[t]) # "none"}
    BY DEF Owners, RunsAs
  <1>2. CASE Free
    <2>1. Owners = {}
      BY <1>1, <1>2 DEF GcInv, OwnerInv, Free
    <2> QED
      BY <1>2, <2>1, FS_EmptySet DEF GcExclusive, GcInv, MovingInv
  <1>3. CASE ~Free
    <2>1. PICK t \in All : RunsAs(pc[t]) # "none"
      BY <1>3 DEF GcInv, OwnerInv
    <2>2. Owners = {t}
      BY <1>1, <2>1 DEF GcInv, OwnerInv
    <2> QED
      BY <1>3, <2>2, FS_Singleton DEF GcExclusive, GcInv, MovingInv
  <1> QED
    BY <1>2, <1>3

\* "Ensure there is only one GC at a time": for every number of threads and of operations,
\* at most one thread is between setting and clearing collector_type_running_, and no
\* moving GC runs while a thread that returned from IncrementDisableMovingGC relies on it.
THEOREM OneGcAtATime == Spec => []GcExclusive
  BY GcInit, GcNext, GcInvExclusive, PTL DEF Spec

------------------------------------------------------------------------------
(* The types of the variables *)

\* GC numbers stay within their width.
LEMMA PlusInRange ==
  ASSUME NEW n \in Nat, NEW k \in Nat
  PROVE  Plus(n, k) \in 0..W-1
  BY HeapAssumption DEF Plus

\* What TypeOK says of everything but disable_moving_gc_count_.
NumbersOK ==
    /\ collector_type_running \in {"none", "gc", "hsc", "critical", "trim"}
    /\ waiters \subseteq All
    /\ gcs_completed \in 0..W-1 /\ max_gc_requested \in 0..W-1
    /\ gc_tasks \subseteq 0..W-1
    /\ num \in [All -> 0..W] /\ seen \in [All -> 0..W] /\ waited \in [All -> BOOLEAN]

\* The constants of the numbers.
LEMMA NumberConstants == W \in Nat \ {0} /\ ANY \in 0..W /\ 0..W-1 \subseteq 0..W /\ 0..W \subseteq Nat
  BY HeapAssumption DEF ANY

\* A step of a thread, or of the daemon as a thread, keeps the types.
LEMMA ThreadTypes ==
  ASSUME NumbersOK, NEW t \in All
  PROVE  /\ Step(t) => NumbersOK'
         /\ CollectEarlyReturn(t) => NumbersOK'
         /\ WakeSpuriously(t) \/ Suspend(t) => NumbersOK'
  <1> USE NumberConstants
  <1>0. /\ Plus(gcs_completed, 1) \in 0..W-1
        /\ Plus(num[t], 1) \in 0..W-1
    BY Zenon, PlusInRange DEF NumbersOK
  <1>1. CASE Wait(t)
    BY <1>1 DEF Wait, NumbersOK, gcvars, reqvars, locals
  <1>2. CASE WakeSpuriously(t)
    BY <1>2 DEF WakeSpuriously, NumbersOK, gcvars, reqvars, locals
  <1>3. CASE Suspend(t)
    BY <1>3 DEF Suspend, NumbersOK, gcvars, reqvars, locals
  <1>4. CASE CollectEarlyReturn(t)
    BY <1>0, <1>4 DEF CollectEarlyReturn, ReturnNone, NumbersOK, gcvars, reqvars, locals
  <1>5. CASE CollectGarbageInternal(t)
    BY <1>5 DEF CollectGarbageInternal, NumbersOK, gcvars, reqvars, locals
  <1>6. CASE CollectNot(t)
    BY <1>0, <1>6 DEF CollectNot, LeaveWait, ReturnNone, NumbersOK, gcvars, reqvars, locals
  <1>7. CASE CollectStart(t)
    BY <1>7 DEF CollectStart, LeaveWait, NumbersOK, gcvars, reqvars, locals
  <1>8. CASE CollectRun(t)
    BY <1>8 DEF CollectRun, NumbersOK, gcvars, reqvars, locals
  <1>9. CASE CollectFinish(t)
    BY <1>0, <1>9 DEF CollectFinish, FinishGC, NumbersOK, gcvars, reqvars, locals
  <1>10. CASE AllocateAfterWait(t)
    BY <1>0, <1>10 DEF AllocateAfterWait, LeaveWait, NumbersOK, gcvars, reqvars, locals
  <1>11. CASE RequestLoad(t)
    BY <1>11 DEF RequestLoad, NumbersOK, gcvars, reqvars, locals
  <1>12. CASE RequestCas(t)
    BY Zenon, <1>0, <1>12 DEF RequestCas, NumbersOK, gcvars, reqvars, locals
  <1>13. CASE RequestReturn(t)
    BY <1>13 DEF RequestReturn, NumbersOK, gcvars, reqvars, locals
  <1>14. CASE NativeLoop(t)
    BY <1>14 DEF NativeLoop, NumbersOK, gcvars, reqvars, locals
  <1>15. CASE NativeWaited(t)
    BY <1>15 DEF NativeWaited, LeaveWait, NumbersOK, gcvars, reqvars, locals
  <1>16. CASE NativeCheck(t)
    BY <1>16 DEF NativeCheck, NumbersOK, gcvars, reqvars, locals
  <1>17. CASE NativeGiveUp(t)
    BY <1>17 DEF NativeGiveUp, NumbersOK, gcvars, reqvars, locals
  <1>18. CASE StartGCRunnable(t)
    BY <1>18 DEF StartGCRunnable, LeaveWait, NumbersOK, gcvars, reqvars, locals
  <1>19. CASE TryRunnable(t)
    BY <1>19 DEF TryRunnable, NumbersOK, gcvars, reqvars, locals
  <1>20. CASE BackOut(t)
    BY <1>20 DEF BackOut, NumbersOK, gcvars, reqvars, locals
  <1>21. CASE RunnableAgain(t)
    BY <1>21 DEF RunnableAgain, NumbersOK, gcvars, reqvars, locals
  <1>22. CASE ExitCriticalSection(t)
    BY <1>0, <1>22 DEF ExitCriticalSection, FinishGC, NumbersOK, gcvars, reqvars, locals
  <1>23. CASE DisableMovingWaited(t)
    BY <1>23 DEF DisableMovingWaited, LeaveWait, NumbersOK, gcvars, reqvars, locals
  <1>24. CASE DecrementDisableMovingGC(t)
    BY <1>24 DEF DecrementDisableMovingGC, NumbersOK, gcvars, reqvars, locals
  <1>25. CASE CompactStart(t)
    BY <1>25 DEF CompactStart, LeaveWait, NumbersOK, gcvars, reqvars, locals
  <1>26. CASE Compact(t)
    BY <1>0, <1>26 DEF Compact, FinishGC, NumbersOK, gcvars, reqvars, locals
  <1>27. CASE SetShuttingDown(t)
    BY <1>27 DEF SetShuttingDown, LeaveWait, NumbersOK, gcvars, reqvars, locals
  <1> QED
    BY ZenonT(30), <1>1, <1>2, <1>3, <1>4, <1>5, <1>6, <1>7, <1>8, <1>9, <1>10, <1>11, <1>12, <1>13, <1>14, <1>15, <1>16, <1>17, <1>18, <1>19, <1>20, <1>21, <1>22, <1>23, <1>24, <1>25, <1>26, <1>27
       DEF Step

\* A mutator that starts an operation keeps the types.
LEMMA StartTypes ==
  ASSUME NumbersOK, NEW t \in Thread, Start(t)
  PROVE  NumbersOK'
  <1> USE NumberConstants DEF All
  <1>1. CASE CollectGarbage(t)
    BY <1>1 DEF CollectGarbage, NumbersOK, gcvars, reqvars, locals
  <1>2. CASE AllocateInternalWithGc(t)
    BY <1>2 DEF AllocateInternalWithGc, NumbersOK, gcvars, reqvars, locals
  <1>3. CASE CheckGCForNative(t)
    BY <1>3 DEF CheckGCForNative, NumbersOK, gcvars, reqvars, locals
  <1>4. CASE EnterCriticalSection(t)
    BY <1>4 DEF EnterCriticalSection, NumbersOK, gcvars, reqvars, locals
  <1>5. CASE IncrementDisableMovingGC(t)
    BY <1>5 DEF IncrementDisableMovingGC, NumbersOK, gcvars, reqvars, locals
  <1>6. CASE PerformHomogeneousSpaceCompact(t)
    BY <1>6 DEF PerformHomogeneousSpaceCompact, NumbersOK, gcvars, reqvars, locals
  <1>7. CASE DisableGCForShutdown(t)
    BY <1>7 DEF DisableGCForShutdown, NumbersOK, gcvars, reqvars, locals
  <1> QED
    BY <1>1, <1>2, <1>3, <1>4, <1>5, <1>6, <1>7 DEF Start

\* A step of the heap task daemon keeps the types.
LEMMA DaemonTypes ==
  ASSUME NumbersOK, DaemonStep
  PROVE  NumbersOK'
  <1> USE NumberConstants
  <1> Daemon \in All
    BY DEF All
  <1>1. CASE ConcurrentGC
    BY <1>1 DEF ConcurrentGC, LeaveWait, NumbersOK, gcvars, reqvars, locals
  <1>2. CASE TryNextGcType
    BY <1>2 DEF TryNextGcType, NumbersOK, gcvars, reqvars, locals
  <1>3. CASE ConcurrentGCTaskDone
    BY <1>3 DEF ConcurrentGCTaskDone, NumbersOK, gcvars, reqvars, locals
  <1>4. CASE DeflateStart \/ TrimStart
    BY Zenon, <1>4 DEF DeflateStart, TrimStart, StartGC, LeaveWait, NumbersOK, gcvars, reqvars, locals
  <1>5. CASE TrimIndirectReferenceTables \/ TrimSpaces
    BY Zenon, <1>5 DEF TrimIndirectReferenceTables, TrimSpaces, NumbersOK, gcvars, reqvars, locals
  <1>6. CASE DeflateFinish \/ TrimFinish
    BY Zenon, <1>6 DEF DeflateFinish, TrimFinish, FinishGC, NumbersOK, gcvars, reqvars, locals
  <1>7. CASE RunTrimTask
    BY <1>7 DEF RunTrimTask, NumbersOK, gcvars, reqvars, locals
  <1>8. CASE \E n \in gc_tasks : RunConcurrentGCTask(n)
    BY <1>8 DEF RunConcurrentGCTask, NumbersOK, gcvars, reqvars, locals
  <1>9. CASE SuspendAll \/ DeflateMonitors
    BY Zenon, <1>9 DEF SuspendAll, DeflateMonitors, NumbersOK, gcvars, reqvars, locals
  <1> QED
    BY ThreadTypes, <1>1, <1>2, <1>3, <1>4, <1>5, <1>6, <1>7, <1>8, <1>9 DEF DaemonStep, Step

\* The initial state has the types, and every step keeps them.
LEMMA NumbersInvariant == Spec => []NumbersOK
  <1>1. Init => NumbersOK
    <2> SUFFICES ASSUME Init PROVE NumbersOK
      OBVIOUS
    <2>1. gcs_completed \in 0..W-1 /\ max_gc_requested \in 0..W-1
      BY HeapAssumption DEF Init
    <2>2. num \in [All -> 0..W] /\ seen \in [All -> 0..W] /\ waited \in [All -> BOOLEAN]
      BY NumberConstants DEF Init
    <2> QED
      BY <2>1, <2>2 DEF Init, NumbersOK
  <1>2. NumbersOK /\ [Next]_vars => NumbersOK'
    <2> SUFFICES ASSUME NumbersOK, [Next]_vars PROVE NumbersOK'
      OBVIOUS
    <2>1. ASSUME NEW t \in Thread, Start(t) \/ Step(t) \/ CollectEarlyReturn(t) PROVE NumbersOK'
      BY <2>1, StartTypes, ThreadTypes DEF All
    <2>2. ASSUME NEW t \in All, WakeSpuriously(t) \/ Suspend(t) PROVE NumbersOK'
      BY <2>2, ThreadTypes
    <2>3. CASE Resume
      BY <2>3 DEF Resume, NumbersOK, gcvars, reqvars, locals
    <2>4. CASE UNCHANGED vars
      BY <2>4 DEF vars, NumbersOK, gcvars, reqvars, locals
    <2> QED
      BY <2>1, <2>2, <2>3, <2>4, DaemonTypes DEF Next
  <1> QED
    BY <1>1, <1>2, PTL DEF Spec

\* GC numbers never leave their width, and disable_moving_gc_count_ is never negative nor
\* more than the number of mutators, whatever is started, suspended and resumed.
THEOREM HeapTypes == Spec => []TypeOK
  <1>1. GcInv /\ NumbersOK => TypeOK
    <2> SUFFICES ASSUME GcInv, NumbersOK PROVE TypeOK
      OBVIOUS
    <2>1. Disabling \subseteq Thread
      BY DEF Disabling
    <2>2. /\ Cardinality(Disabling) \in Nat /\ Cardinality(Thread) \in Nat
          /\ Cardinality(Disabling) <= Cardinality(Thread)
      BY <2>1, HeapAssumption, FS_Subset, FS_CardinalityType
    <2>3. disable_moving_gc_count \in 0..Cardinality(Thread)
      BY <2>2 DEF GcInv, MovingInv
    <2> QED
      BY <2>3 DEF NumbersOK, TypeOK
  <1> QED
    BY <1>1, GcInit, GcNext, NumbersInvariant, PTL DEF Spec

------------------------------------------------------------------------------
(* ThreadFlipGate *)

LEMMA GateThreads == IsFiniteSet(Thread) /\ Gc \notin Thread
BY GateAssumption DEF G!ThreadAssumption, IsFiniteSet, G!IsFiniteSet

LEMMA GateCardinality == ASSUME NEW S PROVE G!Cardinality(S) = Cardinality(S)
BY DEF Cardinality, G!Cardinality

InCritical == {t \in Thread : at[t] = "critical"}

\* The inductive invariant of the gate.  A thread's own count is zero exactly outside all
\* sections, so that only an outermost entry and the last exit change the global count.
GateInv ==
    /\ thread_flip_running \in BOOLEAN
    /\ own_count \in [Thread -> Nat]
    /\ at \in [Thread \cup {Gc} -> {"out", "enter", "critical", "begin", "flip"}]
    /\ at[Gc] \in {"out", "begin", "flip"}
    /\ thread_flip_running <=> at[Gc] \in {"begin", "flip"}
    /\ \A t \in Thread : /\ at[t] \in {"out", "enter", "critical"}
                         /\ at[t] = "out" <=> own_count[t] = 0
    /\ disable_thread_flip_count = Cardinality(InCritical)
    /\ at[Gc] = "flip" => InCritical = {}

\* The set of threads inside a section is finite, so its cardinality counts.
LEMMA InCriticalFinite ==
    IsFiniteSet(InCritical) /\ Cardinality(InCritical) \in Nat
        /\ (Cardinality(InCritical) = 0 <=> InCritical = {})
<1>1. IsFiniteSet(InCritical)
  BY GateThreads, FS_Subset DEF InCritical
<1> QED BY ZenonT(20), <1>1, FS_CardinalityType, FS_EmptySet

LEMMA GateInvExact == GateInv => G!NoFlipInCritical
<1> SUFFICES ASSUME GateInv PROVE G!NoFlipInCritical
  OBVIOUS
<1>1. disable_thread_flip_count = G!Cardinality({t \in Thread : at[t] = "critical"})
  BY GateCardinality DEF GateInv, InCritical
<1> QED BY <1>1 DEF GateInv, InCritical, G!NoFlipInCritical

LEMMA GateInit == G!Init => GateInv
<1> SUFFICES ASSUME G!Init PROVE GateInv
  OBVIOUS
<1>1. InCritical = {}
  BY GateThreads DEF InCritical, G!Init
<1>2. Cardinality(InCritical) = 0
  BY <1>1, FS_EmptySet
<1> QED BY Zenon, <1>1, <1>2, GateThreads DEF GateInv, G!Init

LEMMA GateNext == GateInv /\ [G!Next]_G!vars => GateInv'
<1> SUFFICES ASSUME GateInv, [G!Next]_G!vars PROVE GateInv'
  OBVIOUS
<1> USE GateThreads
<1>1. ASSUME NEW t \in Thread, G!IncrementDisableThreadFlip(t) PROVE GateInv'
  <2>1. InCritical' = InCritical
    BY <1>1 DEF GateInv, G!IncrementDisableThreadFlip, G!Goto, InCritical
  <2> QED BY <1>1, <2>1 DEF GateInv, G!IncrementDisableThreadFlip, G!Goto, G!gate
<1>2. ASSUME NEW t \in Thread, G!EnterWait(t) PROVE GateInv'
  BY <1>2 DEF GateInv, InCritical, G!EnterWait, G!gate
<1>3. ASSUME NEW t \in Thread, G!Enter(t) PROVE GateInv'
  <2>1. InCritical' = InCritical \cup {t} /\ t \notin InCritical
    BY <1>3 DEF GateInv, G!Enter, G!Goto, InCritical
  <2>2. Cardinality(InCritical') = Cardinality(InCritical) + 1
    BY ZenonT(20), <2>1, InCriticalFinite, FS_AddElement
  <2> QED BY <1>3, <2>2 DEF GateInv, G!Enter, G!Goto
<1>4. ASSUME NEW t \in Thread, G!DecrementDisableThreadFlip(t) PROVE GateInv'
  <2>1. CASE own_count[t] > 1
    <3>1. InCritical' = InCritical
      BY <1>4, <2>1 DEF GateInv, G!DecrementDisableThreadFlip, InCritical
    <3> QED BY <1>4, <2>1, <3>1 DEF GateInv, G!DecrementDisableThreadFlip, G!gate
  <2>2. CASE ~(own_count[t] > 1)
    <3>1. InCritical' = InCritical \ {t} /\ t \in InCritical
      BY <1>4, <2>2 DEF GateInv, G!DecrementDisableThreadFlip, G!Goto, InCritical
    <3>2. Cardinality(InCritical') = Cardinality(InCritical) - 1
      BY ZenonT(20), <3>1, InCriticalFinite, FS_RemoveElement
    <3>3. own_count[t] = 1
      BY <1>4, <2>2 DEF GateInv, G!DecrementDisableThreadFlip
    <3> QED BY <1>4, <2>2, <3>1, <3>2, <3>3 DEF GateInv, G!DecrementDisableThreadFlip, G!Goto
  <2> QED BY <2>1, <2>2
<1>5. ASSUME G!ThreadFlipBegin PROVE GateInv'
  <2>1. InCritical' = InCritical
    BY <1>5 DEF GateInv, G!ThreadFlipBegin, G!Goto, InCritical
  <2>2. at' \in [Thread \cup {Gc} -> {"out", "enter", "critical", "begin", "flip"}]
        /\ at'[Gc] = (IF disable_thread_flip_count > 0 THEN "begin" ELSE "flip")
        /\ \A t \in Thread : at'[t] = at[t]
    BY <1>5 DEF GateInv, G!ThreadFlipBegin, G!Goto
  <2>3. at'[Gc] = "flip" => InCritical' = {}
    BY <2>1, <2>2, InCriticalFinite DEF GateInv
  <2> QED BY <1>5, <2>1, <2>2, <2>3 DEF GateInv, G!ThreadFlipBegin
<1>9. ASSUME G!BeginAgain PROVE GateInv'
  <2>1. InCritical' = InCritical
    BY <1>9 DEF GateInv, G!BeginAgain, G!Goto, InCritical
  <2>2. at' \in [Thread \cup {Gc} -> {"out", "enter", "critical", "begin", "flip"}]
        /\ at'[Gc] = (IF disable_thread_flip_count > 0 THEN "begin" ELSE "flip")
        /\ \A t \in Thread : at'[t] = at[t]
    BY <1>9 DEF GateInv, G!BeginAgain, G!Goto
  <2>3. at'[Gc] = "flip" => InCritical' = {}
    BY <2>1, <2>2, InCriticalFinite DEF GateInv
  <2> QED BY <1>9, <2>1, <2>2, <2>3 DEF GateInv, G!BeginAgain, G!gate
<1>6. ASSUME G!ThreadFlipEnd PROVE GateInv'
  <2>1. InCritical' = InCritical
    BY <1>6 DEF GateInv, G!ThreadFlipEnd, G!Goto, InCritical
  <2> QED BY Zenon, <1>6, <2>1 DEF GateInv, G!ThreadFlipEnd, G!Goto
<1>7. ASSUME NEW t, G!WakeSpuriously(t) PROVE GateInv'
  BY <1>7 DEF GateInv, InCritical, G!WakeSpuriously, G!gate
<1>8. CASE UNCHANGED G!vars
  BY <1>8 DEF GateInv, InCritical, G!vars, G!gate
<1> QED BY ZenonT(30), <1>1, <1>2, <1>3, <1>4, <1>5, <1>6, <1>7, <1>8, <1>9 DEF G!Next

\* The gate holds back thread flips whatever the number of threads and however deep their
\* JNI critical sections nest (Heap::IncrementDisableThreadFlip, ThreadFlipBegin): in every
\* behaviour of the gate no thread is inside a section while threads are flipped, and the
\* global count is the number of threads inside.
THEOREM GateHolds == G!Spec => []NoFlipInCritical
<1>1. GateInv => NoFlipInCritical
  BY GateInvExact DEF NoFlipInCritical
<1> QED BY <1>1, GateInit, GateNext, PTL DEF G!Spec

------------------------------------------------------------------------------
(* TaskProcessor *)

LEMMA TasksConstants ==
    /\ HeapTaskDaemon \notin Poller /\ None \notin Task \cup Int /\ MaxTime \in Nat
BY TasksAssumption DEF P!TaskAssumption, P!BoundAssumption

TasksTypeOK ==
    /\ is_running \in BOOLEAN
    /\ target \in [Task -> Int]
    /\ task_status \in [Task -> {"new", "queued", "taken", "run"}]
    /\ cond \subseteq Poller \cup {HeapTaskDaemon}
    /\ deadline \in Int \cup {None}
    /\ at \in [Poller \cup {HeapTaskDaemon} -> {"idle", "get", "run", "check", "poll", "done"}]
    /\ now \in Nat

\* A task that has been taken is the one the daemon runs.
TakenIsRunning ==
    /\ \A k \in Task : task_status[k] = "taken" => at[HeapTaskDaemon] = "run" /\ task = k
    /\ at[HeapTaskDaemon] = "run" => task \in Task /\ task_status[task] = "taken"

\* What Stop found was in the queue, and has been run when the daemon finds the queue empty
\* and the processor stopped; it can then not be started before RunAllTasks has returned.
StoppedTasks ==
    /\ before \subseteq Task /\ \A k \in before : task_status[k] # "new"
    /\ at[HeapTaskDaemon] \in {"check", "done"} => \A k \in before : task_status[k] = "run"
    /\ at[HeapTaskDaemon] \in {"idle", "check", "done"} => ~is_running

\* The daemon waits in GetTask only.
Waiting == HeapTaskDaemon \in cond => at[HeapTaskDaemon] = "get"

TasksInv == TasksTypeOK /\ TakenIsRunning /\ StoppedTasks /\ Waiting /\ P!NoOversleep

LEMMA TasksInit == P!Init => TasksInv
<1> SUFFICES ASSUME P!Init PROVE TasksInv
  OBVIOUS
<1>1. TasksTypeOK
  <2>1. /\ target \in [Task -> Int]
        /\ task_status \in [Task -> {"new", "queued", "taken", "run"}]
    BY DEF P!Init
  <2>2. at \in [Poller \cup {HeapTaskDaemon} -> {"idle", "get", "run", "check", "poll", "done"}]
    BY DEF P!Init
  <2>3. is_running \in BOOLEAN /\ deadline \in Int \cup {None} /\ now \in Nat
        /\ cond \subseteq Poller \cup {HeapTaskDaemon}
    BY Zenon DEF P!Init
  <2> QED BY <2>1, <2>2, <2>3 DEF TasksTypeOK
<1>2. TakenIsRunning
  BY DEF P!Init, TakenIsRunning
<1>3. StoppedTasks
  BY DEF P!Init, StoppedTasks
<1>4. Waiting /\ P!NoOversleep
  BY DEF P!Init, Waiting, P!NoOversleep
<1> QED BY <1>1, <1>2, <1>3, <1>4 DEF TasksInv

LEMMA TasksNext == TasksInv /\ [P!Next]_P!vars => TasksInv'
<1> SUFFICES ASSUME TasksInv, [P!Next]_P!vars PROVE TasksInv'
  OBVIOUS
<1> USE TasksConstants
<1>1. ASSUME NEW k \in Task, NEW time \in P!Time, P!AddTask(k, time) PROVE TasksInv'
  <2>1. TasksTypeOK' /\ TakenIsRunning' /\ StoppedTasks' /\ Waiting'
    BY <1>1 DEF TasksInv, TasksTypeOK, TakenIsRunning, StoppedTasks, Waiting, P!AddTask, P!Signal,
                P!Time
  <2>2. HeapTaskDaemon \in cond' => P!Missed'
    BY Zenon, <1>1 DEF P!AddTask, P!Signal, P!Missed
  <2>3. HeapTaskDaemon \in cond' => is_running'
    BY <1>1 DEF TasksInv, P!NoOversleep, P!AddTask, P!Signal
  <2> QED BY <2>1, <2>2, <2>3 DEF TasksInv, P!NoOversleep
<1>2. ASSUME NEW k \in Task, NEW time \in P!Time, P!UpdateTargetRunTime(k, time) PROVE TasksInv'
  <2>1. TasksTypeOK' /\ TakenIsRunning' /\ StoppedTasks' /\ Waiting'
    BY <1>2 DEF TasksInv, TasksTypeOK, TakenIsRunning, StoppedTasks, Waiting,
                P!UpdateTargetRunTime, P!Signal, P!Time
  <2>2. HeapTaskDaemon \in cond' => is_running'
    BY <1>2 DEF TasksInv, P!NoOversleep, P!UpdateTargetRunTime, P!Signal
  <2>3. CASE P!BecameFirst(k, time)
    <3>1. HeapTaskDaemon \in cond' => P!Missed'
      BY Zenon, <1>2, <2>3 DEF P!UpdateTargetRunTime, P!Signal, P!Missed
    <3> QED BY <2>1, <2>2, <3>1 DEF TasksInv, P!NoOversleep
  <2>4. CASE ~P!BecameFirst(k, time)
    <3>1. PICK l \in P!tasks \ {k} : target[l] <= time
      BY <2>4 DEF P!BecameFirst, TasksInv, TasksTypeOK, P!tasks, P!Time
    <3>2. P!tasks' = P!tasks /\ cond' = cond /\ deadline' = deadline /\ diverted' = diverted
      BY <1>2, <2>4 DEF P!UpdateTargetRunTime, P!tasks
    <3>3. \A j \in P!tasks : target'[j] = IF j = k THEN time ELSE target[j]
      BY <1>2 DEF P!UpdateTargetRunTime, TasksInv, TasksTypeOK, P!tasks
    <3>4. ASSUME HeapTaskDaemon \in cond', ~P!Missed', NEW j \in P!tasks'
          PROVE deadline' # None /\ deadline' <= target'[j]
      <4>1. deadline # None /\ deadline <= target[j] /\ deadline <= target[l]
        BY <3>2, <3>4 DEF TasksInv, P!NoOversleep, P!Missed
      <4> QED BY <3>1, <3>2, <3>3, <4>1 DEF TasksInv, TasksTypeOK, P!tasks, P!Time
    <3> QED BY <2>1, <2>2, <3>4 DEF TasksInv, P!NoOversleep
  <2> QED BY <2>3, <2>4
<1>3. ASSUME P!Start PROVE TasksInv'
  BY <1>3 DEF TasksInv, TasksTypeOK, TakenIsRunning, StoppedTasks, Waiting, P!NoOversleep,
              P!Missed, P!tasks, P!Start, P!Goto
<1>4. ASSUME P!Stop PROVE TasksInv'
  BY Zenon, <1>4 DEF TasksInv, TasksTypeOK, TakenIsRunning, StoppedTasks, Waiting, P!NoOversleep,
              P!Missed, P!tasks, P!Stop
<1>5. ASSUME P!GetNothing PROVE TasksInv'
  BY <1>5 DEF TasksInv, TasksTypeOK, TakenIsRunning, StoppedTasks, Waiting, P!NoOversleep,
              P!Missed, P!tasks, P!GetNothing, P!DaemonWaits, P!QueueEmpty, P!Goto
<1>6. ASSUME NEW k \in Task, P!GetTask(k) PROVE TasksInv'
  BY <1>6 DEF TasksInv, TasksTypeOK, TakenIsRunning, StoppedTasks, Waiting, P!NoOversleep,
              P!Missed, P!tasks, P!First, P!GetTask, P!Goto
<1>7. ASSUME NEW k \in Task, P!GetTimedWait(k) PROVE TasksInv'
  BY <1>7 DEF TasksInv, TasksTypeOK, TakenIsRunning, StoppedTasks, Waiting, P!NoOversleep,
              P!Missed, P!tasks, P!First, P!GetTimedWait, P!DaemonWaits,
              P!MayRun
<1>8. ASSUME P!TimedOut PROVE TasksInv'
  BY <1>8 DEF TasksInv, TasksTypeOK, TakenIsRunning, StoppedTasks, Waiting, P!NoOversleep,
              P!Missed, P!tasks, P!TimedOut
<1>9. ASSUME P!RunTask PROVE TasksInv'
  BY <1>9 DEF TasksInv, TasksTypeOK, TakenIsRunning, StoppedTasks, Waiting, P!NoOversleep,
              P!Missed, P!tasks, P!RunTask, P!Goto
<1>10. ASSUME P!CheckRunning PROVE TasksInv'
  BY <1>10 DEF TasksInv, TasksTypeOK, TakenIsRunning, StoppedTasks, Waiting, P!NoOversleep,
               P!Missed, P!tasks, P!CheckRunning, P!Goto
<1>11. ASSUME NEW p \in Poller, P!BeginPoll(p) \/ P!Poll(p) PROVE TasksInv'
  BY <1>11 DEF TasksInv, TasksTypeOK, TakenIsRunning, StoppedTasks, Waiting, P!NoOversleep,
               P!Missed, P!tasks, P!BeginPoll, P!Poll, P!Goto
<1>12. ASSUME NEW p \in Poller, P!PollTimedOut(p) PROVE TasksInv'
  BY <1>12 DEF TasksInv, TasksTypeOK, TakenIsRunning, StoppedTasks, Waiting, P!NoOversleep,
               P!Missed, P!tasks, P!PollTimedOut
<1>13. ASSUME P!Tick PROVE TasksInv'
  BY <1>13 DEF TasksInv, TasksTypeOK, TakenIsRunning, StoppedTasks, Waiting, P!NoOversleep,
               P!Missed, P!tasks, P!Tick
<1>14. CASE UNCHANGED P!vars
  BY <1>14 DEF TasksInv, TasksTypeOK, TakenIsRunning, StoppedTasks, Waiting, P!NoOversleep,
               P!Missed, P!tasks, P!vars
<1> QED BY ZenonT(30), <1>1, <1>2, <1>3, <1>4, <1>5, <1>6, <1>7, <1>8, <1>9, <1>10, <1>11, <1>12,
           <1>13, <1>14 DEF P!Next, P!DaemonStep, P!PollerStep, P!Quiet

LEMMA TasksStopFinishes == TasksInv => P!StopFinishesTasks
BY DEF TasksInv, StoppedTasks, P!StopFinishesTasks

\* The HeapTaskDaemon does not sleep past the time of a task that AddTask or
\* UpdateTargetRunTime brings to the front, unless the Signal was taken by a thread that waits
\* in IsRunningThread; it never sleeps past Stop, and has run all that Stop found when
\* RunAllTasks returns: for any tasks, times, pollers and number of polls.
THEOREM DaemonAwake == P!Spec => []NoOversleep
<1>1. TasksInv => NoOversleep
  BY Zenon, TasksStopFinishes DEF NoOversleep, TasksInv
<1> QED BY <1>1, TasksInit, TasksNext, PTL DEF P!Spec

\* Only GetTask takes a task, the first of the queue and, unless the processor is stopped, no
\* sooner than its time.
LEMMA TasksInOrder == TasksInv /\ P!Next => P!InOrder
<1> SUFFICES ASSUME TasksInv, P!Next,
                    NEW k \in Task, task_status[k] = "queued", task_status'[k] = "taken"
             PROVE  /\ is_running => target[k] <= now
                    /\ \A l \in P!tasks : target[k] <= target[l]
  BY DEF P!InOrder
<1>1. P!GetTask(k)
  <2>1. CASE \E j \in Task : P!GetTask(j)
    BY Zenon, <2>1 DEF P!GetTask, TasksInv, TasksTypeOK
  <2>2. CASE P!RunTask
    BY <2>2 DEF P!RunTask, TasksInv, TasksTypeOK, TakenIsRunning
  <2>3. CASE \E j \in Task, time \in P!Time : P!AddTask(j, time)
    BY <2>3 DEF P!AddTask, TasksInv, TasksTypeOK
  <2>4. CASE task_status' = task_status
    BY <2>4
  <2> QED BY ZenonT(30), <2>1, <2>2, <2>3, <2>4
          DEF P!Next, P!DaemonStep, P!PollerStep, P!Quiet, P!vars, P!UpdateTargetRunTime, P!Start,
              P!Stop, P!Tick, P!GetNothing, P!TimedOut, P!CheckRunning, P!GetTimedWait,
              P!BeginPoll, P!Poll, P!PollTimedOut
<1> QED BY Zenon, <1>1 DEF P!GetTask, P!First, P!MayRun

\* While the processor runs the daemon takes no task before its time, and never one before
\* another whose time comes first (TaskProcessor::GetTask), whatever is added to the queue
\* and moved in it meanwhile: the safety part of TasksRunInTime.
THEOREM TakenInOrder == P!Spec => [][P!InOrder]_P!vars
<1>1. TasksInv /\ [P!Next]_P!vars => [P!InOrder]_P!vars
  BY TasksInOrder
<1> QED BY <1>1, TasksInit, TasksNext, PTL DEF P!Spec

==============================================================================
