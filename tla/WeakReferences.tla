---------------------------- MODULE WeakReferences ----------------------------
(***************************************************************************)
(* The marking and reference processing phases of one cycle of the         *)
(* concurrent copying collector, against mutators that use weak            *)
(* references: CopyingPhase from its first ProcessMarkStack to             *)
(* ReenableWeakRefAccess (gc/collector/concurrent_copying.cc), the         *)
(* ReferenceProcessor (gc/reference_processor.cc, gc/reference_queue.cc),  *)
(* JNI weak globals, and the empty checkpoint (ThreadList and              *)
(* Thread::RunEmptyCheckpoint).                                            *)
(*                                                                         *)
(* Marking is by colour: white (from-space), gray (marked, its fields go   *)
(* through the read barrier) and black; copying itself is left out.  The   *)
(* heap is fixed but for the referents.  Checkpoints and suspend-all are   *)
(* reduced to what they do at a thread's safepoint, pc "safe"; see         *)
(* Checkpoint and ThreadSuspension for how they work.  Soft references are *)
(* cleared like weak ones (clear_soft_references) and not forwarded.       *)
(***************************************************************************)
EXTENDS Integers, FiniteSets

CONSTANTS
    Thread,        \* mutator threads
    Obj,           \* objects, Reference instances included
    Fields,        \* per object: the objects its strong fields refer to
    WeakRef,       \* the instances of WeakReference
    FinalizerRef,  \* the instances of FinalizerReference
    Referent,      \* per Reference instance: its referent
    Roots,         \* objects marked before, as roots of threads and runtime
    Known,         \* the roots that mutators hold
    WeakGlobal,    \* the object of a JNI weak global reference, or None: there is no such
                   \* reference
    LockKind,      \* the class of the mutex under which a weak global is decoded: "Mutex"
                   \* (jni_libraries_lock_) or "ReaderWriterMutex" (dex_lock_,
                   \* classlinker_classes_lock_, held exclusively)
    None

\* Referents and fields are objects, and only roots are in a mutator's hands at first.
GraphAssumption ==
    /\ None \notin Obj
    /\ WeakRef \cup FinalizerRef \subseteq Obj /\ WeakRef \cap FinalizerRef = {}
    /\ Fields \in [Obj -> SUBSET Obj] /\ Referent \in [WeakRef \cup FinalizerRef -> Obj]
    /\ Known \subseteq Roots /\ Roots \subseteq Obj
    /\ WeakGlobal \in Obj \cup {None}

VARIABLES
    color, referent,
    tl_mark_stack,   \* per thread
    revoked,         \* revoked_mark_stacks_, as the set of their objects
    gc_mark_stack,
    mark_stack_mode, \* "local", "shared" or "exclusive"
    weak_access,     \* per thread: weak_ref_access_enabled
    rp_state,        \* "starting", "marked" (kInitMarkingDone), "cleared" (kInitClearingDone)
    weak_queue, finalizer_queue,
    weak_global,     \* the object of the weak global, or None once cleared
    gc,              \* where the collector is
    popping,         \* what it pops: "revoked" stacks or the "stack"
    scanning,        \* the object it scans, or None
    empty_prev, count,   \* of ProcessMarkStack: the last round was empty; this one was not
    suspend_request, \* the collector wants to suspend all threads
    revoke,          \* threads that still have to run the revoking checkpoint
    empty_flag,      \* threads with kEmptyCheckpointRequest
    barrier,         \* empty_checkpoint_barrier_
    unasked,         \* threads RunEmptyCheckpoint has still to ask
    expected,        \* its count, until it is added to the barrier
    pc, arg,         \* per thread: where it is, and on which object
    held,            \* per thread: the references it has got
    mutex,           \* owner of a mutex expected on weak reference access
    null_seen,       \* referents for which GetReferent returned null
    stale            \* GetReferent returned an object of null_seen

heap == <<color, referent, weak_global>>
stacks == <<tl_mark_stack, revoked, gc_mark_stack, mark_stack_mode>>
refs == <<weak_access, rp_state, weak_queue, finalizer_queue>>
gcvars == <<gc, popping, scanning, empty_prev, count>>
stop == <<suspend_request, revoke>>
empty == <<empty_flag, barrier, unasked, expected>>
mutators == <<pc, arg, held>>
history == <<null_seen, stale>>
vars == <<heap, stacks, refs, gcvars, stop, empty, mutators, mutex, history>>

Reference == WeakRef \cup FinalizerRef
IsMarked(o) == color[o] # "white"

Init ==
    /\ color = [o \in Obj |-> IF o \in Roots THEN "gray" ELSE "white"]
    /\ referent = Referent
    /\ weak_global = WeakGlobal
    /\ tl_mark_stack = [t \in Thread |-> {}]
    /\ revoked = {}
    /\ gc_mark_stack = Roots
    /\ mark_stack_mode = "local"
    /\ weak_access = [t \in Thread |-> TRUE]
    /\ rp_state = "cleared"
    /\ weak_queue = {} /\ finalizer_queue = {}
    /\ gc = "once" /\ popping = "stack" /\ scanning = None
    /\ empty_prev = FALSE /\ count = FALSE
    /\ suspend_request = FALSE /\ revoke = {}
    /\ empty_flag = {} /\ barrier = 0 /\ unasked = {} /\ expected = 0
    /\ pc = [t \in Thread |-> "safe"]
    /\ arg = [t \in Thread |-> None]
    /\ held = [t \in Thread |-> Known]
    /\ mutex = None
    /\ null_seen = {} /\ stale = FALSE

GotoArg(t, l, o) == pc' = [pc EXCEPT ![t] = l] /\ arg' = [arg EXCEPT ![t] = o]
Goto(t, l) == GotoArg(t, l, arg[t])

------------------------------------------------------------------------------
(* Mutators: the read barrier *)

\* Where a thread returns to when it has its reference: it leaves the mutex it took.
Done(t) == IF mutex = t THEN "unlock" ELSE "safe"

\* The thread has got o (None for null).
Got(t, o) ==
    /\ GotoArg(t, Done(t), None)
    /\ held' = [held EXCEPT ![t] = @ \cup ({o} \ {None})]

\* GetReferent of w returns o, or returns it once it has marked it.
Returns(w, o) ==
    /\ null_seen' = IF o = None THEN null_seen \cup {Referent[w]} ELSE null_seen
    /\ stale' = (stale \/ o \in null_seen)

\* A field of a held object: marked first if the holder is gray.
LoadField(t) ==
    /\ pc[t] = "safe" /\ ~suspend_request
    /\ \E o \in held[t] : \E p \in Fields[o] \ held[t] :
           IF color[o] = "gray" THEN GotoArg(t, "mark", p) /\ UNCHANGED held
                                ELSE Got(t, p)
    /\ UNCHANGED <<heap, stacks, refs, gcvars, stop, empty, mutex, history>>

\* Mark: the first to change the colour will push.
ReadBarrierMark(t) ==
    /\ pc[t] = "mark"
    /\ IF IsMarked(arg[t])
       THEN Got(t, arg[t]) /\ UNCHANGED color
       ELSE /\ color' = [color EXCEPT ![arg[t]] = "gray"]
            /\ Goto(t, "push")
            /\ UNCHANGED held
    /\ UNCHANGED <<referent, weak_global, stacks, refs, gcvars, stop, empty, mutex, history>>

\* PushOntoMarkStack of a mutator.  In the exclusive mode it must not happen (CHECK).
PushOntoMarkStack(t) ==
    /\ pc[t] = "push"
    /\ IF mark_stack_mode = "local"
       THEN /\ tl_mark_stack' = [tl_mark_stack EXCEPT ![t] = @ \cup {arg[t]}]
            /\ UNCHANGED gc_mark_stack
       ELSE /\ gc_mark_stack' = gc_mark_stack \cup {arg[t]}
            /\ UNCHANGED tl_mark_stack
    /\ Got(t, arg[t])
    /\ UNCHANGED <<heap, revoked, mark_stack_mode, refs, gcvars, stop, empty, mutex, history>>

------------------------------------------------------------------------------
(* Mutators: GetReferent and weak globals *)

\* Reference::GetReferent, with its read barrier.
LoadReferent(t, w) ==
    /\ Returns(w, referent[w])
    /\ IF referent[w] # None /\ color[w] = "gray"
       THEN GotoArg(t, "mark", referent[w]) /\ UNCHANGED held
       ELSE Got(t, referent[w])

\* ReferenceProcessor::GetReferent.  In the slow path a null is returned at once.
GetReferent(t) ==
    /\ pc[t] = "safe" /\ ~suspend_request
    /\ \E w \in held[t] \cap WeakRef :
           IF weak_access[t] THEN LoadReferent(t, w)
           ELSE IF referent[w] = None THEN Returns(w, None) /\ Got(t, None)
           ELSE GotoArg(t, "slow", w) /\ UNCHANGED <<held, history>>
    /\ UNCHANGED <<heap, stacks, refs, gcvars, stop, empty, mutex>>

\* The loop under reference_processor_lock_ with its three ways out.
SlowPathDone(t) ==
    /\ pc[t] = "slow"
    /\ weak_access[t] \/ rp_state = "cleared"
    /\ LoadReferent(t, arg[t])
    /\ UNCHANGED <<heap, stacks, refs, gcvars, stop, empty, mutex>>

SlowPathPredict(t) ==
    /\ pc[t] = "slow"
    /\ ~weak_access[t] /\ rp_state = "marked"
    /\ LET o == referent[arg[t]]
           forwarded == IF o \in {p \in Obj : IsMarked(p)} THEN o ELSE None
       IN  Returns(arg[t], forwarded) /\ Got(t, forwarded)
    /\ UNCHANGED <<heap, stacks, refs, gcvars, stop, empty, mutex>>

\* A JNI weak global is decoded, under a mutex of the caller or not.
DecodeWeakGlobal(t) ==
    /\ WeakGlobal # None /\ pc[t] = "safe" /\ ~suspend_request
    /\ Goto(t, "global") \/ Goto(t, "lock")
    /\ UNCHANGED <<heap, stacks, refs, gcvars, stop, empty, held, mutex, history>>

DecodeWeakGlobalLocked(t) ==
    /\ pc[t] = "global" /\ weak_access[t]
    /\ IF weak_global # None
       THEN GotoArg(t, "mark", weak_global) /\ UNCHANGED held
       ELSE Got(t, weak_global)
    /\ UNCHANGED <<heap, stacks, refs, gcvars, stop, empty, mutex, history>>

Blocked(t) ==
    \/ pc[t] = "slow" /\ ~weak_access[t] /\ rp_state = "starting"
    \/ pc[t] = "global" /\ ~weak_access[t]

\* Blocked on weak reference access: respond to an empty checkpoint, then wait.  The
\* lock of the condition is held from the test to the wait.
WaitForAccess(t) ==
    /\ Blocked(t) /\ t \notin empty_flag
    /\ Goto(t, IF pc[t] = "slow" THEN "slow_wait" ELSE "global_wait")
    /\ UNCHANGED <<heap, stacks, refs, gcvars, stop, empty, held, mutex, history>>

\* The threads waiting on the condition of the reference processor (slow_wait) or of the
\* weak globals (global_wait), woken by a broadcast.
Broadcast(from, to) == pc' = [t \in Thread |-> IF pc[t] = from THEN to ELSE pc[t]]

------------------------------------------------------------------------------
(* Mutators: a mutex that a thread blocked on weak reference access may hold *)

\* ExclusiveLock.  Contended, the thread responds to an empty checkpoint and then goes to
\* sleep, and may be preempted between the two.
Lock(t) ==
    /\ pc[t] = "lock" /\ mutex = None
    /\ mutex' = t
    /\ Goto(t, "global")
    /\ UNCHANGED <<heap, stacks, refs, gcvars, stop, empty, held, history>>

LockContended(t) ==
    /\ pc[t] = "lock" /\ mutex # None /\ t \notin empty_flag
    /\ Goto(t, "before_sleep")
    /\ UNCHANGED <<heap, stacks, refs, gcvars, stop, empty, held, mutex, history>>

FutexWait(t) ==
    /\ pc[t] = "before_sleep"
    /\ Goto(t, IF mutex = None THEN "lock" ELSE "sleep")
    /\ UNCHANGED <<heap, stacks, refs, gcvars, stop, empty, held, mutex, history>>

\* Where a sleeper goes on when it is woken: in a ReaderWriterMutex at the top of the loop,
\* in a Mutex in the inner loop, which sleeps again as long as the mutex is held.
AfterWait == IF LockKind = "Mutex" THEN "before_sleep" ELSE "lock"

\* ExclusiveUnlock: a Mutex wakes one sleeper, a ReaderWriterMutex all.
Unlock(t) ==
    /\ pc[t] = "unlock"
    /\ mutex' = None
    /\ LET sleepers == {u \in Thread : pc[u] = "sleep"} IN
       \E woken \in SUBSET sleepers :
           /\ IF LockKind = "Mutex" /\ sleepers # {} THEN Cardinality(woken) = 1
                                                   ELSE woken = sleepers
           /\ pc' = [u \in Thread |-> IF u = t THEN "safe"
                                      ELSE IF u \in woken THEN AfterWait ELSE pc[u]]
    /\ UNCHANGED <<heap, stacks, refs, gcvars, stop, empty, arg, held, history>>

------------------------------------------------------------------------------
(* Mutators: checkpoints and states *)

\* Thread::RunEmptyCheckpoint, from a suspend check, from the wait for weak reference
\* access or from a contended mutex.
RunEmptyCheckpoint(t) ==
    /\ t \in empty_flag
    /\ pc[t] \in {"safe", "lock"} \/ Blocked(t)
    /\ pc[t] = "lock" => mutex # None
    /\ empty_flag' = empty_flag \ {t}
    /\ barrier' = barrier - 1
    /\ UNCHANGED <<heap, stacks, refs, gcvars, stop, unasked, expected, mutators, mutex, history>>

\* RevokeThreadLocalMarkStackCheckpoint::Run, by the thread or on its behalf.
RevokeThreadLocalMarkStack(t) ==
    /\ t \in revoke /\ pc[t] \in {"safe", "native"}
    /\ revoke' = revoke \ {t}
    /\ revoked' = revoked \cup tl_mark_stack[t]
    /\ tl_mark_stack' = [tl_mark_stack EXCEPT ![t] = {}]
    /\ UNCHANGED <<heap, gc_mark_stack, mark_stack_mode, refs, gcvars, suspend_request, empty,
                   mutators, mutex, history>>

\* A thread leaves the runnable state, after its checkpoints, and comes back.
GoNative(t) ==
    /\ pc[t] = "safe" /\ t \notin empty_flag \cup revoke
    /\ Goto(t, "native")
    /\ UNCHANGED <<heap, stacks, refs, gcvars, stop, empty, held, mutex, history>>

ReturnFromNative(t) ==
    /\ pc[t] = "native" /\ ~suspend_request
    /\ Goto(t, "safe")
    /\ UNCHANGED <<heap, stacks, refs, gcvars, stop, empty, held, mutex, history>>

------------------------------------------------------------------------------
(* The collector: the mark stacks *)

\* Mutant of Once: the shared mode goes without its empty checkpoint.
Once_NoEmptyCheckpoint ==
    /\ gc = "once"
    /\ count' = FALSE
    /\ IF mark_stack_mode = "local"
       THEN revoke' = Thread /\ gc' = "revoking"
       ELSE gc' = "pop" /\ UNCHANGED revoke
    /\ UNCHANGED <<heap, stacks, refs, popping, scanning, empty_prev, suspend_request, empty,
                   mutators, mutex, history>>

\* ProcessMarkStackOnce.  In the thread-local mode it starts with a checkpoint that
\* revokes the stacks, in the shared mode with an empty checkpoint.
Once ==
    /\ gc = "once"
    /\ count' = FALSE
    /\ CASE mark_stack_mode = "local" ->
                /\ revoke' = Thread /\ gc' = "revoking"
                /\ UNCHANGED <<barrier, unasked, expected>>
         [] mark_stack_mode = "shared" ->
                /\ barrier' = 0 /\ unasked' = Thread /\ expected' = 0 /\ gc' = "ask"
                /\ UNCHANGED revoke
         [] mark_stack_mode = "exclusive" ->
                /\ gc' = "pop"
                /\ UNCHANGED <<revoke, barrier, unasked, expected>>
    /\ UNCHANGED <<heap, stacks, refs, popping, scanning, empty_prev, suspend_request, empty_flag,
                   mutators, mutex, history>>

Revoked ==
    /\ gc = "revoking" /\ revoke = {}
    /\ gc' = "pop" /\ popping' = "revoked"
    /\ UNCHANGED <<heap, stacks, refs, scanning, empty_prev, count, stop, empty, mutators, mutex,
                   history>>

\* The stacks that were revoked come first.
PopRevoked ==
    /\ gc = "pop" /\ popping = "revoked"
    /\ IF revoked = {}
       THEN /\ popping' = "stack"
            /\ gc' = IF mark_stack_mode = "local" THEN "pop" ELSE "once"
            /\ UNCHANGED <<revoked, scanning, count>>
       ELSE \E o \in revoked :
                /\ revoked' = revoked \ {o}
                /\ scanning' = o /\ count' = TRUE /\ gc' = "scan"
                /\ UNCHANGED popping
    /\ UNCHANGED <<heap, tl_mark_stack, gc_mark_stack, mark_stack_mode, refs, empty_prev, stop,
                   empty, mutators, mutex, history>>

Pop ==
    /\ gc = "pop" /\ popping = "stack"
    /\ \E o \in gc_mark_stack :
           /\ gc_mark_stack' = gc_mark_stack \ {o}
           /\ scanning' = o /\ count' = TRUE /\ gc' = "scan"
    /\ UNCHANGED <<heap, tl_mark_stack, revoked, mark_stack_mode, refs, popping, empty_prev, stop,
                   empty, mutators, mutex, history>>

\* What follows ProcessMarkStack.
AfterProcessMarkStack ==
    CASE mark_stack_mode = "local" -> "setup"
      [] mark_stack_mode = "shared" -> "exclusive"
      [] mark_stack_mode = "exclusive" -> "clear"

\* ProcessMarkStack: two empty rounds in a row end it.
OnceEnds ==
    /\ gc = "pop" /\ popping = "stack" /\ gc_mark_stack = {}
    /\ IF empty_prev /\ ~count
       THEN gc' = AfterProcessMarkStack /\ empty_prev' = FALSE
       ELSE gc' = "once" /\ empty_prev' = ~count
    /\ UNCHANGED <<heap, stacks, refs, popping, scanning, count, stop, empty, mutators, mutex,
                   history>>

\* ProcessMarkStackRef: Scan marks every field.
ScanField ==
    /\ gc = "scan"
    /\ \E p \in Fields[scanning] :
           /\ ~IsMarked(p)
           /\ color' = [color EXCEPT ![p] = "gray"]
           /\ gc_mark_stack' = gc_mark_stack \cup {p}
    /\ UNCHANGED <<referent, weak_global, tl_mark_stack, revoked, mark_stack_mode, refs, gcvars,
                   stop, empty, mutators, mutex, history>>

\* DelayReferenceReferent.
ScanReferent ==
    /\ gc = "scan" /\ \A p \in Fields[scanning] : IsMarked(p)
    /\ LET white == {r \in Reference : referent[r] # None /\ color[referent[r]] = "white"} IN
       /\ weak_queue' = weak_queue \cup ({scanning} \cap WeakRef \cap white)
       /\ finalizer_queue' = finalizer_queue \cup ({scanning} \cap FinalizerRef \cap white)
    /\ gc' = "blacken"
    /\ UNCHANGED <<heap, stacks, weak_access, rp_state, popping, scanning, empty_prev, count, stop,
                   empty, mutators, mutex, history>>

\* Mutant of Blacken: a Reference with a white referent is made non-gray as well.
Blacken_AlsoWhiteReferent ==
    /\ gc = "blacken"
    /\ color' = [color EXCEPT ![scanning] = "black"]
    /\ gc' = "pop" /\ scanning' = None
    /\ UNCHANGED <<referent, weak_global, stacks, refs, popping, empty_prev, count, stop, empty,
                   mutators, mutex, history>>

\* A Reference whose referent is not in to-space by now stays gray.
Blacken ==
    /\ gc = "blacken"
    /\ color' = IF scanning \in {r \in Reference : referent[r] \in {o \in Obj : ~IsMarked(o)}}
                THEN color
                ELSE [color EXCEPT ![scanning] = "black"]
    /\ gc' = "pop" /\ scanning' = None
    /\ UNCHANGED <<referent, weak_global, stacks, refs, popping, empty_prev, count, stop, empty,
                   mutators, mutex, history>>

------------------------------------------------------------------------------
(* The collector: ThreadList::RunEmptyCheckpoint *)

\* Runnable threads are asked and counted; one seen suspended is in no heap access.
AskEmptyCheckpoint ==
    /\ gc = "ask"
    /\ \E t \in unasked :
           /\ unasked' = unasked \ {t}
           /\ IF pc[t] = "native" THEN UNCHANGED <<empty_flag, expected>>
              ELSE empty_flag' = empty_flag \cup {t} /\ expected' = expected + 1
    /\ UNCHANGED <<heap, stacks, refs, gcvars, stop, barrier, mutators, mutex, history>>

BroadcastForSlowPath ==
    /\ \/ gc = "ask" /\ unasked = {} /\ gc' = "new_weaks"
       \/ gc = "reenable" /\ (\A t \in Thread : weak_access[t]) /\ gc' = "unblock"
    /\ Broadcast("slow_wait", "slow")
    /\ UNCHANGED <<heap, stacks, refs, popping, scanning, empty_prev, count, stop, empty, arg, held,
                   mutex, history>>

BroadcastForNewSystemWeaks ==
    /\ \/ gc = "new_weaks" /\ gc' = "wakeup"
       \/ gc = "unblock" /\ gc' = "done"
    /\ Broadcast("global_wait", "global")
    /\ UNCHANGED <<heap, stacks, refs, popping, scanning, empty_prev, count, stop, empty, arg, held,
                   mutex, history>>

\* Every 100 ms: wake those asleep on a mutex, then wait for the barrier.
WakeupToRespondToEmptyCheckpoint ==
    /\ gc = "wakeup"
    /\ Broadcast("sleep", AfterWait)
    /\ barrier' = barrier + expected
    /\ expected' = 0
    /\ gc' = "barrier"
    /\ UNCHANGED <<heap, stacks, refs, popping, scanning, empty_prev, count, stop, empty_flag,
                   unasked, arg, held, mutex, history>>

BarrierPassed ==
    /\ gc = "barrier" /\ barrier = 0
    /\ gc' = "pop"
    /\ UNCHANGED <<heap, stacks, refs, popping, scanning, empty_prev, count, stop, empty, mutators,
                   mutex, history>>

\* Mutant of BarrierTimedOut: the second wait does not wake the sleepers again.
BarrierTimedOut_NoWakeup ==
    /\ gc = "barrier" /\ barrier # 0
    /\ UNCHANGED vars

BarrierTimedOut ==
    /\ gc = "barrier" /\ barrier # 0
    /\ gc' = "wakeup"
    /\ UNCHANGED <<heap, stacks, refs, popping, scanning, empty_prev, count, stop, empty, mutators,
                   mutex, history>>

------------------------------------------------------------------------------
(* The collector: phases *)

\* ReferenceProcessor::Setup.
Setup ==
    /\ gc = "setup"
    /\ rp_state' = "starting" /\ gc' = "share"
    /\ UNCHANGED <<heap, stacks, weak_access, weak_queue, finalizer_queue, popping, scanning,
                   empty_prev, count, stop, empty, mutators, mutex, history>>

\* SwitchToSharedMarkStackMode, before its pause and in it.
SwitchToSharedMarkStackMode ==
    /\ gc = "share"
    /\ mark_stack_mode' = "shared"
    /\ suspend_request' = TRUE /\ gc' = "pause"
    /\ UNCHANGED <<heap, tl_mark_stack, revoked, gc_mark_stack, refs, popping, scanning, empty_prev,
                   count, revoke, empty, mutators, mutex, history>>

DisableWeakRefAccess ==
    /\ gc = "pause" /\ \A t \in Thread : pc[t] \in {"safe", "native"}
    /\ revoked' = UNION {tl_mark_stack[t] : t \in Thread}
    /\ tl_mark_stack' = [t \in Thread |-> {}]
    /\ weak_access' = [t \in Thread |-> FALSE]
    /\ suspend_request' = FALSE
    /\ gc' = "pop" /\ popping' = "revoked"
    /\ UNCHANGED <<heap, gc_mark_stack, mark_stack_mode, rp_state, weak_queue, finalizer_queue,
                   scanning, empty_prev, count, revoke, empty, mutators, mutex, history>>

SwitchToGcExclusiveMarkStackMode ==
    /\ gc = "exclusive"
    /\ mark_stack_mode' = "exclusive" /\ gc' = "marked"
    /\ UNCHANGED <<heap, tl_mark_stack, revoked, gc_mark_stack, refs, popping, scanning, empty_prev,
                   count, stop, empty, mutators, mutex, history>>

\* ProcessReferences: kInitMarkingDone.
InitMarkingDone ==
    /\ gc = "marked"
    /\ rp_state' = "marked" /\ gc' = "clear"
    /\ Broadcast("slow_wait", "slow")
    /\ UNCHANGED <<heap, stacks, weak_access, weak_queue, finalizer_queue, popping, scanning,
                   empty_prev, count, stop, empty, arg, held, mutex, history>>

\* ClearWhiteReferences, one reference: the first time and after the finalizers.
ClearWhiteReference ==
    /\ gc = "clear"
    /\ \E w \in weak_queue :
           /\ weak_queue' = weak_queue \ {w}
           /\ referent' = [referent EXCEPT ![w] = IF IsMarked(@) THEN @ ELSE None]
           /\ color' = [color EXCEPT ![w] = "black"]
    /\ UNCHANGED <<weak_global, stacks, weak_access, rp_state, finalizer_queue, gcvars, stop, empty,
                   mutators, mutex, history>>

\* Mutant of InitClearingDone: the state advances before the references are cleared.
InitClearingDone_Early ==
    /\ gc = "clear" /\ rp_state = "marked"
    /\ rp_state' = "cleared" /\ gc' = "finalize"
    /\ UNCHANGED <<heap, stacks, weak_access, weak_queue, finalizer_queue, popping, scanning,
                   empty_prev, count, stop, empty, mutators, mutex, history>>

\* kInitClearingDone.
InitClearingDone ==
    /\ gc = "clear" /\ weak_queue = {} /\ rp_state = "marked"
    /\ rp_state' = "cleared" /\ gc' = "finalize"
    /\ UNCHANGED <<heap, stacks, weak_access, weak_queue, finalizer_queue, popping, scanning,
                   empty_prev, count, stop, empty, mutators, mutex, history>>

\* EnqueueFinalizerReferences, one reference: a white referent is marked and moved to
\* the zombie field.
EnqueueFinalizerReference ==
    /\ gc = "finalize"
    /\ \E f \in finalizer_queue :
           LET o == referent[f] IN
           /\ finalizer_queue' = finalizer_queue \ {f}
           /\ IF IsMarked(o)
              THEN color' = [color EXCEPT ![f] = "black"] /\ UNCHANGED <<referent, gc_mark_stack>>
              ELSE /\ color' = [color EXCEPT ![f] = "black", ![o] = "gray"]
                   /\ gc_mark_stack' = gc_mark_stack \cup {o}
                   /\ referent' = [referent EXCEPT ![f] = None]
    /\ UNCHANGED <<weak_global, tl_mark_stack, revoked, mark_stack_mode, weak_access, rp_state,
                   weak_queue, gcvars, stop, empty, mutators, mutex, history>>

FinalizersEnqueued ==
    /\ gc = "finalize" /\ finalizer_queue = {}
    /\ gc' = "once"
    /\ UNCHANGED <<heap, stacks, refs, popping, scanning, empty_prev, count, stop, empty, mutators,
                   mutex, history>>

\* SweepSystemWeaks, after the second ClearWhiteReferences.
SweepSystemWeaks ==
    /\ gc = "clear" /\ weak_queue = {} /\ rp_state = "cleared"
    /\ weak_global' = IF weak_global # None /\ IsMarked(weak_global) THEN weak_global ELSE None
    /\ gc' = "reenable"
    /\ UNCHANGED <<color, referent, stacks, refs, popping, scanning, empty_prev, count, stop, empty,
                   mutators, mutex, history>>

\* ReenableWeakRefAccess, one thread; the broadcasts follow.
ReenableWeakRefAccess ==
    /\ gc = "reenable"
    /\ \E t \in Thread : ~weak_access[t] /\ weak_access' = [weak_access EXCEPT ![t] = TRUE]
    /\ UNCHANGED <<heap, stacks, rp_state, weak_queue, finalizer_queue, gcvars, stop, empty,
                   mutators, mutex, history>>

------------------------------------------------------------------------------

\* What a thread does once it has begun; it starts an operation as it pleases.
Proceed(t) ==
    \/ ReadBarrierMark(t) \/ PushOntoMarkStack(t)
    \/ SlowPathDone(t) \/ SlowPathPredict(t)
    \/ DecodeWeakGlobalLocked(t) \/ WaitForAccess(t)
    \/ Lock(t) \/ LockContended(t) \/ FutexWait(t) \/ Unlock(t)

Respond(t) == RunEmptyCheckpoint(t) \/ RevokeThreadLocalMarkStack(t)

Start(t) ==
    \/ LoadField(t) \/ GetReferent(t) \/ DecodeWeakGlobal(t)
    \/ GoNative(t) \/ ReturnFromNative(t)

Collector ==
    \/ Once \/ Revoked \/ PopRevoked \/ Pop \/ OnceEnds
    \/ ScanField \/ ScanReferent \/ Blacken
    \/ AskEmptyCheckpoint \/ BroadcastForSlowPath \/ BroadcastForNewSystemWeaks
    \/ WakeupToRespondToEmptyCheckpoint \/ BarrierPassed \/ BarrierTimedOut
    \/ Setup \/ SwitchToSharedMarkStackMode \/ DisableWeakRefAccess
    \/ SwitchToGcExclusiveMarkStackMode \/ InitMarkingDone
    \/ ClearWhiteReference \/ InitClearingDone
    \/ EnqueueFinalizerReference \/ FinalizersEnqueued
    \/ SweepSystemWeaks \/ ReenableWeakRefAccess

Next ==
    \/ Collector
    \/ \E t \in Thread : Proceed(t) \/ Respond(t) \/ Start(t)

Spec == Init /\ [][Next]_vars

\* The collector and the threads run; a thread passes a suspend check again and again, and
\* one that competes for the mutex while it is free gets it some time.
FairSpec ==
    /\ Spec
    /\ WF_vars(Collector)
    /\ \A t \in Thread : WF_vars(Proceed(t)) /\ SF_vars(Respond(t)) /\ SF_vars(Lock(t))

------------------------------------------------------------------------------

\* The to-space invariant (AssertToSpaceInvariant): whatever way a thread got a
\* reference, by a field, a weak reference or a weak global, the object is marked, and
\* so is what it will find there after the collection.
ToSpaceInvariant == \A t \in Thread : \A o \in held[t] : IsMarked(o)

\* Marking has converged when the collector takes the mark stack for itself: no thread is
\* left between marking an object and pushing it, on no stack, and none will be (the
\* CHECK of PushOntoMarkStack that only the collector pushes in the exclusive mode).
MarkingConverges ==
    mark_stack_mode = "exclusive" =>
        \A t \in Thread : pc[t] # "push" /\ tl_mark_stack[t] = {}

\* Weak references to one object are cleared together: once GetReferent has returned null
\* to a thread, no thread gets the object out of another weak reference it holds, though
\* the null may have been predicted and the other reference cleared later.
ClearedTogether == ~stale

\* t is not within an access to a weak reference or a weak global, though perhaps waiting
\* for the mutex under which it wants to make one.
Outside(t) == pc[t] \in {"safe", "native", "lock", "before_sleep", "sleep"}

==============================================================================
