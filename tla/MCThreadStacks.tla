---------------------------- MODULE MCThreadStacks ----------------------------
(***************************************************************************)
(* What is run on, or on behalf of, every thread to visit its stack, one   *)
(* component at a time: component says which one takes the steps of a      *)
(* behaviour, the others stay as they are.  "checkpoint" is that of        *)
(* CheckpointVisits, "flip" and "jit" are those of StackVisits, and        *)
(* "marking" is WeakReferences: the mark stacks of the threads, with two   *)
(* weak references to x and a finalizer reference through which x, and y   *)
(* behind it, are marked again once the weak references have been cleared. *)
(* "weak global" has a weak reference and a JNI weak global to x, which    *)
(* nothing else refers to.                                                 *)
(***************************************************************************)
EXTENDS StackVisits, CheckpointVisits, TLC

CONSTANTS
    MaxFlipped,               \* Checkpoint: bound on the threads once there has been a flip
    w1, w2, f, x, y, z        \* WeakReferences

VARIABLES color, referent, tl_mark_stack, revoked, gc_mark_stack, mark_stack_mode,
          weak_access, rp_state, weak_queue, finalizer_queue, weak_global, gc, popping,
          scanning, empty_prev, any_marked, suspend_request, revoke, empty_flag,
          empty_barrier, unasked, expected, object, held, mutex, null_seen, stale

markingVars == <<color, referent, tl_mark_stack, revoked, gc_mark_stack, mark_stack_mode,
                 weak_access, rp_state, weak_queue, finalizer_queue, weak_global, gc, popping,
                 scanning, empty_prev, any_marked, suspend_request, revoke, empty_flag,
                 empty_barrier, unasked, expected, object, held, mutex, null_seen, stale>>
stackVars == <<component, pc, checkpointVars, flipVars, jitVars, markingVars>>

CheckpointUnused ==
    /\ list = None /\ lock = None /\ state = None /\ request = None
    /\ checkpoints = None /\ suspend_count = None /\ flip = None
    /\ running = None /\ ret = None /\ mode = None /\ todo = None
    /\ remaining = None /\ current = None /\ count = None /\ barrier = None
    /\ ran = None /\ requests = None /\ flips = None
FlipUnused ==
    /\ flip_list = None /\ runnable = None /\ suspend_all = None /\ pins = None
    /\ pending = None /\ flip_running = None /\ flip_function = None
    /\ resume_cond = None /\ arg = None /\ flip_ret = None /\ exit_flags = None
    /\ flipping = None /\ to_flip = None /\ flipped = None /\ flips_begun = None
JitUnused ==
    /\ allocated = None /\ method_code_map = None /\ osr_code = None
    /\ entry_point = None /\ zombie_code = None /\ processed_zombie_code = None
    /\ live_bitmap = None /\ gc_task_scheduled = None /\ task = None
    /\ unmarked = None /\ unloaded = None /\ callee = None /\ stack = None
    /\ left_behind = None
MarkingUnused ==
    /\ color = None /\ referent = None /\ tl_mark_stack = None /\ revoked = None
    /\ gc_mark_stack = None /\ mark_stack_mode = None /\ weak_access = None
    /\ rp_state = None /\ weak_queue = None /\ finalizer_queue = None
    /\ weak_global = None /\ gc = None /\ popping = None /\ scanning = None
    /\ empty_prev = None /\ any_marked = None /\ suspend_request = None
    /\ revoke = None /\ empty_flag = None /\ empty_barrier = None
    /\ unasked = None /\ expected = None /\ object = None /\ held = None
    /\ mutex = None /\ null_seen = None /\ stale = None

W == INSTANCE WeakReferences WITH
         Thread <- Mutator, Obj <- {w1, w2, f, x, y, z},
         Fields <- [o \in {w1, w2, f, x, y, z} |->
                        CASE o = x -> {y} [] o = z -> {x} [] OTHER -> {}],
         WeakRef <- {w1, w2}, FinalizerRef <- {f},
         Referent <- [r \in {w1, w2, f} |-> IF r = f THEN z ELSE x],
         Roots <- {w1, w2, f}, Known <- {w1, w2}, WeakGlobal <- None,
         LockKind <- "ReaderWriterMutex",
         count <- any_marked, barrier <- empty_barrier, arg <- object

G == INSTANCE WeakReferences WITH
         Thread <- Mutator, Obj <- {w1, x}, Fields <- [o \in {w1, x} |-> {}],
         WeakRef <- {w1}, FinalizerRef <- {}, Referent <- [r \in {w1} |-> x],
         Roots <- {w1}, Known <- {w1}, WeakGlobal <- x, LockKind <- "Mutex",
         count <- any_marked, barrier <- empty_barrier, arg <- object

\* What the proofs about WeakReferences assume of a heap.
ASSUME MarkingAssumption == W!GraphAssumption /\ G!GraphAssumption

ThreadSymmetry == Permutations(Thread)

StackInit ==
    \/ /\ component = "checkpoint" /\ C!Init
       /\ FlipUnused /\ JitUnused /\ MarkingUnused
    \/ /\ component = "flip" /\ F!Init
       /\ CheckpointUnused /\ JitUnused /\ MarkingUnused
    \/ /\ component = "jit" /\ J!Init
       /\ CheckpointUnused /\ FlipUnused /\ MarkingUnused
    \/ /\ component = "marking" /\ W!Init
       /\ CheckpointUnused /\ FlipUnused /\ JitUnused
    \/ /\ component = "weak global" /\ G!Init
       /\ CheckpointUnused /\ FlipUnused /\ JitUnused

\* Code left behind in processed_zombie_code_ by a redefinition is freed twice (see
\* RedefinedForgotten of JitCodeCache); what follows is left aside.
StackNext ==
    /\ UNCHANGED component
    /\ \/ /\ component = "checkpoint" /\ C!Next
          /\ flips' > 0 => Cardinality(list') <= MaxFlipped
          /\ UNCHANGED <<flipVars, jitVars, markingVars>>
       \/ /\ component = "flip" /\ F!Next
          /\ UNCHANGED <<checkpointVars, jitVars, markingVars>>
       \/ /\ component = "jit" /\ IF left_behind THEN UNCHANGED <<pc, jitVars>> ELSE J!Next
          /\ UNCHANGED <<checkpointVars, flipVars, markingVars>>
       \/ /\ component = "marking" /\ W!Next
          /\ UNCHANGED <<checkpointVars, flipVars, jitVars>>
       \/ /\ component = "weak global" /\ G!Next
          /\ UNCHANGED <<checkpointVars, flipVars, jitVars>>

StackSpec == StackInit /\ [][StackNext]_stackVars

------------------------------------------------------------------------------
(* Properties *)

\* The to-space invariant (AssertToSpaceInvariant): whatever way a thread got a reference,
\* by a field, a weak reference or a weak global, while the collector marks, clears weak
\* references and sweeps, the object is marked.
ToSpaceInvariant ==
    /\ component = "marking" => W!ToSpaceInvariant
    /\ component = "weak global" => G!ToSpaceInvariant

\* Marking has converged when the collector takes the mark stack for itself
\* (SwitchToGcExclusiveMarkStackMode): no thread is between marking an object and pushing
\* it, and none has a mark stack of its own.
MarkingConverges ==
    /\ component = "marking" => W!MarkingConverges
    /\ component = "weak global" => G!MarkingConverges

\* Weak references to one object are cleared together: once Reference.get has returned null
\* (ReferenceProcessor::GetReferent), no thread gets the object from another one, though
\* the null may have been predicted and the other reference cleared later.  This is about
\* java.lang.ref references, in heaps without a JNI weak global, which is cleared apart.
ClearedTogether == component = "marking" => W!ClearedTogether

===============================================================================
