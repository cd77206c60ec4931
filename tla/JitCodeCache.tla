----------------------------- MODULE JitCodeCache -----------------------------
(***************************************************************************)
(* The collection of compiled code (jit/jit_code_cache.cc): code that is   *)
(* no longer an entry point becomes a zombie, and DoCollection frees the   *)
(* zombies that a checkpoint does not find on a thread's stack.            *)
(*                                                                         *)
(* Threads call methods through their entry points, enter code by          *)
(* on-stack replacement (OSR) and invalidate code; the one worker of the   *)
(* JIT thread pool commits code and collects; class unloading and class    *)
(* redefinition (openjdkjvmti/ti_redefine.cc) remove methods.  A thread is *)
(* at a suspend check where its pc is "safe".  Interpreted frames, JNI     *)
(* stubs, the zygote's shared region and class hierarchy analysis are left *)
(* out, and code collection is enabled (garbage_collect_code_).  There is  *)
(* one worker, so no two collections meet and collection_in_progress_ has  *)
(* nobody to stop.                                                         *)
(***************************************************************************)
EXTENDS Naturals, Sequences, FiniteSets

CONSTANTS
    Thread,    \* threads that run Java code
    Jit,       \* the worker of the thread pool
    Method,
    Code,      \* places for code in the private region
    Baseline,  \* those that hold baseline code, which optimized code replaces
    None,      \* no code: the entry point is the interpreter's; no method
    Obsolete,  \* the methods that redefinition makes for the frames of old ones
    NumberOfZombieCodeThreshold,
    MaxDepth   \* bound: compiled frames on a stack

\* What an actor holds while it changes an entry point is not code.
CodeAssumption ==
    /\ Jit \notin Thread /\ None \notin Code
    /\ [method : Method, new : Code \cup {None}] \cap Code = {}
    /\ [method : Method, old : Code \cup {None}, new : Code \cup {None}] \cap Code = {}

VARIABLES
    allocated,              \* code that is not free in the private region
    method_code_map,        \* per code: its method, or None
    osr_code,               \* the code in osr_code_map_, each for its method
    entry_point,            \* per method: its compiled code, or None
    zombie_code, processed_zombie_code,
    live_bitmap,
    gc_task_scheduled,      \* gc_task_scheduled_
    task,                   \* a JitGcTask is in the queue of the worker
    unmarked,               \* threads that have to run MarkCodeClosure
    unloaded,               \* methods of unloaded classes
    pc, arg, stack,
    left_behind             \* history: a redefinition freed code of processed_zombie_code

maps == <<allocated, method_code_map, osr_code>>
collection == <<live_bitmap, unmarked>>
actors == <<pc, arg, stack>>
vars == <<maps, entry_point, zombie_code, processed_zombie_code, gc_task_scheduled, task,
          collection, unloaded, actors, left_behind>>

Actor == Thread \cup {Jit}
Range(f) == {f[x] : x \in DOMAIN f}
CodeOf(m) == {c \in Code : method_code_map[c] = m}
OnStack(t) == Range(stack[t])

Init ==
    /\ allocated = {}
    /\ method_code_map = [c \in Code |-> None]
    /\ osr_code = {}
    /\ entry_point = [m \in Method |-> None]
    /\ zombie_code = {} /\ processed_zombie_code = {}
    /\ live_bitmap = {} /\ unmarked = {}
    /\ gc_task_scheduled = FALSE /\ task = FALSE
    /\ unloaded = {}
    /\ pc = [a \in Actor |-> "safe"]
    /\ arg = [a \in Actor |-> None]
    /\ stack = [t \in Thread |-> << >>]
    /\ left_behind = FALSE

Goto(a, l, x) == pc' = [pc EXCEPT ![a] = l] /\ arg' = [arg EXCEPT ![a] = x]

------------------------------------------------------------------------------
(* Threads *)

\* A call loads the entry point and jumps there; no suspend check comes between.
Call(t) ==
    /\ pc[t] = "safe" /\ Len(stack[t]) < MaxDepth
    /\ \E m \in Method \ unloaded :
           entry_point[m] # None /\ Goto(t, "enter", entry_point[m])
    /\ UNCHANGED <<maps, entry_point, zombie_code, processed_zombie_code, gc_task_scheduled, task,
                   collection, unloaded, stack, left_behind>>

\* Jit::PrepareForOsr, which holds the OSR code without thread suspension.
PrepareForOsr(t) ==
    /\ pc[t] = "safe" /\ Len(stack[t]) < MaxDepth
    /\ \E m \in Method \ unloaded :
           /\ entry_point[m] # None
           /\ \E c \in osr_code \cap CodeOf(m) : Goto(t, "enter", c)
    /\ UNCHANGED <<maps, entry_point, zombie_code, processed_zombie_code, gc_task_scheduled, task,
                   collection, unloaded, stack, left_behind>>

Enter(t) ==
    /\ pc[t] = "enter"
    /\ stack' = [stack EXCEPT ![t] = Append(@, arg[t])]
    /\ Goto(t, "safe", None)
    /\ UNCHANGED <<maps, entry_point, zombie_code, processed_zombie_code, gc_task_scheduled, task,
                   collection, unloaded, left_behind>>

Return(t) ==
    /\ pc[t] = "safe" /\ stack[t] # << >>
    /\ stack' = [stack EXCEPT ![t] = SubSeq(@, 1, Len(@) - 1)]
    /\ UNCHANGED <<maps, entry_point, zombie_code, processed_zombie_code, gc_task_scheduled, task,
                   collection, unloaded, pc, arg, left_behind>>

\* DeoptimizeSingleFrame of the code c that the thread runs: InvalidateCompiledCodeFor,
\* or for the debugger ReinitializeMethodsCode alone.
InvalidateCompiledCodeFor(t) ==
    /\ pc[t] = "safe" /\ stack[t] # << >>
    /\ \E c \in {stack[t][Len(stack[t])]}, debugging \in BOOLEAN :
       \E m \in Method \cap {method_code_map[c]} :
           IF debugging \/ entry_point[m] = c
           THEN Goto(t, "load", [method |-> m, new |-> None]) /\ UNCHANGED osr_code
           ELSE osr_code' = osr_code \ {c} /\ UNCHANGED <<pc, arg>>
    /\ UNCHANGED <<allocated, method_code_map, entry_point, zombie_code, processed_zombie_code,
                   gc_task_scheduled, task, collection, unloaded, stack, left_behind>>

\* UpdateEntryPoints (instrumentation.cc), of ReinitializeMethodsCode and of Commit.
LoadEntryPoint(a) ==
    /\ pc[a] = "load"
    /\ LET old == entry_point[arg[a].method] IN
       IF old = arg[a].new
       THEN Goto(a, "safe", None)
       ELSE Goto(a, "exchange", [method |-> arg[a].method, old |-> old, new |-> arg[a].new])
    /\ UNCHANGED <<maps, entry_point, zombie_code, processed_zombie_code, gc_task_scheduled, task,
                   collection, unloaded, stack, left_behind>>

\* Mutant of CompareExchange: a plain store.
CompareExchange_Store(a) ==
    /\ pc[a] = "exchange"
    /\ entry_point' = [entry_point EXCEPT ![arg[a].method] = arg[a].new]
    /\ IF arg[a].old # None THEN Goto(a, "zombie", arg[a].old) ELSE Goto(a, "safe", None)
    /\ UNCHANGED <<maps, zombie_code, processed_zombie_code, gc_task_scheduled, task, collection,
                   unloaded, stack, left_behind>>

\* Only who exchanges the entry point registers the code it replaced.
CompareExchange(a) ==
    /\ pc[a] = "exchange"
    /\ LET success == entry_point[arg[a].method] = arg[a].old IN
       /\ entry_point' = [entry_point EXCEPT ![arg[a].method] = IF success THEN arg[a].new ELSE @]
       /\ IF success /\ arg[a].old # None
          THEN Goto(a, "zombie", arg[a].old)
          ELSE Goto(a, "safe", None)
    /\ UNCHANGED <<maps, zombie_code, processed_zombie_code, gc_task_scheduled, task, collection,
                   unloaded, stack, left_behind>>

\* AddZombieCodeInternal of every code in zombies, which may schedule a collection.
AddZombies(zombies, osr) ==
    /\ zombie_code' = zombie_code \cup zombies
    /\ LET due == Cardinality(zombie_code') + Cardinality(osr) >= NumberOfZombieCodeThreshold IN
       /\ gc_task_scheduled' = (gc_task_scheduled \/ due)
       /\ task' = (task \/ (due /\ ~gc_task_scheduled))

AddZombieCode(a) ==
    /\ pc[a] = "zombie"
    /\ AddZombies({arg[a]}, osr_code)
    /\ Goto(a, "safe", None)
    /\ UNCHANGED <<maps, entry_point, processed_zombie_code, collection, unloaded, stack,
                   left_behind>>

\* MarkCodeClosure::Run at a suspend check.
MarkCode(t) ==
    /\ t \in unmarked /\ pc[t] = "safe"
    /\ unmarked' = unmarked \ {t}
    /\ live_bitmap' = live_bitmap \cup OnStack(t)
    /\ UNCHANGED <<maps, entry_point, zombie_code, processed_zombie_code, gc_task_scheduled, task,
                   unloaded, actors, left_behind>>

------------------------------------------------------------------------------
(* The worker *)

\* Reserve and Commit after NotifyCompilationOf: OSR code, or code for the entry point
\* that is better than what is there.  Commit keeps jit_lock_ until its pc is "safe".
Commit ==
    /\ pc[Jit] = "safe"
    /\ \E m \in Method \ unloaded, c \in Code \ allocated :
           /\ allocated' = allocated \cup {c}
           /\ method_code_map' = [method_code_map EXCEPT ![c] = m]
           /\ \/ /\ osr_code \cap CodeOf(m) = {} /\ c \notin Baseline
                 /\ osr_code' = osr_code \cup {c}
                 /\ UNCHANGED <<pc, arg>>
              \/ /\ \/ entry_point[m] = None
                    \/ entry_point[m] \in Baseline /\ c \notin Baseline
                 /\ Goto(Jit, "load", [method |-> m, new |-> c])
                 /\ UNCHANGED osr_code
    /\ UNCHANGED <<entry_point, zombie_code, processed_zombie_code, gc_task_scheduled, task,
                   collection, unloaded, stack, left_behind>>

\* Mutant of DoCollection: the OSR code is not withdrawn before the stacks are marked.
DoCollection_KeepsOsrMap ==
    /\ pc[Jit] = "safe" /\ task
    /\ task' = FALSE
    /\ processed_zombie_code' = processed_zombie_code \cup zombie_code \cup osr_code
    /\ zombie_code' = {}
    /\ live_bitmap' = {} /\ unmarked' = Thread
    /\ Goto(Jit, "mark", None)
    /\ UNCHANGED <<maps, entry_point, gc_task_scheduled, unloaded, stack, left_behind>>

\* DoCollection: zombies and OSR code are set aside under the locks, then
\* MarkCompiledCodeOnThreadStacks runs its checkpoint.
DoCollection ==
    /\ pc[Jit] = "safe" /\ task
    /\ task' = FALSE
    /\ processed_zombie_code' = processed_zombie_code \cup zombie_code \cup osr_code
    /\ zombie_code' = {}
    /\ osr_code' = {}
    /\ live_bitmap' = {} /\ unmarked' = Thread
    /\ Goto(Jit, "mark", None)
    /\ UNCHANGED <<allocated, method_code_map, entry_point, gc_task_scheduled, unloaded, stack,
                   left_behind>>

\* The zombies RemoveUnmarkedCode removes.
Removable == processed_zombie_code \ live_bitmap

\* The maps and the allocator forget the code in freed.
Free(freed) ==
    /\ allocated' = allocated \ freed
    /\ method_code_map' = [c \in Code |-> IF c \in freed THEN None ELSE method_code_map[c]]

\* RemoveUnmarkedCode, with FreeAllMethodHeaders, under jit_lock_.
RemoveUnmarkedCode ==
    /\ pc[Jit] = "mark" /\ unmarked = {}
    /\ processed_zombie_code' = processed_zombie_code \ Removable
    /\ Free(Removable)
    /\ Goto(Jit, "reset", None)
    /\ UNCHANGED <<osr_code, entry_point, zombie_code, gc_task_scheduled, task, collection,
                   unloaded, stack, left_behind>>

CollectionDone ==
    /\ pc[Jit] = "reset"
    /\ gc_task_scheduled' = FALSE
    /\ live_bitmap' = {}
    /\ Goto(Jit, "safe", None)
    /\ UNCHANGED <<maps, entry_point, zombie_code, processed_zombie_code, task, unmarked, unloaded,
                   stack, left_behind>>

------------------------------------------------------------------------------
(* Invalidation of everything, unloading and redefinition *)

\* Someone runs, is about to enter or is changing code of m.
InUse(m) ==
    \/ \E t \in Thread : CodeOf(m) \cap (OnStack(t) \cup {arg[t]}) # {}
    \/ \E a \in Actor : pc[a] \in {"load", "exchange"} /\ arg[a].method = m

\* Commit and RemoveUnmarkedCode hold jit_lock_; the latter is one step.
JitLockFree == pc[Jit] \notin {"load", "exchange", "zombie"}

\* RemoveMethodsIn, for an unreachable class; it does not wait for a collection.
RemoveMethodsIn(m) ==
    /\ m \notin unloaded /\ ~InUse(m) /\ JitLockFree
    /\ unloaded' = unloaded \cup {m}
    /\ zombie_code' = zombie_code \ CodeOf(m)
    /\ processed_zombie_code' = processed_zombie_code \ CodeOf(m)
    /\ osr_code' = osr_code \ CodeOf(m)
    /\ Free(CodeOf(m))
    /\ entry_point' = [entry_point EXCEPT ![m] = None]
    /\ UNCHANGED <<gc_task_scheduled, task, collection, actors, left_behind>>

AllSuspended == JitLockFree /\ \A t \in Thread : pc[t] = "safe"

\* InvalidateAllCompiledCode, with all threads suspended.
InvalidateAllCompiledCode ==
    /\ AllSuspended
    /\ LET invalidated == {m \in Method : CodeOf(m) # {}} IN
       /\ entry_point' = [m \in Method |-> IF m \in invalidated THEN None ELSE entry_point[m]]
       /\ LET zombies == {entry_point[m] : m \in invalidated} \ {None} IN
          IF zombies # {}
          THEN AddZombies(zombies, osr_code)
          ELSE UNCHANGED <<zombie_code, gc_task_scheduled, task>>
    /\ osr_code' = {}
    /\ UNCHANGED <<allocated, method_code_map, processed_zombie_code, collection, unloaded, actors,
                   left_behind>>

\* A redefinition of m with the JIT stopped and all threads suspended.  If m has frames,
\* MoveObsoleteMethod gives its code to an obsolete method; ArtMethod::CopyFrom resets the
\* entry point; NotifyMethodRedefined (RemoveMethodLocked) frees the code m still has.
Redefine(m) ==
    /\ AllSuspended /\ pc[Jit] = "safe" /\ m \notin unloaded
    /\ entry_point' = [entry_point EXCEPT ![m] = None]
    /\ \/ /\ method_code_map' =
                 [c \in Code |-> IF c \in CodeOf(m) THEN Obsolete ELSE method_code_map[c]]
          /\ UNCHANGED <<allocated, osr_code, zombie_code, left_behind>>
       \/ /\ ~InUse(m)
          /\ Free(CodeOf(m))
          /\ zombie_code' = zombie_code \ CodeOf(m)
          /\ osr_code' = osr_code \ CodeOf(m)
          /\ left_behind' = (left_behind \/ processed_zombie_code \cap CodeOf(m) # {})
    /\ UNCHANGED <<processed_zombie_code, gc_task_scheduled, task, collection, unloaded, actors>>

------------------------------------------------------------------------------

Next ==
    \/ \E t \in Thread :
           \/ Call(t) \/ PrepareForOsr(t) \/ Enter(t) \/ Return(t)
           \/ InvalidateCompiledCodeFor(t) \/ MarkCode(t)
    \/ \E a \in Actor : LoadEntryPoint(a) \/ CompareExchange(a) \/ AddZombieCode(a)
    \/ Commit \/ DoCollection \/ RemoveUnmarkedCode \/ CollectionDone
    \/ InvalidateAllCompiledCode
    \/ \E m \in Method : RemoveMethodsIn(m) \/ Redefine(m)

Spec == Init /\ [][Next]_vars

\* Code that a thread runs, or is about to enter, is not freed, whether it became a zombie
\* before, during or after the marking of that thread's stack; code left behind by a
\* redefinition is set apart (see RedefinedForgotten).
RunningCodeKept ==
    ~left_behind =>
        \A t \in Thread : OnStack(t) \cup ({arg[t]} \cap Code) \subseteq allocated

\* No entry point and no OSR entry leads to code that is free or that the collection may
\* free (the CHECK of AddZombieCode that zombie code is not its method's entry point).
EntryPointsKept ==
    ~left_behind =>
        /\ Range(entry_point) \cup osr_code \subseteq allocated \cup {None}
        /\ (Range(entry_point) \cup osr_code) \cap (zombie_code \cup processed_zombie_code) = {}

\* A redefined method is forgotten: the cache holds no information on code it has freed
\* ("it should remove any cached information it has on the method").
RedefinedForgotten == zombie_code \cup processed_zombie_code \subseteq allocated
==============================================================================
