----------------------------- MODULE StackVisits -----------------------------
(***************************************************************************)
(* Two of the components that visit every thread's stack, under the        *)
(* variables MCThreadStacks gives them: "flip" is FlipFunction, whose flip *)
(* functions update a thread's roots, "jit" is JitCodeCache, whose         *)
(* collection marks the code on the stacks.  ThreadStackProofs has the     *)
(* proofs.                                                                 *)
(***************************************************************************)
EXTENDS ThreadStacks, Naturals, FiniteSets

CONSTANTS
    Gc, MaxFlipThreadRoots,                               \* FlipFunction
    Mutator, Jit, Method, Code, Baseline, Obsolete,       \* JitCodeCache
    NumberOfZombieCodeThreshold, MaxDepth

VARIABLES flip_list, runnable, suspend_all, pins, pending, flip_running, flip_function,
          resume_cond, arg, flip_ret, exit_flags, flipping, to_flip, flipped, flips_begun,
          allocated, method_code_map, osr_code, entry_point, zombie_code,
          processed_zombie_code, live_bitmap, gc_task_scheduled, task, unmarked, unloaded,
          callee, stack, left_behind

flipVars == <<flip_list, runnable, suspend_all, pins, pending, flip_running, flip_function,
              resume_cond, arg, flip_ret, exit_flags, flipping, to_flip, flipped, flips_begun>>
jitVars == <<allocated, method_code_map, osr_code, entry_point, zombie_code,
             processed_zombie_code, live_bitmap, gc_task_scheduled, task, unmarked, unloaded,
             callee, stack, left_behind>>

F == INSTANCE FlipFunction WITH
         Mutator <- Thread, MaxFlips <- MaxFlipThreadRoots, list <- flip_list,
         running <- flip_running, ret <- flip_ret, todo <- to_flip, flips <- flips_begun
J == INSTANCE JitCodeCache WITH Thread <- Mutator, arg <- callee

ASSUME FlipAssumption == F!ThreadAssumption /\ F!BoundAssumption
ASSUME JitAssumption == J!CodeAssumption

------------------------------------------------------------------------------
(* Properties *)

\* Managed code never runs on a thread whose flip function has not been run to its end, and
\* a closure run on behalf of a thread finds it suspended and flipped
\* (Thread::EnsureFlipFunctionStarted, WaitForFlipFunction).
FlippedBeforeJava == component = "flip" => F!FlippedBeforeJava /\ F!BehalfFlipped

\* A flip function is claimed by one thread only while it has not been run, of a thread
\* that still exists, and all are complete when ThreadList::FlipThreadRoots returns.
FlipExactlyOnce == component = "flip" => F!FlipExactlyOnce /\ F!TargetAlive /\ F!FlipsComplete

\* Code that a thread runs, or is about to enter, is not freed by DoCollection or
\* RemoveMethodsIn, whether it became a zombie before, during or after the marking of that
\* thread's stack.
RunningCodeKept == component = "jit" => J!RunningCodeKept

\* No entry point and no OSR entry leads to code that is free or that the collection may
\* free, whoever races to replace the entry point (UpdateEntryPoints, and the CHECK of
\* AddZombieCode).
EntryPointsKept == component = "jit" => J!EntryPointsKept

==============================================================================
