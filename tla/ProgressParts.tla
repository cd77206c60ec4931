---------------------------- MODULE ProgressParts ----------------------------
(***************************************************************************)
(* Two of the components of MCProgress, under the variables it gives them: *)
(* "gate" is ThreadFlipGate and "tasks" is TaskProcessor.  HeapProofs has  *)
(* the proofs.                                                             *)
(***************************************************************************)
EXTENDS ThreadWaits, Naturals, FiniteSets

CONSTANTS
    Gc, MaxNest,                                        \* ThreadFlipGate
    Task, Poller, HeapTaskDaemon, MaxTime, MaxPolls     \* TaskProcessor

VARIABLES thread_flip_running, disable_thread_flip_count, own_count, flip_waiters,
          is_running, target, task_status, cond, deadline, polls, task, before, diverted, now

gateVars == <<thread_flip_running, disable_thread_flip_count, own_count, flip_waiters>>
tasksVars == <<is_running, target, task_status, cond, deadline, polls, task, before, diverted,
               now>>

G == INSTANCE ThreadFlipGate WITH pc <- at, waiters <- flip_waiters
P == INSTANCE TaskProcessor WITH
         Daemon <- HeapTaskDaemon, pc <- at, status <- task_status, current <- task

ASSUME GateAssumption == G!ThreadAssumption
ASSUME TasksAssumption == P!TaskAssumption /\ P!BoundAssumption

------------------------------------------------------------------------------
(* Properties *)

\* Heap::ThreadFlipBegin: no thread is inside a JNI critical section while threads are
\* flipped, and disable_thread_flip_count_ is the number of threads inside.
NoFlipInCritical == component = "gate" => G!NoFlipInCritical

\* TaskProcessor: the HeapTaskDaemon does not sleep past the time of a task, whoever adds or
\* moves it, unless a thread that waits in IsRunningThread for it to start gets the Signal in
\* its place; nor past Stop, and after Stop it runs all tasks that Stop found.
NoOversleep == component = "tasks" => P!NoOversleep /\ P!StopFinishesTasks

==============================================================================
