------------------------------ MODULE MCProgress ------------------------------
(***************************************************************************)
(* What must happen in the end, for the components whose threads wait for  *)
(* one another, one at a time: component says which one takes the steps of *)
(* a behaviour, the others stay as they are.                               *)
(*                                                                         *)
(* "checkpoint" is Checkpoint, "flip" is FlipFunction, "gate" is           *)
(* ThreadFlipGate, "tasks" is TaskProcessor and "class" is ClassInit.      *)
(* As component never changes, a fairness condition on actions of several  *)
(* components is one on each of them.                                      *)
(***************************************************************************)
EXTENDS ProgressParts, ClassProgress, TLC

CONSTANTS MaxRequests, MaxFlips, MaxFlipThreadRoots, Base, Sub, Face, Root

\* Class Sub extends Base and implements Face, which extends Root; only Root has default
\* methods.  In the first program <clinit> of Root uses Base and <clinit> of Base uses
\* Base; the second has the classic cycle of a superclass that uses its subclass.
MCClass == {Base, Sub, Face, Root}
MCSuper == (Sub :> Base) @@ [c \in MCClass |-> None]
MCInterfaces == (Sub :> <<Face>>) @@ (Face :> <<Root>>) @@ [c \in MCClass |-> <<>>]
MCIfTable == (Sub :> <<Face, Root>>) @@ MCInterfaces
MCIsInterface == {Face, Root}
MCHasDefault == {Root}
MCPrograms ==
    {(Root :> <<Base>>) @@ (Base :> <<Base>>) @@ [c \in MCClass |-> <<>>],
     (Base :> <<Sub>>) @@ [c \in MCClass |-> <<>>]}

VARIABLES list, lock, state, request, checkpoints, suspend_count, flip, running, ret, mode,
          todo, remaining, current, count, barrier, ran, requests, flips,
          flip_list, runnable, suspend_all, pins, pending, flip_running, flip_function,
          resume_cond, arg, flip_ret, exit_flags, flipping, to_flip, flipped, flips_begun

checkpointVars == <<list, lock, state, request, checkpoints, suspend_count, flip, running, ret,
                    mode, todo, remaining, current, count, barrier, ran, requests, flips>>
flipVars == <<flip_list, runnable, suspend_all, pins, pending, flip_running, flip_function,
              resume_cond, arg, flip_ret, exit_flags, flipping, to_flip, flipped, flips_begun>>
progressVars == <<component, at, checkpointVars, flipVars, gateVars, tasksVars, classVars>>

CheckpointUnused ==
    /\ list = None /\ lock = None /\ state = None /\ request = None
    /\ checkpoints = None /\ suspend_count = None /\ flip = None
    /\ running = None /\ ret = None /\ mode = None /\ todo = None
    /\ remaining = None /\ current = None /\ count = None /\ barrier = None
    /\ ran = None /\ requests = None /\ flips = None
FlipUnused ==
    /\ flip_list = None /\ runnable = None /\ suspend_all = None /\ pins = None
    /\ pending = None /\ flip_running = None /\ flip_function = None
    /\ resume_cond = None /\ arg = None /\ flip_ret = None /\ exit_flags = None
    /\ flipping = None /\ to_flip = None /\ flipped = None /\ flips_begun = None
GateUnused ==
    /\ thread_flip_running = None /\ disable_thread_flip_count = None
    /\ own_count = None /\ flip_waiters = None
TasksUnused ==
    /\ is_running = None /\ target = None /\ task_status = None /\ cond = None
    /\ deadline = None /\ polls = None /\ task = None /\ before = None
    /\ diverted = None /\ now = None
ClassUnused ==
    /\ program = None /\ status = None /\ clinit_thread = None
    /\ recursively_initialized = None /\ owner = None /\ waiting = None
    /\ stack = None /\ answer = None /\ runs = None /\ calls = None
    /\ failed = None

\* The variables of the other components.
checkpointOff == <<flipVars, gateVars, tasksVars, classVars>>
flipOff == <<checkpointVars, gateVars, tasksVars, classVars>>
gateOff == <<checkpointVars, flipVars, tasksVars, classVars>>
tasksOff == <<checkpointVars, flipVars, gateVars, classVars>>
classOff == <<at, checkpointVars, flipVars, gateVars, tasksVars>>

C == INSTANCE Checkpoint WITH pc <- at
F == INSTANCE FlipFunction WITH
         Mutator <- Thread, MaxFlips <- MaxFlipThreadRoots, pc <- at, list <- flip_list,
         running <- flip_running, ret <- flip_ret, todo <- to_flip, flips <- flips_begun

ASSUME CheckpointAssumption == C!ThreadAssumption /\ C!BoundAssumption
ASSUME FlipAssumption == F!ThreadAssumption /\ F!BoundAssumption

ProgressInit ==
    \/ /\ component = "checkpoint" /\ C!Init
       /\ FlipUnused /\ GateUnused /\ TasksUnused /\ ClassUnused
    \/ /\ component = "flip" /\ F!Init
       /\ CheckpointUnused /\ GateUnused /\ TasksUnused /\ ClassUnused
    \/ /\ component = "gate" /\ G!Init
       /\ CheckpointUnused /\ FlipUnused /\ TasksUnused /\ ClassUnused
    \/ /\ component = "tasks" /\ P!Init
       /\ CheckpointUnused /\ FlipUnused /\ GateUnused /\ ClassUnused
    \/ /\ component = "class" /\ K!Init /\ at = None
       /\ CheckpointUnused /\ FlipUnused /\ GateUnused /\ TasksUnused

ProgressNext ==
    /\ UNCHANGED component
    /\ \/ component = "checkpoint" /\ C!Next /\ UNCHANGED checkpointOff
       \/ component = "flip" /\ F!Next /\ UNCHANGED flipOff
       \/ component = "gate" /\ G!Next /\ UNCHANGED gateOff
       \/ component = "tasks" /\ P!Next /\ UNCHANGED tasksOff
       \/ component = "class" /\ K!Next /\ UNCHANGED classOff

\* A thread goes on where nothing holds it.
Proceeds(t) ==
    /\ UNCHANGED component
    /\ \/ component = "checkpoint" /\ C!Step(t) /\ UNCHANGED checkpointOff
       \/ component = "flip" /\ F!MutatorStep(t) /\ UNCHANGED flipOff
       \/ component = "gate" /\ G!DecrementDisableThreadFlip(t) /\ UNCHANGED gateOff
       \/ component = "class" /\ K!Step(t) /\ UNCHANGED classOff

\* What a thread does in the end if it may again and again: suspend another thread that is
\* suspended, poll for suspension, leave its outermost critical section.
KeepsTrying(t) ==
    /\ UNCHANGED component
    /\ \/ /\ component = "checkpoint"
          /\ C!SweepIncrement(t) /\ C!StaysSuspended(current[t]) /\ UNCHANGED checkpointOff
       \/ component = "flip" /\ F!BecomeSuspended(t, "resume") /\ UNCHANGED flipOff
       \/ /\ component = "gate"
          /\ G!DecrementDisableThreadFlip(t) /\ at'[t] = "out" /\ UNCHANGED gateOff

\* The flip function of a thread ends.
FlipFunctionEnds(t) ==
    UNCHANGED component /\ component = "checkpoint" /\ C!FlipEnd(t) /\ UNCHANGED checkpointOff

\* The thread that serves the others goes on: the collector or the HeapTaskDaemon.
Serves ==
    /\ UNCHANGED component
    /\ \/ component = "flip" /\ F!FlipThreadRoots /\ UNCHANGED flipOff
       \/ component = "gate" /\ G!BeginAgain /\ UNCHANGED gateOff
       \/ component = "tasks" /\ P!DaemonStep /\ UNCHANGED tasksOff

\* A flip ends; time goes on.
TimePasses ==
    /\ UNCHANGED component
    /\ \/ component = "gate" /\ G!ThreadFlipEnd /\ UNCHANGED gateOff
       \/ component = "tasks" /\ P!Tick /\ UNCHANGED tasksOff

Polls(p) ==
    UNCHANGED component /\ component = "tasks" /\ P!PollerStep(p) /\ UNCHANGED tasksOff

\* The fairness of each component's FairSpec.
Fairness ==
    /\ \A t \in Thread :
          /\ WF_progressVars(Proceeds(t)) /\ SF_progressVars(KeepsTrying(t))
          /\ WF_progressVars(FlipFunctionEnds(t))
    /\ WF_progressVars(Serves) /\ WF_progressVars(TimePasses)
    /\ \A p \in Poller : WF_progressVars(Polls(p))

ProgressSpec == ProgressInit /\ [][ProgressNext]_progressVars /\ Fairness

------------------------------------------------------------------------------
(* Properties *)

\* Every RunCheckpoint returns and its caller's wait for the barrier ends, though threads
\* change between Runnable and suspended, or are flipped, while it goes through them.
CheckpointEnds == \A r \in Thread : []<>(component = "checkpoint" => ~C!Active(r))

\* A thread flip begins and ends: Heap::ThreadFlipBegin returns however often threads enter
\* and leave JNI critical sections, and nested sections do not block it for good;
\* ThreadList::FlipThreadRoots returns, whoever runs the flip functions and whichever
\* threads exit meanwhile.
FlipEnds ==
    []<>(/\ component = "gate" => at[Gc] # "begin"
         /\ component = "flip" => at[Gc] = "gc_idle")

\* TaskProcessor: a task is not taken before its time, nor before another whose time comes
\* first, and runs once its time has come, unless the processor is stopped or the daemon
\* sleeps because a thread that waits in IsRunningThread for it to start got the Signal.
TasksRunInTime ==
    /\ [][component = "tasks" => P!InOrder]_progressVars
    /\ \A k \in Task : []<>(component = "tasks" =>
          ~(task_status[k] \in {"queued", "taken"} /\ is_running /\ ~P!Missed))

\* InitializeClass returns if classes need one another without a cycle: no monitor is held
\* and no wait entered in an order that makes threads wait for one another, and no thread
\* sleeps past the change of status it waits for.
InitializationEnds == \A t \in Thread : []<>(component = "class" /\ K!Acyclic => stack[t] = <<>>)

===============================================================================
