----------------------------- MODULE TaskProcessor -----------------------------
(***************************************************************************)
(* The queue of heap tasks: runtime/gc/task_processor.cc.  One thread, the *)
(* HeapTaskDaemon, starts the processor and runs its tasks; any thread     *)
(* adds tasks, changes the time of one, or stops the processor; and a      *)
(* thread that wants a stack trace may wait for the daemon to start        *)
(* (IsRunningThread).  All of them share lock_ and cond_.                  *)
(*                                                                         *)
(* Every method holds lock_ from its beginning to its end or to a wait on  *)
(* cond_, so each is one step.  Mutex models lock_ and cond_ themselves.   *)
(***************************************************************************)
EXTENDS Integers, FiniteSets

CONSTANTS
    Task,      \* the tasks
    Poller,    \* the threads that call IsRunningThread(t, wait = true)
    Daemon,    \* the HeapTaskDaemon
    None,      \* no task, no time
    MaxTime,   \* bound on the clock
    MaxPolls   \* kTotalWaitMillis

TaskAssumption ==
    /\ IsFiniteSet(Task) /\ None \notin Task \cup Int
    /\ IsFiniteSet(Poller) /\ Daemon \notin Poller
BoundAssumption == MaxTime \in Nat /\ MaxPolls \in Nat

VARIABLES
    is_running,  \* is_running_
    target,      \* per task: target_run_time_; tasks_ is ordered by it
    status,      \* per task: not yet added, in tasks_, taken, run
    cond,        \* the threads that wait on cond_
    deadline,    \* when the daemon's wait times out, None if never
    pc, polls,   \* where each thread is; how often a poller has waited
    current,     \* the task the daemon runs
    before,      \* the tasks that were in tasks_ at the last Stop
    diverted,    \* history: since the daemon waits, a Signal has woken a poller in its place
    now          \* NanoTime()

vars == <<is_running, target, status, cond, deadline, pc, polls, current, before, diverted,
          now>>

Time == 0..MaxTime
Goto(t, l) == pc' = [pc EXCEPT ![t] = l]

\* tasks_
tasks == {k \in Task : status[k] = "queued"}

\* The tasks that may be at the beginning of tasks_.
First == {k \in tasks : \A l \in tasks : target[k] <= target[l]}

Init ==
    /\ is_running = FALSE
    /\ target = [k \in Task |-> 0]
    /\ status = [k \in Task |-> "new"]
    /\ cond = {} /\ deadline = None
    /\ pc = [t \in Poller \cup {Daemon} |-> "idle"]
    /\ polls = [t \in Poller |-> 0]
    /\ current = None
    /\ before = {} /\ diverted = FALSE
    /\ now = 0

------------------------------------------------------------------------------
\* A mutant: nobody is woken.
Signal_Lost == UNCHANGED <<cond, diverted>>

\* Signal wakes one of the waiting threads, if there is one.
Signal ==
    \/ cond = {} /\ UNCHANGED <<cond, diverted>>
    \/ \E t \in cond :
          /\ cond' = cond \ {t}
          /\ diverted' = (diverted \/ (Daemon \in cond /\ t # Daemon))

AddTask(k, time) ==
    /\ status[k] = "new"
    /\ status' = [status EXCEPT ![k] = "queued"]
    /\ target' = [target EXCEPT ![k] = time]
    /\ Signal
    /\ UNCHANGED <<is_running, deadline, pc, polls, current, before, now>>

\* A mutant: the daemon is not told of the new first task.
BecameFirst_Never(k, time) == FALSE

\* Among tasks of the same time the one inserted last comes last.
BecameFirst(k, time) == \A l \in tasks \ {k} : time < target[l]

\* The task is looked up by the time it had; one that has been taken is not found.
UpdateTargetRunTime(k, time) ==
    /\ k \in tasks /\ time # target[k]
    /\ target' = [target EXCEPT ![k] = time]
    /\ IF BecameFirst(k, time) THEN Signal ELSE UNCHANGED <<cond, diverted>>
    /\ UNCHANGED <<is_running, status, deadline, pc, polls, current, before, now>>

\* The daemon starts the processor and calls RunAllTasks; after a Stop (before a fork) it may
\* be started again.  No waiting thread is told.
Start ==
    /\ pc[Daemon] \in {"idle", "done"}
    /\ is_running' = TRUE
    /\ Goto(Daemon, "get")
    /\ UNCHANGED <<target, status, cond, deadline, polls, current, before, diverted, now>>

\* Daemons.stop calls it, in another thread, for a daemon that has started.
Stop ==
    /\ is_running
    /\ is_running' = FALSE
    /\ before' = tasks
    /\ cond' = {}
    /\ UNCHANGED <<target, status, deadline, pc, polls, current, diverted, now>>

------------------------------------------------------------------------------
(* The daemon: RunAllTasks and GetTask *)

QueueEmpty == tasks = {}

\* The daemon waits on cond_, until time at most.
DaemonWaits(time) ==
    cond' = cond \cup {Daemon} /\ deadline' = time /\ diverted' = FALSE

\* The queue is empty: wait, or return nullptr when stopped.
GetNothing ==
    /\ pc[Daemon] = "get" /\ Daemon \notin cond
    /\ QueueEmpty
    /\ IF is_running
       THEN DaemonWaits(None) /\ UNCHANGED pc
       ELSE Goto(Daemon, "check") /\ UNCHANGED <<cond, deadline, diverted>>
    /\ UNCHANGED <<is_running, target, status, polls, current, before, now>>

MayRun(k) == ~is_running \/ target[k] <= now

\* The first task is due, or the processor has been stopped.
GetTask(k) ==
    /\ pc[Daemon] = "get" /\ Daemon \notin cond
    /\ ~QueueEmpty /\ k \in First
    /\ MayRun(k)
    /\ status' = [status EXCEPT ![k] = "taken"]
    /\ current' = k
    /\ Goto(Daemon, "run")
    /\ UNCHANGED <<is_running, target, cond, deadline, polls, before, diverted, now>>

\* It is not due: wait for its time.
GetTimedWait(k) ==
    /\ pc[Daemon] = "get" /\ Daemon \notin cond
    /\ ~QueueEmpty /\ k \in First
    /\ ~MayRun(k)
    /\ DaemonWaits(target[k])
    /\ UNCHANGED <<is_running, target, status, pc, polls, current, before, now>>

TimedOut ==
    /\ Daemon \in cond /\ deadline # None
    /\ deadline <= now
    /\ cond' = cond \ {Daemon}
    /\ UNCHANGED <<is_running, target, status, deadline, pc, polls, current, before, diverted, now>>

RunTask ==
    /\ pc[Daemon] = "run"
    /\ status' = [status EXCEPT ![current] = "run"]
    /\ current' = None
    /\ Goto(Daemon, "get")
    /\ UNCHANGED <<is_running, target, cond, deadline, polls, before, diverted, now>>

\* RunAllTasks returns if the processor is still stopped.
CheckRunning ==
    /\ pc[Daemon] = "check"
    /\ Goto(Daemon, IF is_running THEN "get" ELSE "done")
    /\ UNCHANGED <<is_running, target, status, cond, deadline, polls, current, before, diverted, now>>

------------------------------------------------------------------------------
(* IsRunningThread(t, wait = true) *)

BeginPoll(p) ==
    /\ pc[p] = "idle"
    /\ Goto(p, "poll")
    /\ UNCHANGED <<is_running, target, status, cond, deadline, polls, current, before, diverted, now>>

WaitEnds(p) == is_running \/ polls[p] = MaxPolls

\* WaitForThread: wait for a millisecond on cond_, until the daemon runs or it gives up.
Poll(p) ==
    /\ pc[p] = "poll" /\ p \notin cond
    /\ IF WaitEnds(p)
       THEN Goto(p, "done") /\ UNCHANGED <<cond, polls>>
       ELSE /\ cond' = cond \cup {p}
            /\ polls' = [polls EXCEPT ![p] = @ + 1]
            /\ UNCHANGED pc
    /\ UNCHANGED <<is_running, target, status, deadline, current, before, diverted, now>>

PollTimedOut(p) ==
    /\ p \in cond
    /\ cond' = cond \ {p}
    /\ UNCHANGED <<is_running, target, status, deadline, pc, polls, current, before, diverted, now>>

Tick ==
    /\ now < MaxTime
    /\ now' = now + 1
    /\ UNCHANGED <<is_running, target, status, cond, deadline, pc, polls, current, before, diverted>>

------------------------------------------------------------------------------
DaemonStep ==
    \/ GetNothing \/ TimedOut \/ RunTask \/ CheckRunning
    \/ \E k \in Task : GetTask(k) \/ GetTimedWait(k)

PollerStep(p) == Poll(p) \/ PollTimedOut(p)

\* The daemon waits for ever for a task that nobody adds, or is done.
Quiet == now = MaxTime /\ UNCHANGED vars

Next ==
    \/ DaemonStep \/ Start \/ Stop \/ Tick \/ Quiet
    \/ \E k \in Task, time \in Time : AddTask(k, time) \/ UpdateTargetRunTime(k, time)
    \/ \E p \in Poller : BeginPoll(p) \/ PollerStep(p)

Spec == Init /\ [][Next]_vars

\* Time goes on, and no thread stops except in a wait.
FairSpec ==
    Spec /\ WF_vars(DaemonStep) /\ WF_vars(Tick) /\ \A p \in Poller : WF_vars(PollerStep(p))

------------------------------------------------------------------------------
(* Properties *)

\* The daemon sleeps on though AddTask or UpdateTargetRunTime has called Signal: a thread
\* that waits on cond_ in IsRunningThread was woken in its place.
Missed == Daemon \in cond /\ diverted

\* While the daemon waits the processor is not stopped, and no task is in the queue that is to
\* run before its wait is over, unless it has missed a Signal, which a thread in
\* IsRunningThread got: AddTask, UpdateTargetRunTime and Stop have woken it otherwise.
NoOversleep ==
    Daemon \in cond =>
        /\ is_running
        /\ ~Missed => \A k \in tasks : deadline # None /\ deadline <= target[k]

\* While the processor runs, a task is not taken before its time, nor before another whose
\* time comes first.
InOrder ==
    \A k \in Task : status[k] = "queued" /\ status'[k] = "taken" =>
        /\ is_running => target[k] <= now
        /\ \A l \in tasks : target[k] <= target[l]

\* "Stop tells the RunAllTasks to finish up the remaining tasks as soon as possible then
\* return": it returns after running all tasks that Stop found.
StopFinishesTasks == pc[Daemon] = "done" => \A k \in before : status[k] = "run"

\* A task runs once its time has come ("Start straight away" is a task whose time is now),
\* unless the processor is stopped.
TasksRun ==
    \A k \in Task : (status[k] = "queued" /\ is_running) ~> (status[k] = "run" \/ ~is_running)

==============================================================================
