---------------------------- MODULE ThreadFlipGate ----------------------------
(***************************************************************************)
(* The gate between JNI critical sections and the thread flip of the       *)
(* concurrent copying collector: IncrementDisableThreadFlip,               *)
(* DecrementDisableThreadFlip, ThreadFlipBegin and ThreadFlipEnd of        *)
(* runtime/gc/heap.cc, over thread_flip_lock_ and thread_flip_cond_.       *)
(*                                                                         *)
(* A section under thread_flip_lock_ is one step, with the change of the   *)
(* thread's own count, which only that thread reads, before it.  A thread  *)
(* waiting on the condition is in waiters and repeats its test when it is  *)
(* woken.  Wakeups without a broadcast (EINTR) happen.                     *)
(***************************************************************************)
EXTENDS Integers, FiniteSets

CONSTANTS
    Thread,    \* mutator threads
    Gc,        \* the thread that runs the collector
    MaxNest    \* bound on the nesting of JNI critical sections

ThreadAssumption == IsFiniteSet(Thread) /\ Gc \notin Thread

VARIABLES
    thread_flip_running,
    disable_thread_flip_count,   \* threads inside an outermost section
    own_count,                   \* per thread: Thread::GetDisableThreadFlipCount
    waiters,                     \* threads waiting on thread_flip_cond_
    pc

gate == <<thread_flip_running, disable_thread_flip_count>>
vars == <<gate, own_count, waiters, pc>>

Goto(t, l) == pc' = [pc EXCEPT ![t] = l]

Init ==
    /\ thread_flip_running = FALSE
    /\ disable_thread_flip_count = 0
    /\ own_count = [t \in Thread |-> 0]
    /\ waiters = {}
    /\ pc = [t \in Thread \cup {Gc} |-> "out"]

------------------------------------------------------------------------------
(* Mutators *)

\* Entering a section.  A nested one "doesn't need to wait or increment the global
\* counter".
IncrementDisableThreadFlip(t) ==
    /\ pc[t] \in {"out", "critical"} /\ own_count[t] < MaxNest
    /\ own_count' = [own_count EXCEPT ![t] = @ + 1]
    /\ Goto(t, IF own_count[t] > 0 THEN "critical" ELSE "enter")
    /\ UNCHANGED <<gate, waiters>>

EnterWait(t) ==
    /\ pc[t] = "enter" /\ t \notin waiters
    /\ thread_flip_running
    /\ waiters' = waiters \cup {t}
    /\ UNCHANGED <<gate, own_count, pc>>

\* Mutant of Enter: the flag is tested once, before the wait, and not after it.
Enter_NoRecheck(t) ==
    /\ pc[t] = "enter" /\ t \notin waiters
    /\ disable_thread_flip_count' = disable_thread_flip_count + 1
    /\ Goto(t, "critical")
    /\ UNCHANGED <<thread_flip_running, own_count, waiters>>

Enter(t) ==
    /\ pc[t] = "enter" /\ t \notin waiters
    /\ ~thread_flip_running
    /\ disable_thread_flip_count' = disable_thread_flip_count + 1
    /\ Goto(t, "critical")
    /\ UNCHANGED <<thread_flip_running, own_count, waiters>>

\* Leaving a section; the outermost exit counts down, and the last one broadcasts.
DecrementDisableThreadFlip(t) ==
    /\ pc[t] = "critical"
    /\ own_count' = [own_count EXCEPT ![t] = @ - 1]
    /\ IF own_count[t] > 1
       THEN UNCHANGED <<gate, waiters, pc>>
       ELSE /\ disable_thread_flip_count' = disable_thread_flip_count - 1
            /\ waiters' = IF disable_thread_flip_count = 1 THEN {} ELSE waiters
            /\ Goto(t, "out")
            /\ UNCHANGED thread_flip_running

------------------------------------------------------------------------------
(* The collector *)

\* Mutant of ThreadFlipBegin: the flag is left for the end of the wait.
ThreadFlipBegin_WaitFirst ==
    /\ pc[Gc] = "out"
    /\ thread_flip_running' = (disable_thread_flip_count = 0)
    /\ IF disable_thread_flip_count > 0
       THEN Goto(Gc, "begin") /\ waiters' = waiters \cup {Gc}
       ELSE Goto(Gc, "flip") /\ UNCHANGED waiters
    /\ UNCHANGED <<disable_thread_flip_count, own_count>>

\* "Set this to true before waiting so that frequent JNI critical enter/exits won't
\* starve GC."
ThreadFlipBegin ==
    /\ pc[Gc] = "out"
    /\ thread_flip_running' = TRUE
    /\ IF disable_thread_flip_count > 0
       THEN Goto(Gc, "begin") /\ waiters' = waiters \cup {Gc}
       ELSE Goto(Gc, "flip") /\ UNCHANGED waiters
    /\ UNCHANGED <<disable_thread_flip_count, own_count>>

\* Woken: the loop of ThreadFlipBegin tests the count again.
BeginAgain ==
    /\ pc[Gc] = "begin" /\ Gc \notin waiters
    /\ IF disable_thread_flip_count > 0
       THEN waiters' = waiters \cup {Gc} /\ UNCHANGED pc
       ELSE Goto(Gc, "flip") /\ UNCHANGED waiters
    /\ UNCHANGED <<gate, own_count>>

ThreadFlipEnd ==
    /\ pc[Gc] = "flip"
    /\ thread_flip_running' = FALSE
    /\ waiters' = {}
    /\ Goto(Gc, "out")
    /\ UNCHANGED <<disable_thread_flip_count, own_count>>

WakeSpuriously(t) ==
    /\ t \in waiters
    /\ waiters' = waiters \ {t}
    /\ UNCHANGED <<gate, own_count, pc>>

------------------------------------------------------------------------------
Next ==
    \/ \E t \in Thread :
           \/ IncrementDisableThreadFlip(t) \/ EnterWait(t) \/ Enter(t)
           \/ DecrementDisableThreadFlip(t)
    \/ ThreadFlipBegin \/ BeginAgain \/ ThreadFlipEnd
    \/ \E t \in Thread \cup {Gc} : WakeSpuriously(t)

Spec == Init /\ [][Next]_vars

\* A section is left in the end (strongly fair, as a thread may nest again and again),
\* and the collector is scheduled.  Nothing makes a mutator enter, or stop entering.
Fairness ==
    /\ \A t \in Thread : SF_vars(DecrementDisableThreadFlip(t) /\ pc'[t] = "out")
                         /\ WF_vars(DecrementDisableThreadFlip(t))
    /\ WF_vars(BeginAgain) /\ WF_vars(ThreadFlipEnd)

FairSpec == Spec /\ Fairness

------------------------------------------------------------------------------
(* Properties *)

\* No thread is inside a JNI critical section while threads are flipped, the global
\* count is the number of threads inside, and each is counted once however deep its
\* sections nest.
NoFlipInCritical ==
    /\ pc[Gc] = "flip" => \A t \in Thread : pc[t] # "critical"
    /\ disable_thread_flip_count = Cardinality({t \in Thread : pc[t] = "critical"})
    /\ thread_flip_running <=> pc[Gc] \in {"begin", "flip"}

==============================================================================
