---------------------------- MODULE SuspendBarrier ----------------------------
(***************************************************************************)
(* The wait for a suspend barrier and its time-outs:                       *)
(* ThreadList::WaitForSuspendBarrier and the loops around it in            *)
(* SuspendAllInternal and SuspendThread (runtime/thread_list.cc), against  *)
(* the threads that pass the barrier (Thread::PassActiveSuspendBarriers,   *)
(* runtime/thread.cc) and a thread dump (runtime/signal_catcher.cc).       *)
(*                                                                         *)
(* Time is counted in units of which Milli make a millisecond; uint64_t    *)
(* arithmetic is modulo Word.  Time passes while the waiter sleeps.        *)
(***************************************************************************)
EXTENDS Integers

CONSTANTS
    Holdouts,     \* how many threads have yet to pass the barrier
    Iters,        \* kSuspendBarrierIters
    Timeout,      \* thread_suspend_timeout_ns_, times USER_MULTIPLIER in a user build
    Milli,        \* a millisecond
    DumpWait,     \* kDumpWaitNSecs
    TracingWait,  \* kTracingWaitNSecs
    Word,         \* 2^64
    Late,         \* how late a time-out may be noticed (a frozen process)
    MaxDump,      \* bound on the length of a thread dump
    MaxNow,       \* bound on the clock: later dumps and freezes are left out
    None          \* std::nullopt

BoundAssumption ==
    /\ {Holdouts, Iters, Timeout, Milli, DumpWait, TracingWait, Word, Late, MaxDump, MaxNow}
          \subseteq Nat
    /\ Holdouts > 0 /\ Iters > 0 /\ Milli > 0 /\ Word > DumpWait
    /\ None \notin Int

VARIABLES
    barrier,      \* the AtomicInteger
    waking,       \* a thread passed the barrier last and is about to wake the waiter
    pc,           \* where the waiter is
    cur_val,      \* the value it read
    first,        \* the first wait of this attempt is not over
    i,            \* the waits of this attempt that timed out
    attempt,      \* attempt_of_4
    low,          \* the waiter has low priority
    tid,          \* a holdout has been identified
    timeout_ns, dump_adjustment_ns,
    now,          \* NanoTime()
    start_time,   \* when this attempt began
    begin,        \* when the first attempt began
    sigquit       \* SigQuitNanoTime()

clock == <<now, start_time, begin>>
waiter == <<cur_val, first, i, attempt, low, tid, timeout_ns, dump_adjustment_ns>>
vars == <<barrier, waking, pc, waiter, clock, sigquit>>

\* wait_multiplier: attempt 1 does not look at the priority, attempt 4 makes up for it.
WaitMultiplier(a, l) ==
    CASE a = 1 \/ ~l -> 1
      [] a = 4 /\ l  -> 5
      [] OTHER       -> 3

AttemptTimeout(a, l) ==
    (IF a = 0 THEN Timeout ELSE Timeout \div 4) * WaitMultiplier(a, l)

\* WaitOnceForSuspendBarrier sleeps whole milliseconds of its share of the time-out.
WaitTime(t) == (((t % Word) \div Iters) \div Milli) * Milli

\* SuspendThreadByPeer and ...ByThreadId make one attempt, for a known thread; SuspendAll
\* makes four.
Init ==
    /\ barrier \in 1..Holdouts /\ waking = FALSE
    /\ pc = "first_load" /\ cur_val = 0 /\ first = TRUE /\ i = 0
    /\ attempt \in {0, 1} /\ low \in BOOLEAN
    /\ tid = (attempt = 0)
    /\ timeout_ns = AttemptTimeout(attempt, low) /\ dump_adjustment_ns = 0
    /\ now = 0 /\ start_time = 0 /\ begin = 0
    /\ sigquit = None

------------------------------------------------------------------------------
(* The threads that pass the barrier, and the signal catcher *)

Pass ==
    /\ barrier > 0
    /\ barrier' = barrier - 1
    /\ waking' = (barrier = 1)
    /\ UNCHANGED <<pc, waiter, clock, sigquit>>

\* The futex wake comes after the locks are released.
Wake ==
    /\ waking
    /\ waking' = FALSE
    /\ pc' = IF pc = "asleep" THEN "awake" ELSE pc
    /\ UNCHANGED <<barrier, waiter, clock, sigquit>>

BeginDump ==
    /\ sigquit = None /\ now < MaxNow
    /\ sigquit' = now
    /\ UNCHANGED <<barrier, waking, pc, waiter, clock>>

EndDump ==
    /\ sigquit # None
    /\ sigquit' = None
    /\ UNCHANGED <<barrier, waking, pc, waiter, clock>>

------------------------------------------------------------------------------
(* WaitForSuspendBarrier *)

Goto(l) == pc' = l

\* The load before the first wait.
FirstLoad ==
    /\ pc = "first_load"
    /\ cur_val' = barrier
    /\ Goto(IF barrier = 0 THEN "passed" ELSE "wait")
    /\ UNCHANGED <<barrier, waking, first, i, attempt, low, tid, timeout_ns, dump_adjustment_ns,
                   clock, sigquit>>

\* A mutant: FUTEX_WAIT without a comparison.
ValueChanged_Never == FALSE

\* EAGAIN
ValueChanged == barrier # cur_val

FutexWait ==
    /\ pc = "wait"
    /\ Goto(IF ValueChanged THEN "awake" ELSE "asleep")
    /\ UNCHANGED <<barrier, waking, waiter, clock, sigquit>>

\* ETIMEDOUT, possibly noticed late.  A dump ends within its bound.
TimedOut(late) ==
    /\ pc = "asleep"
    /\ now' = now + WaitTime(timeout_ns + dump_adjustment_ns) + late
    /\ late > 0 => now' <= MaxNow
    /\ sigquit # None => now' <= sigquit + MaxDump
    /\ i' = i + 1
    /\ Goto("timed_out")
    /\ UNCHANGED <<barrier, waking, cur_val, first, attempt, low, tid, timeout_ns, dump_adjustment_ns,
                   start_time, begin, sigquit>>

\* A mutant: an interrupted wait counts as one that timed out.
Interrupted_Counts ==
    /\ pc = "asleep"
    /\ i' = i + 1
    /\ Goto("timed_out")
    /\ UNCHANGED <<barrier, waking, cur_val, first, attempt, low, tid, timeout_ns,
                   dump_adjustment_ns, clock, sigquit>>

\* EINTR
Interrupted ==
    /\ pc = "asleep"
    /\ Goto("awake")
    /\ UNCHANGED <<barrier, waking, waiter, clock, sigquit>>

\* kSuspendBarrierIters waits of the attempt have timed out.
Exhausted == i >= Iters

AfterWait ==
    /\ pc \in {"awake", "timed_out"}
    /\ cur_val' = barrier
    /\ Goto(CASE barrier = 0 -> "passed" [] Exhausted -> "failed" [] OTHER -> "wait")

\* After the first wait; a thread that is found stopped by a tracer gets more time.
ReloadFirst ==
    /\ first /\ first' = FALSE
    /\ AfterWait
    /\ \/ UNCHANGED timeout_ns
       \/ /\ tid /\ attempt \in {0, 4} /\ barrier > 0
          /\ timeout_ns' = TracingWait
    /\ UNCHANGED <<barrier, waking, i, attempt, low, tid, dump_adjustment_ns, clock, sigquit>>

\* What is added to the time-out for a dump that began at q.
DumpAdjustment(q) ==
    LET new_unscaled_adj == (DumpWait + q - now) % Word
    IN  (((new_unscaled_adj * Iters) % Word) \div Iters - i) % Word

\* After any other wait; during a thread dump the time-out is extended.
Reload ==
    /\ ~first
    /\ AfterWait
    /\ dump_adjustment_ns' = IF barrier > 0 /\ sigquit # None /\ ~Exhausted
                             THEN DumpAdjustment(sigquit) ELSE dump_adjustment_ns
    /\ UNCHANGED <<barrier, waking, first, i, attempt, low, tid, timeout_ns, clock, sigquit>>

------------------------------------------------------------------------------
(* Its callers *)

\* SuspendAllInternal tries again; after the third attempt it looks for a holdout.
NextAttempt ==
    /\ pc = "failed" /\ attempt \in 1..3
    /\ attempt' = attempt + 1
    /\ first' = TRUE /\ i' = 0 /\ dump_adjustment_ns' = 0 /\ cur_val' = 0
    /\ timeout_ns' = AttemptTimeout(attempt + 1, low)
    /\ start_time' = now
    /\ tid' \in IF attempt = 3 /\ barrier > 0 THEN BOOLEAN ELSE {FALSE}
    /\ Goto("first_load")
    /\ UNCHANGED <<barrier, waking, low, now, begin, sigquit>>

\* The last attempt failed: SuspendThread looks at the barrier once more before it aborts.
Abort ==
    /\ pc = "failed" /\ attempt \in {0, 4}
    /\ Goto(IF attempt = 0 /\ barrier = 0 THEN "passed" ELSE "aborted")
    /\ UNCHANGED <<barrier, waking, waiter, clock, sigquit>>

Done == pc \in {"passed", "aborted"} /\ UNCHANGED vars

Next ==
    \/ Pass \/ Wake \/ BeginDump \/ EndDump
    \/ FirstLoad \/ FutexWait \/ TimedOut(0) \/ TimedOut(Late) \/ Interrupted
    \/ ReloadFirst \/ Reload \/ NextAttempt \/ Abort \/ Done

Spec == Init /\ [][Next]_vars

------------------------------------------------------------------------------
(* Properties *)

\* The waiter never sleeps on a barrier that all have passed, unless the one that passed it
\* last is about to wake it: it does not depend on the time-out to notice.
NoSleepPastZero == pc = "asleep" => barrier > 0 \/ waking

\* The process is aborted only after the whole time-out, three times as long for a thread of
\* low priority, whether it is spent in one attempt or in four.
AbortOnlyAfterTimeout ==
    pc = "aborted" => now - begin >= Timeout * (IF low THEN 3 ELSE 1)

\* The CHECK_GE in WaitForSuspendBarrier: i waits that timed out take i shares of the
\* time-out, less a millisecond.
WaitCheckHolds ==
    pc = "timed_out" /\ ~first => now - start_time >= (i * timeout_ns) \div Iters - Milli

\* It holds for a thread that no debugger stops, however its waits are interrupted or delayed
\* and extended for dumps.
WaitCheckHoldsUntraced == timeout_ns # TracingWait => WaitCheckHolds

==============================================================================
