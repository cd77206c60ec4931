------------------------ MODULE SynchronizationParts ------------------------
(***************************************************************************)
(* Two of the components of MCSynchronization, under the variables it      *)
(* gives them: "readerwriter", which is ReaderWriterMutex, and "barrier",  *)
(* which is SuspendBarrier.  SynchronizationProofs has the proofs.         *)
(***************************************************************************)
EXTENDS ThreadWaits, Integers, FiniteSets

CONSTANTS
    Holdouts, Iters, Timeout, Milli, DumpWait,            \* SuspendBarrier
    TracingWait, Word, Late, MaxDump, MaxNow

VARIABLES state, num_contenders, writer, futexq, mode, seen_state,
          barrier, waking, cur_val, first, i, attempt, low, tid, timeout_ns,
          dump_adjustment_ns, now, start_time, begin, sigquit

readerwriterVars == <<state, num_contenders, writer, futexq, mode, seen_state>>
barrierVars == <<barrier, waking, cur_val, first, i, attempt, low, tid, timeout_ns,
                 dump_adjustment_ns, now, start_time, begin, sigquit>>

R == INSTANCE ReaderWriterMutex WITH pc <- at, exclusive_owner <- writer, cur_state <- seen_state
B == INSTANCE SuspendBarrier WITH pc <- at

ASSUME BarrierAssumption == B!BoundAssumption

------------------------------------------------------------------------------
(* Properties *)

\* ReaderWriterMutex implements the abstract reader-writer lock: a writer excludes readers
\* and other writers, whatever way the lock was taken.
ImplementsReaderWriterLock ==
    /\ component = "readerwriter" => R!Lock!Init
    /\ [][component = "readerwriter" => [R!Lock!Next]_(R!Lock!vars)]_(R!vars)

\* ReaderWriterMutex: no contender is left asleep on the futex when the lock would admit it
\* and nobody is about to wake it (the num_contenders_ test of SharedUnlock and
\* ExclusiveUnlock).
NoSleeperForgotten == component = "readerwriter" => R!NoSleeperForgotten

\* WaitForSuspendBarrier never sleeps on a barrier that all have passed, unless the one
\* that passed it last is about to wake it: it does not depend on its time-out.
NoSleepPastZero == component = "barrier" => B!NoSleepPastZero

\* The time-outs of a suspension, however its waits are interrupted, delayed and extended for
\* thread dumps no longer than kDumpWaitNSecs: it is given up only after the whole of the time-out, and the CHECK_GE of
\* WaitForSuspendBarrier on the time the waits took holds unless a debugger holds the
\* thread that is waited for.
TimeoutsHonest == component = "barrier" => B!AbortOnlyAfterTimeout /\ B!WaitCheckHoldsUntraced

=============================================================================
