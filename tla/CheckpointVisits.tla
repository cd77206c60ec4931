--------------------------- MODULE CheckpointVisits ---------------------------
(***************************************************************************)
(* Checkpoint under the variables MCThreadStacks gives it: the component   *)
(* "checkpoint", by which a thread has a closure run on every stack.       *)
(* CheckpointProofs has the proofs.                                        *)
(***************************************************************************)
EXTENDS ThreadStacks, Naturals, FiniteSets

CONSTANTS MaxRequests, MaxFlips

VARIABLES list, lock, state, request, checkpoints, suspend_count, flip, running, ret, mode,
          todo, remaining, current, count, barrier, ran, requests, flips

checkpointVars == <<list, lock, state, request, checkpoints, suspend_count, flip, running, ret,
                    mode, todo, remaining, current, count, barrier, ran, requests, flips>>

C == INSTANCE Checkpoint

ASSUME CheckpointAssumption == C!ThreadAssumption /\ C!BoundAssumption

------------------------------------------------------------------------------
(* Properties *)

\* RunCheckpoint: no closure runs or waits to run after its requester's wait for the
\* barrier is over, when its stack frame is gone; the barrier counts exactly the runs that
\* are still to come.
ClosureAlive == component = "checkpoint" => C!ClosureAlive /\ C!CountExact

\* RunCheckpoint: a closure runs at most once on each thread, whether the thread runs it or
\* the requester on its behalf.
AtMostOnce == component = "checkpoint" => C!AtMostOnce

\* RunCheckpoint: while the requester runs the closure for a thread, that thread is in the
\* list, not Runnable, and has no checkpoint of its own in hand; a suspended thread has none
\* to run, and one that takes the lock to run one finds it: the fatal error of
\* TransitionFromSuspendedToRunnable and the CHECK of RunCheckpointFunction cannot fail.
OnBehalfExclusive == component = "checkpoint" => C!OnBehalfExclusive /\ C!RequestsConsistent

==============================================================================
