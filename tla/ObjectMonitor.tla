----------------------------- MODULE ObjectMonitor -----------------------------
(***************************************************************************)
(* Monitor under the variables MCSynchronization gives it: the component   *)
(* "monitor".  MonitorProofs has the proofs.                               *)
(***************************************************************************)
EXTENDS ThreadWaits, Integers, Sequences, FiniteSets

CONSTANTS Hash, MaxCount, MaxHeld

VARIABLES lock_word, monitor_lock, owner, lock_count, monitor_waiters, wait_set, wake_set,
          hash_code, todo, target, new_hash, suspended_by, prev_lock_count, wait_monitor,
          interrupted, monitor_held, hashes

monitorVars == <<lock_word, monitor_lock, owner, lock_count, monitor_waiters, wait_set, wake_set,
                 hash_code, todo, target, new_hash, suspended_by, prev_lock_count, wait_monitor,
                 interrupted, monitor_held, hashes>>

M == INSTANCE Monitor WITH pc <- at, num_waiters <- monitor_waiters, held <- monitor_held

ASSUME MonitorAssumption == M!ThreadAssumption /\ M!BoundAssumption

------------------------------------------------------------------------------
(* Properties *)

\* Monitor: a thread between its enter and its exit owns the lock, as deep as it entered
\* it, in whatever form and whoever inflated it, and the monitor it uses is not deflated
\* and freed under it.
OwnershipKept == component = "monitor" => M!OwnershipExact /\ M!MonitorInUse

\* Monitor: a thread that notify moved to the wake set is not forgotten there, whoever
\* releases the monitor (SignalWaiterAndReleaseMonitorLock).
NotificationKept == component = "monitor" => M!NotificationKept

\* Monitor: the identity hash code of an object never changes, through inflation and
\* deflation.
HashStable == component = "monitor" => M!HashStable

================================================================================
