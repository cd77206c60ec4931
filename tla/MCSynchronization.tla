--------------------------- MODULE MCSynchronization ---------------------------
(***************************************************************************)
(* How threads wait for one another, one component at a time: component    *)
(* says which one takes the steps of a behaviour, the others stay as they  *)
(* are.                                                                    *)
(*                                                                         *)
(* "mutex" is a recursive Mutex without FUTEX_REQUEUE, as in the Windows   *)
(* build; Mutex is extended, and its variables are in their initial state  *)
(* in the other behaviours.  "monitor" is Monitor, whose threads enter     *)
(* until a thin lock no longer counts it, "readerwriter" is                *)
(* ReaderWriterMutex and "barrier" is SuspendBarrier.                      *)
(***************************************************************************)
EXTENDS Mutex, SynchronizationParts, ObjectMonitor, TLC

syncVars == <<component, vars, at, monitorVars, readerwriterVars, barrierVars>>

MonitorUnused ==
    /\ lock_word = None /\ monitor_lock = None /\ owner = None /\ lock_count = None
    /\ monitor_waiters = None /\ wait_set = None /\ wake_set = None
    /\ hash_code = None /\ todo = None /\ target = None /\ new_hash = None
    /\ suspended_by = None /\ prev_lock_count = None /\ wait_monitor = None
    /\ interrupted = None /\ monitor_held = None /\ hashes = None
ReaderwriterUnused ==
    /\ state = None /\ num_contenders = None /\ writer = None /\ futexq = None
    /\ mode = None /\ seen_state = None
BarrierUnused ==
    /\ barrier = None /\ waking = None /\ cur_val = None /\ first = None /\ i = None
    /\ attempt = None /\ low = None /\ tid = None /\ timeout_ns = None
    /\ dump_adjustment_ns = None /\ now = None /\ start_time = None
    /\ begin = None /\ sigquit = None

ThreadSymmetry == Permutations(Thread)

SyncInit ==
    /\ Init
    /\ \/ /\ component = "mutex" /\ at = None
          /\ MonitorUnused /\ ReaderwriterUnused /\ BarrierUnused
       \/ component = "monitor" /\ M!Init /\ ReaderwriterUnused /\ BarrierUnused
       \/ component = "readerwriter" /\ R!Init /\ MonitorUnused /\ BarrierUnused
       \/ component = "barrier" /\ B!Init /\ MonitorUnused /\ ReaderwriterUnused

SyncNext ==
    /\ UNCHANGED component
    /\ \/ /\ component = "mutex" /\ Next
          /\ UNCHANGED <<at, monitorVars, readerwriterVars, barrierVars>>
       \/ /\ component = "monitor" /\ M!Next
          /\ UNCHANGED <<vars, readerwriterVars, barrierVars>>
       \/ /\ component = "readerwriter" /\ R!Next
          /\ UNCHANGED <<vars, monitorVars, barrierVars>>
       \/ /\ component = "barrier" /\ B!Next
          /\ UNCHANGED <<vars, monitorVars, readerwriterVars>>

SyncSpec == SyncInit /\ [][SyncNext]_syncVars

================================================================================
