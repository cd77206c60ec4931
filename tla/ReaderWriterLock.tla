--------------------------- MODULE ReaderWriterLock ---------------------------
(***************************************************************************)
(* What a ReaderWriterMutex promises: one writer, or any number of         *)
(* readers, or nobody.  It promises no order between them.                 *)
(***************************************************************************)
CONSTANT Thread

VARIABLES
    readers,   \* the threads that hold the lock shared
    writers    \* the threads that hold the lock exclusively

vars == <<readers, writers>>

Init == readers = {} /\ writers = {}

AcquireShared(t) ==
    /\ writers = {} /\ t \notin readers
    /\ readers' = readers \cup {t}
    /\ UNCHANGED writers

AcquireExclusive(t) ==
    /\ writers = {} /\ readers = {}
    /\ writers' = {t}
    /\ UNCHANGED readers

ReleaseShared(t) ==
    /\ t \in readers
    /\ readers' = readers \ {t}
    /\ UNCHANGED writers

ReleaseExclusive(t) ==
    /\ t \in writers
    /\ writers' = writers \ {t}
    /\ UNCHANGED readers

Next == \E t \in Thread :
    \/ AcquireShared(t) \/ AcquireExclusive(t)
    \/ ReleaseShared(t) \/ ReleaseExclusive(t)

Spec == Init /\ [][Next]_vars

==============================================================================
