------------------------ MODULE SynchronizationProofs ------------------------
(***************************************************************************)
(* Proofs about Mutex, ReaderWriterMutex and SuspendBarrier, for every set *)
(* of threads: Mutex, recursive or not, with the Linux or the Windows      *)
(* futex, excludes, restores the recursion count, forgets no sleeper and   *)
(* implements the abstract lock with a condition variable;                 *)
(* ReaderWriterMutex implements the abstract lock and forgets no sleeper;  *)
(* WaitForSuspendBarrier sleeps on no barrier that all have passed.        *)
(***************************************************************************)
EXTENDS Mutex, SynchronizationParts, FiniteSetTheorems, TLAPS

------------------------------------------------------------------------------
(* Mutex *)

\* The kernel queues hold only threads that are in futex(), a thread is on one
\* queue at a time, and in_wait agrees with where the thread is.
QueuesConsistent ==
    /\ \A t \in mutexq : pc[t] \in {"sleep", "cvsleep"}
    /\ \A t \in cvq : pc[t] = "cvsleep" /\ t \notin mutexq
    /\ \A t \in Thread : pc[t] \in {"cvfutex", "cvsleep", "cvreturn"} => t \in in_wait
    /\ \A t \in Thread : pc[t] \in {"out", "cs"} => t \notin in_wait

\* RecursionRestored, and a mutex that is not recursive nests at most once.
RecursionInv ==
    /\ RecursionRestored
    /\ ~Recursive => /\ recursion_count <= 1
                     /\ \A t \in in_wait : old_recursion[t] <= 1

\* Every step keeps the types.
LEMMA TypeStep ==
  ASSUME TypeOK, [Next]_vars
  PROVE TypeOK'
<1>1. ASSUME NEW t \in Thread, FirstLock(t) PROVE TypeOK'
  BY ThreadAssumption, BoundAssumption, FlagAssumption, <1>1
  DEF FirstLock, Goto, TypeOK, PC, lockvars, cvvars, queues, locals
<1>2. ASSUME NEW t \in Thread, RecursiveLock(t) PROVE TypeOK'
  BY ThreadAssumption, BoundAssumption, FlagAssumption, <1>2
  DEF RecursiveLock, Goto, TypeOK, PC, lockvars, cvvars, queues, locals
<1>3. ASSUME NEW t \in Thread, LockCas(t) PROVE TypeOK'
  BY ThreadAssumption, BoundAssumption, FlagAssumption, <1>3
  DEF LockCas, Goto, TypeOK, PC, lockvars, cvvars, queues, locals
<1>4. ASSUME NEW t \in Thread, TryLock(t) PROVE TypeOK'
  BY ThreadAssumption, BoundAssumption, FlagAssumption, <1>4
  DEF TryLock, Goto, TypeOK, PC, lockvars, cvvars, queues, locals
<1>5. ASSUME NEW t \in Thread, SpinFailed(t) PROVE TypeOK'
  BY ThreadAssumption, BoundAssumption, FlagAssumption, <1>5
  DEF SpinFailed, Goto, TypeOK, PC, lockvars, cvvars, queues, locals
<1>6. ASSUME NEW t \in Thread, IncrementContenders(t) PROVE TypeOK'
  BY ThreadAssumption, BoundAssumption, FlagAssumption, <1>6
  DEF IncrementContenders, Goto, TypeOK, PC, lockvars, cvvars, queues, locals
<1>7. ASSUME NEW t \in Thread, FutexWait(t) PROVE TypeOK'
  BY ThreadAssumption, BoundAssumption, FlagAssumption, <1>7
  DEF FutexWait, Goto, TypeOK, PC, lockvars, cvvars, queues, locals
<1>8. ASSUME NEW t \in Thread, FutexReturn(t) PROVE TypeOK'
  BY ThreadAssumption, BoundAssumption, FlagAssumption, <1>8
  DEF FutexReturn, Goto, Woken, TypeOK, PC, lockvars, cvvars, queues, locals
<1>9. ASSUME NEW t \in Thread, FutexInterrupted(t) PROVE TypeOK'
  BY ThreadAssumption, BoundAssumption, FlagAssumption, <1>9
  DEF FutexInterrupted, Goto, TypeOK, PC, lockvars, cvvars, queues, locals
<1>10. ASSUME NEW t \in Thread, Reload(t) PROVE TypeOK'
  BY ThreadAssumption, BoundAssumption, FlagAssumption, <1>10
  DEF Reload, Goto, TypeOK, PC, lockvars, cvvars, queues, locals
<1>11. ASSUME NEW t \in Thread, DecrementContenders(t) PROVE TypeOK'
  BY ThreadAssumption, BoundAssumption, FlagAssumption, <1>11
  DEF DecrementContenders, Goto, TypeOK, PC, lockvars, cvvars, queues, locals
<1>12. ASSUME NEW t \in Thread, SetOwner(t) PROVE TypeOK'
  BY ThreadAssumption, BoundAssumption, FlagAssumption, <1>12
  DEF SetOwner, Goto, TypeOK, PC, lockvars, cvvars, queues, locals
<1>13. ASSUME NEW t \in Thread, ExclusiveUnlock(t) PROVE TypeOK'
  BY ThreadAssumption, BoundAssumption, FlagAssumption, <1>13
  DEF ExclusiveUnlock, Goto, TypeOK, PC, lockvars, cvvars, queues, locals
<1>14. ASSUME NEW t \in Thread, UnlockCas(t) PROVE TypeOK'
  BY ThreadAssumption, BoundAssumption, FlagAssumption, <1>14
  DEF UnlockCas, Goto, AfterUnlock, TypeOK, PC, lockvars, cvvars, queues, locals
<1>15. ASSUME NEW t \in Thread, UnlockWake(t) PROVE TypeOK'
  BY ThreadAssumption, BoundAssumption, FlagAssumption, <1>15
  DEF UnlockWake, Goto, AfterUnlock, TypeOK, PC, lockvars, cvvars, queues, locals
<1>16. ASSUME NEW t \in Thread, Wait(t) PROVE TypeOK'
  BY ThreadAssumption, BoundAssumption, FlagAssumption, <1>16
  DEF Wait, Goto, TypeOK, PC, lockvars, cvvars, queues, locals
<1>17. ASSUME NEW t \in Thread, CvFutexWait(t) PROVE TypeOK'
  BY ThreadAssumption, BoundAssumption, FlagAssumption, <1>17
  DEF CvFutexWait, Goto, TypeOK, PC, lockvars, cvvars, queues, locals
<1>18. ASSUME NEW t \in Thread, CvFutexReturn(t) PROVE TypeOK'
  BY ThreadAssumption, BoundAssumption, FlagAssumption, <1>18
  DEF CvFutexReturn, Goto, Woken, TypeOK, PC, lockvars, cvvars, queues, locals
<1>19. ASSUME NEW t \in Thread, CvFutexInterrupted(t) PROVE TypeOK'
  BY ThreadAssumption, BoundAssumption, FlagAssumption, <1>19
  DEF CvFutexInterrupted, Goto, Woken, TypeOK, PC, lockvars, cvvars, queues, locals
<1>20. ASSUME NEW t \in Thread, WaitReturn(t) PROVE TypeOK'
  BY ThreadAssumption, BoundAssumption, FlagAssumption, <1>20
  DEF WaitReturn, Goto, TypeOK, PC, lockvars, cvvars, queues, locals
<1>21. ASSUME NEW t \in Thread, NEW S \in SUBSET cvq, RequeueWaiters(t, S) PROVE TypeOK'
  BY ThreadAssumption, BoundAssumption, FlagAssumption, <1>21
  DEF RequeueWaiters, Requeue, TypeOK, PC, lockvars, cvvars, queues, locals
<1>22. CASE WakeupToRespondToEmptyCheckpoint
  BY ThreadAssumption, BoundAssumption, FlagAssumption, <1>22
  DEF WakeupToRespondToEmptyCheckpoint, TypeOK, PC, lockvars, cvvars, queues, locals
<1>23. CASE UNCHANGED vars
  BY ThreadAssumption, BoundAssumption, FlagAssumption, <1>23
  DEF vars, TypeOK, PC, lockvars, cvvars, queues, locals
<1> QED
  BY ZenonT(30), <1>1, <1>2, <1>3, <1>4, <1>5, <1>6, <1>7, <1>8, <1>9, <1>10, <1>11, <1>12, <1>13,
     <1>14, <1>15, <1>16, <1>17, <1>18, <1>19, <1>20, <1>21, <1>22, <1>23
  DEF Next, LockStep, UnlockStep, WaitStep, Call, ExclusiveLock, Interrupt, Signal,
    Broadcast

\* Every step keeps the kernel queues consistent.
LEMMA QueuesStep ==
  ASSUME TypeOK, QueuesConsistent, [Next]_vars
  PROVE QueuesConsistent'
<1>1. ASSUME NEW t \in Thread, FirstLock(t) PROVE QueuesConsistent'
  BY <1>1
  DEF FirstLock, Goto, TypeOK, QueuesConsistent, lockvars, cvvars, queues, locals
<1>2. ASSUME NEW t \in Thread, RecursiveLock(t) PROVE QueuesConsistent'
  BY <1>2
  DEF RecursiveLock, Goto, TypeOK, QueuesConsistent, lockvars, cvvars, queues, locals
<1>3. ASSUME NEW t \in Thread, LockCas(t) PROVE QueuesConsistent'
  BY <1>3
  DEF LockCas, Goto, TypeOK, QueuesConsistent, lockvars, cvvars, queues, locals
<1>4. ASSUME NEW t \in Thread, TryLock(t) PROVE QueuesConsistent'
  BY <1>4
  DEF TryLock, Goto, TypeOK, QueuesConsistent, lockvars, cvvars, queues, locals
<1>5. ASSUME NEW t \in Thread, SpinFailed(t) PROVE QueuesConsistent'
  BY <1>5
  DEF SpinFailed, Goto, TypeOK, QueuesConsistent, lockvars, cvvars, queues, locals
<1>6. ASSUME NEW t \in Thread, IncrementContenders(t) PROVE QueuesConsistent'
  BY <1>6
  DEF IncrementContenders, Goto, TypeOK, QueuesConsistent, lockvars, cvvars, queues, locals
<1>7. ASSUME NEW t \in Thread, FutexWait(t) PROVE QueuesConsistent'
  BY <1>7
  DEF FutexWait, Goto, TypeOK, QueuesConsistent, lockvars, cvvars, queues, locals
<1>8. ASSUME NEW t \in Thread, FutexReturn(t) PROVE QueuesConsistent'
  BY <1>8
  DEF FutexReturn, Goto, Woken, TypeOK, QueuesConsistent, lockvars, cvvars, queues, locals
<1>9. ASSUME NEW t \in Thread, FutexInterrupted(t) PROVE QueuesConsistent'
  BY <1>9
  DEF FutexInterrupted, Goto, TypeOK, QueuesConsistent, lockvars, cvvars, queues, locals
<1>10. ASSUME NEW t \in Thread, Reload(t) PROVE QueuesConsistent'
  BY <1>10
  DEF Reload, Goto, TypeOK, QueuesConsistent, lockvars, cvvars, queues, locals
<1>11. ASSUME NEW t \in Thread, DecrementContenders(t) PROVE QueuesConsistent'
  BY <1>11
  DEF DecrementContenders, Goto, TypeOK, QueuesConsistent, lockvars, cvvars, queues, locals
<1>12. ASSUME NEW t \in Thread, SetOwner(t) PROVE QueuesConsistent'
  BY <1>12
  DEF SetOwner, Goto, TypeOK, QueuesConsistent, lockvars, cvvars, queues, locals
<1>13. ASSUME NEW t \in Thread, ExclusiveUnlock(t) PROVE QueuesConsistent'
  BY <1>13
  DEF ExclusiveUnlock, Goto, TypeOK, QueuesConsistent, lockvars, cvvars, queues, locals
<1>14. ASSUME NEW t \in Thread, UnlockCas(t) PROVE QueuesConsistent'
  BY <1>14
  DEF UnlockCas, Goto, AfterUnlock, TypeOK, QueuesConsistent, lockvars, cvvars, queues,
     locals
<1>15. ASSUME NEW t \in Thread, UnlockWake(t) PROVE QueuesConsistent'
  BY <1>15
  DEF UnlockWake, Goto, AfterUnlock, TypeOK, QueuesConsistent, lockvars, cvvars, queues,
     locals
<1>16. ASSUME NEW t \in Thread, Wait(t) PROVE QueuesConsistent'
  BY <1>16
  DEF Wait, Goto, TypeOK, QueuesConsistent, lockvars, cvvars, queues, locals
<1>17. ASSUME NEW t \in Thread, CvFutexWait(t) PROVE QueuesConsistent'
  BY <1>17
  DEF CvFutexWait, Goto, TypeOK, QueuesConsistent, lockvars, cvvars, queues, locals
<1>18. ASSUME NEW t \in Thread, CvFutexReturn(t) PROVE QueuesConsistent'
  BY <1>18
  DEF CvFutexReturn, Goto, Woken, TypeOK, QueuesConsistent, lockvars, cvvars, queues, locals
<1>19. ASSUME NEW t \in Thread, CvFutexInterrupted(t) PROVE QueuesConsistent'
  BY <1>19
  DEF CvFutexInterrupted, Goto, Woken, TypeOK, QueuesConsistent, lockvars, cvvars, queues,
     locals
<1>20. ASSUME NEW t \in Thread, WaitReturn(t) PROVE QueuesConsistent'
  BY <1>20
  DEF WaitReturn, Goto, TypeOK, QueuesConsistent, lockvars, cvvars, queues, locals
<1>21. ASSUME NEW t \in Thread, NEW S \in SUBSET cvq, RequeueWaiters(t, S) PROVE QueuesConsistent'
  BY <1>21
  DEF RequeueWaiters, Requeue, TypeOK, QueuesConsistent, lockvars, cvvars, queues, locals
<1>22. CASE WakeupToRespondToEmptyCheckpoint
  BY <1>22
  DEF WakeupToRespondToEmptyCheckpoint, TypeOK, QueuesConsistent, lockvars, cvvars, queues,
     locals
<1>23. CASE UNCHANGED vars
  BY Zenon, <1>23
  DEF vars, TypeOK, QueuesConsistent, lockvars, cvvars, queues, locals
<1> QED
  BY ZenonT(30), <1>1, <1>2, <1>3, <1>4, <1>5, <1>6, <1>7, <1>8, <1>9, <1>10, <1>11, <1>12, <1>13,
     <1>14, <1>15, <1>16, <1>17, <1>18, <1>19, <1>20, <1>21, <1>22, <1>23
  DEF Next, LockStep, UnlockStep, WaitStep, Call, ExclusiveLock, Interrupt, Signal,
    Broadcast

\* Every step keeps the mutex exclusive and its owner field right.
LEMMA ExclusionStep ==
  ASSUME TypeOK, MutualExclusion, [Next]_vars
  PROVE MutualExclusion'
<1>1. ASSUME NEW t \in Thread, FirstLock(t) PROVE MutualExclusion'
  BY ThreadAssumption, <1>1
  DEF FirstLock, Goto, TypeOK, MutualExclusion, Holders, lockvars, cvvars, queues,
     locals
<1>2. ASSUME NEW t \in Thread, RecursiveLock(t) PROVE MutualExclusion'
  BY ThreadAssumption, <1>2
  DEF RecursiveLock, Goto, TypeOK, MutualExclusion, Holders, lockvars, cvvars, queues,
     locals
<1>3. ASSUME NEW t \in Thread, LockCas(t) PROVE MutualExclusion'
  BY ThreadAssumption, <1>3
  DEF LockCas, Goto, TypeOK, MutualExclusion, Holders, lockvars, cvvars, queues, locals
<1>4. ASSUME NEW t \in Thread, TryLock(t) PROVE MutualExclusion'
  BY ThreadAssumption, <1>4
  DEF TryLock, Goto, TypeOK, MutualExclusion, Holders, lockvars, cvvars, queues, locals
<1>5. ASSUME NEW t \in Thread, SpinFailed(t) PROVE MutualExclusion'
  BY ThreadAssumption, <1>5
  DEF SpinFailed, Goto, TypeOK, MutualExclusion, Holders, lockvars, cvvars, queues, locals
<1>6. ASSUME NEW t \in Thread, IncrementContenders(t) PROVE MutualExclusion'
  BY ThreadAssumption, <1>6
  DEF IncrementContenders, Goto, TypeOK, MutualExclusion, Holders, lockvars, cvvars, queues,
     locals
<1>7. ASSUME NEW t \in Thread, FutexWait(t) PROVE MutualExclusion'
  BY ThreadAssumption, <1>7
  DEF FutexWait, Goto, TypeOK, MutualExclusion, Holders, lockvars, cvvars, queues, locals
<1>8. ASSUME NEW t \in Thread, FutexReturn(t) PROVE MutualExclusion'
  BY ThreadAssumption, <1>8
  DEF FutexReturn, Goto, Woken, TypeOK, MutualExclusion, Holders, lockvars, cvvars, queues,
     locals
<1>9. ASSUME NEW t \in Thread, FutexInterrupted(t) PROVE MutualExclusion'
  BY ThreadAssumption, <1>9
  DEF FutexInterrupted, Goto, TypeOK, MutualExclusion, Holders, lockvars, cvvars, queues,
     locals
<1>10. ASSUME NEW t \in Thread, Reload(t) PROVE MutualExclusion'
  BY ThreadAssumption, <1>10
  DEF Reload, Goto, TypeOK, MutualExclusion, Holders, lockvars, cvvars, queues, locals
<1>11. ASSUME NEW t \in Thread, DecrementContenders(t) PROVE MutualExclusion'
  BY ThreadAssumption, <1>11
  DEF DecrementContenders, Goto, TypeOK, MutualExclusion, Holders, lockvars, cvvars, queues,
     locals
<1>12. ASSUME NEW t \in Thread, SetOwner(t) PROVE MutualExclusion'
  BY ThreadAssumption, <1>12
  DEF SetOwner, Goto, TypeOK, MutualExclusion, Holders, lockvars, cvvars, queues, locals
<1>13. ASSUME NEW t \in Thread, ExclusiveUnlock(t) PROVE MutualExclusion'
  BY ThreadAssumption, <1>13
  DEF ExclusiveUnlock, Goto, TypeOK, MutualExclusion, Holders, lockvars, cvvars, queues,
     locals
<1>14. ASSUME NEW t \in Thread, UnlockCas(t) PROVE MutualExclusion'
  BY ThreadAssumption, <1>14
  DEF UnlockCas, Goto, AfterUnlock, TypeOK, MutualExclusion, Holders, lockvars, cvvars,
     queues, locals
<1>15. ASSUME NEW t \in Thread, UnlockWake(t) PROVE MutualExclusion'
  BY ThreadAssumption, <1>15
  DEF UnlockWake, Goto, AfterUnlock, TypeOK, MutualExclusion, Holders, lockvars, cvvars,
     queues, locals
<1>16. ASSUME NEW t \in Thread, Wait(t) PROVE MutualExclusion'
  BY ThreadAssumption, <1>16
  DEF Wait, Goto, TypeOK, MutualExclusion, Holders, lockvars, cvvars, queues, locals
<1>17. ASSUME NEW t \in Thread, CvFutexWait(t) PROVE MutualExclusion'
  BY ThreadAssumption, <1>17
  DEF CvFutexWait, Goto, TypeOK, MutualExclusion, Holders, lockvars, cvvars, queues, locals
<1>18. ASSUME NEW t \in Thread, CvFutexReturn(t) PROVE MutualExclusion'
  BY ThreadAssumption, <1>18
  DEF CvFutexReturn, Goto, Woken, TypeOK, MutualExclusion, Holders, lockvars, cvvars,
     queues, locals
<1>19. ASSUME NEW t \in Thread, CvFutexInterrupted(t) PROVE MutualExclusion'
  BY ThreadAssumption, <1>19
  DEF CvFutexInterrupted, Goto, Woken, TypeOK, MutualExclusion, Holders, lockvars, cvvars,
     queues, locals
<1>20. ASSUME NEW t \in Thread, WaitReturn(t) PROVE MutualExclusion'
  BY ThreadAssumption, <1>20
  DEF WaitReturn, Goto, TypeOK, MutualExclusion, Holders, lockvars, cvvars, queues, locals
<1>21. ASSUME NEW t \in Thread, NEW S \in SUBSET cvq, RequeueWaiters(t, S) PROVE MutualExclusion'
  BY ThreadAssumption, <1>21
  DEF RequeueWaiters, Requeue, TypeOK, MutualExclusion, Holders, lockvars, cvvars, queues,
     locals
<1>22. CASE WakeupToRespondToEmptyCheckpoint
  BY ThreadAssumption, <1>22
  DEF WakeupToRespondToEmptyCheckpoint, TypeOK, MutualExclusion, Holders, lockvars, cvvars,
     queues, locals
<1>23. CASE UNCHANGED vars
  BY ThreadAssumption, <1>23
  DEF vars, TypeOK, MutualExclusion, Holders, lockvars, cvvars, queues, locals
<1> QED
  BY ZenonT(30), <1>1, <1>2, <1>3, <1>4, <1>5, <1>6, <1>7, <1>8, <1>9, <1>10, <1>11, <1>12, <1>13,
     <1>14, <1>15, <1>16, <1>17, <1>18, <1>19, <1>20, <1>21, <1>22, <1>23
  DEF Next, LockStep, UnlockStep, WaitStep, Call, ExclusiveLock, Interrupt, Signal,
    Broadcast

\* Counting: a finite set that gains or loses one element.
LEMMA CountStep ==
  ASSUME NEW S \in SUBSET Thread, NEW t \in Thread
  PROVE /\ Cardinality(S) \in Nat
        /\ t \notin S => Cardinality(S \cup {t}) = Cardinality(S) + 1
        /\ t \in S => Cardinality(S \ {t}) = Cardinality(S) - 1
BY ThreadAssumption, FS_Subset, FS_AddElement, FS_RemoveElement, FS_CardinalityType

\* Every step keeps the contender count exact.
LEMMA ContendersStep ==
  ASSUME TypeOK, QueuesConsistent, ContendersExact, [Next]_vars
  PROVE ContendersExact'
<1>0. LockContenders \in SUBSET Thread /\ in_wait \in SUBSET Thread
  BY DEF TypeOK, LockContenders
<1>1. ASSUME NEW t \in Thread, IncrementContenders(t)
      PROVE ContendersExact'
  <2>1. t \notin LockContenders /\ LockContenders' = LockContenders \cup {t}
    BY <1>1 DEF IncrementContenders, Goto, TypeOK, LockContenders
  <2>2. /\ Cardinality(LockContenders) \in Nat /\ Cardinality(in_wait) \in Nat
        /\ Cardinality(LockContenders') = Cardinality(LockContenders) + 1
        /\ Cardinality(in_wait') = Cardinality(in_wait)
    BY ZenonT(30), <1>0, <1>1, <2>1, CountStep DEF IncrementContenders, cvvars, ContendersExact
  <2> QED BY <1>1, <2>2 DEF IncrementContenders, cvvars, ContendersExact
<1>2. ASSUME NEW t \in Thread, DecrementContenders(t)
      PROVE ContendersExact'
  <2>1. t \in LockContenders /\ LockContenders' = LockContenders \ {t}
    BY <1>2 DEF DecrementContenders, Goto, TypeOK, LockContenders
  <2>2. /\ Cardinality(LockContenders) \in Nat /\ Cardinality(in_wait) \in Nat
        /\ Cardinality(LockContenders') = Cardinality(LockContenders) - 1
        /\ Cardinality(in_wait') = Cardinality(in_wait)
    BY ZenonT(30), <1>0, <1>2, <2>1, CountStep DEF DecrementContenders, cvvars, ContendersExact
  <2> QED BY <1>2, <2>2 DEF DecrementContenders, cvvars, ContendersExact
<1>3. ASSUME NEW t \in Thread, Wait(t)
      PROVE ContendersExact'
  <2>1. LockContenders' = LockContenders /\ t \notin in_wait /\ in_wait' = in_wait \cup {t}
    BY <1>3 DEF Wait, Goto, TypeOK, LockContenders, QueuesConsistent
  <2>2. /\ Cardinality(LockContenders) \in Nat /\ Cardinality(in_wait) \in Nat
        /\ Cardinality(LockContenders') = Cardinality(LockContenders)
        /\ Cardinality(in_wait') = Cardinality(in_wait) + 1
    BY ZenonT(30), <1>0, <1>3, <2>1, CountStep DEF Wait, ContendersExact
  <2> QED BY <1>3, <2>2 DEF Wait, ContendersExact
<1>4. ASSUME NEW t \in Thread, WaitReturn(t)
      PROVE ContendersExact'
  <2>1. LockContenders' = LockContenders /\ t \in in_wait /\ in_wait' = in_wait \ {t}
    BY <1>4 DEF WaitReturn, Goto, TypeOK, LockContenders, QueuesConsistent
  <2>2. /\ Cardinality(LockContenders) \in Nat /\ Cardinality(in_wait) \in Nat
        /\ Cardinality(LockContenders') = Cardinality(LockContenders)
        /\ Cardinality(in_wait') = Cardinality(in_wait) - 1
    BY ZenonT(30), <1>0, <1>4, <2>1, CountStep DEF WaitReturn, ContendersExact
  <2> QED BY <1>4, <2>2 DEF WaitReturn, ContendersExact
<1>5. ASSUME NEW t \in Thread, FirstLock(t)
      PROVE ContendersExact'
  <2>1. LockContenders' = LockContenders
    BY <1>5 DEF FirstLock, Goto, TypeOK, LockContenders, queues
  <2> QED
    BY <1>5, <2>1 DEF FirstLock, lockvars, cvvars, ContendersExact
<1>6. ASSUME NEW t \in Thread, RecursiveLock(t)
      PROVE ContendersExact'
  <2>1. LockContenders' = LockContenders
    BY <1>6 DEF RecursiveLock, Goto, TypeOK, LockContenders, queues
  <2> QED
    BY <1>6, <2>1 DEF RecursiveLock, lockvars, cvvars, ContendersExact
<1>7. ASSUME NEW t \in Thread, LockCas(t)
      PROVE ContendersExact'
  <2>1. LockContenders' = LockContenders
    BY <1>7 DEF LockCas, Goto, TypeOK, LockContenders, queues
  <2> QED
    BY <1>7, <2>1 DEF LockCas, lockvars, cvvars, ContendersExact
<1>8. ASSUME NEW t \in Thread, TryLock(t)
      PROVE ContendersExact'
  <2>1. LockContenders' = LockContenders
    BY <1>8 DEF TryLock, Goto, TypeOK, LockContenders, queues
  <2> QED
    BY <1>8, <2>1 DEF TryLock, lockvars, cvvars, ContendersExact
<1>9. ASSUME NEW t \in Thread, SpinFailed(t)
      PROVE ContendersExact'
  <2>1. LockContenders' = LockContenders
    BY <1>9 DEF SpinFailed, Goto, TypeOK, LockContenders, queues
  <2> QED
    BY <1>9, <2>1 DEF SpinFailed, lockvars, cvvars, ContendersExact
<1>10. ASSUME NEW t \in Thread, FutexWait(t)
      PROVE ContendersExact'
  <2>1. LockContenders' = LockContenders
    BY <1>10 DEF FutexWait, Goto, TypeOK, LockContenders, queues
  <2> QED
    BY <1>10, <2>1 DEF FutexWait, lockvars, cvvars, ContendersExact
<1>11. ASSUME NEW t \in Thread, FutexReturn(t)
      PROVE ContendersExact'
  <2>1. LockContenders' = LockContenders
    BY <1>11 DEF FutexReturn, Goto, Woken, TypeOK, LockContenders, queues
  <2> QED
    BY <1>11, <2>1 DEF FutexReturn, lockvars, cvvars, ContendersExact
<1>12. ASSUME NEW t \in Thread, FutexInterrupted(t)
      PROVE ContendersExact'
  <2>1. LockContenders' = LockContenders
    BY <1>12 DEF FutexInterrupted, Goto, TypeOK, LockContenders, queues
  <2> QED
    BY <1>12, <2>1 DEF FutexInterrupted, lockvars, cvvars, ContendersExact
<1>13. ASSUME NEW t \in Thread, Reload(t)
      PROVE ContendersExact'
  <2>1. LockContenders' = LockContenders
    BY <1>13 DEF Reload, Goto, TypeOK, LockContenders, queues
  <2> QED
    BY <1>13, <2>1 DEF Reload, lockvars, cvvars, ContendersExact
<1>14. ASSUME NEW t \in Thread, SetOwner(t)
      PROVE ContendersExact'
  <2>1. LockContenders' = LockContenders
    BY <1>14 DEF SetOwner, Goto, TypeOK, LockContenders, queues
  <2> QED
    BY <1>14, <2>1 DEF SetOwner, lockvars, cvvars, ContendersExact
<1>15. ASSUME NEW t \in Thread, ExclusiveUnlock(t)
      PROVE ContendersExact'
  <2>1. LockContenders' = LockContenders
    BY <1>15 DEF ExclusiveUnlock, Goto, TypeOK, LockContenders, queues
  <2> QED
    BY <1>15, <2>1 DEF ExclusiveUnlock, lockvars, cvvars, ContendersExact
<1>16. ASSUME NEW t \in Thread, UnlockCas(t)
      PROVE ContendersExact'
  <2>1. LockContenders' = LockContenders
    BY <1>16 DEF UnlockCas, Goto, AfterUnlock, TypeOK, LockContenders, queues
  <2> QED
    BY <1>16, <2>1 DEF UnlockCas, lockvars, cvvars, ContendersExact
<1>17. ASSUME NEW t \in Thread, UnlockWake(t)
      PROVE ContendersExact'
  <2>1. LockContenders' = LockContenders
    BY <1>17 DEF UnlockWake, Goto, AfterUnlock, TypeOK, LockContenders, queues
  <2> QED
    BY <1>17, <2>1 DEF UnlockWake, lockvars, cvvars, ContendersExact
<1>18. ASSUME NEW t \in Thread, CvFutexWait(t)
      PROVE ContendersExact'
  <2>1. LockContenders' = LockContenders
    BY <1>18 DEF CvFutexWait, Goto, TypeOK, LockContenders, queues
  <2> QED
    BY <1>18, <2>1 DEF CvFutexWait, lockvars, cvvars, ContendersExact
<1>19. ASSUME NEW t \in Thread, CvFutexReturn(t)
      PROVE ContendersExact'
  <2>1. LockContenders' = LockContenders
    BY <1>19 DEF CvFutexReturn, Goto, Woken, TypeOK, LockContenders, queues
  <2> QED
    BY <1>19, <2>1 DEF CvFutexReturn, lockvars, cvvars, ContendersExact
<1>20. ASSUME NEW t \in Thread, CvFutexInterrupted(t)
      PROVE ContendersExact'
  <2>1. LockContenders' = LockContenders
    BY <1>20 DEF CvFutexInterrupted, Goto, Woken, TypeOK, LockContenders, queues
  <2> QED
    BY <1>20, <2>1 DEF CvFutexInterrupted, lockvars, cvvars, ContendersExact
<1>21. ASSUME NEW t \in Thread, NEW S \in SUBSET cvq, RequeueWaiters(t, S)
      PROVE ContendersExact'
  BY <1>21 DEF RequeueWaiters, lockvars, cvvars, ContendersExact, LockContenders
<1>22. CASE WakeupToRespondToEmptyCheckpoint
  BY <1>22
  DEF WakeupToRespondToEmptyCheckpoint, lockvars, cvvars, ContendersExact, LockContenders
<1>23. CASE UNCHANGED vars
  BY <1>23 DEF vars, lockvars, cvvars, ContendersExact, LockContenders
<1> QED
  BY ZenonT(30), <1>1, <1>2, <1>3, <1>4, <1>5, <1>6, <1>7, <1>8, <1>9, <1>10, <1>11, <1>12, <1>13,
     <1>14, <1>15, <1>16, <1>17, <1>18, <1>19, <1>20, <1>21, <1>22, <1>23
  DEF Next, LockStep, UnlockStep, WaitStep, Call, ExclusiveLock, Interrupt, Signal,
    Broadcast

\* A thread asleep on the mutex is counted, so the word is not 0.
LEMMA SleepersCounted ==
  ASSUME TypeOK, QueuesConsistent, ContendersExact, mutexq # {}
  PROVE contenders # 0
<1>1. PICK w \in mutexq : TRUE
  OBVIOUS
<1>2. LockContenders \in SUBSET Thread /\ in_wait \in SUBSET Thread
  BY DEF TypeOK, LockContenders
<1>3. w \in LockContenders \/ w \in in_wait
  BY <1>1 DEF TypeOK, QueuesConsistent, LockContenders
<1>4. IsFiniteSet(LockContenders) /\ IsFiniteSet(in_wait)
  BY <1>2, ThreadAssumption, FS_Subset
<1>5. Cardinality(LockContenders) # 0 \/ Cardinality(in_wait) # 0
  BY <1>3, <1>4, FS_EmptySet
<1> QED
  BY <1>4, <1>5, FS_CardinalityType DEF ContendersExact

\* Every step keeps some thread awake while a free mutex has sleepers.
LEMMA WakeupStep ==
  ASSUME TypeOK, QueuesConsistent, MutualExclusion, ContendersExact, NoLostWakeup, [Next]_vars
  PROVE NoLostWakeup'
<1>1. ASSUME NEW t \in Thread, FirstLock(t) PROVE NoLostWakeup'
  BY Zenon, SleepersCounted, <1>1
  DEF FirstLock, Goto, TypeOK, QueuesConsistent, MutualExclusion, Holders, NoLostWakeup,
     Awake, Woken, lockvars, cvvars, queues, locals
<1>2. ASSUME NEW t \in Thread, RecursiveLock(t) PROVE NoLostWakeup'
  BY Zenon, SleepersCounted, <1>2
  DEF RecursiveLock, Goto, TypeOK, QueuesConsistent, MutualExclusion, Holders, NoLostWakeup,
     Awake, Woken, lockvars, cvvars, queues, locals
<1>3. ASSUME NEW t \in Thread, LockCas(t) PROVE NoLostWakeup'
  BY SleepersCounted, <1>3
  DEF LockCas, Goto, TypeOK, QueuesConsistent, MutualExclusion, Holders, NoLostWakeup,
     Awake, Woken, lockvars, cvvars, queues, locals
<1>4. ASSUME NEW t \in Thread, TryLock(t) PROVE NoLostWakeup'
  BY Zenon, SleepersCounted, <1>4
  DEF TryLock, Goto, TypeOK, QueuesConsistent, MutualExclusion, Holders, NoLostWakeup,
     Awake, Woken, lockvars, cvvars, queues, locals
<1>5. ASSUME NEW t \in Thread, SpinFailed(t) PROVE NoLostWakeup'
  BY SleepersCounted, <1>5
  DEF SpinFailed, Goto, TypeOK, QueuesConsistent, MutualExclusion, Holders, NoLostWakeup,
     Awake, Woken, lockvars, cvvars, queues, locals
<1>6. ASSUME NEW t \in Thread, IncrementContenders(t) PROVE NoLostWakeup'
  BY Zenon, SleepersCounted, <1>6
  DEF IncrementContenders, Goto, TypeOK, QueuesConsistent, MutualExclusion, Holders,
     NoLostWakeup, Awake, Woken, lockvars, cvvars, queues, locals
<1>7. ASSUME NEW t \in Thread, FutexWait(t) PROVE NoLostWakeup'
  BY SleepersCounted, <1>7
  DEF FutexWait, Goto, TypeOK, QueuesConsistent, MutualExclusion, Holders, NoLostWakeup,
     Awake, Woken, lockvars, cvvars, queues, locals
<1>8. ASSUME NEW t \in Thread, FutexReturn(t) PROVE NoLostWakeup'
  BY Zenon, SleepersCounted, <1>8
  DEF FutexReturn, Goto, Woken, TypeOK, QueuesConsistent, MutualExclusion, Holders,
     NoLostWakeup, Awake, lockvars, cvvars, queues, locals
<1>9. ASSUME NEW t \in Thread, FutexInterrupted(t) PROVE NoLostWakeup'
  BY Zenon, SleepersCounted, <1>9
  DEF FutexInterrupted, Goto, TypeOK, QueuesConsistent, MutualExclusion, Holders,
     NoLostWakeup, Awake, Woken, lockvars, cvvars, queues, locals
<1>10. ASSUME NEW t \in Thread, Reload(t) PROVE NoLostWakeup'
  BY Zenon, SleepersCounted, <1>10
  DEF Reload, Goto, TypeOK, QueuesConsistent, MutualExclusion, Holders, NoLostWakeup, Awake,
     Woken, lockvars, cvvars, queues, locals
<1>11. ASSUME NEW t \in Thread, DecrementContenders(t) PROVE NoLostWakeup'
  BY Zenon, SleepersCounted, <1>11
  DEF DecrementContenders, Goto, TypeOK, QueuesConsistent, MutualExclusion, Holders,
     NoLostWakeup, Awake, Woken, lockvars, cvvars, queues, locals
<1>12. ASSUME NEW t \in Thread, SetOwner(t) PROVE NoLostWakeup'
  BY Zenon, SleepersCounted, <1>12
  DEF SetOwner, Goto, TypeOK, QueuesConsistent, MutualExclusion, Holders, NoLostWakeup,
     Awake, Woken, lockvars, cvvars, queues, locals
<1>13. ASSUME NEW t \in Thread, ExclusiveUnlock(t) PROVE NoLostWakeup'
  BY Zenon, SleepersCounted, <1>13
  DEF ExclusiveUnlock, Goto, TypeOK, QueuesConsistent, MutualExclusion, Holders,
     NoLostWakeup, Awake, Woken, lockvars, cvvars, queues, locals
<1>14. ASSUME NEW t \in Thread, UnlockCas(t) PROVE NoLostWakeup'
  BY SleepersCounted, <1>14
  DEF UnlockCas, Goto, AfterUnlock, TypeOK, QueuesConsistent, MutualExclusion, Holders,
     NoLostWakeup, Awake, Woken, lockvars, cvvars, queues, locals
<1>15. ASSUME NEW t \in Thread, UnlockWake(t) PROVE NoLostWakeup'
  <2>1. CASE mutexq = {}
    BY <1>15, <2>1 DEF UnlockWake, NoLostWakeup
  <2>2. ASSUME NEW w \in mutexq, mutexq' = mutexq \ {w} PROVE w \in Awake'
    BY Zenon, <1>15, <2>2 DEF UnlockWake, Goto, AfterUnlock, TypeOK, QueuesConsistent, Awake, Woken
  <2> QED
    BY <1>15, <2>1, <2>2 DEF UnlockWake, NoLostWakeup
<1>16. ASSUME NEW t \in Thread, Wait(t) PROVE NoLostWakeup'
  BY Zenon, SleepersCounted, <1>16
  DEF Wait, Goto, TypeOK, QueuesConsistent, MutualExclusion, Holders, NoLostWakeup, Awake,
     Woken, lockvars, cvvars, queues, locals
<1>17. ASSUME NEW t \in Thread, CvFutexWait(t) PROVE NoLostWakeup'
  BY Zenon, SleepersCounted, <1>17
  DEF CvFutexWait, Goto, TypeOK, QueuesConsistent, MutualExclusion, Holders, NoLostWakeup,
     Awake, Woken, lockvars, cvvars, queues, locals
<1>18. ASSUME NEW t \in Thread, CvFutexReturn(t) PROVE NoLostWakeup'
  BY Zenon, SleepersCounted, <1>18
  DEF CvFutexReturn, Goto, Woken, TypeOK, QueuesConsistent, MutualExclusion, Holders,
     NoLostWakeup, Awake, lockvars, cvvars, queues, locals
<1>19. ASSUME NEW t \in Thread, CvFutexInterrupted(t) PROVE NoLostWakeup'
  BY Zenon, SleepersCounted, <1>19
  DEF CvFutexInterrupted, Goto, Woken, TypeOK, QueuesConsistent, MutualExclusion, Holders,
     NoLostWakeup, Awake, lockvars, cvvars, queues, locals
<1>20. ASSUME NEW t \in Thread, WaitReturn(t) PROVE NoLostWakeup'
  BY SMTT(30), SleepersCounted, <1>20
  DEF WaitReturn, Goto, TypeOK, QueuesConsistent, MutualExclusion, Holders, NoLostWakeup,
     Awake, Woken, lockvars, cvvars, queues, locals
<1>21. ASSUME NEW t \in Thread, NEW S \in SUBSET cvq, RequeueWaiters(t, S) PROVE NoLostWakeup'
  BY SleepersCounted, <1>21
  DEF RequeueWaiters, Requeue, TypeOK, QueuesConsistent, MutualExclusion, Holders,
     NoLostWakeup, Awake, Woken, lockvars, cvvars, queues, locals
<1>22. CASE WakeupToRespondToEmptyCheckpoint
  BY SMTT(30), SleepersCounted, <1>22
  DEF WakeupToRespondToEmptyCheckpoint, TypeOK, QueuesConsistent, MutualExclusion, Holders,
     NoLostWakeup, Awake, Woken, lockvars, cvvars, queues, locals
<1>23. CASE UNCHANGED vars
  BY SleepersCounted, <1>23
  DEF vars, TypeOK, QueuesConsistent, MutualExclusion, Holders, NoLostWakeup, Awake, Woken,
     lockvars, cvvars, queues, locals
<1> QED
  BY ZenonT(30), <1>1, <1>2, <1>3, <1>4, <1>5, <1>6, <1>7, <1>8, <1>9, <1>10, <1>11, <1>12, <1>13,
     <1>14, <1>15, <1>16, <1>17, <1>18, <1>19, <1>20, <1>21, <1>22, <1>23
  DEF Next, LockStep, UnlockStep, WaitStep, Call, ExclusiveLock, Interrupt, Signal,
    Broadcast

\* Every step keeps the nesting depth right.
LEMMA RecursionStep ==
  ASSUME TypeOK, QueuesConsistent, MutualExclusion, RecursionInv, [Next]_vars
  PROVE RecursionInv'
<1>1. ASSUME NEW t \in Thread, FirstLock(t) PROVE RecursionInv'
  BY ThreadAssumption, FlagAssumption, <1>1
  DEF FirstLock, Goto, TypeOK, QueuesConsistent, MutualExclusion, Holders, RecursionInv,
     RecursionRestored, lockvars, cvvars, queues, locals
<1>2. ASSUME NEW t \in Thread, RecursiveLock(t) PROVE RecursionInv'
  BY ThreadAssumption, FlagAssumption, <1>2
  DEF RecursiveLock, Goto, TypeOK, QueuesConsistent, MutualExclusion, Holders, RecursionInv,
     RecursionRestored, lockvars, cvvars, queues, locals
<1>3. ASSUME NEW t \in Thread, LockCas(t) PROVE RecursionInv'
  BY SMTT(30), ThreadAssumption, FlagAssumption, <1>3
  DEF LockCas, Goto, TypeOK, QueuesConsistent, MutualExclusion, Holders, RecursionInv,
     RecursionRestored, lockvars, cvvars, queues, locals
<1>4. ASSUME NEW t \in Thread, TryLock(t) PROVE RecursionInv'
  BY ThreadAssumption, FlagAssumption, <1>4
  DEF TryLock, Goto, TypeOK, QueuesConsistent, MutualExclusion, Holders, RecursionInv,
     RecursionRestored, lockvars, cvvars, queues, locals
<1>5. ASSUME NEW t \in Thread, SpinFailed(t) PROVE RecursionInv'
  BY ThreadAssumption, FlagAssumption, <1>5
  DEF SpinFailed, Goto, TypeOK, QueuesConsistent, MutualExclusion, Holders, RecursionInv,
     RecursionRestored, lockvars, cvvars, queues, locals
<1>6. ASSUME NEW t \in Thread, IncrementContenders(t) PROVE RecursionInv'
  BY Zenon, ThreadAssumption, FlagAssumption, <1>6
  DEF IncrementContenders, Goto, TypeOK, QueuesConsistent, MutualExclusion, Holders,
     RecursionInv, RecursionRestored, lockvars, cvvars, queues, locals
<1>7. ASSUME NEW t \in Thread, FutexWait(t) PROVE RecursionInv'
  BY ThreadAssumption, FlagAssumption, <1>7
  DEF FutexWait, Goto, TypeOK, QueuesConsistent, MutualExclusion, Holders, RecursionInv,
     RecursionRestored, lockvars, cvvars, queues, locals
<1>8. ASSUME NEW t \in Thread, FutexReturn(t) PROVE RecursionInv'
  BY ThreadAssumption, FlagAssumption, <1>8
  DEF FutexReturn, Goto, Woken, TypeOK, QueuesConsistent, MutualExclusion, Holders,
     RecursionInv, RecursionRestored, lockvars, cvvars, queues, locals
<1>9. ASSUME NEW t \in Thread, FutexInterrupted(t) PROVE RecursionInv'
  BY ThreadAssumption, FlagAssumption, <1>9
  DEF FutexInterrupted, Goto, TypeOK, QueuesConsistent, MutualExclusion, Holders,
     RecursionInv, RecursionRestored, lockvars, cvvars, queues, locals
<1>10. ASSUME NEW t \in Thread, Reload(t) PROVE RecursionInv'
  BY Zenon, ThreadAssumption, FlagAssumption, <1>10
  DEF Reload, Goto, TypeOK, QueuesConsistent, MutualExclusion, Holders, RecursionInv,
     RecursionRestored, lockvars, cvvars, queues, locals
<1>11. ASSUME NEW t \in Thread, DecrementContenders(t) PROVE RecursionInv'
  BY Zenon, ThreadAssumption, FlagAssumption, <1>11
  DEF DecrementContenders, Goto, TypeOK, QueuesConsistent, MutualExclusion, Holders,
     RecursionInv, RecursionRestored, lockvars, cvvars, queues, locals
<1>12. ASSUME NEW t \in Thread, SetOwner(t) PROVE RecursionInv'
  BY ThreadAssumption, FlagAssumption, <1>12
  DEF SetOwner, Goto, TypeOK, QueuesConsistent, MutualExclusion, Holders, RecursionInv,
     RecursionRestored, lockvars, cvvars, queues, locals
<1>13. ASSUME NEW t \in Thread, ExclusiveUnlock(t) PROVE RecursionInv'
  BY ThreadAssumption, FlagAssumption, <1>13
  DEF ExclusiveUnlock, Goto, TypeOK, QueuesConsistent, MutualExclusion, Holders,
     RecursionInv, RecursionRestored, lockvars, cvvars, queues, locals
<1>14. ASSUME NEW t \in Thread, UnlockCas(t) PROVE RecursionInv'
  BY Zenon, ThreadAssumption, FlagAssumption, <1>14
  DEF UnlockCas, Goto, AfterUnlock, TypeOK, QueuesConsistent, MutualExclusion, Holders,
     RecursionInv, RecursionRestored, lockvars, cvvars, queues, locals
<1>15. ASSUME NEW t \in Thread, UnlockWake(t) PROVE RecursionInv'
  BY ThreadAssumption, FlagAssumption, <1>15
  DEF UnlockWake, Goto, AfterUnlock, TypeOK, QueuesConsistent, MutualExclusion, Holders,
     RecursionInv, RecursionRestored, lockvars, cvvars, queues, locals
<1>16. ASSUME NEW t \in Thread, Wait(t) PROVE RecursionInv'
  BY ThreadAssumption, FlagAssumption, <1>16
  DEF Wait, Goto, TypeOK, QueuesConsistent, MutualExclusion, Holders, RecursionInv,
     RecursionRestored, lockvars, cvvars, queues, locals
<1>17. ASSUME NEW t \in Thread, CvFutexWait(t) PROVE RecursionInv'
  BY Zenon, ThreadAssumption, FlagAssumption, <1>17
  DEF CvFutexWait, Goto, TypeOK, QueuesConsistent, MutualExclusion, Holders, RecursionInv,
     RecursionRestored, lockvars, cvvars, queues, locals
<1>18. ASSUME NEW t \in Thread, CvFutexReturn(t) PROVE RecursionInv'
  BY SMTT(30), ThreadAssumption, FlagAssumption, <1>18
  DEF CvFutexReturn, Goto, Woken, TypeOK, QueuesConsistent, MutualExclusion, Holders,
     RecursionInv, RecursionRestored, lockvars, cvvars, queues, locals
<1>19. ASSUME NEW t \in Thread, CvFutexInterrupted(t) PROVE RecursionInv'
  BY ThreadAssumption, FlagAssumption, <1>19
  DEF CvFutexInterrupted, Goto, Woken, TypeOK, QueuesConsistent, MutualExclusion, Holders,
     RecursionInv, RecursionRestored, lockvars, cvvars, queues, locals
<1>20. ASSUME NEW t \in Thread, WaitReturn(t) PROVE RecursionInv'
  BY ThreadAssumption, FlagAssumption, <1>20
  DEF WaitReturn, Goto, TypeOK, QueuesConsistent, MutualExclusion, Holders, RecursionInv,
     RecursionRestored, lockvars, cvvars, queues, locals
<1>21. ASSUME NEW t \in Thread, NEW S \in SUBSET cvq, RequeueWaiters(t, S) PROVE RecursionInv'
  BY Zenon, ThreadAssumption, FlagAssumption, <1>21
  DEF RequeueWaiters, Requeue, TypeOK, QueuesConsistent, MutualExclusion, Holders,
     RecursionInv, RecursionRestored, lockvars, cvvars, queues, locals
<1>22. CASE WakeupToRespondToEmptyCheckpoint
  BY Zenon, ThreadAssumption, FlagAssumption, <1>22
  DEF WakeupToRespondToEmptyCheckpoint, TypeOK, QueuesConsistent, MutualExclusion, Holders,
     RecursionInv, RecursionRestored, lockvars, cvvars, queues, locals
<1>23. CASE UNCHANGED vars
  BY ThreadAssumption, FlagAssumption, <1>23
  DEF vars, TypeOK, QueuesConsistent, MutualExclusion, Holders, RecursionInv,
     RecursionRestored, lockvars, cvvars, queues, locals
<1> QED
  BY ZenonT(30), <1>1, <1>2, <1>3, <1>4, <1>5, <1>6, <1>7, <1>8, <1>9, <1>10, <1>11, <1>12, <1>13,
     <1>14, <1>15, <1>16, <1>17, <1>18, <1>19, <1>20, <1>21, <1>22, <1>23
  DEF Next, LockStep, UnlockStep, WaitStep, Call, ExclusiveLock, Interrupt, Signal,
    Broadcast

\* The inductive invariant.
IInv ==
    /\ TypeOK /\ QueuesConsistent /\ MutualExclusion
    /\ ContendersExact /\ NoLostWakeup /\ RecursionInv

\* An unlocked mutex satisfies the invariant.
LEMMA InitIInv == Init => IInv
<1> SUFFICES ASSUME Init PROVE IInv
  OBVIOUS
<1>1. LockContenders = {}
  BY DEF Init, LockContenders
<1>2. TypeOK /\ QueuesConsistent /\ MutualExclusion
  BY ThreadAssumption DEF Init, TypeOK, PC, QueuesConsistent, MutualExclusion, Holders
<1>3. ContendersExact /\ NoLostWakeup /\ RecursionInv
  BY <1>1, FS_EmptySet DEF Init, ContendersExact, NoLostWakeup, RecursionInv, RecursionRestored
<1> QED
  BY <1>2, <1>3 DEF IInv

\* The invariant holds in every reachable state.
LEMMA Inductive == Spec => []IInv
<1>1. IInv /\ [Next]_vars => IInv'
  BY TypeStep, QueuesStep, ExclusionStep, ContendersStep, WakeupStep, RecursionStep DEF IInv
<1> QED
  BY InitIInv, <1>1, PTL DEF Spec

\* Two threads never hold the mutex, and exclusive_owner_ is right: Mutex's
\* ExclusiveLock, ExclusiveTryLock, ExclusiveUnlock and Wait in any interleaving.
THEOREM MutexIsExclusive == Spec => []MutualExclusion
BY Inductive, PTL DEF IInv

\* The contender count and num_waiters_ are exact, so they never underflow and
\* the CHECK_GT of ConditionVariable::Wait cannot fail.
THEOREM MutexContendersExact == Spec => []ContendersExact
BY Inductive, PTL DEF IInv

\* ExclusiveUnlock and RequeueWaiters lose no wake-up.
THEOREM MutexLosesNoWakeup == Spec => []NoLostWakeup
BY Inductive, PTL DEF IInv

\* Wait restores the nesting depth of a recursive mutex.
THEOREM MutexRestoresRecursion == Spec => []RecursionRestored
BY Inductive, PTL DEF IInv, RecursionInv

------------------------------------------------------------------------------
(* The futex protocol implements LockWithCondition. *)

\* A waiter that has not yet released the guard has the current sequence number,
\* and no waiter has a later one.
SequenceInv ==
    \A t \in in_wait : /\ cur_sequence[t] <= sequence
                       /\ pc[t] = "unlock" => cur_sequence[t] = sequence

\* Every step keeps the sequence numbers of the waiters right.
LEMMA SequenceStep ==
  ASSUME TypeOK, QueuesConsistent, MutualExclusion, SequenceInv, [Next]_vars
  PROVE SequenceInv'
<1>1. ASSUME NEW t \in Thread, FirstLock(t) PROVE SequenceInv'
  BY <1>1
  DEF FirstLock, Goto, TypeOK, QueuesConsistent, MutualExclusion, Holders, SequenceInv,
     lockvars, cvvars, queues, locals
<1>2. ASSUME NEW t \in Thread, RecursiveLock(t) PROVE SequenceInv'
  BY <1>2
  DEF RecursiveLock, Goto, TypeOK, QueuesConsistent, MutualExclusion, Holders, SequenceInv,
     lockvars, cvvars, queues, locals
<1>3. ASSUME NEW t \in Thread, LockCas(t) PROVE SequenceInv'
  BY <1>3
  DEF LockCas, Goto, TypeOK, QueuesConsistent, MutualExclusion, Holders, SequenceInv,
     lockvars, cvvars, queues, locals
<1>4. ASSUME NEW t \in Thread, TryLock(t) PROVE SequenceInv'
  BY SMTT(30), <1>4
  DEF TryLock, Goto, TypeOK, QueuesConsistent, MutualExclusion, Holders, SequenceInv,
     lockvars, cvvars, queues, locals
<1>5. ASSUME NEW t \in Thread, SpinFailed(t) PROVE SequenceInv'
  BY <1>5
  DEF SpinFailed, Goto, TypeOK, QueuesConsistent, MutualExclusion, Holders, SequenceInv,
     lockvars, cvvars, queues, locals
<1>6. ASSUME NEW t \in Thread, IncrementContenders(t) PROVE SequenceInv'
  BY SMTT(30), <1>6
  DEF IncrementContenders, Goto, TypeOK, QueuesConsistent, MutualExclusion, Holders,
     SequenceInv, lockvars, cvvars, queues, locals
<1>7. ASSUME NEW t \in Thread, FutexWait(t) PROVE SequenceInv'
  BY SMTT(30), <1>7
  DEF FutexWait, Goto, TypeOK, QueuesConsistent, MutualExclusion, Holders, SequenceInv,
     lockvars, cvvars, queues, locals
<1>8. ASSUME NEW t \in Thread, FutexReturn(t) PROVE SequenceInv'
  BY SMTT(30), <1>8
  DEF FutexReturn, Goto, Woken, TypeOK, QueuesConsistent, MutualExclusion, Holders,
     SequenceInv, lockvars, cvvars, queues, locals
<1>9. ASSUME NEW t \in Thread, FutexInterrupted(t) PROVE SequenceInv'
  BY <1>9
  DEF FutexInterrupted, Goto, TypeOK, QueuesConsistent, MutualExclusion, Holders,
     SequenceInv, lockvars, cvvars, queues, locals
<1>10. ASSUME NEW t \in Thread, Reload(t) PROVE SequenceInv'
  BY <1>10
  DEF Reload, Goto, TypeOK, QueuesConsistent, MutualExclusion, Holders, SequenceInv,
     lockvars, cvvars, queues, locals
<1>11. ASSUME NEW t \in Thread, DecrementContenders(t) PROVE SequenceInv'
  BY <1>11
  DEF DecrementContenders, Goto, TypeOK, QueuesConsistent, MutualExclusion, Holders,
     SequenceInv, lockvars, cvvars, queues, locals
<1>12. ASSUME NEW t \in Thread, SetOwner(t) PROVE SequenceInv'
  BY SMTT(30), <1>12
  DEF SetOwner, Goto, TypeOK, QueuesConsistent, MutualExclusion, Holders, SequenceInv,
     lockvars, cvvars, queues, locals
<1>13. ASSUME NEW t \in Thread, ExclusiveUnlock(t) PROVE SequenceInv'
  BY ZenonT(30), <1>13
  DEF ExclusiveUnlock, Goto, TypeOK, QueuesConsistent, MutualExclusion, Holders,
     SequenceInv, lockvars, cvvars, queues, locals
<1>14. ASSUME NEW t \in Thread, UnlockCas(t) PROVE SequenceInv'
  BY SMTT(30), <1>14
  DEF UnlockCas, Goto, AfterUnlock, TypeOK, QueuesConsistent, MutualExclusion, Holders,
     SequenceInv, lockvars, cvvars, queues, locals
<1>15. ASSUME NEW t \in Thread, UnlockWake(t) PROVE SequenceInv'
  BY SMTT(30), <1>15
  DEF UnlockWake, Goto, AfterUnlock, TypeOK, QueuesConsistent, MutualExclusion, Holders,
     SequenceInv, lockvars, cvvars, queues, locals
<1>16. ASSUME NEW t \in Thread, Wait(t) PROVE SequenceInv'
  BY SMTT(30), <1>16
  DEF Wait, Goto, TypeOK, QueuesConsistent, MutualExclusion, Holders, SequenceInv, lockvars,
     cvvars, queues, locals
<1>17. ASSUME NEW t \in Thread, CvFutexWait(t) PROVE SequenceInv'
  BY Zenon, <1>17
  DEF CvFutexWait, Goto, TypeOK, QueuesConsistent, MutualExclusion, Holders, SequenceInv,
     lockvars, cvvars, queues, locals
<1>18. ASSUME NEW t \in Thread, CvFutexReturn(t) PROVE SequenceInv'
  BY SMTT(30), <1>18
  DEF CvFutexReturn, Goto, Woken, TypeOK, QueuesConsistent, MutualExclusion, Holders,
     SequenceInv, lockvars, cvvars, queues, locals
<1>19. ASSUME NEW t \in Thread, CvFutexInterrupted(t) PROVE SequenceInv'
  BY SMTT(30), <1>19
  DEF CvFutexInterrupted, Goto, Woken, TypeOK, QueuesConsistent, MutualExclusion, Holders,
     SequenceInv, lockvars, cvvars, queues, locals
<1>20. ASSUME NEW t \in Thread, WaitReturn(t) PROVE SequenceInv'
  BY SMTT(30), <1>20
  DEF WaitReturn, Goto, TypeOK, QueuesConsistent, MutualExclusion, Holders, SequenceInv,
     lockvars, cvvars, queues, locals
<1>21. ASSUME NEW t \in Thread, NEW S \in SUBSET cvq, RequeueWaiters(t, S) PROVE SequenceInv'
  BY SMTT(30), <1>21
  DEF RequeueWaiters, Requeue, TypeOK, QueuesConsistent, MutualExclusion, Holders,
     SequenceInv, lockvars, cvvars, queues, locals
<1>22. CASE WakeupToRespondToEmptyCheckpoint
  BY Zenon, <1>22
  DEF WakeupToRespondToEmptyCheckpoint, TypeOK, QueuesConsistent, MutualExclusion, Holders,
     SequenceInv, lockvars, cvvars, queues, locals
<1>23. CASE UNCHANGED vars
  BY <1>23
  DEF vars, TypeOK, QueuesConsistent, MutualExclusion, Holders, SequenceInv, lockvars,
     cvvars, queues, locals
<1> QED
  BY ZenonT(30), <1>1, <1>2, <1>3, <1>4, <1>5, <1>6, <1>7, <1>8, <1>9, <1>10, <1>11, <1>12, <1>13,
     <1>14, <1>15, <1>16, <1>17, <1>18, <1>19, <1>20, <1>21, <1>22, <1>23
  DEF Next, LockStep, UnlockStep, WaitStep, Call, ExclusiveLock, Interrupt, Signal,
    Broadcast

\* The abstract owner is the holder.
LEMMA OwnerIsHolder ==
  ASSUME MutualExclusion
  PROVE /\ \A t \in Holders : Owner = t
        /\ Holders = {} => Owner = None
BY DEF MutualExclusion, Owner

\* Every step is a step of LockWithCondition or leaves its variables alone.
LEMMA StepRefines ==
  ASSUME IInv, SequenceInv, IInv', [Next]_vars
  PROVE [Abstract!Next]_<<Owner, Waiting>>
<1> DEFINE Stutter == UNCHANGED <<Owner, Waiting>>
<1> USE DEF IInv
<1>1. ASSUME NEW t \in Thread, FirstLock(t) PROVE Stutter
  <2>1. Holders' = Holders
    BY Zenon, <1>1 DEF FirstLock, Goto, TypeOK, Holders, queues
  <2>2. Waiting' = Waiting
    BY Zenon, <1>1
    DEF FirstLock, Goto, TypeOK, QueuesConsistent, SequenceInv, Waiting, queues, cvvars,
       locals
  <2> QED BY <2>1, <2>2 DEF Owner
<1>2. ASSUME NEW t \in Thread, RecursiveLock(t) PROVE Stutter
  <2>1. Holders' = Holders
    BY Zenon, <1>2 DEF RecursiveLock, Goto, TypeOK, Holders, queues
  <2>2. Waiting' = Waiting
    BY Zenon, <1>2
    DEF RecursiveLock, Goto, TypeOK, QueuesConsistent, SequenceInv, Waiting, queues, cvvars,
       locals
  <2> QED BY <2>1, <2>2 DEF Owner
<1>3. ASSUME NEW t \in Thread, SpinFailed(t) PROVE Stutter
  <2>1. Holders' = Holders
    BY Zenon, <1>3 DEF SpinFailed, Goto, TypeOK, Holders, queues
  <2>2. Waiting' = Waiting
    BY Zenon, <1>3
    DEF SpinFailed, Goto, TypeOK, QueuesConsistent, SequenceInv, Waiting, queues, cvvars,
       locals
  <2> QED BY <2>1, <2>2 DEF Owner
<1>4. ASSUME NEW t \in Thread, IncrementContenders(t) PROVE Stutter
  <2>1. Holders' = Holders
    BY Zenon, <1>4 DEF IncrementContenders, Goto, TypeOK, Holders, queues
  <2>2. Waiting' = Waiting
    BY Zenon, <1>4
    DEF IncrementContenders, Goto, TypeOK, QueuesConsistent, SequenceInv, Waiting, queues,
       cvvars, locals
  <2> QED BY <2>1, <2>2 DEF Owner
<1>5. ASSUME NEW t \in Thread, FutexWait(t) PROVE Stutter
  <2>1. Holders' = Holders
    BY Zenon, <1>5 DEF FutexWait, Goto, TypeOK, Holders, queues
  <2>2. Waiting' = Waiting
    BY Zenon, <1>5
    DEF FutexWait, Goto, TypeOK, QueuesConsistent, SequenceInv, Waiting, queues, cvvars,
       locals
  <2> QED BY <2>1, <2>2 DEF Owner
<1>6. ASSUME NEW t \in Thread, FutexReturn(t) PROVE Stutter
  <2>1. Holders' = Holders
    BY Zenon, <1>6 DEF FutexReturn, Goto, Woken, TypeOK, Holders, queues
  <2>2. Waiting' = Waiting
    BY Zenon, <1>6
    DEF FutexReturn, Goto, Woken, TypeOK, QueuesConsistent, SequenceInv, Waiting, queues,
       cvvars, locals
  <2> QED BY <2>1, <2>2 DEF Owner
<1>7. ASSUME NEW t \in Thread, FutexInterrupted(t) PROVE Stutter
  <2>1. Holders' = Holders
    BY Zenon, <1>7 DEF FutexInterrupted, Goto, TypeOK, Holders, queues
  <2>2. Waiting' = Waiting
    BY Zenon, <1>7
    DEF FutexInterrupted, Goto, TypeOK, QueuesConsistent, SequenceInv, Waiting, queues,
       cvvars, locals
  <2> QED BY <2>1, <2>2 DEF Owner
<1>8. ASSUME NEW t \in Thread, Reload(t) PROVE Stutter
  <2>1. Holders' = Holders
    BY Zenon, <1>8 DEF Reload, Goto, TypeOK, Holders, queues
  <2>2. Waiting' = Waiting
    BY Zenon, <1>8
    DEF Reload, Goto, TypeOK, QueuesConsistent, SequenceInv, Waiting, queues, cvvars, locals
  <2> QED BY <2>1, <2>2 DEF Owner
<1>9. ASSUME NEW t \in Thread, DecrementContenders(t) PROVE Stutter
  <2>1. Holders' = Holders
    BY Zenon, <1>9 DEF DecrementContenders, Goto, TypeOK, Holders, queues
  <2>2. Waiting' = Waiting
    BY Zenon, <1>9
    DEF DecrementContenders, Goto, TypeOK, QueuesConsistent, SequenceInv, Waiting, queues,
       cvvars, locals
  <2> QED BY <2>1, <2>2 DEF Owner
<1>10. ASSUME NEW t \in Thread, SetOwner(t) PROVE Stutter
  <2>1. Holders' = Holders
    BY Zenon, <1>10 DEF SetOwner, Goto, TypeOK, Holders, queues
  <2>2. Waiting' = Waiting
    BY Zenon, <1>10
    DEF SetOwner, Goto, TypeOK, QueuesConsistent, SequenceInv, Waiting, queues, cvvars,
       locals
  <2> QED BY <2>1, <2>2 DEF Owner
<1>11. ASSUME NEW t \in Thread, ExclusiveUnlock(t) PROVE Stutter
  <2>1. Holders' = Holders
    BY Zenon, <1>11 DEF ExclusiveUnlock, Goto, TypeOK, Holders, queues
  <2>2. Waiting' = Waiting
    BY ZenonT(30), <1>11
    DEF ExclusiveUnlock, Goto, TypeOK, QueuesConsistent, SequenceInv, Waiting, queues,
       cvvars, locals
  <2> QED BY <2>1, <2>2 DEF Owner
<1>12. ASSUME NEW t \in Thread, UnlockWake(t) PROVE Stutter
  <2>1. Holders' = Holders
    BY Zenon, <1>12 DEF UnlockWake, Goto, AfterUnlock, TypeOK, Holders, queues
  <2>2. Waiting' = Waiting
    BY Zenon, <1>12
    DEF UnlockWake, Goto, AfterUnlock, TypeOK, QueuesConsistent, SequenceInv, Waiting,
       queues, cvvars, locals
  <2> QED BY <2>1, <2>2 DEF Owner
<1>13. ASSUME NEW t \in Thread, Wait(t) PROVE Stutter
  <2>1. Holders' = Holders
    BY Zenon, <1>13 DEF Wait, Goto, TypeOK, Holders, queues
  <2>2. Waiting' = Waiting
    BY Zenon, <1>13
    DEF Wait, Goto, TypeOK, QueuesConsistent, SequenceInv, Waiting, queues, cvvars, locals
  <2> QED BY <2>1, <2>2 DEF Owner
<1>14. ASSUME NEW t \in Thread, CvFutexWait(t) PROVE Stutter
  <2>1. Holders' = Holders
    BY Zenon, <1>14 DEF CvFutexWait, Goto, TypeOK, Holders, queues
  <2>2. Waiting' = Waiting
    BY Zenon, <1>14
    DEF CvFutexWait, Goto, TypeOK, QueuesConsistent, SequenceInv, Waiting, queues, cvvars,
       locals
  <2> QED BY <2>1, <2>2 DEF Owner
<1>15. ASSUME NEW t \in Thread, CvFutexReturn(t) PROVE Stutter
  <2>1. Holders' = Holders
    BY Zenon, <1>15 DEF CvFutexReturn, Goto, Woken, TypeOK, Holders, queues
  <2>2. Waiting' = Waiting
    BY Zenon, <1>15
    DEF CvFutexReturn, Goto, Woken, TypeOK, QueuesConsistent, SequenceInv, Waiting, queues,
       cvvars, locals
  <2> QED BY <2>1, <2>2 DEF Owner
<1>16. ASSUME NEW t \in Thread, WaitReturn(t) PROVE Stutter
  <2>1. Holders' = Holders
    BY Zenon, <1>16 DEF WaitReturn, Goto, TypeOK, Holders, queues
  <2>2. Waiting' = Waiting
    BY <1>16
    DEF WaitReturn, Goto, TypeOK, QueuesConsistent, SequenceInv, Waiting, queues, cvvars,
       locals
  <2> QED BY <2>1, <2>2 DEF Owner
<1>17. ASSUME NEW t \in Thread, LockCas(t) \/ TryLock(t) PROVE Abstract!Acquire(t)
  <2>1. Holders = {} /\ Holders' = {t}
    BY <1>17 DEF LockCas, TryLock, Goto, TypeOK, MutualExclusion, Holders
  <2>2. t \notin Waiting /\ Waiting' = Waiting
    BY Zenon, <1>17
    DEF LockCas, TryLock, Goto, TypeOK, QueuesConsistent, Waiting, queues, cvvars, locals
  <2> QED
    BY Zenon, <2>1, <2>2 DEF Owner, Abstract!Acquire
<1>18. ASSUME NEW t \in Thread, UnlockCas(t) PROVE Abstract!Release(t) \/ Abstract!Wait(t)
  <2>1. /\ pc \in [Thread -> PC] /\ pc[t] = "unlock" /\ in_wait \subseteq Thread
        /\ UNCHANGED <<sequence, cvq, in_wait, cur_sequence>>
    BY Zenon, <1>18 DEF UnlockCas, TypeOK, queues, cvvars, locals
  <2>2. PICK l \in {"wake", "cvfutex", "out"} :
           pc' = [pc EXCEPT ![t] = l] /\ (t \in in_wait => l # "out")
    BY Zenon, <1>18 DEF UnlockCas, Goto, AfterUnlock
  <2>3. pc'[t] = l /\ \A u \in Thread \ {t} : pc'[u] = pc[u]
    BY Zenon, <2>1, <2>2
  <2>4. Holders = {t}
    BY Zenon, <2>1 DEF MutualExclusion, Holders
  <2>5. Holders' = {}
    <3>1. ASSUME NEW u \in Holders' PROVE FALSE
      <4>1. u # t
        BY Zenon, <2>2, <2>3, <3>1 DEF Holders
      <4> QED BY Zenon, <2>3, <2>4, <3>1, <4>1 DEF Holders
    <3> QED BY Zenon, <3>1
  <2>6. CASE t \in in_wait
    <3>1. t \notin Waiting
      BY Zenon, <2>1 DEF QueuesConsistent, Waiting
    <3>2. cur_sequence[t] = sequence
      BY Zenon, <2>1, <2>6 DEF SequenceInv
    <3>3. t \in Waiting'
      BY Zenon, <2>1, <2>2, <2>3, <2>6, <3>2 DEF Waiting
    <3>4. \A u \in in_wait \ {t} : u \in Waiting' <=> u \in Waiting
      BY Zenon, <2>1, <2>3 DEF Waiting
    <3>5. Waiting' = Waiting \cup {t}
      BY Zenon, <2>1, <3>3, <3>4 DEF Waiting
    <3> QED BY Zenon, <2>4, <2>5, <3>1, <3>5, OwnerIsHolder DEF Owner, Abstract!Wait
  <2>7. CASE t \notin in_wait
    <3>1. \A u \in in_wait : u \in Waiting' <=> u \in Waiting
      BY Zenon, <2>1, <2>3, <2>7 DEF Waiting
    <3>2. Waiting' = Waiting
      BY Zenon, <2>1, <3>1 DEF Waiting
    <3> QED BY <2>4, <2>5, <3>2 DEF Owner, Abstract!Release
  <2> QED BY Zenon, <2>6, <2>7
<1>19. ASSUME NEW t \in Thread, CvFutexInterrupted(t)
      PROVE Abstract!SpuriousWakeup(t) \/ Stutter
  <2>1. /\ pc \in [Thread -> PC] /\ pc[t] = "cvsleep" /\ in_wait \subseteq Thread
        /\ pc' = [pc EXCEPT ![t] = "lock"] /\ cvq' = cvq \ {t}
        /\ UNCHANGED <<sequence, in_wait, cur_sequence>>
    BY Zenon, <1>19 DEF CvFutexInterrupted, Goto, TypeOK, cvvars, locals
  <2>2. pc'[t] = "lock" /\ \A u \in Thread \ {t} : pc'[u] = pc[u]
    BY Zenon, <2>1
  <2>3. Holders' = Holders
    BY Zenon, <2>1, <2>2 DEF Holders
  <2>4. t \notin Waiting'
    BY Zenon, <2>1, <2>2 DEF Waiting
  <2>5. \A u \in in_wait \ {t} : u \in Waiting' <=> u \in Waiting
    BY Zenon, <2>1, <2>2 DEF Waiting
  <2>6. Waiting' = Waiting \ {t}
    BY Zenon, <2>1, <2>4, <2>5 DEF Waiting
  <2> QED
    BY <2>3, <2>6 DEF Owner, Abstract!SpuriousWakeup
<1>20. ASSUME NEW t \in Thread, NEW S \in SUBSET cvq, S = {} => cvq = {}, RequeueWaiters(t, S)
      PROVE Abstract!Signal(t) \/ Stutter
  <2>1. Holders = {t} /\ Holders' = Holders
    BY Zenon, <1>20 DEF RequeueWaiters, TypeOK, MutualExclusion, Holders
  <2>2. /\ pc[t] = "cs" /\ sequence' = sequence + 1 /\ UNCHANGED <<pc, in_wait, cur_sequence>>
        /\ cvq' = cvq \ S \/ cvq' = {}
    BY Zenon, <1>20 DEF RequeueWaiters, Requeue, locals
  <2>3. \A u \in in_wait : cur_sequence[u] # sequence'
    BY <2>2 DEF SequenceInv, TypeOK
  <2>4. Waiting' \subseteq Waiting /\ Waiting' \subseteq cvq'
    BY Zenon, <2>2, <2>3 DEF Waiting
  <2>5. Waiting # {} => Waiting' # Waiting
    <3>1. CASE cvq = {}
      BY Zenon, <2>2, <2>4, <3>1
    <3>2. CASE cvq # {}
      <4>1. PICK u \in cvq : u \notin cvq'
        BY Zenon, <1>20, <2>2, <3>2
      <4>2. u \in Waiting
        BY Zenon, <4>1 DEF Waiting, QueuesConsistent, TypeOK
      <4> QED BY Zenon, <2>4, <4>1, <4>2
    <3> QED BY <3>1, <3>2
  <2>6. Owner = t /\ Owner' = Owner
    BY <2>1, OwnerIsHolder DEF Owner
  <2>7. CASE Waiting = {}
    BY <2>4, <2>6, <2>7
  <2>8. CASE Waiting # {}
    BY Zenon, <2>4, <2>5, <2>6, <2>8 DEF Abstract!Signal
  <2> QED
    BY Zenon, <2>7, <2>8
<1>21. CASE WakeupToRespondToEmptyCheckpoint
  <2>1. UNCHANGED <<pc, in_wait, cur_sequence, sequence, cvq>>
    BY Zenon, <1>21 DEF WakeupToRespondToEmptyCheckpoint, cvvars, locals
  <2>2. Holders' = Holders /\ Waiting' = Waiting
    BY Zenon, <2>1 DEF Holders, Waiting
  <2> QED BY <2>2 DEF Owner
<1>22. CASE UNCHANGED vars
  <2>1. UNCHANGED <<pc, in_wait, cur_sequence, sequence, cvq>>
    BY Zenon, <1>22 DEF vars, queues, cvvars, locals
  <2>2. Holders' = Holders /\ Waiting' = Waiting
    BY Zenon, <2>1 DEF Holders, Waiting
  <2> QED BY <2>2 DEF Owner
<1>23. ASSUME NEW t \in Thread,
              Abstract!Acquire(t) \/ Abstract!Release(t) \/ Abstract!Wait(t) \/ Abstract!Signal(t)
                \/ Abstract!SpuriousWakeup(t)
       PROVE Abstract!Next
  BY <1>23 DEF Abstract!Next
<1> QED
  BY ZenonT(30), <1>1, <1>2, <1>3, <1>4, <1>5, <1>6, <1>7, <1>8, <1>9, <1>10, <1>11, <1>12, <1>13,
     <1>14, <1>15, <1>16, <1>17, <1>18, <1>19, <1>20, <1>21, <1>22, <1>23
  DEF Next, LockStep, UnlockStep, WaitStep, Call, ExclusiveLock, Interrupt, Signal,
    Broadcast

\* The Mutex and ConditionVariable implement the abstract lock with a condition
\* variable: Signal and Broadcast always reach a thread that is waiting.
THEOREM MutexImplementsLock == Spec => ImplementsLock
<1>1. Init => Abstract!Init
  BY DEF Init, Abstract!Init, Owner, Holders, Waiting
<1>2. Init => SequenceInv
  BY DEF Init, SequenceInv
<1>3. IInv /\ SequenceInv /\ [Next]_vars => SequenceInv'
  BY SequenceStep DEF IInv
<1>4. IInv /\ SequenceInv /\ IInv' /\ [Next]_vars => [Abstract!Next]_<<Owner, Waiting>>
  BY StepRefines
<1> QED
  BY <1>1, <1>2, <1>3, <1>4, Inductive, PTL DEF Spec, ImplementsLock, Abstract!Spec, Abstract!vars


\* Signal and Broadcast, as a property of the steps.
THEOREM SignalReachesWaiter == Spec => SignalReaches
<1> DEFINE Reaches ==
       \A t \in Thread : /\ Signal(t) /\ Waiting # {} => Waiting' # Waiting
                         /\ Broadcast(t) => Waiting' = {}
<1>1. ASSUME IInv, SequenceInv PROVE Reaches
  <2>1. SUFFICES ASSUME NEW t \in Thread, NEW S \in SUBSET cvq, RequeueWaiters(t, S)
                 PROVE /\ (S = {} => cvq = {}) /\ Waiting # {} => Waiting' # Waiting
                       /\ S = cvq => Waiting' = {}
    BY ZenonT(30) DEF Signal, Broadcast
  <2>2. ASSUME S = {} => cvq = {}, Waiting # {} PROVE Waiting' # Waiting
    BY <1>1, <2>1, <2>2 DEF IInv, RequeueWaiters, Requeue, TypeOK, QueuesConsistent, SequenceInv,
       Waiting, locals
  <2>3. ASSUME S = cvq PROVE Waiting' = {}
    BY <1>1, <2>1, <2>3 DEF IInv, RequeueWaiters, Requeue, TypeOK, QueuesConsistent, SequenceInv,
       Waiting, locals
  <2> QED
    BY <2>2, <2>3
<1>2. IInv /\ SequenceInv => [Reaches]_vars
  BY <1>1
<1>3. Init => SequenceInv
  BY DEF Init, SequenceInv
<1>4. IInv /\ SequenceInv /\ [Next]_vars => SequenceInv'
  BY SequenceStep DEF IInv
<1> QED
  BY <1>2, <1>3, <1>4, Inductive, PTL DEF Spec, SignalReaches

------------------------------------------------------------------------------
(* ReaderWriterMutex *)

\* The threads num_contenders_ counts.
Contending == {t \in Thread : at[t] \in {"futex", "sleep", "uncontend", "timedout"}}

\* state_ tells who holds the lock: -1 one writer and no reader, otherwise no writer and as
\* many readers.
StateExact ==
    IF state = -1 THEN R!Readers = {} /\ \E t \in Thread : R!Writers = {t}
                  ELSE R!Writers = {} /\ state = Cardinality(R!Readers)

RWContendersExact == num_contenders = Cardinality(Contending)

\* A thread on the queue of the futex sleeps, and a thread that is about to sleep does so on
\* a state that does not admit it.
Sleepers ==
    /\ \A t \in futexq : at[t] = "sleep"
    /\ \A t \in Thread : at[t] \in {"contend", "futex"} => ~R!Admits(mode[t], seen_state[t])

RWInv == R!TypeOK /\ StateExact /\ RWContendersExact /\ Sleepers /\ R!NoSleeperForgotten

LEMMA RWSetsFinite ==
    /\ IsFiniteSet(R!Readers) /\ Cardinality(R!Readers) \in Nat
    /\ IsFiniteSet(Contending) /\ Cardinality(Contending) \in Nat
<1>1. IsFiniteSet(R!Readers)
  BY ThreadAssumption, FS_Subset DEF R!Readers
<1>2. IsFiniteSet(Contending)
  BY Zenon, ThreadAssumption, FS_Subset DEF Contending
<1> QED BY ZenonT(20), <1>1, <1>2, FS_CardinalityType

\* A step of one thread to l changes the sets of readers, writers and contenders by that
\* thread at most.
LEMMA RWMove ==
    ASSUME R!TypeOK, NEW t \in Thread, NEW l, R!Goto(t, l)
    PROVE  /\ R!Readers' = IF l = "shared" THEN R!Readers \cup {t} ELSE R!Readers \ {t}
           /\ R!Writers' = IF l \in {"own", "exclusive", "unlock"}
                           THEN R!Writers \cup {t} ELSE R!Writers \ {t}
           /\ Contending' = IF l \in {"futex", "sleep", "uncontend", "timedout"}
                            THEN Contending \cup {t} ELSE Contending \ {t}
<1>1. \A u \in Thread : at'[u] = IF u = t THEN l ELSE at[u]
  BY Zenon DEF R!TypeOK, R!Goto
<1>2. R!Readers' = IF l = "shared" THEN R!Readers \cup {t} ELSE R!Readers \ {t}
  BY Zenon, <1>1 DEF R!Readers
<1>3. R!Writers' = IF l \in {"own", "exclusive", "unlock"}
                   THEN R!Writers \cup {t} ELSE R!Writers \ {t}
  BY Zenon, <1>1 DEF R!Writers
<1>4. Contending' = IF l \in {"futex", "sleep", "uncontend", "timedout"}
                    THEN Contending \cup {t} ELSE Contending \ {t}
  BY <1>1 DEF Contending
<1> QED BY <1>2, <1>3, <1>4

LEMMA RWTypeStep == R!TypeOK /\ R!Next => R!TypeOK'
<1> SUFFICES ASSUME R!TypeOK, R!Next PROVE R!TypeOK'
  OBVIOUS
<1> USE DEF R!TypeOK, R!Goto, R!PC, R!Mode, R!lockvars
<1>1. ASSUME NEW t \in Thread, R!Call(t) \/ R!SharedTryLock(t) PROVE R!TypeOK'
  BY <1>1 DEF R!Call, R!SharedTryLock
<1>2. ASSUME NEW t \in Thread, R!ExclusiveCas(t) \/ R!SetOwner(t) \/ R!SharedCas(t) PROVE R!TypeOK'
  BY <1>2 DEF R!ExclusiveCas, R!SetOwner, R!SharedCas
<1>3. ASSUME NEW t \in Thread, R!SpinFailed(t) \/ R!IncrementContenders(t) \/ R!FutexWait(t)
      PROVE  R!TypeOK'
  BY <1>3 DEF R!SpinFailed, R!IncrementContenders, R!FutexWait
<1>4. ASSUME NEW t \in Thread, R!DecrementContenders(t) PROVE R!TypeOK'
  BY <1>4 DEF R!DecrementContenders
<1>5. ASSUME NEW t \in Thread, R!UnlockCas(t) \/ R!CheckContenders(t) \/ R!WakeAll(t) PROVE R!TypeOK'
  BY <1>5 DEF R!UnlockCas, R!CheckContenders, R!WakeAll
<1>6. ASSUME NEW t \in Thread, R!FutexReturn(t) \/ R!TimedOutBeforeWait(t) \/ R!FutexTimesOut(t)
      PROVE  R!TypeOK'
  BY Zenon, <1>6 DEF R!FutexReturn, R!TimedOutBeforeWait, R!FutexTimesOut
<1>7. ASSUME NEW t \in Thread, R!ExclusiveUnlock(t) \/ R!SharedUnlock(t) PROVE R!TypeOK'
  BY <1>7 DEF R!ExclusiveUnlock, R!SharedUnlock
<1>8. ASSUME R!WakeupToRespondToEmptyCheckpoint PROVE R!TypeOK'
  BY <1>8 DEF R!WakeupToRespondToEmptyCheckpoint
<1> QED BY ZenonT(30), <1>1, <1>2, <1>3, <1>4, <1>5, <1>6, <1>7, <1>8 DEF R!Next, R!Step

\* What a step does to state_ and to those who hold the lock.
RWSame == state' = state /\ R!Readers' = R!Readers /\ R!Writers' = R!Writers

RWTakes(t) ==
    \/ /\ state >= 0 /\ state' = state + 1
       /\ t \notin R!Readers /\ R!Readers' = R!Readers \cup {t} /\ R!Writers' = R!Writers
    \/ /\ state = 0 /\ state' = -1
       /\ R!Readers' = R!Readers /\ R!Writers' = R!Writers \cup {t}

RWGives(t) ==
    \/ /\ state > 0 /\ state' = state - 1
       /\ t \in R!Readers /\ R!Readers' = R!Readers \ {t} /\ R!Writers' = R!Writers
    \/ /\ state = -1 /\ state' = 0
       /\ t \in R!Writers /\ R!Readers' = R!Readers /\ R!Writers' = R!Writers \ {t}

LEMMA RWEffect ==
    ASSUME R!TypeOK, R!Next
    PROVE  RWSame \/ \E t \in Thread : RWTakes(t) \/ RWGives(t)
<1>1. ASSUME NEW t \in Thread, R!SharedCas(t) \/ R!SharedTryLock(t) PROVE RWTakes(t)
  <2>1. R!Goto(t, "shared") /\ t \notin R!Readers /\ t \notin R!Writers
    BY Zenon, <1>1 DEF R!SharedCas, R!SharedTryLock, R!Readers, R!Writers
  <2>2. R!Readers' = R!Readers \cup {t} /\ R!Writers' = R!Writers
    BY <2>1, RWMove
  <2> QED BY Zenon, <1>1, <2>1, <2>2 DEF R!SharedCas, R!SharedTryLock, RWTakes
<1>2. ASSUME NEW t \in Thread, R!ExclusiveCas(t) PROVE RWTakes(t)
  <2>1. R!Goto(t, "own") /\ t \notin R!Readers
    BY <1>2 DEF R!ExclusiveCas, R!Readers
  <2> QED BY <1>2, <2>1, RWMove DEF R!ExclusiveCas, RWTakes
<1>3. ASSUME NEW t \in Thread, R!SharedUnlock(t) PROVE RWGives(t)
  <2>1. R!Goto(t, IF state = 1 THEN "check" ELSE "out") /\ t \in R!Readers /\ t \notin R!Writers
    BY <1>3 DEF R!SharedUnlock, R!Readers, R!Writers
  <2> QED BY <1>3, <2>1, RWMove DEF R!SharedUnlock, RWGives
<1>4. ASSUME NEW t \in Thread, R!UnlockCas(t) PROVE RWGives(t)
  <2>1. R!Goto(t, "check") /\ t \in R!Writers /\ t \notin R!Readers
    BY <1>4 DEF R!UnlockCas, R!Readers, R!Writers
  <2> QED BY <1>4, <2>1, RWMove DEF R!UnlockCas, RWGives
<1>5. ASSUME NEW t \in Thread, R!SetOwner(t) \/ R!ExclusiveUnlock(t) PROVE RWSame
  <2>1. PICK l \in {"exclusive", "unlock"} : R!Goto(t, l)
    BY <1>5 DEF R!SetOwner, R!ExclusiveUnlock
  <2>2. t \in R!Writers /\ t \notin R!Readers
    BY <1>5 DEF R!SetOwner, R!ExclusiveUnlock, R!Readers, R!Writers
  <2> QED BY <1>5, <2>1, <2>2, RWMove DEF R!SetOwner, R!ExclusiveUnlock, RWSame
<1>6. ASSUME NEW t \in Thread,
             \/ R!Call(t) \/ R!SpinFailed(t) \/ R!TimedOutBeforeWait(t) \/ R!IncrementContenders(t)
             \/ R!FutexWait(t) \/ R!FutexReturn(t) \/ R!FutexTimesOut(t) \/ R!DecrementContenders(t)
             \/ R!CheckContenders(t) \/ R!WakeAll(t)
      PROVE  RWSame
  <2>1. PICK l \in {"lock", "contend", "out", "futex", "sleep", "uncontend", "timedout", "wake"} :
            R!Goto(t, l)
    BY Zenon, <1>6 DEF R!Call, R!SpinFailed, R!TimedOutBeforeWait, R!IncrementContenders, R!FutexWait,
                R!FutexReturn, R!FutexTimesOut, R!DecrementContenders, R!CheckContenders, R!WakeAll
  <2>2. t \notin R!Writers /\ t \notin R!Readers
    BY Zenon, <1>6 DEF R!Call, R!SpinFailed, R!TimedOutBeforeWait, R!IncrementContenders, R!FutexWait,
                R!FutexReturn, R!FutexTimesOut, R!DecrementContenders, R!CheckContenders, R!WakeAll,
                R!Readers, R!Writers
  <2>3. state' = state
    BY <1>6 DEF R!Call, R!SpinFailed, R!TimedOutBeforeWait, R!IncrementContenders, R!FutexWait,
                R!FutexReturn, R!FutexTimesOut, R!DecrementContenders, R!CheckContenders, R!WakeAll,
                R!lockvars
  <2> QED BY <2>1, <2>2, <2>3, RWMove DEF RWSame
<1>7. ASSUME R!WakeupToRespondToEmptyCheckpoint PROVE RWSame
  BY <1>7 DEF R!WakeupToRespondToEmptyCheckpoint, R!lockvars, RWSame, R!Readers, R!Writers
<1> QED BY ZenonT(30), <1>1, <1>2, <1>3, <1>4, <1>5, <1>6, <1>7 DEF R!Next, R!Step

LEMMA StateExactStep ==
    ASSUME R!TypeOK, StateExact, R!Next
    PROVE  StateExact'
<1>1. CASE RWSame
  BY <1>1 DEF RWSame, StateExact
<1>2. ASSUME NEW t \in Thread, RWTakes(t) PROVE StateExact'
  <2>1. CASE /\ state >= 0 /\ state' = state + 1
             /\ t \notin R!Readers /\ R!Readers' = R!Readers \cup {t} /\ R!Writers' = R!Writers
    <3>1. Cardinality(R!Readers') = Cardinality(R!Readers) + 1
      BY ZenonT(20), <2>1, RWSetsFinite, FS_AddElement
    <3> QED BY <2>1, <3>1, RWSetsFinite DEF StateExact
  <2>2. CASE /\ state = 0 /\ state' = -1
             /\ R!Readers' = R!Readers /\ R!Writers' = R!Writers \cup {t}
    <3>1. R!Readers = {}
      BY <2>2, RWSetsFinite, FS_EmptySet DEF StateExact
    <3> QED BY <2>2, <3>1 DEF StateExact
  <2> QED BY Zenon, <1>2, <2>1, <2>2 DEF RWTakes
<1>3. ASSUME NEW t \in Thread, RWGives(t) PROVE StateExact'
  <2>1. CASE /\ state > 0 /\ state' = state - 1
             /\ t \in R!Readers /\ R!Readers' = R!Readers \ {t} /\ R!Writers' = R!Writers
    <3>1. Cardinality(R!Readers') = Cardinality(R!Readers) - 1
      BY ZenonT(20), <2>1, RWSetsFinite, FS_RemoveElement
    <3> QED BY <2>1, <3>1, RWSetsFinite DEF StateExact
  <2>2. CASE /\ state = -1 /\ state' = 0
             /\ t \in R!Writers /\ R!Readers' = R!Readers /\ R!Writers' = R!Writers \ {t}
    <3>1. R!Readers' = {} /\ R!Writers' = {}
      BY <2>2 DEF StateExact
    <3>2. Cardinality(R!Readers') = 0
      BY <3>1, FS_EmptySet
    <3> QED BY <2>2, <3>1, <3>2 DEF StateExact
  <2> QED BY <1>3, <2>1, <2>2 DEF RWGives
<1> QED BY <1>1, <1>2, <1>3, RWEffect

LEMMA RWContendersStep ==
    ASSUME R!TypeOK, RWContendersExact, R!Next
    PROVE  RWContendersExact'
<1>1. ASSUME NEW t \in Thread, R!IncrementContenders(t) PROVE RWContendersExact'
  <2>1. R!Goto(t, "futex") /\ t \notin Contending /\ num_contenders' = num_contenders + 1
    BY Zenon, <1>1 DEF R!IncrementContenders, Contending
  <2>2. Contending' = Contending \cup {t}
    BY <2>1, RWMove
  <2>3. Cardinality(Contending') = Cardinality(Contending) + 1
    BY ZenonT(20), <2>1, <2>2, RWSetsFinite, FS_AddElement
  <2> QED BY <2>1, <2>3 DEF RWContendersExact
<1>2. ASSUME NEW t \in Thread, R!DecrementContenders(t) PROVE RWContendersExact'
  <2>1. R!Goto(t, IF at[t] = "uncontend" THEN "lock" ELSE "out") /\ t \in Contending
        /\ num_contenders' = num_contenders - 1
    BY <1>2 DEF R!DecrementContenders, Contending
  <2>2. Contending' = Contending \ {t}
    BY <2>1, RWMove
  <2>3. Cardinality(Contending') = Cardinality(Contending) - 1
    BY ZenonT(20), <2>1, <2>2, RWSetsFinite, FS_RemoveElement
  <2> QED BY Zenon, <2>1, <2>3 DEF RWContendersExact
<1>3. ASSUME NEW t \in Thread, R!FutexWait(t) \/ R!FutexReturn(t) \/ R!FutexTimesOut(t)
      PROVE  RWContendersExact'
  <2>1. PICK l \in {"sleep", "uncontend", "timedout"} : R!Goto(t, l)
    BY Zenon, <1>3 DEF R!FutexWait, R!FutexReturn, R!FutexTimesOut
  <2>2. t \in Contending /\ num_contenders' = num_contenders
    BY <1>3 DEF R!FutexWait, R!FutexReturn, R!FutexTimesOut, R!lockvars, Contending
  <2>3. Contending' = Contending
    BY <2>1, <2>2, RWMove
  <2> QED BY Zenon, <2>2, <2>3 DEF RWContendersExact
<1>4. ASSUME NEW t \in Thread,
             \/ R!Call(t) \/ R!SharedTryLock(t) \/ R!ExclusiveCas(t) \/ R!SetOwner(t)
             \/ R!SharedCas(t) \/ R!SpinFailed(t) \/ R!TimedOutBeforeWait(t)
             \/ R!ExclusiveUnlock(t) \/ R!UnlockCas(t) \/ R!SharedUnlock(t)
             \/ R!CheckContenders(t) \/ R!WakeAll(t)
      PROVE  RWContendersExact'
  <2>1. PICK l \in {"lock", "shared", "own", "exclusive", "contend", "out", "unlock", "check",
                    "wake"} : R!Goto(t, l)
    BY Zenon, <1>4 DEF R!Call, R!SharedTryLock, R!ExclusiveCas, R!SetOwner, R!SharedCas, R!SpinFailed,
                R!TimedOutBeforeWait, R!ExclusiveUnlock, R!UnlockCas, R!SharedUnlock,
                R!CheckContenders, R!WakeAll
  <2>2. t \notin Contending /\ num_contenders' = num_contenders
    BY Zenon, <1>4 DEF R!Call, R!SharedTryLock, R!ExclusiveCas, R!SetOwner, R!SharedCas, R!SpinFailed,
                R!TimedOutBeforeWait, R!ExclusiveUnlock, R!UnlockCas, R!SharedUnlock,
                R!CheckContenders, R!WakeAll, R!lockvars, Contending
  <2>3. Contending' = Contending
    BY <2>1, <2>2, RWMove
  <2> QED BY Zenon, <2>2, <2>3 DEF RWContendersExact
<1>5. ASSUME R!WakeupToRespondToEmptyCheckpoint PROVE RWContendersExact'
  BY <1>5 DEF R!WakeupToRespondToEmptyCheckpoint, R!lockvars, RWContendersExact, Contending
<1> QED BY ZenonT(30), <1>1, <1>2, <1>3, <1>4, <1>5 DEF R!Next, R!Step

\* A sleeper is counted, so whoever gives the lock up while it sleeps finds it.
LEMMA RWSleepersCounted ==
    ASSUME R!TypeOK, RWContendersExact, Sleepers, NEW t \in futexq
    PROVE  num_contenders > 0
<1>1. t \in Contending
  BY DEF Sleepers, Contending, R!TypeOK
<1>2. Cardinality(Contending) # 0
  BY <1>1, RWSetsFinite, FS_EmptySet
<1> QED BY <1>2, RWSetsFinite DEF RWContendersExact

LEMMA SleepersStep ==
    ASSUME R!TypeOK, Sleepers, R!Next
    PROVE  Sleepers'
<1> USE DEF R!TypeOK, R!Goto
<1>1. ASSUME NEW t \in Thread, R!Call(t) \/ R!SharedTryLock(t) PROVE Sleepers'
  BY <1>1 DEF R!Call, R!SharedTryLock, Sleepers
<1>2. ASSUME NEW t \in Thread, R!SpinFailed(t) PROVE Sleepers'
  BY <1>2 DEF R!SpinFailed, Sleepers
<1>3. ASSUME NEW t \in Thread, R!DecrementContenders(t) PROVE Sleepers'
  BY Zenon, <1>3 DEF R!DecrementContenders, Sleepers
<1>4. ASSUME NEW t \in Thread, R!IncrementContenders(t) \/ R!FutexWait(t) PROVE Sleepers'
  BY Zenon, <1>4 DEF R!IncrementContenders, R!FutexWait, Sleepers
<1>5. ASSUME NEW t \in Thread, R!FutexReturn(t) \/ R!FutexTimesOut(t) \/ R!WakeAll(t) PROVE Sleepers'
  BY Zenon, <1>5 DEF R!FutexReturn, R!FutexTimesOut, R!WakeAll, Sleepers
<1>6. ASSUME NEW t \in Thread,
             \/ R!ExclusiveCas(t) \/ R!SetOwner(t) \/ R!SharedCas(t) \/ R!TimedOutBeforeWait(t)
             \/ R!ExclusiveUnlock(t) \/ R!UnlockCas(t) \/ R!SharedUnlock(t) \/ R!CheckContenders(t)
      PROVE  Sleepers'
  BY Zenon, <1>6 DEF R!ExclusiveCas, R!SetOwner, R!SharedCas, R!TimedOutBeforeWait, R!ExclusiveUnlock,
              R!UnlockCas, R!SharedUnlock, R!CheckContenders, Sleepers
<1>7. ASSUME R!WakeupToRespondToEmptyCheckpoint PROVE Sleepers'
  BY <1>7 DEF R!WakeupToRespondToEmptyCheckpoint, Sleepers
<1> QED BY ZenonT(30), <1>1, <1>2, <1>3, <1>4, <1>5, <1>6, <1>7 DEF R!Next, R!Step

LEMMA SleeperStep ==
    ASSUME R!TypeOK, RWContendersExact, Sleepers, R!NoSleeperForgotten, R!Next,
           R!TypeOK', RWContendersExact', Sleepers'
    PROVE  R!NoSleeperForgotten'
<1> USE DEF R!Goto, R!lockvars
<1>0. ASSUME NEW u \in futexq' PROVE num_contenders' > 0
  <2>1. u \in Contending'
    BY <1>0 DEF Sleepers, Contending, R!TypeOK
  <2>2. Cardinality(Contending') # 0
    <3>1. IsFiniteSet(Contending')
      BY ThreadAssumption, FS_Subset DEF Contending
    <3> QED BY <2>1, <3>1, FS_EmptySet
  <2>3. Cardinality(Contending') \in Nat
    <3>1. IsFiniteSet(Contending')
      BY ThreadAssumption, FS_Subset DEF Contending
    <3> QED BY Zenon, <3>1, FS_CardinalityType
  <2> QED BY <2>2, <2>3 DEF RWContendersExact
<1>1. ASSUME NEW t \in Thread,
             \/ R!Call(t) \/ R!SpinFailed(t) \/ R!TimedOutBeforeWait(t) \/ R!IncrementContenders(t)
             \/ R!SetOwner(t) \/ R!ExclusiveUnlock(t)
      PROVE  R!NoSleeperForgotten'
  <2>1. futexq' = futexq /\ state' = state
    BY Zenon, <1>1 DEF R!Call, R!SpinFailed, R!TimedOutBeforeWait, R!IncrementContenders, R!SetOwner,
                R!ExclusiveUnlock
  <2>2. \A u \in futexq : mode'[u] = mode[u]
    BY Zenon, <1>1 DEF R!Call, R!SpinFailed, R!TimedOutBeforeWait, R!IncrementContenders, R!SetOwner,
                R!ExclusiveUnlock, R!TypeOK, Sleepers
  <2>3. \A v \in Thread : at[v] \in {"wake", "check"} => at'[v] = at[v]
    BY Zenon, <1>1 DEF R!Call, R!SpinFailed, R!TimedOutBeforeWait, R!IncrementContenders, R!SetOwner,
                R!ExclusiveUnlock, R!TypeOK
  <2> QED BY Zenon, <1>0, <2>1, <2>2, <2>3 DEF R!NoSleeperForgotten
<1>2. ASSUME NEW t \in Thread, R!FutexReturn(t) \/ R!FutexTimesOut(t) PROVE R!NoSleeperForgotten'
  BY Zenon, <1>2 DEF R!FutexReturn, R!FutexTimesOut, R!TypeOK, R!NoSleeperForgotten
<1>3. ASSUME NEW t \in Thread, R!FutexWait(t) PROVE R!NoSleeperForgotten'
  BY Zenon, <1>3 DEF R!FutexWait, R!TypeOK, Sleepers, R!NoSleeperForgotten
<1>4. ASSUME NEW t \in Thread, R!DecrementContenders(t) PROVE R!NoSleeperForgotten'
  <2>1. \A v \in Thread : at[v] \in {"wake", "check"} => at'[v] = at[v]
    BY Zenon, <1>4 DEF R!DecrementContenders, R!TypeOK
  <2> QED BY Zenon, <1>0, <1>4, <2>1 DEF R!DecrementContenders, R!NoSleeperForgotten
<1>5. ASSUME NEW t \in Thread, R!ExclusiveCas(t) PROVE R!NoSleeperForgotten'
  BY <1>5 DEF R!ExclusiveCas, R!NoSleeperForgotten, R!Admits
<1>6. ASSUME NEW t \in Thread, R!SharedCas(t) \/ R!SharedTryLock(t) PROVE R!NoSleeperForgotten'
  <2>1. \A v \in Thread : at[v] \in {"wake", "check"} => at'[v] = at[v]
    BY Zenon, <1>6 DEF R!SharedCas, R!SharedTryLock, R!TypeOK
  <2>2. \A u \in futexq : mode'[u] = mode[u]
    BY <1>6 DEF R!SharedCas, R!SharedTryLock, R!TypeOK, Sleepers
  <2>3. futexq' = futexq /\ state >= 0 /\ state' = state + 1
    BY Zenon, <1>6 DEF R!SharedCas, R!SharedTryLock
  <2> QED BY <1>0, <2>1, <2>2, <2>3 DEF R!NoSleeperForgotten, R!Admits, R!TypeOK
<1>7. ASSUME NEW t \in Thread, R!UnlockCas(t) PROVE R!NoSleeperForgotten'
  <2>1. at'[t] = "check"
    BY <1>7 DEF R!UnlockCas, R!TypeOK
  <2> QED BY Zenon, <1>0, <2>1 DEF R!NoSleeperForgotten
<1>8. ASSUME NEW t \in Thread, R!SharedUnlock(t) PROVE R!NoSleeperForgotten'
  <2>1. CASE state = 1
    <3>1. at'[t] = "check"
      BY Zenon, <1>8, <2>1 DEF R!SharedUnlock, R!TypeOK
    <3> QED BY <1>0, <3>1 DEF R!NoSleeperForgotten
  <2>2. CASE state # 1
    <3>1. \A v \in Thread : at[v] \in {"wake", "check"} => at'[v] = at[v]
      BY Zenon, <1>8 DEF R!SharedUnlock, R!TypeOK
    <3>2. futexq' = futexq /\ mode' = mode /\ state > 1 /\ state' = state - 1
      BY <1>8, <2>2 DEF R!SharedUnlock, R!TypeOK
    <3> QED BY <1>0, <3>1, <3>2 DEF R!NoSleeperForgotten, R!Admits, R!TypeOK
  <2> QED BY Zenon, <2>1, <2>2
<1>9. ASSUME NEW t \in Thread, R!CheckContenders(t) PROVE R!NoSleeperForgotten'
  <2>1. ASSUME NEW u \in futexq PROVE at'[t] = "wake"
    BY Zenon, <1>9, <2>1, RWSleepersCounted DEF R!CheckContenders, R!TypeOK
  <2> QED BY Zenon, <1>9, <2>1 DEF R!CheckContenders, R!NoSleeperForgotten
<1>10. ASSUME R!WakeupToRespondToEmptyCheckpoint \/ \E t \in Thread : R!WakeAll(t)
       PROVE  R!NoSleeperForgotten'
  BY <1>10 DEF R!WakeupToRespondToEmptyCheckpoint, R!WakeAll, R!NoSleeperForgotten
<1> QED BY ZenonT(30), <1>1, <1>2, <1>3, <1>4, <1>5, <1>6, <1>7, <1>8, <1>9, <1>10 DEF R!Next, R!Step

LEMMA RWInit == R!Init => RWInv
<1> SUFFICES ASSUME R!Init PROVE RWInv
  OBVIOUS
<1>1. R!TypeOK
  BY DEF R!Init, R!TypeOK, R!PC, R!Mode
<1>2. R!Readers = {} /\ R!Writers = {} /\ Contending = {}
  BY DEF R!Init, R!Readers, R!Writers, Contending
<1>3. Cardinality(R!Readers) = 0 /\ Cardinality(Contending) = 0
  BY <1>2, FS_EmptySet
<1> QED BY <1>1, <1>2, <1>3
        DEF R!Init, RWInv, StateExact, RWContendersExact, Sleepers, R!NoSleeperForgotten

LEMMA RWNext == RWInv /\ [R!Next]_R!vars => RWInv'
<1>1. ASSUME RWInv, R!Next PROVE RWInv'
  <2>1. R!TypeOK' /\ StateExact' /\ RWContendersExact' /\ Sleepers'
    BY Zenon, <1>1, RWTypeStep, StateExactStep, RWContendersStep, SleepersStep DEF RWInv
  <2> QED BY Zenon, <1>1, <2>1, SleeperStep DEF RWInv
<1>2. ASSUME RWInv, UNCHANGED R!vars PROVE RWInv'
  BY <1>2 DEF R!vars, R!lockvars, RWInv, R!TypeOK, StateExact, RWContendersExact, Sleepers,
              R!NoSleeperForgotten, R!Readers, R!Writers, Contending
<1> QED BY Zenon, <1>1, <1>2

LEMMA RWInductive == R!Spec => []RWInv
  BY RWInit, RWNext, PTL DEF R!Spec

\* No contender of a ReaderWriterMutex is left asleep on the futex in a state that admits
\* it with nobody about to wake it: the tests of num_contenders_ in SharedUnlock and
\* ExclusiveUnlock are enough for any number of readers, writers and time-outs.
THEOREM NobodyForgotten == R!Spec => []NoSleeperForgotten
<1>1. RWInv => NoSleeperForgotten
  BY DEF NoSleeperForgotten, RWInv
<1> QED BY <1>1, RWInductive, PTL

LEMMA RWStepRefines ==
    ASSUME R!TypeOK, StateExact, [R!Next]_R!vars
    PROVE  [R!Lock!Next]_(R!Lock!vars)
<1>1. CASE UNCHANGED R!vars
  BY <1>1 DEF R!vars, R!lockvars, R!Lock!vars, R!Readers, R!Writers
<1>2. CASE RWSame
  BY <1>2 DEF RWSame, R!Lock!vars
<1>3. ASSUME NEW t \in Thread, RWTakes(t) PROVE R!Lock!Next
  <2>1. CASE /\ state >= 0 /\ state' = state + 1
             /\ t \notin R!Readers /\ R!Readers' = R!Readers \cup {t} /\ R!Writers' = R!Writers
    <3>1. R!Lock!AcquireShared(t)
      BY <2>1 DEF StateExact, R!Lock!AcquireShared
    <3> QED BY <3>1 DEF R!Lock!Next
  <2>2. CASE /\ state = 0 /\ state' = -1
             /\ R!Readers' = R!Readers /\ R!Writers' = R!Writers \cup {t}
    <3>1. R!Writers = {} /\ R!Readers = {}
      BY <2>2, RWSetsFinite, FS_EmptySet DEF StateExact
    <3>2. R!Lock!AcquireExclusive(t)
      BY <2>2, <3>1 DEF R!Lock!AcquireExclusive
    <3> QED BY <3>2 DEF R!Lock!Next
  <2> QED BY <1>3, <2>1, <2>2 DEF RWTakes
<1>4. ASSUME NEW t \in Thread, RWGives(t) PROVE R!Lock!Next
  <2>1. R!Lock!ReleaseShared(t) \/ R!Lock!ReleaseExclusive(t)
    BY <1>4 DEF RWGives, R!Lock!ReleaseShared, R!Lock!ReleaseExclusive
  <2> QED BY <2>1 DEF R!Lock!Next
<1> QED BY Zenon, <1>1, <1>2, <1>3, <1>4, RWEffect

\* ReaderWriterMutex implements the abstract reader-writer lock for any set of threads: a
\* writer excludes readers and other writers from the compare-and-set that takes the lock
\* to the one that gives it up, by whichever of ExclusiveLock, ExclusiveLockWithTimeout,
\* SharedLock and SharedTryLock it was taken.
THEOREM ReaderWriterRefines == R!Spec => ImplementsReaderWriterLock
<1>1. R!Init => (component = "readerwriter" => R!Lock!Init)
  BY DEF R!Init, R!Lock!Init, R!Readers, R!Writers
<1>2. RWInv /\ [R!Next]_(R!vars)
      => [component = "readerwriter" => [R!Lock!Next]_(R!Lock!vars)]_(R!vars)
  BY RWStepRefines DEF RWInv
<1> QED BY <1>1, <1>2, RWInductive, PTL DEF R!Spec, ImplementsReaderWriterLock

------------------------------------------------------------------------------
(* SuspendBarrier *)

\* The waiter goes to sleep only on a positive value it has read; the barrier does not go up
\* again, so the last Pass is followed by its Wake.
BarrierInv ==
    /\ barrier \in Nat /\ cur_val \in Nat /\ waking \in BOOLEAN
    /\ at = "wait" => cur_val > 0
    /\ waking => barrier = 0
    /\ B!NoSleepPastZero

LEMMA BarrierInit == B!Init => BarrierInv
<1> SUFFICES ASSUME B!Init PROVE BarrierInv
  OBVIOUS
<1>1. Holdouts \in Nat
  BY BarrierAssumption DEF B!BoundAssumption
<1>2. barrier \in Nat /\ cur_val \in Nat /\ waking = FALSE /\ at = "first_load"
  BY <1>1 DEF B!Init
<1> QED BY Zenon, <1>2 DEF BarrierInv, B!NoSleepPastZero

LEMMA BarrierNext == BarrierInv /\ [B!Next]_B!vars => BarrierInv'
<1> SUFFICES ASSUME BarrierInv, [B!Next]_B!vars PROVE BarrierInv'
  OBVIOUS
<1> USE DEF BarrierInv, B!NoSleepPastZero, B!waiter
<1>1. CASE B!Pass
  <2>1. barrier' = barrier - 1 /\ barrier > 0 /\ at' = at /\ cur_val' = cur_val
    BY <1>1 DEF B!Pass
  <2>2. CASE barrier = 1
    <3>1. waking' = TRUE
      BY Zenon, <1>1, <2>2 DEF B!Pass
    <3> QED BY <2>1, <2>2, <3>1
  <2>3. CASE barrier # 1
    <3>1. waking' \in BOOLEAN /\ ~waking'
      BY <1>1, <2>3 DEF B!Pass
    <3>2. barrier' \in Nat /\ barrier' > 0
      BY <2>1, <2>3
    <3> QED BY <2>1, <3>1, <3>2
  <2> QED BY Zenon, <2>2, <2>3
<1>2. CASE B!Wake
  BY Zenon, <1>2 DEF B!Wake
<1>3. CASE B!BeginDump \/ B!EndDump
  BY <1>3 DEF B!BeginDump, B!EndDump
<1>4. CASE B!FirstLoad
  BY <1>4 DEF B!FirstLoad, B!Goto
<1>5. CASE B!FutexWait
  BY Zenon, <1>5 DEF B!FutexWait, B!Goto, B!ValueChanged
<1>6. ASSUME NEW late, B!TimedOut(late) PROVE BarrierInv'
  BY <1>6 DEF B!TimedOut, B!Goto
<1>7. CASE B!Interrupted
  BY <1>7 DEF B!Interrupted, B!Goto
<1>8. CASE B!ReloadFirst \/ B!Reload
  <2>1. /\ cur_val' = barrier /\ barrier' = barrier /\ waking' = waking
        /\ at' \in {"passed", "failed", "wait"} /\ (at' = "wait" => barrier # 0)
    BY Zenon, <1>8 DEF B!ReloadFirst, B!Reload, B!AfterWait, B!Goto
  <2> QED BY <2>1
<1>9. CASE B!NextAttempt
  BY Zenon, <1>9 DEF B!NextAttempt, B!Goto
<1>10. CASE B!Abort
  BY Zenon, <1>10 DEF B!Abort, B!Goto
<1>11. CASE UNCHANGED B!vars
  BY <1>11 DEF B!vars
<1> QED BY ZenonT(30), <1>1, <1>2, <1>3, <1>4, <1>5, <1>6, <1>7, <1>8, <1>9, <1>10, <1>11
        DEF B!Next, B!Done

\* However many threads hold a suspension up, and whenever its waits are interrupted, time
\* out and are extended: WaitForSuspendBarrier does not sleep on a barrier that all have
\* passed unless the last of them is about to wake it.
THEOREM WaiterWoken == B!Spec => []NoSleepPastZero
<1>1. BarrierInv => NoSleepPastZero
  BY DEF NoSleepPastZero, BarrierInv
<1> QED BY <1>1, BarrierInit, BarrierNext, PTL DEF B!Spec

==============================================================================
