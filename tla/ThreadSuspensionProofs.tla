------------------------ MODULE ThreadSuspensionProofs ------------------------
(***************************************************************************)
(* Proofs about ThreadSuspension, for every finite set of threads and any  *)
(* number of requests: the inductive invariant, the steps that preserve    *)
(* the suspend counts, the barriers, the targets of requests, types,       *)
(* control and the absence of cycles, and the theorems.                    *)
(***************************************************************************)
EXTENDS ThreadSuspension, FiniteSetTheorems, TLAPS

\* Where a thread is agrees with the lock it holds, its state, its presence in the list
\* and what it will do next.
ControlInv ==
    /\ \A t \in Thread : lock = t <=> pc[t] \in {"sa_loop", "sa_check", "st_check"}
    /\ \A t \in Thread : state[t] = "kRunnable" <=> pc[t] \in RunnablePC
    /\ \A t \in Thread : t \in list <=> pc[t] \notin {"new", "exited"}
    /\ \A t \in Thread : pc[t] = "resume" => ret[t] \in {"java", "st_lock", "st_hold"}
    /\ \A t \in Thread : pc[t] = "st_leave" => ret[t] \in {"st_wait", "st_hold"}

\* At most one SuspendAll runs at a time, and suspend_all_count_ says whether one does.
SuspendAllInv ==
    /\ \A r, s \in Thread : pc[r] \in SuspendAllPC /\ pc[s] \in SuspendAllPC => r = s
    /\ suspend_all_count = 1 <=> \E r \in Thread : pc[r] \in SuspendAllPC

\* r looks for its target again, after having been suspended.
Retrying(r) ==
    \/ pc[r] = "st_lock"
    \/ pc[r] \in {"pass", "resume"} /\ ret[r] = "st_lock"

\* The target of a request is another thread of the list, and SuspendAll visits only such.
TargetInv ==
    \A r \in Thread :
        /\ Requesting(r) => target[r] \in list \ {r}
        /\ Retrying(r) => target[r] \in Thread \ {r}
        /\ pc[r] \notin {"sa_loop", "sa_check"} => todo[r] = {}
        /\ todo[r] \subseteq list \ {r}
        /\ pc[r] = "sa_check" => target[r] \in list \ {r} /\ target[r] \notin todo[r]

\* kActiveSuspendBarrier is set exactly while a thread has a barrier to pass.
BarrierFlagExact ==
    \A t \in Thread : "kActiveSuspendBarrier" \in flags[t] <=>
        suspendall_barrier[t] # None \/ suspend1_barriers[t] # {}

\* A barrier belongs to a request that its owner is waiting for, and a thread that was
\* asked to suspend and is still Runnable has the barrier of every one who asked.
BarrierInv ==
    \A t, r \in Thread :
        /\ suspendall_barrier[t] = r =>
               /\ pc[r] \in {"sa_loop", "sa_check", "sa_wait"}
               /\ t \in list \ {r} /\ t \notin todo[r]
        /\ r \in suspend1_barriers[t] => Waiting1(r) /\ target[r] = t /\ pending[r] = 1
        /\ Waiting1(r) /\ target[r] = t /\ r \notin suspend1_barriers[t] => pending[r] = 0
        /\ pc[r] = "sa_check" /\ target[r] = t => suspendall_barrier[t] = r
        /\ state[t] = "kRunnable" /\ pc[r] \in SuspendAllPC /\ t \in list \ {r} /\ t \notin todo[r]
               => suspendall_barrier[t] = r
        /\ state[t] = "kRunnable" /\ Requesting(r) /\ target[r] = t => r \in suspend1_barriers[t]

Holdouts(r) == {t \in Thread : suspendall_barrier[t] = r}

\* pending_threads counts the threads that have the barrier and those not yet visited.
PendingExact ==
    \A r \in Thread : pc[r] \in {"sa_loop", "sa_check", "sa_wait"} =>
        pending[r] = Cardinality(Holdouts(r)) + Cardinality(todo[r])

\* One turn of the loop of SuspendThread, the first or a later one.
SuspendThreadCall(r, t) ==
    /\ pc[r] \in {"java", "st_lock"}
    /\ requests' \in {requests, requests + 1}
    /\ SuspendThreadTry(r, t)

------------------------------------------------------------------------------
(* The invariant and what it says *)

\* The inductive invariant.
IInv ==
    /\ TypeOK /\ ControlInv /\ SuspendAllInv /\ TargetInv /\ SuspendCountExact
    /\ BarrierFlagExact /\ BarrierInv /\ PendingExact /\ NoSuspensionCycle

\* A runtime without threads satisfies the invariant.
LEMMA InitIInv == Init => IInv
<1> SUFFICES ASSUME Init PROVE IInv
  OBVIOUS
<1>1. TypeOK
  BY ThreadAssumption DEF Init, TypeOK, PC
<1>2. ControlInv /\ SuspendAllInv /\ TargetInv
  BY ThreadAssumption
  DEF Init, ControlInv, SuspendAllInv, TargetInv, SuspendAllPC, RunnablePC, Requesting, Retrying
<1>3. SuspendCountExact
  <2>1. \A t \in Thread : {r \in Thread : Suspends(r, t)} = {}
    BY DEF Init, Suspends, Requesting, SuspendAllPC
  <2> QED
    BY <2>1, FS_EmptySet DEF Init, SuspendCountExact
<1>4. BarrierFlagExact /\ BarrierInv /\ PendingExact
  BY ThreadAssumption
  DEF Init, BarrierFlagExact, BarrierInv, PendingExact, Waiting1, Requesting, SuspendAllPC
<1>5. NoSuspensionCycle
  BY DEF Init, NoSuspensionCycle, Requesting
<1> QED
  BY <1>1, <1>2, <1>3, <1>4, <1>5 DEF IInv

\* The threads whose requests count towards the suspend count of t.
Suspenders(t) == {r \in Thread : Suspends(r, t)}

\* They are finitely many.
LEMMA SuspendersFinite ==
  ASSUME NEW t \in Thread
  PROVE IsFiniteSet(Suspenders(t)) /\ Cardinality(Suspenders(t)) \in Nat
BY ThreadAssumption, FS_Subset, FS_CardinalityType DEF Suspenders

\* A thread without kSuspendRequest, or with suspend count 0, is suspended by nobody.
LEMMA NotSuspended ==
  ASSUME TypeOK, SuspendCountExact, NEW t \in Thread,
         "kSuspendRequest" \notin flags[t] \/ suspend_count[t] = 0
  PROVE \A r \in Thread : ~Suspends(r, t)
<1>1. suspend_count[t] = Cardinality(Suspenders(t)) /\ ~(suspend_count[t] > 0)
  BY DEF SuspendCountExact, Suspenders
<1>2. Cardinality(Suspenders(t)) = 0
  BY <1>1, SuspendersFinite
<1>3. Suspenders(t) = {}
  BY <1>2, SuspendersFinite, FS_EmptySet
<1> QED
  BY <1>3 DEF Suspenders

\* A thread that somebody suspends has kSuspendRequest set.
LEMMA SuspendedHasFlag ==
  ASSUME TypeOK, SuspendCountExact, NEW t \in Thread, NEW r \in Thread, Suspends(r, t)
  PROVE "kSuspendRequest" \in flags[t] /\ suspend_count[t] > 0
BY ZenonT(30), NotSuspended DEF SuspendCountExact

\* The invariant keeps every thread suspended while SuspendAll is in force.
LEMMA InvExcludes == IInv => SuspendAllExclusive
<1> SUFFICES ASSUME IInv PROVE SuspendAllExclusive
  OBVIOUS
<1>1. ASSUME NEW r \in Thread, pc[r] \in {"sa_mutator", "sa_body"}, NEW t \in Thread
      PROVE state[t] = "kSuspended"
  <2>1. suspendall_barrier[t] # r
    BY Zenon, <1>1 DEF IInv, BarrierInv
  <2>2. todo[r] = {}
    BY <1>1 DEF IInv, TargetInv
  <2>3. t \notin list \/ t = r => state[t] # "kRunnable"
    BY <1>1 DEF IInv, ControlInv, RunnablePC
  <2> QED
    BY SMTT(30), <1>1, <2>1, <2>2, <2>3 DEF IInv, TypeOK, BarrierInv, SuspendAllPC
<1> QED
  BY <1>1 DEF SuspendAllExclusive

\* The invariant keeps the target of a successful SuspendThread suspended.
LEMMA InvTarget == IInv => TargetStaysSuspended
<1> SUFFICES ASSUME IInv PROVE TargetStaysSuspended
  OBVIOUS
<1>1. ASSUME NEW r \in Thread, Requesting(r), ~Waiting1(r)
      PROVE target[r] \in list /\ IsSuspended(target[r])
  <2>1. target[r] \in list /\ target[r] \in Thread
    BY Zenon, <1>1 DEF IInv, TypeOK, TargetInv
  <2>2. "kSuspendRequest" \in flags[target[r]]
    BY Zenon, <1>1, <2>1, SuspendedHasFlag DEF IInv, Suspends
  <2>3. state[target[r]] # "kRunnable"
    BY <1>1, <2>1 DEF IInv, BarrierInv
  <2> QED
    BY <2>1, <2>2, <2>3 DEF IsSuspended
<1> QED
  BY <1>1 DEF TargetStaysSuspended

------------------------------------------------------------------------------
(* Suspend counts *)

\* Counting: a finite set of threads gains or loses one element.
LEMMA CountStep ==
  ASSUME NEW S \in SUBSET Thread, NEW t \in Thread
  PROVE /\ IsFiniteSet(S) /\ Cardinality(S) \in Nat
        /\ t \notin S => Cardinality(S \cup {t}) = Cardinality(S) + 1
        /\ t \in S => Cardinality(S \ {t}) = Cardinality(S) - 1
<1>1. IsFiniteSet(S) /\ Cardinality(S) \in Nat
  BY ThreadAssumption, FS_Subset, FS_CardinalityType
<1> QED
  BY ZenonT(30), <1>1, FS_AddElement, FS_RemoveElement

\* A step that changes no request keeps the counts.
LEMMA CountSame ==
  ASSUME SuspendCountExact, suspend_count' = suspend_count,
         \A t \in Thread : "kSuspendRequest" \in flags'[t] <=> "kSuspendRequest" \in flags[t],
         \A r, t \in Thread : Suspends(r, t)' <=> Suspends(r, t)
  PROVE SuspendCountExact'
<1>1. \A t \in Thread : {r \in Thread : Suspends(r, t)}' = {r \in Thread : Suspends(r, t)}
  OBVIOUS
<1> QED
  BY <1>1 DEF SuspendCountExact

\* A step that adds a request of r on t keeps the count of t exact.
LEMMA CountAdd ==
  ASSUME SuspendCountExact, NEW r \in Thread, NEW t \in Thread,
         ~Suspends(r, t), Suspends(r, t)',
         \A q \in Thread \ {r} : Suspends(q, t)' <=> Suspends(q, t),
         suspend_count'[t] = suspend_count[t] + 1, "kSuspendRequest" \in flags'[t]
  PROVE /\ suspend_count'[t] = Cardinality({q \in Thread : Suspends(q, t)}')
        /\ "kSuspendRequest" \in flags'[t] <=> suspend_count'[t] > 0
<1>1. r \notin Suspenders(t) /\ Suspenders(t)' = Suspenders(t) \cup {r}
  BY DEF Suspenders
<1>2. Cardinality(Suspenders(t)') = Cardinality(Suspenders(t)) + 1
  BY <1>1, CountStep DEF Suspenders
<1>3. suspend_count[t] = Cardinality(Suspenders(t)) /\ Cardinality(Suspenders(t)) \in Nat
  BY ZenonT(30), SuspendersFinite DEF SuspendCountExact, Suspenders
<1> QED
  BY <1>2, <1>3 DEF Suspenders

\* A step that takes back a request of r on t keeps the count of t exact.
LEMMA CountRemove ==
  ASSUME SuspendCountExact, NEW r \in Thread, NEW t \in Thread,
         Suspends(r, t), ~Suspends(r, t)',
         \A q \in Thread \ {r} : Suspends(q, t)' <=> Suspends(q, t),
         suspend_count'[t] = suspend_count[t] - 1,
         "kSuspendRequest" \in flags'[t] <=>
             "kSuspendRequest" \in flags[t] /\ suspend_count[t] # 1
  PROVE /\ suspend_count'[t] = Cardinality({q \in Thread : Suspends(q, t)}')
        /\ "kSuspendRequest" \in flags'[t] <=> suspend_count'[t] > 0
<1>1. r \in Suspenders(t) /\ Suspenders(t)' = Suspenders(t) \ {r}
  BY Zenon DEF Suspenders
<1>2. Cardinality(Suspenders(t)') = Cardinality(Suspenders(t)) - 1
  BY <1>1, CountStep DEF Suspenders
<1>3. suspend_count[t] = Cardinality(Suspenders(t)) /\ Cardinality(Suspenders(t)) \in Nat
  BY ZenonT(30), SuspendersFinite DEF SuspendCountExact, Suspenders
<1> QED
  BY <1>2, <1>3 DEF Suspenders, SuspendCountExact

\* A thread on which a step changes no request keeps its count exact.
LEMMA CountKeep ==
  ASSUME SuspendCountExact, NEW t \in Thread,
         \A q \in Thread : Suspends(q, t)' <=> Suspends(q, t),
         suspend_count'[t] = suspend_count[t],
         "kSuspendRequest" \in flags'[t] <=> "kSuspendRequest" \in flags[t]
  PROVE /\ suspend_count'[t] = Cardinality({q \in Thread : Suspends(q, t)}')
        /\ "kSuspendRequest" \in flags'[t] <=> suspend_count'[t] > 0
<1>1. {q \in Thread : Suspends(q, t)}' = {q \in Thread : Suspends(q, t)}
  BY Zenon
<1> QED
  BY Zenon, <1>1 DEF SuspendCountExact

\* Every step keeps the suspend counts exact.
LEMMA SuspendCountStep ==
  ASSUME TypeOK, ControlInv, SuspendAllInv, TargetInv, SuspendCountExact, [Next]_vars
  PROVE SuspendCountExact'
<1>1. ASSUME NEW t \in Thread, EnterNative(t) PROVE SuspendCountExact'
  BY SMTT(30), CountSame, <1>1
  DEF EnterNative, Goto, ToSuspended, TypeOK, ControlInv, TargetInv, Suspends, Requesting,
     SuspendAllPC, RunnablePC, global, thread, local
<1>2. ASSUME NEW t \in Thread, CheckSuspend(t) PROVE SuspendCountExact'
  BY SMTT(30), CountSame, <1>2
  DEF CheckSuspend, Goto, ToSuspended, TypeOK, ControlInv, TargetInv, Suspends, Requesting,
     SuspendAllPC, RunnablePC, global, thread, local
<1>3. ASSUME NEW t \in Thread, PassBarriers(t) PROVE SuspendCountExact'
  BY CountSame, <1>3
  DEF PassBarriers, Goto, PassActiveSuspendBarriers, TypeOK, ControlInv, TargetInv,
     Suspends, Requesting, SuspendAllPC, RunnablePC, global, thread, local
<1>4. ASSUME NEW t \in Thread, NoBarriers(t) PROVE SuspendCountExact'
  BY SMTT(30), CountSame, <1>4
  DEF NoBarriers, Goto, TypeOK, ControlInv, TargetInv, Suspends, Requesting, SuspendAllPC,
     RunnablePC, global, thread, local
<1>5. ASSUME NEW t \in Thread, LeaveNative(t) PROVE SuspendCountExact'
  BY SMTT(30), CountSame, <1>5
  DEF LeaveNative, Goto, TypeOK, ControlInv, TargetInv, Suspends, Requesting, SuspendAllPC,
     RunnablePC, global, thread, local
<1>6. ASSUME NEW t \in Thread, AwaitResume(t) PROVE SuspendCountExact'
  BY Zenon, CountSame, <1>6
  DEF AwaitResume, Goto, TypeOK, ControlInv, TargetInv, Suspends, Requesting, SuspendAllPC,
     RunnablePC, global, thread, local
<1>7. ASSUME NEW t \in Thread, BecomeRunnable(t) PROVE SuspendCountExact'
  BY CountSame, <1>7
  DEF BecomeRunnable, Goto, TypeOK, ControlInv, TargetInv, Suspends, Requesting,
     SuspendAllPC, RunnablePC, global, thread, local
<1>8. ASSUME NEW t \in Thread, Register(t) PROVE SuspendCountExact'
  <2> SUFFICES ASSUME NEW v \in Thread
        PROVE /\ suspend_count'[v] = Cardinality({q \in Thread : Suspends(q, v)}')
              /\ "kSuspendRequest" \in flags'[v] <=> suspend_count'[v] > 0
    BY Zenon DEF SuspendCountExact
  <2>1. ASSUME NEW r \in Thread, pc[r] \in SuspendAllPC, v = t
        PROVE /\ suspend_count'[v] = Cardinality({q \in Thread : Suspends(q, v)}')
              /\ "kSuspendRequest" \in flags'[v] <=> suspend_count'[v] > 0
    <3>1. /\ ~Suspends(r, v) /\ Suspends(r, v)'
          /\ \A q \in Thread \ {r} : Suspends(q, v)' <=> Suspends(q, v)
      BY SMTT(30), <1>8, <2>1
      DEF Register, Goto, RequestsToInherit, TypeOK, ControlInv, TargetInv, Suspends,
         Requesting, SuspendAllPC, RunnablePC, SuspendAllInv, global, thread, local
    <3>2. suspend_count'[v] = suspend_count[v] + 1 /\ "kSuspendRequest" \in flags'[v]
      BY Zenon, <1>8, <2>1
      DEF Register, Goto, RequestsToInherit, TypeOK, ControlInv, TargetInv, Requesting,
         SuspendAllPC, SuspendAllInv, global, thread, local
    <3> QED
      BY Zenon, <3>1, <3>2, CountAdd
  <2>2. CASE v # t
    <3>1. \A q \in Thread : Suspends(q, v)' <=> Suspends(q, v)
      BY SMTT(30), <1>8, <2>2
      DEF Register, Goto, RequestsToInherit, TypeOK, ControlInv, TargetInv, Suspends,
         Requesting, SuspendAllPC, RunnablePC, global, thread, local
    <3>2. /\ suspend_count'[v] = suspend_count[v]
          /\ "kSuspendRequest" \in flags'[v] <=> "kSuspendRequest" \in flags[v]
      BY <1>8, <2>2
      DEF Register, Goto, RequestsToInherit, TypeOK, ControlInv, TargetInv, Requesting,
         SuspendAllPC, global, thread, local
    <3> QED
      BY Zenon, <3>1, <3>2, CountKeep
  <2>3. CASE v = t /\ ~(\E r \in Thread : pc[r] \in SuspendAllPC)
    <3>1. \A q \in Thread : Suspends(q, v)' <=> Suspends(q, v)
      BY SMTT(30), <1>8, <2>3
      DEF Register, Goto, RequestsToInherit, TypeOK, ControlInv, TargetInv, Suspends,
         Requesting, SuspendAllPC, RunnablePC, SuspendAllInv, global, thread, local
    <3>2. /\ suspend_count'[v] = suspend_count[v]
          /\ "kSuspendRequest" \in flags'[v] <=> "kSuspendRequest" \in flags[v]
      BY SMTT(30), <1>8, <2>3
      DEF Register, Goto, RequestsToInherit, TypeOK, ControlInv, TargetInv, Requesting,
         SuspendAllPC, SuspendAllInv, global, thread, local
    <3> QED
      BY <3>1, <3>2, CountKeep
  <2> QED
    BY <2>1, <2>2, <2>3
<1>9. ASSUME NEW t \in Thread, BeginUnregister(t) PROVE SuspendCountExact'
  BY SMTT(30), CountSame, <1>9
  DEF BeginUnregister, Goto, TypeOK, ControlInv, TargetInv, Suspends, Requesting,
     SuspendAllPC, RunnablePC, global, thread, local
<1>10. ASSUME NEW t \in Thread, Unregister(t) PROVE SuspendCountExact'
  <2>1. \A r \in Thread : ~Suspends(r, t)
    BY Zenon, NotSuspended, <1>10 DEF Unregister, MayDetach
  <2>2. \A r, v \in Thread : Suspends(r, v)' <=> Suspends(r, v)
    BY SMTT(30), <1>10, <2>1
    DEF Unregister, Goto, MayDetach, TypeOK, ControlInv, TargetInv, Suspends, Requesting,
       SuspendAllPC, RunnablePC, global, thread, local
  <2> QED
    BY Zenon, CountSame, <1>10, <2>2 DEF Unregister, thread
<1>11. ASSUME NEW t \in Thread, BeginSuspendAll(t) PROVE SuspendCountExact'
  BY SMTT(30), CountSame, <1>11
  DEF BeginSuspendAll, Goto, TypeOK, ControlInv, TargetInv, Suspends, Requesting,
     SuspendAllPC, RunnablePC, global, thread, local
<1>12. ASSUME NEW t \in Thread, SuspendAllBusy(t) PROVE SuspendCountExact'
  BY Zenon, CountSame, <1>12
  DEF SuspendAllBusy, Goto, TypeOK, ControlInv, TargetInv, Suspends, Requesting,
     SuspendAllPC, RunnablePC, global, thread, local
<1>13. ASSUME NEW t \in Thread, SuspendAllLock(t) PROVE SuspendCountExact'
  BY SMTT(30), CountSame, <1>13
  DEF SuspendAllLock, Goto, NoSuspendAll, TypeOK, ControlInv, TargetInv, Suspends,
     Requesting, SuspendAllPC, RunnablePC, global, thread, local
<1>14. ASSUME NEW t \in Thread, SuspendAllCheck(t) PROVE SuspendCountExact'
  BY SMTT(30), CountSame, <1>14
  DEF SuspendAllCheck, Goto, IsSuspended, WithBarriers, TypeOK, ControlInv, TargetInv,
     Suspends, Requesting, SuspendAllPC, RunnablePC, global, thread, local
<1>15. ASSUME NEW t \in Thread, SuspendAllUnlock(t) PROVE SuspendCountExact'
  BY SMTT(30), CountSame, <1>15
  DEF SuspendAllUnlock, Goto, TypeOK, ControlInv, TargetInv, Suspends, Requesting,
     SuspendAllPC, RunnablePC, global, thread, local
<1>16. ASSUME NEW t \in Thread, SuspendAllWait(t) PROVE SuspendCountExact'
  BY SMTT(30), CountSame, <1>16
  DEF SuspendAllWait, Goto, TypeOK, ControlInv, TargetInv, Suspends, Requesting,
     SuspendAllPC, RunnablePC, global, thread, local
<1>17. ASSUME NEW t \in Thread, SuspendAllMutator(t) PROVE SuspendCountExact'
  BY CountSame, <1>17
  DEF SuspendAllMutator, Goto, TypeOK, ControlInv, TargetInv, Suspends, Requesting,
     SuspendAllPC, RunnablePC, global, thread, local
<1>18. ASSUME NEW t \in Thread, ResumeAll(t) PROVE SuspendCountExact'
  <2> SUFFICES ASSUME NEW v \in Thread
        PROVE /\ suspend_count'[v] = Cardinality({q \in Thread : Suspends(q, v)}')
              /\ "kSuspendRequest" \in flags'[v] <=> suspend_count'[v] > 0
    BY DEF SuspendCountExact
  <2>1. CASE v \in list \ {t}
    <3>1. /\ Suspends(t, v) /\ ~Suspends(t, v)'
          /\ \A q \in Thread \ {t} : Suspends(q, v)' <=> Suspends(q, v)
      BY <1>18, <2>1
      DEF ResumeAll, Goto, AfterDecrement, Broadcast, TypeOK, ControlInv, TargetInv,
         Suspends, Requesting, SuspendAllPC, RunnablePC, global, thread, local
    <3>2. /\ suspend_count'[v] = suspend_count[v] - 1
          /\ "kSuspendRequest" \in flags'[v] <=>
                "kSuspendRequest" \in flags[v] /\ suspend_count[v] # 1
      BY SMTT(30), <1>18, <2>1
      DEF ResumeAll, Goto, AfterDecrement, Broadcast, TypeOK, ControlInv, TargetInv,
         Requesting, SuspendAllPC, global, thread, local
    <3> QED
      BY <3>1, <3>2, CountRemove
  <2>2. CASE v \notin list \ {t}
    <3>1. \A q \in Thread : Suspends(q, v)' <=> Suspends(q, v)
      BY <1>18, <2>2
      DEF ResumeAll, Goto, AfterDecrement, Broadcast, TypeOK, ControlInv, TargetInv,
         Suspends, Requesting, SuspendAllPC, RunnablePC, global, thread, local
    <3>2. /\ suspend_count'[v] = suspend_count[v]
          /\ "kSuspendRequest" \in flags'[v] <=> "kSuspendRequest" \in flags[v]
      BY SMTT(30), <1>18, <2>2
      DEF ResumeAll, Goto, AfterDecrement, Broadcast, TypeOK, ControlInv, TargetInv,
         Requesting, SuspendAllPC, global, thread, local
    <3> QED
      BY <3>1, <3>2, CountKeep
  <2> QED
    BY Zenon, <2>1, <2>2
<1>19. ASSUME NEW t \in Thread, SuspendThreadExited(t) PROVE SuspendCountExact'
  BY SMTT(30), CountSame, <1>19
  DEF SuspendThreadExited, Goto, ToSuspended, TypeOK, ControlInv, TargetInv, Suspends,
     Requesting, SuspendAllPC, RunnablePC, global, thread, local
<1>20. ASSUME NEW t \in Thread, SuspendThreadCheck(t) PROVE SuspendCountExact'
  BY SMTT(30), CountSame, <1>20
  DEF SuspendThreadCheck, Goto, IsSuspended, WithBarriers, RemoveSuspend1Barrier, TypeOK,
     ControlInv, TargetInv, Suspends, Requesting, SuspendAllPC, RunnablePC, global, thread,
     local
<1>21. ASSUME NEW t \in Thread, SuspendThreadLeave(t) PROVE SuspendCountExact'
  BY SMTT(30), CountSame, <1>21
  DEF SuspendThreadLeave, Goto, ToSuspended, TypeOK, ControlInv, TargetInv, Suspends,
     Requesting, SuspendAllPC, RunnablePC, global, thread, local
<1>22. ASSUME NEW t \in Thread, SuspendThreadWait(t) PROVE SuspendCountExact'
  BY SMTT(30), CountSame, <1>22
  DEF SuspendThreadWait, Goto, TypeOK, ControlInv, TargetInv, Suspends, Requesting,
     SuspendAllPC, RunnablePC, global, thread, local
<1>23. ASSUME NEW t \in Thread, SuspendThreadGiveUp(t) PROVE SuspendCountExact'
  <2> SUFFICES ASSUME NEW v \in Thread
        PROVE /\ suspend_count'[v] = Cardinality({q \in Thread : Suspends(q, v)}')
              /\ "kSuspendRequest" \in flags'[v] <=> suspend_count'[v] > 0
    BY DEF SuspendCountExact
  <2>1. CASE v = target[t]
    <3>1. /\ Suspends(t, v) /\ ~Suspends(t, v)'
          /\ \A q \in Thread \ {t} : Suspends(q, v)' <=> Suspends(q, v)
      BY SMTT(30), <1>23, <2>1
      DEF SuspendThreadGiveUp, Goto, WithBarriers, RemoveSuspend1Barrier, AfterDecrement,
         Broadcast, TypeOK, ControlInv, TargetInv, Suspends, Requesting, SuspendAllPC,
         RunnablePC, global, thread, local
    <3>2. /\ suspend_count'[v] = suspend_count[v] - 1
          /\ "kSuspendRequest" \in flags'[v] <=>
                "kSuspendRequest" \in flags[v] /\ suspend_count[v] # 1
      BY Zenon, <1>23, <2>1
      DEF SuspendThreadGiveUp, Goto, WithBarriers, RemoveSuspend1Barrier, AfterDecrement,
         Broadcast, TypeOK, ControlInv, TargetInv, Requesting, SuspendAllPC, global, thread,
         local
    <3> QED
      BY <3>1, <3>2, CountRemove
  <2>2. CASE v # target[t]
    <3>1. \A q \in Thread : Suspends(q, v)' <=> Suspends(q, v)
      BY SMTT(30), <1>23, <2>2
      DEF SuspendThreadGiveUp, Goto, WithBarriers, RemoveSuspend1Barrier, AfterDecrement,
         Broadcast, TypeOK, ControlInv, TargetInv, Suspends, Requesting, SuspendAllPC,
         RunnablePC, global, thread, local
    <3>2. /\ suspend_count'[v] = suspend_count[v]
          /\ "kSuspendRequest" \in flags'[v] <=> "kSuspendRequest" \in flags[v]
      BY <1>23, <2>2
      DEF SuspendThreadGiveUp, Goto, WithBarriers, RemoveSuspend1Barrier, AfterDecrement,
         Broadcast, TypeOK, ControlInv, TargetInv, Requesting, SuspendAllPC, global, thread,
         local
    <3> QED
      BY <3>1, <3>2, CountKeep
  <2> QED
    BY Zenon, <2>1, <2>2
<1>24. ASSUME NEW t \in Thread, Resume(t) PROVE SuspendCountExact'
  <2> SUFFICES ASSUME NEW v \in Thread
        PROVE /\ suspend_count'[v] = Cardinality({q \in Thread : Suspends(q, v)}')
              /\ "kSuspendRequest" \in flags'[v] <=> suspend_count'[v] > 0
    BY DEF SuspendCountExact
  <2>1. CASE v = target[t]
    <3>1. /\ Suspends(t, v) /\ ~Suspends(t, v)'
          /\ \A q \in Thread \ {t} : Suspends(q, v)' <=> Suspends(q, v)
      BY SMTT(30), <1>24, <2>1
      DEF Resume, Goto, AfterDecrement, Broadcast, TypeOK, ControlInv, TargetInv, Suspends,
         Requesting, SuspendAllPC, RunnablePC, global, thread, local
    <3>2. /\ suspend_count'[v] = suspend_count[v] - 1
          /\ "kSuspendRequest" \in flags'[v] <=>
                "kSuspendRequest" \in flags[v] /\ suspend_count[v] # 1
      BY Zenon, <1>24, <2>1
      DEF Resume, Goto, AfterDecrement, Broadcast, TypeOK, ControlInv, TargetInv,
         Requesting, SuspendAllPC, global, thread, local
    <3> QED
      BY <3>1, <3>2, CountRemove
  <2>2. CASE v # target[t]
    <3>1. \A q \in Thread : Suspends(q, v)' <=> Suspends(q, v)
      BY SMTT(30), <1>24, <2>2
      DEF Resume, Goto, AfterDecrement, Broadcast, TypeOK, ControlInv, TargetInv, Suspends,
         Requesting, SuspendAllPC, RunnablePC, global, thread, local
    <3>2. /\ suspend_count'[v] = suspend_count[v]
          /\ "kSuspendRequest" \in flags'[v] <=> "kSuspendRequest" \in flags[v]
      BY <1>24, <2>2
      DEF Resume, Goto, AfterDecrement, Broadcast, TypeOK, ControlInv, TargetInv,
         Requesting, SuspendAllPC, global, thread, local
    <3> QED
      BY <3>1, <3>2, CountKeep
  <2> QED
    BY <2>1, <2>2
<1>25. ASSUME NEW t \in Thread, NEW u \in Thread, SuspendAllRequest(t, u) PROVE SuspendCountExact'
  <2> SUFFICES ASSUME NEW v \in Thread
        PROVE /\ suspend_count'[v] = Cardinality({q \in Thread : Suspends(q, v)}')
              /\ "kSuspendRequest" \in flags'[v] <=> suspend_count'[v] > 0
    BY Zenon DEF SuspendCountExact
  <2>1. CASE v = u
    <3>1. /\ ~Suspends(t, v) /\ Suspends(t, v)'
          /\ \A q \in Thread \ {t} : Suspends(q, v)' <=> Suspends(q, v)
      BY SMTT(30), <1>25, <2>1
      DEF SuspendAllRequest, Goto, TypeOK, ControlInv, TargetInv, Suspends, Requesting,
         SuspendAllPC, RunnablePC, global, thread, local
    <3>2. suspend_count'[v] = suspend_count[v] + 1 /\ "kSuspendRequest" \in flags'[v]
      BY SMTT(30), <1>25, <2>1
      DEF SuspendAllRequest, Goto, TypeOK, ControlInv, TargetInv, Requesting, SuspendAllPC,
         global, thread, local
    <3> QED
      BY Zenon, <3>1, <3>2, CountAdd
  <2>2. CASE v # u
    <3>1. \A q \in Thread : Suspends(q, v)' <=> Suspends(q, v)
      BY SMTT(30), <1>25, <2>2
      DEF SuspendAllRequest, Goto, TypeOK, ControlInv, TargetInv, Suspends, Requesting,
         SuspendAllPC, RunnablePC, global, thread, local
    <3>2. /\ suspend_count'[v] = suspend_count[v]
          /\ "kSuspendRequest" \in flags'[v] <=> "kSuspendRequest" \in flags[v]
      BY SMTT(30), <1>25, <2>2
      DEF SuspendAllRequest, Goto, TypeOK, ControlInv, TargetInv, Requesting, SuspendAllPC,
         global, thread, local
    <3> QED
      BY Zenon, <3>1, <3>2, CountKeep
  <2> QED
    BY <2>1, <2>2
<1>26. ASSUME NEW t \in Thread, NEW u \in list \ {t}, SuspendThreadCall(t, u) PROVE SuspendCountExact'
  <2> SUFFICES ASSUME NEW v \in Thread
        PROVE /\ suspend_count'[v] = Cardinality({q \in Thread : Suspends(q, v)}')
              /\ "kSuspendRequest" \in flags'[v] <=> suspend_count'[v] > 0
    BY Zenon DEF SuspendCountExact
  <2>1. CASE suspend_count[t] = 0 /\ v = u
    <3>1. /\ ~Suspends(t, v) /\ Suspends(t, v)'
          /\ \A q \in Thread \ {t} : Suspends(q, v)' <=> Suspends(q, v)
      BY SMTT(30), <1>26, <2>1
      DEF SuspendThreadTry, Goto, MaySuspendOthers, ToSuspended, SuspendThreadCall, TypeOK,
         ControlInv, TargetInv, Suspends, Requesting, SuspendAllPC, RunnablePC, global,
         thread, local
    <3>2. suspend_count'[v] = suspend_count[v] + 1 /\ "kSuspendRequest" \in flags'[v]
      BY SMTT(30), <1>26, <2>1
      DEF SuspendThreadTry, Goto, MaySuspendOthers, ToSuspended, SuspendThreadCall, TypeOK,
         ControlInv, TargetInv, Requesting, SuspendAllPC, global, thread, local
    <3> QED
      BY Zenon, <3>1, <3>2, CountAdd
  <2>2. CASE suspend_count[t] # 0 \/ v # u
    <3>1. \A q \in Thread : Suspends(q, v)' <=> Suspends(q, v)
      BY SMTT(30), <1>26, <2>2
      DEF SuspendThreadTry, Goto, MaySuspendOthers, ToSuspended, SuspendThreadCall, TypeOK,
         ControlInv, TargetInv, Suspends, Requesting, SuspendAllPC, RunnablePC, global,
         thread, local
    <3>2. /\ suspend_count'[v] = suspend_count[v]
          /\ "kSuspendRequest" \in flags'[v] <=> "kSuspendRequest" \in flags[v]
      BY SMTT(30), <1>26, <2>2
      DEF SuspendThreadTry, Goto, MaySuspendOthers, ToSuspended, SuspendThreadCall, TypeOK,
         ControlInv, TargetInv, Requesting, SuspendAllPC, global, thread, local
    <3> QED
      BY Zenon, <3>1, <3>2, CountKeep
  <2> QED
    BY Zenon, <2>1, <2>2
<1>27. CASE UNCHANGED vars
  BY Zenon, CountSame, <1>27
  DEF vars, Suspends, Requesting, global, thread, local
<1>28. ASSUME NEW t \in Thread, NEW u \in Thread, SuspendThread(t, u) PROVE SuspendCountExact'
  BY Zenon, <1>26, <1>28 DEF SuspendThread, SuspendThreadCall
<1>29. ASSUME NEW t \in Thread, SuspendThreadRetry(t) PROVE SuspendCountExact'
  BY Zenon, <1>26, <1>29 DEF TargetInv, Retrying, SuspendThreadRetry, SuspendThreadCall
<1> QED
  BY Zenon, <1>1, <1>2, <1>3, <1>4, <1>5, <1>6, <1>7, <1>8, <1>9, <1>10, <1>11, <1>12, <1>13,
     <1>14, <1>15, <1>16, <1>17, <1>18, <1>19, <1>20, <1>21, <1>22, <1>23, <1>24, <1>25,
     <1>26, <1>27, <1>28, <1>29
  DEF Next, Step, Choice, Terminated

------------------------------------------------------------------------------
(* Barriers *)

\* A barrier that is 0 has been passed by every thread it was given to.
LEMMA AllPassed ==
  ASSUME TypeOK, PendingExact, NEW r \in Thread, pc[r] = "sa_wait", pending[r] <= 0
  PROVE \A t \in Thread : suspendall_barrier[t] # r
<1>1. IsFiniteSet(Holdouts(r)) /\ Cardinality(Holdouts(r)) \in Nat
  BY ThreadAssumption, FS_Subset, FS_CardinalityType DEF Holdouts
<1>2. Cardinality(Holdouts(r)) = 0
  <2>1. Cardinality(todo[r]) \in Nat
    BY ThreadAssumption, FS_Subset, FS_CardinalityType DEF TypeOK
  <2> QED
    BY <1>1, <2>1 DEF PendingExact, TypeOK
<1> QED
  BY <1>1, <1>2, FS_EmptySet DEF Holdouts

\* Every step keeps the barriers with the requests they belong to.
LEMMA BarrierStep ==
  ASSUME TypeOK, ControlInv, SuspendAllInv, TargetInv, BarrierFlagExact, BarrierInv, SuspendCountExact, PendingExact, [Next]_vars
  PROVE BarrierInv'
<1>1. ASSUME NEW t \in Thread, EnterNative(t) PROVE BarrierInv'
  BY SMTT(30), ThreadAssumption, <1>1
  DEF EnterNative, Goto, ToSuspended, TypeOK, ControlInv, SuspendAllInv, TargetInv,
     BarrierFlagExact, BarrierInv, Requesting, Waiting1, RunnablePC, SuspendAllPC, global,
     thread, local
<1>2. ASSUME NEW t \in Thread, CheckSuspend(t) PROVE BarrierInv'
  BY SMTT(30), ThreadAssumption, <1>2
  DEF CheckSuspend, Goto, ToSuspended, TypeOK, ControlInv, SuspendAllInv, TargetInv,
     BarrierFlagExact, BarrierInv, Requesting, Waiting1, RunnablePC, SuspendAllPC, global,
     thread, local
<1>3. ASSUME NEW t \in Thread, PassBarriers(t) PROVE BarrierInv'
  BY SMTT(30), ThreadAssumption, <1>3
  DEF PassBarriers, Goto, PassActiveSuspendBarriers, TypeOK, ControlInv, SuspendAllInv,
     TargetInv, BarrierFlagExact, BarrierInv, Requesting, Waiting1, RunnablePC,
     SuspendAllPC, global, thread, local
<1>4. ASSUME NEW t \in Thread, NoBarriers(t) PROVE BarrierInv'
  BY SMTT(30), ThreadAssumption, <1>4
  DEF NoBarriers, Goto, TypeOK, ControlInv, SuspendAllInv, TargetInv, BarrierFlagExact,
     BarrierInv, Requesting, Waiting1, RunnablePC, SuspendAllPC, global, thread, local
<1>5. ASSUME NEW t \in Thread, LeaveNative(t) PROVE BarrierInv'
  BY SMTT(30), ThreadAssumption, <1>5
  DEF LeaveNative, Goto, TypeOK, ControlInv, SuspendAllInv, TargetInv, BarrierFlagExact,
     BarrierInv, Requesting, Waiting1, RunnablePC, SuspendAllPC, global, thread, local
<1>6. ASSUME NEW t \in Thread, AwaitResume(t) PROVE BarrierInv'
  BY SMTT(30), ThreadAssumption, <1>6
  DEF AwaitResume, Goto, TypeOK, ControlInv, SuspendAllInv, TargetInv, BarrierFlagExact,
     BarrierInv, Requesting, Waiting1, RunnablePC, SuspendAllPC, global, thread, local
<1>7. ASSUME NEW t \in Thread, BecomeRunnable(t) PROVE BarrierInv'
  <2>1. \A r \in Thread : ~Suspends(r, t)
    BY Zenon, NotSuspended, <1>7 DEF BecomeRunnable
  <2>2. \A r \in Thread : ~(Requesting(r) /\ target[r] = t)
    BY <2>1 DEF Suspends
  <2>3. \A r \in Thread : pc[r] \in SuspendAllPC /\ t \in list \ {r} => t \in todo[r]
    BY Zenon, <2>1 DEF Suspends
  <2> QED
    BY ThreadAssumption, <1>7, <2>2, <2>3
    DEF BecomeRunnable, Goto, TypeOK, ControlInv, SuspendAllInv, TargetInv,
       BarrierFlagExact, BarrierInv, Requesting, Waiting1, RunnablePC, SuspendAllPC, global,
       thread, local
<1>8. ASSUME NEW t \in Thread, Register(t) PROVE BarrierInv'
  BY SMTT(30), ThreadAssumption, <1>8
  DEF Register, Goto, RequestsToInherit, TypeOK, ControlInv, SuspendAllInv, TargetInv,
     BarrierFlagExact, BarrierInv, Requesting, Waiting1, RunnablePC, SuspendAllPC, global,
     thread, local
<1>9. ASSUME NEW t \in Thread, BeginUnregister(t) PROVE BarrierInv'
  BY SMTT(30), ThreadAssumption, <1>9
  DEF BeginUnregister, Goto, TypeOK, ControlInv, SuspendAllInv, TargetInv, BarrierFlagExact,
     BarrierInv, Requesting, Waiting1, RunnablePC, SuspendAllPC, global, thread, local
<1>10. ASSUME NEW t \in Thread, Unregister(t) PROVE BarrierInv'
  <2>1. \A r \in Thread : ~Suspends(r, t)
    BY SMTT(30), NotSuspended, <1>10 DEF Unregister, MayDetach
  <2>2. \A r \in Thread : ~(Requesting(r) /\ target[r] = t)
    BY <2>1 DEF Suspends
  <2>3. suspendall_barrier[t] = None
    BY SMTT(30), <2>1 DEF TypeOK, BarrierInv, Suspends, SuspendAllPC
  <2> QED
    BY SMTT(30), ThreadAssumption, <1>10, <2>2, <2>3
    DEF Unregister, Goto, MayDetach, TypeOK, ControlInv, SuspendAllInv, TargetInv,
       BarrierFlagExact, BarrierInv, Requesting, Waiting1, RunnablePC, SuspendAllPC, global,
       thread, local
<1>11. ASSUME NEW t \in Thread, BeginSuspendAll(t) PROVE BarrierInv'
  BY SMTT(30), ThreadAssumption, <1>11
  DEF BeginSuspendAll, Goto, TypeOK, ControlInv, SuspendAllInv, TargetInv, BarrierFlagExact,
     BarrierInv, Requesting, Waiting1, RunnablePC, SuspendAllPC, global, thread, local
<1>12. ASSUME NEW t \in Thread, SuspendAllBusy(t) PROVE BarrierInv'
  BY SMTT(30), ThreadAssumption, <1>12
  DEF SuspendAllBusy, Goto, TypeOK, ControlInv, SuspendAllInv, TargetInv, BarrierFlagExact,
     BarrierInv, Requesting, Waiting1, RunnablePC, SuspendAllPC, global, thread, local
<1>13. ASSUME NEW t \in Thread, SuspendAllLock(t) PROVE BarrierInv'
  BY SMTT(30), ThreadAssumption, <1>13
  DEF SuspendAllLock, Goto, NoSuspendAll, TypeOK, ControlInv, SuspendAllInv, TargetInv,
     BarrierFlagExact, BarrierInv, Requesting, Waiting1, RunnablePC, SuspendAllPC, global,
     thread, local
<1>14. ASSUME NEW t \in Thread, SuspendAllCheck(t) PROVE BarrierInv'
  BY SMTT(30), ThreadAssumption, <1>14
  DEF SuspendAllCheck, Goto, IsSuspended, WithBarriers, TypeOK, ControlInv, SuspendAllInv,
     TargetInv, BarrierFlagExact, BarrierInv, Requesting, Waiting1, RunnablePC,
     SuspendAllPC, global, thread, local
<1>15. ASSUME NEW t \in Thread, SuspendAllUnlock(t) PROVE BarrierInv'
  BY SMTT(30), ThreadAssumption, <1>15
  DEF SuspendAllUnlock, Goto, TypeOK, ControlInv, SuspendAllInv, TargetInv,
     BarrierFlagExact, BarrierInv, Requesting, Waiting1, RunnablePC, SuspendAllPC, global,
     thread, local
<1>16. ASSUME NEW t \in Thread, SuspendAllWait(t) PROVE BarrierInv'
  <2>1. \A u \in Thread : suspendall_barrier[u] # t
    BY Zenon, AllPassed, <1>16 DEF TypeOK, SuspendAllWait
  <2> QED
    BY SMTT(30), ThreadAssumption, <1>16, <2>1
    DEF SuspendAllWait, Goto, TypeOK, ControlInv, SuspendAllInv, TargetInv,
       BarrierFlagExact, BarrierInv, Requesting, Waiting1, RunnablePC, SuspendAllPC, global,
       thread, local
<1>17. ASSUME NEW t \in Thread, SuspendAllMutator(t) PROVE BarrierInv'
  BY SMTT(30), ThreadAssumption, <1>17
  DEF SuspendAllMutator, Goto, TypeOK, ControlInv, SuspendAllInv, TargetInv,
     BarrierFlagExact, BarrierInv, Requesting, Waiting1, RunnablePC, SuspendAllPC, global,
     thread, local
<1>18. ASSUME NEW t \in Thread, ResumeAll(t) PROVE BarrierInv'
  BY SMTT(30), ThreadAssumption, <1>18
  DEF ResumeAll, Goto, AfterDecrement, Broadcast, TypeOK, ControlInv, SuspendAllInv,
     TargetInv, BarrierFlagExact, BarrierInv, Requesting, Waiting1, RunnablePC,
     SuspendAllPC, global, thread, local
<1>19. ASSUME NEW t \in Thread, SuspendThreadExited(t) PROVE BarrierInv'
  BY SMTT(30), ThreadAssumption, <1>19
  DEF SuspendThreadExited, Goto, ToSuspended, TypeOK, ControlInv, SuspendAllInv, TargetInv,
     BarrierFlagExact, BarrierInv, Requesting, Waiting1, RunnablePC, SuspendAllPC, global,
     thread, local
<1>20. ASSUME NEW t \in Thread, SuspendThreadCheck(t) PROVE BarrierInv'
  BY SMTT(30), ThreadAssumption, <1>20
  DEF SuspendThreadCheck, Goto, IsSuspended, WithBarriers, RemoveSuspend1Barrier, TypeOK,
     ControlInv, SuspendAllInv, TargetInv, BarrierFlagExact, BarrierInv, Requesting,
     Waiting1, RunnablePC, SuspendAllPC, global, thread, local
<1>21. ASSUME NEW t \in Thread, SuspendThreadLeave(t) PROVE BarrierInv'
  BY SMTT(30), ThreadAssumption, <1>21
  DEF SuspendThreadLeave, Goto, ToSuspended, TypeOK, ControlInv, SuspendAllInv, TargetInv,
     BarrierFlagExact, BarrierInv, Requesting, Waiting1, RunnablePC, SuspendAllPC, global,
     thread, local
<1>22. ASSUME NEW t \in Thread, SuspendThreadWait(t) PROVE BarrierInv'
  BY SMTT(30), ThreadAssumption, <1>22
  DEF SuspendThreadWait, Goto, TypeOK, ControlInv, SuspendAllInv, TargetInv,
     BarrierFlagExact, BarrierInv, Requesting, Waiting1, RunnablePC, SuspendAllPC, global,
     thread, local
<1>23. ASSUME NEW t \in Thread, SuspendThreadGiveUp(t) PROVE BarrierInv'
  BY SMTT(30), ThreadAssumption, <1>23
  DEF SuspendThreadGiveUp, Goto, WithBarriers, RemoveSuspend1Barrier, AfterDecrement,
     Broadcast, TypeOK, ControlInv, SuspendAllInv, TargetInv, BarrierFlagExact, BarrierInv,
     Requesting, Waiting1, RunnablePC, SuspendAllPC, global, thread, local
<1>24. ASSUME NEW t \in Thread, Resume(t) PROVE BarrierInv'
  BY SMTT(30), ThreadAssumption, <1>24
  DEF Resume, Goto, AfterDecrement, Broadcast, TypeOK, ControlInv, SuspendAllInv, TargetInv,
     BarrierFlagExact, BarrierInv, Requesting, Waiting1, RunnablePC, SuspendAllPC, global,
     thread, local
<1>25. ASSUME NEW t \in Thread, NEW u \in Thread, SuspendAllRequest(t, u) PROVE BarrierInv'
  BY SMTT(30), ThreadAssumption, <1>25
  DEF SuspendAllRequest, Goto, TypeOK, ControlInv, SuspendAllInv, TargetInv,
     BarrierFlagExact, BarrierInv, Requesting, Waiting1, RunnablePC, SuspendAllPC, global,
     thread, local
<1>26. ASSUME NEW t \in Thread, NEW u \in list \ {t}, SuspendThreadCall(t, u) PROVE BarrierInv'
  BY SMTT(30), ThreadAssumption, <1>26
  DEF SuspendThreadTry, Goto, MaySuspendOthers, ToSuspended, SuspendThreadCall, TypeOK,
     ControlInv, SuspendAllInv, TargetInv, BarrierFlagExact, BarrierInv, Requesting,
     Waiting1, RunnablePC, SuspendAllPC, global, thread, local
<1>27. CASE UNCHANGED vars
  BY SMTT(30), ThreadAssumption, <1>27
  DEF vars, TypeOK, ControlInv, SuspendAllInv, TargetInv, BarrierFlagExact, BarrierInv,
     Requesting, Waiting1, RunnablePC, SuspendAllPC, global, thread, local
<1>28. ASSUME NEW t \in Thread, NEW u \in Thread, SuspendThread(t, u) PROVE BarrierInv'
  BY Zenon, <1>26, <1>28 DEF SuspendThread, SuspendThreadCall
<1>29. ASSUME NEW t \in Thread, SuspendThreadRetry(t) PROVE BarrierInv'
  BY Zenon, <1>26, <1>29 DEF TargetInv, Retrying, SuspendThreadRetry, SuspendThreadCall
<1> QED
  BY Zenon, <1>1, <1>2, <1>3, <1>4, <1>5, <1>6, <1>7, <1>8, <1>9, <1>10, <1>11, <1>12, <1>13,
     <1>14, <1>15, <1>16, <1>17, <1>18, <1>19, <1>20, <1>21, <1>22, <1>23, <1>24, <1>25,
     <1>26, <1>27, <1>28, <1>29
  DEF Next, Step, Choice, Terminated

\* A step that changes neither the barriers nor what is left to visit keeps the count.
LEMMA PendingSame ==
  ASSUME PendingExact, suspendall_barrier' = suspendall_barrier,
         \A r \in Thread : pc'[r] \in {"sa_loop", "sa_check", "sa_wait"} =>
             /\ pc[r] \in {"sa_loop", "sa_check", "sa_wait"}
             /\ pending'[r] = pending[r] /\ todo'[r] = todo[r]
  PROVE PendingExact'
<1>1. \A r \in Thread : Holdouts(r)' = Holdouts(r)
  BY DEF Holdouts
<1> QED
  BY <1>1 DEF PendingExact

\* Every step keeps the number of pending threads exact.
LEMMA PendingStep ==
  ASSUME TypeOK, ControlInv, SuspendAllInv, TargetInv, BarrierInv, PendingExact, [Next]_vars
  PROVE PendingExact'
<1>1. ASSUME NEW t \in Thread, EnterNative(t) PROVE PendingExact'
  BY PendingSame, <1>1
  DEF EnterNative, Goto, ToSuspended, TypeOK, global, thread, local
<1>2. ASSUME NEW t \in Thread, CheckSuspend(t) PROVE PendingExact'
  BY PendingSame, <1>2
  DEF CheckSuspend, Goto, ToSuspended, TypeOK, global, thread, local
<1>3. ASSUME NEW t \in Thread, PassBarriers(t) PROVE PendingExact'
  <2> SUFFICES ASSUME NEW r \in Thread, pc[r] \in {"sa_loop", "sa_check", "sa_wait"}
                PROVE pending'[r] = Cardinality(Holdouts(r)') + Cardinality(todo[r])
    BY <1>3 DEF PassBarriers, local, PendingExact
  <2>1. Cardinality(Holdouts(r)) \in Nat /\ Cardinality(todo[r]) \in Nat
    BY ZenonT(30), CountStep DEF TypeOK, Holdouts
  <2>2. r \notin suspend1_barriers[t]
    BY DEF BarrierInv, Waiting1
  <2>3. CASE suspendall_barrier[t] = r
    <3>1. t \in Holdouts(r) /\ Holdouts(r)' = Holdouts(r) \ {t}
      BY ThreadAssumption, <1>3, <2>3
      DEF TypeOK, Holdouts, PassBarriers, PassActiveSuspendBarriers
    <3>2. Cardinality(Holdouts(r)') = Cardinality(Holdouts(r)) - 1
      BY SMTT(30), <3>1, CountStep DEF Holdouts
    <3> QED
      BY <1>3, <2>1, <2>3, <3>2
      DEF TypeOK, PendingExact, PassBarriers, PassActiveSuspendBarriers
  <2>4. CASE suspendall_barrier[t] # r
    <3>1. Holdouts(r)' = Holdouts(r)
      BY ThreadAssumption, <1>3, <2>4
      DEF TypeOK, Holdouts, PassBarriers, PassActiveSuspendBarriers
    <3> QED
      BY SMTT(30), <1>3, <2>2, <2>4, <3>1
      DEF TypeOK, PendingExact, PassBarriers, PassActiveSuspendBarriers
  <2> QED
    BY <2>3, <2>4
<1>4. ASSUME NEW t \in Thread, NoBarriers(t) PROVE PendingExact'
  BY PendingSame, <1>4
  DEF NoBarriers, Goto, TypeOK, global, thread, local
<1>5. ASSUME NEW t \in Thread, LeaveNative(t) PROVE PendingExact'
  BY PendingSame, <1>5
  DEF LeaveNative, Goto, TypeOK, global, thread, local
<1>6. ASSUME NEW t \in Thread, AwaitResume(t) PROVE PendingExact'
  BY PendingSame, <1>6
  DEF AwaitResume, Goto, TypeOK, global, thread, local
<1>7. ASSUME NEW t \in Thread, BecomeRunnable(t) PROVE PendingExact'
  BY PendingSame, <1>7
  DEF BecomeRunnable, Goto, TypeOK, global, thread, local
<1>8. ASSUME NEW t \in Thread, Register(t) PROVE PendingExact'
  BY PendingSame, <1>8
  DEF Register, Goto, RequestsToInherit, TypeOK, global, thread, local
<1>9. ASSUME NEW t \in Thread, BeginUnregister(t) PROVE PendingExact'
  BY PendingSame, <1>9
  DEF BeginUnregister, Goto, TypeOK, global, thread, local
<1>10. ASSUME NEW t \in Thread, Unregister(t) PROVE PendingExact'
  BY SMTT(30), PendingSame, <1>10
  DEF Unregister, Goto, MayDetach, TypeOK, global, thread, local
<1>11. ASSUME NEW t \in Thread, BeginSuspendAll(t) PROVE PendingExact'
  BY SMTT(30), PendingSame, <1>11
  DEF BeginSuspendAll, Goto, TypeOK, global, thread, local
<1>12. ASSUME NEW t \in Thread, SuspendAllBusy(t) PROVE PendingExact'
  BY PendingSame, <1>12
  DEF SuspendAllBusy, Goto, TypeOK, global, thread, local
<1>13. ASSUME NEW t \in Thread, SuspendAllLock(t) PROVE PendingExact'
  <2>1. Holdouts(t)' = {}
    BY SMTT(30), <1>13 DEF TypeOK, BarrierInv, Holdouts, SuspendAllLock, thread
  <2>2. Cardinality(list \ {t}) = Cardinality(list) - 1
    BY CountStep, <1>13 DEF TypeOK, ControlInv, SuspendAllLock
  <2>3. pending'[t] = Cardinality(Holdouts(t)') + Cardinality(todo'[t])
    <3>1. Cardinality(list) \in Nat
      BY ZenonT(30), CountStep DEF TypeOK
    <3>2. Cardinality(Holdouts(t)') = 0
      BY <2>1, FS_EmptySet
    <3>3. pending'[t] = Cardinality(list) - 1 /\ todo'[t] = list \ {t}
      BY <1>13 DEF TypeOK, SuspendAllLock
    <3> QED
      BY <2>2, <3>1, <3>2, <3>3
  <2>4. \A r \in Thread \ {t} : pc'[r] \notin {"sa_loop", "sa_check", "sa_wait"}
    BY <1>13
    DEF TypeOK, SuspendAllInv, SuspendAllPC, SuspendAllLock, NoSuspendAll, Goto
  <2> QED
    BY SMTT(30), <2>3, <2>4 DEF PendingExact
<1>14. ASSUME NEW t \in Thread, SuspendAllCheck(t) PROVE PendingExact'
  <2>1. CASE IsSuspended(target[t])
    <3>1. target[t] \in Holdouts(t) /\ Holdouts(t)' = Holdouts(t) \ {target[t]}
      <4>1. target[t] \in Thread /\ suspendall_barrier[target[t]] = t
        BY Zenon, ThreadAssumption, <1>14
        DEF TypeOK, TargetInv, BarrierInv, SuspendAllCheck
      <4>2. suspendall_barrier' = [suspendall_barrier EXCEPT ![target[t]] = None]
        BY Zenon, <1>14, <2>1 DEF SuspendAllCheck
      <4> QED
        BY Zenon, ThreadAssumption, <4>1, <4>2 DEF TypeOK, Holdouts
    <3>2. Cardinality(Holdouts(t)') = Cardinality(Holdouts(t)) - 1
      BY Zenon, <3>1, CountStep DEF Holdouts
    <3>3. Cardinality(Holdouts(t)) \in Nat /\ Cardinality(todo[t]) \in Nat
      BY ZenonT(30), CountStep DEF TypeOK, Holdouts
    <3>4. pending'[t] = Cardinality(Holdouts(t)') + Cardinality(todo'[t])
      BY SMTT(30), <1>14, <2>1, <3>2, <3>3
      DEF TypeOK, PendingExact, SuspendAllCheck
    <3>5. \A r \in Thread \ {t} : pc'[r] \notin {"sa_loop", "sa_check", "sa_wait"}
      BY SMTT(30), <1>14 DEF TypeOK, SuspendAllInv, SuspendAllPC, SuspendAllCheck, Goto
    <3> QED
      BY <3>4, <3>5 DEF PendingExact
  <2> QED
    BY SMTT(30), PendingSame, <1>14, <2>1 DEF SuspendAllCheck, Goto, TypeOK
<1>15. ASSUME NEW t \in Thread, SuspendAllUnlock(t) PROVE PendingExact'
  BY SMTT(30), PendingSame, <1>15
  DEF SuspendAllUnlock, Goto, TypeOK, global, thread, local
<1>16. ASSUME NEW t \in Thread, SuspendAllWait(t) PROVE PendingExact'
  BY SMTT(30), PendingSame, <1>16
  DEF SuspendAllWait, Goto, TypeOK, global, thread, local
<1>17. ASSUME NEW t \in Thread, SuspendAllMutator(t) PROVE PendingExact'
  BY PendingSame, <1>17
  DEF SuspendAllMutator, Goto, TypeOK, global, thread, local
<1>18. ASSUME NEW t \in Thread, ResumeAll(t) PROVE PendingExact'
  BY SMTT(30), PendingSame, <1>18
  DEF ResumeAll, Goto, AfterDecrement, Broadcast, TypeOK, global, thread, local
<1>19. ASSUME NEW t \in Thread, SuspendThreadExited(t) PROVE PendingExact'
  BY SMTT(30), PendingSame, <1>19
  DEF SuspendThreadExited, Goto, ToSuspended, TypeOK, global, thread, local
<1>20. ASSUME NEW t \in Thread, SuspendThreadCheck(t) PROVE PendingExact'
  BY SMTT(30), PendingSame, <1>20
  DEF SuspendThreadCheck, Goto, IsSuspended, WithBarriers, RemoveSuspend1Barrier, TypeOK,
     global, thread, local
<1>21. ASSUME NEW t \in Thread, SuspendThreadLeave(t) PROVE PendingExact'
  BY SMTT(30), PendingSame, <1>21
  DEF SuspendThreadLeave, Goto, ToSuspended, TypeOK, global, thread, local
<1>22. ASSUME NEW t \in Thread, SuspendThreadWait(t) PROVE PendingExact'
  BY Zenon, PendingSame, <1>22
  DEF SuspendThreadWait, Goto, TypeOK, global, thread, local
<1>23. ASSUME NEW t \in Thread, SuspendThreadGiveUp(t) PROVE PendingExact'
  BY Zenon, PendingSame, <1>23
  DEF SuspendThreadGiveUp, Goto, WithBarriers, RemoveSuspend1Barrier, AfterDecrement,
     Broadcast, TypeOK, global, thread, local
<1>24. ASSUME NEW t \in Thread, Resume(t) PROVE PendingExact'
  BY SMTT(30), PendingSame, <1>24
  DEF Resume, Goto, AfterDecrement, Broadcast, TypeOK, global, thread, local
<1>25. ASSUME NEW t \in Thread, NEW u \in Thread, SuspendAllRequest(t, u) PROVE PendingExact'
  <2>1. u \notin Holdouts(t) /\ Holdouts(t)' = Holdouts(t) \cup {u}
    BY SMTT(30), <1>25 DEF TypeOK, BarrierInv, Holdouts, SuspendAllRequest
  <2>2. Cardinality(Holdouts(t)') = Cardinality(Holdouts(t)) + 1
    BY Zenon, <2>1, CountStep DEF Holdouts
  <2>3. todo'[t] = todo[t] \ {u} /\ Cardinality(todo[t] \ {u}) = Cardinality(todo[t]) - 1
    BY CountStep, <1>25 DEF TypeOK, SuspendAllRequest
  <2>4. Cardinality(Holdouts(t)) \in Nat /\ Cardinality(todo[t]) \in Nat
    BY ZenonT(30), CountStep DEF TypeOK, Holdouts
  <2>5. pending'[t] = Cardinality(Holdouts(t)') + Cardinality(todo'[t])
    <3>1. pending'[t] = Cardinality(Holdouts(t)) + Cardinality(todo[t])
      BY Zenon, <1>25 DEF PendingExact, SuspendAllRequest
    <3> QED
      BY <2>2, <2>3, <2>4, <3>1
  <2>6. \A r \in Thread \ {t} : pc'[r] \notin {"sa_loop", "sa_check", "sa_wait"}
    BY Zenon, <1>25 DEF TypeOK, SuspendAllInv, SuspendAllPC, SuspendAllRequest, Goto
  <2> QED
    BY Zenon, <2>5, <2>6 DEF PendingExact
<1>26. ASSUME NEW t \in Thread, NEW u \in list \ {t}, SuspendThreadCall(t, u) PROVE PendingExact'
  BY PendingSame, <1>26
  DEF SuspendThreadTry, Goto, MaySuspendOthers, ToSuspended, SuspendThreadCall, TypeOK,
     global, thread, local
<1>27. CASE UNCHANGED vars
  BY ZenonT(30), PendingSame, <1>27 DEF vars, PendingExact, global, thread, local
<1>28. ASSUME NEW t \in Thread, NEW u \in Thread, SuspendThread(t, u) PROVE PendingExact'
  BY Zenon, <1>26, <1>28 DEF SuspendThread, SuspendThreadCall
<1>29. ASSUME NEW t \in Thread, SuspendThreadRetry(t) PROVE PendingExact'
  BY Zenon, <1>26, <1>29 DEF TargetInv, Retrying, SuspendThreadRetry, SuspendThreadCall
<1> QED
  BY SMTT(30), <1>1, <1>2, <1>3, <1>4, <1>5, <1>6, <1>7, <1>8, <1>9, <1>10, <1>11, <1>12, <1>13,
     <1>14, <1>15, <1>16, <1>17, <1>18, <1>19, <1>20, <1>21, <1>22, <1>23, <1>24, <1>25,
     <1>26, <1>27, <1>28, <1>29
  DEF Next, Step, Choice, Terminated

\* Every step keeps kActiveSuspendBarrier exact.
LEMMA BarrierFlagStep ==
  ASSUME TypeOK, TargetInv, BarrierFlagExact, [Next]_vars
  PROVE BarrierFlagExact'
<1>1. ASSUME NEW t \in Thread, EnterNative(t) PROVE BarrierFlagExact'
  BY SMTT(30), ThreadAssumption, <1>1
  DEF EnterNative, Goto, ToSuspended, TypeOK, TargetInv, Requesting, BarrierFlagExact,
     global, thread, local
<1>2. ASSUME NEW t \in Thread, CheckSuspend(t) PROVE BarrierFlagExact'
  BY SMTT(30), ThreadAssumption, <1>2
  DEF CheckSuspend, Goto, ToSuspended, TypeOK, TargetInv, Requesting, BarrierFlagExact,
     global, thread, local
<1>3. ASSUME NEW t \in Thread, PassBarriers(t) PROVE BarrierFlagExact'
  BY SMTT(30), ThreadAssumption, <1>3
  DEF PassBarriers, Goto, PassActiveSuspendBarriers, TypeOK, TargetInv, Requesting,
     BarrierFlagExact, global, thread, local
<1>4. ASSUME NEW t \in Thread, NoBarriers(t) PROVE BarrierFlagExact'
  BY SMTT(30), ThreadAssumption, <1>4
  DEF NoBarriers, Goto, TypeOK, TargetInv, Requesting, BarrierFlagExact, global, thread,
     local
<1>5. ASSUME NEW t \in Thread, LeaveNative(t) PROVE BarrierFlagExact'
  BY SMTT(30), ThreadAssumption, <1>5
  DEF LeaveNative, Goto, TypeOK, TargetInv, Requesting, BarrierFlagExact, global, thread,
     local
<1>6. ASSUME NEW t \in Thread, AwaitResume(t) PROVE BarrierFlagExact'
  BY SMTT(30), ThreadAssumption, <1>6
  DEF AwaitResume, Goto, TypeOK, TargetInv, Requesting, BarrierFlagExact, global, thread,
     local
<1>7. ASSUME NEW t \in Thread, BecomeRunnable(t) PROVE BarrierFlagExact'
  BY SMTT(30), ThreadAssumption, <1>7
  DEF BecomeRunnable, Goto, TypeOK, TargetInv, Requesting, BarrierFlagExact, global, thread,
     local
<1>8. ASSUME NEW t \in Thread, Register(t) PROVE BarrierFlagExact'
  BY SMTT(30), ThreadAssumption, <1>8
  DEF Register, Goto, RequestsToInherit, TypeOK, TargetInv, Requesting, BarrierFlagExact,
     global, thread, local
<1>9. ASSUME NEW t \in Thread, BeginUnregister(t) PROVE BarrierFlagExact'
  BY SMTT(30), ThreadAssumption, <1>9
  DEF BeginUnregister, Goto, TypeOK, TargetInv, Requesting, BarrierFlagExact, global,
     thread, local
<1>10. ASSUME NEW t \in Thread, Unregister(t) PROVE BarrierFlagExact'
  BY SMTT(30), ThreadAssumption, <1>10
  DEF Unregister, Goto, MayDetach, TypeOK, TargetInv, Requesting, BarrierFlagExact, global,
     thread, local
<1>11. ASSUME NEW t \in Thread, BeginSuspendAll(t) PROVE BarrierFlagExact'
  BY SMTT(30), ThreadAssumption, <1>11
  DEF BeginSuspendAll, Goto, TypeOK, TargetInv, Requesting, BarrierFlagExact, global,
     thread, local
<1>12. ASSUME NEW t \in Thread, SuspendAllBusy(t) PROVE BarrierFlagExact'
  BY SMTT(30), ThreadAssumption, <1>12
  DEF SuspendAllBusy, Goto, TypeOK, TargetInv, Requesting, BarrierFlagExact, global, thread,
     local
<1>13. ASSUME NEW t \in Thread, SuspendAllLock(t) PROVE BarrierFlagExact'
  BY SMTT(30), ThreadAssumption, <1>13
  DEF SuspendAllLock, Goto, NoSuspendAll, TypeOK, TargetInv, Requesting, BarrierFlagExact,
     global, thread, local
<1>14. ASSUME NEW t \in Thread, SuspendAllCheck(t) PROVE BarrierFlagExact'
  BY SMTT(30), ThreadAssumption, <1>14
  DEF SuspendAllCheck, Goto, IsSuspended, WithBarriers, TypeOK, TargetInv, Requesting,
     BarrierFlagExact, global, thread, local
<1>15. ASSUME NEW t \in Thread, SuspendAllUnlock(t) PROVE BarrierFlagExact'
  BY SMTT(30), ThreadAssumption, <1>15
  DEF SuspendAllUnlock, Goto, TypeOK, TargetInv, Requesting, BarrierFlagExact, global,
     thread, local
<1>16. ASSUME NEW t \in Thread, SuspendAllWait(t) PROVE BarrierFlagExact'
  BY SMTT(30), ThreadAssumption, <1>16
  DEF SuspendAllWait, Goto, TypeOK, TargetInv, Requesting, BarrierFlagExact, global, thread,
     local
<1>17. ASSUME NEW t \in Thread, SuspendAllMutator(t) PROVE BarrierFlagExact'
  BY ThreadAssumption, <1>17
  DEF SuspendAllMutator, Goto, TypeOK, TargetInv, Requesting, BarrierFlagExact, global,
     thread, local
<1>18. ASSUME NEW t \in Thread, ResumeAll(t) PROVE BarrierFlagExact'
  BY SMTT(30), ThreadAssumption, <1>18
  DEF ResumeAll, Goto, AfterDecrement, Broadcast, TypeOK, TargetInv, Requesting,
     BarrierFlagExact, global, thread, local
<1>19. ASSUME NEW t \in Thread, SuspendThreadExited(t) PROVE BarrierFlagExact'
  BY SMTT(30), ThreadAssumption, <1>19
  DEF SuspendThreadExited, Goto, ToSuspended, TypeOK, TargetInv, Requesting,
     BarrierFlagExact, global, thread, local
<1>20. ASSUME NEW t \in Thread, SuspendThreadCheck(t) PROVE BarrierFlagExact'
  BY SMTT(30), ThreadAssumption, <1>20
  DEF SuspendThreadCheck, Goto, IsSuspended, WithBarriers, RemoveSuspend1Barrier, TypeOK,
     TargetInv, Requesting, BarrierFlagExact, global, thread, local
<1>21. ASSUME NEW t \in Thread, SuspendThreadLeave(t) PROVE BarrierFlagExact'
  BY SMTT(30), ThreadAssumption, <1>21
  DEF SuspendThreadLeave, Goto, ToSuspended, TypeOK, TargetInv, Requesting,
     BarrierFlagExact, global, thread, local
<1>22. ASSUME NEW t \in Thread, SuspendThreadWait(t) PROVE BarrierFlagExact'
  BY SMTT(30), ThreadAssumption, <1>22
  DEF SuspendThreadWait, Goto, TypeOK, TargetInv, Requesting, BarrierFlagExact, global,
     thread, local
<1>23. ASSUME NEW t \in Thread, SuspendThreadGiveUp(t) PROVE BarrierFlagExact'
  BY SMTT(30), ThreadAssumption, <1>23
  DEF SuspendThreadGiveUp, Goto, WithBarriers, RemoveSuspend1Barrier, AfterDecrement,
     Broadcast, TypeOK, TargetInv, Requesting, BarrierFlagExact, global, thread, local
<1>24. ASSUME NEW t \in Thread, Resume(t) PROVE BarrierFlagExact'
  BY SMTT(30), ThreadAssumption, <1>24
  DEF Resume, Goto, AfterDecrement, Broadcast, TypeOK, TargetInv, Requesting,
     BarrierFlagExact, global, thread, local
<1>25. ASSUME NEW t \in Thread, NEW u \in Thread, SuspendAllRequest(t, u) PROVE BarrierFlagExact'
  BY SMTT(30), ThreadAssumption, <1>25
  DEF SuspendAllRequest, Goto, TypeOK, TargetInv, Requesting, BarrierFlagExact, global,
     thread, local
<1>26. ASSUME NEW t \in Thread, NEW u \in list \ {t}, SuspendThreadCall(t, u) PROVE BarrierFlagExact'
  <2>1. CASE suspend_count[t] = 0
    <3>1. t \in suspend1_barriers'[u] /\ "kActiveSuspendBarrier" \in flags'[u]
      BY SMTT(30), <1>26, <2>1 DEF SuspendThreadCall, SuspendThreadTry, MaySuspendOthers, TypeOK
    <3>2. ASSUME NEW v \in Thread, v # u
          PROVE /\ suspend1_barriers'[v] = suspend1_barriers[v] /\ flags'[v] = flags[v]
                /\ suspendall_barrier'[v] = suspendall_barrier[v]
      BY SMTT(30), <1>26, <2>1, <3>2
      DEF SuspendThreadCall, SuspendThreadTry, MaySuspendOthers, TypeOK
    <3> QED
      BY SMTT(30), <3>1, <3>2 DEF BarrierFlagExact
  <2> QED
    BY <1>26, <2>1
    DEF SuspendThreadCall, SuspendThreadTry, MaySuspendOthers, ToSuspended, BarrierFlagExact
<1>27. CASE UNCHANGED vars
  BY ThreadAssumption, <1>27
  DEF vars, TypeOK, TargetInv, Requesting, BarrierFlagExact, global, thread, local
<1>28. ASSUME NEW t \in Thread, NEW u \in Thread, SuspendThread(t, u) PROVE BarrierFlagExact'
  BY Zenon, <1>26, <1>28 DEF SuspendThread, SuspendThreadCall
<1>29. ASSUME NEW t \in Thread, SuspendThreadRetry(t) PROVE BarrierFlagExact'
  BY Zenon, <1>26, <1>29 DEF TargetInv, Retrying, SuspendThreadRetry, SuspendThreadCall
<1> QED
  BY Zenon, <1>1, <1>2, <1>3, <1>4, <1>5, <1>6, <1>7, <1>8, <1>9, <1>10, <1>11, <1>12, <1>13,
     <1>14, <1>15, <1>16, <1>17, <1>18, <1>19, <1>20, <1>21, <1>22, <1>23, <1>24, <1>25,
     <1>26, <1>27, <1>28, <1>29
  DEF Next, Step, Choice, Terminated

------------------------------------------------------------------------------
(* Targets, types and control *)

\* Every step keeps the targets in the list.
LEMMA TargetStep ==
  ASSUME TypeOK, ControlInv, TargetInv, SuspendCountExact, [Next]_vars
  PROVE TargetInv'
<1>1. ASSUME NEW t \in Thread, EnterNative(t) PROVE TargetInv'
  BY <1>1
  DEF EnterNative, Goto, ToSuspended, TypeOK, ControlInv, TargetInv, RunnablePC, Requesting,
     Retrying, global, thread, local
<1>2. ASSUME NEW t \in Thread, CheckSuspend(t) PROVE TargetInv'
  BY SMTT(30), <1>2
  DEF CheckSuspend, Goto, ToSuspended, TypeOK, ControlInv, TargetInv, RunnablePC,
     Requesting, Retrying, global, thread, local
<1>3. ASSUME NEW t \in Thread, PassBarriers(t) PROVE TargetInv'
  BY SMTT(30), <1>3
  DEF PassBarriers, Goto, PassActiveSuspendBarriers, TypeOK, ControlInv, TargetInv,
     RunnablePC, Requesting, Retrying, global, thread, local
<1>4. ASSUME NEW t \in Thread, NoBarriers(t) PROVE TargetInv'
  BY SMTT(30), <1>4
  DEF NoBarriers, Goto, TypeOK, ControlInv, TargetInv, RunnablePC, Requesting, Retrying,
     global, thread, local
<1>5. ASSUME NEW t \in Thread, LeaveNative(t) PROVE TargetInv'
  BY SMTT(30), <1>5
  DEF LeaveNative, Goto, TypeOK, ControlInv, TargetInv, RunnablePC, Requesting, Retrying,
     global, thread, local
<1>6. ASSUME NEW t \in Thread, AwaitResume(t) PROVE TargetInv'
  BY SMTT(30), <1>6
  DEF AwaitResume, Goto, TypeOK, ControlInv, TargetInv, RunnablePC, Requesting, Retrying,
     global, thread, local
<1>7. ASSUME NEW t \in Thread, BecomeRunnable(t) PROVE TargetInv'
  BY SMTT(30), <1>7
  DEF BecomeRunnable, Goto, TypeOK, ControlInv, TargetInv, RunnablePC, Requesting, Retrying,
     global, thread, local
<1>8. ASSUME NEW t \in Thread, Register(t) PROVE TargetInv'
  BY SMTT(30), <1>8
  DEF Register, Goto, RequestsToInherit, TypeOK, ControlInv, TargetInv, RunnablePC,
     Requesting, Retrying, global, thread, local
<1>9. ASSUME NEW t \in Thread, BeginUnregister(t) PROVE TargetInv'
  BY SMTT(30), <1>9
  DEF BeginUnregister, Goto, TypeOK, ControlInv, TargetInv, RunnablePC, Requesting,
     Retrying, global, thread, local
<1>10. ASSUME NEW t \in Thread, Unregister(t) PROVE TargetInv'
  <2>1. \A r \in Thread : Requesting(r) => target[r] # t
    BY Zenon, NotSuspended, <1>10 DEF Unregister, MayDetach, Suspends
  <2>2. \A r \in Thread : pc[r] \notin {"sa_loop", "sa_check"}
    BY SMTT(30), ThreadAssumption, <1>10 DEF ControlInv, Unregister
  <2>3. /\ list' = list \ {t} /\ target' = target /\ todo' = todo /\ ret' = ret
        /\ pc'[t] = "exited" /\ \A r \in Thread \ {t} : pc'[r] = pc[r]
    BY Zenon, <1>10 DEF Unregister, Goto, TypeOK
  <2>4. ASSUME NEW r \in Thread
        PROVE (Requesting(r)' => Requesting(r)) /\ (Retrying(r)' => Retrying(r))
    BY Zenon, <2>3 DEF Requesting, Retrying
  <2> QED
    BY Zenon, <2>1, <2>2, <2>3, <2>4 DEF TargetInv
<1>11. ASSUME NEW t \in Thread, BeginSuspendAll(t) PROVE TargetInv'
  BY SMTT(30), <1>11
  DEF BeginSuspendAll, Goto, TypeOK, ControlInv, TargetInv, RunnablePC, Requesting,
     Retrying, global, thread, local
<1>12. ASSUME NEW t \in Thread, SuspendAllBusy(t) PROVE TargetInv'
  BY SMTT(30), <1>12
  DEF SuspendAllBusy, Goto, TypeOK, ControlInv, TargetInv, RunnablePC, Requesting, Retrying,
     global, thread, local
<1>13. ASSUME NEW t \in Thread, SuspendAllLock(t) PROVE TargetInv'
  BY SMTT(30), <1>13
  DEF SuspendAllLock, Goto, NoSuspendAll, TypeOK, ControlInv, TargetInv, RunnablePC,
     Requesting, Retrying, global, thread, local
<1>14. ASSUME NEW t \in Thread, SuspendAllCheck(t) PROVE TargetInv'
  BY SMTT(30), <1>14
  DEF SuspendAllCheck, Goto, IsSuspended, WithBarriers, TypeOK, ControlInv, TargetInv,
     RunnablePC, Requesting, Retrying, global, thread, local
<1>15. ASSUME NEW t \in Thread, SuspendAllUnlock(t) PROVE TargetInv'
  BY SMTT(30), <1>15
  DEF SuspendAllUnlock, Goto, TypeOK, ControlInv, TargetInv, RunnablePC, Requesting,
     Retrying, global, thread, local
<1>16. ASSUME NEW t \in Thread, SuspendAllWait(t) PROVE TargetInv'
  BY SMTT(30), <1>16
  DEF SuspendAllWait, Goto, TypeOK, ControlInv, TargetInv, RunnablePC, Requesting, Retrying,
     global, thread, local
<1>17. ASSUME NEW t \in Thread, SuspendAllMutator(t) PROVE TargetInv'
  BY <1>17
  DEF SuspendAllMutator, Goto, TypeOK, ControlInv, TargetInv, RunnablePC, Requesting,
     Retrying, global, thread, local
<1>18. ASSUME NEW t \in Thread, ResumeAll(t) PROVE TargetInv'
  BY SMTT(30), <1>18
  DEF ResumeAll, Goto, AfterDecrement, Broadcast, TypeOK, ControlInv, TargetInv, RunnablePC,
     Requesting, Retrying, global, thread, local
<1>19. ASSUME NEW t \in Thread, SuspendThreadExited(t) PROVE TargetInv'
  BY SMTT(30), <1>19
  DEF SuspendThreadExited, Goto, ToSuspended, TypeOK, ControlInv, TargetInv, RunnablePC,
     Requesting, Retrying, global, thread, local
<1>20. ASSUME NEW t \in Thread, SuspendThreadCheck(t) PROVE TargetInv'
  BY SMTT(30), <1>20
  DEF SuspendThreadCheck, Goto, IsSuspended, WithBarriers, RemoveSuspend1Barrier, TypeOK,
     ControlInv, TargetInv, RunnablePC, Requesting, Retrying, global, thread, local
<1>21. ASSUME NEW t \in Thread, SuspendThreadLeave(t) PROVE TargetInv'
  BY SMTT(30), <1>21
  DEF SuspendThreadLeave, Goto, ToSuspended, TypeOK, ControlInv, TargetInv, RunnablePC,
     Requesting, Retrying, global, thread, local
<1>22. ASSUME NEW t \in Thread, SuspendThreadWait(t) PROVE TargetInv'
  BY SMTT(30), <1>22
  DEF SuspendThreadWait, Goto, TypeOK, ControlInv, TargetInv, RunnablePC, Requesting,
     Retrying, global, thread, local
<1>23. ASSUME NEW t \in Thread, SuspendThreadGiveUp(t) PROVE TargetInv'
  BY SMTT(30), <1>23
  DEF SuspendThreadGiveUp, Goto, WithBarriers, RemoveSuspend1Barrier, AfterDecrement,
     Broadcast, TypeOK, ControlInv, TargetInv, RunnablePC, Requesting, Retrying, global,
     thread, local
<1>24. ASSUME NEW t \in Thread, Resume(t) PROVE TargetInv'
  BY SMTT(30), <1>24
  DEF Resume, Goto, AfterDecrement, Broadcast, TypeOK, ControlInv, TargetInv, RunnablePC,
     Requesting, Retrying, global, thread, local
<1>25. ASSUME NEW t \in Thread, NEW u \in Thread, SuspendAllRequest(t, u) PROVE TargetInv'
  BY SMTT(30), <1>25
  DEF SuspendAllRequest, Goto, TypeOK, ControlInv, TargetInv, RunnablePC, Requesting,
     Retrying, global, thread, local
<1>26. ASSUME NEW t \in Thread, NEW u \in list \ {t}, SuspendThreadCall(t, u) PROVE TargetInv'
  BY SMTT(30), <1>26
  DEF SuspendThreadTry, Goto, MaySuspendOthers, ToSuspended, SuspendThreadCall, TypeOK,
     ControlInv, TargetInv, RunnablePC, Requesting, Retrying, global, thread, local
<1>27. CASE UNCHANGED vars
  BY <1>27
  DEF vars, TypeOK, ControlInv, TargetInv, RunnablePC, Requesting, Retrying, global, thread,
     local
<1>28. ASSUME NEW t \in Thread, NEW u \in Thread, SuspendThread(t, u) PROVE TargetInv'
  BY Zenon, <1>26, <1>28 DEF SuspendThread, SuspendThreadCall
<1>29. ASSUME NEW t \in Thread, SuspendThreadRetry(t) PROVE TargetInv'
  BY Zenon, <1>26, <1>29 DEF TargetInv, Retrying, SuspendThreadRetry, SuspendThreadCall
<1> QED
  BY SMTT(30), <1>1, <1>2, <1>3, <1>4, <1>5, <1>6, <1>7, <1>8, <1>9, <1>10, <1>11, <1>12, <1>13,
     <1>14, <1>15, <1>16, <1>17, <1>18, <1>19, <1>20, <1>21, <1>22, <1>23, <1>24, <1>25,
     <1>26, <1>27, <1>28, <1>29
  DEF Next, Step, Choice, Terminated

\* Every step keeps the types.
LEMMA TypeStep ==
  ASSUME TypeOK, TargetInv, SuspendAllInv, [Next]_vars
  PROVE TypeOK'
<1>1. ASSUME NEW t \in Thread, EnterNative(t) PROVE TypeOK'
  BY ThreadAssumption, <1>1
  DEF EnterNative, Goto, ToSuspended, TypeOK, PC, RunnablePC, SuspendAllPC, Flag, global,
     thread, local
<1>2. ASSUME NEW t \in Thread, CheckSuspend(t) PROVE TypeOK'
  BY ThreadAssumption, <1>2
  DEF CheckSuspend, Goto, ToSuspended, TypeOK, PC, RunnablePC, SuspendAllPC, Flag, global,
     thread, local
<1>3. ASSUME NEW t \in Thread, PassBarriers(t) PROVE TypeOK'
  BY ThreadAssumption, <1>3
  DEF PassBarriers, Goto, PassActiveSuspendBarriers, TypeOK, PC, RunnablePC, SuspendAllPC,
     Flag, global, thread, local
<1>4. ASSUME NEW t \in Thread, NoBarriers(t) PROVE TypeOK'
  BY ThreadAssumption, <1>4
  DEF NoBarriers, Goto, TypeOK, PC, RunnablePC, SuspendAllPC, Flag, global, thread, local
<1>5. ASSUME NEW t \in Thread, LeaveNative(t) PROVE TypeOK'
  BY ThreadAssumption, <1>5
  DEF LeaveNative, Goto, TypeOK, PC, RunnablePC, SuspendAllPC, Flag, global, thread, local
<1>6. ASSUME NEW t \in Thread, AwaitResume(t) PROVE TypeOK'
  BY ThreadAssumption, <1>6
  DEF AwaitResume, Goto, TypeOK, PC, RunnablePC, SuspendAllPC, Flag, global, thread, local
<1>7. ASSUME NEW t \in Thread, BecomeRunnable(t) PROVE TypeOK'
  BY ThreadAssumption, <1>7
  DEF BecomeRunnable, Goto, TypeOK, PC, RunnablePC, SuspendAllPC, Flag, global, thread,
     local
<1>8. ASSUME NEW t \in Thread, Register(t) PROVE TypeOK'
  BY ThreadAssumption, <1>8
  DEF Register, Goto, RequestsToInherit, TypeOK, PC, RunnablePC, SuspendAllPC, Flag, global,
     thread, local
<1>9. ASSUME NEW t \in Thread, BeginUnregister(t) PROVE TypeOK'
  BY ThreadAssumption, <1>9
  DEF BeginUnregister, Goto, TypeOK, PC, RunnablePC, SuspendAllPC, Flag, global, thread,
     local
<1>10. ASSUME NEW t \in Thread, Unregister(t) PROVE TypeOK'
  BY ThreadAssumption, <1>10
  DEF Unregister, Goto, MayDetach, TypeOK, PC, RunnablePC, SuspendAllPC, Flag, global,
     thread, local
<1>11. ASSUME NEW t \in Thread, BeginSuspendAll(t) PROVE TypeOK'
  BY ThreadAssumption, <1>11
  DEF BeginSuspendAll, Goto, TypeOK, PC, RunnablePC, SuspendAllPC, Flag, global, thread,
     local
<1>12. ASSUME NEW t \in Thread, SuspendAllBusy(t) PROVE TypeOK'
  BY ThreadAssumption, <1>12
  DEF SuspendAllBusy, Goto, TypeOK, PC, RunnablePC, SuspendAllPC, Flag, global, thread,
     local
<1>13. ASSUME NEW t \in Thread, SuspendAllLock(t) PROVE TypeOK'
  <2>1. Cardinality(list) \in Nat
    BY ThreadAssumption, FS_Subset, FS_CardinalityType DEF TypeOK
  <2> QED
    BY ThreadAssumption, <1>13, <2>1
    DEF SuspendAllLock, Goto, NoSuspendAll, TypeOK, PC, RunnablePC, SuspendAllPC, Flag, global,
        thread, local
<1>14. ASSUME NEW t \in Thread, SuspendAllCheck(t) PROVE TypeOK'
  BY ThreadAssumption, <1>14
  DEF SuspendAllCheck, Goto, IsSuspended, WithBarriers, TypeOK, PC, RunnablePC,
     SuspendAllPC, Flag, global, thread, local
<1>15. ASSUME NEW t \in Thread, SuspendAllUnlock(t) PROVE TypeOK'
  BY ThreadAssumption, <1>15
  DEF SuspendAllUnlock, Goto, TypeOK, PC, RunnablePC, SuspendAllPC, Flag, global, thread,
     local
<1>16. ASSUME NEW t \in Thread, SuspendAllWait(t) PROVE TypeOK'
  BY ThreadAssumption, <1>16
  DEF SuspendAllWait, Goto, TypeOK, PC, RunnablePC, SuspendAllPC, Flag, global, thread,
     local
<1>17. ASSUME NEW t \in Thread, SuspendAllMutator(t) PROVE TypeOK'
  BY ThreadAssumption, <1>17
  DEF SuspendAllMutator, Goto, TypeOK, PC, RunnablePC, SuspendAllPC, Flag, global, thread,
     local
<1>18. ASSUME NEW t \in Thread, ResumeAll(t) PROVE TypeOK'
  <2>1. suspend_all_count = 1
    BY <1>18 DEF SuspendAllInv, SuspendAllPC, ResumeAll
  <2>2. flags' \in [Thread -> SUBSET Flag]
    BY <1>18 DEF ResumeAll, AfterDecrement, TypeOK
  <2> QED
    BY ThreadAssumption, <1>18, <2>1, <2>2
    DEF ResumeAll, Goto, Broadcast, TypeOK, PC, RunnablePC, SuspendAllPC, global, thread, local
<1>19. ASSUME NEW t \in Thread, SuspendThreadExited(t) PROVE TypeOK'
  BY ThreadAssumption, <1>19
  DEF SuspendThreadExited, Goto, ToSuspended, TypeOK, PC, RunnablePC, SuspendAllPC, Flag,
     global, thread, local
<1>20. ASSUME NEW t \in Thread, SuspendThreadCheck(t) PROVE TypeOK'
  BY ThreadAssumption, <1>20
  DEF SuspendThreadCheck, Goto, IsSuspended, WithBarriers, RemoveSuspend1Barrier, TypeOK,
     PC, RunnablePC, SuspendAllPC, Flag, global, thread, local
<1>21. ASSUME NEW t \in Thread, SuspendThreadLeave(t) PROVE TypeOK'
  BY ThreadAssumption, <1>21
  DEF SuspendThreadLeave, Goto, ToSuspended, TypeOK, PC, RunnablePC, SuspendAllPC, Flag,
     global, thread, local
<1>22. ASSUME NEW t \in Thread, SuspendThreadWait(t) PROVE TypeOK'
  BY ThreadAssumption, <1>22
  DEF SuspendThreadWait, Goto, TypeOK, PC, RunnablePC, SuspendAllPC, Flag, global, thread,
     local
<1>23. ASSUME NEW t \in Thread, SuspendThreadGiveUp(t) PROVE TypeOK'
  <2>1. target[t] \in Thread
    BY <1>23 DEF TypeOK, TargetInv, Requesting, SuspendThreadGiveUp
  <2> QED
    BY ThreadAssumption, <1>23, <2>1
    DEF SuspendThreadGiveUp, Goto, WithBarriers, RemoveSuspend1Barrier, AfterDecrement,
       Broadcast, TypeOK, PC, RunnablePC, SuspendAllPC, Flag, global, thread, local
<1>24. ASSUME NEW t \in Thread, Resume(t) PROVE TypeOK'
  <2>1. target[t] \in Thread
    BY <1>24 DEF TypeOK, TargetInv, Requesting, Resume
  <2> QED
    BY ThreadAssumption, <1>24, <2>1
    DEF Resume, Goto, AfterDecrement, Broadcast, TypeOK, PC, RunnablePC, SuspendAllPC, Flag,
       global, thread, local
<1>25. ASSUME NEW t \in Thread, NEW u \in Thread, SuspendAllRequest(t, u) PROVE TypeOK'
  BY ThreadAssumption, <1>25
  DEF SuspendAllRequest, Goto, TypeOK, PC, RunnablePC, SuspendAllPC, Flag, global, thread,
     local
<1>26. ASSUME NEW t \in Thread, NEW u \in list \ {t}, SuspendThreadCall(t, u) PROVE TypeOK'
  BY SMTT(30), ThreadAssumption, <1>26
  DEF SuspendThreadTry, Goto, MaySuspendOthers, ToSuspended, SuspendThreadCall, TypeOK, PC,
     RunnablePC, SuspendAllPC, Flag, global, thread, local
<1>27. CASE UNCHANGED vars
  BY ThreadAssumption, <1>27
  DEF vars, TypeOK, PC, RunnablePC, SuspendAllPC, Flag, global, thread, local
<1>28. ASSUME NEW t \in Thread, NEW u \in Thread, SuspendThread(t, u) PROVE TypeOK'
  BY Zenon, <1>26, <1>28 DEF SuspendThread, SuspendThreadCall
<1>29. ASSUME NEW t \in Thread, SuspendThreadRetry(t) PROVE TypeOK'
  BY Zenon, <1>26, <1>29 DEF TargetInv, Retrying, SuspendThreadRetry, SuspendThreadCall
<1> QED
  BY SMTT(30), <1>1, <1>2, <1>3, <1>4, <1>5, <1>6, <1>7, <1>8, <1>9, <1>10, <1>11, <1>12, <1>13,
     <1>14, <1>15, <1>16, <1>17, <1>18, <1>19, <1>20, <1>21, <1>22, <1>23, <1>24, <1>25,
     <1>26, <1>27, <1>28, <1>29
  DEF Next, Step, Choice, Terminated

\* Every step keeps the control state consistent.
LEMMA ControlStep ==
  ASSUME TypeOK, TargetInv, ControlInv, [Next]_vars
  PROVE ControlInv'
<1>1. ASSUME NEW t \in Thread, EnterNative(t) PROVE ControlInv'
  BY ThreadAssumption, <1>1
  DEF EnterNative, Goto, ToSuspended, TypeOK, ControlInv, RunnablePC, global, thread, local
<1>2. ASSUME NEW t \in Thread, CheckSuspend(t) PROVE ControlInv'
  BY ThreadAssumption, <1>2
  DEF CheckSuspend, Goto, ToSuspended, TypeOK, ControlInv, RunnablePC, global, thread, local
<1>3. ASSUME NEW t \in Thread, PassBarriers(t) PROVE ControlInv'
  BY ThreadAssumption, <1>3
  DEF PassBarriers, Goto, PassActiveSuspendBarriers, TypeOK, ControlInv, RunnablePC, global,
     thread, local
<1>4. ASSUME NEW t \in Thread, NoBarriers(t) PROVE ControlInv'
  BY ThreadAssumption, <1>4
  DEF NoBarriers, Goto, TypeOK, ControlInv, RunnablePC, global, thread, local
<1>5. ASSUME NEW t \in Thread, LeaveNative(t) PROVE ControlInv'
  BY ThreadAssumption, <1>5
  DEF LeaveNative, Goto, TypeOK, ControlInv, RunnablePC, global, thread, local
<1>6. ASSUME NEW t \in Thread, AwaitResume(t) PROVE ControlInv'
  BY ThreadAssumption, <1>6
  DEF AwaitResume, Goto, TypeOK, ControlInv, RunnablePC, global, thread, local
<1>7. ASSUME NEW t \in Thread, BecomeRunnable(t) PROVE ControlInv'
  BY ThreadAssumption, <1>7
  DEF BecomeRunnable, Goto, TypeOK, ControlInv, RunnablePC, global, thread, local
<1>8. ASSUME NEW t \in Thread, Register(t) PROVE ControlInv'
  BY ThreadAssumption, <1>8
  DEF Register, Goto, RequestsToInherit, TypeOK, ControlInv, RunnablePC, global, thread,
     local
<1>9. ASSUME NEW t \in Thread, BeginUnregister(t) PROVE ControlInv'
  BY ThreadAssumption, <1>9
  DEF BeginUnregister, Goto, TypeOK, ControlInv, RunnablePC, global, thread, local
<1>10. ASSUME NEW t \in Thread, Unregister(t) PROVE ControlInv'
  BY ThreadAssumption, <1>10
  DEF Unregister, Goto, MayDetach, TypeOK, ControlInv, RunnablePC, global, thread, local
<1>11. ASSUME NEW t \in Thread, BeginSuspendAll(t) PROVE ControlInv'
  BY ThreadAssumption, <1>11
  DEF BeginSuspendAll, Goto, TypeOK, ControlInv, RunnablePC, global, thread, local
<1>12. ASSUME NEW t \in Thread, SuspendAllBusy(t) PROVE ControlInv'
  BY ThreadAssumption, <1>12
  DEF SuspendAllBusy, Goto, TypeOK, ControlInv, RunnablePC, global, thread, local
<1>13. ASSUME NEW t \in Thread, SuspendAllLock(t) PROVE ControlInv'
  BY ThreadAssumption, <1>13
  DEF SuspendAllLock, Goto, NoSuspendAll, TypeOK, ControlInv, RunnablePC, global, thread,
     local
<1>14. ASSUME NEW t \in Thread, SuspendAllCheck(t) PROVE ControlInv'
  BY ThreadAssumption, <1>14
  DEF SuspendAllCheck, Goto, IsSuspended, WithBarriers, TypeOK, ControlInv, RunnablePC,
     global, thread, local
<1>15. ASSUME NEW t \in Thread, SuspendAllUnlock(t) PROVE ControlInv'
  BY ThreadAssumption, <1>15
  DEF SuspendAllUnlock, Goto, TypeOK, ControlInv, RunnablePC, global, thread, local
<1>16. ASSUME NEW t \in Thread, SuspendAllWait(t) PROVE ControlInv'
  BY ThreadAssumption, <1>16
  DEF SuspendAllWait, Goto, TypeOK, ControlInv, RunnablePC, global, thread, local
<1>17. ASSUME NEW t \in Thread, SuspendAllMutator(t) PROVE ControlInv'
  BY ThreadAssumption, <1>17
  DEF SuspendAllMutator, Goto, TypeOK, ControlInv, RunnablePC, global, thread, local
<1>18. ASSUME NEW t \in Thread, ResumeAll(t) PROVE ControlInv'
  BY ThreadAssumption, <1>18
  DEF ResumeAll, Goto, AfterDecrement, Broadcast, TypeOK, ControlInv, RunnablePC, global,
     thread, local
<1>19. ASSUME NEW t \in Thread, SuspendThreadExited(t) PROVE ControlInv'
  BY ThreadAssumption, <1>19
  DEF SuspendThreadExited, Goto, ToSuspended, TypeOK, ControlInv, RunnablePC, global,
     thread, local
<1>20. ASSUME NEW t \in Thread, SuspendThreadCheck(t) PROVE ControlInv'
  BY ThreadAssumption, <1>20
  DEF SuspendThreadCheck, Goto, IsSuspended, WithBarriers, RemoveSuspend1Barrier, TypeOK,
     ControlInv, RunnablePC, global, thread, local
<1>21. ASSUME NEW t \in Thread, SuspendThreadLeave(t) PROVE ControlInv'
  BY ThreadAssumption, <1>21
  DEF SuspendThreadLeave, Goto, ToSuspended, TypeOK, ControlInv, RunnablePC, global, thread,
     local
<1>22. ASSUME NEW t \in Thread, SuspendThreadWait(t) PROVE ControlInv'
  BY ThreadAssumption, <1>22
  DEF SuspendThreadWait, Goto, TypeOK, ControlInv, RunnablePC, global, thread, local
<1>23. ASSUME NEW t \in Thread, SuspendThreadGiveUp(t) PROVE ControlInv'
  BY ThreadAssumption, <1>23
  DEF SuspendThreadGiveUp, Goto, WithBarriers, RemoveSuspend1Barrier, AfterDecrement,
     Broadcast, TypeOK, ControlInv, RunnablePC, global, thread, local
<1>24. ASSUME NEW t \in Thread, Resume(t) PROVE ControlInv'
  BY ThreadAssumption, <1>24
  DEF Resume, Goto, AfterDecrement, Broadcast, TypeOK, ControlInv, RunnablePC, global,
     thread, local
<1>25. ASSUME NEW t \in Thread, NEW u \in Thread, SuspendAllRequest(t, u) PROVE ControlInv'
  BY ThreadAssumption, <1>25
  DEF SuspendAllRequest, Goto, TypeOK, ControlInv, RunnablePC, global, thread, local
<1>26. ASSUME NEW t \in Thread, NEW u \in list \ {t}, SuspendThreadCall(t, u) PROVE ControlInv'
  BY SMTT(30), ThreadAssumption, <1>26
  DEF SuspendThreadTry, Goto, MaySuspendOthers, ToSuspended, SuspendThreadCall, TypeOK,
     ControlInv, RunnablePC, global, thread, local
<1>27. CASE UNCHANGED vars
  BY ThreadAssumption, <1>27
  DEF vars, TypeOK, ControlInv, RunnablePC, global, thread, local
<1>28. ASSUME NEW t \in Thread, NEW u \in Thread, SuspendThread(t, u) PROVE ControlInv'
  BY Zenon, <1>26, <1>28 DEF SuspendThread, SuspendThreadCall
<1>29. ASSUME NEW t \in Thread, SuspendThreadRetry(t) PROVE ControlInv'
  BY Zenon, <1>26, <1>29 DEF TargetInv, Retrying, SuspendThreadRetry, SuspendThreadCall
<1> QED
  BY SMTT(30), <1>1, <1>2, <1>3, <1>4, <1>5, <1>6, <1>7, <1>8, <1>9, <1>10, <1>11, <1>12, <1>13,
     <1>14, <1>15, <1>16, <1>17, <1>18, <1>19, <1>20, <1>21, <1>22, <1>23, <1>24, <1>25,
     <1>26, <1>27, <1>28, <1>29
  DEF Next, Step, Choice, Terminated

\* Every step keeps SuspendAll exclusive.
LEMMA SuspendAllStep ==
  ASSUME TypeOK, TargetInv, ControlInv, SuspendAllInv, [Next]_vars
  PROVE SuspendAllInv'
<1>1. ASSUME NEW t \in Thread, EnterNative(t) PROVE SuspendAllInv'
  BY <1>1
  DEF EnterNative, Goto, ToSuspended, TypeOK, SuspendAllInv, SuspendAllPC, global, thread,
     local
<1>2. ASSUME NEW t \in Thread, CheckSuspend(t) PROVE SuspendAllInv'
  BY <1>2
  DEF CheckSuspend, Goto, ToSuspended, TypeOK, SuspendAllInv, SuspendAllPC, global, thread,
     local
<1>3. ASSUME NEW t \in Thread, PassBarriers(t) PROVE SuspendAllInv'
  BY <1>3
  DEF PassBarriers, Goto, PassActiveSuspendBarriers, TypeOK, SuspendAllInv, SuspendAllPC,
     global, thread, local
<1>4. ASSUME NEW t \in Thread, NoBarriers(t) PROVE SuspendAllInv'
  BY <1>4
  DEF NoBarriers, Goto, TypeOK, SuspendAllInv, SuspendAllPC, global, thread, local
<1>5. ASSUME NEW t \in Thread, LeaveNative(t) PROVE SuspendAllInv'
  BY <1>5
  DEF LeaveNative, Goto, TypeOK, SuspendAllInv, SuspendAllPC, global, thread, local
<1>6. ASSUME NEW t \in Thread, AwaitResume(t) PROVE SuspendAllInv'
  BY <1>6
  DEF AwaitResume, Goto, TypeOK, SuspendAllInv, SuspendAllPC, global, thread, local
<1>7. ASSUME NEW t \in Thread, BecomeRunnable(t) PROVE SuspendAllInv'
  BY <1>7
  DEF BecomeRunnable, Goto, TypeOK, SuspendAllInv, SuspendAllPC, global, thread, local
<1>8. ASSUME NEW t \in Thread, Register(t) PROVE SuspendAllInv'
  BY <1>8
  DEF Register, Goto, RequestsToInherit, TypeOK, SuspendAllInv, SuspendAllPC, global,
     thread, local
<1>9. ASSUME NEW t \in Thread, BeginUnregister(t) PROVE SuspendAllInv'
  BY <1>9
  DEF BeginUnregister, Goto, TypeOK, SuspendAllInv, SuspendAllPC, global, thread, local
<1>10. ASSUME NEW t \in Thread, Unregister(t) PROVE SuspendAllInv'
  BY <1>10
  DEF Unregister, Goto, MayDetach, TypeOK, SuspendAllInv, SuspendAllPC, global, thread,
     local
<1>11. ASSUME NEW t \in Thread, BeginSuspendAll(t) PROVE SuspendAllInv'
  BY <1>11
  DEF BeginSuspendAll, Goto, TypeOK, SuspendAllInv, SuspendAllPC, global, thread, local
<1>12. ASSUME NEW t \in Thread, SuspendAllBusy(t) PROVE SuspendAllInv'
  BY <1>12
  DEF SuspendAllBusy, Goto, TypeOK, SuspendAllInv, SuspendAllPC, global, thread, local
<1>13. ASSUME NEW t \in Thread, SuspendAllLock(t) PROVE SuspendAllInv'
  BY <1>13
  DEF SuspendAllLock, Goto, NoSuspendAll, TypeOK, SuspendAllInv, SuspendAllPC, global,
     thread, local
<1>14. ASSUME NEW t \in Thread, SuspendAllCheck(t) PROVE SuspendAllInv'
  BY <1>14
  DEF SuspendAllCheck, Goto, IsSuspended, WithBarriers, TypeOK, SuspendAllInv, SuspendAllPC,
     global, thread, local
<1>15. ASSUME NEW t \in Thread, SuspendAllUnlock(t) PROVE SuspendAllInv'
  BY <1>15
  DEF SuspendAllUnlock, Goto, TypeOK, SuspendAllInv, SuspendAllPC, global, thread, local
<1>16. ASSUME NEW t \in Thread, SuspendAllWait(t) PROVE SuspendAllInv'
  BY <1>16
  DEF SuspendAllWait, Goto, TypeOK, SuspendAllInv, SuspendAllPC, global, thread, local
<1>17. ASSUME NEW t \in Thread, SuspendAllMutator(t) PROVE SuspendAllInv'
  BY <1>17
  DEF SuspendAllMutator, Goto, TypeOK, SuspendAllInv, SuspendAllPC, global, thread, local
<1>18. ASSUME NEW t \in Thread, ResumeAll(t) PROVE SuspendAllInv'
  BY <1>18
  DEF ResumeAll, Goto, AfterDecrement, Broadcast, TypeOK, SuspendAllInv, SuspendAllPC,
     global, thread, local
<1>19. ASSUME NEW t \in Thread, SuspendThreadExited(t) PROVE SuspendAllInv'
  BY <1>19
  DEF SuspendThreadExited, Goto, ToSuspended, TypeOK, SuspendAllInv, SuspendAllPC, global,
     thread, local
<1>20. ASSUME NEW t \in Thread, SuspendThreadCheck(t) PROVE SuspendAllInv'
  BY <1>20
  DEF SuspendThreadCheck, Goto, IsSuspended, WithBarriers, RemoveSuspend1Barrier, TypeOK,
     SuspendAllInv, SuspendAllPC, global, thread, local
<1>21. ASSUME NEW t \in Thread, SuspendThreadLeave(t) PROVE SuspendAllInv'
  BY <1>21
  DEF SuspendThreadLeave, Goto, ToSuspended, TypeOK, SuspendAllInv, SuspendAllPC, global,
     thread, local
<1>22. ASSUME NEW t \in Thread, SuspendThreadWait(t) PROVE SuspendAllInv'
  BY <1>22
  DEF SuspendThreadWait, Goto, TypeOK, SuspendAllInv, SuspendAllPC, global, thread, local
<1>23. ASSUME NEW t \in Thread, SuspendThreadGiveUp(t) PROVE SuspendAllInv'
  BY <1>23
  DEF SuspendThreadGiveUp, Goto, WithBarriers, RemoveSuspend1Barrier, AfterDecrement,
     Broadcast, TypeOK, SuspendAllInv, SuspendAllPC, global, thread, local
<1>24. ASSUME NEW t \in Thread, Resume(t) PROVE SuspendAllInv'
  BY <1>24
  DEF Resume, Goto, AfterDecrement, Broadcast, TypeOK, SuspendAllInv, SuspendAllPC, global,
     thread, local
<1>25. ASSUME NEW t \in Thread, NEW u \in Thread, SuspendAllRequest(t, u) PROVE SuspendAllInv'
  BY <1>25
  DEF SuspendAllRequest, Goto, TypeOK, SuspendAllInv, SuspendAllPC, global, thread, local
<1>26. ASSUME NEW t \in Thread, NEW u \in list \ {t}, SuspendThreadCall(t, u) PROVE SuspendAllInv'
  BY <1>26
  DEF SuspendThreadTry, Goto, MaySuspendOthers, ToSuspended, SuspendThreadCall, TypeOK,
     SuspendAllInv, SuspendAllPC, global, thread, local
<1>27. CASE UNCHANGED vars
  BY <1>27
  DEF vars, TypeOK, SuspendAllInv, SuspendAllPC, global, thread, local
<1>28. ASSUME NEW t \in Thread, NEW u \in Thread, SuspendThread(t, u) PROVE SuspendAllInv'
  BY Zenon, <1>26, <1>28 DEF SuspendThread, SuspendThreadCall
<1>29. ASSUME NEW t \in Thread, SuspendThreadRetry(t) PROVE SuspendAllInv'
  BY Zenon, <1>26, <1>29 DEF TargetInv, Retrying, SuspendThreadRetry, SuspendThreadCall
<1> QED
  BY Zenon, <1>1, <1>2, <1>3, <1>4, <1>5, <1>6, <1>7, <1>8, <1>9, <1>10, <1>11, <1>12, <1>13,
     <1>14, <1>15, <1>16, <1>17, <1>18, <1>19, <1>20, <1>21, <1>22, <1>23, <1>24, <1>25,
     <1>26, <1>27, <1>28, <1>29
  DEF Next, Step, Choice, Terminated

\* A step that makes no thread suspend another creates no cycle.
LEMMA CycleSame ==
  ASSUME NoSuspensionCycle,
         \A r \in Thread : Requesting(r)' => Requesting(r) /\ target'[r] = target[r]
  PROVE NoSuspensionCycle'
<1> SUFFICES ASSUME NEW S \in (SUBSET Thread) \ {{}}
             PROVE \E t \in S : \A r \in S : ~(Requesting(r)' /\ target'[r] = t)
  BY DEF NoSuspensionCycle
<1>1. PICK t \in S : \A r \in S : ~(Requesting(r) /\ target[r] = t)
  BY Zenon DEF NoSuspensionCycle
<1> QED
  BY <1>1

\* No step closes a cycle of suspensions.
LEMMA CycleStep ==
  ASSUME TypeOK, ControlInv, TargetInv, SuspendCountExact, NoSuspensionCycle, [Next]_vars
  PROVE NoSuspensionCycle'
<1>1. ASSUME NEW t \in Thread, EnterNative(t) PROVE NoSuspensionCycle'
  <2>1. \A r \in Thread : Requesting(r)' => Requesting(r) /\ target'[r] = target[r]
    BY Zenon, <1>1
    DEF EnterNative, Goto, ToSuspended, TypeOK, ControlInv, Requesting, RunnablePC, global,
       thread, local
  <2> QED
    BY Zenon, <2>1, CycleSame
<1>2. ASSUME NEW t \in Thread, CheckSuspend(t) PROVE NoSuspensionCycle'
  <2>1. \A r \in Thread : Requesting(r)' => Requesting(r) /\ target'[r] = target[r]
    BY Zenon, <1>2
    DEF CheckSuspend, Goto, ToSuspended, TypeOK, ControlInv, Requesting, RunnablePC, global,
       thread, local
  <2> QED
    BY <2>1, CycleSame
<1>3. ASSUME NEW t \in Thread, PassBarriers(t) PROVE NoSuspensionCycle'
  <2>1. \A r \in Thread : Requesting(r)' => Requesting(r) /\ target'[r] = target[r]
    BY Zenon, <1>3
    DEF PassBarriers, Goto, PassActiveSuspendBarriers, TypeOK, ControlInv, Requesting,
       RunnablePC, global, thread, local
  <2> QED
    BY <2>1, CycleSame
<1>4. ASSUME NEW t \in Thread, NoBarriers(t) PROVE NoSuspensionCycle'
  <2>1. \A r \in Thread : Requesting(r)' => Requesting(r) /\ target'[r] = target[r]
    BY Zenon, <1>4
    DEF NoBarriers, Goto, TypeOK, ControlInv, Requesting, RunnablePC, global, thread, local
  <2> QED
    BY <2>1, CycleSame
<1>5. ASSUME NEW t \in Thread, LeaveNative(t) PROVE NoSuspensionCycle'
  <2>1. \A r \in Thread : Requesting(r)' => Requesting(r) /\ target'[r] = target[r]
    BY Zenon, <1>5
    DEF LeaveNative, Goto, TypeOK, ControlInv, Requesting, RunnablePC, global, thread, local
  <2> QED
    BY <2>1, CycleSame
<1>6. ASSUME NEW t \in Thread, AwaitResume(t) PROVE NoSuspensionCycle'
  <2>1. \A r \in Thread : Requesting(r)' => Requesting(r) /\ target'[r] = target[r]
    BY SMTT(30), <1>6
    DEF AwaitResume, Goto, TypeOK, ControlInv, Requesting, RunnablePC, global, thread, local
  <2> QED
    BY <2>1, CycleSame
<1>7. ASSUME NEW t \in Thread, BecomeRunnable(t) PROVE NoSuspensionCycle'
  <2>1. \A r \in Thread : Requesting(r)' => Requesting(r) /\ target'[r] = target[r]
    BY Zenon, <1>7
    DEF BecomeRunnable, Goto, TypeOK, ControlInv, Requesting, RunnablePC, global, thread,
       local
  <2> QED
    BY <2>1, CycleSame
<1>8. ASSUME NEW t \in Thread, Register(t) PROVE NoSuspensionCycle'
  <2>1. \A r \in Thread : Requesting(r)' => Requesting(r) /\ target'[r] = target[r]
    BY Zenon, <1>8
    DEF Register, Goto, RequestsToInherit, TypeOK, ControlInv, Requesting, RunnablePC,
       global, thread, local
  <2> QED
    BY <2>1, CycleSame
<1>9. ASSUME NEW t \in Thread, BeginUnregister(t) PROVE NoSuspensionCycle'
  <2>1. \A r \in Thread : Requesting(r)' => Requesting(r) /\ target'[r] = target[r]
    BY Zenon, <1>9
    DEF BeginUnregister, Goto, TypeOK, ControlInv, Requesting, RunnablePC, global, thread,
       local
  <2> QED
    BY <2>1, CycleSame
<1>10. ASSUME NEW t \in Thread, Unregister(t) PROVE NoSuspensionCycle'
  <2>1. \A r \in Thread : Requesting(r)' => Requesting(r) /\ target'[r] = target[r]
    BY Zenon, <1>10
    DEF Unregister, Goto, MayDetach, TypeOK, ControlInv, Requesting, RunnablePC, global,
       thread, local
  <2> QED
    BY <2>1, CycleSame
<1>11. ASSUME NEW t \in Thread, BeginSuspendAll(t) PROVE NoSuspensionCycle'
  <2>1. \A r \in Thread : Requesting(r)' => Requesting(r) /\ target'[r] = target[r]
    BY SMTT(30), <1>11
    DEF BeginSuspendAll, Goto, TypeOK, ControlInv, Requesting, RunnablePC, global, thread,
       local
  <2> QED
    BY <2>1, CycleSame
<1>12. ASSUME NEW t \in Thread, SuspendAllBusy(t) PROVE NoSuspensionCycle'
  <2>1. \A r \in Thread : Requesting(r)' => Requesting(r) /\ target'[r] = target[r]
    BY Zenon, <1>12
    DEF SuspendAllBusy, Goto, TypeOK, ControlInv, Requesting, RunnablePC, global, thread,
       local
  <2> QED
    BY <2>1, CycleSame
<1>13. ASSUME NEW t \in Thread, SuspendAllLock(t) PROVE NoSuspensionCycle'
  <2>1. \A r \in Thread : Requesting(r)' => Requesting(r) /\ target'[r] = target[r]
    BY Zenon, <1>13
    DEF SuspendAllLock, Goto, NoSuspendAll, TypeOK, ControlInv, Requesting, RunnablePC,
       global, thread, local
  <2> QED
    BY <2>1, CycleSame
<1>14. ASSUME NEW t \in Thread, SuspendAllCheck(t) PROVE NoSuspensionCycle'
  <2>1. \A r \in Thread : Requesting(r)' => Requesting(r) /\ target'[r] = target[r]
    BY Zenon, <1>14
    DEF SuspendAllCheck, Goto, IsSuspended, WithBarriers, TypeOK, ControlInv, Requesting,
       RunnablePC, global, thread, local
  <2> QED
    BY <2>1, CycleSame
<1>15. ASSUME NEW t \in Thread, SuspendAllUnlock(t) PROVE NoSuspensionCycle'
  <2>1. \A r \in Thread : Requesting(r)' => Requesting(r) /\ target'[r] = target[r]
    BY SMTT(30), <1>15
    DEF SuspendAllUnlock, Goto, TypeOK, ControlInv, Requesting, RunnablePC, global, thread,
       local
  <2> QED
    BY <2>1, CycleSame
<1>16. ASSUME NEW t \in Thread, SuspendAllWait(t) PROVE NoSuspensionCycle'
  <2>1. \A r \in Thread : Requesting(r)' => Requesting(r) /\ target'[r] = target[r]
    BY SMTT(30), <1>16
    DEF SuspendAllWait, Goto, TypeOK, ControlInv, Requesting, RunnablePC, global, thread,
       local
  <2> QED
    BY <2>1, CycleSame
<1>17. ASSUME NEW t \in Thread, SuspendAllMutator(t) PROVE NoSuspensionCycle'
  <2>1. \A r \in Thread : Requesting(r)' => Requesting(r) /\ target'[r] = target[r]
    BY <1>17
    DEF SuspendAllMutator, Goto, TypeOK, ControlInv, Requesting, RunnablePC, global, thread,
       local
  <2> QED
    BY <2>1, CycleSame
<1>18. ASSUME NEW t \in Thread, ResumeAll(t) PROVE NoSuspensionCycle'
  <2>1. \A r \in Thread : Requesting(r)' => Requesting(r) /\ target'[r] = target[r]
    BY Zenon, <1>18
    DEF ResumeAll, Goto, AfterDecrement, Broadcast, TypeOK, ControlInv, Requesting,
       RunnablePC, global, thread, local
  <2> QED
    BY <2>1, CycleSame
<1>19. ASSUME NEW t \in Thread, SuspendThreadExited(t) PROVE NoSuspensionCycle'
  <2>1. \A r \in Thread : Requesting(r)' => Requesting(r) /\ target'[r] = target[r]
    BY Zenon, <1>19
    DEF SuspendThreadExited, Goto, ToSuspended, TypeOK, ControlInv, Requesting, RunnablePC,
       global, thread, local
  <2> QED
    BY <2>1, CycleSame
<1>20. ASSUME NEW t \in Thread, SuspendThreadCheck(t) PROVE NoSuspensionCycle'
  <2>1. \A r \in Thread : Requesting(r)' => Requesting(r) /\ target'[r] = target[r]
    BY SMTT(30), <1>20
    DEF SuspendThreadCheck, Goto, IsSuspended, WithBarriers, RemoveSuspend1Barrier, TypeOK,
       ControlInv, Requesting, RunnablePC, global, thread, local
  <2> QED
    BY <2>1, CycleSame
<1>21. ASSUME NEW t \in Thread, SuspendThreadLeave(t) PROVE NoSuspensionCycle'
  <2>1. \A r \in Thread : Requesting(r)' => Requesting(r) /\ target'[r] = target[r]
    BY Zenon, <1>21
    DEF SuspendThreadLeave, Goto, ToSuspended, TypeOK, ControlInv, Requesting, RunnablePC,
       global, thread, local
  <2> QED
    BY <2>1, CycleSame
<1>22. ASSUME NEW t \in Thread, SuspendThreadWait(t) PROVE NoSuspensionCycle'
  <2>1. \A r \in Thread : Requesting(r)' => Requesting(r) /\ target'[r] = target[r]
    BY Zenon, <1>22
    DEF SuspendThreadWait, Goto, TypeOK, ControlInv, Requesting, RunnablePC, global, thread,
       local
  <2> QED
    BY <2>1, CycleSame
<1>23. ASSUME NEW t \in Thread, SuspendThreadGiveUp(t) PROVE NoSuspensionCycle'
  <2>1. \A r \in Thread : Requesting(r)' => Requesting(r) /\ target'[r] = target[r]
    BY Zenon, <1>23
    DEF SuspendThreadGiveUp, Goto, WithBarriers, RemoveSuspend1Barrier, AfterDecrement,
       Broadcast, TypeOK, ControlInv, Requesting, RunnablePC, global, thread, local
  <2> QED
    BY <2>1, CycleSame
<1>24. ASSUME NEW t \in Thread, Resume(t) PROVE NoSuspensionCycle'
  <2>1. \A r \in Thread : Requesting(r)' => Requesting(r) /\ target'[r] = target[r]
    BY <1>24
    DEF Resume, Goto, AfterDecrement, Broadcast, TypeOK, ControlInv, Requesting, RunnablePC,
       global, thread, local
  <2> QED
    BY <2>1, CycleSame
<1>25. ASSUME NEW t \in Thread, NEW u \in Thread, SuspendAllRequest(t, u) PROVE NoSuspensionCycle'
  <2>1. \A r \in Thread : Requesting(r)' => Requesting(r) /\ target'[r] = target[r]
    BY <1>25
    DEF SuspendAllRequest, Goto, TypeOK, ControlInv, Requesting, RunnablePC, global, thread,
       local
  <2> QED
    BY Zenon, <2>1, CycleSame
<1>26. ASSUME NEW t \in Thread, NEW u \in list \ {t}, SuspendThreadCall(t, u) PROVE NoSuspensionCycle'
  <2>1. CASE suspend_count[t] # 0
    <3>1. \A r \in Thread : Requesting(r)' => Requesting(r) /\ target'[r] = target[r]
      BY <1>26, <2>1
      DEF SuspendThreadCall, SuspendThreadTry, MaySuspendOthers, ToSuspended, Goto, TypeOK,
          Requesting
    <3> QED
      BY Zenon, <3>1, CycleSame
  <2>2. CASE suspend_count[t] = 0
    <3> SUFFICES ASSUME NEW S \in (SUBSET Thread) \ {{}}
                 PROVE \E w \in S : \A r \in S : ~(Requesting(r)' /\ target'[r] = w)
      BY Zenon DEF NoSuspensionCycle
    <3>1. \A r \in Thread \ {t} : Requesting(r)' => Requesting(r) /\ target'[r] = target[r]
      BY <1>26, <2>2
      DEF SuspendThreadCall, SuspendThreadTry, MaySuspendOthers, Goto, TypeOK, Requesting
    <3>2. CASE t \in S
      <4>1. \A r \in Thread : ~(Requesting(r) /\ target[r] = t)
        BY SMTT(30), NotSuspended, <2>2 DEF Suspends
      <4>2. target'[t] # t
        BY <1>26 DEF TypeOK, SuspendThreadCall, SuspendThreadTry
      <4> QED
        BY Zenon, <3>1, <3>2, <4>1, <4>2
    <3>3. CASE t \notin S
      <4>1. PICK w \in S : \A r \in S : ~(Requesting(r) /\ target[r] = w)
        BY Zenon DEF NoSuspensionCycle
      <4> QED
        BY <3>1, <3>3, <4>1
    <3> QED
      BY <3>2, <3>3
  <2> QED
    BY <2>1, <2>2
<1>27. CASE UNCHANGED vars
  <2>1. \A r \in Thread : Requesting(r)' => Requesting(r) /\ target'[r] = target[r]
    BY Zenon, <1>27 DEF vars, Requesting, local
  <2> QED
    BY Zenon, <2>1, CycleSame
<1>28. ASSUME NEW t \in Thread, NEW u \in Thread, SuspendThread(t, u) PROVE NoSuspensionCycle'
  BY Zenon, <1>26, <1>28 DEF SuspendThread, SuspendThreadCall
<1>29. ASSUME NEW t \in Thread, SuspendThreadRetry(t) PROVE NoSuspensionCycle'
  BY Zenon, <1>26, <1>29 DEF TargetInv, Retrying, SuspendThreadRetry, SuspendThreadCall
<1> QED
  BY Zenon, <1>1, <1>2, <1>3, <1>4, <1>5, <1>6, <1>7, <1>8, <1>9, <1>10, <1>11, <1>12, <1>13,
     <1>14, <1>15, <1>16, <1>17, <1>18, <1>19, <1>20, <1>21, <1>22, <1>23, <1>24, <1>25,
     <1>26, <1>27, <1>28, <1>29
  DEF Next, Step, Choice, Terminated

------------------------------------------------------------------------------
(* Theorems *)

\* The invariant holds in every reachable state.
LEMMA Inductive == Spec => []IInv
<1>1. IInv /\ [Next]_vars => IInv'
  BY TypeStep, ControlStep, SuspendAllStep, TargetStep, SuspendCountStep, BarrierFlagStep,
     BarrierStep, PendingStep, CycleStep
  DEF IInv
<1> QED
  BY InitIInv, <1>1, PTL DEF Spec

\* The suspend counts are exact: DecrementSuspendCount never meets a count of 0, and
\* kSuspendRequest tells the truth.
THEOREM SuspendCountsAreExact == Spec => []SuspendCountExact
BY Inductive, PTL DEF IInv

\* No thread keeps a pointer to a barrier on the stack of a call that has returned, so
\* PassActiveSuspendBarriers never decrements freed memory.
THEOREM BarriersStayAlive == Spec => []BarriersAlive
<1>1. IInv => BarriersAlive
  BY Zenon DEF IInv, BarrierInv, BarriersAlive
<1> QED
  BY <1>1, Inductive, PTL

\* Between the return of SuspendAll and ResumeAll no thread is Runnable.
THEOREM SuspendAllExcludes == Spec => []SuspendAllExclusive
BY InvExcludes, Inductive, PTL

\* The target of a successful SuspendThread is in the thread list and suspended until
\* Resume, so Resume cannot fail.
THEOREM TargetsStaySuspended == Spec => []TargetStaysSuspended
BY InvTarget, Inductive, PTL

\* The test of the requester's own suspend count in SuspendThread keeps threads from
\* suspending each other in a cycle.
THEOREM SuspensionIsAcyclic == Spec => []NoSuspensionCycle
BY Inductive, PTL DEF IInv

==============================================================================
