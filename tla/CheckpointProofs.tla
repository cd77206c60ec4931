--------------------------- MODULE CheckpointProofs ---------------------------
(***************************************************************************)
(* Proofs about Checkpoint, for any number of threads, of RunCheckpoint    *)
(* calls and of thread flips.                                              *)
(***************************************************************************)
EXTENDS CheckpointVisits, Integers, Sequences, FiniteSetTheorems,
        SequenceTheorems, TLAPS

\* Most steps are first-order reasoning over the invariants; those that need the SMT solver
\* say so.
USE Zenon

------------------------------------------------------------------------------
(* The inductive invariant *)

Locking == {"rc_first", "rc_insert", "rc_sweep", "rc_suspend", "rc_check"}
Visiting == {"rc_suspend", "rc_check", "rc_run", "rc_release"}
Holding == {"rc_check", "rc_run", "rc_release"}
Calling == Locking \cup Visiting \cup {"rc_start", "rc_lock", "rc_self"}

Types ==
    /\ list \subseteq Thread /\ lock \in Thread \cup {None} /\ request \subseteq Thread
    /\ state = [t \in Thread |-> state[t]]
    /\ checkpoints \in [Thread -> Seq(Thread)]
    /\ suspend_count = [t \in Thread |-> suspend_count[t]]
    /\ running \in [Thread -> Thread \cup {None}]
    /\ pc = [t \in Thread |-> pc[t]] /\ ret = [t \in Thread |-> ret[t]]
    /\ mode = [t \in Thread |-> mode[t]] /\ current = [t \in Thread |-> current[t]]
    /\ todo \in [Thread -> SUBSET Thread] /\ remaining \in [Thread -> SUBSET Thread]
    /\ count \in [Thread -> Int] /\ barrier \in [Thread -> Int]
    /\ ran \in [Thread -> [Thread -> Int]]

\* t is in state kRunnable.
Runnable(t) == pc[t] \in {"java", "leave"} \/ (pc[t] \in Calling /\ mode[t] # "none")

\* r goes over the list for the first time, or over remaining_threads.
First(r) == pc[r] = "rc_first" \/ (pc[r] = "rc_insert" /\ ret[r] = "rc_first")
Sweeping(r) ==
    \/ pc[r] \in Visiting \cup {"rc_sweep", "rc_lock"}
    \/ pc[r] = "rc_insert" /\ ret[r] = "rc_sweep"
    \/ pc[r] \in {"leave", "resume"} /\ ret[r] = "rc_lock"

\* The number of runs is in count, and later in the barrier.
Counting(r) == First(r) \/ Sweeping(r) \/ pc[r] = "rc_self"
Returned(r) == pc[r] = "rc_wait" \/ (pc[r] = "leave" /\ ret[r] = "rc_wait")

\* Where a thread is tells its state, whether it is in the list and whether it has the lock.
ThreadOK(t) ==
    /\ pc[t] \in Calling \cup {"new", "native", "exited", "resume", "java", "leave", "rc_wait"}
    /\ state[t] = IF Runnable(t) THEN "kRunnable" ELSE "kSuspended"
    /\ t \in list <=> pc[t] \notin {"new", "exited"}
    /\ lock = t <=> pc[t] \in Locking
    /\ pc[t] = "resume" => \/ ret[t] = "java"
                           \/ ret[t] \in {"rc_start", "rc_lock"} /\ mode[t] = "acquire"
    /\ pc[t] = "leave" => \/ ret[t] \in {"java", "native"}
                          \/ ret[t] = "rc_lock" /\ mode[t] = "acquire"
                          \/ ret[t] = "rc_wait" /\ mode[t] # "none"
    /\ pc[t] = "rc_lock" => mode[t] = "acquire"
    /\ pc[t] = "rc_insert" => ret[t] \in {"rc_first", "rc_sweep"}
    /\ running[t] # None => pc[t] \in {"java", "leave"}

\* The closure x waits in the queue q; no closure is there twice.
In(q, x) == \E i \in DOMAIN q : q[i] = x
Distinct(q) == \A i, j \in DOMAIN q : q[i] = q[j] => i = j

\* A requester has set the flag of t and will add the closure.
Asked(t) == \E r \in Thread : pc[r] = "rc_insert" /\ current[r] = t

\* kCheckpointRequest is set while there is a closure to run, from just before the first one
\* is added, and only for a Runnable thread.  A closure is there at most once.
QueueOK(t) ==
    /\ t \in request <=> checkpoints[t] # <<>> \/ Asked(t)
    /\ t \in request => state[t] = "kRunnable"
    /\ Distinct(checkpoints[t]) /\ ~In(checkpoints[t], running[t])

\* The suspend count of a thread is the number of requesters that keep it suspended.
Holders(t) == {r \in Thread : pc[r] \in Holding /\ current[r] = t}
HeldOK(t) == suspend_count[t] = Cardinality(Holders(t))

\* The thread that r deals with is in the list, and suspended while r runs the closure for
\* it; the threads r has still to deal with.
VisitOK(r) ==
    /\ r \notin todo[r] \cup remaining[r]
    /\ pc[r] \in Visiting \cup {"rc_insert"} => current[r] \in list \ {r}
    /\ pc[r] \in {"rc_run", "rc_release"} => state[current[r]] = "kSuspended"
    /\ First(r) => todo[r] \cap remaining[r] = {}
    /\ Sweeping(r) => todo[r] \subseteq remaining[r]
    /\ pc[r] = "rc_insert" => current[r] \notin todo[r] \cup remaining[r]
    /\ pc[r] \in Visiting => current[r] \in remaining[r] \ todo[r]
    /\ ~First(r) /\ ~Sweeping(r) => todo[r] = {} /\ remaining[r] = {}

\* r has still to deal with t, or t has still to run the closure of r.
Left(r, t) == \/ t \in todo[r] \cup remaining[r] /\ ~(pc[r] = "rc_release" /\ t = current[r])
              \/ pc[r] = "rc_insert" /\ t = current[r]
Owes(r, t) == Left(r, t) \/ C!Pending(r, t)
Owed(r) == {t \in Thread : Owes(r, t)}

\* What is owed to r has not happened, and is owed once.
OnceOK(r, t) ==
    /\ ran[r][t] \in {0, 1}
    /\ ~(Left(r, t) /\ C!Pending(r, t))
    /\ Owes(r, t) => ran[r][t] = 0

\* Until RunCheckpoint returns, count less the runs that have passed the barrier is one for r
\* itself and one for each thread that owes a run; the barrier then counts these.
AccountOK(r) ==
    /\ ~Owes(r, r)
    /\ Returned(r) => barrier[r] = Cardinality(Owed(r))
    /\ Counting(r) => count[r] + barrier[r] = 1 + Cardinality(Owed(r)) /\ ran[r][r] = 0
    /\ ~Returned(r) /\ ~Counting(r) =>
          barrier[r] = 0 /\ \A t \in Thread : ~Owes(r, t) /\ ran[r][t] = 0

LedgerOK(r) == AccountOK(r) /\ \A t \in Thread : OnceOK(r, t)

CheckpointInv ==
    /\ Types
    /\ \A t \in Thread : ThreadOK(t)
    /\ \A t \in Thread : QueueOK(t)
    /\ \A t \in Thread : HeldOK(t)
    /\ \A r \in Thread : VisitOK(r)
    /\ \A r \in Thread : LedgerOK(r)

------------------------------------------------------------------------------
(* What a step of one thread means for the others *)

\* Only t moves.
Only(t) == \A u \in Thread \ {t} :
    /\ pc'[u] = pc[u] /\ ret'[u] = ret[u] /\ mode'[u] = mode[u] /\ todo'[u] = todo[u]
    /\ remaining'[u] = remaining[u] /\ current'[u] = current[u] /\ count'[u] = count[u]

\* Only t changes its state, attaches, detaches, runs a closure, and takes or releases the lock.
Frame(t) ==
    /\ Types' /\ Only(t)
    /\ \A u \in Thread \ {t} : /\ state'[u] = state[u] /\ running'[u] = running[u]
                               /\ u \in list' <=> u \in list
                               /\ lock' = u <=> lock = u

\* A thread that another deals with stays in the list, and suspended if it is kept so.
VisitedStay(t) == \A u \in Thread \ {t} :
    /\ pc[u] \in Visiting \cup {"rc_insert"} => current[u] \in list'
    /\ pc[u] \in {"rc_run", "rc_release"} => state'[current[u]] = "kSuspended"

LEMMA ThreadsKept ==
  ASSUME NEW t \in Thread, Frame(t), NEW u \in Thread, u # t, ThreadOK(u)
  PROVE  ThreadOK(u)'
  <1>1. /\ pc'[u] = pc[u] /\ ret'[u] = ret[u] /\ mode'[u] = mode[u] /\ state'[u] = state[u]
        /\ running'[u] = running[u] /\ (u \in list' <=> u \in list) /\ (lock' = u <=> lock = u)
    BY DEF Frame, Only
  <1>2. Runnable(u)' <=> Runnable(u)
    BY <1>1 DEF Runnable
  <1> QED
    BY <1>1, <1>2 DEF ThreadOK

LEMMA VisitsKept ==
  ASSUME NEW t \in Thread, Frame(t), VisitedStay(t), NEW u \in Thread, u # t, VisitOK(u)
  PROVE  VisitOK(u)'
  <1>1. /\ pc'[u] = pc[u] /\ ret'[u] = ret[u] /\ todo'[u] = todo[u]
        /\ remaining'[u] = remaining[u] /\ current'[u] = current[u]
    BY DEF Frame, Only
  <1>2. (First(u)' <=> First(u)) /\ (Sweeping(u)' <=> Sweeping(u))
    BY <1>1 DEF First, Sweeping
  <1> QED
    BY <1>1, <1>2 DEF VisitOK, VisitedStay

\* Neither the requests nor the closures to run change.
LEMMA QueuesKept ==
  ASSUME NEW t \in Thread, Only(t), \A u \in Thread : QueueOK(u),
         pc[t] # "rc_insert", pc'[t] # "rc_insert",
         UNCHANGED <<request, checkpoints, running>>,
         \A u \in request : state'[u] = state[u]
  PROVE  \A u \in Thread : QueueOK(u)'
  <1> SUFFICES ASSUME NEW u \in Thread PROVE QueueOK(u)'
    OBVIOUS
  <1>1. Asked(u)' <=> Asked(u)
    BY DEF Only, Asked
  <1>2. u \in request => state'[u] = state[u]
    OBVIOUS
  <1> QED
    BY <1>1, <1>2 DEF QueueOK

\* Nobody is kept suspended or released.
LEMMA HoldsKept ==
  ASSUME NEW t \in Thread, Only(t), \A u \in Thread : HeldOK(u),
         pc'[t] \in Holding <=> pc[t] \in Holding, pc[t] \in Holding => current'[t] = current[t],
         UNCHANGED suspend_count
  PROVE  \A u \in Thread : HeldOK(u)'
  <1> SUFFICES ASSUME NEW u \in Thread PROVE HeldOK(u)'
    OBVIOUS
  <1>1. \A r \in Thread : r \in Holders(u)' <=> r \in Holders(u)
    BY DEF Only, Holders
  <1>2. Holders(u)' = Holders(u)
    BY <1>1 DEF Holders
  <1> QED
    BY <1>2 DEF HeldOK

\* The same runs are owed to r, and none has happened.
LEMMA LedgerKept ==
  ASSUME NEW r \in Thread, LedgerOK(r),
         Counting(r)' <=> Counting(r), Returned(r)' <=> Returned(r),
         count'[r] = count[r], barrier'[r] = barrier[r], ran'[r] = ran[r],
         \A u \in Thread : (Owes(r, u)' <=> Owes(r, u)) /\ ~(Left(r, u) /\ C!Pending(r, u))'
  PROVE  LedgerOK(r)'
  <1>1. Owed(r)' = Owed(r)
    BY DEF Owed
  <1>2. AccountOK(r)'
    BY <1>1 DEF LedgerOK, AccountOK
  <1>3. \A u \in Thread : OnceOK(r, u)'
    BY DEF LedgerOK, OnceOK
  <1> QED
    BY <1>2, <1>3 DEF LedgerOK

\* So it is for every thread but t when the closures to run stay the same.
LEMMA LedgersKept ==
  ASSUME NEW t \in Thread, Only(t), NEW r \in Thread, r # t, LedgerOK(r),
         barrier'[r] = barrier[r], ran'[r] = ran[r],
         \A u \in Thread : C!Pending(r, u)' <=> C!Pending(r, u)
  PROVE  LedgerOK(r)'
  <1>1. /\ pc'[r] = pc[r] /\ ret'[r] = ret[r] /\ todo'[r] = todo[r] /\ count'[r] = count[r]
        /\ remaining'[r] = remaining[r] /\ current'[r] = current[r]
    BY DEF Only
  <1>2. (Counting(r)' <=> Counting(r)) /\ (Returned(r)' <=> Returned(r))
    BY <1>1 DEF Counting, Returned, First, Sweeping
  <1>3. \A u \in Thread : Left(r, u)' <=> Left(r, u)
    BY <1>1 DEF Left
  <1>4. \A u \in Thread : (Owes(r, u)' <=> Owes(r, u)) /\ ~(Left(r, u) /\ C!Pending(r, u))'
    BY <1>3 DEF Owes, LedgerOK, OnceOK
  <1> QED
    BY <1>1, <1>2, <1>4, LedgerKept

\* t keeps its part, and leaves what the others have to do to them.
LEMMA StepKeeps ==
  ASSUME CheckpointInv, NEW t \in Thread, Frame(t), VisitedStay(t), ThreadOK(t)', VisitOK(t)',
         \A u \in Thread : QueueOK(u)', \A u \in Thread : HeldOK(u)',
         \A r \in Thread : LedgerOK(r)'
  PROVE  CheckpointInv'
  <1>1. \A u \in Thread : ThreadOK(u)'
    BY ThreadsKept DEF CheckpointInv
  <1>2. \A u \in Thread : VisitOK(u)'
    BY VisitsKept DEF CheckpointInv
  <1> QED
    BY <1>1, <1>2 DEF CheckpointInv, Frame

\* A step after which the same closures wait and the same threads are left to t.
LEMMA QuietKeeps ==
  ASSUME CheckpointInv, NEW t \in Thread, Frame(t), VisitedStay(t), ThreadOK(t)', VisitOK(t)',
         \A u \in Thread : HeldOK(u)',
         pc[t] # "rc_insert", pc'[t] # "rc_insert",
         \A u \in request : state'[u] = state[u],
         UNCHANGED <<request, checkpoints, running, barrier, ran>>,
         Counting(t)' <=> Counting(t), Returned(t)' <=> Returned(t), count'[t] = count[t],
         \A u \in Thread : Left(t, u)' <=> Left(t, u)
  PROVE  CheckpointInv'
  <1>0. Only(t)
    BY DEF Frame
  <1>1. \A u \in Thread : QueueOK(u)'
    BY <1>0, QueuesKept DEF CheckpointInv
  <1>2. \A r, u \in Thread : C!Pending(r, u)' <=> C!Pending(r, u)
    BY DEF C!Pending
  <1>3. \A u \in Thread : (Owes(t, u)' <=> Owes(t, u)) /\ ~(Left(t, u) /\ C!Pending(t, u))'
    BY <1>2 DEF Owes, CheckpointInv, LedgerOK, OnceOK
  <1>4. LedgerOK(t)'
    BY <1>3, LedgerKept DEF CheckpointInv
  <1>5. \A r \in Thread : LedgerOK(r)'
    BY <1>0, <1>2, <1>4, LedgersKept DEF CheckpointInv
  <1> QED
    BY <1>1, <1>5, StepKeeps

\* Nor is anybody kept suspended or released.
LEMMA MoveKeeps ==
  ASSUME CheckpointInv, NEW t \in Thread, Frame(t), VisitedStay(t), ThreadOK(t)', VisitOK(t)',
         pc[t] # "rc_insert", pc'[t] # "rc_insert",
         pc'[t] \in Holding <=> pc[t] \in Holding, pc[t] \in Holding => current'[t] = current[t],
         \A u \in request : state'[u] = state[u],
         UNCHANGED <<request, checkpoints, suspend_count, running, barrier, ran>>,
         Counting(t)' <=> Counting(t), Returned(t)' <=> Returned(t), count'[t] = count[t],
         \A u \in Thread : Left(t, u)' <=> Left(t, u)
  PROVE  CheckpointInv'
  <1>1. \A u \in Thread : HeldOK(u)'
    BY HoldsKept DEF CheckpointInv, Frame
  <1> QED
    BY <1>1, QuietKeeps

\* There are finitely many threads, and Checkpoint counts as we do.
LEMMA ThreadsFinite == IsFiniteSet(Thread) /\ None \notin Thread
  BY CheckpointAssumption DEF C!ThreadAssumption, IsFiniteSet, C!IsFiniteSet

LEMMA SameCardinality == ASSUME NEW S PROVE C!Cardinality(S) = Cardinality(S)
  BY DEF Cardinality, C!Cardinality

LEMMA Counted ==
  ASSUME NEW S \in SUBSET Thread
  PROVE  /\ Cardinality(S) \in Nat
         /\ Cardinality(S) = 0 <=> S = {}
         /\ \A t \in S : Cardinality(S \ {t}) = Cardinality(S) - 1
         /\ \A t : t \notin S => Cardinality(S \cup {t}) = Cardinality(S) + 1
  <1>1. IsFiniteSet(S)
    BY ThreadsFinite, FS_Subset
  <1> QED
    BY ZenonT(20), <1>1, FS_CardinalityType, FS_EmptySet, FS_RemoveElement, FS_AddElement

\* With the lock free nobody is in the middle of a sweep.
LEMMA LockFree ==
  ASSUME CheckpointInv, lock = None
  PROVE  \A u \in Thread : pc[u] \notin Locking
  BY ThreadsFinite DEF CheckpointInv, ThreadOK

\* Nobody keeps a thread suspended whose suspend count is zero.
LEMMA NotHeld ==
  ASSUME CheckpointInv, NEW t \in Thread, suspend_count[t] = 0
  PROVE  \A u \in Thread : pc[u] \in Holding => current[u] # t
  <1>1. Holders(t) = {}
    <2>1. Holders(t) \in SUBSET Thread
      BY DEF Holders
    <2> QED
      BY <2>1, Counted DEF CheckpointInv, HeldOK
  <1> QED
    BY <1>1 DEF Holders

\* The list and the states stay as they are.
LEMMA StatesKept ==
  ASSUME CheckpointInv, NEW t \in Thread, UNCHANGED <<list, state>>
  PROVE  VisitedStay(t)
  BY DEF CheckpointInv, VisitOK, VisitedStay

------------------------------------------------------------------------------
(* What every thread does *)

\* A thread attaches.
LEMMA RegisterKeeps ==
  ASSUME CheckpointInv, NEW t \in Thread, C!Register(t)
  PROVE  CheckpointInv'
  <1>1. /\ Frame(t) /\ pc[t] = "new" /\ pc'[t] = "native"
        /\ list' = list \cup {t} /\ lock' = lock /\ lock = None
        /\ UNCHANGED <<state, request, checkpoints, suspend_count, running, ret, mode, todo,
                       remaining, current, count, barrier, ran>>
    BY DEF C!Register, C!Goto, C!thread, C!sweep, CheckpointInv, Types, Frame, Only
  <1>2. VisitedStay(t)
    BY <1>1 DEF CheckpointInv, VisitOK, VisitedStay
  <1>3. ThreadOK(t)'
    BY <1>1 DEF CheckpointInv, ThreadOK, Runnable, Calling, Locking, Visiting
  <1>4. ~Counting(t) /\ ~Counting(t)' /\ ~Returned(t) /\ ~Returned(t)'
    BY <1>1 DEF Counting, Returned, First, Sweeping, Visiting
  <1>5. VisitOK(t)'
    BY <1>1, <1>4 DEF CheckpointInv, VisitOK, Visiting, Counting
  <1>6. \A u \in Thread : Left(t, u)' <=> Left(t, u)
    BY <1>1 DEF Left
  <1> QED
    BY <1>1, <1>2, <1>3, <1>4, <1>5, <1>6, MoveKeeps DEF Holding

\* A thread detaches, which nobody keeps suspended.
LEMMA UnregisterKeeps ==
  ASSUME CheckpointInv, NEW t \in Thread, C!Unregister(t)
  PROVE  CheckpointInv'
  <1>1. /\ Frame(t) /\ pc[t] = "native" /\ pc'[t] = "exited"
        /\ list' = list \ {t} /\ lock' = lock /\ lock = None /\ suspend_count[t] = 0
        /\ UNCHANGED <<state, request, checkpoints, suspend_count, running, ret, mode, todo,
                       remaining, current, count, barrier, ran>>
    BY DEF C!Unregister, C!Goto, C!thread, C!sweep, CheckpointInv, Types, Frame, Only
  <1>2. VisitedStay(t)
    BY <1>1, LockFree, NotHeld DEF CheckpointInv, VisitOK, VisitedStay, Locking, Visiting, Holding
  <1>3. ThreadOK(t)'
    BY <1>1 DEF CheckpointInv, ThreadOK, Runnable, Calling, Locking, Visiting
  <1>4. ~Counting(t) /\ ~Counting(t)' /\ ~Returned(t) /\ ~Returned(t)'
    BY <1>1 DEF Counting, Returned, First, Sweeping, Visiting
  <1>5. VisitOK(t)'
    BY <1>1, <1>4 DEF CheckpointInv, VisitOK, Visiting, Counting
  <1>6. \A u \in Thread : Left(t, u)' <=> Left(t, u)
    BY <1>1 DEF Left
  <1> QED
    BY <1>1, <1>2, <1>3, <1>4, <1>5, <1>6, MoveKeeps DEF Holding

\* A thread leaves native code.
LEMMA LeaveNativeKeeps ==
  ASSUME CheckpointInv, NEW t \in Thread, C!LeaveNative(t)
  PROVE  CheckpointInv'
  <1>1. /\ Frame(t) /\ pc[t] = "native" /\ pc'[t] = "resume" /\ ret'[t] = "java"
        /\ UNCHANGED <<list, lock, state, request, checkpoints, suspend_count, running, mode,
                       todo, remaining, current, count, barrier, ran>>
    BY DEF C!LeaveNative, C!Goto, C!thread, C!sweep, CheckpointInv, Types, Frame, Only
  <1>2. VisitedStay(t)
    BY <1>1, StatesKept
  <1>3. ThreadOK(t)'
    BY <1>1 DEF CheckpointInv, ThreadOK, Runnable, Calling, Locking, Visiting
  <1>4. ~Counting(t) /\ ~Counting(t)' /\ ~Returned(t) /\ ~Returned(t)'
    BY <1>1 DEF Counting, Returned, First, Sweeping, Visiting
  <1>5. VisitOK(t)'
    BY <1>1, <1>4 DEF CheckpointInv, VisitOK, Visiting, Counting
  <1>6. \A u \in Thread : Left(t, u)' <=> Left(t, u)
    BY <1>1 DEF Left
  <1> QED
    BY <1>1, <1>2, <1>3, <1>4, <1>5, <1>6, MoveKeeps DEF Holding

\* TransitionFromSuspendedToRunnable, of a thread that nobody keeps suspended.
LEMMA BecomeRunnableKeeps ==
  ASSUME CheckpointInv, NEW t \in Thread, C!BecomeRunnable(t)
  PROVE  CheckpointInv'
  <1>0. ret[t] = "java" \/ (ret[t] \in {"rc_start", "rc_lock"} /\ mode[t] = "acquire")
    BY DEF C!BecomeRunnable, CheckpointInv, ThreadOK
  <1>1. /\ Frame(t) /\ pc[t] = "resume" /\ pc'[t] = ret[t] /\ suspend_count[t] = 0
        /\ state' = [state EXCEPT ![t] = "kRunnable"]
        /\ UNCHANGED <<list, lock, request, checkpoints, suspend_count, running, ret, mode,
                       todo, remaining, current, count, barrier, ran>>
    BY DEF C!BecomeRunnable, C!Goto, C!sweep, CheckpointInv, Types, Frame, Only
  <1>2. /\ state'[t] = "kRunnable" /\ state[t] # "kRunnable"
        /\ \A u \in Thread : u # t => state'[u] = state[u]
    BY <1>1 DEF CheckpointInv, Types, ThreadOK, Runnable, Calling, Locking, Visiting
  <1>3. VisitedStay(t)
    <2> SUFFICES ASSUME NEW u \in Thread, u # t, pc[u] \in Visiting \cup {"rc_insert"}
                 PROVE  /\ current[u] \in list'
                        /\ pc[u] \in {"rc_run", "rc_release"} => state'[current[u]] = "kSuspended"
      BY DEF VisitedStay, Visiting
    <2>1. current[u] \in list /\ current[u] \in Thread
      BY DEF CheckpointInv, Types, VisitOK
    <2>2. pc[u] \in {"rc_run", "rc_release"} => current[u] # t
      BY <1>1, NotHeld DEF Holding
    <2> QED
      BY <1>1, <1>2, <2>1, <2>2 DEF CheckpointInv, VisitOK
  <1>4. ThreadOK(t)'
    BY <1>0, <1>1, <1>2 DEF CheckpointInv, ThreadOK, Runnable, Calling, Locking, Visiting
  <1>5. /\ (Counting(t)' <=> Counting(t)) /\ (Sweeping(t)' <=> Sweeping(t))
        /\ ~First(t) /\ ~First(t)' /\ ~Returned(t) /\ ~Returned(t)'
    BY <1>0, <1>1 DEF Counting, Returned, First, Sweeping, Visiting
  <1>6. VisitOK(t)'
    BY <1>0, <1>1, <1>5 DEF CheckpointInv, VisitOK, Visiting
  <1>7. \A u \in Thread : Left(t, u)' <=> Left(t, u)
    BY <1>0, <1>1 DEF Left
  <1>8. \A u \in request : state'[u] = state[u]
    BY <1>2 DEF CheckpointInv, Types, QueueOK
  <1> QED
    BY <1>0, <1>1, <1>3, <1>4, <1>5, <1>6, <1>7, <1>8, MoveKeeps DEF Holding

\* A Runnable thread begins to suspend itself.
LEMMA SuspendKeeps ==
  ASSUME CheckpointInv, NEW t \in Thread, C!Suspend(t, "java") \/ C!Suspend(t, "native")
  PROVE  CheckpointInv'
  <1>1. /\ Frame(t) /\ pc[t] = "java" /\ pc'[t] = "leave" /\ ret'[t] \in {"java", "native"}
        /\ UNCHANGED <<list, lock, state, request, checkpoints, suspend_count, running, mode,
                       todo, remaining, current, count, barrier, ran>>
    BY DEF C!Suspend, C!Goto, C!thread, C!sweep, CheckpointInv, Types, Frame, Only
  <1>2. VisitedStay(t)
    BY <1>1, StatesKept
  <1>3. ThreadOK(t)'
    BY <1>1 DEF CheckpointInv, ThreadOK, Runnable, Calling, Locking, Visiting
  <1>4. ~Counting(t) /\ ~Counting(t)' /\ ~Returned(t) /\ ~Returned(t)'
    BY <1>1 DEF Counting, Returned, First, Sweeping, Visiting
  <1>5. VisitOK(t)'
    BY <1>1, <1>4 DEF CheckpointInv, VisitOK, Visiting, Counting
  <1>6. \A u \in Thread : Left(t, u)' <=> Left(t, u)
    BY <1>1 DEF Left
  <1> QED
    BY <1>1, <1>2, <1>3, <1>4, <1>5, <1>6, MoveKeeps DEF Holding

\* TransitionToSuspendedAndRunCheckpoints, with no checkpoint left.
LEMMA BecomeSuspendedKeeps ==
  ASSUME CheckpointInv, NEW t \in Thread, C!BecomeSuspended(t)
  PROVE  CheckpointInv'
  <1>0. \/ ret[t] \in {"java", "native"}
        \/ ret[t] = "rc_lock" /\ mode[t] = "acquire"
        \/ ret[t] = "rc_wait" /\ mode[t] # "none"
    BY DEF C!BecomeSuspended, CheckpointInv, ThreadOK
  <1>1. /\ Frame(t) /\ pc[t] = "leave" /\ running[t] = None /\ t \notin request
        /\ ret[t] \in {"java", "rc_lock"} => pc'[t] = "resume"
        /\ ret[t] \notin {"java", "rc_lock"} => pc'[t] = ret[t]
        /\ state' = [state EXCEPT ![t] = "kSuspended"]
        /\ UNCHANGED <<list, lock, request, checkpoints, suspend_count, running, ret, mode,
                       todo, remaining, current, count, barrier, ran>>
    BY DEF C!BecomeSuspended, C!NothingToRun, C!Goto, C!sweep, CheckpointInv, Types, Frame, Only
  <1>2. state'[t] = "kSuspended" /\ \A u \in Thread : u # t => state'[u] = state[u]
    BY <1>1 DEF CheckpointInv, Types
  <1>3. VisitedStay(t)
    <2> SUFFICES ASSUME NEW u \in Thread, u # t, pc[u] \in Visiting \cup {"rc_insert"}
                 PROVE  /\ current[u] \in list'
                        /\ pc[u] \in {"rc_run", "rc_release"} => state'[current[u]] = "kSuspended"
      BY DEF VisitedStay, Visiting
    <2>1. current[u] \in list /\ current[u] \in Thread
      BY DEF CheckpointInv, Types, VisitOK
    <2> QED
      BY <1>1, <1>2, <2>1 DEF CheckpointInv, VisitOK
  <1>4. ThreadOK(t)'
    BY <1>0, <1>1, <1>2 DEF CheckpointInv, ThreadOK, Runnable, Calling, Locking, Visiting
  <1>5. /\ (Counting(t)' <=> Counting(t)) /\ (Sweeping(t)' <=> Sweeping(t))
        /\ ~First(t) /\ ~First(t)' /\ (Returned(t) <=> Returned(t)')
    BY <1>0, <1>1 DEF Counting, Returned, First, Sweeping, Visiting
  <1>6. VisitOK(t)'
    BY <1>0, <1>1, <1>5 DEF CheckpointInv, VisitOK, Visiting
  <1>7. \A u \in Thread : Left(t, u)' <=> Left(t, u)
    BY <1>0, <1>1 DEF Left
  <1>8. \A u \in request : state'[u] = state[u]
    BY <1>1, <1>2 DEF CheckpointInv, Types
  <1> QED
    BY <1>0, <1>1, <1>3, <1>4, <1>5, <1>6, <1>7, <1>8, MoveKeeps DEF Holding

------------------------------------------------------------------------------
(* The steps of RunCheckpoint that only move the requester *)

\* RunCheckpoint is called: the closure has not run yet.
LEMMA RunCheckpointKeeps ==
  ASSUME CheckpointInv, NEW t \in Thread, C!RunCheckpoint(t)
  PROVE  CheckpointInv'
  <1>0. pc[t] \in {"java", "native"} /\ pc'[t] \in {"rc_start", "resume"}
    BY DEF C!RunCheckpoint, C!Goto, CheckpointInv, Types
  <1>1. ~Counting(t) /\ ~Returned(t)
    BY <1>0 DEF Counting, Returned, First, Sweeping, Visiting
  <1>2. barrier[t] = 0 /\ \A u \in Thread : ran[t][u] = 0
    BY <1>1 DEF CheckpointInv, LedgerOK, AccountOK
  <1>3. ran[t] = [u \in Thread |-> 0]
    BY <1>2, SMT DEF CheckpointInv, Types
  <1>4. ran' = ran /\ barrier' = barrier
    BY <1>2, <1>3, SMT DEF C!RunCheckpoint, C!Begin, CheckpointInv, Types
  <1>5. /\ Frame(t)
        /\ \/ pc[t] = "java" /\ pc'[t] = "rc_start" /\ mode'[t] = "held" /\ running[t] = None
              /\ ret' = ret
           \/ pc[t] = "native" /\ pc'[t] = "rc_start" /\ mode'[t] = "none" /\ ret' = ret
           \/ pc[t] = "native" /\ pc'[t] = "resume" /\ mode'[t] = "acquire" /\ ret'[t] = "rc_start"
        /\ UNCHANGED <<list, lock, state, request, checkpoints, suspend_count, running, todo,
                       remaining, current, count>>
    BY ZenonT(30), <1>4 DEF C!RunCheckpoint, C!Begin, C!Goto, C!thread, CheckpointInv, Types, Frame, Only
  <1>6. VisitedStay(t)
    BY <1>5, StatesKept
  <1>7. ThreadOK(t)'
    BY <1>5 DEF CheckpointInv, ThreadOK, Runnable, Calling, Locking, Visiting
  <1>8. ~Counting(t)' /\ ~Returned(t)'
    BY <1>5 DEF Counting, Returned, First, Sweeping, Visiting
  <1>9. VisitOK(t)'
    BY <1>1, <1>5, <1>8 DEF CheckpointInv, VisitOK, Visiting, Counting
  <1>10. \A u \in Thread : Left(t, u)' <=> Left(t, u)
    BY <1>5 DEF Left
  <1> QED
    BY <1>0, <1>1, <1>4, <1>5, <1>6, <1>7, <1>8, <1>9, <1>10, MoveKeeps DEF Holding

\* RequestCheckpoint finds a thread suspended in the first pass.
LEMMA FirstSuspendedKeeps ==
  ASSUME CheckpointInv, NEW t \in Thread, NEW u \in Thread, C!FirstSuspended(t, u)
  PROVE  CheckpointInv'
  <1>1. /\ Frame(t) /\ pc[t] = "rc_first" /\ u \in todo[t]
        /\ todo'[t] = todo[t] \ {u} /\ remaining'[t] = remaining[t] \cup {u}
        /\ UNCHANGED <<list, lock, state, request, checkpoints, suspend_count, running, pc, ret,
                       mode, current, count, barrier, ran>>
    BY DEF C!FirstSuspended, C!thread, CheckpointInv, Types, Frame, Only
  <1>2. VisitedStay(t)
    BY <1>1, StatesKept
  <1>3. ThreadOK(t)'
    BY <1>1 DEF CheckpointInv, ThreadOK, Runnable
  <1>4. /\ Counting(t)' <=> Counting(t)
        /\ Returned(t)' <=> Returned(t)
        /\ First(t) /\ First(t)' /\ ~Sweeping(t)'
    BY <1>1 DEF Counting, Returned, First, Sweeping, Visiting
  <1>5. VisitOK(t)'
    BY <1>1, <1>4 DEF CheckpointInv, VisitOK, Visiting
  <1>6. \A v \in Thread : Left(t, v)' <=> Left(t, v)
    BY <1>1 DEF Left
  <1> QED
    BY <1>1, <1>2, <1>3, <1>4, <1>5, <1>6, MoveKeeps DEF Holding

\* The requester begins the next sweep.
LEMMA NextSweepKeeps ==
  ASSUME CheckpointInv, NEW t \in Thread, C!NextSweep(t)
  PROVE  CheckpointInv'
  <1>1. /\ Frame(t) /\ pc[t] \in {"rc_first", "rc_sweep"} /\ pc'[t] = "rc_sweep"
        /\ todo[t] = {} /\ todo'[t] = remaining[t]
        /\ UNCHANGED <<list, lock, state, request, checkpoints, suspend_count, running, ret,
                       mode, remaining, current, count, barrier, ran>>
    BY DEF C!NextSweep, C!Goto, C!thread, CheckpointInv, Types, Frame, Only
  <1>2. VisitedStay(t)
    BY <1>1, StatesKept
  <1>3. ThreadOK(t)'
    BY <1>1 DEF CheckpointInv, ThreadOK, Runnable, Calling, Locking, Visiting
  <1>4. /\ Counting(t) /\ Counting(t)' /\ ~Returned(t) /\ ~Returned(t)'
        /\ Sweeping(t)' /\ ~First(t)'
    BY <1>1 DEF Counting, Returned, First, Sweeping, Visiting
  <1>5. VisitOK(t)'
    BY <1>1, <1>4 DEF CheckpointInv, VisitOK, Visiting
  <1>6. \A v \in Thread : Left(t, v)' <=> Left(t, v)
    BY <1>1 DEF Left
  <1> QED
    BY <1>1, <1>2, <1>3, <1>4, <1>5, <1>6, MoveKeeps DEF Holding

\* RequestCheckpoint finds a thread suspended in a sweep.
LEMMA SweepSuspendedKeeps ==
  ASSUME CheckpointInv, NEW t \in Thread, NEW u \in Thread, C!SweepSuspended(t, u)
  PROVE  CheckpointInv'
  <1>1. /\ Frame(t) /\ pc[t] = "rc_sweep" /\ pc'[t] = "rc_suspend"
        /\ u \in todo[t] \cap list /\ todo'[t] = todo[t] \ {u} /\ current'[t] = u
        /\ UNCHANGED <<list, lock, state, request, checkpoints, suspend_count, running, ret,
                       mode, remaining, count, barrier, ran>>
    BY DEF C!SweepSuspended, C!Goto, C!thread, CheckpointInv, Types, Frame, Only
  <1>2. VisitedStay(t)
    BY <1>1, StatesKept
  <1>3. ThreadOK(t)'
    BY <1>1 DEF CheckpointInv, ThreadOK, Runnable, Calling, Locking, Visiting
  <1>4. /\ Counting(t) /\ Counting(t)' /\ ~Returned(t) /\ ~Returned(t)'
        /\ Sweeping(t) /\ Sweeping(t)' /\ ~First(t)'
    BY <1>1 DEF Counting, Returned, First, Sweeping, Visiting
  <1>5. VisitOK(t)'
    BY <1>1, <1>4 DEF CheckpointInv, VisitOK, Visiting
  <1>6. \A v \in Thread : Left(t, v)' <=> Left(t, v)
    BY <1>1, <1>4 DEF Left, CheckpointInv, VisitOK
  <1> QED
    BY <1>1, <1>2, <1>3, <1>4, <1>5, <1>6, MoveKeeps DEF Holding

\* The thread whose suspend count went up is suspended, and stays so from now on.
LEMMA SweepHoldKeeps ==
  ASSUME CheckpointInv, NEW t \in Thread, C!SweepHold(t)
  PROVE  CheckpointInv'
  <1>1. /\ Frame(t) /\ pc[t] = "rc_check" /\ pc'[t] = "rc_run" /\ lock' = None
        /\ state[current[t]] # "kRunnable"
        /\ UNCHANGED <<list, state, request, checkpoints, suspend_count, running, ret, mode,
                       todo, remaining, current, count, barrier, ran>>
    <2>1. lock = t
      BY DEF C!SweepHold, CheckpointInv, ThreadOK, Locking
    <2> QED
      BY <2>1, ThreadsFinite DEF C!SweepHold, C!StaysSuspended, C!Goto, C!thread, C!sweep,
         CheckpointInv, Types, Frame, Only
  <1>2. VisitedStay(t)
    BY <1>1, StatesKept
  <1>3. ThreadOK(t)'
    BY <1>1, ThreadsFinite DEF CheckpointInv, ThreadOK, Runnable, Calling, Locking, Visiting
  <1>4. /\ Counting(t) /\ Counting(t)' /\ ~Returned(t) /\ ~Returned(t)'
        /\ Sweeping(t) /\ Sweeping(t)' /\ ~First(t)'
    BY <1>1 DEF Counting, Returned, First, Sweeping, Visiting
  <1>5. current[t] \in list /\ state[current[t]] = "kSuspended"
    BY <1>1 DEF CheckpointInv, Types, VisitOK, ThreadOK, Visiting
  <1>6. VisitOK(t)'
    BY <1>1, <1>4, <1>5 DEF CheckpointInv, VisitOK, Visiting
  <1>7. \A v \in Thread : Left(t, v)' <=> Left(t, v)
    BY <1>1 DEF Left
  <1> QED
    BY <1>1, <1>2, <1>3, <1>4, <1>6, <1>7, MoveKeeps DEF Holding

\* The requester takes the lock again after it has been Suspended.
LEMMA RelockKeeps ==
  ASSUME CheckpointInv, NEW t \in Thread, C!Relock(t)
  PROVE  CheckpointInv'
  <1>1. /\ Frame(t) /\ pc[t] = "rc_lock" /\ pc'[t] = "rc_sweep" /\ lock' = t
        /\ UNCHANGED <<list, state, request, checkpoints, suspend_count, running, ret, mode,
                       todo, remaining, current, count, barrier, ran>>
    BY ThreadsFinite DEF C!Relock, C!Goto, C!thread, C!sweep, CheckpointInv, Types, Frame, Only
  <1>2. VisitedStay(t)
    BY <1>1, StatesKept
  <1>3. ThreadOK(t)'
    BY <1>1 DEF CheckpointInv, ThreadOK, Runnable, Calling, Locking, Visiting
  <1>4. /\ Counting(t) /\ Counting(t)' /\ ~Returned(t) /\ ~Returned(t)'
        /\ Sweeping(t) /\ Sweeping(t)' /\ ~First(t)'
    BY <1>1 DEF Counting, Returned, First, Sweeping, Visiting
  <1>5. VisitOK(t)'
    BY <1>1, <1>4 DEF CheckpointInv, VisitOK, Visiting
  <1>6. \A v \in Thread : Left(t, v)' <=> Left(t, v)
    BY <1>1 DEF Left
  <1> QED
    BY <1>1, <1>2, <1>3, <1>4, <1>5, <1>6, MoveKeeps DEF Holding

\* No thread remains.
LEMMA RunOnSelfKeeps ==
  ASSUME CheckpointInv, NEW t \in Thread, C!RunOnSelf(t)
  PROVE  CheckpointInv'
  <1>1. /\ Frame(t) /\ pc[t] \in {"rc_first", "rc_sweep"} /\ pc'[t] = "rc_self" /\ lock' = None
        /\ todo[t] = {} /\ remaining[t] = {}
        /\ UNCHANGED <<list, state, request, checkpoints, suspend_count, running, ret, mode,
                       todo, remaining, current, count, barrier, ran>>
    <2>1. lock = t
      BY DEF C!RunOnSelf, CheckpointInv, ThreadOK, Locking
    <2> QED
      BY <2>1, ThreadsFinite DEF C!RunOnSelf, C!Goto, C!thread, C!sweep, CheckpointInv, Types,
         Frame, Only
  <1>2. VisitedStay(t)
    BY <1>1, StatesKept
  <1>3. ThreadOK(t)'
    BY <1>1, ThreadsFinite DEF CheckpointInv, ThreadOK, Runnable, Calling, Locking, Visiting
  <1>4. Counting(t) /\ Counting(t)' /\ ~Returned(t) /\ ~Returned(t)' /\ ~First(t)' /\ ~Sweeping(t)'
    BY <1>1 DEF Counting, Returned, First, Sweeping, Visiting
  <1>5. VisitOK(t)'
    BY <1>1, <1>4 DEF CheckpointInv, VisitOK, Visiting
  <1>6. \A v \in Thread : Left(t, v)' <=> Left(t, v)
    BY <1>1 DEF Left
  <1> QED
    BY <1>1, <1>2, <1>3, <1>4, <1>5, <1>6, MoveKeeps DEF Holding

------------------------------------------------------------------------------
(* The suspend counts *)

LEMMA HoldersCounted == ASSUME NEW u PROVE Holders(u) \in SUBSET Thread
  BY DEF Holders

\* t keeps current'[t] suspended ...
LEMMA HoldsTaken ==
  ASSUME Types, NEW t \in Thread, Only(t), \A u \in Thread : HeldOK(u),
         pc[t] \notin Holding, pc'[t] \in Holding, current'[t] \in Thread,
         suspend_count' = [suspend_count EXCEPT ![current'[t]] = @ + 1]
  PROVE  \A u \in Thread : HeldOK(u)'
  <1> SUFFICES ASSUME NEW u \in Thread PROVE HeldOK(u)'
    OBVIOUS
  <1>1. \A r \in Thread : r \in Holders(u)' <=> r \in Holders(u) \/ (r = t /\ u = current'[t])
    BY DEF Only, Holders
  <1>2. t \notin Holders(u)
    BY DEF Holders
  <1>3. Holders(u)' = IF u = current'[t] THEN Holders(u) \cup {t} ELSE Holders(u)
    BY SMT, <1>1 DEF Holders
  <1>4. suspend_count'[u] = IF u = current'[t] THEN suspend_count[u] + 1 ELSE suspend_count[u]
    BY DEF Types
  <1>5. Cardinality(Holders(u) \cup {t}) = Cardinality(Holders(u)) + 1
    BY <1>2, Counted, HoldersCounted
  <1> QED
    BY <1>3, <1>4, <1>5 DEF HeldOK

\* ... and releases it again.
LEMMA HoldsReleased ==
  ASSUME Types, NEW t \in Thread, Only(t), \A u \in Thread : HeldOK(u),
         pc[t] \in Holding, pc'[t] \notin Holding, current[t] \in Thread,
         suspend_count' = [suspend_count EXCEPT ![current[t]] = @ - 1]
  PROVE  \A u \in Thread : HeldOK(u)'
  <1> SUFFICES ASSUME NEW u \in Thread PROVE HeldOK(u)'
    OBVIOUS
  <1>1. \A r \in Thread : r \in Holders(u)' <=> r \in Holders(u) /\ r # t
    BY DEF Only, Holders
  <1>2. t \in Holders(u) <=> u = current[t]
    BY DEF Holders
  <1>3. Holders(u)' = IF u = current[t] THEN Holders(u) \ {t} ELSE Holders(u)
    BY SMT, <1>1, <1>2 DEF Holders
  <1>4. suspend_count'[u] = IF u = current[t] THEN suspend_count[u] - 1 ELSE suspend_count[u]
    BY DEF Types
  <1>5. u = current[t] => Cardinality(Holders(u) \ {t}) = Cardinality(Holders(u)) - 1
    BY <1>2, Counted, HoldersCounted
  <1> QED
    BY <1>3, <1>4, <1>5 DEF HeldOK

\* The requester increments the suspend count of the thread it found suspended.
LEMMA SweepIncrementKeeps ==
  ASSUME CheckpointInv, NEW t \in Thread, C!SweepIncrement(t)
  PROVE  CheckpointInv'
  <1>0. current[t] \in Thread
    BY DEF C!SweepIncrement, CheckpointInv, Types, VisitOK, Visiting
  <1>1. /\ Frame(t) /\ pc[t] = "rc_suspend" /\ pc'[t] = "rc_check"
        /\ suspend_count' = [suspend_count EXCEPT ![current[t]] = @ + 1]
        /\ UNCHANGED <<list, lock, state, request, checkpoints, running, ret, mode,
                       todo, remaining, current, count, barrier, ran>>
    BY <1>0 DEF C!SweepIncrement, C!Held, C!Goto, C!sweep, CheckpointInv, Types, Frame, Only
  <1>2. VisitedStay(t)
    BY <1>1, StatesKept
  <1>3. ThreadOK(t)'
    BY <1>1 DEF CheckpointInv, ThreadOK, Runnable, Calling, Locking, Visiting
  <1>4. /\ Counting(t) /\ Counting(t)' /\ ~Returned(t) /\ ~Returned(t)'
        /\ Sweeping(t) /\ Sweeping(t)' /\ ~First(t)'
    BY <1>1 DEF Counting, Returned, First, Sweeping, Visiting
  <1>5. VisitOK(t)'
    BY <1>1, <1>4 DEF CheckpointInv, VisitOK, Visiting
  <1>6. \A v \in Thread : Left(t, v)' <=> Left(t, v)
    BY <1>1 DEF Left
  <1>7. \A u \in Thread : HeldOK(u)'
    BY <1>0, <1>1, HoldsTaken DEF CheckpointInv, Frame, Holding
  <1> QED
    BY <1>1, <1>2, <1>3, <1>4, <1>5, <1>6, <1>7, QuietKeeps

\* The thread became Runnable before, or its flip function is being run: it is left to the
\* next sweep.
LEMMA SkipKeeps ==
  ASSUME CheckpointInv, NEW t \in Thread, C!SweepMissed(t) \/ C!SweepFlipping(t)
  PROVE  CheckpointInv'
  <1>0. current[t] \in Thread /\ (C!SweepMissed(t) => lock = t)
    BY DEF C!SweepMissed, C!SweepFlipping, CheckpointInv, Types, VisitOK, ThreadOK, Visiting,
       Locking
  <1>1. /\ Frame(t) /\ pc[t] \in {"rc_check", "rc_run"} /\ pc'[t] = "rc_sweep" /\ lock' = t
        /\ suspend_count' = [suspend_count EXCEPT ![current[t]] = @ - 1]
        /\ UNCHANGED <<list, state, request, checkpoints, running, ret, mode,
                       todo, remaining, count, barrier, ran>>
    <2>1. /\ C!Skip(t) /\ pc[t] \in {"rc_check", "rc_run"} /\ lock' = t
          /\ \A u \in Thread \ {t} : lock' = u <=> lock = u
      BY <1>0, ThreadsFinite DEF C!SweepMissed, C!SweepFlipping
    <2> QED
      BY <1>0, <2>1 DEF C!Skip, C!Goto, CheckpointInv, Types, Frame, Only
  <1>2. VisitedStay(t)
    BY <1>1, StatesKept
  <1>3. ThreadOK(t)'
    BY <1>1 DEF CheckpointInv, ThreadOK, Runnable, Calling, Locking, Visiting
  <1>4. /\ Counting(t) /\ Counting(t)' /\ ~Returned(t) /\ ~Returned(t)'
        /\ Sweeping(t) /\ Sweeping(t)' /\ ~First(t)'
    BY <1>1 DEF Counting, Returned, First, Sweeping, Visiting
  <1>5. VisitOK(t)'
    BY <1>1, <1>4 DEF CheckpointInv, VisitOK, Visiting
  <1>6. \A v \in Thread : Left(t, v)' <=> Left(t, v)
    BY <1>1 DEF Left
  <1>7. \A u \in Thread : HeldOK(u)'
    BY <1>0, <1>1, HoldsReleased DEF CheckpointInv, Frame, Holding
  <1> QED
    BY <1>1, <1>2, <1>3, <1>4, <1>5, <1>6, <1>7, QuietKeeps

\* The closure has been run for the thread, which may go on.
LEMMA ReleaseThreadKeeps ==
  ASSUME CheckpointInv, NEW t \in Thread, C!ReleaseThread(t)
  PROVE  CheckpointInv'
  <1>0. current[t] \in Thread /\ current[t] \notin todo[t]
    BY DEF C!ReleaseThread, CheckpointInv, Types, VisitOK, Visiting
  <1>1. /\ Frame(t) /\ pc[t] = "rc_release"
        /\ suspend_count' = [suspend_count EXCEPT ![current[t]] = @ - 1]
        /\ remaining'[t] = remaining[t] \ {current[t]}
        /\ \/ mode[t] = "acquire" /\ ret'[t] = "rc_lock" /\ pc'[t] = "leave" /\ lock' = lock
           \/ mode[t] # "acquire" /\ ret'[t] = ret[t] /\ pc'[t] = "rc_sweep" /\ lock' = t
        /\ UNCHANGED <<list, state, request, checkpoints, running, mode, todo, count, barrier, ran>>
    BY <1>0, ThreadsFinite DEF C!ReleaseThread, C!Done, C!Goto, CheckpointInv, Types, Frame,
       Only
  <1>2. VisitedStay(t)
    BY <1>1, StatesKept
  <1>3. ThreadOK(t)'
    BY <1>1 DEF CheckpointInv, ThreadOK, Runnable, Calling, Locking, Visiting
  <1>4. /\ Counting(t) /\ Counting(t)' /\ ~Returned(t) /\ ~Returned(t)'
        /\ Sweeping(t) /\ Sweeping(t)' /\ ~First(t)'
    BY <1>1 DEF Counting, Returned, First, Sweeping, Visiting
  <1>5. VisitOK(t)'
    BY <1>0, <1>1, <1>4 DEF CheckpointInv, VisitOK, Visiting
  <1>6. \A v \in Thread : Left(t, v)' <=> Left(t, v)
    BY <1>0, <1>1 DEF Left
  <1>7. \A u \in Thread : HeldOK(u)'
    BY <1>0, <1>1, HoldsReleased DEF CheckpointInv, Frame, Holding
  <1> QED
    BY <1>1, <1>2, <1>3, <1>4, <1>5, <1>6, <1>7, QuietKeeps

------------------------------------------------------------------------------
(* The closures that wait to be run *)

\* What it does to a queue without repetitions to take its head, or to add to it.
LEMMA HeadTaken ==
  ASSUME NEW S, NEW q \in Seq(S), q # <<>>, Distinct(q)
  PROVE  /\ Head(q) \in S /\ In(q, Head(q))
         /\ Tail(q) \in Seq(S) /\ Distinct(Tail(q))
         /\ \A x : In(Tail(q), x) <=> In(q, x) /\ x # Head(q)
         /\ Len(q) > 1 <=> Tail(q) # <<>>
  <1>1. Len(q) \in Nat /\ Len(q) > 0 /\ DOMAIN q = 1..Len(q) /\ Head(q) = q[1]
    BY SMT
  <1>2. /\ Tail(q) \in Seq(S) /\ Len(Tail(q)) = Len(q) - 1 /\ DOMAIN Tail(q) = 1..(Len(q) - 1)
        /\ \A i \in 1..(Len(q) - 1) : Tail(q)[i] = q[i + 1]
    BY SMT, <1>1
  <1>3. Distinct(Tail(q))
    BY SMT, <1>1, <1>2 DEF Distinct
  <1>4. \A x : In(Tail(q), x) => In(q, x) /\ x # Head(q)
    BY SMT, <1>1, <1>2 DEF Distinct, In
  <1>5. ASSUME NEW x, In(q, x), x # Head(q) PROVE In(Tail(q), x)
    <2>1. PICK i \in 1..Len(q) : q[i] = x
      BY <1>1, <1>5 DEF In
    <2>2. i # 1 /\ i - 1 \in 1..(Len(q) - 1) /\ (i - 1) + 1 = i
      BY SMT, <1>1, <1>5, <2>1
    <2>3. Tail(q)[i - 1] = x
      BY <1>2, <2>1, <2>2
    <2> QED
      BY <1>2, <2>2, <2>3 DEF In
  <1>6. Len(q) > 1 <=> Tail(q) # <<>>
    <2>1. Tail(q) = <<>> <=> Len(Tail(q)) = 0
      BY <1>2, EmptySeq
    <2>2. Len(q) > 1 <=> Len(q) - 1 # 0
      BY SMT, <1>1
    <2> QED
      BY <1>2, <2>1, <2>2
  <1>7. 1 \in DOMAIN q /\ q[1] \in S
    BY SMT, <1>1
  <1> QED
    BY <1>1, <1>2, <1>3, <1>4, <1>5, <1>6, <1>7 DEF In

LEMMA Added ==
  ASSUME NEW S, NEW q \in Seq(S), NEW x \in S
  PROVE  /\ Append(q, x) \in Seq(S) /\ Append(q, x) # <<>>
         /\ \A y : In(Append(q, x), y) <=> In(q, y) \/ y = x
         /\ Distinct(q) /\ ~In(q, x) => Distinct(Append(q, x))
  <1>1. Len(q) \in Nat /\ DOMAIN q = 1..Len(q)
    BY SMT
  <1>2. /\ Append(q, x) \in Seq(S) /\ Len(Append(q, x)) = Len(q) + 1
        /\ DOMAIN Append(q, x) = 1..(Len(q) + 1)
        /\ \A i \in 1..Len(q) : Append(q, x)[i] = q[i]
        /\ Append(q, x)[Len(q) + 1] = x
    BY SMT, <1>1
  <1>3. \A i \in 1..(Len(q) + 1) : i \in 1..Len(q) \/ i = Len(q) + 1
    BY SMT, <1>1
  <1>4. 1..Len(q) \subseteq 1..(Len(q) + 1) /\ Len(q) + 1 \in 1..(Len(q) + 1)
    BY SMT, <1>1
  <1>5. Append(q, x) # <<>>
    BY SMT, <1>1, <1>2
  <1>6. \A y : In(Append(q, x), y) <=> In(q, y) \/ y = x
    BY <1>1, <1>2, <1>3, <1>4 DEF In
  <1>7. Distinct(q) /\ ~In(q, x) => Distinct(Append(q, x))
    BY <1>1, <1>2, <1>3, <1>4 DEF In, Distinct
  <1> QED
    BY <1>2, <1>5, <1>6, <1>7

\* A thread that waits to run the closure of r.
LEMMA Waiting ==
  \A r, u : C!Pending(r, u) <=> running[u] = r \/ In(checkpoints[u], r)
  BY DEF C!Pending, In

LEMMA WaitingNext ==
  \A r, u : C!Pending(r, u)' <=> running'[u] = r \/ In(checkpoints'[u], r)
  BY DEF C!Pending, In

\* RunCheckpointFunction takes the next closure.
LEMMA TakeCheckpointKeeps ==
  ASSUME CheckpointInv, NEW t \in Thread, C!TakeCheckpoint(t)
  PROVE  CheckpointInv'
  <1> DEFINE q == checkpoints[t]
  <1>1. q \in Seq(Thread) /\ Distinct(q) /\ running[t] = None
    BY DEF C!TakeCheckpoint, CheckpointInv, Types, QueueOK
  <1>2. q # <<>>
    BY LockFree DEF C!TakeCheckpoint, CheckpointInv, QueueOK, Locking, Asked
  <1>3. /\ Head(q) \in Thread /\ In(q, Head(q)) /\ Tail(q) \in Seq(Thread) /\ Distinct(Tail(q))
        /\ \A x : In(Tail(q), x) <=> In(q, x) /\ x # Head(q)
        /\ Len(q) > 1 <=> Tail(q) # <<>>
    BY <1>1, <1>2, HeadTaken
  <1> HIDE DEF q
  <1>4. /\ Frame(t) /\ pc[t] \in {"java", "leave"}
        /\ running' = [running EXCEPT ![t] = Head(q)]
        /\ checkpoints' = [checkpoints EXCEPT ![t] = Tail(q)]
        /\ request' = IF Len(q) > 1 THEN request ELSE request \ {t}
        /\ UNCHANGED <<list, lock, state, suspend_count, pc, ret, mode, todo, remaining, current,
                       count, barrier, ran>>
    BY <1>3 DEF C!TakeCheckpoint, C!FlagAfter, C!sweep, CheckpointInv, Types, Frame, Only, q
  <1>5. /\ running'[t] = Head(q) /\ checkpoints'[t] = Tail(q)
        /\ \A u \in Thread \ {t} : running'[u] = running[u] /\ checkpoints'[u] = checkpoints[u]
    BY <1>4 DEF CheckpointInv, Types
  <1>6. \A r, u \in Thread : C!Pending(r, u)' <=> C!Pending(r, u)
    BY <1>1, <1>3, <1>5, ThreadsFinite, Waiting, WaitingNext DEF q
  <1>7. VisitedStay(t)
    BY <1>4, StatesKept
  <1>8. ThreadOK(t)'
    BY <1>4 DEF CheckpointInv, ThreadOK, Runnable
  <1>9. VisitOK(t)'
    BY <1>4 DEF CheckpointInv, VisitOK, First, Sweeping
  <1>10. \A u \in Thread : HeldOK(u)'
    BY <1>4, HoldsKept DEF CheckpointInv, Frame
  <1>11. ~Asked(t)' /\ \A u : Asked(u)' <=> Asked(u)
    BY <1>4, LockFree DEF C!TakeCheckpoint, Locking, Asked
  <1>12. QueueOK(t)'
    <2>1. t \in request /\ state[t] = "kRunnable"
      BY DEF C!TakeCheckpoint, CheckpointInv, QueueOK
    <2>2. t \in request' <=> Tail(q) # <<>>
      BY <1>3, <1>4, <2>1
    <2> QED
      BY <1>3, <1>4, <1>5, <1>11, <2>1, <2>2 DEF QueueOK
  <1>13. \A u \in Thread \ {t} : QueueOK(u)'
    BY <1>4, <1>5, <1>11 DEF CheckpointInv, QueueOK
  <1>14. \A r, u \in Thread : Left(r, u)' <=> Left(r, u)
    BY <1>4 DEF Left
  <1>15. \A r \in Thread : (Counting(r)' <=> Counting(r)) /\ (Returned(r)' <=> Returned(r))
    BY <1>4 DEF Counting, Returned, First, Sweeping
  <1>16. \A r, u \in Thread : (Owes(r, u)' <=> Owes(r, u)) /\ ~(Left(r, u) /\ C!Pending(r, u))'
    BY <1>6, <1>14 DEF Owes, CheckpointInv, LedgerOK, OnceOK
  <1>17. \A r \in Thread : LedgerOK(r)'
    BY <1>4, <1>15, <1>16, LedgerKept DEF CheckpointInv
  <1> QED
    BY <1>4, <1>7, <1>8, <1>9, <1>10, <1>12, <1>13, <1>17, StepKeeps

\* RequestCheckpoint sets the flag of a Runnable thread, in the first pass or in a sweep.
LEMMA SetRequestKeeps ==
  ASSUME CheckpointInv, NEW t \in Thread, NEW u \in Thread,
         C!FirstRunnable(t, u) \/ C!SweepRunnable(t, u)
  PROVE  CheckpointInv'
  <1>1. /\ Frame(t) /\ pc[t] \in {"rc_first", "rc_sweep"} /\ pc'[t] = "rc_insert" /\ ret'[t] = pc[t]
        /\ u \in todo[t] /\ state[u] = "kRunnable" /\ current'[t] = u
        /\ todo'[t] = todo[t] \ {u}
        /\ pc[t] = "rc_first" => remaining'[t] = remaining[t]
        /\ pc[t] = "rc_sweep" => remaining'[t] = remaining[t] \ {u}
        /\ request' = request \cup {u}
        /\ UNCHANGED <<list, lock, state, checkpoints, suspend_count, running, mode, count,
                       barrier, ran>>
    <2>1. /\ C!SetRequest(t, u) /\ pc[t] \in {"rc_first", "rc_sweep"} /\ u \in todo[t]
          /\ pc[t] = "rc_first" => remaining' = remaining
          /\ pc[t] = "rc_sweep" => remaining' = [remaining EXCEPT ![t] = remaining[t] \ {u}]
      BY DEF C!FirstRunnable, C!SweepRunnable, C!Done
    <2>2. /\ remaining' \in [Thread -> SUBSET Thread]
          /\ \A v \in Thread \ {t} : remaining'[v] = remaining[v]
          /\ pc[t] = "rc_first" => remaining'[t] = remaining[t]
          /\ pc[t] = "rc_sweep" => remaining'[t] = remaining[t] \ {u}
      <3>1. CASE pc[t] = "rc_first"
        BY <2>1, <3>1 DEF CheckpointInv, Types
      <3>2. CASE pc[t] = "rc_sweep"
        <4>1. remaining[t] \ {u} \in SUBSET Thread /\ remaining \in [Thread -> SUBSET Thread]
          BY DEF CheckpointInv, Types
        <4> QED
          BY <2>1, <3>2, <4>1
      <3> QED
        BY <2>1, <3>1, <3>2
    <2> QED
      BY <2>1, <2>2 DEF C!SetRequest, C!Goto, CheckpointInv, Types, Frame, Only
  <1>2. u \in list /\ u # t
    BY <1>1 DEF CheckpointInv, ThreadOK, VisitOK, Runnable, Calling, Locking, Visiting
  <1>3. VisitedStay(t)
    BY <1>1, StatesKept
  <1>4. ThreadOK(t)'
    BY <1>1 DEF CheckpointInv, ThreadOK, Runnable, Calling, Locking, Visiting
  <1>5. /\ Counting(t) /\ Counting(t)' /\ ~Returned(t) /\ ~Returned(t)'
        /\ (First(t)' <=> First(t)) /\ (Sweeping(t)' <=> Sweeping(t))
        /\ (First(t) <=> pc[t] = "rc_first") /\ (Sweeping(t) <=> pc[t] = "rc_sweep")
    BY <1>1 DEF Counting, Returned, First, Sweeping, Visiting
  <1>6. u \notin remaining'[t]
    BY <1>1, <1>5 DEF CheckpointInv, VisitOK
  <1>7. VisitOK(t)'
    BY <1>1, <1>2, <1>5, <1>6 DEF CheckpointInv, VisitOK, Visiting
  <1>8. \A v \in Thread : Left(t, v)' <=> Left(t, v)
    BY <1>1, <1>6 DEF Left
  <1>9. \A v \in Thread : HeldOK(v)'
    BY <1>1, HoldsKept DEF CheckpointInv, Frame, Holding
  <1>10. \A v \in Thread : Asked(v)' <=> Asked(v) \/ v = u
    BY <1>1 DEF Asked, Frame, Only
  <1>11. \A v \in Thread : QueueOK(v)'
    BY <1>1, <1>10 DEF CheckpointInv, QueueOK
  <1>12. \A r, v \in Thread : C!Pending(r, v)' <=> C!Pending(r, v)
    BY <1>1 DEF C!Pending
  <1>13. \A v \in Thread : (Owes(t, v)' <=> Owes(t, v)) /\ ~(Left(t, v) /\ C!Pending(t, v))'
    BY <1>8, <1>12 DEF Owes, CheckpointInv, LedgerOK, OnceOK
  <1>14. LedgerOK(t)'
    BY <1>1, <1>5, <1>13, LedgerKept DEF CheckpointInv
  <1>15. \A r \in Thread : LedgerOK(r)'
    BY <1>1, <1>12, <1>14, LedgersKept DEF CheckpointInv, Frame
  <1> QED
    BY <1>1, <1>3, <1>4, <1>7, <1>9, <1>11, <1>15, StepKeeps

\* RequestCheckpoint adds the closure, which the thread now has to run.
LEMMA InsertCheckpointKeeps ==
  ASSUME CheckpointInv, NEW t \in Thread, C!InsertCheckpoint(t)
  PROVE  CheckpointInv'
  <1>0. PICK u : u = current[t]
    OBVIOUS
  <1>1. u \in Thread /\ u \notin todo[t] \cup remaining[t] /\ Asked(u)
    BY <1>0 DEF C!InsertCheckpoint, CheckpointInv, Types, VisitOK, Asked
  <1>2. ret[t] \in {"rc_first", "rc_sweep"}
    BY DEF C!InsertCheckpoint, CheckpointInv, ThreadOK
  <1>3. Left(t, u) /\ ~C!Pending(t, u)
    BY <1>0, <1>1 DEF C!InsertCheckpoint, Left, CheckpointInv, LedgerOK, OnceOK
  <1>4. /\ Append(checkpoints[u], t) \in Seq(Thread) /\ Append(checkpoints[u], t) # <<>>
        /\ \A y : In(Append(checkpoints[u], t), y) <=> In(checkpoints[u], y) \/ y = t
        /\ Distinct(Append(checkpoints[u], t))
    <2>1. checkpoints[u] \in Seq(Thread) /\ Distinct(checkpoints[u])
      BY <1>1 DEF CheckpointInv, Types, QueueOK
    <2> QED
      BY <1>3, <2>1, Added, Waiting
  <1>5. /\ Frame(t) /\ pc[t] = "rc_insert" /\ pc'[t] = ret[t]
        /\ checkpoints' = [checkpoints EXCEPT ![u] = Append(checkpoints[u], t)]
        /\ UNCHANGED <<list, lock, state, request, suspend_count, running, ret, mode, todo,
                       remaining, count, barrier, ran>>
    BY <1>0, <1>1, <1>4 DEF C!InsertCheckpoint, C!Goto, CheckpointInv, Types, Frame, Only
  <1>6. /\ checkpoints'[u] = Append(checkpoints[u], t)
        /\ \A v \in Thread \ {u} : checkpoints'[v] = checkpoints[v]
    BY <1>1, <1>5 DEF CheckpointInv, Types
  <1>7. \A r, v \in Thread : C!Pending(r, v)' <=> C!Pending(r, v) \/ (r = t /\ v = u)
    BY <1>4, <1>5, <1>6, Waiting, WaitingNext
  <1>8. VisitedStay(t)
    BY <1>5, StatesKept
  <1>9. ThreadOK(t)'
    BY <1>2, <1>5 DEF CheckpointInv, ThreadOK, Runnable, Calling, Locking, Visiting
  <1>10. /\ Counting(t) /\ Counting(t)' /\ ~Returned(t) /\ ~Returned(t)'
         /\ (First(t)' <=> First(t)) /\ (Sweeping(t)' <=> Sweeping(t))
    BY <1>2, <1>5 DEF Counting, Returned, First, Sweeping, Visiting
  <1>11. VisitOK(t)'
    BY <1>2, <1>5, <1>10 DEF CheckpointInv, VisitOK, Visiting
  <1>12. \A v \in Thread : Left(t, v)' <=> Left(t, v) /\ v # u
    BY <1>0, <1>1, <1>2, <1>5 DEF Left
  <1>13. \A v \in Thread : HeldOK(v)'
    BY <1>2, <1>5, HoldsKept DEF CheckpointInv, Frame, Holding
  <1>14. \A v \in Thread \ {u} : Asked(v)' <=> Asked(v)
    BY <1>0, <1>2, <1>5 DEF Asked, Frame, Only
  <1>15. \A v \in Thread \ {u} : QueueOK(v)'
    BY <1>5, <1>6, <1>14 DEF CheckpointInv, QueueOK
  <1>16. QueueOK(u)'
    <2>1. u \in request /\ state[u] = "kRunnable" /\ running[u] # t
      BY <1>1, <1>3, Waiting DEF CheckpointInv, QueueOK
    <2>2. ~In(checkpoints[u], running[u])
      BY <1>1 DEF CheckpointInv, QueueOK
    <2> QED
      BY <1>4, <1>5, <1>6, <2>1, <2>2 DEF QueueOK
  <1>17. \A v \in Thread : (Owes(t, v)' <=> Owes(t, v)) /\ ~(Left(t, v) /\ C!Pending(t, v))'
    BY <1>3, <1>7, <1>12 DEF Owes, CheckpointInv, LedgerOK, OnceOK
  <1>18. LedgerOK(t)'
    BY <1>5, <1>10, <1>17, LedgerKept DEF CheckpointInv
  <1>19. \A r \in Thread : LedgerOK(r)'
    BY <1>5, <1>7, <1>18, LedgersKept DEF CheckpointInv, Frame
  <1> QED
    BY <1>5, <1>8, <1>9, <1>11, <1>13, <1>15, <1>16, <1>19, StepKeeps

------------------------------------------------------------------------------
(* The runs of the closures *)

\* What v owes is done, or v is gone.
LEMMA LedgerPaid ==
  ASSUME NEW r \in Thread, NEW v \in Thread, LedgerOK(r), Owes(r, v),
         Counting(r)' <=> Counting(r), Returned(r)' <=> Returned(r),
         count[r] \in Int, barrier[r] \in Int, count'[r] \in Int, barrier'[r] \in Int,
         count'[r] + barrier'[r] = count[r] + barrier[r] - 1,
         Returned(r) => barrier'[r] = barrier[r] - 1,
         ran'[r][v] \in {0, 1}, \A u \in Thread \ {v} : ran'[r][u] = ran[r][u],
         \A u \in Thread : Owes(r, u)' <=> Owes(r, u) /\ u # v,
         \A u \in Thread : ~(Left(r, u) /\ C!Pending(r, u))'
  PROVE  LedgerOK(r)'
  <1>1. v # r /\ (Counting(r) \/ Returned(r))
    BY DEF LedgerOK, AccountOK
  <1>2. Owed(r)' = Owed(r) \ {v} /\ v \in Owed(r) /\ Owed(r) \in SUBSET Thread
    BY DEF Owed
  <1>3. /\ Cardinality(Owed(r)') = Cardinality(Owed(r)) - 1
        /\ Cardinality(Owed(r)) \in Nat
    BY <1>2, Counted
  <1>4. Returned(r)' => barrier'[r] = Cardinality(Owed(r)')
    BY <1>3 DEF LedgerOK, AccountOK
  <1>5. Counting(r)' => count'[r] + barrier'[r] = 1 + Cardinality(Owed(r)')
    BY SMT, <1>3 DEF LedgerOK, AccountOK
  <1>6. Counting(r)' => ran'[r][r] = 0
    BY <1>1 DEF LedgerOK, AccountOK
  <1>7. AccountOK(r)'
    BY <1>1, <1>4, <1>5, <1>6 DEF LedgerOK, AccountOK
  <1>8. \A u \in Thread : OnceOK(r, u)'
    BY DEF LedgerOK, OnceOK
  <1> QED
    BY <1>7, <1>8 DEF LedgerOK

\* A run of the closure of r on v.
LEMMA RunEffect ==
  ASSUME Types, NEW r \in Thread, NEW v \in Thread, C!Run(r, v), ran[r][v] = 0
  PROVE  /\ ran' \in [Thread -> [Thread -> Int]] /\ barrier' \in [Thread -> Int]
         /\ ran'[r][v] = 1 /\ \A u \in Thread \ {v} : ran'[r][u] = ran[r][u]
         /\ barrier'[r] = barrier[r] - 1
         /\ \A s \in Thread \ {r} : ran'[s] = ran[s] /\ barrier'[s] = barrier[s]
  <1>0. /\ ran \in [Thread -> [Thread -> Int]] /\ barrier \in [Thread -> Int]
        /\ ran' = [ran EXCEPT ![r] = [ran[r] EXCEPT ![v] = ran[r][v] + 1]]
        /\ barrier' = [barrier EXCEPT ![r] = barrier[r] - 1]
    BY DEF Types, C!Run
  <1>1. /\ ran' \in [Thread -> [Thread -> Int]]
        /\ ran'[r] = [ran[r] EXCEPT ![v] = @ + 1] /\ \A s \in Thread \ {r} : ran'[s] = ran[s]
    BY SMT, <1>0
  <1>2. ran'[r][v] = 1 /\ \A u \in Thread \ {v} : ran'[r][u] = ran[r][u]
    BY SMT, <1>0, <1>1
  <1>3. /\ barrier' \in [Thread -> Int] /\ barrier'[r] = barrier[r] - 1
        /\ \A s \in Thread \ {r} : barrier'[s] = barrier[s]
    BY SMT, <1>0
  <1> QED
    BY <1>1, <1>2, <1>3

\* RunCheckpointFunction runs the closure it has taken.
LEMMA RunCheckpointFunctionKeeps ==
  ASSUME CheckpointInv, NEW t \in Thread, C!RunCheckpointFunction(t)
  PROVE  CheckpointInv'
  <1>0. PICK r : r = running[t]
    OBVIOUS
  <1>1. r \in Thread
    BY <1>0 DEF C!RunCheckpointFunction, CheckpointInv, Types
  <1>2. C!Pending(r, t) /\ Owes(r, t) /\ ran[r][t] = 0 /\ ~In(checkpoints[t], r)
    BY <1>0, <1>1, Waiting DEF CheckpointInv, LedgerOK, OnceOK, QueueOK, Owes
  <1>3. /\ ran' \in [Thread -> [Thread -> Int]] /\ barrier' \in [Thread -> Int]
        /\ ran'[r][t] = 1 /\ \A u \in Thread \ {t} : ran'[r][u] = ran[r][u]
        /\ barrier'[r] = barrier[r] - 1
        /\ \A s \in Thread \ {r} : ran'[s] = ran[s] /\ barrier'[s] = barrier[s]
    BY <1>0, <1>1, <1>2, RunEffect DEF C!RunCheckpointFunction, CheckpointInv
  <1>4. /\ Frame(t) /\ running'[t] = None /\ \A u \in Thread \ {t} : running'[u] = running[u]
        /\ UNCHANGED <<list, lock, state, request, checkpoints, suspend_count, pc, ret, mode,
                       todo, remaining, current, count>>
    BY <1>3 DEF C!RunCheckpointFunction, C!sweep, CheckpointInv, Types, Frame, Only
  <1>5. \A s, u \in Thread : C!Pending(s, u)' <=> C!Pending(s, u) /\ ~(s = r /\ u = t)
    BY <1>0, <1>2, <1>4, ThreadsFinite, Waiting, WaitingNext
  <1>6. VisitedStay(t)
    BY <1>4, StatesKept
  <1>7. ThreadOK(t)'
    BY <1>4 DEF CheckpointInv, ThreadOK, Runnable
  <1>8. VisitOK(t)'
    BY <1>4 DEF CheckpointInv, VisitOK, First, Sweeping
  <1>9. \A u \in Thread : HeldOK(u)'
    BY <1>4, HoldsKept DEF CheckpointInv, Frame
  <1>10. \A u \in Thread : ~In(checkpoints[u], None)
    BY SMT, ThreadsFinite DEF CheckpointInv, Types, In
  <1>11. \A u \in Thread : Asked(u)' <=> Asked(u)
    BY <1>4 DEF Asked
  <1>12. \A u \in Thread : QueueOK(u)'
    BY <1>4, <1>10, <1>11 DEF CheckpointInv, QueueOK
  <1>13. \A s, u \in Thread : Left(s, u)' <=> Left(s, u)
    BY <1>4 DEF Left
  <1>14. \A s \in Thread : (Counting(s)' <=> Counting(s)) /\ (Returned(s)' <=> Returned(s))
    BY <1>4 DEF Counting, Returned, First, Sweeping
  <1>15. /\ \A u \in Thread : Owes(r, u)' <=> Owes(r, u) /\ u # t
         /\ \A u \in Thread : ~(Left(r, u) /\ C!Pending(r, u))'
    BY <1>1, <1>2, <1>5, <1>13 DEF Owes, CheckpointInv, LedgerOK, OnceOK
  <1>16. /\ count'[r] = count[r] /\ count[r] \in Int /\ barrier[r] \in Int /\ barrier'[r] \in Int
         /\ count'[r] + barrier'[r] = count[r] + barrier[r] - 1
    BY SMT, <1>1, <1>3, <1>4 DEF CheckpointInv, Types
  <1>17. LedgerOK(r)'
    BY <1>1, <1>2, <1>3, <1>14, <1>15, <1>16, LedgerPaid DEF CheckpointInv
  <1>18. ASSUME NEW s \in Thread, s # r PROVE LedgerOK(s)'
    <2>1. \A u \in Thread : (Owes(s, u)' <=> Owes(s, u)) /\ ~(Left(s, u) /\ C!Pending(s, u))'
      BY <1>5, <1>13, <1>18 DEF Owes, CheckpointInv, LedgerOK, OnceOK
    <2> QED
      BY <1>3, <1>4, <1>14, <1>18, <2>1, LedgerKept DEF CheckpointInv
  <1> QED
    BY <1>4, <1>6, <1>7, <1>8, <1>9, <1>12, <1>17, <1>18, StepKeeps

\* The requester runs its closure on behalf of the thread it keeps suspended.
LEMMA RunOnBehalfKeeps ==
  ASSUME CheckpointInv, NEW t \in Thread, C!RunOnBehalf(t)
  PROVE  CheckpointInv'
  <1>0. PICK u : u = current[t]
    OBVIOUS
  <1>1. u \in Thread /\ u \in remaining[t] /\ u \notin todo[t]
    BY <1>0 DEF C!RunOnBehalf, CheckpointInv, Types, VisitOK, Visiting
  <1>2. Left(t, u) /\ Owes(t, u) /\ ~C!Pending(t, u) /\ ran[t][u] = 0
    BY <1>1 DEF C!RunOnBehalf, Left, Owes, CheckpointInv, LedgerOK, OnceOK
  <1>3. /\ ran' \in [Thread -> [Thread -> Int]] /\ barrier' \in [Thread -> Int]
        /\ ran'[t][u] = 1 /\ \A v \in Thread \ {u} : ran'[t][v] = ran[t][v]
        /\ barrier'[t] = barrier[t] - 1
        /\ \A s \in Thread \ {t} : ran'[s] = ran[s] /\ barrier'[s] = barrier[s]
    BY <1>0, <1>1, <1>2, RunEffect DEF C!RunOnBehalf, CheckpointInv
  <1>4. /\ Frame(t) /\ pc[t] = "rc_run" /\ pc'[t] = "rc_release"
        /\ UNCHANGED <<list, lock, state, request, checkpoints, suspend_count, running, ret, mode,
                       todo, remaining, current, count>>
    BY <1>3 DEF C!RunOnBehalf, C!Goto, C!sweep, CheckpointInv, Types, Frame, Only
  <1>5. VisitedStay(t)
    BY <1>4, StatesKept
  <1>6. ThreadOK(t)'
    BY <1>4 DEF CheckpointInv, ThreadOK, Runnable, Calling, Locking, Visiting
  <1>7. /\ Counting(t) /\ Counting(t)' /\ ~Returned(t) /\ ~Returned(t)'
        /\ Sweeping(t) /\ Sweeping(t)' /\ ~First(t)'
    BY <1>4 DEF Counting, Returned, First, Sweeping, Visiting
  <1>8. VisitOK(t)'
    BY <1>4, <1>7 DEF CheckpointInv, VisitOK, Visiting
  <1>9. \A v \in Thread : HeldOK(v)'
    BY <1>4, HoldsKept DEF CheckpointInv, Frame, Holding
  <1>10. \A v \in Thread : QueueOK(v)'
    BY <1>4, QueuesKept DEF CheckpointInv, Frame
  <1>11. \A s, v \in Thread : C!Pending(s, v)' <=> C!Pending(s, v)
    BY <1>4 DEF C!Pending
  <1>12. \A v \in Thread : Left(t, v)' <=> Left(t, v) /\ v # u
    BY <1>0, <1>1, <1>4 DEF Left
  <1>13. /\ \A v \in Thread : Owes(t, v)' <=> Owes(t, v) /\ v # u
         /\ \A v \in Thread : ~(Left(t, v) /\ C!Pending(t, v))'
    BY <1>2, <1>11, <1>12 DEF Owes, CheckpointInv, LedgerOK, OnceOK
  <1>14. /\ count[t] \in Int /\ barrier[t] \in Int /\ count'[t] = count[t] /\ barrier'[t] \in Int
         /\ count'[t] + barrier'[t] = count[t] + barrier[t] - 1
    BY SMT, <1>3, <1>4 DEF CheckpointInv, Types
  <1>15. LedgerOK(t)'
    BY <1>1, <1>2, <1>3, <1>7, <1>13, <1>14, LedgerPaid DEF CheckpointInv
  <1>16. \A r \in Thread : LedgerOK(r)'
    BY <1>3, <1>4, <1>11, <1>15, LedgersKept DEF CheckpointInv, Frame
  <1> QED
    BY <1>4, <1>5, <1>6, <1>8, <1>9, <1>10, <1>16, StepKeeps

\* A thread that has exited owes nothing.
LEMMA SweepExitedKeeps ==
  ASSUME CheckpointInv, NEW t \in Thread, NEW u \in Thread, C!SweepExited(t, u)
  PROVE  CheckpointInv'
  <1>1. /\ Frame(t) /\ pc[t] = "rc_sweep" /\ u \in todo[t]
        /\ todo'[t] = todo[t] \ {u} /\ remaining'[t] = remaining[t] \ {u}
        /\ count' = [count EXCEPT ![t] = count[t] - 1]
        /\ UNCHANGED <<list, lock, state, request, checkpoints, suspend_count, running, pc, ret,
                       mode, current, barrier, ran>>
    <2>1. count \in [Thread -> Int] /\ count' = [count EXCEPT ![t] = count[t] - 1]
      BY DEF C!SweepExited, C!CountAfterExit, CheckpointInv, Types
    <2>2. count' \in [Thread -> Int]
      BY SMT, <2>1
    <2> QED
      BY ZenonT(30), <2>1, <2>2 DEF C!SweepExited, C!CountAfterExit, C!Done, C!thread, CheckpointInv, Types, Frame,
         Only
  <1>2. VisitedStay(t)
    BY <1>1, StatesKept
  <1>3. ThreadOK(t)'
    BY <1>1 DEF CheckpointInv, ThreadOK, Runnable
  <1>4. /\ Counting(t) /\ Counting(t)' /\ ~Returned(t) /\ ~Returned(t)'
        /\ Sweeping(t) /\ Sweeping(t)' /\ ~First(t)'
    BY <1>1 DEF Counting, Returned, First, Sweeping, Visiting
  <1>5. VisitOK(t)'
    BY <1>1, <1>4 DEF CheckpointInv, VisitOK, Visiting
  <1>6. Left(t, u) /\ Owes(t, u) /\ ~C!Pending(t, u)
    BY <1>1 DEF Left, Owes, CheckpointInv, LedgerOK, OnceOK
  <1>7. \A v \in Thread : HeldOK(v)'
    BY <1>1, HoldsKept DEF CheckpointInv, Frame, Holding
  <1>8. \A v \in Thread : QueueOK(v)'
    BY <1>1, QueuesKept DEF CheckpointInv, Frame
  <1>9. \A s, v \in Thread : C!Pending(s, v)' <=> C!Pending(s, v)
    BY <1>1 DEF C!Pending
  <1>10. \A v \in Thread : Left(t, v)' <=> Left(t, v) /\ v # u
    BY <1>1 DEF Left
  <1>11. /\ \A v \in Thread : Owes(t, v)' <=> Owes(t, v) /\ v # u
         /\ \A v \in Thread : ~(Left(t, v) /\ C!Pending(t, v))'
    BY <1>6, <1>9, <1>10 DEF Owes, CheckpointInv, LedgerOK, OnceOK
  <1>12. /\ count[t] \in Int /\ barrier[t] \in Int /\ count'[t] \in Int /\ barrier'[t] = barrier[t]
         /\ count'[t] + barrier'[t] = count[t] + barrier[t] - 1
    <2>1. /\ count[t] \in Int /\ barrier[t] \in Int /\ barrier'[t] = barrier[t]
          /\ count'[t] = count[t] - 1
      BY <1>1 DEF CheckpointInv, Types
    <2> QED
      BY SMT, <2>1
  <1>13. ran'[t] = ran[t] /\ ran[t][u] \in {0, 1}
    BY <1>1 DEF CheckpointInv, LedgerOK, OnceOK
  <1>14. LedgerOK(t)'
    BY <1>4, <1>6, <1>11, <1>12, <1>13, LedgerPaid DEF CheckpointInv
  <1>15. \A r \in Thread : LedgerOK(r)'
    BY <1>1, <1>9, <1>14, LedgersKept DEF CheckpointInv, Frame
  <1> QED
    BY <1>1, <1>2, <1>3, <1>5, <1>7, <1>8, <1>15, StepKeeps

\* The requester takes the lock and counts the threads: each of them owes a run.
LEMMA LockKeeps ==
  ASSUME CheckpointInv, NEW t \in Thread, C!Lock(t)
  PROVE  CheckpointInv'
  <1>0. Cardinality(list) \in Nat
    BY Counted DEF CheckpointInv, Types
  <1>1. /\ Frame(t) /\ pc[t] = "rc_start" /\ pc'[t] = "rc_first" /\ lock' = t
        /\ count'[t] = Cardinality(list) /\ todo'[t] = list \ {t}
        /\ UNCHANGED <<list, state, request, checkpoints, suspend_count, running, ret, mode,
                       remaining, current, barrier, ran>>
    <2>1. count' = [count EXCEPT ![t] = Cardinality(list)]
      BY SameCardinality DEF C!Lock, C!InitialCount
    <2>2. count' \in [Thread -> Int] /\ count'[t] = Cardinality(list)
          /\ \A u \in Thread \ {t} : count'[u] = count[u]
      BY SMT, <1>0, <2>1 DEF CheckpointInv, Types
    <2>3. list \ {t} \in SUBSET Thread
      BY DEF CheckpointInv, Types
    <2> QED
      BY <2>2, <2>3, ThreadsFinite DEF C!Lock, C!Goto, C!thread, CheckpointInv, Types, Frame, Only
  <1>2. VisitedStay(t)
    BY <1>1, StatesKept
  <1>3. ThreadOK(t)'
    BY <1>1 DEF CheckpointInv, ThreadOK, Runnable, Calling, Locking, Visiting
  <1>4. /\ ~Counting(t) /\ ~Returned(t) /\ ~First(t) /\ ~Sweeping(t)
        /\ Counting(t)' /\ ~Returned(t)' /\ First(t)' /\ ~Sweeping(t)'
    BY <1>1 DEF Counting, Returned, First, Sweeping, Visiting
  <1>5. remaining[t] = {} /\ todo[t] = {} /\ t \in list
    BY <1>1, <1>4 DEF CheckpointInv, VisitOK, ThreadOK
  <1>6. VisitOK(t)'
    BY <1>1, <1>4, <1>5 DEF VisitOK, Visiting
  <1>7. \A v \in Thread : HeldOK(v)'
    BY <1>1, HoldsKept DEF CheckpointInv, Frame, Holding
  <1>8. \A v \in Thread : QueueOK(v)'
    BY <1>1, QueuesKept DEF CheckpointInv, Frame
  <1>9. \A s, v \in Thread : C!Pending(s, v)' <=> C!Pending(s, v)
    BY <1>1 DEF C!Pending
  <1>10. barrier[t] = 0 /\ \A v \in Thread : ~C!Pending(t, v) /\ ran[t][v] = 0
    BY <1>4 DEF CheckpointInv, LedgerOK, AccountOK, Owes
  <1>11. \A v \in Thread : (Left(t, v)' <=> v \in list \ {t}) /\ (Owes(t, v)' <=> v \in list \ {t})
    BY <1>1, <1>5, <1>9, <1>10 DEF Left, Owes
  <1>12. Owed(t)' = list \ {t}
    BY <1>11 DEF Owed, CheckpointInv, Types
  <1>13. Cardinality(list \ {t}) = Cardinality(list) - 1
    BY <1>5, Counted DEF CheckpointInv, Types
  <1>14. count'[t] + barrier'[t] = 1 + Cardinality(Owed(t)')
    BY SMT, <1>0, <1>1, <1>10, <1>12, <1>13
  <1>15. AccountOK(t)'
    BY <1>1, <1>4, <1>10, <1>11, <1>14 DEF AccountOK
  <1>16. \A v \in Thread : OnceOK(t, v)'
    BY <1>1, <1>9, <1>10 DEF OnceOK
  <1>17. \A r \in Thread : LedgerOK(r)'
    BY <1>1, <1>9, <1>15, <1>16, LedgersKept DEF CheckpointInv, Frame, LedgerOK
  <1> QED
    BY <1>1, <1>2, <1>3, <1>6, <1>7, <1>8, <1>17, StepKeeps

\* RunCheckpoint runs the closure on the requester and returns: the barrier now counts.
LEMMA ReturnKeeps ==
  ASSUME CheckpointInv, NEW t \in Thread, C!Return(t)
  PROVE  CheckpointInv'
  <1>0. pc[t] = "rc_self" /\ Counting(t) /\ ran[t][t] = 0
    BY DEF C!Return, Counting, CheckpointInv, LedgerOK, AccountOK
  <1>1. /\ ran \in [Thread -> [Thread -> Int]] /\ barrier \in [Thread -> Int]
        /\ count \in [Thread -> Int]
        /\ ran' = [ran EXCEPT ![t] = [ran[t] EXCEPT ![t] = ran[t][t] + 1]]
        /\ barrier' = [barrier EXCEPT ![t] = barrier[t] - 1 + count[t]]
    BY DEF C!Return, CheckpointInv, Types
  <1>2. /\ ran' \in [Thread -> [Thread -> Int]]
        /\ ran'[t] = [ran[t] EXCEPT ![t] = ran[t][t] + 1]
        /\ \A s \in Thread \ {t} : ran'[s] = ran[s]
    BY SMT, <1>1
  <1>3. ran'[t][t] = 1 /\ \A v \in Thread \ {t} : ran'[t][v] = ran[t][v]
    BY SMT, <1>0, <1>1, <1>2
  <1>4. /\ barrier' \in [Thread -> Int] /\ barrier'[t] = barrier[t] - 1 + count[t]
        /\ \A s \in Thread \ {t} : barrier'[s] = barrier[s]
    BY SMT, <1>1
  <1>5. /\ Frame(t)
        /\ \/ mode[t] = "none" /\ pc'[t] = "rc_wait" /\ ret'[t] = ret[t]
           \/ mode[t] # "none" /\ pc'[t] = "leave" /\ ret'[t] = "rc_wait"
        /\ UNCHANGED <<list, lock, state, request, checkpoints, suspend_count, running, mode,
                       todo, remaining, current, count>>
    <2>1. /\ pc = [u \in Thread |-> pc[u]] /\ ret = [u \in Thread |-> ret[u]]
          /\ \/ mode[t] = "none" /\ pc' = [pc EXCEPT ![t] = "rc_wait"] /\ ret' = ret
             \/ /\ mode[t] # "none" /\ pc' = [pc EXCEPT ![t] = "leave"]
                /\ ret' = [ret EXCEPT ![t] = "rc_wait"]
      BY DEF C!Return, C!Goto, CheckpointInv, Types
    <2>2. /\ pc' = [u \in Thread |-> pc'[u]] /\ ret' = [u \in Thread |-> ret'[u]]
          /\ \A u \in Thread \ {t} : pc'[u] = pc[u] /\ ret'[u] = ret[u]
          /\ \/ mode[t] = "none" /\ pc'[t] = "rc_wait" /\ ret'[t] = ret[t]
             \/ mode[t] # "none" /\ pc'[t] = "leave" /\ ret'[t] = "rc_wait"
      BY <2>1
    <2> QED
      BY <1>2, <1>4, <2>2 DEF C!Return, C!thread, C!sweep, CheckpointInv, Types, Frame, Only
  <1>6. VisitedStay(t)
    BY <1>5, StatesKept
  <1>7. ThreadOK(t)'
    BY <1>0, <1>5 DEF CheckpointInv, ThreadOK, Runnable, Calling, Locking, Visiting
  <1>8. /\ ~First(t) /\ ~Sweeping(t) /\ ~First(t)' /\ ~Sweeping(t)'
        /\ ~Counting(t)' /\ Returned(t)'
    BY <1>0, <1>5 DEF Counting, Returned, First, Sweeping, Visiting
  <1>9. VisitOK(t)'
    BY <1>0, <1>5, <1>8 DEF CheckpointInv, VisitOK, Visiting
  <1>10. \A v \in Thread : HeldOK(v)'
    BY <1>0, <1>5, HoldsKept DEF CheckpointInv, Frame, Holding
  <1>11. \A v \in Thread : QueueOK(v)'
    BY <1>0, <1>5, QueuesKept DEF CheckpointInv, Frame
  <1>12. \A s, v \in Thread : C!Pending(s, v)' <=> C!Pending(s, v)
    BY <1>5 DEF C!Pending
  <1>13. \A v \in Thread : (Left(t, v)' <=> Left(t, v)) /\ (Owes(t, v)' <=> Owes(t, v))
    BY <1>0, <1>5, <1>12 DEF Left, Owes
  <1>14. Owed(t)' = Owed(t)
    BY <1>13 DEF Owed
  <1>15. barrier'[t] = Cardinality(Owed(t)')
    <2>1. /\ count[t] + barrier[t] = 1 + Cardinality(Owed(t)) /\ Cardinality(Owed(t)) \in Nat
          /\ count[t] \in Int /\ barrier[t] \in Int
      BY <1>0, <1>1, Counted DEF CheckpointInv, LedgerOK, AccountOK, Owed
    <2> QED
      BY SMT, <1>4, <1>14, <2>1
  <1>16. AccountOK(t)'
    BY <1>8, <1>13, <1>15 DEF CheckpointInv, LedgerOK, AccountOK
  <1>17. ASSUME NEW v \in Thread PROVE OnceOK(t, v)'
    <2>1. OnceOK(t, v) /\ ~Owes(t, t)
      BY DEF CheckpointInv, LedgerOK, AccountOK
    <2> QED
      BY <1>3, <1>12, <1>13, <2>1 DEF OnceOK
  <1>18. \A r \in Thread : LedgerOK(r)'
    BY ZenonT(30), <1>2, <1>4, <1>5, <1>12, <1>16, <1>17, LedgersKept DEF CheckpointInv, Frame, LedgerOK
  <1> QED
    BY <1>5, <1>6, <1>7, <1>9, <1>10, <1>11, <1>18, StepKeeps

\* The wait for the barrier is over: nothing is owed any more.
LEMMA WaitOverKeeps ==
  ASSUME CheckpointInv, NEW t \in Thread, C!WaitOver(t)
  PROVE  CheckpointInv'
  <1>0. pc[t] = "rc_wait" /\ Returned(t) /\ barrier[t] = 0
    BY DEF C!WaitOver, Returned
  <1>1. \A v \in Thread : ~Owes(t, v)
    <2>1. Cardinality(Owed(t)) = 0 /\ Owed(t) \in SUBSET Thread
      BY <1>0 DEF CheckpointInv, LedgerOK, AccountOK, Owed
    <2>2. Owed(t) = {}
      BY <2>1, Counted
    <2> QED
      BY <2>2 DEF Owed
  <1>2. /\ ran' \in [Thread -> [Thread -> Int]] /\ count' \in [Thread -> Int]
        /\ ran'[t] = [v \in Thread |-> 0]
        /\ \A s \in Thread \ {t} : ran'[s] = ran[s] /\ count'[s] = count[s]
    BY SMT DEF C!WaitOver, CheckpointInv, Types
  <1>3. /\ Frame(t)
        /\ \/ mode[t] = "held" /\ pc'[t] = "resume" /\ ret'[t] = "java"
           \/ mode[t] # "held" /\ pc'[t] = "native" /\ ret'[t] = ret[t]
        /\ UNCHANGED <<list, lock, state, request, checkpoints, suspend_count, running, mode,
                       todo, remaining, current, barrier>>
    <2>1. /\ pc = [u \in Thread |-> pc[u]] /\ ret = [u \in Thread |-> ret[u]]
          /\ \/ mode[t] = "held" /\ pc' = [pc EXCEPT ![t] = "resume"]
                /\ ret' = [ret EXCEPT ![t] = "java"]
             \/ mode[t] # "held" /\ pc' = [pc EXCEPT ![t] = "native"] /\ ret' = ret
      BY DEF C!WaitOver, C!Goto, CheckpointInv, Types
    <2>2. /\ pc' = [u \in Thread |-> pc'[u]] /\ ret' = [u \in Thread |-> ret'[u]]
          /\ \A u \in Thread \ {t} : pc'[u] = pc[u] /\ ret'[u] = ret[u]
          /\ \/ mode[t] = "held" /\ pc'[t] = "resume" /\ ret'[t] = "java"
             \/ mode[t] # "held" /\ pc'[t] = "native" /\ ret'[t] = ret[t]
      BY <2>1
    <2> QED
      BY <1>2, <2>2 DEF C!WaitOver, C!thread, CheckpointInv, Types, Frame, Only
  <1>4. VisitedStay(t)
    BY <1>3, StatesKept
  <1>5. ThreadOK(t)'
    BY <1>0, <1>3 DEF CheckpointInv, ThreadOK, Runnable, Calling, Locking, Visiting
  <1>6. /\ ~First(t) /\ ~Sweeping(t) /\ ~First(t)' /\ ~Sweeping(t)'
        /\ ~Counting(t)' /\ ~Returned(t)'
    BY <1>0, <1>3 DEF Counting, Returned, First, Sweeping, Visiting
  <1>7. VisitOK(t)'
    BY <1>0, <1>3, <1>6 DEF CheckpointInv, VisitOK, Visiting
  <1>8. \A v \in Thread : HeldOK(v)'
    BY <1>0, <1>3, HoldsKept DEF CheckpointInv, Frame, Holding
  <1>9. \A v \in Thread : QueueOK(v)'
    BY <1>0, <1>3, QueuesKept DEF CheckpointInv, Frame
  <1>10. \A s, v \in Thread : C!Pending(s, v)' <=> C!Pending(s, v)
    BY <1>3 DEF C!Pending
  <1>11. \A v \in Thread : ~Left(t, v)' /\ ~Owes(t, v)'
    BY <1>0, <1>1, <1>3, <1>10 DEF Left, Owes
  <1>12. \A v \in Thread : ran'[t][v] = 0
    BY <1>2
  <1>13. AccountOK(t)'
    BY <1>0, <1>3, <1>6, <1>11, <1>12 DEF AccountOK
  <1>14. \A v \in Thread : OnceOK(t, v)'
    BY <1>11, <1>12 DEF OnceOK
  <1>15. \A r \in Thread : LedgerOK(r)'
    BY <1>2, <1>3, <1>10, <1>13, <1>14, LedgersKept DEF CheckpointInv, Frame, LedgerOK
  <1> QED
    BY <1>3, <1>4, <1>5, <1>7, <1>8, <1>9, <1>15, StepKeeps

------------------------------------------------------------------------------
(* The invariant holds *)

\* The flip functions of the threads are no part of it.
LEMMA Unchanged ==
  ASSUME CheckpointInv,
         UNCHANGED <<list, lock, state, request, checkpoints, suspend_count, running, pc, ret,
                     mode, todo, remaining, current, count, barrier, ran>>
  PROVE  CheckpointInv'
  <1>1. Types'
    BY DEF CheckpointInv, Types
  <1>2. \A t \in Thread : ThreadOK(t)'
    BY DEF CheckpointInv, ThreadOK, Runnable
  <1>3. \A t \in Thread : QueueOK(t)'
    BY DEF CheckpointInv, QueueOK, Asked
  <1>4. \A t \in Thread : HeldOK(t)'
    BY DEF CheckpointInv, HeldOK, Holders
  <1>5. \A t \in Thread : VisitOK(t)'
    BY DEF CheckpointInv, VisitOK, First, Sweeping
  <1>6. \A r, t \in Thread : (Left(r, t)' <=> Left(r, t)) /\ (C!Pending(r, t)' <=> C!Pending(r, t))
    BY DEF Left, C!Pending
  <1>7. \A r, t \in Thread : (Owes(r, t)' <=> Owes(r, t)) /\ ~(Left(r, t) /\ C!Pending(r, t))'
    BY <1>6 DEF Owes, CheckpointInv, LedgerOK, OnceOK
  <1>8. \A r \in Thread : (Counting(r)' <=> Counting(r)) /\ (Returned(r)' <=> Returned(r))
    BY DEF Counting, Returned, First, Sweeping
  <1>9. \A r \in Thread : LedgerOK(r)'
    BY <1>7, <1>8, LedgerKept DEF CheckpointInv
  <1> QED
    BY <1>1, <1>2, <1>3, <1>4, <1>5, <1>9 DEF CheckpointInv

LEMMA CheckpointInit == C!Init => CheckpointInv
  <1> SUFFICES ASSUME C!Init PROVE CheckpointInv
    OBVIOUS
  <1>0. \A t \in Thread : /\ pc[t] = "new" /\ ret[t] = "native" /\ state[t] = "kSuspended"
                          /\ checkpoints[t] = <<>> /\ running[t] = None /\ suspend_count[t] = 0
                          /\ todo[t] = {} /\ remaining[t] = {} /\ barrier[t] = 0
                          /\ \A u \in Thread : ran[t][u] = 0
    BY DEF C!Init
  <1>1. Types
    <2>1. /\ ran \in [Thread -> [Thread -> Int]] /\ barrier \in [Thread -> Int]
          /\ count \in [Thread -> Int] /\ checkpoints \in [Thread -> Seq(Thread)]
      BY SMT DEF C!Init
    <2> QED
      BY <2>1 DEF C!Init, Types
  <1>2. \A t \in Thread : ThreadOK(t)
    BY <1>0, ThreadsFinite DEF C!Init, ThreadOK, Runnable, Calling, Locking, Visiting
  <1>3. \A t \in Thread : ~Asked(t) /\ Holders(t) = {}
    BY <1>0 DEF Asked, Holders, Holding
  <1>4. \A q : q = <<>> => Distinct(q) /\ \A x : ~In(q, x)
    BY SMT DEF In, Distinct
  <1>5. \A t \in Thread : QueueOK(t)
    BY <1>0, <1>3, <1>4 DEF C!Init, QueueOK
  <1>6. \A t \in Thread : HeldOK(t)
    BY <1>0, <1>3, FS_EmptySet DEF HeldOK
  <1>7. \A t \in Thread : ~First(t) /\ ~Sweeping(t) /\ ~Counting(t) /\ ~Returned(t)
    BY <1>0 DEF First, Sweeping, Counting, Returned, Visiting
  <1>8. \A t \in Thread : VisitOK(t)
    BY <1>0, <1>7 DEF VisitOK, Visiting
  <1>9. \A r, t \in Thread : ~Left(r, t) /\ ~Owes(r, t)
    BY <1>0, <1>4, ThreadsFinite, Waiting DEF Left, Owes
  <1>10. \A r \in Thread : LedgerOK(r)
    BY <1>0, <1>7, <1>9 DEF LedgerOK, AccountOK, OnceOK
  <1> QED
    BY <1>1, <1>2, <1>5, <1>6, <1>8, <1>10 DEF CheckpointInv

LEMMA CheckpointNext == CheckpointInv /\ [C!Next]_(C!vars) => CheckpointInv'
  <1> SUFFICES ASSUME CheckpointInv, [C!Next]_(C!vars) PROVE CheckpointInv'
    OBVIOUS
  <1>1. ASSUME NEW t \in Thread, C!Step(t) PROVE CheckpointInv'
    BY <1>1, BecomeRunnableKeeps, BecomeSuspendedKeeps, TakeCheckpointKeeps,
       RunCheckpointFunctionKeeps, SuspendKeeps, LockKeeps, InsertCheckpointKeeps, NextSweepKeeps,
       SweepIncrementKeeps, SweepHoldKeeps, SkipKeeps, RunOnBehalfKeeps, ReleaseThreadKeeps,
       RelockKeeps, RunOnSelfKeeps, ReturnKeeps, WaitOverKeeps, SetRequestKeeps,
       FirstSuspendedKeeps, SweepExitedKeeps, SweepSuspendedKeeps DEF C!Step
  <1>2. ASSUME NEW t \in Thread, C!FlipBegin(t) \/ C!FlipEnd(t) PROVE CheckpointInv'
    BY <1>2, Unchanged DEF C!FlipBegin, C!FlipEnd, C!sweep
  <1>3. ASSUME NEW t \in Thread, C!Choice(t) PROVE CheckpointInv'
    BY <1>2, <1>3, RegisterKeeps, UnregisterKeeps, LeaveNativeKeeps, SuspendKeeps,
       RunCheckpointKeeps DEF C!Choice
  <1>4. ASSUME C!FlipThreadRoots PROVE CheckpointInv'
    BY <1>4, Unchanged DEF C!FlipThreadRoots, C!sweep
  <1>5. ASSUME UNCHANGED C!vars PROVE CheckpointInv'
    BY <1>5, Unchanged DEF C!vars, C!thread, C!sweep
  <1> QED
    BY <1>1, <1>2, <1>3, <1>4, <1>5 DEF C!Next, C!Terminated

------------------------------------------------------------------------------
(* The theorems *)

\* No closure runs or waits to run after its requester's wait for the barrier is over, and
\* the barrier counts exactly the runs that are still to come (ThreadList::RunCheckpoint and
\* its callers, Barrier::Increment).
THEOREM ClosuresStayAlive == C!Spec => []ClosureAlive
  <1>1. CheckpointInv => ClosureAlive
    <2> SUFFICES ASSUME CheckpointInv PROVE C!ClosureAlive /\ C!CountExact
      BY DEF ClosureAlive
    <2>1. C!ClosureAlive
      <3> SUFFICES ASSUME NEW r \in Thread, NEW t \in Thread, C!Pending(r, t) PROVE C!Active(r)
        BY DEF C!ClosureAlive
      <3>1. Counting(r) \/ Returned(r)
        BY DEF CheckpointInv, LedgerOK, AccountOK, Owes
      <3> QED
        BY <3>1 DEF Counting, Returned, First, Sweeping, Visiting, C!Active
    <2>2. C!CountExact
      <3> SUFFICES ASSUME NEW r \in Thread, Returned(r)
                   PROVE  barrier[r] = C!Cardinality({t \in Thread : C!Pending(r, t)})
        BY DEF C!CountExact, Returned
      <3>1. ~First(r) /\ ~Sweeping(r) /\ pc[r] # "rc_insert"
        BY DEF Returned, First, Sweeping, Visiting
      <3>2. \A t \in Thread : ~Left(r, t)
        BY <3>1 DEF Left, CheckpointInv, VisitOK
      <3>3. Owed(r) = {t \in Thread : C!Pending(r, t)}
        BY <3>2 DEF Owed, Owes
      <3> QED
        BY <3>3, SameCardinality DEF CheckpointInv, LedgerOK, AccountOK
    <2> QED
      BY <2>1, <2>2
  <1> QED
    BY <1>1, CheckpointInit, CheckpointNext, PTL DEF C!Spec

\* A closure runs at most once on each thread, whether the thread runs it or the requester
\* on its behalf (ThreadList::RunCheckpoint).
THEOREM ClosuresRunOnce == C!Spec => []AtMostOnce
  <1>1. CheckpointInv => AtMostOnce
    <2> SUFFICES ASSUME CheckpointInv, NEW r \in Thread, NEW t \in Thread
                 PROVE  ran[r][t] + (IF C!Pending(r, t) THEN 1 ELSE 0) <= 1
      BY DEF AtMostOnce, C!AtMostOnce
    <2>1. ran[r][t] \in {0, 1} /\ (C!Pending(r, t) => ran[r][t] = 0)
      BY DEF CheckpointInv, LedgerOK, OnceOK, Owes
    <2> QED
      BY SMT, <2>1
  <1> QED
    BY <1>1, CheckpointInit, CheckpointNext, PTL DEF C!Spec

\* While the requester runs the closure for a thread, that thread is in the list, not
\* Runnable, and runs no closure itself.  A suspended thread has no closure to run, and one
\* that takes the lock to run one finds it (the fatal error of
\* TransitionFromSuspendedToRunnable and the CHECK of RunCheckpointFunction cannot fail).
THEOREM BehalfIsExclusive == C!Spec => []OnBehalfExclusive
  <1>1. CheckpointInv => OnBehalfExclusive
    <2> SUFFICES ASSUME CheckpointInv PROVE C!OnBehalfExclusive /\ C!RequestsConsistent
      BY DEF OnBehalfExclusive
    <2>1. C!OnBehalfExclusive
      <3> SUFFICES ASSUME NEW r \in Thread, pc[r] \in {"rc_run", "rc_release"}
                   PROVE  /\ current[r] \in list /\ state[current[r]] = "kSuspended"
                          /\ running[current[r]] = None
        BY DEF C!OnBehalfExclusive
      <3>1. current[r] \in list /\ current[r] \in Thread /\ state[current[r]] = "kSuspended"
        BY DEF CheckpointInv, Types, VisitOK, Visiting
      <3> QED
        BY <3>1 DEF CheckpointInv, ThreadOK, Runnable
    <2>2. C!RequestsConsistent
      <3> SUFFICES ASSUME NEW t \in Thread
                   PROVE  /\ state[t] = "kSuspended" => t \notin request /\ checkpoints[t] = <<>>
                          /\ lock = None => (t \in request <=> checkpoints[t] # <<>>)
        BY DEF C!RequestsConsistent
      <3>1. lock = None => ~Asked(t)
        BY LockFree DEF Asked, Locking
      <3> QED
        BY <3>1 DEF CheckpointInv, QueueOK
    <2> QED
      BY <2>1, <2>2
  <1> QED
    BY <1>1, CheckpointInit, CheckpointNext, PTL DEF C!Spec

==============================================================================
