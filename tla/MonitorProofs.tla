---------------------------- MODULE MonitorProofs ----------------------------
(***************************************************************************)
(* Proofs about Monitor, for every set of threads, every bound on the      *)
(* count of a thin lock and any hash codes: ownership follows the object   *)
(* from its lock word to its monitor and back, no notification is lost,    *)
(* and the identity hash code never changes.                               *)
(***************************************************************************)
EXTENDS ObjectMonitor, FiniteSetTheorems, WellFoundedInduction, TLAPS

LockWord ==
    {M!Unlocked, M!Fat} \cup {M!HashWord(h) : h \in Hash}
        \cup {M!Thin(t, n) : t \in Thread, n \in 0..MaxCount}

MonitorPc == {"java", "op", "fat", "suspend", "recheck", "install", "blocked", "acquired",
              "release", "waiting", "woken"}

\* Every variable of the monitor and of its threads has its type.
MonitorTypes ==
    /\ M!TypeOK
    /\ target \in [Thread -> Thread \cup {None}] /\ new_hash \in [Thread -> Hash \cup {0}]
    /\ prev_lock_count \in [Thread -> Nat] /\ monitor_held \in [Thread -> Nat]
    /\ wait_monitor \in [Thread -> BOOLEAN] /\ interrupted \in [Thread -> BOOLEAN]

\* num_waiters_ counts the threads that block on the monitor and the threads in wait, one
\* that blocks in order to end its wait twice.
Blocking == {t \in Thread : at[t] \in {"blocked", "acquired"}}
InWaits == {t \in Thread : M!InWait(t)}
WaitersExact == monitor_waiters = Cardinality(Blocking) + Cardinality(InWaits)

\* What the place of a thread says about its operation and its depth.
Place(t) ==
    /\ todo[t] = "relock" => at[t] \in {"fat", "blocked", "acquired"}
    /\ at[t] \in {"blocked", "acquired"} => todo[t] \in {"enter", "relock"}
    /\ at[t] \in {"blocked", "acquired"} /\ todo[t] = "enter" => monitor_held[t] = 0
    /\ M!InWait(t) => monitor_held[t] > 0 /\ prev_lock_count[t] = monitor_held[t] - 1
    /\ wait_monitor[t] => at[t] \in {"waiting", "woken"}

\* The owner, of a thin lock or of the monitor, has entered as often as the count says;
\* monitor_lock_ is held by the owner, or by a thread that is about to become the owner or
\* has ceased to be; who has entered and does not wait is the owner.
Owning(t) ==
    /\ M!ThinBy(t) => monitor_held[t] = lock_word.count + 1
    /\ owner = t => /\ monitor_held[t] = lock_count + 1 /\ monitor_lock = t
                    /\ ~M!InWait(t) /\ at[t] \notin {"blocked", "acquired"}
    /\ monitor_lock = t => owner = t \/ at[t] \in {"acquired", "release"}
    /\ at[t] \in {"acquired", "release"} => monitor_lock = t
    /\ monitor_held[t] > 0 /\ ~M!InWait(t) =>
          M!ThinBy(t) \/ (lock_word.state = "fat" /\ owner = t)

\* A monitor without an owner has count 0, and one that is not published nobody uses.
AtRest ==
    /\ owner = None => lock_count = 0
    /\ lock_word.state # "fat" => monitor_lock = None /\ owner = None
    /\ \A t \in Thread :
          at[t] \in {"fat", "blocked", "acquired", "release", "waiting", "woken"}
              => lock_word.state = "fat"

\* A thread is suspended by those that inflate its lock, from their suspension of it to their
\* Install, and is not Runnable.
SuspensionsExact ==
    \A t \in Thread :
        /\ \A u \in Thread : u \in suspended_by[t] <=>
              at[u] \in {"recheck", "install"} /\ target[u] = t /\ u # t
        /\ suspended_by[t] # {} => at[t] \notin M!RunnablePc
        /\ at[t] \in {"suspend", "recheck"} => target[t] \in Thread \ {t}

\* Until a thread has done its Install the lock word is the one it inflates, or another
\* thread's monitor.
InstallReady ==
    \A t \in Thread : at[t] = "install" =>
        \/ lock_word.state = "fat"
        \/ M!ThinBy(target[t])
        \/ lock_word.state = "hash" /\ target[t] = None /\ new_hash[t] = lock_word.hash

\* The hash code of the object: 0 if it has none.
HashNow ==
    IF lock_word.state = "hash" THEN lock_word.hash
    ELSE IF lock_word.state = "fat" THEN hash_code ELSE 0
HashesExact == hashes \subseteq {HashNow}

MonitorInv ==
    /\ MonitorTypes /\ WaitersExact /\ (\A t \in Thread : Place(t) /\ Owning(t)) /\ AtRest
    /\ SuspensionsExact /\ InstallReady /\ HashesExact /\ M!NotificationKept

\* The four forms of the lock word.
LEMMA WordFields ==
    /\ M!Unlocked.state = "unlocked" /\ M!Fat.state = "fat"
    /\ \A h : M!HashWord(h).state = "hash" /\ M!HashWord(h).hash = h
    /\ \A t, n : M!Thin(t, n).state = "thin" /\ M!Thin(t, n).owner = t /\ M!Thin(t, n).count = n
  BY DEF M!Unlocked, M!Fat, M!HashWord, M!Thin

LEMMA WordForms ==
    ASSUME NEW w \in LockWord
    PROVE  /\ w.state \in {"unlocked", "fat", "hash", "thin"}
           /\ w.state = "unlocked" => w = M!Unlocked
           /\ w.state = "fat" => w = M!Fat
           /\ w.state = "hash" => w.hash \in Hash /\ w = M!HashWord(w.hash)
           /\ w.state = "thin" => /\ w.owner \in Thread /\ w.count \in 0..MaxCount
                                  /\ w = M!Thin(w.owner, w.count)
<1>1. CASE w \in {M!Unlocked, M!Fat}
  BY <1>1, WordFields
<1>2. CASE \E h \in Hash : w = M!HashWord(h)
  BY <1>2, WordFields
<1>3. CASE \E t \in Thread, n \in 0..MaxCount : w = M!Thin(t, n)
  BY <1>3, WordFields
<1> QED BY <1>1, <1>2, <1>3 DEF LockWord

LEMMA LeastNatural ==
    ASSUME NEW S, S \subseteq Nat, S # {}
    PROVE  \E n \in S : \A k \in S : n <= k
<1> DEFINE Less == OpToRel(<, Nat)
<1>1. IsWellFoundedOn(Less, Nat)
  BY Zenon, NatLessThanWellFounded
<1>2. \E n \in S : \A k \in S : <<k, n>> \notin Less
  <2> HIDE DEF Less
  <2> QED BY Zenon, <1>1, WFMin
<1>3. \A k, n \in Nat : k < n => <<k, n>> \in Less
  BY DEF OpToRel
<1> HIDE DEF Less
<1>4. PICK n \in S : \A k \in S : <<k, n>> \notin Less
  BY <1>2
<1>5. \A k \in S : ~(k < n)
  BY Zenon, <1>3, <1>4
<1>6. \A k \in S : n <= k
  BY <1>5
<1> QED BY <1>4, <1>6

\* RemoveFromWaitSet and the rest of a list of threads yield lists of threads.
LEMMA RestType ==
    ASSUME NEW s \in Seq(Thread), NEW n \in Nat
    PROVE  SubSeq(s, n + 1, Len(s)) \in Seq(Thread)
  BY SMT

LEMMA WithoutType ==
    ASSUME NEW s \in Seq(Thread), NEW t \in Thread
    PROVE  M!Without(s, t) \in Seq(Thread)
<1> DEFINE n == CHOOSE k \in DOMAIN s : s[k] = t
<1>1. CASE \E k \in DOMAIN s : s[k] = t
  <2>1. n \in 1..Len(s)
    BY <1>1
  <2> HIDE DEF n
  <2>2. SubSeq(s, 1, n - 1) \in Seq(Thread) /\ SubSeq(s, n + 1, Len(s)) \in Seq(Thread)
    BY <2>1, RestType
  <2>3. SubSeq(s, 1, n - 1) \o SubSeq(s, n + 1, Len(s)) \in Seq(Thread)
    BY <2>2
  <2> USE DEF n
  <2> QED BY <1>1, <2>3 DEF M!Without
<1>2. CASE ~ \E k \in DOMAIN s : s[k] = t
  BY <1>2 DEF M!Without
<1> QED BY <1>1, <1>2

\* SignalWaiterAndReleaseMonitorLock wakes a thread, or leaves nobody in the wake set.
LEMMA SignalEffect ==
    ASSUME MonitorTypes, NEW goto \in [Thread -> MonitorPc], M!SignalWaiter(goto, wait_monitor)
    PROVE  /\ wake_set' \in Seq(Thread)
           /\ \/ wake_set' = <<>> /\ at' = goto
              \/ \E u \in Thread :
                    /\ wait_monitor[u]
                    /\ at' = [goto EXCEPT ![u] = IF at[u] = "waiting" THEN "woken" ELSE @]
<1> DEFINE n == M!FirstWaiting(wait_monitor)
<1> DEFINE last == IF n = 0 THEN Len(wake_set) ELSE n
<1>1. wake_set \in Seq(Thread)
  BY DEF MonitorTypes, M!TypeOK
<1>2. n = 0 \/ (n \in DOMAIN wake_set /\ wait_monitor[wake_set[n]])
  <2> DEFINE places == {k \in DOMAIN wake_set : wait_monitor[wake_set[k]]}
  <2>1. CASE places = {}
    BY <2>1 DEF M!FirstWaiting
  <2>2. CASE places # {}
    <3>1. \E k \in places : \A j \in places : k <= j
      <4>1. places \subseteq Nat
        BY <1>1
      <4> QED BY Zenon, <2>2, <4>1, LeastNatural
    <3>2. n = CHOOSE k \in places : \A j \in places : k <= j
      BY <2>2 DEF M!FirstWaiting
    <3>3. n \in places
      BY <3>1, <3>2
    <3> QED BY <3>3
  <2> QED BY <2>1, <2>2
<1>3. /\ wake_set' = SubSeq(wake_set, last + 1, Len(wake_set))
      /\ at' = [u \in Thread |-> IF n # 0 /\ u = wake_set[n] /\ at[u] = "waiting"
                                 THEN "woken" ELSE goto[u]]
  BY DEF M!SignalWaiter
<1>4. CASE n = 0
  <2>1. wake_set' = <<>>
    BY <1>1, <1>3, <1>4
  <2>2. at' = goto
    BY <1>3, <1>4
  <2> QED BY <2>1, <2>2
<1>5. CASE n # 0
  <2>1. n \in Nat /\ wake_set[n] \in Thread /\ wait_monitor[wake_set[n]]
    BY <1>1, <1>2, <1>5
  <2>2. wake_set' \in Seq(Thread)
    BY <1>1, <1>3, <1>5, <2>1, RestType
  <2>3. at' = [goto EXCEPT ![wake_set[n]] = IF at[wake_set[n]] = "waiting" THEN "woken" ELSE @]
    BY Zenon, <1>3, <1>5, <2>1
  <2> QED BY Zenon, <2>1, <2>2, <2>3
<1> QED BY <1>4, <1>5

------------------------------------------------------------------------------
(* How threads move *)

\* t does not block, wait or own monitor_lock_ by virtue of its place.
Free(t) == at[t] \in {"java", "op", "suspend", "recheck", "install", "fat"} /\ todo[t] # "relock"

\* A step of any thread that num_waiters_ does not count: t stays where it is, goes from one
\* free place to another, or goes on with its wait.
Moves(t) ==
    \/ at'[t] = at[t] /\ todo'[t] = todo[t]
    \/ Free(t) /\ Free(t)' /\ (at'[t] = "fat" => lock_word.state = "fat")
    \/ at[t] = "release" /\ at'[t] \in {"waiting", "woken"} /\ todo'[t] = todo[t]
    \/ at[t] = "waiting" /\ at'[t] = "woken" /\ todo'[t] = todo[t]
    \/ at[t] = "woken" /\ at'[t] = "fat" /\ todo'[t] = "relock"

\* The steps that leave the lock word, the monitor and the depths alone.
Quiet(t) ==
    \/ \E op \in M!Op \ {"relock"} : M!Call(t, op)
    \/ M!ReadFat(t) \/ M!TryFailsThin(t) \/ M!TryFailsFat(t)
    \/ \E h \in Hash \cup {0} : M!BeginInflate(t, h)
    \/ M!SuspendOwner(t) \/ M!Recheck(t)
    \/ M!TimedOut(t) \/ M!Interrupt(t) \/ M!WaitEnds(t)

\* The steps that change the lock or the monitor, by a thread that is free before and after.
Works(t) ==
    \/ M!EnterThin(t) \/ M!ExitThin(t) \/ M!HashThin(t) \/ M!Install(t)
    \/ M!LockRecursive(t) \/ M!GetHashCode(t) \/ M!UnlockFat(t)

LEMMA MonitorSteps ==
    ASSUME M!Next
    PROVE  \/ M!Deflate
           \/ \E t \in Thread :
                 \/ Quiet(t) \/ Works(t) \/ M!Notify(t)
                 \/ M!TryLock(t) \/ M!LockBlocks(t) \/ M!LockAcquired(t) \/ M!LockDone(t)
                 \/ M!WaitBegin(t) \/ M!WaitRelease(t)
  BY Zenon DEF M!Next, M!Step, Quiet, Works

LEMMA MonitorPlaces ==
    ASSUME MonitorTypes
    PROVE  at \in [Thread -> MonitorPc] /\ todo \in [Thread -> M!Op]
  BY DEF MonitorTypes, M!TypeOK, MonitorPc

LEMMA NeedsMonitorWord ==
    ASSUME NEW t \in Thread, NEW h, M!NeedsMonitor(t, h)
    PROVE  /\ todo[t] \in {"enter", "hash", "wait"}
           /\ \/ lock_word.state = "thin"
              \/ lock_word.state = "hash" /\ h = lock_word.hash
<1>1. CASE todo[t] = "enter"
  BY Zenon, <1>1 DEF M!NeedsMonitor, M!ThinBy
<1>2. CASE todo[t] = "hash"
  BY Zenon, <1>2 DEF M!NeedsMonitor, M!ThinBy
<1>3. CASE todo[t] = "wait"
  BY Zenon, <1>3 DEF M!NeedsMonitor, M!ThinBy
<1>4. CASE todo[t] \notin {"enter", "hash", "wait"}
  BY Zenon, <1>4 DEF M!NeedsMonitor
<1> QED BY <1>1, <1>2, <1>3, <1>4

LEMMA QuietMoves ==
    ASSUME MonitorTypes, \A x \in Thread : Place(x), NEW t \in Thread, Quiet(t)
    PROVE  /\ UNCHANGED <<lock_word, monitor_lock, owner, lock_count, monitor_waiters, wait_set,
                          wake_set, hash_code, prev_lock_count, monitor_held, hashes>>
           /\ \A x \in Thread : Moves(x)
           /\ \A x \in Thread : wait_monitor'[x] => wait_monitor[x] /\ at'[x] \in {"waiting", "woken"}
           /\ \A x \in Thread : at[x] = "release" => at'[x] = "release"
<1> DEFINE Kept == UNCHANGED <<lock_word, monitor_lock, owner, lock_count, monitor_waiters, wait_set,
                              wake_set, hash_code, prev_lock_count, monitor_held, hashes>>
<1> DEFINE Ok(x) == /\ Moves(x) /\ (at[x] = "release" => at'[x] = "release")
                    /\ wait_monitor'[x] => wait_monitor[x] /\ at'[x] \in {"waiting", "woken"}
<1> SUFFICES Kept /\ \A x \in Thread : Ok(x)
  BY Zenon
<1>1. at \in [Thread -> MonitorPc] /\ todo \in [Thread -> M!Op]
  BY MonitorPlaces
<1>2. \A x \in Thread : /\ todo[x] = "relock" => at[x] \in {"fat", "blocked", "acquired"}
                        /\ wait_monitor[x] => at[x] \in {"waiting", "woken"}
  BY DEF Place
<1> USE <1>1, <1>2 DEF M!At, M!Goto, M!Return, M!Idle, Moves, Free,
                       M!monitor, M!inflation, M!waiting, M!history
<1>3. ASSUME NEW op \in M!Op \ {"relock"}, M!Call(t, op) PROVE Kept /\ \A x \in Thread : Ok(x)
  <2>1. /\ at[t] = "java" /\ at' = [at EXCEPT ![t] = "op"] /\ todo' = [todo EXCEPT ![t] = op]
        /\ Kept /\ wait_monitor' = wait_monitor
    BY Zenon, <1>3 DEF M!Call
  <2> QED BY <1>3, <2>1
<1>4. CASE M!ReadFat(t)
  <2>1. lock_word.state = "fat"
    BY <1>4, WordFields DEF M!ReadFat
  <2> QED BY <1>4, <2>1 DEF M!ReadFat
<1>5. CASE M!TryFailsThin(t)
  BY <1>5 DEF M!TryFailsThin
<1>6. CASE M!TryFailsFat(t)
  BY <1>6 DEF M!TryFailsFat, M!Locking
<1>7. ASSUME NEW h \in Hash \cup {0}, M!BeginInflate(t, h) PROVE Kept /\ \A x \in Thread : Ok(x)
  <2>1. at[t] = "op" /\ todo[t] # "relock"
    BY <1>7 DEF M!BeginInflate
  <2>2. \E l \in {"install", "suspend"} : at' = [at EXCEPT ![t] = l]
    BY Zenon, <1>7 DEF M!BeginInflate
  <2> QED BY <1>7, <2>1, <2>2 DEF M!BeginInflate
<1>8. CASE M!SuspendOwner(t)
  BY <1>8 DEF M!SuspendOwner, M!Forget
<1>9. CASE M!Recheck(t)
  BY <1>9 DEF M!Recheck, M!ResumeOwner, M!Forget
<1>10. CASE M!TimedOut(t)
  BY <1>10 DEF M!TimedOut
<1>11. CASE M!Interrupt(t)
  BY <1>11 DEF M!Interrupt
<1>12. CASE M!WaitEnds(t)
  BY <1>12 DEF M!WaitEnds, MonitorTypes
<1> HIDE DEF Ok, Kept
<1> QED BY Zenon, <1>3, <1>4, <1>5, <1>6, <1>7, <1>8, <1>9, <1>10, <1>11, <1>12 DEF Quiet

\* The CHECKs of Monitor::Install hold.
LEMMA InstallChecksHold ==
    ASSUME MonitorTypes, InstallReady, NEW t \in Thread, at[t] = "install"
    PROVE  M!InstallChecks(t)
<1>1. lock_word.state = "fat" => lock_word = M!Fat
  BY WordForms DEF MonitorTypes, M!TypeOK, LockWord
<1>2. CASE lock_word.state = "fat"
  BY Zenon, <1>1, <1>2 DEF M!InstallChecks
<1>3. CASE lock_word.state = "thin"
  <2>1. lock_word.owner = target[t]
    BY <1>3 DEF InstallReady, M!ThinBy
  <2> QED BY Zenon, <1>3, <2>1 DEF M!InstallChecks
<1>4. CASE lock_word.state \notin {"fat", "thin"}
  <2>1. lock_word.state = "hash" /\ target[t] = None /\ new_hash[t] = lock_word.hash
    BY <1>4 DEF InstallReady, M!ThinBy
  <2> QED BY Zenon, <2>1 DEF M!InstallChecks
<1> QED BY <1>2, <1>3, <1>4

\* A step of Works is one of a free thread; UnlockFat may wake a waiting one.
LEMMA WorksMoves ==
    ASSUME MonitorTypes, InstallReady, \A x \in Thread : Place(x) /\ Owning(x),
           NEW t \in Thread, Works(t)
    PROVE  /\ prev_lock_count' = prev_lock_count /\ wait_monitor' = wait_monitor
           /\ Free(t) /\ Free(t)' /\ at'[t] # "fat"
           /\ \A x \in Thread \ {t} : /\ monitor_held'[x] = monitor_held[x] /\ todo'[x] = todo[x]
                                      /\ \/ at'[x] = at[x]
                                         \/ at[x] = "waiting" /\ at'[x] = "woken"
<1> DEFINE Ok == /\ prev_lock_count' = prev_lock_count /\ wait_monitor' = wait_monitor
                 /\ Free(t) /\ Free(t)' /\ at'[t] # "fat"
                 /\ \A x \in Thread \ {t} : /\ monitor_held'[x] = monitor_held[x] /\ todo'[x] = todo[x]
                                            /\ \/ at'[x] = at[x]
                                               \/ at[x] = "waiting" /\ at'[x] = "woken"
<1> SUFFICES Ok
  BY Zenon
<1>1. at \in [Thread -> MonitorPc] /\ todo \in [Thread -> M!Op] /\ monitor_held \in [Thread -> Nat]
  BY MonitorPlaces DEF MonitorTypes
<1>2. \A x \in Thread : todo[x] = "relock" => at[x] \in {"fat", "blocked", "acquired"}
  BY DEF Place
<1> USE <1>1, <1>2 DEF M!At, M!Goto, M!Return, M!Idle, M!Entered, Free,
                       M!monitor, M!inflation, M!waiting, M!history
<1>3. CASE M!EnterThin(t)
  BY <1>3 DEF M!EnterThin
<1>4. CASE M!ExitThin(t)
  BY <1>4 DEF M!ExitThin
<1>5. CASE M!HashThin(t)
  BY <1>5 DEF M!HashThin
<1>6. CASE M!Install(t)
  <2>1. at[t] = "install"
    BY <1>6 DEF M!Install
  <2>2. at' = [at EXCEPT ![t] = "op"] /\ UNCHANGED <<todo, prev_lock_count, wait_monitor, monitor_held>>
    BY Zenon, <1>6, <2>1, InstallChecksHold DEF M!Install
  <2> QED BY <2>1, <2>2
<1>7. CASE M!LockRecursive(t)
  <2>1. ~M!InWait(t)
    BY <1>7 DEF M!LockRecursive, Owning
  <2>2. at[t] = "fat" /\ todo[t] # "relock"
    BY <1>7, <2>1 DEF M!LockRecursive, M!Locking, M!InWait
  <2> QED BY <1>7, <2>2 DEF M!LockRecursive
<1>8. CASE M!GetHashCode(t)
  BY <1>8 DEF M!GetHashCode
<1>9. CASE M!UnlockFat(t)
  <2>1. /\ at[t] = "fat" /\ todo[t] = "exit" /\ todo' = [todo EXCEPT ![t] = "enter"]
        /\ monitor_held' = [monitor_held EXCEPT ![t] = @ - 1]
        /\ prev_lock_count' = prev_lock_count /\ wait_monitor' = wait_monitor
    BY <1>9 DEF M!UnlockFat
  <2>2. \/ at' = [at EXCEPT ![t] = "java"]
        \/ M!SignalWaiter([at EXCEPT ![t] = "java"], wait_monitor)
    BY <1>9 DEF M!UnlockFat
  <2>3. CASE at' = [at EXCEPT ![t] = "java"]
    BY <2>1, <2>3
  <2>4. CASE M!SignalWaiter([at EXCEPT ![t] = "java"], wait_monitor)
    <3>1. [at EXCEPT ![t] = "java"] \in [Thread -> MonitorPc]
      BY DEF MonitorPc
    <3> DEFINE goto == [at EXCEPT ![t] = "java"]
    <3>2. ASSUME NEW u \in Thread, wait_monitor[u],
                 at' = [goto EXCEPT ![u] = IF at[u] = "waiting" THEN "woken" ELSE @]
          PROVE  Ok
      <4>1. at[u] \in {"waiting", "woken"}
        BY <3>2 DEF Place
      <4> QED BY Zenon, <2>1, <3>2, <4>1
    <3> HIDE DEF Ok, goto
    <3> QED BY Zenon, <2>3, <2>4, <3>1, <3>2, SignalEffect DEF goto
  <2> QED BY Zenon, <2>2, <2>3, <2>4
<1> HIDE DEF Ok
<1> QED BY Zenon, <1>3, <1>4, <1>5, <1>6, <1>7, <1>8, <1>9 DEF Works

\* A thread that begins its wait frees the monitor, and may wake another one.
LEMMA WaitReleaseMoves ==
    ASSUME MonitorTypes, \A x \in Thread : Place(x), NEW t \in Thread, M!WaitRelease(t)
    PROVE  /\ at[t] = "release" /\ at'[t] \in {"waiting", "woken"} /\ todo' = todo
           /\ \A x \in Thread \ {t} : at'[x] = at[x] \/ (at[x] = "waiting" /\ at'[x] = "woken")
<1> DEFINE goto == [at EXCEPT ![t] = IF interrupted[t] THEN "woken" ELSE "waiting"]
<1>1. at[t] = "release" /\ todo' = todo /\ M!SignalWaiter(goto, wait_monitor)
  BY DEF M!WaitRelease
<1>2. at \in [Thread -> MonitorPc] /\ goto \in [Thread -> MonitorPc]
  <2>1. at \in [Thread -> MonitorPc]
    BY MonitorPlaces
  <2>2. "woken" \in MonitorPc /\ "waiting" \in MonitorPc
    BY DEF MonitorPc
  <2> QED BY <2>1, <2>2
<1>3. goto[t] \in {"waiting", "woken"} /\ \A x \in Thread \ {t} : goto[x] = at[x]
  BY <1>2
<1> HIDE DEF goto
<1>4. CASE at' = goto
  BY <1>1, <1>3, <1>4
<1>5. ASSUME NEW u \in Thread, wait_monitor[u],
             at' = [goto EXCEPT ![u] = IF at[u] = "waiting" THEN "woken" ELSE @]
      PROVE  /\ at'[t] \in {"waiting", "woken"}
             /\ \A x \in Thread \ {t} : at'[x] = at[x] \/ (at[x] = "waiting" /\ at'[x] = "woken")
  <2>1. u # t
    BY <1>1, <1>5 DEF Place
  <2> QED BY Zenon, <1>2, <1>3, <1>5, <2>1
<1> QED BY Zenon, <1>1, <1>2, <1>4, <1>5, SignalEffect

------------------------------------------------------------------------------
(* The waiters *)

LEMMA MonitorSetsFinite == IsFiniteSet(Blocking) /\ IsFiniteSet(InWaits)
<1>1. IsFiniteSet(Thread)
  BY MonitorAssumption DEF M!ThreadAssumption, IsFiniteSet, M!IsFiniteSet
<1>2. Blocking \subseteq Thread /\ InWaits \subseteq Thread
  BY Zenon DEF Blocking, InWaits, M!InWait
<1> QED BY <1>1, <1>2, FS_Subset

LEMMA MovesUncounted ==
    ASSUME NEW x \in Thread, Place(x), Moves(x)
    PROVE  /\ at'[x] \in {"blocked", "acquired"} <=> at[x] \in {"blocked", "acquired"}
           /\ M!InWait(x)' <=> M!InWait(x)
  BY DEF Place, Moves, Free, M!InWait

LEMMA WaitersKept ==
    ASSUME WaitersExact, \A x \in Thread : Place(x) /\ Moves(x), monitor_waiters' = monitor_waiters
    PROVE  WaitersExact'
<1>1. Blocking' = Blocking /\ InWaits' = InWaits
  BY MovesUncounted DEF Blocking, InWaits
<1> QED BY <1>1 DEF WaitersExact

\* The threads but t stay where they are.
OthersStay(t) == \A x \in Thread \ {t} : at'[x] = at[x] /\ todo'[x] = todo[x]

LEMMA OthersUncounted ==
    ASSUME NEW t \in Thread, OthersStay(t), NEW x \in Thread \ {t}
    PROVE  (x \in Blocking' <=> x \in Blocking) /\ (x \in InWaits' <=> x \in InWaits)
  BY DEF OthersStay, Blocking, InWaits, M!InWait

LEMMA WaitersStep == MonitorInv /\ M!Next => WaitersExact'
<1> SUFFICES ASSUME MonitorInv, M!Next PROVE WaitersExact'
  OBVIOUS
<1> USE DEF MonitorInv
<1>1. at \in [Thread -> MonitorPc] /\ todo \in [Thread -> M!Op]
  BY MonitorPlaces
<1>2. /\ Cardinality(Blocking) \in Nat /\ Cardinality(InWaits) \in Nat
      /\ monitor_waiters = Cardinality(Blocking) + Cardinality(InWaits)
  BY MonitorSetsFinite, FS_CardinalityType DEF WaitersExact
<1>3. \A t \in Thread : todo[t] = "relock" => at[t] \in {"fat", "blocked", "acquired"}
  BY DEF Place
<1>4. CASE M!Deflate
  <2>1. at' = at /\ todo' = todo /\ monitor_waiters' = monitor_waiters
    BY <1>4 DEF M!Deflate
  <2> QED BY <2>1, WaitersKept DEF Moves
<1>5. ASSUME NEW t \in Thread, Quiet(t) PROVE WaitersExact'
  BY Zenon, <1>5, QuietMoves, WaitersKept
<1>6. ASSUME NEW t \in Thread, Works(t) PROVE WaitersExact'
  <2>1. \A x \in Thread : Moves(x)
    BY <1>6, WorksMoves DEF Moves
  <2>2. CASE monitor_waiters' = monitor_waiters
    BY <2>1, <2>2, WaitersKept
  <2>3. CASE M!Publish(t)
    <3>1. monitor_waiters' = 0 /\ lock_word.state # "fat"
      BY <2>3, WordForms DEF M!Publish, MonitorTypes, M!TypeOK, LockWord
    <3>2. Blocking = {} /\ InWaits = {}
      BY <1>3, <3>1 DEF Blocking, InWaits, M!InWait, AtRest
    <3>3. monitor_waiters = 0
      BY <1>2, <3>2, FS_EmptySet
    <3> QED BY <2>2, <3>1, <3>3
  <2> QED BY Zenon, <1>6, <2>2, <2>3 DEF Works, M!EnterThin, M!ExitThin, M!HashThin, M!Install,
             M!LockRecursive, M!GetHashCode, M!UnlockFat, M!monitor, M!NotPublished
<1>7. ASSUME NEW t \in Thread, M!Notify(t) PROVE WaitersExact'
  <2>1. at' = at /\ todo' = todo /\ monitor_waiters' = monitor_waiters
    BY <1>7 DEF M!Notify
  <2> QED BY <2>1, WaitersKept DEF Moves
<1>8. ASSUME NEW t \in Thread, M!WaitRelease(t) PROVE WaitersExact'
  <2>1. \A x \in Thread : Moves(x)
    BY <1>8, WaitReleaseMoves DEF Moves
  <2>2. monitor_waiters' = monitor_waiters
    BY <1>8 DEF M!WaitRelease
  <2> QED BY Zenon, <2>1, <2>2, WaitersKept
<1>9. ASSUME NEW t \in Thread, M!LockAcquired(t) PROVE WaitersExact'
  <2>1. /\ OthersStay(t) /\ monitor_waiters' = monitor_waiters
        /\ at[t] = "blocked" /\ at'[t] = "acquired" /\ todo'[t] = todo[t]
    BY <1>1, <1>9 DEF M!LockAcquired, M!Goto, OthersStay
  <2>2. Blocking' = Blocking /\ InWaits' = InWaits
    BY <2>1 DEF OthersStay, Blocking, InWaits, M!InWait
  <2> QED BY <2>1, <2>2 DEF WaitersExact
<1>10. ASSUME NEW t \in Thread, M!LockBlocks(t) PROVE WaitersExact'
  <2>1. /\ OthersStay(t) /\ monitor_waiters' = monitor_waiters + 1
        /\ at[t] = "fat" /\ at'[t] = "blocked" /\ todo'[t] = todo[t]
    BY Zenon, <1>1, <1>10 DEF M!LockBlocks, M!CountWaiter, M!Locking, M!At, M!Goto, OthersStay
  <2>2. Blocking' = Blocking \cup {t} /\ t \notin Blocking /\ InWaits' = InWaits
    BY <2>1 DEF OthersStay, Blocking, InWaits, M!InWait
  <2>3. Cardinality(Blocking \cup {t}) = Cardinality(Blocking) + 1
    BY Zenon, <2>2, MonitorSetsFinite, FS_AddElement
  <2> QED BY <1>2, <2>1, <2>2, <2>3 DEF WaitersExact
<1>11. ASSUME NEW t \in Thread, M!WaitBegin(t) PROVE WaitersExact'
  <2>1. /\ OthersStay(t) /\ monitor_waiters' = monitor_waiters + 1
        /\ at[t] = "fat" /\ todo[t] = "wait" /\ at'[t] = "release" /\ todo'[t] = todo[t]
    BY Zenon, <1>1, <1>11 DEF M!WaitBegin, M!At, M!Goto, OthersStay
  <2>2. InWaits' = InWaits \cup {t} /\ t \notin InWaits /\ Blocking' = Blocking
    BY <2>1 DEF OthersStay, Blocking, InWaits, M!InWait
  <2>3. Cardinality(InWaits \cup {t}) = Cardinality(InWaits) + 1
    BY Zenon, <2>2, MonitorSetsFinite, FS_AddElement
  <2> QED BY <1>2, <2>1, <2>2, <2>3 DEF WaitersExact
\* A thread that gets the lock is no longer counted as one that waits.
<1>12. ASSUME NEW t \in Thread, NEW n \in Nat, OthersStay(t), at'[t] = "java",
              at[t] \in {"fat", "acquired"}, todo[t] \in {"enter", "relock"},
              n = Cardinality(Blocking \ {t}) + Cardinality(InWaits),
              monitor_waiters' = IF todo[t] = "relock" THEN n - 1 ELSE n
       PROVE  WaitersExact'
  <2>1. Blocking' = Blocking \ {t} /\ InWaits' = InWaits \ {t}
    BY Zenon, <1>12 DEF OthersStay, Blocking, InWaits, M!InWait
  <2>2. CASE todo[t] = "relock"
    <3>1. t \in InWaits
      BY <1>12, <2>2 DEF InWaits, M!InWait
    <3>2. Cardinality(InWaits \ {t}) = Cardinality(InWaits) - 1
      BY Zenon, <3>1, MonitorSetsFinite, FS_RemoveElement
    <3>3. Cardinality(Blocking \ {t}) \in Nat
      BY Zenon, MonitorSetsFinite, FS_RemoveElement, FS_CardinalityType
    <3> QED BY <1>2, <1>12, <2>1, <2>2, <3>2, <3>3 DEF WaitersExact
  <2>3. CASE todo[t] # "relock"
    <3>1. InWaits \ {t} = InWaits
      BY <1>12, <2>3 DEF InWaits, M!InWait
    <3> QED BY Zenon, <1>12, <2>1, <2>3, <3>1 DEF WaitersExact
  <2> QED BY Zenon, <2>2, <2>3
<1>13. ASSUME NEW t \in Thread, M!TryLock(t) PROVE WaitersExact'
  <2>1. /\ OthersStay(t) /\ at'[t] = "java" /\ at[t] = "fat" /\ todo[t] \in {"enter", "relock"}
        /\ monitor_waiters' = IF todo[t] = "relock" THEN monitor_waiters - 1 ELSE monitor_waiters
    BY <1>1, <1>13 DEF M!TryLock, M!Locking, M!Locked, M!At, M!Return, M!Idle, M!Goto, OthersStay
  <2>2. Blocking \ {t} = Blocking
    BY Zenon, <2>1 DEF Blocking
  <2> QED BY <1>2, <1>12, <2>1, <2>2
<1>14. ASSUME NEW t \in Thread, M!LockDone(t) PROVE WaitersExact'
  <2>1. /\ OthersStay(t) /\ at'[t] = "java" /\ at[t] = "acquired"
        /\ monitor_waiters' = IF todo[t] = "relock" THEN (monitor_waiters - 1) - 1
                                                    ELSE monitor_waiters - 1
    BY Zenon, <1>1, <1>14 DEF M!LockDone, M!Locked, M!At, M!Return, M!Idle, M!Goto, OthersStay
  <2>2. todo[t] \in {"enter", "relock"} /\ t \in Blocking
    BY <2>1 DEF Place, Blocking
  <2>3. Cardinality(Blocking \ {t}) = Cardinality(Blocking) - 1
    BY Zenon, <2>2, MonitorSetsFinite, FS_RemoveElement
  <2>4. Cardinality(Blocking \ {t}) \in Nat
    BY Zenon, MonitorSetsFinite, FS_RemoveElement, FS_CardinalityType
  <2> QED BY <1>2, <1>12, <2>1, <2>2, <2>3, <2>4
<1> QED BY Zenon, <1>4, <1>5, <1>6, <1>7, <1>8, <1>9, <1>10, <1>11, <1>13, <1>14, MonitorSteps

------------------------------------------------------------------------------
(* The types *)

LEMMA WordIsLockWord ==
    /\ M!Unlocked \in LockWord /\ M!Fat \in LockWord
    /\ \A h \in Hash : M!HashWord(h) \in LockWord
    /\ \A t \in Thread, n \in 0..MaxCount : M!Thin(t, n) \in LockWord
  BY DEF LockWord

LEMMA WordTypes ==
    ASSUME MonitorTypes
    PROVE  /\ lock_word \in LockWord
           /\ lock_word.state = "thin" =>
                 lock_word.owner \in Thread /\ lock_word.count \in 0..MaxCount
  BY WordForms DEF MonitorTypes, M!TypeOK, LockWord

\* The lock word keeps its type.
LEMMA WordStep == MonitorInv /\ M!Next => lock_word' \in LockWord
<1> SUFFICES ASSUME MonitorInv, M!Next PROVE lock_word' \in LockWord
  OBVIOUS
<1>1. MaxCount \in Nat /\ lock_word \in LockWord
      /\ (lock_word.state = "thin" => lock_word.owner \in Thread /\ lock_word.count \in 0..MaxCount)
  BY MonitorAssumption, WordTypes DEF M!BoundAssumption, MonitorInv
<1>2. CASE lock_word' = lock_word
  BY Zenon, <1>1, <1>2
<1>3. CASE M!Deflate
  BY <1>3, WordIsLockWord DEF M!Deflate, MonitorInv, MonitorTypes, M!TypeOK
<1>4. ASSUME NEW t \in Thread, M!EnterThin(t) PROVE lock_word' \in LockWord
  <2>1. CASE lock_word' = M!Thin(t, 0)
    BY <1>1, <2>1, WordIsLockWord
  <2>2. CASE M!ThinBy(t) /\ M!Fits(lock_word.count + 1) /\ lock_word' = M!Thin(t, lock_word.count + 1)
    <3>1. lock_word.count + 1 \in 0..MaxCount
      BY <1>1, <2>2 DEF M!ThinBy, M!Fits
    <3> QED BY <2>2, <3>1, WordIsLockWord
  <2> QED BY Zenon, <1>4, <2>1, <2>2 DEF M!EnterThin
<1>5. ASSUME NEW t \in Thread, M!ExitThin(t) PROVE lock_word' \in LockWord
  <2>1. lock_word.count = 0 \/ lock_word.count - 1 \in 0..MaxCount
    BY <1>1, <1>5 DEF M!ExitThin, M!ThinBy
  <2> QED BY Zenon, <1>5, <2>1, WordIsLockWord DEF M!ExitThin
<1>6. ASSUME NEW t \in Thread, M!HashThin(t) PROVE lock_word' \in LockWord
  BY Zenon, <1>1, <1>6, WordIsLockWord DEF M!HashThin
<1>7. ASSUME NEW t \in Thread, M!Install(t) PROVE lock_word' \in LockWord
  BY Zenon, <1>1, <1>7, WordIsLockWord DEF M!Install, M!Publish, M!NotPublished
<1>8. ASSUME NEW t \in Thread, Quiet(t) PROVE lock_word' = lock_word
  BY <1>8, QuietMoves DEF MonitorInv
<1> QED BY Zenon, <1>2, <1>3, <1>4, <1>5, <1>6, <1>7, <1>8, MonitorSteps
        DEF Works, M!Notify, M!TryLock, M!LockBlocks, M!LockAcquired, M!LockDone, M!Locked,
            M!WaitBegin, M!WaitRelease, M!LockRecursive, M!GetHashCode, M!UnlockFat

\* Each thread stays at one of the places, and so never gets to "fatal".
LEMMA PlacesStep == MonitorInv /\ M!Next => at' \in [Thread -> MonitorPc] /\ todo' \in [Thread -> M!Op]
<1> SUFFICES ASSUME MonitorInv, M!Next PROVE at' \in [Thread -> MonitorPc] /\ todo' \in [Thread -> M!Op]
  OBVIOUS
<1> DEFINE Ok == at' \in [Thread -> MonitorPc] /\ todo' \in [Thread -> M!Op]
<1>1. at \in [Thread -> MonitorPc] /\ todo \in [Thread -> M!Op]
  BY MonitorPlaces DEF MonitorInv
<1>2. MonitorTypes /\ InstallReady
  BY DEF MonitorInv
<1>3. CASE at' = at /\ todo' = todo
  BY <1>1, <1>3
<1>4. ASSUME NEW t \in Thread, NEW l \in MonitorPc, at' = [at EXCEPT ![t] = l],
             NEW op \in M!Op, todo' = [todo EXCEPT ![t] = op] PROVE Ok
  BY <1>1, <1>4
<1>5. ASSUME NEW t \in Thread, NEW l \in MonitorPc, at' = [at EXCEPT ![t] = l], todo' = todo PROVE Ok
  BY <1>1, <1>5
<1>6. /\ "java" \in MonitorPc /\ "op" \in MonitorPc /\ "fat" \in MonitorPc /\ "install" \in MonitorPc
      /\ "suspend" \in MonitorPc /\ "recheck" \in MonitorPc /\ "woken" \in MonitorPc
      /\ "blocked" \in MonitorPc /\ "acquired" \in MonitorPc /\ "release" \in MonitorPc
      /\ "waiting" \in MonitorPc
  BY DEF MonitorPc
<1>7. "enter" \in M!Op /\ "relock" \in M!Op
  BY DEF M!Op
<1>8. ASSUME NEW t \in Thread, NEW goto \in [Thread -> MonitorPc], M!SignalWaiter(goto, wait_monitor)
      PROVE  at' \in [Thread -> MonitorPc]
  <2>1. \A u \in Thread : [goto EXCEPT ![u] = IF at[u] = "waiting" THEN "woken" ELSE @]
                             \in [Thread -> MonitorPc]
    BY <1>6
  <2>2. \/ at' = goto
        \/ \E u \in Thread : at' = [goto EXCEPT ![u] = IF at[u] = "waiting" THEN "woken" ELSE @]
    BY Zenon, <1>2, <1>8, SignalEffect
  <2> QED BY Zenon, <1>8, <2>1, <2>2
<1> HIDE DEF Ok
<1>9. ASSUME NEW t \in Thread, Quiet(t) PROVE Ok
  <2>1. ASSUME NEW op \in M!Op \ {"relock"}, M!Call(t, op) PROVE Ok
    BY Zenon, <1>4, <1>6, <2>1 DEF M!Call, M!Goto
  <2>2. ASSUME NEW h \in Hash \cup {0}, M!BeginInflate(t, h) PROVE Ok
    <3>1. CASE at' = [at EXCEPT ![t] = "install"]
      BY Zenon, <1>5, <1>6, <2>2, <3>1 DEF M!BeginInflate
    <3>2. CASE at' = [at EXCEPT ![t] = "suspend"]
      BY Zenon, <1>5, <1>6, <2>2, <3>2 DEF M!BeginInflate
    <3> QED BY Zenon, <2>2, <3>1, <3>2 DEF M!BeginInflate, M!Goto
  <2>3. CASE M!ReadFat(t) \/ M!TimedOut(t)
    BY Zenon, <1>5, <1>6, <2>3 DEF M!ReadFat, M!TimedOut, M!Goto
  <2>4. CASE M!SuspendOwner(t) \/ M!Recheck(t)
    BY Zenon, <1>5, <1>6, <2>4 DEF M!SuspendOwner, M!Recheck, M!Goto
  <2>5. CASE M!TryFailsThin(t) \/ M!TryFailsFat(t)
    BY Zenon, <1>4, <1>6, <1>7, <2>5 DEF M!TryFailsThin, M!TryFailsFat, M!Return, M!Idle, M!Goto
  <2>6. CASE M!Interrupt(t)
    BY <1>1, <1>6, <2>6 DEF M!Interrupt, Ok
  <2>7. CASE M!WaitEnds(t)
    BY Zenon, <1>4, <1>6, <1>7, <2>7 DEF M!WaitEnds, M!Goto
  <2> QED BY Zenon, <1>9, <2>1, <2>2, <2>3, <2>4, <2>5, <2>6, <2>7 DEF Quiet
<1>10. ASSUME NEW t \in Thread, M!EnterThin(t) \/ M!ExitThin(t) \/ M!HashThin(t) PROVE Ok
  BY Zenon, <1>4, <1>6, <1>7, <1>10 DEF M!EnterThin, M!ExitThin, M!HashThin, M!Return, M!Idle, M!Goto
<1>11. ASSUME NEW t \in Thread, M!Install(t) PROVE Ok
  <2>1. at[t] = "install"
    BY Zenon, <1>11 DEF M!Install, M!At
  <2> QED BY Zenon, <1>2, <1>5, <1>6, <1>11, <2>1, InstallChecksHold DEF M!Install, M!Goto
<1>12. ASSUME NEW t \in Thread, M!LockRecursive(t) \/ M!GetHashCode(t) \/ M!TryLock(t) \/ M!LockDone(t)
       PROVE  Ok
  BY Zenon, <1>4, <1>6, <1>7, <1>12 DEF M!LockRecursive, M!GetHashCode, M!TryLock, M!LockDone,
     M!Locked, M!Return, M!Idle, M!Goto
<1>13. ASSUME NEW t \in Thread, M!LockBlocks(t) \/ M!LockAcquired(t) \/ M!WaitBegin(t) PROVE Ok
  BY Zenon, <1>5, <1>6, <1>13 DEF M!LockBlocks, M!LockAcquired, M!WaitBegin, M!Goto
<1>14. ASSUME NEW t \in Thread, M!UnlockFat(t) PROVE Ok
  <2>1. CASE at' = [at EXCEPT ![t] = "java"]
    BY Zenon, <1>4, <1>6, <1>7, <1>14, <2>1 DEF M!UnlockFat, M!Idle
  <2>2. CASE M!SignalWaiter([at EXCEPT ![t] = "java"], wait_monitor)
    <3>1. [at EXCEPT ![t] = "java"] \in [Thread -> MonitorPc]
      BY <1>1, <1>6
    <3>2. todo' \in [Thread -> M!Op]
      BY <1>1, <1>7, <1>14 DEF M!UnlockFat, M!Idle
    <3> QED BY Zenon, <1>8, <2>2, <3>1, <3>2 DEF Ok
  <2> QED BY Zenon, <1>14, <2>1, <2>2 DEF M!UnlockFat, M!Goto
<1>15. ASSUME NEW t \in Thread, M!WaitRelease(t) PROVE Ok
  <2> DEFINE goto == [at EXCEPT ![t] = IF interrupted[t] THEN "woken" ELSE "waiting"]
  <2>1. goto \in [Thread -> MonitorPc]
    BY <1>1, <1>6
  <2> QED BY Zenon, <1>1, <1>8, <1>15, <2>1 DEF M!WaitRelease, Ok
<1>16. ASSUME NEW t \in Thread, M!Notify(t) PROVE Ok
  BY Zenon, <1>3, <1>16 DEF M!Notify, Ok
<1>17. CASE M!Deflate
  BY Zenon, <1>3, <1>17 DEF M!Deflate, Ok
<1> QED BY Zenon, <1>9, <1>10, <1>11, <1>12, <1>13, <1>14, <1>15, <1>16, <1>17, MonitorSteps DEF Works, Ok

LEMMA InflationTypes ==
    MonitorInv /\ M!Next => /\ target' \in [Thread -> Thread \cup {None}]
                           /\ new_hash' \in [Thread -> Hash \cup {0}]
                           /\ suspended_by' \in [Thread -> SUBSET Thread]
<1> DEFINE Ok == /\ target' \in [Thread -> Thread \cup {None}]
                 /\ new_hash' \in [Thread -> Hash \cup {0}]
                 /\ suspended_by' \in [Thread -> SUBSET Thread]
<1> SUFFICES ASSUME MonitorInv, M!Next PROVE Ok
  OBVIOUS
<1>1. /\ target \in [Thread -> Thread \cup {None}] /\ new_hash \in [Thread -> Hash \cup {0}]
      /\ suspended_by \in [Thread -> SUBSET Thread]
  BY DEF MonitorInv, MonitorTypes, M!TypeOK
<1>2. lock_word.state = "thin" => lock_word.owner \in Thread
  BY WordTypes DEF MonitorInv
<1>3. ASSUME NEW t \in Thread, NEW h \in Hash \cup {0}, M!BeginInflate(t, h) PROVE Ok
  <2>1. PICK o \in Thread \cup {None} : target' = [target EXCEPT ![t] = o]
    BY Zenon, <1>2, <1>3 DEF M!BeginInflate
  <2> QED BY <1>1, <1>3, <2>1 DEF M!BeginInflate
<1>4. ASSUME NEW t \in Thread, M!SuspendOwner(t) PROVE Ok
  <2>1. target[t] \in Thread
    BY <1>4 DEF M!SuspendOwner, MonitorInv, SuspensionsExact
  <2> QED BY <1>1, <1>4, <2>1 DEF M!SuspendOwner, M!Forget
<1>5. ASSUME NEW t \in Thread, M!ResumeOwner(t) PROVE Ok
  BY <1>1, <1>5 DEF M!ResumeOwner, M!Forget
<1>6. CASE UNCHANGED <<target, new_hash, suspended_by>>
  BY <1>1, <1>6
<1> HIDE DEF Ok
<1> QED BY Zenon, <1>3, <1>4, <1>5, <1>6
        DEF M!Next, M!Step, M!inflation, M!Call, M!EnterThin, M!ExitThin, M!HashThin, M!ReadFat,
            M!TryFailsThin, M!Recheck, M!Install, M!LockRecursive, M!TryLock, M!TryFailsFat,
            M!LockBlocks, M!LockAcquired, M!LockDone, M!Locked, M!UnlockFat, M!GetHashCode,
            M!WaitBegin, M!WaitRelease, M!TimedOut, M!WaitEnds, M!Notify, M!Interrupt, M!Deflate

LEMMA NotifiedTypes ==
    ASSUME NEW a \in Seq(Thread), NEW b \in Seq(Thread), a # <<>>
    PROVE  /\ Tail(a) \in Seq(Thread) /\ <<Head(a)>> \o b \in Seq(Thread)
           /\ <<>> \in Seq(Thread) /\ b \o a \in Seq(Thread)
  BY SMT

LEMMA TypesTogether ==
    ASSUME lock_word' \in LockWord, at' \in [Thread -> MonitorPc], todo' \in [Thread -> M!Op],
           monitor_lock' \in Thread \cup {None}, owner' \in Thread \cup {None},
           lock_count' \in Nat, monitor_waiters' \in Nat,
           wait_set' \in Seq(Thread), wake_set' \in Seq(Thread),
           hash_code' \in Hash \cup {0}, suspended_by' \in [Thread -> SUBSET Thread],
           hashes' \in SUBSET Hash
    PROVE  M!TypeOK'
  BY DEF M!TypeOK, LockWord, MonitorPc, M!Op, M!Unlocked, M!Fat, M!HashWord, M!Thin

LEMMA MonitorTypesStep == MonitorInv /\ M!Next => MonitorTypes'
<1> SUFFICES ASSUME MonitorInv, M!Next PROVE MonitorTypes'
  OBVIOUS
\* What is left after the lock word, the places, num_waiters_ and the inflations.
<1> DEFINE Core == /\ monitor_lock' \in Thread \cup {None} /\ owner' \in Thread \cup {None}
                   /\ lock_count' \in Nat /\ hash_code' \in Hash \cup {0} /\ hashes' \in SUBSET Hash
<1> DEFINE Lists == wait_set' \in Seq(Thread) /\ wake_set' \in Seq(Thread)
<1> DEFINE Waits == /\ prev_lock_count' \in [Thread -> Nat] /\ monitor_held' \in [Thread -> Nat]
                    /\ wait_monitor' \in [Thread -> BOOLEAN] /\ interrupted' \in [Thread -> BOOLEAN]
<1> DEFINE Ok == Core /\ Lists /\ Waits
<1>1. /\ monitor_lock \in Thread \cup {None} /\ owner \in Thread \cup {None}
      /\ lock_count \in Nat /\ hash_code \in Hash \cup {0} /\ hashes \in SUBSET Hash
  BY DEF MonitorInv, MonitorTypes, M!TypeOK
<1>2. wait_set \in Seq(Thread) /\ wake_set \in Seq(Thread)
  BY DEF MonitorInv, MonitorTypes, M!TypeOK
<1>3. /\ prev_lock_count \in [Thread -> Nat] /\ monitor_held \in [Thread -> Nat]
      /\ wait_monitor \in [Thread -> BOOLEAN] /\ interrupted \in [Thread -> BOOLEAN]
  BY DEF MonitorInv, MonitorTypes, M!TypeOK
<1>4. /\ lock_word.state = "thin" => lock_word.owner \in Thread /\ lock_word.count \in 0..MaxCount
      /\ MaxCount \in Nat
  BY MonitorAssumption, WordTypes DEF MonitorInv, M!BoundAssumption
<1> USE <1>1, <1>2, <1>3, <1>4
<1>5. ASSUME NEW t \in Thread, M!EnterThin(t) PROVE Ok
  BY <1>5 DEF M!EnterThin, M!Entered, M!monitor, M!waiting
<1>6. ASSUME NEW t \in Thread, M!ExitThin(t) PROVE Ok
  <2>1. monitor_held[t] = lock_word.count + 1 /\ lock_word.count \in Nat
    BY <1>6 DEF MonitorInv, Owning, M!ExitThin, M!ThinBy
  <2> QED BY <1>6, <2>1 DEF M!ExitThin, M!monitor, M!waiting
<1>7. ASSUME NEW t \in Thread, M!HashThin(t) PROVE Ok
  BY Zenon, <1>7 DEF M!HashThin, M!monitor, M!waiting
<1>8. ASSUME NEW t \in Thread, M!LockRecursive(t) PROVE Ok
  BY <1>8 DEF M!LockRecursive, M!Entered, M!waiting
<1>9. ASSUME NEW t \in Thread, NEW n, M!Locked(t, n), monitor_lock' = t PROVE Ok
  <2>1. Lists
    BY <1>9, WithoutType DEF M!Locked
  <2>2. Core
    BY <1>9 DEF M!Locked, M!Entered, M!history
  <2>3. Waits
    <3>1. UNCHANGED <<wait_monitor, interrupted>>
      BY Zenon, <1>9 DEF M!Locked
    <3>2. CASE todo[t] = "relock"
      <4>1. prev_lock_count' = [prev_lock_count EXCEPT ![t] = 0] /\ monitor_held' = monitor_held
        BY Zenon, <1>9, <3>2 DEF M!Locked, M!history
      <4> QED BY <3>1, <4>1
    <3>3. CASE todo[t] # "relock"
      <4>1. prev_lock_count' = prev_lock_count /\ monitor_held' = [monitor_held EXCEPT ![t] = @ + 1]
        BY Zenon, <1>9, <3>3 DEF M!Locked, M!Entered
      <4> QED BY <3>1, <4>1
    <3> QED BY Zenon, <3>2, <3>3
  <2> QED BY Zenon, <2>1, <2>2, <2>3
<1>10. ASSUME NEW t \in Thread, M!LockDone(t) PROVE monitor_lock = t
  BY <1>10 DEF M!LockDone, M!At, MonitorInv, Owning
<1>11. ASSUME NEW t \in Thread, M!TryLock(t) \/ M!LockDone(t) PROVE Ok
  BY Zenon, <1>9, <1>10, <1>11 DEF M!TryLock, M!LockDone
<1>12. ASSUME NEW t \in Thread, M!LockBlocks(t) \/ M!LockAcquired(t) PROVE Ok
  BY Zenon, <1>12 DEF M!LockBlocks, M!LockAcquired, M!waiting, M!history
<1>13. ASSUME NEW t \in Thread, M!UnlockFat(t) PROVE Ok
  <2>1. monitor_held[t] = lock_count + 1
    BY Zenon, <1>13 DEF MonitorInv, Owning, M!UnlockFat
  <2>2. Core
    BY <1>13 DEF M!UnlockFat
  <2>3. Waits
    BY <1>13, <2>1 DEF M!UnlockFat, M!waiting
  <2>4. [at EXCEPT ![t] = "java"] \in [Thread -> MonitorPc]
    BY MonitorPlaces DEF MonitorInv, MonitorPc
  <2>5. M!SignalWaiter([at EXCEPT ![t] = "java"], wait_monitor) => wake_set' \in Seq(Thread)
    BY Zenon, <2>4, SignalEffect DEF MonitorInv
  <2>6. Lists
    BY Zenon, <1>13, <2>5 DEF M!UnlockFat
  <2> QED BY Zenon, <2>2, <2>3, <2>6
<1>14. ASSUME NEW t \in Thread, M!GetHashCode(t) PROVE Ok
  BY Zenon, <1>14 DEF M!GetHashCode, M!waiting
<1>15. ASSUME NEW t \in Thread, M!WaitBegin(t) PROVE Ok
  BY <1>15 DEF M!WaitBegin, M!history
<1>16. ASSUME NEW t \in Thread, M!WaitRelease(t) PROVE Ok
  <2> DEFINE goto == [at EXCEPT ![t] = IF interrupted[t] THEN "woken" ELSE "waiting"]
  <2>1. goto \in [Thread -> MonitorPc]
    <3>1. "woken" \in MonitorPc /\ "waiting" \in MonitorPc
      BY DEF MonitorPc
    <3> QED BY Zenon, <3>1, MonitorPlaces DEF MonitorInv
  <2>2. wake_set' \in Seq(Thread)
    BY Zenon, <1>16, <2>1, SignalEffect DEF M!WaitRelease, MonitorInv
  <2>3. wait_set' \in Seq(Thread)
    BY <1>16 DEF M!WaitRelease
  <2>4. Core /\ Waits
    BY <1>16 DEF M!WaitRelease, M!history
  <2> QED BY Zenon, <2>2, <2>3, <2>4
<1>17. ASSUME NEW t \in Thread, M!Notify(t) PROVE Ok
  <2>1. Core /\ Waits
    BY Zenon, <1>17 DEF M!Notify, M!waiting, M!history
  <2>2. /\ wait_set # <<>>
        /\ \/ wait_set' = Tail(wait_set) /\ wake_set' = <<Head(wait_set)>> \o wake_set
           \/ wait_set' = <<>> /\ wake_set' = wake_set \o wait_set
    BY Zenon, <1>17 DEF M!Notify
  <2>3. Lists
    BY Zenon, <2>2, NotifiedTypes
  <2> QED BY Zenon, <2>1, <2>3
<1>18. ASSUME M!Deflate PROVE Ok
  <2>1. hash_code' \in Hash \cup {0} /\ UNCHANGED <<monitor_lock, owner, lock_count, hashes>>
    BY <1>18 DEF M!Deflate, M!history
  <2>2. Lists /\ Waits
    BY Zenon, <1>18 DEF M!Deflate, M!waiting, M!history
  <2> QED BY Zenon, <2>1, <2>2
<1>19. ASSUME NEW t \in Thread, Quiet(t) PROVE Ok
  <2>1. Core /\ Lists
    BY <1>19, QuietMoves DEF MonitorInv
  <2>2. Waits
    <3>1. prev_lock_count' = prev_lock_count /\ monitor_held' = monitor_held
      BY <1>19, QuietMoves DEF MonitorInv
    <3>2. CASE UNCHANGED <<wait_monitor, interrupted>>
      BY <3>1, <3>2
    <3>3. CASE M!Interrupt(t) \/ M!WaitEnds(t)
      BY Zenon, <3>1, <3>3 DEF M!Interrupt, M!WaitEnds
    <3> QED BY Zenon, <1>19, <3>2, <3>3 DEF Quiet, M!Call, M!ReadFat, M!TryFailsThin, M!TryFailsFat,
               M!BeginInflate, M!SuspendOwner, M!Recheck, M!TimedOut, M!waiting
  <2> QED BY Zenon, <2>1, <2>2
<1>20. ASSUME NEW t \in Thread, M!Install(t) PROVE Ok
  <2>1. M!InstallChecks(t)
    BY Zenon, <1>20, InstallChecksHold DEF M!Install, M!At, MonitorInv
  <2>2. CASE M!Publish(t)
    <3>1. target[t] \in Thread \cup {None} /\ new_hash[t] \in Hash \cup {0}
      BY Zenon DEF MonitorInv, MonitorTypes
    <3>2. M!InstalledCount \in Nat /\ <<>> \in Seq(Thread)
      BY <1>4 DEF M!InstalledCount
    <3>3. UNCHANGED <<M!waiting, M!history>>
      BY Zenon, <1>20 DEF M!Install
    <3> QED BY Zenon, <2>2, <3>1, <3>2, <3>3 DEF M!Publish, M!waiting, M!history
  <2>3. CASE M!NotPublished
    BY <1>20, <2>3 DEF M!Install, M!NotPublished, M!monitor, M!waiting, M!history
  <2> QED BY Zenon, <1>20, <2>1, <2>2, <2>3 DEF M!Install
<1> HIDE DEF Ok
<1>21. Ok
  BY Zenon, <1>5, <1>6, <1>7, <1>8, <1>11, <1>12, <1>13, <1>14, <1>15, <1>16, <1>17, <1>18, <1>19,
     <1>20, MonitorSteps DEF Works
<1>22. monitor_waiters' \in Nat
  <2>1. IsFiniteSet(Blocking') /\ IsFiniteSet(InWaits')
    <3>1. IsFiniteSet(Thread)
      BY MonitorAssumption DEF M!ThreadAssumption, IsFiniteSet, M!IsFiniteSet
    <3>2. Blocking' \subseteq Thread /\ InWaits' \subseteq Thread
      BY Zenon DEF Blocking, InWaits, M!InWait
    <3> QED BY <3>1, <3>2, FS_Subset
  <2>2. Cardinality(Blocking') \in Nat /\ Cardinality(InWaits') \in Nat
    BY <2>1, FS_CardinalityType
  <2> QED BY <2>2, WaitersStep DEF WaitersExact
<1>23. M!TypeOK'
  <2>1. Core /\ Lists
    BY Zenon, <1>21 DEF Ok
  <2> HIDE <1>1, <1>2, <1>3, <1>4
  <2> QED BY Zenon, <1>22, <2>1, WordStep, PlacesStep, InflationTypes, TypesTogether
<1> QED BY Zenon, <1>21, <1>23, InflationTypes DEF Ok, MonitorTypes

------------------------------------------------------------------------------
(* Places *)

\* A thread that moves as num_waiters_ does not notice keeps what its place says.
LEMMA PlaceMoves ==
    ASSUME NEW x \in Thread, Place(x), Moves(x), prev_lock_count'[x] = prev_lock_count[x],
           Free(x) \/ monitor_held'[x] = monitor_held[x],
           wait_monitor'[x] => at'[x] \in {"waiting", "woken"}
    PROVE  Place(x)'
<1>1. /\ at'[x] \in {"blocked", "acquired"} <=> at[x] \in {"blocked", "acquired"}
      /\ M!InWait(x)' <=> M!InWait(x)
  BY Zenon, MovesUncounted
<1>2. Free(x) => ~M!InWait(x) /\ at[x] \notin {"blocked", "acquired"}
  BY Zenon DEF Free, M!InWait
<1>3. /\ todo'[x] = "relock" => at'[x] \in {"fat", "blocked", "acquired"}
      /\ at'[x] \in {"blocked", "acquired"} => at'[x] = at[x] /\ todo'[x] = todo[x]
  BY Zenon DEF Place, Moves, Free
<1> QED BY Zenon, <1>1, <1>2, <1>3 DEF Place

\* A thread that nothing happens to keeps what its place says.
LEMMA PlaceStays ==
    ASSUME NEW x \in Thread, Place(x), at'[x] = at[x], todo'[x] = todo[x],
           monitor_held'[x] = monitor_held[x], prev_lock_count'[x] = prev_lock_count[x],
           wait_monitor'[x] = wait_monitor[x]
    PROVE  Place(x)'
  BY DEF Place, M!InWait

\* A thread that is about to lock the monitor and is not its owner has not entered, or waits.
LEMMA NotEntered ==
    ASSUME MonitorInv, NEW t \in Thread, M!Locking(t), owner # t
    PROVE  /\ at[t] = "fat" /\ todo[t] \in {"enter", "relock"} /\ lock_word.state = "fat"
           /\ todo[t] = "enter" => monitor_held[t] = 0
<1>1. at[t] = "fat" /\ todo[t] \in {"enter", "relock"}
  BY Zenon DEF M!Locking, M!At
<1>2. lock_word.state = "fat"
  BY Zenon, <1>1 DEF MonitorInv, AtRest
<1>3. todo[t] = "enter" => ~(monitor_held[t] > 0)
  BY <1>1, <1>2 DEF MonitorInv, Owning, M!InWait, M!ThinBy
<1>4. monitor_held[t] \in Nat
  BY DEF MonitorInv, MonitorTypes
<1> QED BY <1>1, <1>2, <1>3, <1>4

LEMMA PlaceStep == MonitorInv /\ M!Next => \A x \in Thread : Place(x)'
<1> SUFFICES ASSUME MonitorInv, M!Next, NEW x \in Thread PROVE Place(x)'
  OBVIOUS
<1>1. /\ at \in [Thread -> MonitorPc] /\ todo \in [Thread -> M!Op]
      /\ monitor_held \in [Thread -> Nat] /\ prev_lock_count \in [Thread -> Nat]
      /\ wait_monitor \in [Thread -> BOOLEAN]
  BY MonitorPlaces DEF MonitorInv, MonitorTypes
<1>2. MonitorTypes /\ InstallReady /\ Place(x) /\ \A y \in Thread : Place(y) /\ Owning(y)
  BY Zenon DEF MonitorInv
<1>3. CASE M!Deflate
  BY Zenon, <1>2, <1>3, PlaceStays DEF M!Deflate, M!waiting, M!history
<1>4. ASSUME NEW t \in Thread, M!Notify(t) PROVE Place(x)'
  BY Zenon, <1>2, <1>4, PlaceStays DEF M!Notify, M!waiting, M!history
<1>5. ASSUME NEW t \in Thread, Quiet(t) PROVE Place(x)'
  BY Zenon, <1>2, <1>5, QuietMoves, PlaceMoves
<1>6. ASSUME NEW t \in Thread, Works(t) PROVE Place(x)'
  <2>1. /\ Moves(x) /\ (Free(x) \/ monitor_held'[x] = monitor_held[x])
        /\ prev_lock_count' = prev_lock_count /\ wait_monitor' = wait_monitor
    BY Zenon, <1>2, <1>6, WorksMoves DEF Moves
  <2>2. wait_monitor[x] => at'[x] \in {"waiting", "woken"}
    BY <1>2, <1>6, WorksMoves DEF Place, Free
  <2> QED BY Zenon, <1>2, <2>1, <2>2, PlaceMoves
<1>7. ASSUME NEW t \in Thread, M!LockBlocks(t) PROVE Place(x)'
  <2>1. CASE x # t
    BY Zenon, <1>1, <1>2, <1>7, <2>1, PlaceStays DEF M!LockBlocks, M!Goto, M!waiting, M!history
  <2>2. CASE x = t
    <3>1. /\ at[t] = "fat" /\ todo[t] \in {"enter", "relock"}
          /\ todo[t] = "enter" => monitor_held[t] = 0
      BY <1>7, NotEntered DEF M!LockBlocks
    <3>2. /\ at'[t] = "blocked" /\ todo' = todo /\ monitor_held' = monitor_held
          /\ prev_lock_count' = prev_lock_count /\ wait_monitor' = wait_monitor
      BY Zenon, <1>1, <1>7 DEF M!LockBlocks, M!Goto, M!waiting, M!history
    <3> QED BY Zenon, <1>2, <2>2, <3>1, <3>2 DEF Place, M!InWait
  <2> QED BY Zenon, <2>1, <2>2
<1>8. ASSUME NEW t \in Thread, M!LockAcquired(t) PROVE Place(x)'
  <2>1. CASE x # t
    BY Zenon, <1>1, <1>2, <1>8, <2>1, PlaceStays DEF M!LockAcquired, M!Goto, M!waiting, M!history
  <2>2. CASE x = t
    BY Zenon, <1>1, <1>2, <1>8, <2>2 DEF M!LockAcquired, M!Goto, M!waiting, M!history, Place, M!InWait
  <2> QED BY <2>1, <2>2
<1>9. ASSUME NEW t \in Thread, NEW n, M!Locked(t, n), at[t] \in {"fat", "acquired"} PROVE Place(x)'
  <2>1. CASE x # t
    BY Zenon, <1>1, <1>2, <1>9, <2>1, PlaceStays DEF M!Locked, M!Return, M!Idle, M!Goto, M!Entered, M!history
  <2>2. CASE x = t
    <3>1. at'[t] = "java" /\ todo'[t] = "enter" /\ wait_monitor' = wait_monitor
      BY <1>1, <1>9 DEF M!Locked, M!Return, M!Idle, M!Goto
    <3> QED BY Zenon, <1>2, <1>9, <2>2, <3>1 DEF Place, M!InWait
  <2> QED BY <2>1, <2>2
<1>10. ASSUME NEW t \in Thread, M!TryLock(t) \/ M!LockDone(t) PROVE Place(x)'
  BY Zenon, <1>9, <1>10 DEF M!TryLock, M!LockDone, M!Locking, M!At
<1>11. ASSUME NEW t \in Thread, M!WaitBegin(t) PROVE Place(x)'
  <2>1. CASE x # t
    BY Zenon, <1>1, <1>2, <1>11, <2>1, PlaceStays DEF M!WaitBegin, M!Goto, M!history
  <2>2. CASE x = t
    <3>1. monitor_held[t] = lock_count + 1 /\ lock_count \in Nat
      BY <1>2, <1>11 DEF M!WaitBegin, Owning, MonitorTypes, M!TypeOK
    <3>2. /\ at'[t] = "release" /\ todo'[t] = "wait" /\ monitor_held' = monitor_held
          /\ prev_lock_count'[t] = lock_count /\ wait_monitor' = wait_monitor /\ at[t] = "fat"
      BY Zenon, <1>1, <1>11 DEF M!WaitBegin, M!At, M!Goto, M!history
    <3> QED BY <1>2, <2>2, <3>1, <3>2 DEF Place, M!InWait
  <2> QED BY <2>1, <2>2
<1>12. ASSUME NEW t \in Thread, M!WaitRelease(t) PROVE Place(x)'
  <2>1. /\ Moves(x) /\ prev_lock_count' = prev_lock_count /\ monitor_held' = monitor_held
        /\ wait_monitor' = [wait_monitor EXCEPT ![t] = TRUE]
    BY Zenon, <1>2, <1>12, WaitReleaseMoves DEF Moves, M!WaitRelease, M!history
  <2>2. wait_monitor'[x] => at'[x] \in {"waiting", "woken"}
    BY Zenon, <1>1, <1>2, <1>12, <2>1, WaitReleaseMoves DEF Place
  <2> QED BY Zenon, <1>2, <2>1, <2>2, PlaceMoves
<1> QED BY Zenon, <1>3, <1>4, <1>5, <1>6, <1>7, <1>8, <1>10, <1>11, <1>12, MonitorSteps

------------------------------------------------------------------------------
(* Ownership *)

\* A thread at x for which nothing changes that Owning speaks of.
LEMMA OwningStays ==
    ASSUME NEW x \in Thread, Owning(x), UNCHANGED <<lock_word, monitor_lock, owner, lock_count>>,
           monitor_held'[x] = monitor_held[x], M!InWait(x)' <=> M!InWait(x),
           at'[x] \in {"blocked", "acquired"} <=> at[x] \in {"blocked", "acquired"},
           at'[x] \in {"acquired", "release"} <=> at[x] \in {"acquired", "release"}
    PROVE  Owning(x)'
  BY Zenon DEF Owning, M!ThinBy

\* While the lock word is not fat no thread has anything to do with a monitor.
LEMMA NotFat ==
    ASSUME MonitorInv, lock_word.state # "fat"
    PROVE  /\ monitor_lock = None /\ owner = None /\ lock_count = 0
           /\ \A x \in Thread : /\ ~M!InWait(x)
                                /\ at[x] \notin {"fat", "blocked", "acquired", "release"}
                                /\ monitor_held[x] > 0 => M!ThinBy(x)
<1>1. monitor_lock = None /\ owner = None /\ lock_count = 0
  BY DEF MonitorInv, AtRest
<1>2. ASSUME NEW x \in Thread
      PROVE  at[x] \notin {"fat", "blocked", "acquired", "release", "waiting", "woken"}
  BY DEF MonitorInv, AtRest
<1>3. ASSUME NEW x \in Thread PROVE ~M!InWait(x)
  BY Zenon, <1>2 DEF MonitorInv, Place, M!InWait
<1>4. ASSUME NEW x \in Thread PROVE monitor_held[x] > 0 => M!ThinBy(x)
  BY Zenon, <1>3 DEF MonitorInv, Owning
<1> QED BY Zenon, <1>1, <1>2, <1>3, <1>4

\* A fat lock with a free monitor_lock_ has no owner.
LEMMA NoOwner ==
    ASSUME MonitorInv
    PROVE  /\ \A u \in Thread : monitor_lock = u /\ at[u] \in {"acquired", "release"} => owner = None
           /\ monitor_lock = None => owner = None
           /\ owner = None => lock_count = 0
           /\ None \notin Thread /\ owner \in Thread \cup {None}
<1>1. None \notin Thread
  BY MonitorAssumption DEF M!ThreadAssumption
<1>2. owner \in Thread \cup {None}
  BY DEF MonitorInv, MonitorTypes, M!TypeOK
<1>3. \A u \in Thread : owner = u => monitor_lock = u /\ ~M!InWait(u) /\ at[u] # "acquired"
  BY DEF MonitorInv, Owning
<1>4. \A u \in Thread : at[u] = "release" => M!InWait(u)
  BY DEF M!InWait
<1>5. owner = None => lock_count = 0
  BY Zenon DEF MonitorInv, AtRest
<1> QED BY Zenon, <1>1, <1>2, <1>3, <1>4, <1>5

\* The lock word after a step of a thin lock is not fat; who owns the monitor is then said by
\* the lock word alone.
LEMMA OwningThin ==
    ASSUME NEW x \in Thread, lock_word'.state # "fat", monitor_lock' = None, owner' = None,
           None \notin Thread, at'[x] \notin {"acquired", "release"},
           M!ThinBy(x)' => monitor_held'[x] = lock_word'.count + 1,
           monitor_held'[x] > 0 => M!ThinBy(x)'
    PROVE  Owning(x)'
  BY DEF Owning

\* A thread that has the lock after a step: it is the owner and no other thread is at a place
\* of one that holds monitor_lock_.
LEMMA OwningFat ==
    ASSUME NEW x \in Thread, NEW t \in Thread, lock_word'.state = "fat", monitor_lock' = t,
           owner' = t, at'[x] \notin {"acquired", "release"},
           x = t => /\ monitor_held'[x] = lock_count' + 1 /\ ~M!InWait(x)'
                    /\ at'[x] # "blocked",
           x # t => monitor_held'[x] = 0 \/ M!InWait(x)'
    PROVE  Owning(x)'
  BY DEF Owning, M!ThinBy

\* The same of a monitor without an owner: only t may hold monitor_lock_, for the moment.
LEMMA OwningNone ==
    ASSUME NEW x \in Thread, lock_word'.state # "thin", owner' = None, None \notin Thread,
           monitor_lock' = x <=> at'[x] \in {"acquired", "release"},
           monitor_held'[x] = 0 \/ M!InWait(x)'
    PROVE  Owning(x)'
  BY DEF Owning, M!ThinBy

\* Who has not entered, of all threads but the owner.
LEMMA OthersOut ==
    ASSUME MonitorInv, lock_word.state = "fat", NEW x \in Thread, owner # x
    PROVE  monitor_held[x] = 0 \/ M!InWait(x)
<1>1. monitor_held[x] \in Nat
  BY DEF MonitorInv, MonitorTypes
<1>2. monitor_held[x] > 0 /\ ~M!InWait(x) => FALSE
  BY DEF MonitorInv, Owning, M!ThinBy
<1> QED BY <1>1, <1>2

\* The steps of thin locks.
LEMMA OwningThinStep ==
    ASSUME MonitorInv, NEW t \in Thread, M!EnterThin(t) \/ M!ExitThin(t) \/ M!HashThin(t)
    PROVE  (\A x \in Thread : Owning(x)') /\ AtRest'
<1>1. at \in [Thread -> MonitorPc] /\ monitor_held \in [Thread -> Nat] /\ None \notin Thread
  BY MonitorPlaces, MonitorAssumption DEF MonitorInv, MonitorTypes, M!ThreadAssumption
<1>2. lock_word \in LockWord
  BY WordTypes DEF MonitorInv
<1>3. at[t] = "op" /\ at' = [at EXCEPT ![t] = "java"] /\ UNCHANGED <<monitor_lock, owner, lock_count>>
  BY Zenon DEF M!EnterThin, M!ExitThin, M!HashThin, M!At, M!Return, M!Goto, M!monitor
<1>4. lock_word.state # "fat" /\ lock_word'.state # "fat"
  <2>1. lock_word.state # "fat"
    BY Zenon, WordFields DEF M!EnterThin, M!ExitThin, M!HashThin, M!ThinBy
  <2>2. \/ lock_word' = M!Unlocked \/ \E n : lock_word' = M!Thin(t, n)
        \/ \E h : lock_word' = M!HashWord(h)
    BY Zenon DEF M!EnterThin, M!ExitThin, M!HashThin
  <2> QED BY <2>1, <2>2, WordFields
<1>5. /\ monitor_lock = None /\ owner = None /\ lock_count = 0
      /\ \A x \in Thread : /\ at[x] \notin {"fat", "blocked", "acquired", "release", "waiting", "woken"}
                           /\ monitor_held[x] > 0 => M!ThinBy(x)
                           /\ M!ThinBy(x) => monitor_held[x] = lock_word.count + 1
  BY Zenon, <1>4, NotFat DEF MonitorInv, AtRest, Owning
<1>6. AtRest'
  BY <1>1, <1>3, <1>4, <1>5 DEF AtRest
<1>7. ASSUME NEW x \in Thread
      PROVE  /\ M!ThinBy(x)' => monitor_held'[x] = lock_word'.count + 1
             /\ monitor_held'[x] > 0 => M!ThinBy(x)'
  <2>1. CASE M!EnterThin(t)
    <3>1. monitor_held' = [monitor_held EXCEPT ![t] = @ + 1]
      BY Zenon, <2>1 DEF M!EnterThin, M!Entered
    <3>2. CASE lock_word = M!Unlocked /\ lock_word' = M!Thin(t, 0)
      <4>1. monitor_held[x] = 0
        BY <1>1, <1>5, <3>2, WordFields DEF M!ThinBy
      <4> QED BY <1>1, <3>1, <3>2, <4>1, WordFields DEF M!ThinBy
    <3>3. CASE M!ThinBy(t) /\ lock_word' = M!Thin(t, lock_word.count + 1)
      <4>1. /\ lock_word'.state = "thin" /\ lock_word'.owner = t
            /\ lock_word'.count = lock_word.count + 1 /\ lock_word.count \in Nat
        BY <1>2, <3>3, WordFields, WordForms DEF M!ThinBy
      <4> QED BY Zenon, <1>1, <1>5, <3>1, <3>3, <4>1 DEF M!ThinBy
    <3> QED BY Zenon, <2>1, <3>2, <3>3 DEF M!EnterThin
  <2>2. CASE M!ExitThin(t)
    <3>1. /\ monitor_held' = [monitor_held EXCEPT ![t] = @ - 1] /\ M!ThinBy(t)
          /\ lock_word' = IF lock_word.count = 0 THEN M!Unlocked ELSE M!Thin(t, lock_word.count - 1)
      BY Zenon, <2>2 DEF M!ExitThin
    <3>2. lock_word.count \in Nat /\ monitor_held[t] = lock_word.count + 1
      BY <1>2, <1>5, <3>1, WordForms DEF M!ThinBy
    <3>3. x # t => monitor_held[x] = 0
      BY <1>1, <1>5, <3>1 DEF M!ThinBy
    <3>4. CASE lock_word.count = 0
      <4>1. lock_word'.state = "unlocked"
        BY Zenon, <3>1, <3>4, WordFields
      <4>2. monitor_held'[x] = 0
        BY <1>1, <3>1, <3>2, <3>3, <3>4
      <4> QED BY <4>1, <4>2 DEF M!ThinBy
    <3>5. CASE lock_word.count # 0
      <4>1. lock_word'.state = "thin" /\ lock_word'.owner = t /\ lock_word'.count = lock_word.count - 1
        BY <3>1, <3>5, WordFields
      <4> QED BY <1>1, <3>1, <3>2, <3>3, <4>1 DEF M!ThinBy
    <3> QED BY <3>4, <3>5
  <2>3. CASE M!HashThin(t)
    <3>1. PICK h \in Hash : /\ lock_word = M!Unlocked \/ lock_word = M!HashWord(h)
                            /\ lock_word' = M!HashWord(h)
      BY Zenon, <2>3 DEF M!HashThin
    <3>2. lock_word.state # "thin" /\ lock_word'.state = "hash" /\ monitor_held' = monitor_held
      BY Zenon, <2>3, <3>1, WordFields DEF M!HashThin
    <3> QED BY <1>1, <1>5, <3>2 DEF M!ThinBy
  <2> QED BY <2>1, <2>2, <2>3
<1>8. ASSUME NEW x \in Thread PROVE Owning(x)'
  <2>1. at'[x] \notin {"acquired", "release"}
    BY Zenon, <1>1, <1>3, <1>5
  <2> QED BY Zenon, <1>1, <1>3, <1>4, <1>5, <1>7, <2>1, OwningThin
<1> QED BY Zenon, <1>6, <1>8

\* Monitor::Install hands the thin lock on to the monitor.
LEMMA OwningInstall ==
    ASSUME MonitorInv, NEW t \in Thread, M!Install(t)
    PROVE  (\A x \in Thread : Owning(x)') /\ AtRest'
<1>1. at \in [Thread -> MonitorPc] /\ monitor_held \in [Thread -> Nat] /\ None \notin Thread
      /\ target \in [Thread -> Thread \cup {None}]
  BY MonitorPlaces, MonitorAssumption DEF MonitorInv, MonitorTypes, M!ThreadAssumption
<1>2. at[t] = "install" /\ M!InstallChecks(t)
  BY Zenon, InstallChecksHold DEF M!Install, M!At, MonitorInv
<1>3. at' = [at EXCEPT ![t] = "op"] /\ UNCHANGED <<todo, monitor_held>> /\ (M!Publish(t) \/ M!NotPublished)
  BY Zenon, <1>2 DEF M!Install, M!Goto, M!history
<1>4. ASSUME NEW x \in Thread
      PROVE  /\ M!InWait(x)' <=> M!InWait(x)
             /\ at'[x] \in {"blocked", "acquired"} <=> at[x] \in {"blocked", "acquired"}
             /\ at'[x] \in {"acquired", "release"} <=> at[x] \in {"acquired", "release"}
             /\ at'[x] \in {"fat", "blocked", "acquired", "release", "waiting", "woken"} <=>
                   at[x] \in {"fat", "blocked", "acquired", "release", "waiting", "woken"}
  <2>1. M!InWait(t) => FALSE
    BY Zenon, <1>2 DEF MonitorInv, Place, M!InWait
  <2> QED BY Zenon, <1>1, <1>2, <1>3, <2>1 DEF M!InWait, MonitorInv, Place
<1>5. CASE M!NotPublished
  <2>1. UNCHANGED <<lock_word, monitor_lock, owner, lock_count>>
    BY Zenon, <1>5 DEF M!NotPublished, M!monitor
  <2>2. AtRest'
    BY Zenon, <1>4, <2>1 DEF MonitorInv, AtRest
  <2> QED BY Zenon, <1>3, <1>4, <2>1, <2>2, OwningStays DEF MonitorInv
<1>6. CASE M!Publish(t)
  <2>1. /\ lock_word.state # "fat" /\ lock_word'.state = "fat"
        /\ monitor_lock' = target[t] /\ owner' = target[t]
        /\ lock_count' = M!InstalledCount
    BY Zenon, <1>6, WordFields, WordForms, WordTypes DEF M!Publish, MonitorInv
  <2>2. /\ M!ThinBy(target[t]) \/ (lock_word.state = "hash" /\ target[t] = None)
    BY Zenon, <1>2, <2>1 DEF MonitorInv, InstallReady
  <2>3. \A x \in Thread : /\ ~M!InWait(x)
                          /\ at[x] \notin {"fat", "blocked", "acquired", "release"}
                          /\ monitor_held[x] > 0 => M!ThinBy(x)
                          /\ M!ThinBy(x) => monitor_held[x] = lock_word.count + 1
    BY <2>1, NotFat DEF MonitorInv, Owning
  <2>4. CASE lock_word.state = "hash" /\ target[t] = None
    <3>1. ASSUME NEW x \in Thread PROVE monitor_held[x] = 0
      <4>1. ~(monitor_held[x] > 0)
        BY Zenon, <2>3, <2>4 DEF M!ThinBy
      <4> QED BY <1>1, <4>1
    <3>2. AtRest'
      BY Zenon, <2>1, <2>4 DEF AtRest, M!InstalledCount
    <3>3. ASSUME NEW x \in Thread PROVE Owning(x)'
      BY Zenon, <1>1, <1>3, <1>4, <2>1, <2>3, <2>4, <3>1, OwningNone
    <3> QED BY <3>2, <3>3
  <2>5. CASE M!ThinBy(target[t])
    <3>1. target[t] \in Thread /\ lock_count' = lock_word.count
      BY Zenon, <2>1, <2>5, WordTypes DEF M!ThinBy, M!InstalledCount, MonitorInv
    <3>2. AtRest'
      BY Zenon, <1>1, <2>1, <3>1 DEF AtRest
    <3>3. ASSUME NEW x \in Thread PROVE Owning(x)'
      <4>1. x # target[t] => monitor_held[x] = 0
        BY <1>1, <2>3, <2>5 DEF M!ThinBy
      <4> QED BY Zenon, <1>3, <1>4, <2>1, <2>3, <2>5, <3>1, <4>1, OwningFat
    <3> QED BY <3>2, <3>3
  <2> QED BY Zenon, <2>2, <2>4, <2>5
<1> QED BY Zenon, <1>3, <1>5, <1>6

\* The steps of the monitor's owner.
LEMMA OwnerSteps ==
    ASSUME MonitorInv, NEW t \in Thread, M!LockRecursive(t) \/ M!UnlockFat(t) \/ M!WaitBegin(t)
    PROVE  (\A x \in Thread : Owning(x)') /\ AtRest'
<1>1. at \in [Thread -> MonitorPc] /\ monitor_held \in [Thread -> Nat] /\ lock_count \in Nat
  BY MonitorPlaces DEF MonitorInv, MonitorTypes, M!TypeOK
<1>2. None \notin Thread
  BY MonitorAssumption DEF M!ThreadAssumption
<1>3. owner = t /\ at[t] = "fat"
  BY Zenon DEF M!LockRecursive, M!UnlockFat, M!WaitBegin, M!Locking, M!At
<1>4. lock_word' = lock_word
  BY Zenon DEF M!LockRecursive, M!UnlockFat, M!WaitBegin
<1>5. /\ lock_word.state = "fat" /\ monitor_held[t] = lock_count + 1 /\ monitor_lock = t
      /\ ~M!InWait(t)
  BY Zenon, <1>3 DEF MonitorInv, AtRest, Owning
<1>6. \A x \in Thread \ {t} : /\ monitor_held[x] = 0 \/ M!InWait(x)
                              /\ at[x] \notin {"acquired", "release"}
  <2>1. ASSUME NEW x \in Thread \ {t} PROVE at[x] \notin {"acquired", "release"}
    BY Zenon, <1>5 DEF MonitorInv, Owning
  <2> QED BY Zenon, <1>3, <1>5, <2>1, OthersOut
<1>7. CASE M!LockRecursive(t)
  <2>1. /\ at'[t] = "java" /\ todo'[t] = "enter" /\ owner' = t /\ monitor_lock' = t
        /\ lock_count' = lock_count + 1 /\ monitor_held'[t] = monitor_held[t] + 1
        /\ \A x \in Thread \ {t} : /\ at'[x] = at[x] /\ todo'[x] = todo[x]
                                   /\ monitor_held'[x] = monitor_held[x]
    BY Zenon, <1>1, <1>3, <1>5, <1>7, MonitorPlaces
       DEF M!LockRecursive, M!Entered, M!Return, M!Goto, M!Idle, MonitorInv
  <2>2. AtRest'
    BY Zenon, <1>2, <1>4, <1>5, <2>1 DEF AtRest
  <2>3. ASSUME NEW x \in Thread PROVE Owning(x)'
    <3>1. x = t => monitor_held'[x] = lock_count' + 1 /\ ~M!InWait(x)' /\ at'[x] # "blocked"
      BY Zenon, <1>5, <2>1 DEF M!InWait
    <3>2. x # t => monitor_held'[x] = 0 \/ M!InWait(x)'
      BY Zenon, <1>6, <2>1 DEF M!InWait
    <3> QED BY Zenon, <1>4, <1>5, <1>6, <2>1, <3>1, <3>2, OwningFat
  <2> QED BY <2>2, <2>3
<1>8. CASE M!UnlockFat(t)
  <2>1. /\ Free(t)' /\ monitor_held'[t] = monitor_held[t] - 1
        /\ \A x \in Thread \ {t} : /\ monitor_held'[x] = monitor_held[x] /\ todo'[x] = todo[x]
                                   /\ at'[x] = at[x] \/ (at[x] = "waiting" /\ at'[x] = "woken")
    BY Zenon, <1>1, <1>8, WorksMoves DEF MonitorInv, Works, M!UnlockFat
  <2>2. ~M!InWait(t)' /\ at'[t] \notin {"blocked", "acquired", "release"}
    BY Zenon, <2>1 DEF M!InWait, Free
  <2>3. \A x \in Thread \ {t} : /\ monitor_held'[x] = 0 \/ M!InWait(x)'
                                /\ at'[x] \notin {"acquired", "release"}
    BY Zenon, <1>6, <2>1 DEF M!InWait
  <2>4. CASE lock_count = 0
    <3>1. owner' = None /\ monitor_lock' = None /\ lock_count' = 0
      BY Zenon, <1>8, <2>4 DEF M!UnlockFat
    <3>2. AtRest'
      BY Zenon, <1>4, <1>5, <3>1 DEF AtRest
    <3>3. ASSUME NEW x \in Thread PROVE Owning(x)'
      <4>1. monitor_held'[t] = 0
        BY <1>1, <1>5, <2>1, <2>4
      <4>2. None \notin Thread /\ monitor_lock' # x /\ at'[x] \notin {"acquired", "release"}
        BY Zenon, <1>2, <2>2, <2>3, <3>1
      <4>3. monitor_held'[x] = 0 \/ M!InWait(x)'
        BY Zenon, <2>3, <4>1
      <4> QED BY Zenon, <1>4, <1>5, <3>1, <4>2, <4>3, OwningNone
    <3> QED BY <3>2, <3>3
  <2>5. CASE lock_count # 0
    <3>1. owner' = t /\ monitor_lock' = t /\ lock_count' = lock_count - 1
      BY <1>3, <1>5, <1>8, <2>5 DEF M!UnlockFat
    <3>2. AtRest'
      BY Zenon, <1>2, <1>4, <1>5, <3>1 DEF AtRest
    <3>3. ASSUME NEW x \in Thread PROVE Owning(x)'
      <4>1. monitor_held'[t] = lock_count' + 1
        BY <1>1, <1>5, <2>1, <3>1
      <4>2. x = t => monitor_held'[x] = lock_count' + 1 /\ ~M!InWait(x)' /\ at'[x] # "blocked"
        BY Zenon, <2>2, <4>1
      <4>3. at'[x] \notin {"acquired", "release"} /\ (x # t => monitor_held'[x] = 0 \/ M!InWait(x)')
        BY Zenon, <2>2, <2>3
      <4> QED BY Zenon, <1>4, <1>5, <3>1, <4>2, <4>3, OwningFat
    <3> QED BY <3>2, <3>3
  <2> QED BY <2>4, <2>5
<1>9. CASE M!WaitBegin(t)
  <2>1. /\ at'[t] = "release" /\ owner' = None /\ monitor_lock' = t /\ lock_count' = 0
        /\ monitor_held' = monitor_held /\ todo' = todo
        /\ \A x \in Thread \ {t} : at'[x] = at[x]
    BY Zenon, <1>1, <1>5, <1>9 DEF M!WaitBegin, M!Goto, M!history
  <2>2. AtRest'
    BY <1>4, <1>5, <2>1 DEF AtRest
  <2>3. ASSUME NEW x \in Thread PROVE Owning(x)'
    <3>1. monitor_held'[x] = 0 \/ M!InWait(x)'
      BY Zenon, <1>6, <2>1 DEF M!InWait
    <3> QED BY Zenon, <1>2, <1>4, <1>5, <1>6, <2>1, <3>1, OwningNone
  <2> QED BY <2>2, <2>3
<1> QED BY Zenon, <1>7, <1>8, <1>9

\* The steps that lead to the lock, and from it into a wait.
LEMMA OwningLock ==
    ASSUME MonitorInv, NEW t \in Thread, M!TryLock(t) \/ M!LockDone(t)
    PROVE  (\A x \in Thread : Owning(x)') /\ AtRest'
<1>1. /\ at \in [Thread -> MonitorPc] /\ todo \in [Thread -> M!Op]
      /\ monitor_held \in [Thread -> Nat] /\ None \notin Thread
  BY Zenon, MonitorPlaces, MonitorAssumption DEF MonitorInv, MonitorTypes, M!ThreadAssumption
<1>2. /\ at[t] \in {"fat", "acquired"} /\ owner = None /\ lock_count = 0 /\ monitor_lock \in {None, t}
      /\ \E n : M!Locked(t, n)
  <2>1. CASE M!TryLock(t)
    BY Zenon, <2>1, NoOwner DEF M!TryLock, M!Locking, M!At
  <2>2. CASE M!LockDone(t)
    <3>1. at[t] = "acquired"
      BY Zenon, <2>2 DEF M!LockDone, M!At
    <3>2. monitor_lock = t
      BY Zenon, <3>1 DEF MonitorInv, Owning
    <3> QED BY Zenon, <2>2, <3>1, <3>2, NoOwner DEF M!LockDone
  <2> QED BY Zenon, <2>1, <2>2
<1>3. monitor_lock' = t
  <2>1. CASE M!TryLock(t)
    BY Zenon, <2>1 DEF M!TryLock
  <2>2. CASE M!LockDone(t)
    BY Zenon, <2>2 DEF M!LockDone, M!At, MonitorInv, Owning
  <2> QED BY <2>1, <2>2
<1>4. /\ owner' = t /\ lock_word' = lock_word /\ at' = [at EXCEPT ![t] = "java"]
      /\ todo' = [todo EXCEPT ![t] = "enter"]
      /\ lock_count' = IF todo[t] = "relock" THEN prev_lock_count[t] ELSE lock_count
      /\ monitor_held' = IF todo[t] = "relock" THEN monitor_held
                                               ELSE [monitor_held EXCEPT ![t] = @ + 1]
  BY Zenon, <1>2 DEF M!Locked, M!Return, M!Goto, M!Idle, M!Entered, M!history
<1>5. /\ lock_word.state = "fat"
      /\ \A x \in Thread : monitor_held[x] = 0 \/ M!InWait(x)
  BY Zenon, <1>1, <1>2, OthersOut DEF MonitorInv, AtRest
<1>6. monitor_held'[t] = lock_count' + 1
  <2>1. CASE todo[t] = "relock"
    <3>1. M!InWait(t) /\ monitor_held[t] > 0 /\ prev_lock_count[t] = monitor_held[t] - 1
      BY Zenon, <1>2, <2>1 DEF MonitorInv, Place, M!InWait
    <3> QED BY <1>1, <1>4, <2>1, <3>1
  <2>2. CASE todo[t] # "relock"
    <3>1. ~M!InWait(t)
      BY <1>2, <2>2 DEF M!InWait
    <3>2. monitor_held[t] = 0
      BY Zenon, <1>5, <3>1
    <3> QED BY Zenon, <1>1, <1>2, <1>4, <2>2, <3>2
  <2> QED BY Zenon, <2>1, <2>2
<1>7. AtRest'
  BY Zenon, <1>1, <1>3, <1>4, <1>5 DEF AtRest
<1>8. ASSUME NEW x \in Thread PROVE Owning(x)'
  <2>1. CASE x = t
    <3>1. at'[x] = "java"
      BY Zenon, <1>1, <1>4, <2>1
    <3>2. ~M!InWait(x)'
      BY Zenon, <3>1 DEF M!InWait
    <3> QED BY Zenon, <1>3, <1>4, <1>5, <1>6, <2>1, <3>1, <3>2, OwningFat
  <2>2. CASE x # t
    <3>1. at'[x] = at[x] /\ todo'[x] = todo[x] /\ monitor_held'[x] = monitor_held[x]
      BY Zenon, <1>1, <1>4, <2>2
    <3>2. at[x] \notin {"acquired", "release"}
      BY Zenon, <1>1, <1>2, <2>2 DEF MonitorInv, Owning
    <3>3. monitor_held'[x] = 0 \/ M!InWait(x)'
      BY Zenon, <1>5, <3>1 DEF M!InWait
    <3> QED BY Zenon, <1>3, <1>4, <1>5, <2>2, <3>1, <3>2, <3>3, OwningFat
  <2> QED BY Zenon, <2>1, <2>2
<1> QED BY Zenon, <1>7, <1>8

\* The steps that lead into a wait, for the lock or for a notification.
LEMMA OwningWaits ==
    ASSUME MonitorInv, NEW t \in Thread, M!LockBlocks(t) \/ M!LockAcquired(t) \/ M!WaitRelease(t)
    PROVE  (\A x \in Thread : Owning(x)') /\ AtRest'
<1>1. at \in [Thread -> MonitorPc] /\ None \notin Thread
  BY MonitorPlaces, MonitorAssumption DEF MonitorInv, M!ThreadAssumption
<1>2. /\ UNCHANGED <<lock_word, owner, lock_count, todo, monitor_held>>
      /\ at[t] \in {"fat", "blocked", "release"}
  BY Zenon DEF M!LockBlocks, M!LockAcquired, M!WaitRelease, M!Locking, M!At, M!history
<1>3. lock_word.state = "fat"
  BY Zenon, <1>2 DEF MonitorInv, AtRest
<1>4. AtRest'
  BY Zenon, <1>2, <1>3 DEF MonitorInv, AtRest
<1>5. CASE M!LockBlocks(t)
  <2>1. /\ at[t] = "fat" /\ todo[t] \in {"enter", "relock"} /\ owner # t
        /\ todo[t] = "enter" => monitor_held[t] = 0
    BY Zenon, <1>5, NotEntered DEF M!LockBlocks
  <2>2. monitor_lock' = monitor_lock /\ at' = [at EXCEPT ![t] = "blocked"]
    BY <1>5 DEF M!LockBlocks, M!Goto
  <2>3. ASSUME NEW x \in Thread PROVE Owning(x)'
    <3>1. CASE x # t
      BY Zenon, <1>1, <1>2, <2>2, <3>1, OwningStays DEF MonitorInv, M!InWait
    <3>2. CASE x = t
      <4>1. monitor_lock # t
        BY <2>1 DEF MonitorInv, Owning
      <4>2. at'[t] = "blocked"
        BY Zenon, <1>1, <2>2
      <4>3. monitor_held'[t] = 0 \/ M!InWait(t)'
        BY Zenon, <1>2, <2>1, <4>2 DEF M!InWait
      <4>4. lock_word'.state = "fat" /\ owner' # t /\ monitor_lock' # t
        BY Zenon, <1>2, <1>3, <2>1, <2>2, <4>1
      <4> QED BY <3>2, <4>2, <4>3, <4>4 DEF Owning, M!ThinBy
    <3> QED BY Zenon, <3>1, <3>2
  <2> QED BY <1>4, <2>3
<1>6. CASE M!LockAcquired(t)
  <2>1. /\ at[t] = "blocked" /\ monitor_lock = None /\ monitor_lock' = t
        /\ at' = [at EXCEPT ![t] = "acquired"]
    BY <1>6 DEF M!LockAcquired, M!Goto
  <2>2. owner = None /\ \A x \in Thread : monitor_held[x] = 0 \/ M!InWait(x)
    BY Zenon, <1>1, <1>3, <2>1, NoOwner, OthersOut
  <2>3. ASSUME NEW x \in Thread PROVE Owning(x)'
    <3>1. at[x] \notin {"acquired", "release"}
      BY <1>1, <2>1 DEF MonitorInv, Owning
    <3>2. at'[x] = IF x = t THEN "acquired" ELSE at[x]
      BY Zenon, <1>1, <2>1
    <3>3. monitor_held'[x] = 0 \/ M!InWait(x)'
      BY <1>2, <2>1, <2>2, <3>2 DEF M!InWait
    <3> QED BY Zenon, <1>1, <1>2, <1>3, <2>1, <2>2, <3>1, <3>2, <3>3, OwningNone
  <2> QED BY <1>4, <2>3
<1>7. CASE M!WaitRelease(t)
  <2>1. /\ at[t] = "release" /\ at'[t] \in {"waiting", "woken"}
        /\ \A x \in Thread \ {t} : at'[x] = at[x] \/ (at[x] = "waiting" /\ at'[x] = "woken")
    BY Zenon, <1>7, WaitReleaseMoves DEF MonitorInv
  <2>2. monitor_lock' = None /\ monitor_lock = t
    BY Zenon, <1>7, <2>1 DEF M!WaitRelease, MonitorInv, Owning
  <2>3. owner = None /\ \A x \in Thread : monitor_held[x] = 0 \/ M!InWait(x)
    BY Zenon, <1>1, <1>3, <2>1, <2>2, NoOwner, OthersOut
  <2>4. ASSUME NEW x \in Thread PROVE Owning(x)'
    <3>1. x # t => at[x] \notin {"acquired", "release"}
      BY Zenon, <1>1, <2>2 DEF MonitorInv, Owning
    <3>2. at'[x] \notin {"acquired", "release"}
      BY Zenon, <2>1, <3>1
    <3>3. monitor_held'[x] = 0 \/ M!InWait(x)'
      BY Zenon, <1>2, <2>1, <2>3 DEF M!InWait
    <3> QED BY Zenon, <1>1, <1>2, <1>3, <2>2, <2>3, <3>2, <3>3, OwningNone
  <2> QED BY <1>4, <2>4
<1> QED BY <1>5, <1>6, <1>7

\* Nobody uses a monitor that Deflate frees.
LEMMA OwningDeflate ==
    ASSUME MonitorInv, M!Deflate
    PROVE  (\A x \in Thread : Owning(x)') /\ AtRest'
<1>1. /\ lock_word = M!Fat /\ monitor_waiters = 0 /\ monitor_lock = None
      /\ UNCHANGED <<monitor_lock, owner, lock_count, at, todo, monitor_held>>
      /\ \A x \in Thread : at[x] \notin {"fat", "install"}
  BY DEF M!Deflate, M!RunnablePc, M!history
<1>2. lock_word'.state \in {"unlocked", "hash"} /\ lock_word.state = "fat"
  BY <1>1, WordFields DEF M!Deflate
<1>3. Blocking = {} /\ InWaits = {}
  <2>1. /\ Cardinality(Blocking) \in Nat /\ Cardinality(InWaits) \in Nat
        /\ 0 = Cardinality(Blocking) + Cardinality(InWaits)
    BY Zenon, <1>1, MonitorSetsFinite, FS_CardinalityType DEF MonitorInv, WaitersExact
  <2>2. Cardinality(Blocking) = 0 /\ Cardinality(InWaits) = 0
    BY <2>1
  <2> QED BY Zenon, <2>2, MonitorSetsFinite, FS_EmptySet
<1>4. \A x \in Thread :
          ~M!InWait(x) /\ at[x] \notin {"fat", "blocked", "acquired", "release", "waiting", "woken"}
  BY <1>1, <1>3 DEF Blocking, InWaits, M!InWait
<1>5. owner = None /\ lock_count = 0 /\ None \notin Thread
  BY <1>1, NoOwner
<1>6. \A x \in Thread : monitor_held[x] = 0
  BY Zenon, <1>2, <1>4, <1>5, OthersOut
<1>7. AtRest'
  BY Zenon, <1>1, <1>4, <1>5 DEF AtRest
<1>8. ASSUME NEW x \in Thread PROVE Owning(x)'
  BY <1>1, <1>2, <1>4, <1>5, <1>6, OwningThin DEF M!ThinBy
<1> QED BY Zenon, <1>7, <1>8

LEMMA OwningStep == MonitorInv /\ M!Next => (\A x \in Thread : Owning(x)') /\ AtRest'
<1> DEFINE Ok == (\A x \in Thread : Owning(x)') /\ AtRest'
<1> SUFFICES ASSUME MonitorInv, M!Next PROVE Ok
  OBVIOUS
\* The steps that leave the lock alone.
<1>1. ASSUME UNCHANGED <<lock_word, monitor_lock, owner, lock_count, monitor_held>>,
             \A x \in Thread : Moves(x) /\ (at[x] = "release" => at'[x] = "release")
      PROVE  Ok
  <2>1. ASSUME NEW x \in Thread PROVE Owning(x)'
    <3>1. /\ M!InWait(x)' <=> M!InWait(x)
          /\ at'[x] \in {"blocked", "acquired"} <=> at[x] \in {"blocked", "acquired"}
      BY Zenon, <1>1, MovesUncounted DEF MonitorInv
    <3>2. at'[x] \in {"acquired", "release"} <=> at[x] \in {"acquired", "release"}
      BY Zenon, <1>1 DEF Moves, Free
    <3> QED BY Zenon, <1>1, <3>1, <3>2, OwningStays DEF MonitorInv
  <2>2. ASSUME NEW x \in Thread,
               at'[x] \in {"fat", "blocked", "acquired", "release", "waiting", "woken"}
        PROVE  lock_word.state = "fat"
    BY Zenon, <1>1, <2>2 DEF Moves, Free, MonitorInv, AtRest
  <2>3. AtRest'
    BY Zenon, <1>1, <2>2 DEF MonitorInv, AtRest
  <2> QED BY Zenon, <2>1, <2>3
<1>2. ASSUME NEW t \in Thread, Quiet(t) PROVE Ok
  BY Zenon, <1>1, <1>2, QuietMoves DEF MonitorInv
<1>3. ASSUME NEW t \in Thread, M!Notify(t) PROVE Ok
  <2>1. UNCHANGED <<lock_word, monitor_lock, owner, lock_count, monitor_held, at, todo>>
    BY Zenon, <1>3 DEF M!Notify, M!history
  <2> QED BY Zenon, <1>1, <2>1 DEF Moves
<1>4. ASSUME NEW t \in Thread, M!GetHashCode(t) PROVE Ok
  <2>1. \A x \in Thread : Moves(x) /\ (at[x] = "release" => at'[x] = "release")
    BY Zenon, <1>4, WorksMoves DEF Moves, Free, Works, MonitorInv
  <2>2. UNCHANGED <<lock_word, monitor_lock, owner, lock_count, monitor_held>>
    BY Zenon, <1>4 DEF M!GetHashCode
  <2> QED BY Zenon, <1>1, <2>1, <2>2
<1> HIDE DEF Ok
<1>5. ASSUME NEW t \in Thread, Works(t) PROVE Ok
  BY Zenon, <1>4, <1>5, OwningThinStep, OwningInstall, OwnerSteps DEF Works, Ok
<1> QED BY Zenon, <1>2, <1>3, <1>5, OwnerSteps, OwningLock, OwningWaits, OwningDeflate, MonitorSteps
        DEF Ok

------------------------------------------------------------------------------
(* Inflation *)

\* A step of threads that do not inflate, to "fat" only by one that may run.
NoInflation ==
    /\ UNCHANGED <<target, new_hash, suspended_by>>
    /\ \A x \in Thread :
          \/ at'[x] = at[x]
          \/ /\ at[x] \notin {"suspend", "recheck", "install"}
             /\ at'[x] \notin {"suspend", "recheck", "install"}
             /\ at'[x] = "fat" => suspended_by[x] = {}

LEMMA SuspensionsStay ==
    ASSUME SuspensionsExact, NoInflation
    PROVE  SuspensionsExact'
<1>1. ASSUME NEW t \in Thread
      PROVE  /\ suspended_by'[t] # {} => at'[t] \notin M!RunnablePc'
             /\ at'[t] \in {"suspend", "recheck"} => target'[t] \in Thread \ {t}
  BY Zenon DEF SuspensionsExact, NoInflation, M!RunnablePc
<1>2. ASSUME NEW t \in Thread, NEW u \in Thread
      PROVE  u \in suspended_by'[t] <=> at'[u] \in {"recheck", "install"} /\ target'[u] = t /\ u # t
  BY Zenon DEF SuspensionsExact, NoInflation
<1> QED BY Zenon, <1>1, <1>2 DEF SuspensionsExact

\* ResumeOwner takes back the only suspension that t has made.
LEMMA SuspensionsResume ==
    ASSUME MonitorInv, NEW t \in Thread, at[t] \in {"recheck", "install"}, M!ResumeOwner(t),
           at' = [at EXCEPT ![t] = "op"]
    PROVE  SuspensionsExact'
<1>1. at \in [Thread -> MonitorPc] /\ target \in [Thread -> Thread \cup {None}]
      /\ suspended_by \in [Thread -> SUBSET Thread]
  BY MonitorPlaces DEF MonitorInv, MonitorTypes, M!TypeOK
<1>2. /\ target' = [target EXCEPT ![t] = None]
      /\ suspended_by' = [u \in Thread |-> IF u = target[t] THEN suspended_by[u] \ {t}
                                                            ELSE suspended_by[u]]
  BY Zenon DEF M!ResumeOwner, M!Forget
<1>3. ASSUME NEW x \in Thread
      PROVE  /\ suspended_by'[x] # {} => at'[x] \notin M!RunnablePc'
             /\ at'[x] \in {"suspend", "recheck"} => target'[x] \in Thread \ {x}
  BY <1>1, <1>2 DEF MonitorInv, SuspensionsExact, M!RunnablePc
<1>4. ASSUME NEW x \in Thread, NEW u \in Thread
      PROVE  u \in suspended_by'[x] <=> at'[u] \in {"recheck", "install"} /\ target'[u] = x /\ u # x
  <2>1. u \in suspended_by[x] <=> at[u] \in {"recheck", "install"} /\ target[u] = x /\ u # x
    BY DEF MonitorInv, SuspensionsExact
  <2> QED BY Zenon, <1>1, <1>2, <2>1
<1> QED BY Zenon, <1>3, <1>4 DEF SuspensionsExact

\* The steps of a thread that inflates the lock.
Inflates(t) ==
    \/ \E h \in Hash \cup {0} : M!BeginInflate(t, h)
    \/ M!SuspendOwner(t) \/ M!Recheck(t) \/ M!Install(t)

LEMMA SuspensionsInflate ==
    ASSUME MonitorInv, NEW i \in Thread, Inflates(i)
    PROVE  SuspensionsExact'
<1>1. /\ at \in [Thread -> MonitorPc] /\ target \in [Thread -> Thread \cup {None}]
      /\ suspended_by \in [Thread -> SUBSET Thread] /\ None \notin Thread
  BY MonitorPlaces, MonitorAssumption DEF MonitorInv, MonitorTypes, M!TypeOK, M!ThreadAssumption
<1>2. \A x \in Thread :
        /\ \A u \in Thread : u \in suspended_by[x] <=>
              at[u] \in {"recheck", "install"} /\ target[u] = x /\ u # x
        /\ suspended_by[x] # {} => at[x] \notin M!RunnablePc
        /\ at[x] \in {"suspend", "recheck"} => target[x] \in Thread \ {x}
  BY Zenon DEF MonitorInv, SuspensionsExact
<1>3. ASSUME NEW t \in Thread, NEW h \in Hash \cup {0}, M!BeginInflate(t, h) PROVE SuspensionsExact'
  <2>1. PICK o \in Thread \cup {None} :
            /\ target' = [target EXCEPT ![t] = o]
            /\ at' = [at EXCEPT ![t] = IF o \in {t, None} THEN "install" ELSE "suspend"]
    BY Zenon, <1>3, WordTypes DEF M!BeginInflate, M!Goto, MonitorInv
  <2>2. at[t] = "op" /\ suspended_by[t] = {} /\ suspended_by' = suspended_by
    BY Zenon, <1>3 DEF M!BeginInflate, M!At, M!RunnablePc, M!MayRun
  <2>3. ASSUME NEW x \in Thread
        PROVE  /\ suspended_by'[x] # {} => at'[x] \notin M!RunnablePc'
               /\ at'[x] \in {"suspend", "recheck"} => target'[x] \in Thread \ {x}
    BY <1>1, <1>2, <2>1, <2>2 DEF M!RunnablePc
  <2>4. ASSUME NEW x \in Thread, NEW u \in Thread
        PROVE  u \in suspended_by'[x] <=> at'[u] \in {"recheck", "install"} /\ target'[u] = x /\ u # x
    BY <1>1, <1>2, <2>1, <2>2
  <2> QED BY <2>3, <2>4 DEF SuspensionsExact
<1>4. ASSUME NEW t \in Thread, M!SuspendOwner(t) PROVE SuspensionsExact'
  <2>1. at[t] = "suspend" /\ target[t] \in Thread \ {t}
    BY Zenon, <1>2, <1>4 DEF M!SuspendOwner
  <2>2. CASE /\ at[target[t]] \notin M!RunnablePc
             /\ suspended_by' = [suspended_by EXCEPT ![target[t]] = @ \cup {t}]
             /\ at' = [at EXCEPT ![t] = "recheck"] /\ target' = target
    <3>1. ASSUME NEW x \in Thread
          PROVE  /\ suspended_by'[x] # {} => at'[x] \notin M!RunnablePc'
                 /\ at'[x] \in {"suspend", "recheck"} => target'[x] \in Thread \ {x}
      BY <1>1, <1>2, <2>1, <2>2 DEF M!RunnablePc
    <3>2. ASSUME NEW x \in Thread, NEW u \in Thread
          PROVE  u \in suspended_by'[x] <=> at'[u] \in {"recheck", "install"} /\ target'[u] = x /\ u # x
      <4>1. u \in suspended_by'[x] <=> u \in suspended_by[x] \/ (x = target[t] /\ u = t)
        BY Zenon, <1>1, <2>1, <2>2
      <4>2. u \in suspended_by[x] <=> at[u] \in {"recheck", "install"} /\ target[u] = x /\ u # x
        BY Zenon, <1>2
      <4>3. target'[u] = target[u] /\ at'[t] = "recheck" /\ (u # t => at'[u] = at[u])
        BY Zenon, <1>1, <2>2
      <4>4. CASE u = t
        BY Zenon, <2>1, <4>1, <4>2, <4>3, <4>4
      <4>5. CASE u # t
        BY Zenon, <4>1, <4>2, <4>3, <4>5
      <4> QED BY Zenon, <4>4, <4>5
    <3> QED BY Zenon, <3>1, <3>2 DEF SuspensionsExact
  <2>3. CASE /\ suspended_by' = suspended_by /\ target' = [target EXCEPT ![t] = None]
             /\ at' = [at EXCEPT ![t] = "op"]
    <3>1. ASSUME NEW x \in Thread
          PROVE  /\ suspended_by'[x] # {} => at'[x] \notin M!RunnablePc'
                 /\ at'[x] \in {"suspend", "recheck"} => target'[x] \in Thread \ {x}
      BY <1>1, <1>2, <2>1, <2>3 DEF M!RunnablePc
    <3>2. ASSUME NEW x \in Thread, NEW u \in Thread
          PROVE  u \in suspended_by'[x] <=> at'[u] \in {"recheck", "install"} /\ target'[u] = x /\ u # x
      BY <1>1, <1>2, <2>1, <2>3
    <3> QED BY <3>1, <3>2 DEF SuspensionsExact
  <2> QED BY Zenon, <1>4, <2>2, <2>3 DEF M!SuspendOwner, M!Goto, M!Forget
<1>5. ASSUME NEW t \in Thread, M!Recheck(t) PROVE SuspensionsExact'
  <2>1. at[t] = "recheck" /\ suspended_by[t] = {}
    BY Zenon, <1>5 DEF M!Recheck, M!At, M!RunnablePc, M!MayRun
  <2>2. CASE at' = [at EXCEPT ![t] = "install"] /\ UNCHANGED <<target, suspended_by>>
    <3>1. ASSUME NEW x \in Thread
          PROVE  /\ suspended_by'[x] # {} => at'[x] \notin M!RunnablePc'
                 /\ at'[x] \in {"suspend", "recheck"} => target'[x] \in Thread \ {x}
      BY <1>1, <1>2, <2>1, <2>2 DEF M!RunnablePc
    <3>2. ASSUME NEW x \in Thread, NEW u \in Thread
          PROVE  u \in suspended_by'[x] <=> at'[u] \in {"recheck", "install"} /\ target'[u] = x /\ u # x
      BY <1>1, <1>2, <2>1, <2>2
    <3> QED BY <3>1, <3>2 DEF SuspensionsExact
  <2>3. CASE at' = [at EXCEPT ![t] = "op"] /\ M!ResumeOwner(t)
    BY Zenon, <2>1, <2>3, SuspensionsResume
  <2> QED BY Zenon, <1>5, <2>2, <2>3 DEF M!Recheck, M!Goto, M!inflation
<1>6. ASSUME NEW t \in Thread, M!Install(t) PROVE SuspensionsExact'
  <2>1. at[t] = "install" /\ M!InstallChecks(t) /\ M!ResumeOwner(t)
    BY Zenon, <1>6, InstallChecksHold DEF M!Install, M!At, MonitorInv
  <2>2. at' = [at EXCEPT ![t] = "op"]
    BY Zenon, <1>6, <2>1 DEF M!Install, M!Goto
  <2> QED BY Zenon, <2>1, <2>2, SuspensionsResume
<1> QED BY Zenon, <1>3, <1>4, <1>5, <1>6 DEF Inflates

\* All other steps.
LEMMA OthersInflate == MonitorInv /\ M!Next => NoInflation \/ \E t \in Thread : Inflates(t)
<1> SUFFICES ASSUME MonitorInv, M!Next, \A t \in Thread : ~Inflates(t) PROVE NoInflation
  OBVIOUS
<1>1. at \in [Thread -> MonitorPc] /\ todo \in [Thread -> M!Op]
  BY Zenon, MonitorPlaces DEF MonitorInv
<1>2. UNCHANGED <<target, new_hash, suspended_by>>
  BY ZenonT(30) DEF Inflates, M!Next, M!Step, M!inflation, M!Call, M!EnterThin, M!ExitThin, M!HashThin,
     M!ReadFat, M!TryFailsThin, M!LockRecursive, M!TryLock, M!TryFailsFat, M!LockBlocks,
     M!LockAcquired, M!LockDone, M!Locked, M!UnlockFat, M!GetHashCode, M!WaitBegin,
     M!WaitRelease, M!TimedOut, M!WaitEnds, M!Notify, M!Interrupt, M!Deflate
<1>3. ASSUME NEW t \in Thread, NEW l, at' = [at EXCEPT ![t] = l],
             at[t] \notin {"suspend", "recheck", "install"},
             l \notin {"suspend", "recheck", "install"}, l = "fat" => suspended_by[t] = {}
      PROVE  NoInflation
  BY <1>1, <1>2, <1>3 DEF NoInflation
<1>4. CASE at' = at
  BY <1>2, <1>4 DEF NoInflation
<1>5. ASSUME NEW t \in Thread, M!ReadFat(t) \/ M!WaitEnds(t) PROVE NoInflation
  <2>1. at[t] \in {"op", "woken"} /\ suspended_by[t] = {} /\ at' = [at EXCEPT ![t] = "fat"]
    BY <1>5 DEF M!ReadFat, M!WaitEnds, M!At, M!RunnablePc, M!MayRun, M!Goto
  <2> QED BY Zenon, <1>3, <2>1
<1>6. ASSUME NEW t \in Thread,
             \/ (\E op \in M!Op \ {"relock"} : M!Call(t, op)) \/ M!TryFailsThin(t) \/ M!TryFailsFat(t)
             \/ M!TimedOut(t)
      PROVE  NoInflation
  <2>1. /\ at[t] \in {"java", "op", "fat", "waiting"}
        /\ \E l \in {"java", "op", "woken"} : at' = [at EXCEPT ![t] = l]
    BY Zenon, <1>6 DEF M!Call, M!TryFailsThin, M!TryFailsFat, M!TimedOut, M!Locking, M!At, M!Return,
       M!Goto
  <2> QED BY Zenon, <1>3, <2>1
<1>7. ASSUME NEW t \in Thread, M!Interrupt(t) PROVE NoInflation
  BY Zenon, <1>1, <1>2, <1>7 DEF M!Interrupt, NoInflation
<1>8. ASSUME NEW t \in Thread, Quiet(t) PROVE NoInflation
  BY Zenon, <1>5, <1>6, <1>7, <1>8 DEF Quiet, Inflates
<1>9. ASSUME NEW t \in Thread, M!EnterThin(t) \/ M!ExitThin(t) \/ M!HashThin(t) \/ M!LockRecursive(t)
                               \/ M!GetHashCode(t)
      PROVE  NoInflation
  <2>1. at[t] \in {"op", "fat"} /\ at' = [at EXCEPT ![t] = "java"]
    BY Zenon, <1>9 DEF M!EnterThin, M!ExitThin, M!HashThin, M!LockRecursive, M!GetHashCode, M!Locking,
       M!At, M!Return, M!Goto
  <2> QED BY Zenon, <1>3, <2>1
<1>10. ASSUME NEW t \in Thread, M!UnlockFat(t) PROVE NoInflation
  <2>1. at[t] = "fat" /\ Works(t)
    BY Zenon, <1>10 DEF M!UnlockFat, M!At, Works
  <2>2. /\ at'[t] \in {"java", "op", "suspend", "recheck", "install", "fat"} /\ at'[t] # "fat"
        /\ \A x \in Thread \ {t} : at'[x] = at[x] \/ (at[x] = "waiting" /\ at'[x] = "woken")
    BY Zenon, <2>1, WorksMoves DEF MonitorInv, Free
  <2>3. at'[t] \notin {"suspend", "recheck", "install"}
    BY <1>1, <1>10 DEF M!UnlockFat, M!SignalWaiter, M!Goto
  <2> QED BY Zenon, <1>2, <2>1, <2>2, <2>3 DEF NoInflation
<1>11. ASSUME NEW t \in Thread, M!TryLock(t) \/ M!LockDone(t) \/ M!LockBlocks(t)
                                \/ M!LockAcquired(t) \/ M!WaitBegin(t)
       PROVE  NoInflation
  <2>1. /\ at[t] \in {"fat", "acquired", "blocked"}
        /\ \E l \in {"java", "blocked", "acquired", "release"} : at' = [at EXCEPT ![t] = l]
    BY Zenon, <1>11 DEF M!TryLock, M!LockDone, M!LockBlocks, M!LockAcquired, M!WaitBegin, M!Locking,
       M!Locked, M!At, M!Return, M!Goto
  <2> QED BY Zenon, <1>3, <2>1
<1>12. ASSUME NEW t \in Thread, M!WaitRelease(t) PROVE NoInflation
  BY <1>2, <1>12, WaitReleaseMoves DEF NoInflation, MonitorInv
<1>13. CASE M!Deflate \/ \E t \in Thread : M!Notify(t)
  BY Zenon, <1>4, <1>13 DEF M!Deflate, M!Notify
<1> QED BY Zenon, <1>8, <1>9, <1>10, <1>11, <1>12, <1>13, MonitorSteps DEF Works, Inflates

LEMMA SuspensionsStep == MonitorInv /\ M!Next => SuspensionsExact'
  BY Zenon, OthersInflate, SuspensionsInflate, SuspensionsStay DEF MonitorInv

\* While t can run and is outside of the inflation nobody is about to install a monitor for its
\* thin lock.
LEMMA NoInstall ==
    ASSUME MonitorInv, NEW t \in Thread, M!At(t, "op"), NEW x \in Thread, at[x] = "install"
    PROVE  ~M!ThinBy(t) \/ target[x] # t
  BY DEF MonitorInv, SuspensionsExact, M!At, M!RunnablePc, M!MayRun

LEMMA InstallReadyStep == MonitorInv /\ M!Next => InstallReady'
<1> SUFFICES ASSUME MonitorInv, M!Next, NEW x \in Thread, at'[x] = "install"
             PROVE  \/ lock_word'.state = "fat"
                    \/ M!ThinBy(target[x])'
                    \/ lock_word'.state = "hash" /\ target'[x] = None /\ new_hash'[x] = lock_word'.hash
  BY Zenon DEF InstallReady
<1> DEFINE Ready == \/ lock_word'.state = "fat"
                    \/ M!ThinBy(target[x])'
                    \/ lock_word'.state = "hash" /\ target'[x] = None /\ new_hash'[x] = lock_word'.hash
<1> SUFFICES Ready
  OBVIOUS
<1>1. /\ at \in [Thread -> MonitorPc] /\ target \in [Thread -> Thread \cup {None}]
      /\ new_hash \in [Thread -> Hash \cup {0}]
  BY Zenon, MonitorPlaces DEF MonitorInv, MonitorTypes
<1>2. at[x] = "install" => \/ lock_word.state = "fat"
                           \/ M!ThinBy(target[x])
                           \/ lock_word.state = "hash" /\ target[x] = None /\ new_hash[x] = lock_word.hash
  BY Zenon DEF MonitorInv, InstallReady
<1>3. ASSUME at[x] = "install", target'[x] = target[x], new_hash'[x] = new_hash[x], lock_word' = lock_word
      PROVE  Ready
  BY Zenon, <1>2, <1>3 DEF M!ThinBy
<1>4. ASSUME NEW t \in Thread, NEW h \in Hash \cup {0}, M!BeginInflate(t, h) PROVE Ready
  <2>1. CASE x # t
    BY Zenon, <1>1, <1>3, <1>4, <2>1 DEF M!BeginInflate, M!Goto
  <2>2. CASE x = t
    <3>1. new_hash'[t] = h /\ lock_word' = lock_word
      BY Zenon, <1>1, <1>4 DEF M!BeginInflate
    <3>2. CASE lock_word.state = "thin"
      BY Zenon, <1>1, <1>4, <2>2, <3>1, <3>2 DEF M!BeginInflate, M!ThinBy
    <3>3. CASE lock_word.state # "thin"
      <4>1. lock_word.state = "hash" /\ h = lock_word.hash
        BY Zenon, <1>4, <3>3, NeedsMonitorWord DEF M!BeginInflate
      <4>2. target'[t] = None
        BY Zenon, <1>1, <1>4, <3>3 DEF M!BeginInflate
      <4> QED BY Zenon, <2>2, <3>1, <4>1, <4>2
    <3> QED BY Zenon, <3>2, <3>3
  <2> QED BY Zenon, <2>1, <2>2
<1>5. ASSUME NEW t \in Thread, M!SuspendOwner(t) PROVE Ready
  <2>1. x # t
    BY Zenon, <1>1, <1>5 DEF M!SuspendOwner, M!Goto
  <2> QED BY Zenon, <1>1, <1>3, <1>5, <2>1 DEF M!SuspendOwner, M!Goto, M!Forget
<1>6. ASSUME NEW t \in Thread, M!Recheck(t) PROVE Ready
  <2>1. CASE x # t
    BY Zenon, <1>1, <1>3, <1>6, <2>1 DEF M!Recheck, M!Goto, M!ResumeOwner, M!Forget, M!inflation
  <2>2. CASE x = t
    BY Zenon, <1>1, <1>6, <2>2 DEF M!Recheck, M!StillThin, M!ThinBy, M!Goto, M!ResumeOwner, M!Forget,
       M!inflation
  <2> QED BY Zenon, <2>1, <2>2
<1>7. ASSUME NEW t \in Thread, M!Install(t) PROVE Ready
  <2>1. at[t] = "install" /\ M!InstallChecks(t) /\ M!ResumeOwner(t)
    BY Zenon, <1>7, InstallChecksHold DEF M!Install, M!At, MonitorInv
  <2>2. at' = [at EXCEPT ![t] = "op"] /\ (lock_word' = M!Fat \/ lock_word' = lock_word)
    BY Zenon, <1>7, <2>1 DEF M!Install, M!Goto, M!Publish, M!NotPublished
  <2>3. x # t /\ at[x] = "install"
    BY Zenon, <1>1, <2>2
  <2>4. target'[x] = target[x] /\ new_hash'[x] = new_hash[x]
    BY Zenon, <1>1, <2>1, <2>3 DEF M!ResumeOwner, M!Forget
  <2> QED BY Zenon, <1>3, <2>2, <2>3, <2>4, WordFields
<1>8. CASE NoInflation
  <2>1. at[x] = "install" /\ target' = target /\ new_hash' = new_hash
    BY Zenon, <1>8 DEF NoInflation
  <2>2. CASE lock_word' = lock_word
    BY Zenon, <1>3, <2>1, <2>2
  <2>3. CASE M!Deflate
    BY <2>1, <2>3 DEF M!Deflate, M!RunnablePc
  <2>4. ASSUME NEW t \in Thread, M!EnterThin(t) PROVE Ready
    <3>1. CASE lock_word = M!Unlocked
      BY Zenon, <1>2, <2>1, <3>1, WordFields DEF M!ThinBy
    <3>2. CASE M!ThinBy(t) /\ lock_word' = M!Thin(t, lock_word.count + 1)
      <4>1. target[x] = t
        BY Zenon, <1>2, <2>1, <3>2 DEF M!ThinBy
      <4> QED BY <2>1, <3>2, <4>1, WordFields DEF M!ThinBy
    <3> QED BY Zenon, <2>4, <3>1, <3>2 DEF M!EnterThin
  <2>5. ASSUME NEW t \in Thread, M!ExitThin(t) PROVE Ready
    <3>1. M!ThinBy(t) /\ M!At(t, "op")
      BY Zenon, <2>5 DEF M!ExitThin
    <3>2. target[x] = t
      BY Zenon, <1>2, <2>1, <3>1 DEF M!ThinBy
    <3> QED BY Zenon, <2>1, <3>1, <3>2, NoInstall
  <2>6. ASSUME NEW t \in Thread, M!HashThin(t) PROVE Ready
    <3>1. lock_word = M!Unlocked \/ lock_word' = lock_word
      BY Zenon, <2>6 DEF M!HashThin
    <3>2. lock_word # M!Unlocked
      BY Zenon, <1>2, <2>1, WordFields DEF M!ThinBy
    <3> QED BY <2>2, <3>1, <3>2
  <2>7. ASSUME NEW t \in Thread, Quiet(t) PROVE lock_word' = lock_word
    BY <2>7, QuietMoves DEF MonitorInv
  <2> HIDE DEF Ready
  <2> QED BY Zenon, <1>7, <2>2, <2>3, <2>4, <2>5, <2>6, <2>7, MonitorSteps
          DEF Works, M!Notify, M!TryLock, M!LockBlocks, M!LockAcquired, M!LockDone, M!Locked,
              M!WaitBegin, M!WaitRelease, M!LockRecursive, M!GetHashCode, M!UnlockFat
<1> HIDE DEF Ready
<1> QED BY Zenon, <1>4, <1>5, <1>6, <1>7, <1>8, OthersInflate DEF Inflates

------------------------------------------------------------------------------
(* Hash codes *)

LEMMA HashesStep == MonitorInv /\ M!Next => HashesExact'
<1> SUFFICES ASSUME MonitorInv, M!Next PROVE HashesExact'
  OBVIOUS
<1>1. hashes \subseteq {HashNow} /\ hashes \subseteq Hash /\ 0 \notin Hash /\ hash_code \in Hash \cup {0}
  BY MonitorAssumption DEF MonitorInv, HashesExact, MonitorTypes, M!TypeOK, M!BoundAssumption
<1>2. HashNow = 0 => hashes = {}
  BY <1>1
<1>3. lock_word \in LockWord
  BY WordTypes DEF MonitorInv
<1>4. CASE UNCHANGED <<lock_word, hash_code, hashes>>
  BY Zenon, <1>1, <1>4 DEF HashesExact, HashNow
<1>5. ASSUME NEW t \in Thread, M!EnterThin(t) \/ M!ExitThin(t) PROVE HashesExact'
  <2>1. lock_word.state \in {"unlocked", "thin"} /\ hashes' = hashes
    BY Zenon, <1>5, WordFields DEF M!EnterThin, M!ExitThin, M!ThinBy, M!Entered
  <2>2. HashNow = 0
    BY <2>1 DEF HashNow
  <2> QED BY Zenon, <1>2, <2>1, <2>2 DEF HashesExact
<1>6. ASSUME NEW t \in Thread, M!HashThin(t) PROVE HashesExact'
  <2>1. PICK h \in Hash : /\ lock_word = M!Unlocked \/ lock_word = M!HashWord(h)
                          /\ lock_word' = M!HashWord(h) /\ hashes' = hashes \cup {h}
    BY Zenon, <1>6 DEF M!HashThin
  <2>2. HashNow \in {0, h} /\ HashNow' = h
    BY <2>1, WordFields DEF HashNow
  <2> QED BY <1>1, <1>2, <2>1, <2>2 DEF HashesExact
<1>7. ASSUME NEW t \in Thread, M!Install(t) PROVE HashesExact'
  <2>1. at[t] = "install" /\ hashes' = hashes /\ M!InstallChecks(t)
    BY Zenon, <1>7, InstallChecksHold DEF M!Install, M!At, M!history, MonitorInv
  <2>2. CASE M!Publish(t)
    <3>1. lock_word # M!Fat /\ lock_word' = M!Fat /\ hash_code' = new_hash[t]
      BY Zenon, <2>2 DEF M!Publish
    <3>2. lock_word.state # "fat" /\ HashNow' = new_hash[t]
      BY Zenon, <1>3, <3>1, WordFields, WordForms DEF HashNow
    <3>3. HashNow = 0 \/ HashNow = new_hash[t]
      BY Zenon, <2>1, <3>2 DEF MonitorInv, InstallReady, M!ThinBy, HashNow
    <3> QED BY Zenon, <1>1, <1>2, <2>1, <3>2, <3>3 DEF HashesExact
  <2>3. CASE M!NotPublished
    BY Zenon, <1>4, <2>1, <2>3 DEF M!NotPublished, M!monitor
  <2> QED BY Zenon, <1>7, <2>1, <2>2, <2>3 DEF M!Install
<1>8. ASSUME NEW t \in Thread, M!GetHashCode(t) PROVE HashesExact'
  <2>1. PICK h \in Hash : hash_code \in {0, h} /\ hash_code' = h /\ hashes' = hashes \cup {h}
    BY Zenon, <1>8 DEF M!GetHashCode, M!OldHash
  <2>2. at[t] = "fat" /\ lock_word' = lock_word
    BY Zenon, <1>8 DEF M!GetHashCode, M!At
  <2>3. lock_word.state = "fat"
    BY Zenon, <2>2 DEF MonitorInv, AtRest
  <2>4. HashNow \in {0, h} /\ HashNow' = h
    BY Zenon, <2>1, <2>2, <2>3 DEF HashNow
  <2> QED BY Zenon, <1>1, <1>2, <2>1, <2>4 DEF HashesExact
<1>9. CASE M!Deflate
  <2>1. /\ lock_word = M!Fat /\ hashes' = hashes
        /\ lock_word' = IF hash_code = 0 THEN M!Unlocked ELSE M!HashWord(hash_code)
    BY Zenon, <1>9 DEF M!Deflate, M!history
  <2>2. HashNow = hash_code /\ HashNow' = hash_code
    BY Zenon, <2>1, WordFields DEF HashNow
  <2> QED BY <1>1, <2>1, <2>2 DEF HashesExact
<1>10. ASSUME NEW t \in Thread, Quiet(t) PROVE UNCHANGED <<lock_word, hash_code, hashes>>
  BY <1>10, QuietMoves DEF MonitorInv
<1>11. ASSUME NEW t \in Thread, M!LockRecursive(t) \/ M!UnlockFat(t)
       PROVE  UNCHANGED <<lock_word, hash_code, hashes>>
  BY Zenon, <1>11 DEF M!LockRecursive, M!UnlockFat, M!Entered
<1>12. ASSUME NEW t \in Thread, M!TryLock(t) \/ M!LockBlocks(t) \/ M!LockAcquired(t) \/ M!LockDone(t)
       PROVE  UNCHANGED <<lock_word, hash_code, hashes>>
  BY Zenon, <1>12 DEF M!TryLock, M!LockDone, M!Locked, M!LockBlocks, M!LockAcquired, M!Entered,
     M!history
<1>13. ASSUME NEW t \in Thread, M!WaitBegin(t) \/ M!WaitRelease(t) \/ M!Notify(t)
       PROVE  UNCHANGED <<lock_word, hash_code, hashes>>
  BY Zenon, <1>13 DEF M!WaitBegin, M!WaitRelease, M!Notify, M!history
<1> QED BY Zenon, <1>4, <1>5, <1>6, <1>7, <1>8, <1>9, <1>10, <1>11, <1>12, <1>13, MonitorSteps DEF Works

------------------------------------------------------------------------------
(* Notification *)

\* A thread that will lock the monitor, and signal when it releases it.
Coming(t) == at[t] = "woken" \/ (todo[t] = "relock" /\ at[t] \in {"fat", "blocked"})

LEMMA ComingMoves ==
    ASSUME NEW x \in Thread, Moves(x), Coming(x)
    PROVE  Coming(x)'
  BY DEF Moves, Free, Coming

\* SignalWaiterAndReleaseMonitorLock by a thread that does not wait.
LEMMA SignalWakes ==
    ASSUME MonitorInv, NEW t \in Thread, at[t] \notin {"waiting", "woken"}, NEW l \in MonitorPc,
           M!SignalWaiter([at EXCEPT ![t] = l], wait_monitor)
    PROVE  wake_set' = <<>> \/ \E u \in Thread : at'[u] = "woken"
<1> DEFINE goto == [at EXCEPT ![t] = l]
<1>1. at \in [Thread -> MonitorPc] /\ goto \in [Thread -> MonitorPc]
  BY MonitorPlaces DEF MonitorInv
<1>2. ASSUME NEW u \in Thread, wait_monitor[u],
             at' = [goto EXCEPT ![u] = IF at[u] = "waiting" THEN "woken" ELSE @]
      PROVE  at'[u] = "woken"
  <2>1. at[u] \in {"waiting", "woken"}
    BY <1>2 DEF MonitorInv, Place
  <2> QED BY Zenon, <1>1, <1>2, <2>1
<1> HIDE DEF goto
<1>3. M!SignalWaiter(goto, wait_monitor)
  BY Zenon DEF goto
<1> QED BY Zenon, <1>1, <1>2, <1>3, SignalEffect DEF MonitorInv

LEMMA NotificationStep == MonitorInv /\ M!Next => M!NotificationKept'
<1> SUFFICES ASSUME MonitorInv, M!Next, lock_word' = M!Fat, wake_set' # <<>>
             PROVE  monitor_lock' # None \/ \E t \in Thread : Coming(t)'
  BY Zenon DEF M!NotificationKept, Coming, M!Fat
<1> DEFINE Ok == monitor_lock' # None \/ \E t \in Thread : Coming(t)'
<1> SUFFICES Ok
  OBVIOUS
<1>1. None \notin Thread
  BY MonitorAssumption DEF M!ThreadAssumption
<1>2. lock_word = M!Fat /\ wake_set # <<>> => monitor_lock # None \/ \E t \in Thread : Coming(t)
  BY Zenon DEF MonitorInv, M!NotificationKept, Coming
<1>3. ASSUME UNCHANGED <<lock_word, monitor_lock, wake_set>>, \A x \in Thread : Moves(x) PROVE Ok
  BY Zenon, <1>2, <1>3, ComingMoves
<1>4. ASSUME NEW t \in Thread, Quiet(t) PROVE Ok
  BY Zenon, <1>3, <1>4, QuietMoves DEF MonitorInv
<1>5. ASSUME NEW t \in Thread, monitor_lock' = t PROVE Ok
  BY Zenon, <1>1, <1>5
<1>6. ASSUME NEW t \in Thread, owner = t \/ at[t] \in {"acquired", "release"} PROVE monitor_lock = t
  BY <1>6 DEF MonitorInv, Owning
<1>7. ASSUME NEW t \in Thread, M!LockRecursive(t) \/ M!WaitBegin(t) \/ M!Notify(t) PROVE Ok
  BY Zenon, <1>5, <1>6, <1>7 DEF M!LockRecursive, M!WaitBegin, M!Notify
<1>8. ASSUME NEW t \in Thread, M!TryLock(t) \/ M!LockAcquired(t) PROVE Ok
  BY Zenon, <1>5, <1>8 DEF M!TryLock, M!LockAcquired
<1>9. ASSUME NEW t \in Thread, M!LockDone(t) PROVE Ok
  <2>1. at[t] = "acquired" /\ monitor_lock' = monitor_lock
    BY Zenon, <1>9 DEF M!LockDone, M!At
  <2> QED BY <1>5, <1>6, <2>1
<1>10. ASSUME NEW t \in Thread, M!LockBlocks(t) PROVE Ok
  BY Zenon, <1>10 DEF M!LockBlocks
<1>11. ASSUME NEW t \in Thread, M!UnlockFat(t) PROVE Ok
  <2>1. at[t] = "fat" /\ owner = t
    BY Zenon, <1>11 DEF M!UnlockFat, M!At
  <2>2. CASE lock_count = 0
    <3>1. M!SignalWaiter([at EXCEPT ![t] = "java"], wait_monitor)
      BY Zenon, <1>11, <2>2 DEF M!UnlockFat
    <3>2. "java" \in MonitorPc /\ at[t] \notin {"waiting", "woken"}
      BY <2>1 DEF MonitorPc
    <3>3. \E u \in Thread : at'[u] = "woken"
      BY Zenon, <3>1, <3>2, SignalWakes
    <3> QED BY Zenon, <3>3 DEF Coming
  <2>3. CASE lock_count # 0
    BY Zenon, <1>5, <1>6, <1>11, <2>1, <2>3 DEF M!UnlockFat
  <2> QED BY Zenon, <2>2, <2>3
<1>12. ASSUME NEW t \in Thread, M!WaitRelease(t) PROVE Ok
  <2> DEFINE l == IF interrupted[t] THEN "woken" ELSE "waiting"
  <2>1. at[t] = "release" /\ M!SignalWaiter([at EXCEPT ![t] = l], wait_monitor)
    BY Zenon, <1>12 DEF M!WaitRelease
  <2>2. l \in MonitorPc /\ at[t] \notin {"waiting", "woken"}
    BY <2>1 DEF MonitorPc
  <2> HIDE DEF l
  <2>3. \E u \in Thread : at'[u] = "woken"
    BY Zenon, <2>1, <2>2, SignalWakes
  <2> QED BY Zenon, <2>3 DEF Coming
<1>13. ASSUME NEW t \in Thread, M!EnterThin(t) \/ M!ExitThin(t) \/ M!HashThin(t) PROVE Ok
  <2>1. lock_word'.state # "fat"
    BY Zenon, <1>13, WordFields, WordForms, WordTypes DEF M!EnterThin, M!ExitThin, M!HashThin, M!ThinBy,
       MonitorInv
  <2> QED BY Zenon, <2>1, WordFields
<1>14. ASSUME NEW t \in Thread, M!Install(t) \/ M!GetHashCode(t) PROVE Ok
  <2>1. \A x \in Thread : Moves(x)
    BY Zenon, <1>14, WorksMoves DEF Works, Moves, MonitorInv
  <2>2. UNCHANGED <<lock_word, monitor_lock, wake_set>>
    BY Zenon, <1>14 DEF M!Install, M!Publish, M!NotPublished, M!monitor, M!GetHashCode
  <2> QED BY <1>3, <2>1, <2>2
<1>15. ASSUME M!Deflate PROVE Ok
  <2>1. lock_word'.state # "fat"
    BY <1>15, WordFields DEF M!Deflate
  <2> QED BY Zenon, <2>1, WordFields
<1> HIDE DEF Ok
<1> QED BY Zenon, <1>4, <1>7, <1>8, <1>9, <1>10, <1>11, <1>12, <1>13, <1>14, <1>15, MonitorSteps DEF Works

------------------------------------------------------------------------------
(* The theorems *)

LEMMA MonitorInit == M!Init => MonitorInv
<1> SUFFICES ASSUME M!Init PROVE MonitorInv
  OBVIOUS
<1>1. lock_word = M!Unlocked /\ lock_word.state = "unlocked" /\ lock_word # M!Fat
  BY WordFields DEF M!Init
<1>2. /\ at = [t \in Thread |-> "java"] /\ todo = [t \in Thread |-> "enter"]
      /\ owner = None /\ monitor_lock = None /\ lock_count = 0 /\ monitor_waiters = 0
      /\ wait_set = <<>> /\ wake_set = <<>> /\ hash_code = 0 /\ hashes = {}
      /\ target = [t \in Thread |-> None] /\ new_hash = [t \in Thread |-> 0]
      /\ suspended_by = [t \in Thread |-> {}] /\ prev_lock_count = [t \in Thread |-> 0]
      /\ wait_monitor = [t \in Thread |-> FALSE] /\ interrupted = [t \in Thread |-> FALSE]
      /\ monitor_held = [t \in Thread |-> 0]
  BY Zenon DEF M!Init
<1>3. None \notin Thread
  BY Zenon, MonitorAssumption DEF M!ThreadAssumption
<1>4. MonitorTypes
  BY <1>1, <1>2 DEF MonitorTypes, M!TypeOK, M!Op
<1>5. \A t \in Thread : at[t] = "java" /\ todo[t] = "enter" /\ ~M!InWait(t)
  BY Zenon, <1>2 DEF M!InWait
<1>6. WaitersExact
  <2>1. Blocking = {} /\ InWaits = {}
    BY Zenon, <1>5 DEF Blocking, InWaits
  <2> QED BY <1>2, <2>1, FS_EmptySet DEF WaitersExact
<1>7. ASSUME NEW t \in Thread PROVE Place(t) /\ Owning(t)
  BY <1>1, <1>2, <1>3, <1>5 DEF Place, Owning, M!ThinBy
<1>8. AtRest /\ InstallReady
  BY Zenon, <1>2, <1>5 DEF AtRest, InstallReady
<1>9. SuspensionsExact
  BY Zenon, <1>2, <1>5 DEF SuspensionsExact
<1>10. HashesExact /\ M!NotificationKept
  BY Zenon, <1>1, <1>2 DEF HashesExact, M!NotificationKept
<1> QED BY Zenon, <1>4, <1>6, <1>7, <1>8, <1>9, <1>10 DEF MonitorInv

LEMMA MonitorStutters == MonitorInv /\ UNCHANGED M!vars => MonitorInv'
<1> SUFFICES ASSUME MonitorInv, UNCHANGED M!vars PROVE MonitorInv'
  OBVIOUS
<1> USE DEF M!vars, M!monitor, M!inflation, M!waiting, M!history
<1>1. MonitorTypes'
  BY DEF MonitorInv, MonitorTypes, M!TypeOK
<1>2. WaitersExact'
  BY Zenon DEF MonitorInv, WaitersExact, Blocking, InWaits, M!InWait
<1>3. \A t \in Thread : Place(t)' /\ Owning(t)'
  BY Zenon DEF MonitorInv, Place, Owning, M!ThinBy, M!InWait
<1>4. AtRest' /\ SuspensionsExact' /\ InstallReady'
  BY Zenon DEF MonitorInv, AtRest, SuspensionsExact, InstallReady, M!ThinBy
<1>5. HashesExact' /\ M!NotificationKept'
  BY Zenon DEF MonitorInv, HashesExact, HashNow, M!NotificationKept
<1> QED BY Zenon, <1>1, <1>2, <1>3, <1>4, <1>5 DEF MonitorInv

LEMMA MonitorNext == MonitorInv /\ [M!Next]_M!vars => MonitorInv'
<1>1. ASSUME MonitorInv, M!Next PROVE MonitorInv'
  BY Zenon, <1>1, MonitorTypesStep, WaitersStep, PlaceStep, OwningStep, SuspensionsStep,
     InstallReadyStep, HashesStep, NotificationStep DEF MonitorInv
<1> QED BY Zenon, <1>1, MonitorStutters

LEMMA MonitorInvariant == M!Spec => []MonitorInv
<1>1. MonitorInv /\ [M!Next]_M!vars => MonitorInv'
  BY MonitorNext
<1> QED BY MonitorInit, <1>1, PTL DEF M!Spec

\* Monitor and ObjectMonitor: a thread between its enter and its exit owns the lock, as deep
\* as it entered it, whoever inflates or deflates the lock meanwhile, and no thread is left
\* with a monitor that is not the object's.
THEOREM OwnershipHolds == M!Spec => []OwnershipKept
<1>1. MonitorInv => OwnershipKept
  <2> SUFFICES ASSUME MonitorInv PROVE M!OwnershipExact /\ M!MonitorInUse
    BY DEF OwnershipKept
  <2>1. lock_word \in LockWord /\ (lock_word.state = "fat" => lock_word = M!Fat)
    BY Zenon, WordTypes, WordForms DEF MonitorInv
  <2>2. M!MonitorInUse
    BY Zenon, <2>1 DEF MonitorInv, AtRest, M!MonitorInUse
  <2>3. ASSUME NEW t \in Thread, monitor_held[t] > 0, ~M!InWait(t)
        PROVE  \/ lock_word = M!Thin(t, monitor_held[t] - 1)
               \/ /\ lock_word = M!Fat /\ monitor_lock = t /\ owner = t
                  /\ lock_count = monitor_held[t] - 1
    <3>1. CASE M!ThinBy(t)
      <4>1. lock_word = M!Thin(t, lock_word.count) /\ lock_word.count \in 0..MaxCount
        BY Zenon, <2>1, <3>1, WordForms DEF M!ThinBy
      <4>2. monitor_held[t] - 1 = lock_word.count
        BY <3>1, <4>1 DEF MonitorInv, Owning
      <4> QED BY Zenon, <4>1, <4>2
    <3>2. CASE lock_word.state = "fat" /\ owner = t
      BY <2>1, <3>2 DEF MonitorInv, MonitorTypes, M!TypeOK, Owning
    <3> QED BY Zenon, <2>3, <3>1, <3>2 DEF MonitorInv, Owning
  <2>4. ASSUME NEW t \in Thread, M!InWait(t) PROVE prev_lock_count[t] = monitor_held[t] - 1
    BY Zenon, <2>4 DEF MonitorInv, Place
  <2>5. M!OwnershipExact
    BY Zenon, <2>3, <2>4 DEF M!OwnershipExact
  <2> QED BY <2>2, <2>5
<1> QED BY <1>1, MonitorInvariant, PTL

\* SignalWaiterAndReleaseMonitorLock: while a notified thread has not been woken, the monitor
\* is held or a thread that has been woken is coming to lock it.
THEOREM NotificationHolds == M!Spec => []NotificationKept
<1>1. MonitorInv => NotificationKept
  BY Zenon DEF MonitorInv, NotificationKept
<1> QED BY <1>1, MonitorInvariant, PTL

\* IdentityHashCode, Inflate and Deflate: all the hash codes that an object has answered are
\* the same.
THEOREM HashHolds == M!Spec => []HashStable
<1>1. MonitorInv => HashStable
  <2> SUFFICES ASSUME MonitorInv PROVE M!HashStable
    BY DEF HashStable
  <2>1. hashes = {} \/ hashes = {HashNow}
    BY DEF MonitorInv, HashesExact
  <2>2. Cardinality({}) = 0 /\ Cardinality({HashNow}) = 1
    BY Zenon, FS_EmptySet, FS_Singleton
  <2>3. Cardinality(hashes) = 0 \/ Cardinality(hashes) = 1
    BY Zenon, <2>1, <2>2
  <2>4. Cardinality(hashes) <= 1
    BY <2>3
  <2> QED BY Zenon, <2>4 DEF M!HashStable, M!Cardinality, M!IsFiniteSet, Cardinality, IsFiniteSet
<1> QED BY <1>1, MonitorInvariant, PTL

\* Monitor::Install: the lock word it meets is never unlocked, another thread's or another
\* hash code's, the cases in which the code aborts.
THEOREM InstallNeverAborts == M!Spec => []M!TypeOK
<1>1. MonitorInv => M!TypeOK
  BY DEF MonitorInv, MonitorTypes
<1> QED BY <1>1, MonitorInvariant, PTL

==============================================================================
