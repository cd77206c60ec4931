------------------------- MODULE WeakReferencesProofs -------------------------
(***************************************************************************)
(* Proofs about WeakReferences, for every heap and any set of threads:     *)
(* threads hold marked objects only; marking has converged when the        *)
(* collector takes the mark stack for itself, by an invariant that tells   *)
(* in each phase where a marked object may still wait to be scanned; and   *)
(* the weak references to an object are cleared together.                  *)
(***************************************************************************)
EXTENDS ReferenceMarking, FiniteSetTheorems, TLAPS

------------------------------------------------------------------------------
(* WeakReferences *)

Places == {"safe", "native", "mark", "push", "slow", "slow_wait", "global", "global_wait",
           "lock", "before_sleep", "sleep", "unlock"}

Marked == {o \in Obj : M!IsMarked(o)}

\* Where a thread is tells what it is about to get.
Access(t) ==
    /\ at[t] = "mark" => arg[t] \in Obj
    /\ at[t] = "push" => arg[t] \in Marked
    /\ at[t] \in {"slow", "slow_wait"} => arg[t] \in held[t] \cap WeakRef

MarkingTypes ==
    /\ color \in [Obj -> {"white", "gray", "black"}]
    /\ referent \in [M!Reference -> Obj \cup {None}] /\ weak_global \in Obj \cup {None}
    /\ at \in [Thread -> Places] /\ arg \in [Thread -> Obj \cup {None}]
    /\ held \in [Thread -> SUBSET Obj]
    /\ mark_stack_mode \in {"local", "shared", "exclusive"}

\* What a black object refers to is marked, its referent included.
BlackScanned ==
    \A o \in Obj : color[o] = "black" =>
        Fields[o] \subseteq Marked /\ (o \in M!Reference => referent[o] \in Marked \cup {None})

\* The fields of what is about to become black are marked.
Delayed ==
    /\ gc = "blacken" /\ scanning \in Obj => Fields[scanning] \subseteq Marked
    /\ \A r \in weak_queue \cup finalizer_queue : r \in M!Reference /\ Fields[r] \subseteq Marked

MarkingInv ==
    /\ MarkingTypes /\ BlackScanned /\ Delayed
    /\ \A t \in Thread : Access(t) /\ held[t] \subseteq Marked

\* The steps of the collector that leave colours and referents alone.
Rests ==
    \/ M!Once \/ M!Revoked \/ M!PopRevoked \/ M!Pop \/ M!OnceEnds
    \/ M!AskEmptyCheckpoint \/ M!BroadcastForSlowPath \/ M!BroadcastForNewSystemWeaks
    \/ M!WakeupToRespondToEmptyCheckpoint \/ M!BarrierPassed \/ M!BarrierTimedOut
    \/ M!Setup \/ M!SwitchToSharedMarkStackMode \/ M!DisableWeakRefAccess
    \/ M!SwitchToGcExclusiveMarkStackMode \/ M!InitMarkingDone \/ M!InitClearingDone
    \/ M!FinalizersEnqueued \/ M!SweepSystemWeaks \/ M!ReenableWeakRefAccess

\* The steps of a thread that do so.
Acts(t) ==
    \/ M!PushOntoMarkStack(t) \/ M!SlowPathDone(t) \/ M!SlowPathPredict(t)
    \/ M!DecodeWeakGlobalLocked(t) \/ M!WaitForAccess(t)
    \/ M!Lock(t) \/ M!LockContended(t) \/ M!FutexWait(t) \/ M!Unlock(t)
    \/ M!RunEmptyCheckpoint(t) \/ M!RevokeThreadLocalMarkStack(t)
    \/ M!LoadField(t) \/ M!GetReferent(t) \/ M!DecodeWeakGlobal(t)
    \/ M!GoNative(t) \/ M!ReturnFromNative(t)

LEMMA MarkingSteps ==
    ASSUME M!Next
    PROVE  \/ Rests \/ M!ScanField \/ M!ScanReferent \/ M!Blacken
           \/ M!ClearWhiteReference \/ M!EnqueueFinalizerReference
           \/ \E t \in Thread : Acts(t) \/ M!ReadBarrierMark(t)
  BY Zenon DEF M!Next, M!Collector, M!Proceed, M!Respond, M!Start, Rests, Acts

\* A queue shrinks, and no object is to become black.
LEMMA RestsKeeps ==
    ASSUME Rests, mark_stack_mode \in {"local", "shared", "exclusive"}
    PROVE  /\ UNCHANGED <<color, referent, weak_queue, finalizer_queue, arg, held>>
           /\ gc' # "blacken" \/ (gc' = gc /\ scanning' = scanning)
           /\ weak_global' \in {weak_global, None}
           /\ mark_stack_mode' \in {"local", "shared", "exclusive"}
<1> DEFINE Ok == /\ UNCHANGED <<color, referent, weak_queue, finalizer_queue, arg, held>>
                 /\ gc' # "blacken" \/ (gc' = gc /\ scanning' = scanning)
                 /\ weak_global' \in {weak_global, None}
                 /\ mark_stack_mode' \in {"local", "shared", "exclusive"}
<1> SUFFICES Ok
  OBVIOUS
<1> USE DEF M!heap, M!stacks, M!refs, M!gcvars, M!mutators
<1>1. CASE M!Once
  <2>1. gc' \in {"revoking", "ask", "pop"}
    BY Zenon, <1>1 DEF M!Once
  <2> QED BY Zenon, <1>1, <2>1 DEF M!Once
<1>2. CASE M!Revoked \/ M!OnceEnds
  <2>1. M!AfterProcessMarkStack # "blacken"
    BY Zenon DEF M!AfterProcessMarkStack
  <2> QED BY Zenon, <1>2, <2>1 DEF M!Revoked, M!OnceEnds
<1>3. CASE M!PopRevoked
  BY Zenon, <1>3 DEF M!PopRevoked
<1>4. CASE M!Pop
  BY Zenon, <1>4 DEF M!Pop
<1>5. CASE M!AskEmptyCheckpoint \/ M!BarrierPassed \/ M!BarrierTimedOut
  BY Zenon, <1>5 DEF M!AskEmptyCheckpoint, M!BarrierPassed, M!BarrierTimedOut
<1>6. CASE M!BroadcastForSlowPath \/ M!BroadcastForNewSystemWeaks
  BY Zenon, <1>6 DEF M!BroadcastForSlowPath, M!BroadcastForNewSystemWeaks
<1>7. CASE M!WakeupToRespondToEmptyCheckpoint \/ M!Setup
  BY Zenon, <1>7 DEF M!WakeupToRespondToEmptyCheckpoint, M!Setup
<1>8. CASE M!SwitchToSharedMarkStackMode \/ M!DisableWeakRefAccess
  BY Zenon, <1>8 DEF M!SwitchToSharedMarkStackMode, M!DisableWeakRefAccess
<1>9. CASE M!SwitchToGcExclusiveMarkStackMode \/ M!InitMarkingDone \/ M!InitClearingDone
  BY Zenon, <1>9 DEF M!SwitchToGcExclusiveMarkStackMode, M!InitMarkingDone, M!InitClearingDone
<1>10. CASE M!FinalizersEnqueued \/ M!SweepSystemWeaks \/ M!ReenableWeakRefAccess
  BY Zenon, <1>10 DEF M!FinalizersEnqueued, M!SweepSystemWeaks, M!ReenableWeakRefAccess
<1> HIDE DEF Ok
<1> QED BY Zenon, <1>1, <1>2, <1>3, <1>4, <1>5, <1>6, <1>7, <1>8, <1>9, <1>10 DEF Rests

LEMMA ActsKeeps ==
    ASSUME NEW t \in Thread, Acts(t)
    PROVE  UNCHANGED <<color, referent, weak_global, weak_queue, finalizer_queue, gc, scanning,
                       mark_stack_mode>>
<1> USE DEF M!heap, M!stacks, M!refs, M!gcvars
<1>1. CASE M!PushOntoMarkStack(t) \/ M!SlowPathDone(t) \/ M!SlowPathPredict(t)
           \/ M!DecodeWeakGlobalLocked(t) \/ M!WaitForAccess(t)
  BY Zenon, <1>1 DEF M!PushOntoMarkStack, M!SlowPathDone, M!SlowPathPredict,
     M!DecodeWeakGlobalLocked, M!WaitForAccess
<1>2. CASE M!Lock(t) \/ M!LockContended(t) \/ M!FutexWait(t) \/ M!Unlock(t)
  BY Zenon, <1>2 DEF M!Lock, M!LockContended, M!FutexWait, M!Unlock
<1>3. CASE M!RunEmptyCheckpoint(t) \/ M!RevokeThreadLocalMarkStack(t)
           \/ M!GoNative(t) \/ M!ReturnFromNative(t)
  BY Zenon, <1>3 DEF M!RunEmptyCheckpoint, M!RevokeThreadLocalMarkStack, M!GoNative,
     M!ReturnFromNative
<1>4. CASE M!LoadField(t) \/ M!GetReferent(t) \/ M!DecodeWeakGlobal(t)
  BY Zenon, <1>4 DEF M!LoadField, M!GetReferent, M!DecodeWeakGlobal
<1> QED BY Zenon, <1>1, <1>2, <1>3, <1>4 DEF Acts

------------------------------------------------------------------------------
(* Colours *)

\* Marked objects stay marked, and references are at most cleared.
HeapGoes ==
    /\ color' \in [Obj -> {"white", "gray", "black"}] /\ Marked \subseteq Marked'
    /\ referent' \in [M!Reference -> Obj \cup {None}]
    /\ \A r \in M!Reference : referent'[r] \in {referent[r], None}

\* o may become black.
Scanned(o) ==
    Fields[o] \subseteq Marked /\ (o \in M!Reference => referent[o] \in Marked \cup {None})

LEMMA BlackStays ==
    ASSUME MarkingInv, M!GraphAssumption, HeapGoes,
           \A o \in Obj : color'[o] = "black" => color[o] = "black" \/ Scanned(o)'
    PROVE  BlackScanned'
<1> SUFFICES ASSUME NEW o \in Obj, color'[o] = "black"
             PROVE  Fields[o] \subseteq Marked' /\ (o \in M!Reference => referent'[o] \in Marked' \cup {None})
  BY DEF BlackScanned
<1>1. CASE Scanned(o)'
  BY <1>1 DEF Scanned
<1>2. CASE color[o] = "black"
  BY Zenon, <1>2 DEF MarkingInv, BlackScanned, HeapGoes
<1> QED BY <1>1, <1>2

\* Marking one object.
LEMMA MarkOne ==
    ASSUME MarkingInv, NEW p, color' = [color EXCEPT ![p] = "gray"], referent' = referent,
           color[p] = "white"
    PROVE  HeapGoes /\ \A o \in Obj : color'[o] = "black" => color[o] = "black"
  BY Zenon DEF MarkingInv, MarkingTypes, HeapGoes, Marked, M!IsMarked

LEMMA HeapStep == M!GraphAssumption /\ MarkingInv /\ M!Next => HeapGoes /\ BlackScanned'
<1> SUFFICES ASSUME M!GraphAssumption, MarkingInv, M!Next PROVE HeapGoes /\ BlackScanned'
  OBVIOUS
<1>1. /\ color \in [Obj -> {"white", "gray", "black"}]
      /\ referent \in [M!Reference -> Obj \cup {None}] /\ M!Reference \subseteq Obj
      /\ Fields \in [Obj -> SUBSET Obj]
  BY DEF MarkingInv, MarkingTypes, M!GraphAssumption, M!Reference
<1>2. ASSUME UNCHANGED <<color, referent>> PROVE HeapGoes /\ BlackScanned'
  <2>1. HeapGoes
    BY <1>1, <1>2 DEF HeapGoes, Marked, M!IsMarked
  <2> QED BY <1>2, <2>1, BlackStays
<1>3. ASSUME NEW p, color' = [color EXCEPT ![p] = "gray"], referent' = referent, ~M!IsMarked(p)
      PROVE  HeapGoes /\ BlackScanned'
  <2>1. color[p] = "white"
    BY <1>3 DEF M!IsMarked
  <2> QED BY Zenon, <1>3, <2>1, MarkOne, BlackStays
<1>4. ASSUME NEW t \in Thread, M!ReadBarrierMark(t) PROVE HeapGoes /\ BlackScanned'
  BY Zenon, <1>2, <1>3, <1>4 DEF M!ReadBarrierMark
<1>5. CASE M!ScanField
  BY Zenon, <1>3, <1>5 DEF M!ScanField
<1>6. CASE M!ScanReferent
  BY Zenon, <1>2, <1>6 DEF M!ScanReferent, M!heap
<1>7. CASE M!Blacken
  <2>1. CASE color' = color
    BY Zenon, <1>2, <1>7, <2>1 DEF M!Blacken
  <2>2. CASE color' # color
    <3>1. /\ color' = [color EXCEPT ![scanning] = "black"] /\ referent' = referent /\ gc = "blacken"
          /\ scanning \notin {r \in M!Reference : referent[r] \in {o \in Obj : ~M!IsMarked(o)}}
      BY Zenon, <1>7, <2>2 DEF M!Blacken
    <3>2. HeapGoes
      BY Zenon, <1>1, <3>1 DEF HeapGoes, Marked, M!IsMarked
    <3>3. ASSUME NEW o \in Obj, color'[o] = "black", color[o] # "black" PROVE Scanned(o)'
      <4>1. o = scanning
        BY <1>1, <3>1, <3>3
      <4>2. Fields[o] \subseteq Marked /\ (o \in M!Reference => referent[o] \in Marked \cup {None})
        BY <1>1, <3>1, <4>1 DEF MarkingInv, Delayed, Marked
      <4> QED BY Zenon, <3>1, <3>2, <4>2 DEF Scanned, HeapGoes
    <3> QED BY Zenon, <3>2, <3>3, BlackStays
  <2> QED BY <2>1, <2>2
<1>8. CASE M!ClearWhiteReference
  <2>1. PICK w \in weak_queue :
           /\ referent' = [referent EXCEPT ![w] = IF M!IsMarked(referent[w]) THEN referent[w] ELSE None]
           /\ color' = [color EXCEPT ![w] = "black"]
    BY Zenon, <1>8 DEF M!ClearWhiteReference
  <2>2. w \in M!Reference /\ Fields[w] \subseteq Marked
    BY DEF MarkingInv, Delayed
  <2>3. HeapGoes
    BY <1>1, <2>1, <2>2 DEF HeapGoes, Marked, M!IsMarked
  <2>4. referent'[w] \in Marked \cup {None}
    BY <1>1, <2>1, <2>2 DEF Marked
  <2>5. \A o \in Obj : color'[o] = "black" => color[o] = "black" \/ o = w
    BY <1>1, <2>1
  <2>6. Scanned(w)'
    BY Zenon, <2>2, <2>3, <2>4 DEF Scanned, HeapGoes
  <2> QED BY Zenon, <2>3, <2>5, <2>6, BlackStays
<1>9. CASE M!EnqueueFinalizerReference
  <2>1. PICK f \in finalizer_queue :
           \/ /\ M!IsMarked(referent[f]) /\ referent' = referent
              /\ color' = [color EXCEPT ![f] = "black"]
           \/ /\ ~M!IsMarked(referent[f]) /\ referent' = [referent EXCEPT ![f] = None]
              /\ color' = [color EXCEPT ![f] = "black", ![referent[f]] = "gray"]
    BY Zenon, <1>9 DEF M!EnqueueFinalizerReference
  <2>2. f \in M!Reference /\ Fields[f] \subseteq Marked
    BY DEF MarkingInv, Delayed
  <2>3. HeapGoes
    BY <1>1, <2>1, <2>2 DEF HeapGoes, Marked, M!IsMarked
  <2>4. referent'[f] \in Marked \cup {None}
    BY <1>1, <2>1, <2>2 DEF Marked
  <2>5. \A o \in Obj : color'[o] = "black" => color[o] = "black" \/ o = f
    BY <1>1, <2>1
  <2>6. Scanned(f)'
    BY Zenon, <2>2, <2>3, <2>4 DEF Scanned, HeapGoes
  <2> QED BY Zenon, <2>3, <2>5, <2>6, BlackStays
<1>10. CASE Rests
  BY Zenon, <1>2, <1>10, RestsKeeps DEF MarkingInv, MarkingTypes
<1>11. ASSUME NEW t \in Thread, Acts(t) PROVE HeapGoes /\ BlackScanned'
  BY Zenon, <1>2, <1>11, ActsKeeps
<1> QED BY Zenon, <1>4, <1>5, <1>6, <1>7, <1>8, <1>9, <1>10, <1>11, MarkingSteps

\* What is to become black has its fields marked.
LEMMA DelayedStep == M!GraphAssumption /\ MarkingInv /\ M!Next => Delayed'
<1> SUFFICES ASSUME M!GraphAssumption, MarkingInv, M!Next PROVE Delayed'
  OBVIOUS
<1>1. Marked \subseteq Marked'
  BY Zenon, HeapStep DEF HeapGoes
<1>2. ASSUME weak_queue' \subseteq weak_queue, finalizer_queue' \subseteq finalizer_queue,
             gc' # "blacken" \/ (gc' = gc /\ scanning' = scanning)
      PROVE  Delayed'
  BY Zenon, <1>1, <1>2 DEF MarkingInv, Delayed
<1>3. CASE M!ScanReferent
  <2>1. /\ \A p \in Fields[scanning] : M!IsMarked(p)
        /\ scanning' = scanning /\ weak_queue' \subseteq weak_queue \cup ({scanning} \cap M!Reference)
        /\ finalizer_queue' \subseteq finalizer_queue \cup ({scanning} \cap M!Reference)
    BY Zenon, <1>3 DEF M!ScanReferent, M!Reference
  <2>2. M!Reference \subseteq Obj /\ Fields \in [Obj -> SUBSET Obj]
    BY DEF M!GraphAssumption, M!Reference
  <2>3. scanning \in Obj => Fields[scanning] \subseteq Marked'
    BY <1>1, <2>1, <2>2 DEF Marked
  <2>4. ASSUME NEW r \in weak_queue' \cup finalizer_queue'
        PROVE  r \in M!Reference /\ Fields[r] \subseteq Marked'
    BY Zenon, <1>1, <2>1, <2>2, <2>3 DEF MarkingInv, Delayed
  <2> QED BY Zenon, <2>1, <2>3, <2>4 DEF Delayed
<1>4. CASE M!ScanField \/ M!Blacken
  BY Zenon, <1>2, <1>4 DEF M!ScanField, M!Blacken, M!refs, M!gcvars
<1>5. CASE M!ClearWhiteReference \/ M!EnqueueFinalizerReference
  BY Zenon, <1>2, <1>5 DEF M!ClearWhiteReference, M!EnqueueFinalizerReference, M!gcvars
<1>6. CASE Rests
  BY Zenon, <1>2, <1>6, RestsKeeps DEF MarkingInv, MarkingTypes
<1>7. ASSUME NEW t \in Thread, Acts(t) PROVE Delayed'
  BY Zenon, <1>2, <1>7, ActsKeeps
<1>8. ASSUME NEW t \in Thread, M!ReadBarrierMark(t) PROVE Delayed'
  BY Zenon, <1>2, <1>8 DEF M!ReadBarrierMark, M!refs, M!gcvars
<1> QED BY Zenon, <1>3, <1>4, <1>5, <1>6, <1>7, <1>8, MarkingSteps

------------------------------------------------------------------------------
(* Threads *)

ThreadsOk ==
    /\ at' \in [Thread -> Places] /\ arg' \in [Thread -> Obj \cup {None}]
    /\ held' \in [Thread -> SUBSET Obj]
    /\ \A t \in Thread : Access(t)' /\ held'[t] \subseteq Marked'

\* A thread that gets nothing, and does not begin to look for anything.
LEMMA ThreadStays ==
    ASSUME MarkingInv, HeapGoes, NEW x \in Thread,
           \/ at'[x] = at[x] \/ at'[x] \notin {"mark", "push", "slow", "slow_wait"}
           \/ at[x] \in {"slow", "slow_wait"} /\ at'[x] \in {"slow", "slow_wait"},
           arg'[x] = arg[x], held'[x] = held[x]
    PROVE  Access(x)' /\ held'[x] \subseteq Marked'
<1>1. Access(x) /\ held[x] \subseteq Marked /\ Marked \subseteq Marked'
  BY Zenon DEF MarkingInv, HeapGoes
<1> QED BY Zenon, <1>1 DEF Access

LEMMA ThreadGot ==
    ASSUME MarkingInv, M!GraphAssumption, HeapGoes, NEW t \in Thread, NEW o \in Marked' \cup {None},
           M!Got(t, o)
    PROVE  ThreadsOk
<1>1. /\ at \in [Thread -> Places] /\ arg \in [Thread -> Obj \cup {None}]
      /\ held \in [Thread -> SUBSET Obj] /\ M!Done(t) \in {"unlock", "safe"}
  BY DEF MarkingInv, MarkingTypes, M!Done
<1>2. /\ at' = [at EXCEPT ![t] = M!Done(t)] /\ arg' = [arg EXCEPT ![t] = None]
      /\ held' = [held EXCEPT ![t] = held[t] \cup ({o} \ {None})]
  BY Zenon DEF M!Got, M!GotoArg
<1>3. at' \in [Thread -> Places] /\ arg' \in [Thread -> Obj \cup {None}]
  BY <1>1, <1>2 DEF Places
<1>4. held' \in [Thread -> SUBSET Obj]
  BY <1>1, <1>2 DEF Marked
<1>5. Access(t)'
  BY <1>1, <1>2 DEF Access
<1>6. held'[t] \subseteq Marked'
  <2>1. held[t] \subseteq Marked'
    BY Zenon DEF MarkingInv, HeapGoes
  <2> QED BY <1>1, <1>2, <2>1
<1>7. ASSUME NEW x \in Thread, x # t PROVE Access(x)' /\ held'[x] \subseteq Marked'
  <2>1. at'[x] = at[x] /\ arg'[x] = arg[x] /\ held'[x] = held[x]
    BY <1>1, <1>2, <1>7
  <2> QED BY Zenon, <2>1, ThreadStays
<1> QED BY Zenon, <1>3, <1>4, <1>5, <1>6, <1>7 DEF ThreadsOk

\* A thread goes on with o.
LEMMA ThreadGoes ==
    ASSUME MarkingInv, HeapGoes, NEW t \in Thread, NEW l \in Places, NEW o \in Obj \cup {None},
           M!GotoArg(t, l, o), held' = held,
           l = "mark" => o \in Obj, l = "push" => o \in Marked',
           l \in {"slow", "slow_wait"} => o \in held[t] \cap WeakRef
    PROVE  ThreadsOk
<1>1. /\ at \in [Thread -> Places] /\ arg \in [Thread -> Obj \cup {None}]
      /\ held \in [Thread -> SUBSET Obj]
  BY DEF MarkingInv, MarkingTypes
<1>2. at' = [at EXCEPT ![t] = l] /\ arg' = [arg EXCEPT ![t] = o]
  BY Zenon DEF M!GotoArg
<1>3. /\ at' \in [Thread -> Places] /\ arg' \in [Thread -> Obj \cup {None}]
      /\ held' \in [Thread -> SUBSET Obj]
  BY <1>1, <1>2
<1>4. at'[t] = l /\ arg'[t] = o
  BY <1>1, <1>2
<1>5. Access(t)' /\ held'[t] \subseteq Marked'
  BY Zenon, <1>4 DEF Access, MarkingInv, HeapGoes
<1>6. ASSUME NEW x \in Thread, x # t PROVE Access(x)' /\ held'[x] \subseteq Marked'
  <2>1. at'[x] = at[x] /\ arg'[x] = arg[x] /\ held'[x] = held[x]
    BY <1>1, <1>2, <1>6
  <2> QED BY Zenon, <2>1, ThreadStays
<1> QED BY Zenon, <1>3, <1>5, <1>6 DEF ThreadsOk

\* GetReferent: the referent of a black reference is marked, that of a gray one goes through
\* the read barrier.
LEMMA ReferentLoaded ==
    ASSUME MarkingInv, M!GraphAssumption, HeapGoes, NEW t \in Thread,
           NEW w \in held[t] \cap WeakRef, M!LoadReferent(t, w)
    PROVE  ThreadsOk
<1>1. /\ w \in Obj /\ w \in M!Reference /\ color[w] \in {"gray", "black"}
      /\ referent[w] \in Obj \cup {None}
  BY DEF MarkingInv, MarkingTypes, M!GraphAssumption, M!Reference, Marked, M!IsMarked
<1>2. CASE referent[w] # None /\ color[w] = "gray"
  <2>1. M!GotoArg(t, "mark", referent[w]) /\ held' = held /\ referent[w] \in Obj
    BY Zenon, <1>1, <1>2 DEF M!LoadReferent
  <2>2. "mark" \in Places
    BY DEF Places
  <2> QED BY Zenon, <2>1, <2>2, ThreadGoes
<1>3. CASE ~(referent[w] # None /\ color[w] = "gray")
  <2>1. M!Got(t, referent[w])
    BY Zenon, <1>3 DEF M!LoadReferent
  <2>2. referent[w] \in Marked \cup {None}
    BY <1>1, <1>3 DEF MarkingInv, BlackScanned
  <2>3. referent[w] \in Marked' \cup {None}
    BY Zenon, <2>2 DEF HeapGoes
  <2> QED BY Zenon, <2>1, <2>3, ThreadGot
<1> QED BY <1>2, <1>3

\* The threads of pc "from" are woken.
LEMMA ThreadsWoken ==
    ASSUME MarkingInv, HeapGoes, NEW from, NEW to \in Places, M!Broadcast(from, to),
           arg' = arg, held' = held,
           to \in {"lock", "before_sleep", "global"} \/ (from = "slow_wait" /\ to = "slow")
    PROVE  ThreadsOk
<1>1. /\ at \in [Thread -> Places] /\ arg \in [Thread -> Obj \cup {None}]
      /\ held \in [Thread -> SUBSET Obj]
  BY DEF MarkingInv, MarkingTypes
<1>2. at' = [t \in Thread |-> IF at[t] = from THEN to ELSE at[t]]
  BY Zenon DEF M!Broadcast
<1>3. at' \in [Thread -> Places]
  BY <1>1, <1>2
<1>4. ASSUME NEW x \in Thread PROVE Access(x)' /\ held'[x] \subseteq Marked'
  <2>1. at'[x] = at[x] \/ (at[x] = from /\ at'[x] = to)
    BY <1>2
  <2> QED BY Zenon, <2>1, ThreadStays
<1> QED BY Zenon, <1>1, <1>3, <1>4 DEF ThreadsOk

LEMMA ThreadActs ==
    ASSUME M!GraphAssumption, MarkingInv, HeapGoes, UNCHANGED <<color, referent>>,
           NEW t \in Thread, Acts(t)
    PROVE  ThreadsOk
<1>1. /\ at \in [Thread -> Places] /\ arg \in [Thread -> Obj \cup {None}]
      /\ held \in [Thread -> SUBSET Obj] /\ weak_global \in Obj \cup {None}
      /\ Access(t) /\ held[t] \subseteq Marked /\ Marked' = Marked
  BY Zenon DEF MarkingInv, MarkingTypes, Marked, M!IsMarked
<1>2. \A l \in {"safe", "native", "mark", "slow", "slow_wait", "global", "global_wait", "lock",
                "before_sleep", "sleep"} : l \in Places
  BY DEF Places
\* The steps by which it only changes its place.
<1>3. ASSUME NEW l \in {"safe", "native", "global", "global_wait", "lock", "before_sleep", "sleep"},
             M!Goto(t, l), held' = held
      PROVE  ThreadsOk
  BY Zenon, <1>1, <1>2, <1>3, ThreadGoes DEF M!Goto
<1>4. CASE M!Lock(t) \/ M!LockContended(t) \/ M!FutexWait(t) \/ M!DecodeWeakGlobal(t)
           \/ M!GoNative(t) \/ M!ReturnFromNative(t)
  BY Zenon, <1>3, <1>4 DEF M!Lock, M!LockContended, M!FutexWait, M!DecodeWeakGlobal, M!GoNative,
     M!ReturnFromNative
<1>5. CASE M!RunEmptyCheckpoint(t) \/ M!RevokeThreadLocalMarkStack(t)
  <2>1. at' = at /\ arg' = arg /\ held' = held
    BY Zenon, <1>5 DEF M!RunEmptyCheckpoint, M!RevokeThreadLocalMarkStack, M!mutators
  <2> QED BY Zenon, <1>1, <2>1, ThreadStays DEF ThreadsOk
<1>6. CASE M!WaitForAccess(t)
  <2>1. CASE at[t] = "slow"
    BY Zenon, <1>1, <1>2, <1>6, <2>1, ThreadGoes DEF M!WaitForAccess, M!Goto, Access
  <2>2. CASE at[t] # "slow"
    BY Zenon, <1>3, <1>6, <2>2 DEF M!WaitForAccess
  <2> QED BY <2>1, <2>2
<1>7. CASE M!Unlock(t)
  <2>1. /\ \A x \in Thread : at'[x] = at[x] \/ at'[x] \in {"safe", "before_sleep", "lock"}
        /\ arg' = arg /\ held' = held
    BY Zenon, <1>7 DEF M!Unlock, M!AfterWait
  <2>2. at' \in [Thread -> Places]
    <3>1. PICK woken \in SUBSET {u \in Thread : at[u] = "sleep"} :
             at' = [u \in Thread |-> IF u = t THEN "safe"
                                     ELSE IF u \in woken THEN M!AfterWait ELSE at[u]]
      BY Zenon, <1>7 DEF M!Unlock
    <3>2. M!AfterWait \in Places /\ "safe" \in Places
      BY <1>2 DEF M!AfterWait
    <3> QED BY Zenon, <1>1, <3>1, <3>2
  <2> QED BY Zenon, <1>1, <2>1, <2>2, ThreadStays DEF ThreadsOk
<1>8. CASE M!PushOntoMarkStack(t)
  BY Zenon, <1>1, <1>8, ThreadGot DEF M!PushOntoMarkStack, Access
<1>9. CASE M!SlowPathDone(t)
  BY Zenon, <1>1, <1>9, ReferentLoaded DEF M!SlowPathDone, Access
<1>10. CASE M!SlowPathPredict(t)
  <2>1. \E o \in Marked \cup {None} : M!Got(t, o)
    BY Zenon, <1>10 DEF M!SlowPathPredict, Marked
  <2> QED BY Zenon, <1>1, <2>1, ThreadGot
<1>11. CASE M!DecodeWeakGlobalLocked(t)
  <2>1. CASE weak_global # None
    BY Zenon, <1>1, <1>2, <1>11, <2>1, ThreadGoes DEF M!DecodeWeakGlobalLocked
  <2>2. CASE weak_global = None
    BY Zenon, <1>11, <2>2, ThreadGot DEF M!DecodeWeakGlobalLocked
  <2> QED BY <2>1, <2>2
<1>12. CASE M!GetReferent(t)
  <2>1. PICK w \in held[t] \cap WeakRef :
           \/ M!LoadReferent(t, w) \/ M!Got(t, None)
           \/ M!GotoArg(t, "slow", w) /\ held' = held
    BY Zenon, <1>12 DEF M!GetReferent
  <2>2. w \in Obj \cup {None}
    BY Zenon, <1>1
  <2> QED BY Zenon, <1>2, <2>1, <2>2, ReferentLoaded, ThreadGot, ThreadGoes
<1>13. CASE M!LoadField(t)
  <2>1. PICK o \in held[t] : \E p \in Fields[o] :
           IF color[o] = "gray" THEN M!GotoArg(t, "mark", p) /\ held' = held ELSE M!Got(t, p)
    BY Zenon, <1>13 DEF M!LoadField
  <2>2. /\ o \in Obj /\ color[o] \in {"gray", "black"} /\ Fields[o] \subseteq Obj
    BY <1>1 DEF MarkingInv, MarkingTypes, M!GraphAssumption, Marked, M!IsMarked
  <2>3. PICK p \in Fields[o] :
           IF color[o] = "gray" THEN M!GotoArg(t, "mark", p) /\ held' = held ELSE M!Got(t, p)
    BY Zenon, <2>1
  <2>4. CASE color[o] = "gray"
    BY Zenon, <1>2, <2>2, <2>3, <2>4, ThreadGoes
  <2>5. CASE color[o] = "black"
    <3>1. p \in Marked'
      BY <1>1, <2>2, <2>5 DEF MarkingInv, BlackScanned
    <3> QED BY Zenon, <2>3, <2>5, <3>1, ThreadGot
  <2> QED BY <2>2, <2>4, <2>5
<1> QED BY Zenon, <1>4, <1>5, <1>6, <1>7, <1>8, <1>9, <1>10, <1>11, <1>12, <1>13 DEF Acts

LEMMA ThreadsRest ==
    ASSUME MarkingInv, HeapGoes, Rests
    PROVE  ThreadsOk
<1>1. /\ at \in [Thread -> Places] /\ arg \in [Thread -> Obj \cup {None}]
      /\ held \in [Thread -> SUBSET Obj] /\ arg' = arg /\ held' = held
  BY Zenon, RestsKeeps DEF MarkingInv, MarkingTypes
<1>2. ASSUME at' = at PROVE ThreadsOk
  BY Zenon, <1>1, <1>2, ThreadStays DEF ThreadsOk
<1>3. "slow" \in Places /\ "global" \in Places /\ M!AfterWait \in {"lock", "before_sleep"}
      /\ M!AfterWait \in Places
  BY DEF Places, M!AfterWait
<1>4. CASE M!BroadcastForSlowPath \/ M!InitMarkingDone
  BY Zenon, <1>1, <1>3, <1>4, ThreadsWoken DEF M!BroadcastForSlowPath, M!InitMarkingDone
<1>5. CASE M!BroadcastForNewSystemWeaks
  BY Zenon, <1>1, <1>3, <1>5, ThreadsWoken DEF M!BroadcastForNewSystemWeaks
<1>6. CASE M!WakeupToRespondToEmptyCheckpoint
  BY Zenon, <1>1, <1>3, <1>6, ThreadsWoken DEF M!WakeupToRespondToEmptyCheckpoint
<1> USE DEF M!mutators
<1>7. CASE M!Once \/ M!Revoked \/ M!PopRevoked \/ M!Pop \/ M!OnceEnds
  BY Zenon, <1>2, <1>7 DEF M!Once, M!Revoked, M!PopRevoked, M!Pop, M!OnceEnds
<1>8. CASE M!AskEmptyCheckpoint \/ M!BarrierPassed \/ M!BarrierTimedOut \/ M!Setup
           \/ M!SwitchToSharedMarkStackMode \/ M!DisableWeakRefAccess
  BY Zenon, <1>2, <1>8 DEF M!AskEmptyCheckpoint, M!BarrierPassed, M!BarrierTimedOut, M!Setup,
     M!SwitchToSharedMarkStackMode, M!DisableWeakRefAccess
<1>9. CASE M!SwitchToGcExclusiveMarkStackMode \/ M!InitClearingDone \/ M!FinalizersEnqueued
           \/ M!SweepSystemWeaks \/ M!ReenableWeakRefAccess
  BY Zenon, <1>2, <1>9 DEF M!SwitchToGcExclusiveMarkStackMode, M!InitClearingDone,
     M!FinalizersEnqueued, M!SweepSystemWeaks, M!ReenableWeakRefAccess
<1> QED BY Zenon, <1>4, <1>5, <1>6, <1>7, <1>8, <1>9 DEF Rests

LEMMA ThreadsStep == M!GraphAssumption /\ MarkingInv /\ M!Next => ThreadsOk
<1> SUFFICES ASSUME M!GraphAssumption, MarkingInv, M!Next PROVE ThreadsOk
  OBVIOUS
<1>1. HeapGoes
  BY Zenon, HeapStep
<1>2. CASE Rests
  BY Zenon, <1>1, <1>2, ThreadsRest
<1>3. ASSUME NEW t \in Thread, Acts(t) PROVE ThreadsOk
  BY Zenon, <1>1, <1>3, ActsKeeps, ThreadActs
<1>4. CASE M!ScanField \/ M!ScanReferent \/ M!Blacken
           \/ M!ClearWhiteReference \/ M!EnqueueFinalizerReference
  <2>1. at' = at /\ arg' = arg /\ held' = held
    BY Zenon, <1>4 DEF M!ScanField, M!ScanReferent, M!Blacken, M!ClearWhiteReference,
       M!EnqueueFinalizerReference, M!mutators
  <2> QED BY Zenon, <1>1, <2>1, ThreadStays DEF ThreadsOk, MarkingInv, MarkingTypes
<1>5. ASSUME NEW t \in Thread, M!ReadBarrierMark(t) PROVE ThreadsOk
  <2>1. at[t] = "mark" /\ arg[t] \in Obj
    BY Zenon, <1>5 DEF M!ReadBarrierMark, MarkingInv, Access
  <2>2. CASE M!IsMarked(arg[t])
    <3>1. arg[t] \in Marked'
      BY Zenon, <1>1, <2>1, <2>2 DEF HeapGoes, Marked
    <3> QED BY Zenon, <1>1, <1>5, <2>2, <3>1, ThreadGot DEF M!ReadBarrierMark
  <2>3. CASE ~M!IsMarked(arg[t])
    <3>1. color' = [color EXCEPT ![arg[t]] = "gray"] /\ M!Goto(t, "push") /\ held' = held
      BY Zenon, <1>5, <2>3 DEF M!ReadBarrierMark
    <3>2. arg[t] \in Marked' /\ "push" \in Places
      BY <2>1, <3>1 DEF MarkingInv, MarkingTypes, Marked, M!IsMarked, Places
    <3> QED BY Zenon, <1>1, <2>1, <3>1, <3>2, ThreadGoes DEF M!Goto
  <2> QED BY <2>2, <2>3
<1> QED BY Zenon, <1>2, <1>3, <1>4, <1>5, MarkingSteps

LEMMA MarkingNext == M!GraphAssumption /\ MarkingInv /\ M!Next => MarkingInv'
<1> SUFFICES ASSUME M!GraphAssumption, MarkingInv, M!Next PROVE MarkingInv'
  OBVIOUS
<1>1. /\ weak_global' \in {weak_global, None}
      /\ mark_stack_mode' \in {"local", "shared", "exclusive"}
  <2>1. CASE M!ScanField \/ M!ScanReferent \/ M!Blacken \/ M!ClearWhiteReference
             \/ M!EnqueueFinalizerReference \/ \E t \in Thread : M!ReadBarrierMark(t)
    BY Zenon, <2>1 DEF M!ScanField, M!ScanReferent, M!Blacken, M!ClearWhiteReference,
       M!EnqueueFinalizerReference, M!ReadBarrierMark, M!heap, M!stacks, MarkingInv, MarkingTypes
  <2> QED BY Zenon, <2>1, MarkingSteps, RestsKeeps, ActsKeeps DEF MarkingInv, MarkingTypes
<1>2. MarkingTypes'
  BY Zenon, <1>1, HeapStep, ThreadsStep DEF MarkingInv, MarkingTypes, HeapGoes, ThreadsOk
<1> QED BY Zenon, <1>2, HeapStep, DelayedStep, ThreadsStep DEF MarkingInv, ThreadsOk

LEMMA MarkingInit == M!GraphAssumption /\ M!Init => MarkingInv
<1> SUFFICES ASSUME M!GraphAssumption, M!Init PROVE MarkingInv
  OBVIOUS
<1>1. /\ color = [o \in Obj |-> IF o \in Roots THEN "gray" ELSE "white"] /\ referent = Referent
      /\ weak_global = WeakGlobal /\ mark_stack_mode = "local" /\ gc = "once"
      /\ weak_queue = {} /\ finalizer_queue = {} /\ at = [t \in Thread |-> "safe"]
      /\ arg = [t \in Thread |-> None] /\ held = [t \in Thread |-> Known]
  BY Zenon DEF M!Init
<1>2. MarkingTypes
  BY <1>1 DEF MarkingTypes, Places, M!GraphAssumption, M!Reference
<1>3. BlackScanned /\ Delayed
  BY <1>1 DEF BlackScanned, Delayed
<1>4. \A t \in Thread : Access(t) /\ held[t] \subseteq Marked
  BY <1>1 DEF Access, Marked, M!IsMarked, M!GraphAssumption
<1> QED BY <1>2, <1>3, <1>4 DEF MarkingInv

LEMMA MarkingStutters == MarkingInv /\ UNCHANGED M!vars => MarkingInv'
  BY Zenon DEF MarkingInv, MarkingTypes, BlackScanned, Delayed, Access, Marked, M!IsMarked,
     M!vars, M!heap, M!stacks, M!refs, M!gcvars, M!mutators

\* AssertToSpaceInvariant, over every heap and any number of threads: whatever way a thread
\* got a reference, by a field, a weak reference or a weak global, while the collector marks,
\* clears and sweeps, the object is marked.  A black object refers to marked objects only, and
\* the referent of a gray Reference goes through the read barrier.
THEOREM ToSpaceHolds == M!GraphAssumption => (M!Spec => []M!ToSpaceInvariant)
<1> SUFFICES ASSUME M!GraphAssumption PROVE M!Spec => []M!ToSpaceInvariant
  OBVIOUS
<1>1. M!Init => MarkingInv
  BY Zenon, MarkingInit
<1>2. MarkingInv /\ [M!Next]_M!vars => MarkingInv'
  BY Zenon, MarkingNext, MarkingStutters
<1>3. MarkingInv => M!ToSpaceInvariant
  BY Zenon DEF MarkingInv, M!ToSpaceInvariant, Marked
<1> QED BY <1>1, <1>2, <1>3, PTL DEF M!Spec

------------------------------------------------------------------------------
(* WeakReferences: marking converges, and what it has not reached by then stays hidden *)

\* Scanned, as far as o is concerned: only white referents are left, and they are delayed.
Traced(o) ==
    /\ Fields[o] \subseteq Marked
    /\ o \in WeakRef => o \in weak_queue \/ referent[o] \in Marked \cup {None}

\* On some mark stack, on its way there, or taken from there.
Pending(o) ==
    \/ o \in gc_mark_stack \cup revoked \cup {scanning}
    \/ \E t \in Thread : o \in tl_mark_stack[t] \/ (at[t] = "push" /\ arg[t] = o)

\* Only what is marked is pushed, and what is marked and not pending has been scanned.
TriColour ==
    /\ tl_mark_stack \in [Thread -> SUBSET Marked]
    /\ gc_mark_stack \cup revoked \cup weak_queue \cup finalizer_queue \subseteq Marked
    /\ weak_queue \subseteq WeakRef /\ finalizer_queue \subseteq {r \in FinalizerRef : referent[r] # None}
    /\ \A o \in Marked : Pending(o) \/ Traced(o)
    /\ scanning \in IF gc \in {"scan", "blacken"} THEN Marked ELSE {None}
    /\ gc = "blacken" => Traced(scanning)

Scanning == {"pop", "scan", "blacken"}
Checkpointing == {"ask", "new_weaks", "wakeup", "barrier"}
Reenabling == {"reenable", "unblock", "done"}

\* Weak reference access is disabled from the pause on.
Shared == mark_stack_mode # "local" /\ gc # "pause"

\* The collector has left the shared mode, or is about to.
Exclusive == gc = "exclusive" \/ mark_stack_mode = "exclusive"

Phases ==
    /\ mark_stack_mode = "local" =>
           /\ gc \in {"once", "revoking", "setup", "share"} \cup Scanning
           /\ rp_state \in {"starting", "cleared"} /\ (gc = "share" => rp_state = "starting")
    /\ mark_stack_mode = "shared" =>
           /\ gc \in {"pause", "once", "exclusive"} \cup Scanning \cup Checkpointing
           /\ rp_state = "starting"
    /\ mark_stack_mode = "exclusive" =>
           \/ gc = "marked" /\ rp_state = "starting"
           \/ gc = "clear" /\ rp_state \in {"marked", "cleared"}
           \/ gc \in {"finalize", "once"} \cup Scanning \cup Reenabling /\ rp_state = "cleared"
    /\ gc \in {"scan", "blacken"} => count
    /\ gc \in {"setup", "share", "pause", "exclusive"} => ~empty_prev
    /\ popping = "revoked" => gc \in Scanning /\ (Shared => mark_stack_mode = "shared" /\ ~empty_prev)
    /\ popping # "revoked" => popping = "stack" /\ (gc # "revoking" => revoked = {})
    /\ gc # "revoking" => revoke = {}
    /\ Shared /\ gc \notin Reenabling => \A t \in Thread : ~weak_access[t]
    /\ Shared => \A t \in Thread : tl_mark_stack[t] = {}

\* Threads asked to run the empty checkpoint, and the barrier that counts them.
Answers ==
    /\ barrier \in Int /\ expected \in Int /\ empty_flag \subseteq Thread
    /\ gc \in Checkpointing => barrier + expected = Cardinality(empty_flag)
    /\ gc \notin Checkpointing => empty_flag = {}
    /\ gc = "barrier" => expected = 0
    /\ gc = "ask" => unasked \subseteq Thread \ empty_flag

Unanswered(t) == gc = "once" \/ (gc = "ask" /\ t \in unasked) \/ t \in empty_flag

\* After an empty round, as long as the next one is empty too: if a thread still has to push,
\* then so has one that was to push when the round began.
SecondRound ==
    Shared /\ ~Exclusive =>
        /\ empty_prev /\ ~count /\ gc_mark_stack = {} =>
               \/ \A t \in Thread : at[t] # "push"
               \/ \E t \in Thread : at[t] = "push" /\ Unanswered(t)
        /\ \A t \in Thread : at[t] = "mark" => \E o \in Marked : arg[t] \in Fields[o]

\* Objects of which null has been returned or will be.
Lost == null_seen \cup {Referent[w] : w \in {v \in WeakRef : referent[v] = None}}

\* The threads are within marked objects, and those refer to nothing outside.
Closed(reached) ==
    /\ reached \subseteq Marked /\ (rp_state # "cleared" => Marked \subseteq reached)
    /\ \A t \in Thread :
           at[t] # "push" /\ held[t] \subseteq reached /\ (at[t] = "mark" => arg[t] \in reached)
    /\ \A o \in reached :
           /\ Fields[o] \subseteq reached
           /\ o \in WeakRef => \/ o \in weak_queue /\ rp_state # "cleared"
                               \/ referent[o] \in reached \cup {None}
    /\ gc \in Reenabling => weak_global \in reached \cup {None}
    /\ WeakGlobal = None => reached \cap Lost = {}

Converged ==
    /\ \A w \in WeakRef : referent[w] \in {Referent[w], None}
    /\ null_seen \subseteq Obj
    /\ WeakGlobal = None => weak_global = None /\ ~stale
    /\ ~Exclusive => null_seen = {} /\ \A w \in WeakRef : referent[w] = Referent[w]
    /\ Exclusive => \E reached \in SUBSET Obj : Closed(reached)
    /\ Exclusive /\ gc \notin {"finalize", "once"} \cup Scanning => gc_mark_stack = {}

ConvergenceInv == MarkingInv /\ TriColour /\ Phases /\ Answers /\ SecondRound /\ Converged

------------------------------------------------------------------------------
(* What a step gives a thread *)

\* A thread gets o, perhaps once it has marked it; nobody starts or ends a push.
Receives(o) ==
    \A x \in Thread :
        /\ at'[x] = "push" <=> at[x] = "push"
        /\ at[x] = "push" => arg'[x] = arg[x]
        /\ at'[x] = "mark" => (arg'[x] = o /\ o # None) \/ (at[x] = "mark" /\ arg'[x] = arg[x])
        /\ held'[x] \subseteq held[x] \cup ({o} \ {None})

\* Where t gets o.
Source(t, o) ==
    \/ o = None
    \/ \E h \in held[t] : o \in Fields[h]
    \/ at[t] = "mark" /\ o = arg[t] /\ o \in Marked
    \/ \E w \in held[t] \cap WeakRef : o = referent[w] /\ (weak_access[t] \/ rp_state = "cleared")
    \/ rp_state = "marked" /\ o \in Marked
    \/ weak_access[t] /\ o = weak_global

\* What GetReferent of w may answer.
Answer(t, w, o) ==
    \/ o = referent[w] /\ (weak_access[t] \/ rp_state = "cleared" \/ o = None)
    \/ rp_state = "marked" /\ o = IF referent[w] \in Marked THEN referent[w] ELSE None

Quiet(t) ==
    \/ M!Lock(t) \/ M!LockContended(t) \/ M!FutexWait(t) \/ M!Unlock(t) \/ M!WaitForAccess(t)
    \/ M!DecodeWeakGlobal(t) \/ M!GoNative(t) \/ M!ReturnFromNative(t)
    \/ M!RunEmptyCheckpoint(t) \/ M!RevokeThreadLocalMarkStack(t)

Gets(t) ==
    \/ M!LoadField(t) \/ M!GetReferent(t) \/ M!SlowPathDone(t) \/ M!SlowPathPredict(t)
    \/ M!DecodeWeakGlobalLocked(t)

\* The thread marks an object and will push it.
Marks(t) ==
    /\ at[t] = "mark" /\ ~M!IsMarked(arg[t])
    /\ color' = [color EXCEPT ![arg[t]] = "gray"]
    /\ at' = [at EXCEPT ![t] = "push"] /\ arg' = arg /\ held' = held

LEMMA ReceivesNothing ==
    ASSUME held' = held, arg' = arg,
           \A x \in Thread : at'[x] = at[x] \/ (at[x] \notin {"mark", "push"}
                                                /\ at'[x] \notin {"mark", "push"})
    PROVE  Receives(None)
  BY Zenon DEF Receives

LEMMA ReceivesOne ==
    ASSUME MarkingTypes, NEW t \in Thread, NEW o, at[t] # "push",
           M!Got(t, o) \/ (M!GotoArg(t, "mark", o) /\ o # None /\ held' = held)
    PROVE  Receives(o)
<1>1. /\ at \in [Thread -> Places] /\ arg \in [Thread -> Obj \cup {None}]
      /\ held \in [Thread -> SUBSET Obj] /\ M!Done(t) \in {"unlock", "safe"}
  BY DEF MarkingTypes, M!Done
<1>2. CASE M!Got(t, o)
  <2>1. /\ at' = [at EXCEPT ![t] = M!Done(t)] /\ arg' = [arg EXCEPT ![t] = None]
        /\ held' = [held EXCEPT ![t] = held[t] \cup ({o} \ {None})]
    BY Zenon, <1>2 DEF M!Got, M!GotoArg
  <2>2. ASSUME NEW x \in Thread, x # t
        PROVE  at'[x] = at[x] /\ arg'[x] = arg[x] /\ held'[x] = held[x]
    BY Zenon, <1>1, <2>1, <2>2
  <2>3. at'[t] = M!Done(t) /\ held'[t] = held[t] \cup ({o} \ {None})
    BY Zenon, <1>1, <2>1
  <2>4. M!Done(t) # "push" /\ M!Done(t) # "mark"
    BY <1>1
  <2> QED BY Zenon, <2>2, <2>3, <2>4 DEF Receives
<1>3. CASE M!GotoArg(t, "mark", o) /\ o # None /\ held' = held
  <2>1. at' = [at EXCEPT ![t] = "mark"] /\ arg' = [arg EXCEPT ![t] = o]
    BY Zenon, <1>3 DEF M!GotoArg
  <2>2. ASSUME NEW x \in Thread, x # t PROVE at'[x] = at[x] /\ arg'[x] = arg[x]
    BY Zenon, <1>1, <2>1, <2>2
  <2>3. at'[t] = "mark" /\ arg'[t] = o
    BY Zenon, <1>1, <2>1
  <2> QED BY Zenon, <1>3, <2>2, <2>3 DEF Receives
<1> QED BY <1>2, <1>3

LEMMA QuietReceives == ASSUME MarkingTypes, NEW t \in Thread, Quiet(t) PROVE Receives(None)
<1>1. at \in [Thread -> Places] /\ arg \in [Thread -> Obj \cup {None}]
  BY Zenon DEF MarkingTypes
<1>2. ASSUME NEW l, l \notin {"mark", "push"}, at[t] \notin {"mark", "push"}, M!Goto(t, l),
             held' = held
      PROVE  Receives(None)
  <2>1. at' = [at EXCEPT ![t] = l] /\ arg' = [arg EXCEPT ![t] = arg[t]]
    BY Zenon, <1>2 DEF M!Goto, M!GotoArg
  <2>2. arg' = arg
    BY <1>1, <2>1
  <2>3. \A x \in Thread : at'[x] = IF x = t THEN l ELSE at[x]
    BY <1>1, <2>1
  <2> QED BY Zenon, <1>2, <2>2, <2>3, ReceivesNothing
<1>3. CASE M!Lock(t) \/ M!LockContended(t)
  BY Zenon, <1>2, <1>3 DEF M!Lock, M!LockContended
<1>4. CASE M!FutexWait(t)
  BY Zenon, <1>2, <1>4 DEF M!FutexWait
<1>5. CASE M!WaitForAccess(t)
  BY Zenon, <1>2, <1>5 DEF M!WaitForAccess, M!Blocked
<1>6. CASE M!DecodeWeakGlobal(t) \/ M!GoNative(t) \/ M!ReturnFromNative(t)
  BY Zenon, <1>2, <1>6 DEF M!DecodeWeakGlobal, M!GoNative, M!ReturnFromNative
<1>7. CASE M!RunEmptyCheckpoint(t) \/ M!RevokeThreadLocalMarkStack(t)
  BY Zenon, <1>7, ReceivesNothing DEF M!RunEmptyCheckpoint, M!RevokeThreadLocalMarkStack, M!mutators
<1>8. CASE M!Unlock(t)
  <2>1. PICK woken \in SUBSET {u \in Thread : at[u] = "sleep"} :
           at' = [u \in Thread |-> IF u = t THEN "safe"
                                   ELSE IF u \in woken THEN M!AfterWait ELSE at[u]]
    BY Zenon, <1>8 DEF M!Unlock
  <2>2. held' = held /\ arg' = arg /\ at[t] = "unlock"
    BY Zenon, <1>8 DEF M!Unlock
  <2>3. M!AfterWait \notin {"mark", "push"}
    BY DEF M!AfterWait
  <2>4. \A x \in Thread : at'[x] = at[x] \/ (x = t /\ at'[x] = "safe")
                          \/ (at[x] = "sleep" /\ at'[x] = M!AfterWait)
    BY Zenon, <2>1
  <2> QED BY Zenon, <2>2, <2>3, <2>4, ReceivesNothing
<1> QED BY Zenon, <1>3, <1>4, <1>5, <1>6, <1>7, <1>8 DEF Quiet

LEMMA CollectorReceives == ASSUME M!Collector PROVE Receives(None)
<1>1. ASSUME UNCHANGED M!mutators PROVE Receives(None)
  BY Zenon, <1>1, ReceivesNothing DEF M!mutators
<1>2. ASSUME NEW from, NEW to, {from, to} \cap {"mark", "push"} = {}, M!Broadcast(from, to),
             UNCHANGED <<arg, held>>
      PROVE  Receives(None)
  <2>1. \A x \in Thread : at'[x] = IF at[x] = from THEN to ELSE at[x]
    BY Zenon, <1>2 DEF M!Broadcast
  <2> QED BY Zenon, <1>2, <2>1, ReceivesNothing
<1>3. {M!AfterWait, "sleep"} \cap {"mark", "push"} = {}
  BY DEF M!AfterWait
<1>4. CASE M!BroadcastForSlowPath \/ M!InitMarkingDone
  BY Zenon, <1>2, <1>4 DEF M!BroadcastForSlowPath, M!InitMarkingDone
<1>5. CASE M!BroadcastForNewSystemWeaks
  BY Zenon, <1>2, <1>5 DEF M!BroadcastForNewSystemWeaks
<1>6. CASE M!WakeupToRespondToEmptyCheckpoint
  BY Zenon, <1>2, <1>3, <1>6 DEF M!WakeupToRespondToEmptyCheckpoint
<1>7. CASE M!Once \/ M!Revoked \/ M!PopRevoked \/ M!Pop \/ M!OnceEnds
           \/ M!ScanField \/ M!ScanReferent \/ M!Blacken
  BY Zenon, <1>1, <1>7 DEF M!Once, M!Revoked, M!PopRevoked, M!Pop, M!OnceEnds, M!ScanField,
     M!ScanReferent, M!Blacken
<1>8. CASE M!AskEmptyCheckpoint \/ M!BarrierPassed \/ M!BarrierTimedOut \/ M!Setup
           \/ M!SwitchToSharedMarkStackMode \/ M!DisableWeakRefAccess
  BY Zenon, <1>1, <1>8 DEF M!AskEmptyCheckpoint, M!BarrierPassed, M!BarrierTimedOut, M!Setup,
     M!SwitchToSharedMarkStackMode, M!DisableWeakRefAccess
<1>9. CASE M!SwitchToGcExclusiveMarkStackMode \/ M!InitClearingDone \/ M!FinalizersEnqueued
           \/ M!SweepSystemWeaks \/ M!ReenableWeakRefAccess \/ M!ClearWhiteReference
           \/ M!EnqueueFinalizerReference
  BY Zenon, <1>1, <1>9 DEF M!SwitchToGcExclusiveMarkStackMode, M!InitClearingDone,
     M!FinalizersEnqueued, M!SweepSystemWeaks, M!ReenableWeakRefAccess, M!ClearWhiteReference,
     M!EnqueueFinalizerReference
<1> QED BY Zenon, <1>4, <1>5, <1>6, <1>7, <1>8, <1>9 DEF M!Collector


LEMMA GetsReceives ==
    ASSUME MarkingInv, M!GraphAssumption, NEW t \in Thread, Gets(t)
    PROVE  \E o : Receives(o) /\ Source(t, o)
<1> DEFINE Loads(o) == M!Got(t, o) \/ (M!GotoArg(t, "mark", o) /\ o # None /\ held' = held)
           Goal == \E o : Receives(o) /\ Source(t, o)
<1> SUFFICES Goal
  OBVIOUS
<1>1. ASSUME NEW o, Source(t, o), at[t] # "push", Loads(o) PROVE Goal
  BY Zenon, <1>1, ReceivesOne DEF MarkingInv
<1>2. Source(t, None)
  BY Zenon DEF Source
<1>3. ASSUME NEW w \in held[t] \cap WeakRef, M!LoadReferent(t, w), at[t] # "push",
             weak_access[t] \/ rp_state = "cleared"
      PROVE  Goal
  <2>1. Source(t, referent[w])
    BY Zenon, <1>3 DEF Source
  <2>2. Loads(referent[w])
    BY Zenon, <1>3 DEF M!LoadReferent
  <2> QED BY Zenon, <1>1, <1>3, <2>1, <2>2
<1>4. CASE M!LoadField(t)
  <2>1. PICK h \in held[t] : \E p \in Fields[h] :
           IF color[h] = "gray" THEN M!GotoArg(t, "mark", p) /\ held' = held ELSE M!Got(t, p)
    BY Zenon, <1>4 DEF M!LoadField
  <2>2. PICK p \in Fields[h] : M!Got(t, p) \/ (M!GotoArg(t, "mark", p) /\ held' = held)
    BY Zenon, <2>1
  <2>3. p # None /\ Source(t, p)
    BY Zenon DEF Source, M!GraphAssumption, MarkingInv, MarkingTypes
  <2> QED BY Zenon, <1>1, <1>4, <2>2, <2>3 DEF M!LoadField
<1>5. CASE M!GetReferent(t)
  <2>1. PICK w \in held[t] \cap WeakRef :
           \/ weak_access[t] /\ M!LoadReferent(t, w)
           \/ M!Got(t, None)
           \/ M!GotoArg(t, "slow", w) /\ held' = held
    BY Zenon, <1>5 DEF M!GetReferent
  <2>2. at[t] = "safe"
    BY Zenon, <1>5 DEF M!GetReferent
  <2>3. CASE M!GotoArg(t, "slow", w) /\ held' = held
    <3>1. at' = [at EXCEPT ![t] = "slow"] /\ arg' = [arg EXCEPT ![t] = w]
      BY Zenon, <2>3 DEF M!GotoArg
    <3>2. /\ at'[t] = "slow"
          /\ \A x \in Thread \ {t} : at'[x] = at[x] /\ arg'[x] = arg[x]
      BY <3>1 DEF MarkingInv, MarkingTypes
    <3>3. Receives(None)
      BY Zenon, <2>2, <2>3, <3>2 DEF Receives
    <3> QED BY Zenon, <1>2, <3>3
  <2> QED BY Zenon, <1>1, <1>2, <1>3, <2>1, <2>2, <2>3
<1>6. CASE M!SlowPathDone(t)
  <2>1. arg[t] \in held[t] \cap WeakRef
    BY Zenon, <1>6 DEF M!SlowPathDone, MarkingInv, Access
  <2> QED BY Zenon, <1>3, <1>6, <2>1 DEF M!SlowPathDone
<1>7. CASE M!SlowPathPredict(t)
  <2>1. \E o \in Marked \cup {None} : M!Got(t, o)
    BY Zenon, <1>7 DEF M!SlowPathPredict, Marked
  <2>2. PICK o \in Marked \cup {None} : M!Got(t, o)
    BY Zenon, <2>1
  <2>3. Source(t, o)
    BY Zenon, <1>7 DEF M!SlowPathPredict, Source
  <2> QED BY Zenon, <1>1, <1>7, <2>2, <2>3 DEF M!SlowPathPredict
<1>8. CASE M!DecodeWeakGlobalLocked(t)
  <2>1. Source(t, weak_global)
    BY Zenon, <1>8 DEF M!DecodeWeakGlobalLocked, Source
  <2>2. Loads(weak_global)
    BY Zenon, <1>8 DEF M!DecodeWeakGlobalLocked
  <2> QED BY Zenon, <1>1, <1>8, <2>1, <2>2 DEF M!DecodeWeakGlobalLocked
<1> HIDE DEF Goal
<1> QED BY Zenon, <1>4, <1>5, <1>6, <1>7, <1>8 DEF Gets

\* The steps of the threads and the collector, by what they give a thread.
LEMMA StepReceives ==
    ASSUME MarkingInv, M!GraphAssumption, M!Next
    PROVE  \/ M!Collector /\ Receives(None)
           \/ \E t \in Thread : Quiet(t) /\ Receives(None)
           \/ \E t \in Thread : Gets(t) /\ \E o : Receives(o) /\ Source(t, o)
           \/ \E t \in Thread :
                  M!ReadBarrierMark(t) /\ UNCHANGED color /\ \E o : Receives(o) /\ Source(t, o)
           \/ \E t \in Thread : M!ReadBarrierMark(t) /\ Marks(t)
           \/ \E t \in Thread : M!PushOntoMarkStack(t)
<1> DEFINE Goal ==
           \/ M!Collector /\ Receives(None)
           \/ \E t \in Thread : Quiet(t) /\ Receives(None)
           \/ \E t \in Thread : Gets(t) /\ \E o : Receives(o) /\ Source(t, o)
           \/ \E t \in Thread :
                  M!ReadBarrierMark(t) /\ UNCHANGED color /\ \E o : Receives(o) /\ Source(t, o)
           \/ \E t \in Thread : M!ReadBarrierMark(t) /\ Marks(t)
           \/ \E t \in Thread : M!PushOntoMarkStack(t)
<1> SUFFICES Goal
  OBVIOUS
<1>1. CASE M!Collector
  BY Zenon, <1>1, CollectorReceives
<1>2. ASSUME NEW t \in Thread, Quiet(t) PROVE Goal
  BY Zenon, <1>2, QuietReceives DEF MarkingInv
<1>3. ASSUME NEW t \in Thread, Gets(t) PROVE Goal
  BY Zenon, <1>3, GetsReceives
<1>4. ASSUME NEW t \in Thread, M!ReadBarrierMark(t) PROVE Goal
  <2>1. at[t] = "mark" /\ arg[t] \in Obj /\ arg \in [Thread -> Obj \cup {None}] /\ MarkingTypes
    BY Zenon, <1>4 DEF M!ReadBarrierMark, MarkingInv, MarkingTypes, Access
  <2>2. CASE M!IsMarked(arg[t])
    <3>1. M!Got(t, arg[t]) /\ color' = color
      BY Zenon, <1>4, <2>2 DEF M!ReadBarrierMark
    <3>2. Receives(arg[t]) /\ Source(t, arg[t])
      BY Zenon, <2>1, <2>2, <3>1, ReceivesOne DEF Source, Marked
    <3> QED BY Zenon, <1>4, <3>1, <3>2
  <2>3. CASE ~M!IsMarked(arg[t])
    <3>1. /\ color' = [color EXCEPT ![arg[t]] = "gray"] /\ held' = held
          /\ at' = [at EXCEPT ![t] = "push"] /\ arg' = [arg EXCEPT ![t] = arg[t]]
      BY Zenon, <1>4, <2>3 DEF M!ReadBarrierMark, M!Goto, M!GotoArg
    <3>2. arg' = arg
      BY <2>1, <3>1
    <3> QED BY Zenon, <1>4, <2>1, <2>3, <3>1, <3>2 DEF Marks
  <2> QED BY <2>2, <2>3
<1> HIDE DEF Goal
<1>5. ASSUME NEW t \in Thread, M!PushOntoMarkStack(t) PROVE Goal
  BY Zenon, <1>5 DEF Goal
<1> QED BY Zenon, <1>1, <1>2, <1>3, <1>4, <1>5 DEF M!Next, M!Proceed, M!Respond, M!Start, Quiet, Gets

------------------------------------------------------------------------------
(* Phases *)

LEMMA ThreadsKeep ==
    ASSUME NEW t \in Thread, Quiet(t) \/ Gets(t) \/ M!ReadBarrierMark(t) \/ M!PushOntoMarkStack(t)
    PROVE  /\ UNCHANGED <<gc, popping, scanning, empty_prev, count, mark_stack_mode, weak_access>>
           /\ UNCHANGED <<rp_state, weak_queue, finalizer_queue, unasked, expected, referent>>
           /\ UNCHANGED weak_global
<1> USE DEF M!heap, M!stacks, M!refs, M!gcvars, M!empty
<1>1. CASE Gets(t)
  BY Zenon, <1>1 DEF Gets, M!LoadField, M!GetReferent, M!SlowPathDone, M!SlowPathPredict,
     M!DecodeWeakGlobalLocked
<1>2. CASE M!ReadBarrierMark(t) \/ M!PushOntoMarkStack(t)
  BY Zenon, <1>2 DEF M!ReadBarrierMark, M!PushOntoMarkStack
<1>3. CASE Quiet(t)
  BY Zenon, <1>3 DEF Quiet, M!Lock, M!LockContended, M!FutexWait, M!Unlock, M!WaitForAccess,
     M!DecodeWeakGlobal, M!GoNative, M!ReturnFromNative, M!RunEmptyCheckpoint,
     M!RevokeThreadLocalMarkStack
<1> QED BY <1>1, <1>2, <1>3

\* Only PushOntoMarkStack and the revoking checkpoint change a mark stack.
LEMMA ThreadsKeepStacks ==
    ASSUME NEW t \in Thread, Quiet(t) \/ Gets(t) \/ M!ReadBarrierMark(t),
           ~M!RevokeThreadLocalMarkStack(t)
    PROVE  UNCHANGED <<tl_mark_stack, revoked, gc_mark_stack>>
<1> USE DEF M!stacks
<1>1. CASE Gets(t) \/ M!ReadBarrierMark(t)
  BY Zenon, <1>1 DEF Gets, M!LoadField, M!GetReferent, M!SlowPathDone, M!SlowPathPredict,
     M!DecodeWeakGlobalLocked, M!ReadBarrierMark
<1>2. CASE Quiet(t)
  BY Zenon, <1>2 DEF Quiet, M!Lock, M!LockContended, M!FutexWait, M!Unlock, M!WaitForAccess,
     M!DecodeWeakGlobal, M!GoNative, M!ReturnFromNative, M!RunEmptyCheckpoint
<1> QED BY <1>1, <1>2

LEMMA ThreadsKeepEmpty ==
    ASSUME NEW t \in Thread, Quiet(t) \/ Gets(t) \/ M!ReadBarrierMark(t) \/ M!PushOntoMarkStack(t),
           ~M!RunEmptyCheckpoint(t)
    PROVE  UNCHANGED <<empty_flag, barrier>>
<1> USE DEF M!empty
<1>1. CASE Gets(t) \/ M!ReadBarrierMark(t) \/ M!PushOntoMarkStack(t)
  BY Zenon, <1>1 DEF Gets, M!LoadField, M!GetReferent, M!SlowPathDone, M!SlowPathPredict,
     M!DecodeWeakGlobalLocked, M!ReadBarrierMark, M!PushOntoMarkStack
<1>2. CASE Quiet(t)
  BY Zenon, <1>2 DEF Quiet, M!Lock, M!LockContended, M!FutexWait, M!Unlock, M!WaitForAccess,
     M!DecodeWeakGlobal, M!GoNative, M!ReturnFromNative, M!RevokeThreadLocalMarkStack
<1> QED BY <1>1, <1>2

LEMMA PhasesThread ==
    ASSUME MarkingInv, TriColour, Phases, NEW t \in Thread,
           Quiet(t) \/ Gets(t) \/ M!ReadBarrierMark(t) \/ M!PushOntoMarkStack(t)
    PROVE  Phases'
<1>1. /\ UNCHANGED <<gc, popping, empty_prev, count, mark_stack_mode, weak_access, rp_state>>
      /\ tl_mark_stack \in [Thread -> SUBSET Marked]
  BY Zenon, ThreadsKeep DEF TriColour
<1>2. ASSUME gc # "revoking" => UNCHANGED <<revoke, revoked>>, Shared => UNCHANGED tl_mark_stack
      PROVE  Phases'
  BY Zenon, <1>1, <1>2 DEF Phases, Shared
<1>3. CASE M!PushOntoMarkStack(t)
  BY Zenon, <1>2, <1>3 DEF M!PushOntoMarkStack, M!stop, Shared
<1>4. CASE M!RevokeThreadLocalMarkStack(t)
  <2>1. gc = "revoking" /\ (Shared => tl_mark_stack[t] = {})
    BY Zenon, <1>4 DEF M!RevokeThreadLocalMarkStack, Phases
  <2>2. tl_mark_stack' = [tl_mark_stack EXCEPT ![t] = {}]
    BY Zenon, <1>4 DEF M!RevokeThreadLocalMarkStack
  <2>3. Shared => tl_mark_stack' = tl_mark_stack
    BY <1>1, <2>1, <2>2
  <2> QED BY Zenon, <1>2, <2>1, <2>3
<1>5. CASE ~M!RevokeThreadLocalMarkStack(t) /\ ~M!PushOntoMarkStack(t)
  <2>1. UNCHANGED <<tl_mark_stack, revoked>>
    BY Zenon, <1>5, ThreadsKeepStacks
  <2>2. CASE Gets(t) \/ M!ReadBarrierMark(t)
    BY Zenon, <1>2, <2>1, <2>2 DEF Gets, M!LoadField, M!GetReferent, M!SlowPathDone,
       M!SlowPathPredict, M!DecodeWeakGlobalLocked, M!ReadBarrierMark, M!stop
  <2>3. CASE Quiet(t)
    BY Zenon, <1>2, <1>5, <2>1, <2>3 DEF Quiet, M!Lock, M!LockContended, M!FutexWait, M!Unlock,
       M!WaitForAccess, M!DecodeWeakGlobal, M!GoNative, M!ReturnFromNative, M!RunEmptyCheckpoint,
       M!stop
  <2> QED BY Zenon, <1>5, <2>2, <2>3
<1> QED BY Zenon, <1>3, <1>4, <1>5

LEMMA PhasesCollector ==
    ASSUME MarkingInv, TriColour, Phases, M!Collector
    PROVE  Phases'
<1>0. mark_stack_mode \in {"local", "shared", "exclusive"}
  BY Zenon DEF MarkingInv, MarkingTypes
<1> USE DEF M!heap, M!stacks, M!refs, M!gcvars, M!stop, Phases, Shared, Scanning, Checkpointing, Reenabling
<1>1. CASE M!Once
  BY Zenon, <1>0, <1>1 DEF M!Once
<1>2. CASE M!Revoked
  BY Zenon, <1>0, <1>2 DEF M!Revoked
<1>3. CASE M!PopRevoked
  BY Zenon, <1>3 DEF M!PopRevoked
<1>4. CASE M!Pop
  BY Zenon, <1>4 DEF M!Pop
<1>5. CASE M!OnceEnds
  BY Zenon, <1>0, <1>5 DEF M!OnceEnds, M!AfterProcessMarkStack
<1>6. CASE M!ScanField
  BY Zenon, <1>6 DEF M!ScanField
<1>7. CASE M!ScanReferent
  BY Zenon, <1>7 DEF M!ScanReferent
<1>8. CASE M!Blacken
  BY Zenon, <1>8 DEF M!Blacken
<1>9. CASE M!AskEmptyCheckpoint
  BY Zenon, <1>9 DEF M!AskEmptyCheckpoint
<1>10. CASE M!BroadcastForSlowPath
  BY Zenon, <1>10 DEF M!BroadcastForSlowPath
<1>11. CASE M!BroadcastForNewSystemWeaks
  BY Zenon, <1>11 DEF M!BroadcastForNewSystemWeaks
<1>12. CASE M!WakeupToRespondToEmptyCheckpoint
  BY Zenon, <1>12 DEF M!WakeupToRespondToEmptyCheckpoint
<1>13. CASE M!BarrierPassed
  BY Zenon, <1>13 DEF M!BarrierPassed
<1>14. CASE M!BarrierTimedOut
  BY Zenon, <1>14 DEF M!BarrierTimedOut
<1>15. CASE M!Setup
  BY Zenon, <1>0, <1>15 DEF M!Setup
<1>16. CASE M!SwitchToSharedMarkStackMode
  BY Zenon, <1>0, <1>16 DEF M!SwitchToSharedMarkStackMode
<1>17. CASE M!DisableWeakRefAccess
  BY Zenon, <1>0, <1>17 DEF M!DisableWeakRefAccess
<1>18. CASE M!SwitchToGcExclusiveMarkStackMode
  BY Zenon, <1>0, <1>18 DEF M!SwitchToGcExclusiveMarkStackMode
<1>19. CASE M!InitMarkingDone
  BY Zenon, <1>0, <1>19 DEF M!InitMarkingDone
<1>20. CASE M!ClearWhiteReference
  BY Zenon, <1>20 DEF M!ClearWhiteReference
<1>21. CASE M!InitClearingDone
  BY Zenon, <1>0, <1>21 DEF M!InitClearingDone
<1>22. CASE M!EnqueueFinalizerReference
  BY Zenon, <1>22 DEF M!EnqueueFinalizerReference
<1>23. CASE M!FinalizersEnqueued
  BY Zenon, <1>0, <1>23 DEF M!FinalizersEnqueued
<1>24. CASE M!SweepSystemWeaks
  BY Zenon, <1>0, <1>24 DEF M!SweepSystemWeaks
<1>25. CASE M!ReenableWeakRefAccess
  BY Zenon, <1>0, <1>25 DEF M!ReenableWeakRefAccess
<1> QED BY Zenon, <1>1, <1>2, <1>3, <1>4, <1>5, <1>6, <1>7, <1>8, <1>9, <1>10, <1>11, <1>12, <1>13,
   <1>14, <1>15, <1>16, <1>17, <1>18, <1>19, <1>20, <1>21, <1>22, <1>23, <1>24, <1>25
   DEF M!Collector

------------------------------------------------------------------------------
(* The tri-colour invariant *)

LEMMA TracedStays ==
    ASSUME M!GraphAssumption, HeapGoes, NEW o, Traced(o),
           o \in weak_queue \ weak_queue' => referent'[o] \in Marked' \cup {None}
    PROVE  Traced(o)'
<1>1. Fields[o] \subseteq Marked'
  BY Zenon DEF Traced, HeapGoes
<1>2. ASSUME o \in WeakRef PROVE o \in weak_queue' \/ referent'[o] \in Marked' \cup {None}
  <2>1. referent'[o] \in {referent[o], None}
    BY Zenon, <1>2 DEF HeapGoes, M!Reference
  <2> QED BY Zenon, <1>2, <2>1 DEF Traced, HeapGoes
<1> QED BY Zenon, <1>1, <1>2 DEF Traced

LEMMA AllTraced ==
    ASSUME M!GraphAssumption, HeapGoes, TriColour,
           \A o \in Marked : Pending(o) => Pending(o)' \/ Traced(o)',
           \A o \in Marked' : o \in Marked \/ Pending(o)',
           \A w \in weak_queue \ weak_queue' : referent'[w] \in Marked' \cup {None}
    PROVE  \A o \in Marked' : Pending(o)' \/ Traced(o)'
<1> SUFFICES ASSUME NEW o \in Marked' PROVE Pending(o)' \/ Traced(o)'
  OBVIOUS
<1>1. CASE o \in Marked /\ Traced(o)
  BY Zenon, <1>1, TracedStays
<1> QED BY Zenon, <1>1 DEF TriColour

\* What is pending stays so as long as nobody ends a push.
LEMMA PendingStays ==
    ASSUME NEW p, Receives(p), gc_mark_stack \cup revoked \subseteq gc_mark_stack' \cup revoked' \cup {scanning'},
           scanning' = scanning \/ scanning = None,
           \A t \in Thread : tl_mark_stack[t] \subseteq tl_mark_stack'[t] \cup revoked',
           NEW o, Pending(o), o # None
    PROVE  Pending(o)'
<1>1. CASE o \in gc_mark_stack \cup revoked \cup {scanning}
  BY Zenon, <1>1 DEF Pending
<1>2. ASSUME NEW t \in Thread, o \in tl_mark_stack[t] PROVE Pending(o)'
  BY Zenon, <1>2 DEF Pending
<1>3. ASSUME NEW t \in Thread, at[t] = "push", arg[t] = o PROVE Pending(o)'
  BY Zenon, <1>3 DEF Pending, Receives
<1> QED BY Zenon, <1>1, <1>2, <1>3 DEF Pending

\* The steps that concern neither a stack nor a colour.
LEMMA TriColourSame ==
    ASSUME M!GraphAssumption, HeapGoes, TriColour, NEW p, Receives(p), UNCHANGED <<color, referent>>,
           UNCHANGED <<tl_mark_stack, gc_mark_stack, revoked, weak_queue, finalizer_queue, scanning>>,
           gc' = gc \/ {gc, gc'} \cap {"scan", "blacken"} = {}
    PROVE  TriColour'
<1>1. Marked' = Marked /\ \A o \in Marked : o # None
  BY Zenon DEF Marked, M!IsMarked, M!GraphAssumption
<1>2. \A o \in Marked' : Pending(o)' \/ Traced(o)'
  <2>1. \A o \in Marked : Pending(o) => Pending(o)'
    BY Zenon, <1>1, PendingStays
  <2> QED BY Zenon, <1>1, <2>1, AllTraced
<1>3. gc' = "blacken" => Traced(scanning)'
  BY Zenon, TracedStays DEF TriColour
<1> QED BY Zenon, <1>1, <1>2, <1>3 DEF TriColour

LEMMA TriColourThread ==
    ASSUME M!GraphAssumption, MarkingInv, HeapGoes, TriColour, NEW t \in Thread,
           \/ Quiet(t) /\ Receives(None)
           \/ Gets(t) /\ \E o : Receives(o)
           \/ M!ReadBarrierMark(t) /\ UNCHANGED color /\ \E o : Receives(o)
           \/ M!ReadBarrierMark(t) /\ Marks(t)
           \/ M!PushOntoMarkStack(t)
    PROVE  TriColour'
<1>1. UNCHANGED <<gc, scanning, weak_queue, finalizer_queue, referent>>
  BY Zenon, ThreadsKeep
<1>2. /\ tl_mark_stack \in [Thread -> SUBSET Marked] /\ Marked \subseteq Marked'
      /\ gc_mark_stack \cup revoked \cup weak_queue \cup finalizer_queue \subseteq Marked
      /\ weak_queue \subseteq WeakRef
      /\ finalizer_queue \subseteq {r \in FinalizerRef : referent[r] # None}
      /\ at \in [Thread -> Places] /\ arg \in [Thread -> Obj \cup {None}]
      /\ color \in [Obj -> {"white", "gray", "black"}]
      /\ \A o \in Marked : o # None
  BY Zenon DEF TriColour, HeapGoes, MarkingInv, MarkingTypes, Marked, M!GraphAssumption
<1>3. gc' = "blacken" => Traced(scanning)'
  BY Zenon, <1>1, TracedStays DEF TriColour
<1>4. scanning' \in IF gc' \in {"scan", "blacken"} THEN Marked' ELSE {None}
  BY Zenon, <1>1, <1>2 DEF TriColour
<1>5. CASE Quiet(t) /\ Receives(None) /\ ~M!RevokeThreadLocalMarkStack(t)
  <2>1. color' = color
    BY Zenon, <1>5, ActsKeeps DEF Quiet, Acts
  <2> QED BY Zenon, <1>1, <1>5, <2>1, ThreadsKeepStacks, TriColourSame
<1>6. CASE Gets(t) /\ \E o : Receives(o)
  <2>1. color' = color
    BY Zenon, <1>6, ActsKeeps DEF Gets, Acts
  <2>2. ~M!RevokeThreadLocalMarkStack(t) \/ UNCHANGED <<tl_mark_stack, revoked, gc_mark_stack>>
    BY Zenon, <1>6 DEF Gets, M!LoadField, M!GetReferent, M!SlowPathDone, M!SlowPathPredict,
       M!DecodeWeakGlobalLocked, M!stacks
  <2> QED BY Zenon, <1>1, <1>6, <2>1, <2>2, ThreadsKeepStacks, TriColourSame
<1>7. CASE M!ReadBarrierMark(t) /\ UNCHANGED color /\ \E o : Receives(o)
  BY Zenon, <1>1, <1>7, TriColourSame DEF M!ReadBarrierMark, M!stacks
<1>8. CASE M!ReadBarrierMark(t) /\ Marks(t)
  <2>1. UNCHANGED <<tl_mark_stack, revoked, gc_mark_stack>>
    BY Zenon, <1>8 DEF M!ReadBarrierMark, M!stacks
  <2>2. /\ at'[t] = "push" /\ arg'[t] = arg[t]
        /\ \A x \in Thread : at[x] = "push" => at'[x] = "push" /\ arg'[x] = arg[x]
    BY Zenon, <1>2, <1>8 DEF Marks
  <2>3. \A o \in Marked : Pending(o) => Pending(o)'
    BY Zenon, <1>1, <2>1, <2>2 DEF Pending
  <2>4. \A o \in Marked' : o \in Marked \/ o = arg[t]
    BY Zenon, <1>2, <1>8 DEF Marks, Marked, M!IsMarked
  <2>5. ASSUME NEW o, o = arg[t] PROVE Pending(o)'
    BY Zenon, <2>2, <2>5 DEF Pending
  <2>6. \A o \in Marked' : Pending(o)' \/ Traced(o)'
    BY Zenon, <1>1, <2>3, <2>4, <2>5, AllTraced
  <2>7. tl_mark_stack' \in [Thread -> SUBSET Marked']
    BY <1>2, <2>1
  <2> QED BY Zenon, <1>1, <1>2, <1>3, <1>4, <2>1, <2>6, <2>7 DEF TriColour
<1>9. CASE M!PushOntoMarkStack(t)
  <2>1. /\ at[t] = "push" /\ revoked' = revoked /\ M!Got(t, arg[t])
        /\ \/ /\ tl_mark_stack' = [tl_mark_stack EXCEPT ![t] = tl_mark_stack[t] \cup {arg[t]}]
              /\ gc_mark_stack' = gc_mark_stack
           \/ gc_mark_stack' = gc_mark_stack \cup {arg[t]} /\ tl_mark_stack' = tl_mark_stack
    BY Zenon, <1>9 DEF M!PushOntoMarkStack
  <2>2. arg[t] \in Marked /\ Marked' = Marked
    BY Zenon, <1>9, <2>1 DEF MarkingInv, Access, M!PushOntoMarkStack, M!heap, Marked, M!IsMarked
  <2>3. tl_mark_stack' \in [Thread -> SUBSET Marked']
    BY <1>2, <2>1, <2>2
  <2>4. /\ \A x \in Thread : tl_mark_stack[x] \subseteq tl_mark_stack'[x]
        /\ gc_mark_stack \subseteq gc_mark_stack'
        /\ arg[t] \in tl_mark_stack'[t] \cup gc_mark_stack'
    BY <1>2, <2>1
  <2>5. \A x \in Thread : x # t => at'[x] = at[x] /\ arg'[x] = arg[x]
    BY Zenon, <1>2, <2>1 DEF M!Got, M!GotoArg
  <2>6. ASSUME NEW o, Pending(o) PROVE Pending(o)'
    <3>1. CASE o \in gc_mark_stack \cup revoked \cup {scanning}
      BY Zenon, <1>1, <2>1, <2>4, <3>1 DEF Pending
    <3>2. ASSUME NEW x \in Thread, o \in tl_mark_stack[x] PROVE Pending(o)'
      BY Zenon, <2>4, <3>2 DEF Pending
    <3>3. ASSUME NEW x \in Thread, at[x] = "push", arg[x] = o PROVE Pending(o)'
      <4>1. CASE x = t
        BY Zenon, <2>4, <3>3, <4>1 DEF Pending
      <4>2. CASE x # t
        BY Zenon, <2>5, <3>3, <4>2 DEF Pending
      <4> QED BY <4>1, <4>2
    <3> QED BY Zenon, <2>6, <3>1, <3>2, <3>3 DEF Pending
  <2>7. \A o \in Marked' : Pending(o)' \/ Traced(o)'
    BY Zenon, <1>1, <2>2, <2>6, AllTraced
  <2>8. gc_mark_stack' \subseteq Marked
    BY <1>2, <2>1, <2>2
  <2> QED BY Zenon, <1>1, <1>2, <1>3, <1>4, <2>1, <2>2, <2>3, <2>7, <2>8 DEF TriColour
<1>10. CASE M!RevokeThreadLocalMarkStack(t) /\ Receives(None)
  <2>1. /\ revoked' = revoked \cup tl_mark_stack[t] /\ UNCHANGED <<gc_mark_stack, color>>
        /\ tl_mark_stack' = [tl_mark_stack EXCEPT ![t] = {}]
    BY Zenon, <1>10 DEF M!RevokeThreadLocalMarkStack, M!heap
  <2>2. /\ Marked' = Marked /\ tl_mark_stack' \in [Thread -> SUBSET Marked]
        /\ revoked' \subseteq Marked
        /\ \A x \in Thread : tl_mark_stack[x] \subseteq tl_mark_stack'[x] \cup revoked'
    BY <1>2, <2>1 DEF Marked, M!IsMarked
  <2>3. \A o \in Marked : Pending(o) => Pending(o)'
    BY Zenon, <1>1, <1>2, <1>10, <2>1, <2>2, PendingStays
  <2>4. \A o \in Marked' : Pending(o)' \/ Traced(o)'
    BY Zenon, <1>1, <2>2, <2>3, AllTraced
  <2> QED BY Zenon, <1>1, <1>2, <1>3, <1>4, <2>1, <2>2, <2>4 DEF TriColour
<1> QED BY Zenon, <1>5, <1>6, <1>7, <1>8, <1>9, <1>10

LEMMA TriColourCollector ==
    ASSUME M!GraphAssumption, MarkingInv, HeapGoes, TriColour, Phases, M!Collector, Receives(None)
    PROVE  TriColour'
<1>1. /\ tl_mark_stack \in [Thread -> SUBSET Marked] /\ Marked \subseteq Marked'
      /\ gc_mark_stack \cup revoked \cup weak_queue \cup finalizer_queue \subseteq Marked
      /\ weak_queue \subseteq WeakRef
      /\ finalizer_queue \subseteq {r \in FinalizerRef : referent[r] # None}
      /\ color \in [Obj -> {"white", "gray", "black"}] /\ None \notin Marked
      /\ scanning \in IF gc \in {"scan", "blacken"} THEN Marked ELSE {None}
  BY Zenon DEF TriColour, HeapGoes, MarkingInv, MarkingTypes, Marked, M!GraphAssumption
<1>2. mark_stack_mode \in {"local", "shared", "exclusive"}
  BY Zenon DEF MarkingInv, MarkingTypes
<1>3. \A o \in Marked : o # None
  BY Zenon, <1>1
<1>4. tl_mark_stack \in [Thread -> SUBSET Marked']
  BY <1>1
\* An object is taken from a stack to be scanned.
<1>5. ASSUME gc = "pop", gc' = "scan",
             gc_mark_stack \cup revoked = gc_mark_stack' \cup revoked' \cup {scanning'},
             UNCHANGED <<color, referent, tl_mark_stack, weak_queue, finalizer_queue>>
      PROVE  TriColour'
  <2>1. scanning = None /\ Marked' = Marked /\ gc' # "blacken"
    BY Zenon, <1>1, <1>5 DEF Marked, M!IsMarked
  <2>2. \A o \in Marked : Pending(o) => Pending(o)'
    BY Zenon, <1>3, <1>5, <2>1, PendingStays
  <2>3. \A o \in Marked' : Pending(o)' \/ Traced(o)'
    BY Zenon, <1>5, <2>1, <2>2, AllTraced
  <2> QED BY Zenon, <1>1, <1>5, <2>1, <2>3 DEF TriColour
<1>6. CASE M!Pop
  <2>1. PICK o \in gc_mark_stack : gc_mark_stack' = gc_mark_stack \ {o} /\ scanning' = o
    BY Zenon, <1>6 DEF M!Pop
  <2>2. /\ gc = "pop" /\ gc' = "scan"
        /\ UNCHANGED <<color, referent, revoked, tl_mark_stack, weak_queue, finalizer_queue>>
    BY Zenon, <1>6 DEF M!Pop, M!heap, M!refs
  <2> QED BY <1>5, <2>1, <2>2
<1>7. CASE M!PopRevoked
  <2>1. CASE revoked = {}
    <3>1. /\ gc = "pop" /\ gc' \in {"pop", "once"}
          /\ UNCHANGED <<color, referent, tl_mark_stack, gc_mark_stack, revoked>>
          /\ UNCHANGED <<weak_queue, finalizer_queue, scanning>>
      BY Zenon, <1>7, <2>1 DEF M!PopRevoked, M!heap, M!refs
    <3> QED BY Zenon, <3>1, TriColourSame
  <2>2. CASE revoked # {}
    <3>1. PICK o \in revoked : revoked' = revoked \ {o} /\ scanning' = o /\ gc' = "scan"
      BY Zenon, <1>7, <2>2 DEF M!PopRevoked
    <3>2. /\ gc = "pop"
          /\ UNCHANGED <<color, referent, gc_mark_stack, tl_mark_stack, weak_queue, finalizer_queue>>
      BY Zenon, <1>7 DEF M!PopRevoked, M!heap, M!refs
    <3> QED BY <1>5, <3>1, <3>2
  <2> QED BY <2>1, <2>2
<1>8. CASE M!ScanField
  <2>1. PICK p \in Fields[scanning] :
           /\ color' = [color EXCEPT ![p] = "gray"] /\ gc_mark_stack' = gc_mark_stack \cup {p}
    BY Zenon, <1>8 DEF M!ScanField
  <2>2. /\ UNCHANGED <<gc, scanning, referent, tl_mark_stack, revoked, weak_queue, finalizer_queue>>
        /\ gc = "scan" /\ scanning \in Marked
    BY Zenon, <1>1, <1>8 DEF M!ScanField, M!refs, M!gcvars
  <2>3. p \in Obj
    BY Zenon, <2>2 DEF M!GraphAssumption, Marked
  <2>4. p \in Marked' /\ \A o \in Marked' : o \in Marked \/ o = p
    BY Zenon, <1>1, <2>1, <2>3 DEF Marked, M!IsMarked
  <2>5. \A o \in Marked : Pending(o) => Pending(o)'
    BY Zenon, <1>3, <2>1, <2>2, PendingStays
  <2>6. \A o \in Marked' : Pending(o)' \/ Traced(o)'
    <3>1. \A o \in Marked' : o \in Marked \/ Pending(o)'
      BY Zenon, <2>1, <2>4 DEF Pending
    <3> QED BY Zenon, <2>2, <2>5, <3>1, AllTraced
  <2>7. gc_mark_stack' \subseteq Marked'
    BY Zenon, <1>1, <2>1, <2>4
  <2> QED BY Zenon, <1>1, <1>4, <2>2, <2>6, <2>7 DEF TriColour
<1>9. CASE M!ScanReferent
  <2>1. /\ UNCHANGED <<color, referent, scanning, tl_mark_stack, revoked, gc_mark_stack>>
        /\ gc = "scan" /\ gc' = "blacken" /\ \A p \in Fields[scanning] : M!IsMarked(p)
        /\ weak_queue' = weak_queue \cup ({scanning} \cap WeakRef \cap
               {r \in M!Reference : referent[r] # None /\ color[referent[r]] = "white"})
        /\ finalizer_queue' = finalizer_queue \cup ({scanning} \cap FinalizerRef \cap
               {r \in M!Reference : referent[r] # None /\ color[referent[r]] = "white"})
    BY Zenon, <1>9 DEF M!ScanReferent, M!heap, M!stacks
  <2>2. scanning \in Marked /\ Marked' = Marked
    BY Zenon, <1>1, <2>1 DEF Marked, M!IsMarked
  <2>3. Traced(scanning)'
    <3>1. Fields[scanning] \subseteq Marked
      BY Zenon, <2>1, <2>2 DEF Marked, M!GraphAssumption
    <3>2. ASSUME scanning \in WeakRef
          PROVE  scanning \in weak_queue' \/ referent[scanning] \in Marked \cup {None}
      <4>1. scanning \in M!Reference /\ referent[scanning] \in Obj \cup {None}
        BY Zenon, <3>2 DEF M!Reference, MarkingInv, MarkingTypes
      <4> QED BY Zenon, <2>1, <3>2, <4>1 DEF Marked, M!IsMarked
    <3> QED BY Zenon, <2>1, <2>2, <3>1, <3>2 DEF Traced
  <2>4. \A o \in Marked : Pending(o) => Pending(o)'
    BY Zenon, <1>3, <2>1, PendingStays
  <2>5. weak_queue \subseteq weak_queue' /\ weak_queue' \cup finalizer_queue' \subseteq Marked
    BY Zenon, <1>1, <2>1, <2>2
  <2>6. \A o \in Marked' : Pending(o)' \/ Traced(o)'
    BY Zenon, <2>2, <2>4, <2>5, AllTraced
  <2>7. /\ weak_queue' \subseteq WeakRef
        /\ finalizer_queue' \subseteq {r \in FinalizerRef : referent[r] # None}
    BY Zenon, <1>1, <2>1
  <2> QED BY Zenon, <1>1, <2>1, <2>2, <2>3, <2>5, <2>6, <2>7 DEF TriColour
<1>10. CASE M!Blacken
  <2>1. /\ UNCHANGED <<tl_mark_stack, revoked, gc_mark_stack, weak_queue, finalizer_queue, referent>>
        /\ gc = "blacken" /\ gc' = "pop" /\ scanning' = None
    BY Zenon, <1>10 DEF M!Blacken, M!stacks, M!refs
  <2>2. color' = color \/ color' = [color EXCEPT ![scanning] = "black"]
    BY Zenon, <1>10 DEF M!Blacken
  <2>3. scanning \in Marked /\ Traced(scanning)
    BY Zenon, <1>1, <2>1 DEF TriColour
  <2>4. Marked' \subseteq Marked
    BY Zenon, <1>1, <2>2, <2>3 DEF Marked, M!IsMarked
  <2>5. ASSUME NEW o \in Marked, Pending(o) PROVE Pending(o)' \/ Traced(o)'
    <3>1. CASE o = scanning
      BY Zenon, <2>1, <2>3, <3>1, TracedStays
    <3>2. CASE o # scanning
      BY Zenon, <2>1, <2>5, <3>2 DEF Pending, Receives
    <3> QED BY <3>1, <3>2
  <2>6. \A o \in Marked' : Pending(o)' \/ Traced(o)'
    BY Zenon, <2>1, <2>4, <2>5, AllTraced
  <2> QED BY Zenon, <1>1, <1>4, <2>1, <2>6 DEF TriColour
<1>11. CASE M!DisableWeakRefAccess
  <2>1. /\ UNCHANGED <<color, referent, gc_mark_stack, weak_queue, finalizer_queue, scanning>>
        /\ gc = "pause" /\ gc' = "pop"
        /\ revoked' = UNION {tl_mark_stack[t] : t \in Thread}
        /\ tl_mark_stack' = [t \in Thread |-> {}]
    BY Zenon, <1>11 DEF M!DisableWeakRefAccess, M!heap
  <2>2. revoked = {} /\ Marked' = Marked
    BY Zenon, <2>1 DEF Phases, Scanning, Marked, M!IsMarked
  <2>3. /\ \A t \in Thread : tl_mark_stack[t] \subseteq revoked'
        /\ revoked' \subseteq Marked /\ tl_mark_stack' \in [Thread -> SUBSET Marked]
    BY <1>1, <2>1
  <2>4. \A o \in Marked : Pending(o) => Pending(o)'
    BY Zenon, <1>3, <2>1, <2>2, <2>3, PendingStays
  <2>5. \A o \in Marked' : Pending(o)' \/ Traced(o)'
    BY Zenon, <2>1, <2>2, <2>4, AllTraced
  <2> QED BY Zenon, <1>1, <2>1, <2>2, <2>3, <2>5 DEF TriColour
<1>12. CASE M!ClearWhiteReference
  <2>1. PICK w \in weak_queue :
           /\ weak_queue' = weak_queue \ {w}
           /\ referent' = [referent EXCEPT ![w] = IF M!IsMarked(referent[w]) THEN referent[w] ELSE None]
           /\ color' = [color EXCEPT ![w] = "black"]
    BY Zenon, <1>12 DEF M!ClearWhiteReference
  <2>2. /\ UNCHANGED <<tl_mark_stack, revoked, gc_mark_stack, finalizer_queue, gc, scanning>>
        /\ gc = "clear"
    BY Zenon, <1>12 DEF M!ClearWhiteReference, M!stacks, M!gcvars
  <2>3. w \in M!Reference /\ referent \in [M!Reference -> Obj \cup {None}]
    BY Zenon DEF MarkingInv, MarkingTypes, Delayed
  <2>4. Marked' \subseteq Marked
    BY Zenon, <1>1, <2>1 DEF Marked, M!IsMarked
  <2>5. referent'[w] \in Marked \cup {None}
    BY <2>1, <2>3 DEF Marked
  <2>6. \A o \in Marked : Pending(o) => Pending(o)'
    BY Zenon, <1>3, <2>2, PendingStays
  <2>7. \A o \in Marked' : Pending(o)' \/ Traced(o)'
    BY Zenon, <1>1, <2>1, <2>4, <2>5, <2>6, AllTraced
  <2>8. finalizer_queue \subseteq {r \in FinalizerRef : referent'[r] # None}
    <3>1. w \notin FinalizerRef
      BY Zenon, <1>1 DEF M!GraphAssumption
    <3> QED BY Zenon, <1>1, <2>1, <2>3, <3>1 DEF M!Reference
  <2> QED BY Zenon, <1>1, <1>4, <2>1, <2>2, <2>7, <2>8 DEF TriColour
<1>13. CASE M!EnqueueFinalizerReference
  <2>1. PICK f \in finalizer_queue :
           /\ finalizer_queue' = finalizer_queue \ {f}
           /\ \/ /\ color' = [color EXCEPT ![f] = "black"] /\ gc_mark_stack' = gc_mark_stack
                 /\ referent' = referent
              \/ /\ color' = [color EXCEPT ![f] = "black", ![referent[f]] = "gray"]
                 /\ gc_mark_stack' = gc_mark_stack \cup {referent[f]}
                 /\ referent' = [referent EXCEPT ![f] = None]
    BY Zenon, <1>13 DEF M!EnqueueFinalizerReference
  <2>2. UNCHANGED <<tl_mark_stack, revoked, weak_queue, gc, scanning>> /\ gc = "finalize"
    BY Zenon, <1>13 DEF M!EnqueueFinalizerReference, M!gcvars
  <2>3. /\ f \in M!Reference /\ referent \in [M!Reference -> Obj \cup {None}]
        /\ referent[f] \in Obj
    BY Zenon, <1>1 DEF MarkingInv, MarkingTypes, Delayed
  <2>4. \A o \in Marked' : o \in Marked \/ o \in gc_mark_stack'
    BY <1>1, <2>1 DEF Marked, M!IsMarked
  <2>5. gc_mark_stack \subseteq gc_mark_stack' /\ gc_mark_stack' \subseteq Marked'
    BY <1>1, <2>1, <2>3 DEF Marked, M!IsMarked
  <2>6. \A o \in Marked : Pending(o) => Pending(o)'
    BY Zenon, <1>3, <2>2, <2>5, PendingStays
  <2>7. \A o \in Marked' : Pending(o)' \/ Traced(o)'
    <3>1. \A o \in Marked' : o \in Marked \/ Pending(o)'
      BY Zenon, <2>4 DEF Pending
    <3> QED BY Zenon, <2>2, <2>6, <3>1, AllTraced
  <2>8. finalizer_queue' \subseteq {r \in FinalizerRef : referent'[r] # None}
    BY <1>1, <2>1, <2>3 DEF M!Reference
  <2> QED BY Zenon, <1>1, <1>4, <2>1, <2>2, <2>5, <2>7, <2>8 DEF TriColour
<1>14. ASSUME UNCHANGED <<color, referent, tl_mark_stack, gc_mark_stack, revoked>>,
              UNCHANGED <<weak_queue, finalizer_queue, scanning>>,
              {gc, gc'} \cap {"scan", "blacken"} = {}
       PROVE  TriColour'
  BY Zenon, <1>14, TriColourSame
<1> USE DEF M!heap, M!stacks, M!refs
<1>15. CASE M!Once
  BY Zenon, <1>2, <1>14, <1>15 DEF M!Once
<1>16. CASE M!Revoked \/ M!FinalizersEnqueued \/ M!SweepSystemWeaks
  BY Zenon, <1>14, <1>16 DEF M!Revoked, M!FinalizersEnqueued, M!SweepSystemWeaks
<1>17. CASE M!OnceEnds
  BY Zenon, <1>2, <1>14, <1>17 DEF M!OnceEnds, M!AfterProcessMarkStack
<1>18. CASE M!AskEmptyCheckpoint \/ M!ReenableWeakRefAccess
  BY Zenon, <1>14, <1>18 DEF M!AskEmptyCheckpoint, M!ReenableWeakRefAccess, M!gcvars
<1>19. CASE M!BroadcastForSlowPath \/ M!BroadcastForNewSystemWeaks
  BY Zenon, <1>14, <1>19 DEF M!BroadcastForSlowPath, M!BroadcastForNewSystemWeaks
<1>20. CASE M!WakeupToRespondToEmptyCheckpoint \/ M!BarrierPassed \/ M!BarrierTimedOut
  BY Zenon, <1>14, <1>20 DEF M!WakeupToRespondToEmptyCheckpoint, M!BarrierPassed, M!BarrierTimedOut
<1>21. CASE M!Setup \/ M!SwitchToSharedMarkStackMode \/ M!SwitchToGcExclusiveMarkStackMode
  BY Zenon, <1>14, <1>21 DEF M!Setup, M!SwitchToSharedMarkStackMode,
     M!SwitchToGcExclusiveMarkStackMode
<1>22. CASE M!InitMarkingDone \/ M!InitClearingDone
  BY Zenon, <1>14, <1>22 DEF M!InitMarkingDone, M!InitClearingDone
<1> QED BY Zenon, <1>6, <1>7, <1>8, <1>9, <1>10, <1>11, <1>12, <1>13, <1>15, <1>16, <1>17, <1>18,
   <1>19, <1>20, <1>21, <1>22 DEF M!Collector

------------------------------------------------------------------------------
(* The empty checkpoint *)

LEMMA AnswersThread ==
    ASSUME Answers, NEW t \in Thread,
           Quiet(t) \/ Gets(t) \/ M!ReadBarrierMark(t) \/ M!PushOntoMarkStack(t)
    PROVE  Answers'
<1>1. UNCHANGED <<gc, unasked, expected>>
  BY Zenon, ThreadsKeep
<1>2. CASE M!RunEmptyCheckpoint(t)
  <2>1. t \in empty_flag /\ empty_flag' = empty_flag \ {t} /\ barrier' = barrier - 1
    BY Zenon, <1>2 DEF M!RunEmptyCheckpoint
  <2>2. IsFiniteSet(empty_flag)
    BY ThreadAssumption, FS_Subset DEF Answers
  <2>3. Cardinality(empty_flag') = Cardinality(empty_flag) - 1 /\ Cardinality(empty_flag) \in Nat
    BY <2>1, <2>2, FS_RemoveElement, FS_CardinalityType
  <2> QED BY <1>1, <2>1, <2>3 DEF Answers, Checkpointing
<1>3. CASE ~M!RunEmptyCheckpoint(t)
  BY Zenon, <1>1, <1>3, ThreadsKeepEmpty DEF Answers
<1> QED BY <1>2, <1>3

LEMMA AnswersCollector ==
    ASSUME MarkingInv, Phases, Answers, M!Collector
    PROVE  Answers'
<1>1. mark_stack_mode \in {"local", "shared", "exclusive"}
  BY Zenon DEF MarkingInv, MarkingTypes
<1>2. IsFiniteSet(empty_flag) /\ Cardinality(empty_flag) \in Nat
  BY ThreadAssumption, FS_Subset, FS_CardinalityType DEF Answers
<1>3. Cardinality({}) = 0
  BY FS_EmptySet
<1>4. ASSUME UNCHANGED M!empty, gc \notin Checkpointing, gc' \notin Checkpointing PROVE Answers'
  BY Zenon, <1>4 DEF Answers, Checkpointing, M!empty
<1>5. CASE M!Once
  <2>1. CASE mark_stack_mode = "shared"
    <3>1. /\ barrier' = 0 /\ expected' = 0 /\ unasked' = Thread /\ gc' = "ask" /\ gc = "once"
          /\ empty_flag' = empty_flag
      BY Zenon, <1>5, <2>1 DEF M!Once
    <3> QED BY <1>3, <3>1 DEF Answers, Checkpointing
  <2>2. CASE mark_stack_mode # "shared"
    BY Zenon, <1>1, <1>4, <1>5, <2>2 DEF M!Once, M!empty, Checkpointing
  <2> QED BY <2>1, <2>2
<1>6. CASE M!AskEmptyCheckpoint
  <2>1. PICK t \in unasked :
           /\ unasked' = unasked \ {t}
           /\ \/ UNCHANGED <<empty_flag, expected>>
              \/ empty_flag' = empty_flag \cup {t} /\ expected' = expected + 1
    BY Zenon, <1>6 DEF M!AskEmptyCheckpoint
  <2>2. gc = "ask" /\ gc' = gc /\ barrier' = barrier
    BY Zenon, <1>6 DEF M!AskEmptyCheckpoint, M!gcvars
  <2>3. t \in Thread /\ t \notin empty_flag
    BY Zenon, <2>2 DEF Answers
  <2>4. Cardinality(empty_flag \cup {t}) = Cardinality(empty_flag) + 1
    BY Zenon, <1>2, <2>3, FS_AddElement
  <2> QED BY <1>2, <2>1, <2>2, <2>3, <2>4 DEF Answers, Checkpointing
<1>7. CASE M!BroadcastForSlowPath \/ M!BroadcastForNewSystemWeaks
  BY Zenon, <1>7 DEF M!BroadcastForSlowPath, M!BroadcastForNewSystemWeaks, M!empty, Answers,
     Checkpointing
<1>8. CASE M!WakeupToRespondToEmptyCheckpoint
  <2>1. /\ gc = "wakeup" /\ gc' = "barrier" /\ barrier' = barrier + expected /\ expected' = 0
        /\ UNCHANGED <<empty_flag, unasked>>
    BY Zenon, <1>8 DEF M!WakeupToRespondToEmptyCheckpoint
  <2> QED BY <1>2, <2>1 DEF Answers, Checkpointing
<1>9. CASE M!BarrierPassed
  <2>1. gc = "barrier" /\ gc' = "pop" /\ barrier = 0 /\ UNCHANGED M!empty
    BY Zenon, <1>9 DEF M!BarrierPassed
  <2>2. Cardinality(empty_flag) = 0
    BY <2>1 DEF Answers, Checkpointing
  <2>3. empty_flag = {}
    BY <1>2, <2>2, FS_EmptySet
  <2> QED BY Zenon, <2>1, <2>3 DEF Answers, Checkpointing, M!empty
<1>10. CASE M!BarrierTimedOut
  BY Zenon, <1>10 DEF M!BarrierTimedOut, M!empty, Answers, Checkpointing
<1> USE DEF Checkpointing
<1>11. CASE M!Revoked \/ M!PopRevoked \/ M!Pop
  BY Zenon, <1>4, <1>11 DEF M!Revoked, M!PopRevoked, M!Pop
<1>12. CASE M!OnceEnds
  BY Zenon, <1>1, <1>4, <1>12 DEF M!OnceEnds, M!AfterProcessMarkStack
<1>13. CASE M!ScanField \/ M!ScanReferent \/ M!Blacken
  BY Zenon, <1>4, <1>13 DEF M!ScanField, M!ScanReferent, M!Blacken, M!gcvars
<1>14. CASE M!Setup \/ M!SwitchToSharedMarkStackMode \/ M!DisableWeakRefAccess
            \/ M!SwitchToGcExclusiveMarkStackMode \/ M!InitMarkingDone
  BY Zenon, <1>4, <1>14 DEF M!Setup, M!SwitchToSharedMarkStackMode, M!DisableWeakRefAccess,
     M!SwitchToGcExclusiveMarkStackMode, M!InitMarkingDone
<1>15. CASE M!ClearWhiteReference \/ M!EnqueueFinalizerReference \/ M!ReenableWeakRefAccess
  BY Zenon, <1>4, <1>15 DEF M!ClearWhiteReference, M!EnqueueFinalizerReference,
     M!ReenableWeakRefAccess, M!gcvars
<1>16. CASE M!InitClearingDone \/ M!FinalizersEnqueued \/ M!SweepSystemWeaks
  BY Zenon, <1>4, <1>16 DEF M!InitClearingDone, M!FinalizersEnqueued, M!SweepSystemWeaks
<1> QED BY Zenon, <1>5, <1>6, <1>7, <1>8, <1>9, <1>10, <1>11, <1>12, <1>13, <1>14, <1>15, <1>16
   DEF M!Collector

------------------------------------------------------------------------------
(* Two empty rounds *)

\* Nothing is pending: all that is marked has been scanned.
LEMMA NothingPending ==
    ASSUME MarkingInv, TriColour, Phases, Shared, gc \notin {"scan", "blacken"}, popping # "revoked",
           gc_mark_stack = {}, \A t \in Thread : at[t] # "push", None \notin Obj
    PROVE  \A o \in Marked : Traced(o)
<1>1. scanning = None
  BY Zenon DEF TriColour
<1>2. \A t \in Thread : tl_mark_stack[t] = {}
  BY Zenon DEF Phases
<1>3. revoked = {}
  <2>1. gc # "revoking"
    BY Zenon DEF Phases, Shared, Scanning, Checkpointing, Reenabling, MarkingInv, MarkingTypes
  <2> QED BY Zenon, <2>1 DEF Phases
<1>4. \A o \in Marked : ~Pending(o)
  BY Zenon, <1>1, <1>2, <1>3 DEF Pending, Marked
<1> QED BY Zenon, <1>4 DEF TriColour

LEMMA SecondRoundThread ==
    ASSUME M!GraphAssumption, MarkingInv, HeapGoes, TriColour, Phases, Answers, SecondRound,
           NEW t \in Thread,
           \/ Quiet(t) /\ Receives(None)
           \/ Gets(t) /\ \E o : Receives(o) /\ Source(t, o)
           \/ M!ReadBarrierMark(t) /\ UNCHANGED color /\ \E o : Receives(o) /\ Source(t, o)
           \/ M!ReadBarrierMark(t) /\ Marks(t)
           \/ M!PushOntoMarkStack(t)
    PROVE  SecondRound'
<1>1. UNCHANGED <<gc, popping, empty_prev, count, mark_stack_mode, unasked>>
  BY Zenon, ThreadsKeep
<1>2. /\ Marked \subseteq Marked' /\ None \notin Obj /\ at \in [Thread -> Places]
      /\ arg \in [Thread -> Obj \cup {None}]
  BY Zenon DEF HeapGoes, M!GraphAssumption, MarkingInv, MarkingTypes
<1> SUFFICES ASSUME Shared, ~Exclusive
             PROVE  /\ (empty_prev /\ ~count /\ gc_mark_stack = {})' =>
                           \/ \A x \in Thread : at'[x] # "push"
                           \/ \E x \in Thread : at'[x] = "push" /\ Unanswered(x)'
                    /\ \A x \in Thread : at'[x] = "mark" => \E o \in Marked' : arg'[x] \in Fields[o]
  BY Zenon, <1>1 DEF SecondRound, Shared, Exclusive
<1>3. mark_stack_mode = "shared" /\ rp_state = "starting" /\ ~weak_access[t]
  BY Zenon DEF Shared, Exclusive, Phases, Reenabling, Scanning, Checkpointing, MarkingInv, MarkingTypes
<1>4. \A x \in Thread : at[x] = "mark" => \E o \in Marked : arg[x] \in Fields[o]
  BY Zenon DEF SecondRound
\* The objects that threads are about to mark.
<1>5. ASSUME NEW x \in Thread, at'[x] = "mark" PROVE \E o \in Marked' : arg'[x] \in Fields[o]
  <2>1. CASE at[x] = "mark" /\ arg'[x] = arg[x]
    BY Zenon, <1>2, <1>4, <2>1
  <2>2. ASSUME NEW o, Source(t, o), arg'[x] = o, o # None PROVE \E h \in Marked' : arg'[x] \in Fields[h]
    <3>1. CASE \E h \in held[t] : o \in Fields[h]
      BY Zenon, <1>2, <2>2, <3>1 DEF MarkingInv
    <3>2. CASE at[t] = "mark" /\ o = arg[t]
      BY Zenon, <1>2, <1>4, <2>2, <3>2
    <3> QED BY Zenon, <1>3, <2>2, <3>1, <3>2 DEF Source
  <2>3. CASE \E o : Receives(o) /\ (o = None \/ Source(t, o))
    BY Zenon, <1>5, <2>1, <2>2, <2>3 DEF Receives
  <2>4. CASE Marks(t)
    <3>1. at[x] = "mark" /\ arg'[x] = arg[x]
      BY Zenon, <1>2, <1>5, <2>4 DEF Marks
    <3> QED BY Zenon, <2>1, <3>1
  <2>5. CASE M!PushOntoMarkStack(t)
    <3>1. /\ at' = [at EXCEPT ![t] = M!Done(t)] /\ arg' = [arg EXCEPT ![t] = None]
      BY Zenon, <2>5 DEF M!PushOntoMarkStack, M!Got, M!GotoArg
    <3>2. M!Done(t) # "mark"
      BY DEF M!Done
    <3>3. x # t
      BY Zenon, <1>2, <1>5, <3>1, <3>2
    <3>4. at[x] = "mark" /\ arg'[x] = arg[x]
      BY Zenon, <1>2, <1>5, <3>1, <3>3
    <3> QED BY Zenon, <2>1, <3>4
  <2> QED BY Zenon, <2>3, <2>4, <2>5
<1>6. ASSUME (empty_prev /\ ~count /\ gc_mark_stack = {})'
      PROVE  \/ \A x \in Thread : at'[x] # "push"
             \/ \E x \in Thread : at'[x] = "push" /\ Unanswered(x)'
  <2>1. ~M!PushOntoMarkStack(t)
    BY Zenon, <1>3, <1>6 DEF M!PushOntoMarkStack
  <2>2. ~M!RevokeThreadLocalMarkStack(t) => UNCHANGED gc_mark_stack
    BY Zenon, <2>1, ThreadsKeepStacks
  <2>3. empty_prev /\ ~count /\ gc_mark_stack = {}
    BY Zenon, <1>1, <1>6, <2>2 DEF M!RevokeThreadLocalMarkStack
  <2>4. ASSUME NEW x \in Thread, at[x] = "push", Unanswered(x) PROVE at'[x] = "push" /\ Unanswered(x)'
    <3>1. at'[x] = "push"
      BY Zenon, <1>2, <2>1, <2>4 DEF Receives, Marks
    <3>2. x \in empty_flag => x \in empty_flag'
      <4>1. CASE M!RunEmptyCheckpoint(t)
        BY Zenon, <2>4, <4>1 DEF M!RunEmptyCheckpoint, M!Blocked
      <4>2. CASE ~M!RunEmptyCheckpoint(t)
        BY Zenon, <4>2, ThreadsKeepEmpty
      <4> QED BY <4>1, <4>2
    <3> QED BY Zenon, <1>1, <2>4, <3>1, <3>2 DEF Unanswered
  <2>5. ASSUME \A x \in Thread : at[x] # "push" PROVE \A x \in Thread : at'[x] # "push"
    <3>1. CASE Marks(t)
      <4>1. gc \notin {"scan", "blacken"} /\ popping # "revoked"
        BY Zenon, <2>3 DEF Phases
      <4>2. \A o \in Marked : Traced(o)
        BY Zenon, <1>2, <2>3, <2>5, <4>1, NothingPending
      <4>3. PICK o \in Marked : arg[t] \in Fields[o]
        BY Zenon, <1>4, <3>1 DEF Marks
      <4>4. arg[t] \in Marked
        BY Zenon, <4>2, <4>3 DEF Traced
      <4> QED BY Zenon, <3>1, <4>4 DEF Marks, Marked
    <3>2. CASE \E o : Receives(o)
      BY Zenon, <2>5, <3>2 DEF Receives
    <3> QED BY Zenon, <2>1, <3>1, <3>2
  <2>6. \/ \A x \in Thread : at[x] # "push"
        \/ \E x \in Thread : at[x] = "push" /\ Unanswered(x)
    BY Zenon, <2>3 DEF SecondRound
  <2> QED BY Zenon, <2>4, <2>5, <2>6
<1> QED BY Zenon, <1>5, <1>6

LEMMA SecondRoundCollector ==
    ASSUME M!GraphAssumption, MarkingInv, HeapGoes, TriColour, Phases, Answers, Answers', SecondRound,
           M!Collector, Receives(None)
    PROVE  SecondRound'
<1>1. Marked \subseteq Marked' /\ mark_stack_mode \in {"local", "shared", "exclusive"}
  BY Zenon DEF HeapGoes, MarkingInv, MarkingTypes
<1>2. \A x \in Thread : /\ at'[x] = "push" <=> at[x] = "push"
                        /\ at'[x] = "mark" => at[x] = "mark" /\ arg'[x] = arg[x]
  BY Zenon DEF Receives
<1>3. CASE M!DisableWeakRefAccess
  <2>1. /\ \A x \in Thread : at[x] # "push" /\ at[x] # "mark"
    BY Zenon, <1>3 DEF M!DisableWeakRefAccess
  <2> QED BY Zenon, <1>2, <2>1 DEF SecondRound
<1>4. CASE ~M!DisableWeakRefAccess
  <2> SUFFICES ASSUME Shared', ~Exclusive' PROVE SecondRound'
    BY Zenon DEF SecondRound
  <2>1. Shared /\ ~Exclusive
    <3> USE DEF M!stacks, M!gcvars, Shared, Exclusive
    <3>1. CASE M!Once \/ M!Revoked \/ M!PopRevoked \/ M!Pop
      BY Zenon, <3>1 DEF M!Once, M!Revoked, M!PopRevoked, M!Pop
    <3>2. CASE M!OnceEnds
      BY Zenon, <3>2 DEF M!OnceEnds
    <3>3. CASE M!ScanField \/ M!ScanReferent \/ M!Blacken \/ M!AskEmptyCheckpoint
      BY Zenon, <3>3 DEF M!ScanField, M!ScanReferent, M!Blacken, M!AskEmptyCheckpoint
    <3>4. CASE M!BroadcastForSlowPath \/ M!BroadcastForNewSystemWeaks \/ M!BarrierPassed
               \/ M!WakeupToRespondToEmptyCheckpoint \/ M!BarrierTimedOut
      BY Zenon, <3>4 DEF M!BroadcastForSlowPath, M!BroadcastForNewSystemWeaks, M!BarrierPassed,
         M!WakeupToRespondToEmptyCheckpoint, M!BarrierTimedOut
    <3>5. CASE M!Setup \/ M!SwitchToSharedMarkStackMode \/ M!SwitchToGcExclusiveMarkStackMode
      BY Zenon, <3>5 DEF M!Setup, M!SwitchToSharedMarkStackMode, M!SwitchToGcExclusiveMarkStackMode
    <3>6. CASE M!InitMarkingDone \/ M!ClearWhiteReference \/ M!InitClearingDone
               \/ M!EnqueueFinalizerReference \/ M!FinalizersEnqueued \/ M!SweepSystemWeaks
               \/ M!ReenableWeakRefAccess
      BY Zenon, <3>6 DEF M!InitMarkingDone, M!ClearWhiteReference, M!InitClearingDone,
         M!EnqueueFinalizerReference, M!FinalizersEnqueued, M!SweepSystemWeaks,
         M!ReenableWeakRefAccess
    <3> QED BY Zenon, <1>4, <3>1, <3>2, <3>3, <3>4, <3>5, <3>6 DEF M!Collector
  <2>2. mark_stack_mode = "shared" /\ gc \in {"once"} \cup Scanning \cup Checkpointing
    BY Zenon, <1>1, <2>1 DEF Shared, Exclusive, Phases
  <2>3. \A x \in Thread : at'[x] = "mark" => \E o \in Marked' : arg'[x] \in Fields[o]
    BY Zenon, <1>1, <1>2, <2>1 DEF SecondRound
  <2> DEFINE Rounds == (empty_prev /\ ~count /\ gc_mark_stack = {})' =>
                           \/ \A x \in Thread : at'[x] # "push"
                           \/ \E x \in Thread : at'[x] = "push" /\ Unanswered(x)'
  <2> SUFFICES Rounds
    BY Zenon, <2>3 DEF SecondRound
  \* All are to answer.
  <2>4. ASSUME \A x \in Thread : Unanswered(x)' PROVE Rounds
    BY Zenon, <2>4
  \* The thread that has not answered still has not.
  <2>5. ASSUME UNCHANGED <<empty_prev, count, gc_mark_stack>>,
               \A x \in Thread : at[x] = "push" /\ Unanswered(x) => Unanswered(x)'
        PROVE  Rounds
    BY Zenon, <1>2, <2>1, <2>5 DEF SecondRound
  <2>6. ASSUME count' \/ ~empty_prev' PROVE Rounds
    BY Zenon, <2>6
  <2>7. CASE M!Once
    BY Zenon, <2>2, <2>4, <2>7 DEF M!Once, Unanswered
  <2>8. CASE M!Revoked
    BY Zenon, <2>2, <2>8 DEF M!Revoked, Scanning, Checkpointing
  <2>9. CASE M!PopRevoked
    <3>1. ~empty_prev
      BY Zenon, <2>1, <2>9 DEF M!PopRevoked, Phases
    <3> QED BY Zenon, <2>6, <2>9, <3>1 DEF M!PopRevoked
  <2>10. CASE M!Pop
    BY Zenon, <2>6, <2>10 DEF M!Pop
  <2>11. CASE M!OnceEnds
    <3>1. gc' = "once" \/ ~empty_prev'
      BY Zenon, <2>11 DEF M!OnceEnds
    <3> QED BY Zenon, <2>4, <2>6, <3>1 DEF Unanswered
  <2>12. CASE M!ScanField \/ M!ScanReferent \/ M!Blacken
    <3>1. count' = count /\ count
      BY Zenon, <2>12 DEF M!ScanField, M!ScanReferent, M!Blacken, M!gcvars, Phases
    <3> QED BY Zenon, <2>6, <3>1
  <2>13. CASE M!AskEmptyCheckpoint
    <3>1. PICK t \in unasked :
             /\ unasked' = unasked \ {t}
             /\ \/ at[t] = "native" /\ UNCHANGED empty_flag
                \/ empty_flag' = empty_flag \cup {t}
      BY Zenon, <2>13 DEF M!AskEmptyCheckpoint
    <3>2. UNCHANGED <<gc, empty_prev, count, gc_mark_stack>> /\ gc = "ask"
      BY Zenon, <2>13 DEF M!AskEmptyCheckpoint, M!gcvars, M!stacks
    <3>3. ASSUME NEW x \in Thread, at[x] = "push", Unanswered(x) PROVE Unanswered(x)'
      BY Zenon, <3>1, <3>2, <3>3 DEF Unanswered
    <3> QED BY Zenon, <2>5, <3>2, <3>3
  <2>14. CASE M!BroadcastForSlowPath
    BY Zenon, <2>2, <2>5, <2>14 DEF M!BroadcastForSlowPath, M!stacks, M!empty, Unanswered, Scanning,
       Checkpointing
  <2>15. CASE M!BroadcastForNewSystemWeaks
    BY Zenon, <2>5, <2>15 DEF M!BroadcastForNewSystemWeaks, M!stacks, M!empty, Unanswered
  <2>16. CASE M!WakeupToRespondToEmptyCheckpoint
    BY Zenon, <2>5, <2>16 DEF M!WakeupToRespondToEmptyCheckpoint, M!stacks, Unanswered
  <2>17. CASE M!BarrierPassed
    <3>1. UNCHANGED <<empty_flag, empty_prev, count, gc_mark_stack>> /\ gc = "barrier" /\ gc' = "pop"
      BY Zenon, <2>17 DEF M!BarrierPassed, M!stacks, M!empty
    <3>2. empty_flag = {}
      BY Zenon, <3>1 DEF Answers, Checkpointing
    <3> QED BY Zenon, <2>5, <3>1, <3>2 DEF Unanswered
  <2>18. CASE M!BarrierTimedOut
    BY Zenon, <2>5, <2>18 DEF M!BarrierTimedOut, M!stacks, M!empty, Unanswered
  <2>19. CASE M!Setup \/ M!SwitchToSharedMarkStackMode \/ M!SwitchToGcExclusiveMarkStackMode
              \/ M!InitMarkingDone \/ M!ClearWhiteReference \/ M!InitClearingDone
    BY Zenon, <2>2, <2>19 DEF M!Setup, M!SwitchToSharedMarkStackMode, M!InitMarkingDone,
       M!SwitchToGcExclusiveMarkStackMode, M!ClearWhiteReference, M!InitClearingDone, Scanning,
       Checkpointing
  <2>20. CASE M!EnqueueFinalizerReference \/ M!FinalizersEnqueued \/ M!SweepSystemWeaks
              \/ M!ReenableWeakRefAccess
    BY Zenon, <2>2, <2>20 DEF M!EnqueueFinalizerReference, M!FinalizersEnqueued,
       M!SweepSystemWeaks, M!ReenableWeakRefAccess, Scanning, Checkpointing
  <2> HIDE DEF Rounds
  <2> QED BY Zenon, <1>4, <2>7, <2>8, <2>9, <2>10, <2>11, <2>12, <2>13, <2>14, <2>15, <2>16, <2>17,
       <2>18, <2>19, <2>20 DEF M!Collector
<1> QED BY <1>3, <1>4

------------------------------------------------------------------------------
(* Convergence *)

LEMMA OthersAnswerNothing ==
    ASSUME \/ M!Collector
           \/ \E t \in Thread : Quiet(t) \/ M!ReadBarrierMark(t) \/ M!PushOntoMarkStack(t)
    PROVE  UNCHANGED <<null_seen, stale>>
<1> USE DEF M!history
<1>1. ASSUME NEW t \in Thread, Quiet(t) PROVE UNCHANGED <<null_seen, stale>>
  BY Zenon, <1>1 DEF Quiet, M!Lock, M!LockContended, M!FutexWait, M!Unlock, M!WaitForAccess,
     M!DecodeWeakGlobal, M!GoNative, M!ReturnFromNative, M!RunEmptyCheckpoint,
     M!RevokeThreadLocalMarkStack
<1>2. ASSUME NEW t \in Thread, M!ReadBarrierMark(t) \/ M!PushOntoMarkStack(t)
      PROVE  UNCHANGED <<null_seen, stale>>
  BY Zenon, <1>2 DEF M!ReadBarrierMark, M!PushOntoMarkStack
<1>3. CASE M!Once \/ M!Revoked \/ M!PopRevoked \/ M!Pop \/ M!OnceEnds
           \/ M!ScanField \/ M!ScanReferent \/ M!Blacken
  BY Zenon, <1>3 DEF M!Once, M!Revoked, M!PopRevoked, M!Pop, M!OnceEnds, M!ScanField,
     M!ScanReferent, M!Blacken
<1>4. CASE M!AskEmptyCheckpoint \/ M!BarrierPassed \/ M!BarrierTimedOut \/ M!BroadcastForSlowPath
           \/ M!BroadcastForNewSystemWeaks \/ M!WakeupToRespondToEmptyCheckpoint
  BY Zenon, <1>4 DEF M!AskEmptyCheckpoint, M!BarrierPassed, M!BarrierTimedOut,
     M!BroadcastForSlowPath, M!BroadcastForNewSystemWeaks, M!WakeupToRespondToEmptyCheckpoint
<1>5. CASE M!Setup \/ M!SwitchToSharedMarkStackMode \/ M!DisableWeakRefAccess
           \/ M!SwitchToGcExclusiveMarkStackMode \/ M!InitMarkingDone \/ M!InitClearingDone
  BY Zenon, <1>5 DEF M!Setup, M!SwitchToSharedMarkStackMode, M!DisableWeakRefAccess,
     M!SwitchToGcExclusiveMarkStackMode, M!InitMarkingDone, M!InitClearingDone
<1>6. CASE M!ClearWhiteReference \/ M!EnqueueFinalizerReference \/ M!FinalizersEnqueued
           \/ M!SweepSystemWeaks \/ M!ReenableWeakRefAccess
  BY Zenon, <1>6 DEF M!ClearWhiteReference, M!EnqueueFinalizerReference, M!FinalizersEnqueued,
     M!SweepSystemWeaks, M!ReenableWeakRefAccess
<1> QED BY Zenon, <1>1, <1>2, <1>3, <1>4, <1>5, <1>6 DEF M!Collector

LEMMA GetsAnswers ==
    ASSUME MarkingInv, NEW t \in Thread, Gets(t)
    PROVE  \/ UNCHANGED <<null_seen, stale>>
           \/ \E w \in held[t] \cap WeakRef : \E o : M!Returns(w, o) /\ Answer(t, w, o)
<1> DEFINE Goal == \/ UNCHANGED <<null_seen, stale>>
                   \/ \E w \in held[t] \cap WeakRef : \E o : M!Returns(w, o) /\ Answer(t, w, o)
<1> SUFFICES Goal
  OBVIOUS
<1>1. at[t] = "slow" => arg[t] \in held[t] \cap WeakRef
  BY Zenon DEF MarkingInv, Access
<1>2. CASE M!LoadField(t) \/ M!DecodeWeakGlobalLocked(t)
  BY Zenon, <1>2 DEF M!LoadField, M!DecodeWeakGlobalLocked, M!history
<1>3. CASE M!GetReferent(t)
  <2>1. PICK w \in held[t] \cap WeakRef :
           IF weak_access[t] THEN M!LoadReferent(t, w)
           ELSE IF referent[w] = None THEN M!Returns(w, None)
           ELSE UNCHANGED M!history
    BY Zenon, <1>3 DEF M!GetReferent
  <2> QED BY Zenon, <2>1 DEF M!LoadReferent, Answer, M!history
<1>4. CASE M!SlowPathDone(t)
  BY Zenon, <1>1, <1>4 DEF M!SlowPathDone, M!LoadReferent, Answer
<1>5. CASE M!SlowPathPredict(t)
  <2>1. /\ M!Returns(arg[t], IF referent[arg[t]] \in Marked THEN referent[arg[t]] ELSE None)
        /\ rp_state = "marked" /\ at[t] = "slow"
    BY Zenon, <1>5 DEF M!SlowPathPredict, Marked
  <2> QED BY Zenon, <1>1, <2>1 DEF Answer
<1> HIDE DEF Goal
<1> QED BY Zenon, <1>2, <1>3, <1>4, <1>5 DEF Gets

LEMMA ExclusivePhase ==
    ASSUME MarkingInv, Phases, Exclusive
    PROVE  /\ Shared
           /\ \A t \in Thread : weak_access[t] => gc \in Reenabling
           /\ gc \in Reenabling \cup {"finalize", "once"} \cup Scanning => rp_state = "cleared"
           /\ rp_state \in {"starting", "marked", "cleared"}
<1>1. mark_stack_mode \in {"local", "shared", "exclusive"}
  BY Zenon DEF MarkingInv, MarkingTypes
<1>2. Shared
  BY Zenon, <1>1 DEF Phases, Exclusive, Shared, Scanning, Reenabling, Checkpointing
<1>3. gc \in Reenabling \cup {"finalize", "once"} \cup Scanning => rp_state = "cleared"
  BY Zenon, <1>1 DEF Phases, Exclusive, Scanning, Reenabling, Checkpointing
<1>4. rp_state \in {"starting", "marked", "cleared"}
  BY Zenon, <1>1 DEF Phases
<1> QED BY Zenon, <1>2, <1>3, <1>4 DEF Phases

\* What a thread gets is within reach.
LEMMA SourceReached ==
    ASSUME MarkingInv, Phases, Exclusive, NEW reached, Closed(reached), NEW t \in Thread,
           NEW o, Source(t, o)
    PROVE  o \in reached \cup {None}
<1>1. /\ held[t] \subseteq reached /\ (at[t] = "mark" => arg[t] \in reached)
      /\ \A h \in reached : Fields[h] \subseteq reached
  BY Zenon DEF Closed
<1>2. weak_access[t] => gc \in Reenabling /\ rp_state = "cleared"
  BY Zenon, ExclusivePhase
<1>3. ASSUME NEW w \in held[t] \cap WeakRef, o = referent[w], weak_access[t] \/ rp_state = "cleared"
      PROVE  o \in reached \cup {None}
  <2>1. w \in reached /\ w \in WeakRef /\ rp_state = "cleared"
    BY Zenon, <1>1, <1>2, <1>3
  <2> QED BY Zenon, <1>3, <2>1 DEF Closed
<1>4. CASE rp_state = "marked" /\ o \in Marked
  BY Zenon, <1>4 DEF Closed
<1>5. CASE weak_access[t] /\ o = weak_global
  BY Zenon, <1>2, <1>5 DEF Closed
<1> QED BY Zenon, <1>1, <1>3, <1>4, <1>5 DEF Source

\* What GetReferent answers is within reach, and null only for what is not.
LEMMA AnswerReached ==
    ASSUME M!GraphAssumption, MarkingInv, Phases, Converged, Exclusive, NEW reached, Closed(reached),
           NEW t \in Thread, NEW w \in held[t] \cap WeakRef, NEW o, Answer(t, w, o),
           WeakGlobal = None
    PROVE  /\ o \in reached \cup {None}
           /\ o = None => Referent[w] \notin reached
<1>1. /\ w \in reached /\ reached \subseteq Marked /\ reached \cap Lost = {}
      /\ (rp_state # "cleared" => Marked \subseteq reached)
  BY Zenon DEF Closed
<1>2. weak_access[t] => rp_state = "cleared"
  BY Zenon, ExclusivePhase
<1>3. referent[w] \in {Referent[w], None} /\ None \notin Marked /\ Referent[w] # None
  BY Zenon DEF Converged, M!GraphAssumption, Marked
<1>4. referent[w] = None => Referent[w] \notin reached
  BY Zenon, <1>1 DEF Lost
<1>5. CASE o = referent[w] /\ (weak_access[t] \/ rp_state = "cleared" \/ o = None)
  <2>1. rp_state = "cleared" => referent[w] \in reached \cup {None}
    BY Zenon, <1>1 DEF Closed
  <2> QED BY Zenon, <1>2, <1>4, <1>5, <2>1
<1>6. CASE rp_state = "marked" /\ o = IF referent[w] \in Marked THEN referent[w] ELSE None
  <2>1. o \in reached \cup {None}
    BY Zenon, <1>1, <1>6
  <2>2. o = None => Referent[w] \notin reached
    BY Zenon, <1>1, <1>3, <1>4, <1>6
  <2> QED BY <2>1, <2>2
<1> QED BY Zenon, <1>5, <1>6 DEF Answer

\* Nothing is lost while marking goes on.
LEMMA NothingLost ==
    ASSUME M!GraphAssumption, MarkingInv, Phases, Converged, ~Exclusive,
           NEW t \in Thread, NEW w \in WeakRef, NEW o, M!Returns(w, o), Answer(t, w, o)
    PROVE  null_seen' = {} /\ (stale' => stale)
<1>1. referent[w] = Referent[w] /\ null_seen = {} /\ Referent[w] \in Obj /\ None \notin Obj
  BY Zenon DEF Converged, M!GraphAssumption
<1>2. rp_state # "marked"
  BY Zenon DEF Exclusive, Phases, MarkingInv, MarkingTypes
<1>3. o # None
  BY Zenon, <1>1, <1>2 DEF Answer
<1>4. null_seen' = null_seen /\ stale' = (stale \/ o \in null_seen)
  BY Zenon, <1>3 DEF M!Returns
<1> QED BY Zenon, <1>1, <1>4

\* A thread stays within reach when all it gets is.
LEMMA ClosedStays ==
    ASSUME NEW reached, Closed(reached), NEW o \in reached \cup {None}, Receives(o),
           Marked \subseteq Marked', \A w \in WeakRef : referent'[w] = referent[w],
           rp_state' = "cleared" <=> rp_state = "cleared",
           rp_state # "cleared" => UNCHANGED <<color, weak_queue>>,
           gc' \in Reenabling => weak_global' \in reached \cup {None},
           WeakGlobal = None => reached \cap Lost' = {}
    PROVE  Closed(reached)'
<1>1. rp_state # "cleared" => Marked' = Marked
  BY Zenon DEF Marked, M!IsMarked
<1>2. ASSUME NEW x \in Thread
      PROVE  /\ at'[x] # "push" /\ held'[x] \subseteq reached
             /\ at'[x] = "mark" => arg'[x] \in reached
  <2>1. /\ at[x] # "push" /\ held[x] \subseteq reached /\ (at[x] = "mark" => arg[x] \in reached)
    BY Zenon DEF Closed
  <2> QED BY Zenon, <2>1 DEF Receives
<1>3. \A h \in reached :
          /\ Fields[h] \subseteq reached
          /\ h \in WeakRef => \/ h \in weak_queue' /\ rp_state' # "cleared"
                              \/ referent'[h] \in reached \cup {None}
  BY Zenon DEF Closed
<1>4. reached \subseteq Marked' /\ (rp_state' # "cleared" => Marked' \subseteq reached)
  BY Zenon, <1>1 DEF Closed
<1> QED BY Zenon, <1>2, <1>3, <1>4 DEF Closed

LEMMA ConvergedThread ==
    ASSUME M!GraphAssumption, MarkingInv, HeapGoes, TriColour, Phases, Converged, NEW t \in Thread,
           \/ Quiet(t) /\ UNCHANGED color /\ Receives(None)
           \/ Gets(t) /\ UNCHANGED color /\ \E o : Receives(o) /\ Source(t, o)
           \/ M!ReadBarrierMark(t) /\ UNCHANGED color /\ \E o : Receives(o) /\ Source(t, o)
           \/ M!ReadBarrierMark(t) /\ Marks(t)
           \/ M!PushOntoMarkStack(t)
    PROVE  Converged'
<1>1. /\ UNCHANGED <<gc, mark_stack_mode, weak_access, rp_state, weak_queue, referent, weak_global>>
      /\ Exclusive' <=> Exclusive
  BY Zenon, ThreadsKeep DEF Exclusive
<1>2. /\ \A w \in WeakRef : referent[w] \in {Referent[w], None}
      /\ null_seen \subseteq Obj /\ (WeakGlobal = None => weak_global = None /\ ~stale)
      /\ ~Exclusive => null_seen = {} /\ \A w \in WeakRef : referent[w] = Referent[w]
      /\ Referent \in [M!Reference -> Obj] /\ WeakRef \subseteq M!Reference /\ None \notin Obj
  BY Zenon DEF Converged, M!GraphAssumption, M!Reference
<1>3. \/ UNCHANGED <<null_seen, stale>>
      \/ \E w \in held[t] \cap WeakRef : \E o : M!Returns(w, o) /\ Answer(t, w, o)
  BY Zenon, GetsAnswers, OthersAnswerNothing
<1>4. null_seen' \subseteq Obj
  BY <1>2, <1>3 DEF M!Returns
<1>5. CASE ~Exclusive
  <2>1. null_seen' = {} /\ (stale' => stale)
    <3>1. CASE UNCHANGED <<null_seen, stale>>
      BY Zenon, <1>2, <1>5, <3>1
    <3>2. ASSUME NEW w \in held[t] \cap WeakRef, NEW o, M!Returns(w, o), Answer(t, w, o)
          PROVE  null_seen' = {} /\ (stale' => stale)
      BY Zenon, <1>5, <3>2, NothingLost
    <3> QED BY Zenon, <1>3, <3>1, <3>2
  <2> QED BY Zenon, <1>1, <1>2, <1>5, <2>1 DEF Converged
<1>6. CASE Exclusive
  <2>1. PICK reached \in SUBSET Obj : Closed(reached)
    BY Zenon, <1>6 DEF Converged
  <2>2. /\ reached \subseteq Marked /\ None \notin reached
        /\ at[t] # "push" /\ (at[t] = "mark" => arg[t] \in Marked)
    BY Zenon, <1>2, <2>1 DEF Closed
  <2>3. ~Marks(t) /\ ~M!PushOntoMarkStack(t)
    BY Zenon, <2>2 DEF Marks, Marked, M!PushOntoMarkStack
  <2>4. color' = color /\ \E o : Receives(o) /\ o \in reached \cup {None}
    BY Zenon, <1>6, <2>1, <2>3, SourceReached
  <2>5. gc \in Reenabling => weak_global \in reached \cup {None}
    BY Zenon, <2>1 DEF Closed
  <2>6. ASSUME WeakGlobal = None
        PROVE  reached \cap Lost' = {} /\ ~stale'
    <3>1. reached \cap Lost = {} /\ ~stale
      BY Zenon, <1>2, <2>1, <2>6 DEF Closed
    <3>2. CASE UNCHANGED <<null_seen, stale>>
      BY Zenon, <1>1, <3>1, <3>2 DEF Lost
    <3>3. ASSUME NEW w \in held[t] \cap WeakRef, NEW o, M!Returns(w, o), Answer(t, w, o)
          PROVE  reached \cap Lost' = {} /\ ~stale'
      <4>1. /\ o \in reached \cup {None}
            /\ o = None => Referent[w] \notin reached
        BY Zenon, <1>6, <2>1, <2>6, <3>3, AnswerReached
      <4>2. null_seen' \subseteq null_seen \cup {Referent[w]} /\ (o # None => null_seen' = null_seen)
        BY Zenon, <3>3 DEF M!Returns
      <4>3. reached \cap Lost' = {}
        BY Zenon, <1>1, <3>1, <4>1, <4>2 DEF Lost
      <4>4. o \notin null_seen
        BY Zenon, <1>2, <3>1, <4>1 DEF Lost
      <4> QED BY Zenon, <3>1, <3>3, <4>3, <4>4 DEF M!Returns
    <3> QED BY Zenon, <1>3, <3>2, <3>3
  <2>7. Closed(reached)'
    BY Zenon, <1>1, <2>1, <2>4, <2>5, <2>6, ClosedStays DEF HeapGoes
  <2>8. gc \notin {"finalize", "once"} \cup Scanning => gc_mark_stack' = {}
    <3>1. gc_mark_stack' = gc_mark_stack \/ M!RevokeThreadLocalMarkStack(t)
      BY Zenon, <2>3, ThreadsKeepStacks
    <3>2. M!RevokeThreadLocalMarkStack(t) => gc_mark_stack' = gc_mark_stack
      BY Zenon DEF M!RevokeThreadLocalMarkStack
    <3> QED BY Zenon, <1>6, <3>1, <3>2 DEF Converged
  <2> QED BY Zenon, <1>1, <1>2, <1>4, <1>6, <2>6, <2>7, <2>8 DEF Converged
<1> QED BY <1>5, <1>6

\* The heap and the reference processor as the other steps of the collector leave them.
LEMMA CollectorKeeps ==
    ASSUME MarkingInv, Phases, M!Collector, ~M!ClearWhiteReference, ~M!EnqueueFinalizerReference,
           ~M!InitClearingDone, ~M!SweepSystemWeaks
    PROVE  /\ UNCHANGED <<referent, weak_global>>
           /\ Exclusive => mark_stack_mode' = "exclusive"
           /\ mark_stack_mode' = "exclusive" => Exclusive
           /\ gc' = "exclusive" => gc = "exclusive" \/ (M!OnceEnds /\ mark_stack_mode = "shared")
           /\ gc' \in Reenabling => gc \in Reenabling
           /\ rp_state' = rp_state \/ {rp_state, rp_state'} \cap {"cleared"} = {} \/ ~Exclusive
           /\ weak_queue' = weak_queue \/ gc = "scan"
           /\ UNCHANGED color \/ gc \in {"scan", "blacken"}
<1> DEFINE Ok ==
           /\ UNCHANGED <<referent, weak_global>>
           /\ Exclusive => mark_stack_mode' = "exclusive"
           /\ mark_stack_mode' = "exclusive" => Exclusive
           /\ gc' = "exclusive" => gc = "exclusive" \/ (M!OnceEnds /\ mark_stack_mode = "shared")
           /\ gc' \in Reenabling => gc \in Reenabling
           /\ rp_state' = rp_state \/ {rp_state, rp_state'} \cap {"cleared"} = {} \/ ~Exclusive
           /\ weak_queue' = weak_queue \/ gc = "scan"
           /\ UNCHANGED color \/ gc \in {"scan", "blacken"}
<1> SUFFICES Ok
  OBVIOUS
<1>0. mark_stack_mode \in {"local", "shared", "exclusive"}
  BY Zenon DEF MarkingInv, MarkingTypes
<1> USE DEF M!heap, M!stacks, M!refs, M!gcvars, Reenabling, Exclusive
<1>1. CASE M!Once
  <2>1. gc' \in {"revoking", "ask", "pop"}
    BY Zenon, <1>0, <1>1 DEF M!Once
  <2> QED BY Zenon, <1>1, <2>1 DEF M!Once
<1>2. CASE M!Revoked \/ M!PopRevoked \/ M!Pop
  BY Zenon, <1>2 DEF M!Revoked, M!PopRevoked, M!Pop
<1>3. CASE M!OnceEnds
  <2>1. /\ M!AfterProcessMarkStack \in {"setup", "exclusive", "clear"}
        /\ M!AfterProcessMarkStack = "exclusive" => mark_stack_mode = "shared"
    BY Zenon, <1>0 DEF M!AfterProcessMarkStack
  <2> QED BY Zenon, <1>3, <2>1 DEF M!OnceEnds
<1>4. CASE M!ScanField \/ M!ScanReferent \/ M!Blacken
  BY Zenon, <1>4 DEF M!ScanField, M!ScanReferent, M!Blacken
<1>5. CASE M!AskEmptyCheckpoint \/ M!BarrierPassed \/ M!BarrierTimedOut
           \/ M!WakeupToRespondToEmptyCheckpoint
  BY Zenon, <1>5 DEF M!AskEmptyCheckpoint, M!BarrierPassed, M!BarrierTimedOut,
     M!WakeupToRespondToEmptyCheckpoint
<1>6. CASE M!BroadcastForSlowPath \/ M!BroadcastForNewSystemWeaks
  BY Zenon, <1>6 DEF M!BroadcastForSlowPath, M!BroadcastForNewSystemWeaks
<1>7. CASE M!Setup \/ M!SwitchToSharedMarkStackMode
  <2>1. mark_stack_mode # "exclusive" /\ gc # "exclusive"
    BY Zenon, <1>7 DEF M!Setup, M!SwitchToSharedMarkStackMode, Phases, Scanning
  <2> QED BY Zenon, <1>7, <2>1 DEF M!Setup, M!SwitchToSharedMarkStackMode, Exclusive
<1>8. CASE M!DisableWeakRefAccess \/ M!SwitchToGcExclusiveMarkStackMode
  <2>1. M!DisableWeakRefAccess => gc' = "pop" /\ mark_stack_mode' = mark_stack_mode
    BY Zenon DEF M!DisableWeakRefAccess
  <2> QED BY Zenon, <1>8, <2>1 DEF M!DisableWeakRefAccess, M!SwitchToGcExclusiveMarkStackMode
<1>10. CASE M!InitMarkingDone
  <2>1. rp_state = "starting"
    BY Zenon, <1>0, <1>10 DEF M!InitMarkingDone, Phases, Scanning, Checkpointing
  <2> QED BY Zenon, <1>10, <2>1 DEF M!InitMarkingDone
<1>9. CASE M!FinalizersEnqueued \/ M!ReenableWeakRefAccess
  BY Zenon, <1>9 DEF M!FinalizersEnqueued, M!ReenableWeakRefAccess
<1> HIDE DEF Ok
<1> QED BY Zenon, <1>1, <1>2, <1>3, <1>4, <1>5, <1>6, <1>7, <1>8, <1>9, <1>10 DEF M!Collector

\* The collector goes on to clear references only when its stack is empty.
LEMMA StackEmpty ==
    ASSUME MarkingInv, Phases, Converged, M!Collector
    PROVE  (Exclusive /\ gc \notin {"finalize", "once"} \cup Scanning)' => gc_mark_stack' = {}
<1> DEFINE Ok ==
        (Exclusive /\ gc \notin {"finalize", "once"} \cup Scanning)' => gc_mark_stack' = {}
<1> SUFFICES Ok
  OBVIOUS
<1>0. mark_stack_mode \in {"local", "shared", "exclusive"}
  BY Zenon DEF MarkingInv, MarkingTypes
<1>1. ASSUME gc_mark_stack' = gc_mark_stack, Exclusive' => Exclusive,
             gc \notin {"finalize", "once"} \cup Scanning
      PROVE  Ok
  BY Zenon, <1>1 DEF Converged
<1>2. ASSUME gc' \in {"finalize", "once", "pop", "scan", "blacken"} PROVE Ok
  BY Zenon, <1>2 DEF Scanning
<1> USE DEF M!stacks, M!gcvars, Scanning
<1>3. CASE M!Once
  <2>1. \/ gc' = "pop"
        \/ mark_stack_mode' # "exclusive" /\ gc' # "exclusive"
    BY Zenon, <1>0, <1>3 DEF M!Once
  <2> QED BY Zenon, <1>2, <2>1 DEF Exclusive
<1>4. CASE M!Revoked \/ M!PopRevoked \/ M!Pop
  BY Zenon, <1>2, <1>4 DEF M!Revoked, M!PopRevoked, M!Pop
<1>5. CASE M!OnceEnds
  BY Zenon, <1>5 DEF M!OnceEnds
<1>6. CASE M!ScanField \/ M!ScanReferent \/ M!Blacken
  BY Zenon, <1>2, <1>6 DEF M!ScanField, M!ScanReferent, M!Blacken
<1>7. CASE M!AskEmptyCheckpoint \/ M!BarrierPassed \/ M!BarrierTimedOut
           \/ M!WakeupToRespondToEmptyCheckpoint
  BY Zenon, <1>1, <1>7 DEF M!AskEmptyCheckpoint, M!BarrierPassed, M!BarrierTimedOut,
     M!WakeupToRespondToEmptyCheckpoint, Exclusive
<1>8. CASE M!BroadcastForSlowPath \/ M!BroadcastForNewSystemWeaks
  BY Zenon, <1>1, <1>8 DEF M!BroadcastForSlowPath, M!BroadcastForNewSystemWeaks, Exclusive
<1>9. CASE M!Setup \/ M!SwitchToSharedMarkStackMode \/ M!DisableWeakRefAccess
  BY Zenon, <1>1, <1>9 DEF M!Setup, M!SwitchToSharedMarkStackMode, M!DisableWeakRefAccess, Exclusive
<1>10. CASE M!SwitchToGcExclusiveMarkStackMode \/ M!InitMarkingDone
  BY Zenon, <1>1, <1>10 DEF M!SwitchToGcExclusiveMarkStackMode, M!InitMarkingDone, Exclusive
<1>11. CASE M!ClearWhiteReference \/ M!InitClearingDone
  BY Zenon, <1>1, <1>11 DEF M!ClearWhiteReference, M!InitClearingDone, Exclusive
<1>12. CASE M!EnqueueFinalizerReference \/ M!FinalizersEnqueued
  BY Zenon, <1>2, <1>12 DEF M!EnqueueFinalizerReference, M!FinalizersEnqueued
<1>13. CASE M!SweepSystemWeaks \/ M!ReenableWeakRefAccess
  BY Zenon, <1>1, <1>13 DEF M!SweepSystemWeaks, M!ReenableWeakRefAccess, Exclusive
<1> HIDE DEF Ok
<1> QED BY Zenon, <1>3, <1>4, <1>5, <1>6, <1>7, <1>8, <1>9, <1>10, <1>11, <1>12, <1>13
        DEF M!Collector

\* Two empty rounds: nobody is left to push, and all that is marked has been scanned.
LEMMA SharedMarkingEnds ==
    ASSUME M!GraphAssumption, MarkingInv, TriColour, Phases, Answers, SecondRound, Converged,
           M!OnceEnds, mark_stack_mode = "shared", gc' = "exclusive"
    PROVE  /\ ~Exclusive /\ rp_state # "cleared"
           /\ \A t \in Thread : at[t] # "push" /\ (at[t] = "mark" => arg[t] \in Marked)
           /\ \A o \in Marked : Traced(o)
<1>1. gc = "pop" /\ popping = "stack" /\ gc_mark_stack = {}
  BY Zenon DEF M!OnceEnds
<1>2. empty_prev /\ ~count
  BY Zenon DEF M!OnceEnds
<1>3. Shared /\ ~Exclusive /\ rp_state # "cleared"
  BY Zenon, <1>1 DEF Shared, Exclusive, Phases
<1>4. empty_flag = {}
  BY Zenon, <1>1 DEF Answers, Checkpointing
<1>5. \A t \in Thread : at[t] # "push"
  BY Zenon, <1>1, <1>2, <1>3, <1>4 DEF SecondRound, Unanswered
<1>6. \A o \in Marked : Traced(o)
  BY Zenon, <1>1, <1>3, <1>5, NothingPending DEF M!GraphAssumption
<1>7. \A t \in Thread : at[t] = "mark" => arg[t] \in Marked
  BY Zenon, <1>3, <1>6 DEF SecondRound, Traced
<1> QED BY Zenon, <1>3, <1>5, <1>6, <1>7

\* From then on the marked objects are closed under what a thread can do.
LEMMA ClosedEntered ==
    ASSUME M!GraphAssumption, MarkingInv, TriColour, Phases, Answers, SecondRound, Converged,
           M!OnceEnds, mark_stack_mode = "shared", gc' = "exclusive"
    PROVE  Closed(Marked)' /\ Marked' \in SUBSET Obj
<1> USE DEF M!heap, M!refs, M!mutators, M!history
<1>1. /\ ~Exclusive /\ rp_state # "cleared"
      /\ \A t \in Thread : at[t] # "push" /\ (at[t] = "mark" => arg[t] \in Marked)
      /\ \A o \in Marked : Traced(o)
  BY Zenon, SharedMarkingEnds
<1>2. /\ UNCHANGED <<color, referent, weak_queue, rp_state, at, arg, held, null_seen>>
      /\ gc' \notin Reenabling
  BY Zenon DEF M!OnceEnds, Reenabling
<1>3. Marked' = Marked
  BY Zenon, <1>2 DEF Marked, M!IsMarked
<1>4. Lost = {}
  <2>1. /\ null_seen = {} /\ \A w \in WeakRef : referent[w] = Referent[w]
        /\ \A w \in WeakRef : Referent[w] # None
    BY Zenon, <1>1 DEF Converged, M!GraphAssumption
  <2> QED BY Zenon, <2>1 DEF Lost
<1>5. Lost' = {}
  BY Zenon, <1>2, <1>4 DEF Lost
<1>6. \A t \in Thread : held'[t] \subseteq Marked
  BY Zenon, <1>2 DEF MarkingInv
<1>7. \A o \in Marked :
          /\ Fields[o] \subseteq Marked
          /\ o \in WeakRef => \/ o \in weak_queue' /\ rp_state' # "cleared"
                              \/ referent'[o] \in Marked \cup {None}
  BY Zenon, <1>1, <1>2 DEF Traced
<1>8. Closed(Marked)'
  BY Zenon, <1>1, <1>2, <1>3, <1>5, <1>6, <1>7 DEF Closed
<1> QED BY Zenon, <1>8 DEF Marked

LEMMA ClosedClearWhite ==
    ASSUME M!GraphAssumption, MarkingInv, TriColour, Phases, Converged, Exclusive, Receives(None),
           M!ClearWhiteReference, NEW reached, Closed(reached)
    PROVE  Closed(reached)'
<1>1. PICK w \in weak_queue :
         /\ weak_queue' = weak_queue \ {w}
         /\ referent' = [referent EXCEPT ![w] = IF M!IsMarked(referent[w]) THEN referent[w] ELSE None]
         /\ color' = [color EXCEPT ![w] = "black"]
  BY Zenon DEF M!ClearWhiteReference
<1>2. /\ gc = "clear" /\ UNCHANGED <<gc, rp_state, weak_global, null_seen>>
  BY Zenon DEF M!ClearWhiteReference, M!gcvars, M!history
<1>3. /\ w \in WeakRef /\ w \in Marked /\ color \in [Obj -> {"white", "gray", "black"}]
      /\ referent \in [M!Reference -> Obj \cup {None}] /\ WeakRef \subseteq M!Reference
      /\ referent[w] \in {Referent[w], None}
  BY Zenon, <1>1 DEF TriColour, MarkingInv, MarkingTypes, M!Reference, Converged
<1>4. Marked' = Marked
  BY <1>1, <1>3 DEF Marked, M!IsMarked
<1>5. /\ \A v \in WeakRef \ {w} : referent'[v] = referent[v]
      /\ referent'[w] = IF M!IsMarked(referent[w]) THEN referent[w] ELSE None
  BY <1>1, <1>3
<1>6. reached \subseteq Marked /\ (rp_state # "cleared" => Marked \subseteq reached)
  BY Zenon DEF Closed
<1>7. \A x \in Thread : at'[x] # "push" /\ held'[x] \subseteq reached
                        /\ (at'[x] = "mark" => arg'[x] \in reached)
  BY Zenon DEF Closed, Receives
<1>8. referent[w] \in Obj /\ M!IsMarked(referent[w]) => referent[w] \in Marked
  BY Zenon DEF Marked
<1>9. w \in reached => referent'[w] \in reached \cup {None}
  BY Zenon, <1>3, <1>5, <1>6, <1>8 DEF Closed, MarkingInv, MarkingTypes
<1>10. \A o \in reached :
          /\ Fields[o] \subseteq reached
          /\ o \in WeakRef => \/ o \in weak_queue' /\ rp_state' # "cleared"
                              \/ referent'[o] \in reached \cup {None}
  BY Zenon, <1>1, <1>2, <1>5, <1>9 DEF Closed
<1>11. ASSUME WeakGlobal = None PROVE reached \cap Lost' = {}
  <2>1. reached \cap Lost = {}
    BY Zenon, <1>11 DEF Closed
  <2>2. referent'[w] = None => Referent[w] \in Lost \/ Referent[w] \notin reached
    BY Zenon, <1>3, <1>5, <1>6 DEF Lost, Marked
  <2>3. ASSUME NEW o \in Lost' PROVE o \in Lost \/ (referent'[w] = None /\ o = Referent[w])
    <3>1. CASE o \in null_seen
      BY Zenon, <3>1 DEF Lost
    <3>2. CASE o \notin null_seen
      <4>1. PICK v \in WeakRef : referent'[v] = None /\ o = Referent[v]
        BY Zenon, <1>2, <2>3, <3>2 DEF Lost
      <4> QED BY Zenon, <1>5, <4>1 DEF Lost
    <3> QED BY <3>1, <3>2
  <2> QED BY Zenon, <2>1, <2>2, <2>3
<1>12. gc' \notin Reenabling
  BY Zenon, <1>2 DEF Reenabling
<1> QED BY Zenon, <1>2, <1>4, <1>6, <1>7, <1>10, <1>11, <1>12 DEF Closed

\* Weak globals that are not marked are cleared: all that is marked is within reach now.
LEMMA ClosedSwept ==
    ASSUME M!GraphAssumption, MarkingInv, TriColour, Phases, Converged, Exclusive, Receives(None),
           M!SweepSystemWeaks, NEW reached \in SUBSET Obj, Closed(reached)
    PROVE  (\E r \in SUBSET Obj : Closed(r))'
<1> USE DEF M!stacks, M!refs, M!history
<1>1. /\ gc = "clear" /\ weak_queue = {} /\ rp_state = "cleared"
      /\ UNCHANGED <<color, referent, weak_queue, rp_state, null_seen>>
      /\ weak_global' = IF weak_global # None /\ M!IsMarked(weak_global) THEN weak_global ELSE None
  BY Zenon DEF M!SweepSystemWeaks
<1>2. Marked' = Marked /\ (weak_global' \in Marked \cup {None})
  BY Zenon, <1>1 DEF Marked, M!IsMarked, MarkingInv, MarkingTypes
<1>3. CASE WeakGlobal = None
  <2>1. weak_global' = None
    BY Zenon, <1>1, <1>3 DEF Converged
  <2>2. WeakGlobal = None => reached \cap Lost' = {}
    BY Zenon, <1>1 DEF Closed, Lost
  <2>3. Closed(reached)'
    BY Zenon, <1>1, <1>2, <2>1, <2>2, ClosedStays
  <2> QED BY Zenon, <2>3
<1>4. CASE WeakGlobal # None
  <2>1. \A o \in Marked : Traced(o)
    <3>1. gc_mark_stack = {}
      BY Zenon, <1>1 DEF Converged, Scanning
    <3>2. popping # "revoked"
      BY Zenon, <1>1 DEF Phases, Scanning
    <3>3. \A t \in Thread : at[t] # "push"
      BY Zenon DEF Closed
    <3> QED BY Zenon, <1>1, <3>1, <3>2, <3>3, NothingPending, ExclusivePhase DEF M!GraphAssumption
  <2>2. \A x \in Thread : at'[x] # "push" /\ held'[x] \subseteq Marked
                          /\ (at'[x] = "mark" => arg'[x] \in Marked)
    BY Zenon DEF Closed, Receives
  <2>3. \A o \in Marked : /\ Fields[o] \subseteq Marked
                          /\ o \in WeakRef => referent'[o] \in Marked \cup {None}
    BY Zenon, <1>1, <2>1 DEF Traced
  <2>4. Closed(Marked)'
    BY Zenon, <1>1, <1>2, <1>4, <2>2, <2>3 DEF Closed
  <2> QED BY Zenon, <2>4 DEF Marked
<1> QED BY <1>3, <1>4

LEMMA ConvergedCollector ==
    ASSUME M!GraphAssumption, MarkingInv, HeapGoes, TriColour, Phases, Answers, SecondRound,
           Converged, M!Collector, Receives(None)
    PROVE  Converged'
<1>1. /\ \A w \in WeakRef : referent[w] \in {Referent[w], None} /\ referent'[w] \in {referent[w], None}
      /\ null_seen \subseteq Obj /\ (WeakGlobal = None => weak_global = None /\ ~stale)
      /\ mark_stack_mode \in {"local", "shared", "exclusive"} /\ None \notin Obj
  BY Zenon DEF Converged, HeapGoes, M!GraphAssumption, M!Reference, MarkingInv, MarkingTypes
<1>2. (Exclusive /\ gc \notin {"finalize", "once"} \cup Scanning)' => gc_mark_stack' = {}
  BY Zenon, StackEmpty
<1>3. UNCHANGED <<null_seen, stale>>
  BY Zenon, OthersAnswerNothing
<1>4. ASSUME weak_global' \in {weak_global, None},
             ~Exclusive' => ~Exclusive /\ \A w \in WeakRef : referent'[w] = referent[w],
             Exclusive' => (\E r \in SUBSET Obj : Closed(r))'
      PROVE  Converged'
  <2>1. \A w \in WeakRef : referent'[w] \in {Referent[w], None}
    BY Zenon, <1>1
  <2>2. ~Exclusive' => null_seen' = {} /\ \A w \in WeakRef : referent'[w] = Referent[w]
    BY Zenon, <1>3, <1>4 DEF Converged
  <2>3. Exclusive' => \E r \in SUBSET Obj : Closed(r)'
    BY <1>4
  <2> QED BY Zenon, <1>1, <1>2, <1>3, <1>4, <2>1, <2>2, <2>3 DEF Converged
<1>5. ASSUME gc \in {"clear", "finalize"}
      PROVE  mark_stack_mode = "exclusive" /\ Exclusive
  BY Zenon, <1>1, <1>5 DEF Phases, Exclusive, Scanning, Checkpointing
<1>6. Exclusive => \E r \in SUBSET Obj : Closed(r)
  BY Zenon DEF Converged
<1>7. CASE M!ClearWhiteReference
  <2>1. gc = "clear" /\ UNCHANGED <<mark_stack_mode, weak_global>>
    BY Zenon, <1>7 DEF M!ClearWhiteReference, M!stacks
  <2>2. PICK reached \in SUBSET Obj : Closed(reached)
    BY Zenon, <1>5, <1>6, <2>1
  <2>3. Closed(reached)'
    BY Zenon, <1>5, <1>7, <2>1, <2>2, ClosedClearWhite
  <2>4. Exclusive'
    BY Zenon, <1>5, <2>1 DEF Exclusive
  <2> QED BY Zenon, <1>4, <2>1, <2>3, <2>4
<1>8. CASE M!SweepSystemWeaks
  <2>1. gc = "clear" /\ mark_stack_mode' = mark_stack_mode /\ weak_global' \in {weak_global, None}
    BY Zenon, <1>8 DEF M!SweepSystemWeaks, M!stacks
  <2>2. (\E r \in SUBSET Obj : Closed(r))'
    BY Zenon, <1>5, <1>6, <1>8, <2>1, ClosedSwept
  <2>3. Exclusive'
    BY Zenon, <1>5, <2>1 DEF Exclusive
  <2> QED BY Zenon, <1>4, <2>1, <2>2, <2>3
<1>9. CASE M!InitClearingDone
  <2>1. /\ gc = "clear" /\ gc' = "finalize" /\ weak_queue = {} /\ rp_state' = "cleared"
        /\ UNCHANGED <<color, referent, weak_queue, mark_stack_mode, weak_global>>
    BY Zenon, <1>9 DEF M!InitClearingDone, M!stacks, M!heap
  <2>2. PICK reached \in SUBSET Obj : Closed(reached)
    BY Zenon, <1>5, <1>6, <2>1
  <2>3. Marked' = Marked /\ Lost' = Lost /\ gc' \notin Reenabling
    BY Zenon, <1>3, <2>1 DEF Marked, M!IsMarked, Lost, Reenabling
  <2>4. \A x \in Thread : at'[x] # "push" /\ held'[x] \subseteq reached
                          /\ (at'[x] = "mark" => arg'[x] \in reached)
    BY Zenon, <2>2 DEF Closed, Receives
  <2>5. Closed(reached)'
    BY Zenon, <2>1, <2>2, <2>3, <2>4 DEF Closed
  <2>6. Exclusive'
    BY Zenon, <1>5, <2>1 DEF Exclusive
  <2> QED BY Zenon, <1>4, <2>1, <2>5, <2>6
<1>10. CASE M!EnqueueFinalizerReference
  <2>1. /\ gc = "finalize" /\ UNCHANGED <<gc, rp_state, weak_queue, mark_stack_mode, weak_global>>
    BY Zenon, <1>10 DEF M!EnqueueFinalizerReference, M!gcvars
  <2>2. \A w \in WeakRef : referent'[w] = referent[w]
    <3>1. PICK f \in finalizer_queue :
             referent' = referent \/ referent' = [referent EXCEPT ![f] = None]
      BY Zenon, <1>10 DEF M!EnqueueFinalizerReference
    <3>2. /\ f \in FinalizerRef /\ WeakRef \cap FinalizerRef = {}
          /\ referent \in [M!Reference -> Obj \cup {None}]
      BY Zenon, <3>1 DEF TriColour, M!GraphAssumption, MarkingInv, MarkingTypes
    <3> QED BY <3>1, <3>2 DEF M!Reference
  <2>3. PICK reached \in SUBSET Obj : Closed(reached)
    BY Zenon, <1>5, <1>6, <2>1
  <2>4. /\ rp_state = "cleared" /\ gc' \notin Reenabling
    BY Zenon, <1>5, <2>1, ExclusivePhase DEF Reenabling
  <2>5. Lost' = Lost
    BY Zenon, <1>3, <2>2 DEF Lost
  <2>6. WeakGlobal = None => reached \cap Lost' = {}
    BY Zenon, <2>3, <2>5 DEF Closed
  <2>7. Closed(reached)'
    BY Zenon, <2>1, <2>2, <2>3, <2>4, <2>6, ClosedStays DEF HeapGoes
  <2>8. Exclusive'
    BY Zenon, <1>5, <2>1 DEF Exclusive
  <2> QED BY Zenon, <1>4, <2>1, <2>7, <2>8
<1>11. CASE M!OnceEnds /\ mark_stack_mode = "shared" /\ gc' = "exclusive"
  <2>1. Closed(Marked)' /\ Marked' \in SUBSET Obj
    BY Zenon, <1>11, ClosedEntered
  <2>2. weak_global' = weak_global /\ Exclusive'
    BY Zenon, <1>11 DEF M!OnceEnds, M!heap, Exclusive
  <2> QED BY Zenon, <1>4, <2>1, <2>2
<1>12. CASE ~M!ClearWhiteReference /\ ~M!SweepSystemWeaks /\ ~M!InitClearingDone
            /\ ~M!EnqueueFinalizerReference
            /\ ~(M!OnceEnds /\ mark_stack_mode = "shared" /\ gc' = "exclusive")
  <2>1. /\ UNCHANGED <<referent, weak_global>>
        /\ Exclusive => mark_stack_mode' = "exclusive"
        /\ mark_stack_mode' = "exclusive" => Exclusive
        /\ gc' = "exclusive" => gc = "exclusive"
        /\ gc' \in Reenabling => gc \in Reenabling
        /\ rp_state' = rp_state \/ {rp_state, rp_state'} \cap {"cleared"} = {} \/ ~Exclusive
        /\ weak_queue' = weak_queue \/ gc = "scan"
        /\ UNCHANGED color \/ gc \in {"scan", "blacken"}
    BY Zenon, <1>12, CollectorKeeps
  <2>2. Exclusive <=> Exclusive'
    BY Zenon, <2>1 DEF Exclusive
  <2>3. ASSUME Exclusive PROVE (\E r \in SUBSET Obj : Closed(r))'
    <3>1. PICK reached \in SUBSET Obj : Closed(reached)
      BY Zenon, <1>6, <2>3
    <3>2. rp_state' = "cleared" <=> rp_state = "cleared"
      BY Zenon, <2>1, <2>3
    <3>3. rp_state # "cleared" => UNCHANGED <<color, weak_queue>>
      BY Zenon, <2>1, <2>3, ExclusivePhase DEF Scanning
    <3>4. gc' \in Reenabling => weak_global' \in reached \cup {None}
      BY Zenon, <2>1, <3>1 DEF Closed
    <3>5. WeakGlobal = None => reached \cap Lost' = {}
      BY Zenon, <1>3, <2>1, <3>1 DEF Closed, Lost
    <3>6. Closed(reached)'
      BY Zenon, <2>1, <3>1, <3>2, <3>3, <3>4, <3>5, ClosedStays DEF HeapGoes
    <3> QED BY Zenon, <3>6
  <2> QED BY Zenon, <1>4, <2>1, <2>2, <2>3
<1> QED BY Zenon, <1>7, <1>8, <1>9, <1>10, <1>11, <1>12

LEMMA ConvergenceInit == M!GraphAssumption /\ M!Init => ConvergenceInv
<1> SUFFICES ASSUME M!GraphAssumption, M!Init PROVE ConvergenceInv
  OBVIOUS
<1>1. MarkingInv
  BY Zenon, MarkingInit
<1>2. /\ color = [o \in Obj |-> IF o \in Roots THEN "gray" ELSE "white"] /\ referent = Referent
      /\ weak_global = WeakGlobal /\ tl_mark_stack = [t \in Thread |-> {}] /\ revoked = {}
      /\ gc_mark_stack = Roots /\ weak_queue = {} /\ finalizer_queue = {} /\ scanning = None
  BY Zenon DEF M!Init
<1>3. /\ mark_stack_mode = "local" /\ rp_state = "cleared" /\ gc = "once" /\ popping = "stack"
      /\ empty_prev = FALSE /\ count = FALSE /\ revoke = {} /\ empty_flag = {} /\ barrier = 0
      /\ expected = 0 /\ null_seen = {} /\ stale = FALSE
  BY Zenon DEF M!Init
<1>4. Marked = Roots
  BY <1>2 DEF Marked, M!IsMarked, M!GraphAssumption
<1>5. TriColour
  BY <1>2, <1>3, <1>4 DEF TriColour, Pending
<1>6. Phases
  BY Zenon, <1>2, <1>3 DEF Phases, Shared, Scanning, Reenabling
<1>7. Answers
  BY <1>3, FS_EmptySet DEF Answers, Checkpointing
<1>8. SecondRound
  BY Zenon, <1>3 DEF SecondRound, Shared
<1>9. Converged
  BY Zenon, <1>2, <1>3 DEF Converged, Exclusive
<1> QED BY Zenon, <1>1, <1>5, <1>6, <1>7, <1>8, <1>9 DEF ConvergenceInv

LEMMA ConvergenceNext == M!GraphAssumption /\ ConvergenceInv /\ M!Next => ConvergenceInv'
<1> SUFFICES ASSUME M!GraphAssumption, ConvergenceInv, M!Next PROVE ConvergenceInv'
  OBVIOUS
<1>1. MarkingInv /\ TriColour /\ Phases /\ Answers /\ SecondRound /\ Converged
  BY Zenon DEF ConvergenceInv
<1>2. HeapGoes /\ MarkingInv'
  BY Zenon, <1>1, HeapStep, MarkingNext
<1> DEFINE Ok == TriColour' /\ Phases' /\ Answers' /\ SecondRound' /\ Converged'
<1> SUFFICES Ok
  BY Zenon, <1>2 DEF ConvergenceInv
<1>3. CASE M!Collector /\ Receives(None)
  <2>1. TriColour' /\ Phases' /\ Answers'
    BY Zenon, <1>1, <1>2, <1>3, TriColourCollector, PhasesCollector, AnswersCollector
  <2>2. SecondRound' /\ Converged'
    BY Zenon, <1>1, <1>2, <1>3, <2>1, SecondRoundCollector, ConvergedCollector
  <2> QED BY Zenon, <2>1, <2>2
<1>4. ASSUME NEW t \in Thread,
             \/ Quiet(t) /\ Receives(None)
             \/ Gets(t) /\ \E o : Receives(o) /\ Source(t, o)
             \/ M!ReadBarrierMark(t) /\ UNCHANGED color /\ \E o : Receives(o) /\ Source(t, o)
             \/ M!ReadBarrierMark(t) /\ Marks(t)
             \/ M!PushOntoMarkStack(t)
      PROVE  Ok
  <2>1. TriColour'
    BY Zenon, <1>1, <1>2, <1>4, TriColourThread
  <2>2. Phases' /\ Answers'
    BY Zenon, <1>1, <1>4, PhasesThread, AnswersThread
  <2>3. SecondRound'
    BY Zenon, <1>1, <1>2, <1>4, SecondRoundThread
  <2>4. Quiet(t) \/ Gets(t) => UNCHANGED color
    BY Zenon, ActsKeeps DEF Quiet, Gets, Acts
  <2>5. Converged'
    BY Zenon, <1>1, <1>2, <1>4, <2>4, ConvergedThread
  <2> QED BY Zenon, <2>1, <2>2, <2>3, <2>5
<1> HIDE DEF Ok
<1> QED BY Zenon, <1>1, <1>3, <1>4, StepReceives

LEMMA ConvergenceStutters == ConvergenceInv /\ UNCHANGED M!vars => ConvergenceInv'
<1> SUFFICES ASSUME ConvergenceInv, UNCHANGED M!vars PROVE ConvergenceInv'
  OBVIOUS
<1> USE DEF M!vars, M!heap, M!stacks, M!refs, M!gcvars, M!stop, M!empty, M!mutators, M!history
<1>1. MarkingInv'
  BY Zenon, MarkingStutters DEF ConvergenceInv
<1>2. TriColour'
  <2>1. Marked' = Marked /\ \A o : (Traced(o) <=> Traced(o)') /\ (Pending(o) <=> Pending(o)')
    BY Zenon DEF Traced, Pending, Marked, M!IsMarked
  <2> QED BY Zenon, <2>1 DEF ConvergenceInv, TriColour
<1>3. Phases'
  BY Zenon DEF ConvergenceInv, Phases, Shared
<1>4. Answers'
  BY Zenon DEF ConvergenceInv, Answers
<1>5. SecondRound'
  BY Zenon DEF ConvergenceInv, SecondRound, Shared, Exclusive, Unanswered, Marked, M!IsMarked
<1>6. Converged'
  BY Zenon DEF ConvergenceInv, Converged, Exclusive, Closed, Lost, Marked, M!IsMarked
<1> QED BY Zenon, <1>1, <1>2, <1>3, <1>4, <1>5, <1>6 DEF ConvergenceInv

\* Marking converges on every heap, with any number of threads: two rounds in a row that
\* found nothing, each begun with an empty checkpoint, leave no thread between marking an
\* object and pushing it when SwitchToGcExclusiveMarkStackMode takes the mark stack, and none
\* will be there afterwards (the CHECK in PushOntoMarkStack).
THEOREM MarkingHasConverged == M!GraphAssumption => (M!Spec => []M!MarkingConverges)
<1> SUFFICES ASSUME M!GraphAssumption PROVE M!Spec => []M!MarkingConverges
  OBVIOUS
<1>1. M!Init => ConvergenceInv
  BY Zenon, ConvergenceInit
<1>2. ConvergenceInv /\ [M!Next]_M!vars => ConvergenceInv'
  BY Zenon, ConvergenceNext, ConvergenceStutters
<1>3. ConvergenceInv => M!MarkingConverges
  <2> SUFFICES ASSUME ConvergenceInv, mark_stack_mode = "exclusive"
               PROVE  \A t \in Thread : at[t] # "push" /\ tl_mark_stack[t] = {}
    BY Zenon DEF M!MarkingConverges
  <2>1. Exclusive /\ MarkingInv /\ Phases /\ Converged
    BY Zenon DEF ConvergenceInv, Exclusive
  <2>2. \A t \in Thread : tl_mark_stack[t] = {}
    BY Zenon, <2>1, ExclusivePhase DEF Phases
  <2>3. \A t \in Thread : at[t] # "push"
    BY Zenon, <2>1 DEF Converged, Closed
  <2> QED BY Zenon, <2>2, <2>3
<1> QED BY <1>1, <1>2, <1>3, PTL DEF M!Spec

\* Once ReferenceProcessor::GetReferent has returned null for an object, no thread gets that
\* object out of any weak reference, on every heap without a JNI weak global: the null may be
\* the prediction of the slow path, made before ClearWhiteReferences has cleared anything.
\* With a weak global it is false: an object that a finalizer resurrects is found again by
\* way of the weak global.
THEOREM WeakClearedTogether ==
    M!GraphAssumption /\ WeakGlobal = None => (M!Spec => []M!ClearedTogether)
<1> SUFFICES ASSUME M!GraphAssumption, WeakGlobal = None PROVE M!Spec => []M!ClearedTogether
  OBVIOUS
<1>1. M!Init => ConvergenceInv
  BY Zenon, ConvergenceInit
<1>2. ConvergenceInv /\ [M!Next]_M!vars => ConvergenceInv'
  BY Zenon, ConvergenceNext, ConvergenceStutters
<1>3. ConvergenceInv => M!ClearedTogether
  BY Zenon DEF ConvergenceInv, Converged, M!ClearedTogether
<1> QED BY <1>1, <1>2, <1>3, PTL DEF M!Spec

==============================================================================
