--------------------------- MODULE ThreadStackProofs ---------------------------
(***************************************************************************)
(* Proofs about the components of StackVisits, for any number of threads,  *)
(* flips, methods and pieces of code.                                      *)
(***************************************************************************)
EXTENDS StackVisits, Sequences, FiniteSetTheorems, TLAPS

\* Most steps are first-order reasoning over the invariants; those that need the SMT solver
\* say so.
USE Zenon

------------------------------------------------------------------------------
(* FlipFunction: the inductive invariant *)

Claimed == {"flip_run", "flip_clear"}
Flipping == {"flip_run", "flip_clear", "flip_broadcast"}
Java == {"java", "pinned", "flip_await", "unpin", "behalf"}

FlipTypes ==
    /\ flip_list \subseteq F!All /\ Gc \in flip_list
    /\ runnable \subseteq Thread
    /\ pins \in [F!All -> SUBSET F!All]
    /\ pending \subseteq F!All
    /\ pc = [t \in F!All |-> pc[t]]
    /\ arg = [t \in F!All |-> arg[t]]
    /\ flip_ret = [t \in F!All |-> flip_ret[t]]

\* kRunningFlipFunction is set exactly while one thread has claimed the function, and the
\* function is there until it has been run.
FlipClaims ==
    /\ \A u \in flip_running : \E t \in F!All : pc[t] \in Claimed /\ arg[t] = u
    /\ \A t \in F!All : pc[t] \in Claimed => arg[t] \in flip_running
    /\ \A t, u \in F!All : pc[t] \in Claimed /\ pc[u] \in Claimed /\ arg[t] = arg[u] => t = u
    /\ flip_running \cap pending = {} /\ flip_running \subseteq flip_list
    /\ \A t \in F!All : /\ pc[t] = "flip_run" => arg[t] \in flip_function
                        /\ pc[t] = "flip_clear" => arg[t] \notin flip_function
    /\ pending \subseteq flip_function /\ flip_function \subseteq pending \cup flip_running

\* t acts on behalf of arg[t].
Behalf(t) == pc[t] \in Java \ {"java"} \/ (pc[t] \in Flipping /\ flip_ret[t] = "pinned")

\* Where a mutator is tells whether it is in the list and in state kRunnable.  A Runnable
\* thread has no flip function but one that it runs itself.  A thread that another acts on
\* behalf of stays suspended in the list, and once its flip function is no longer pending,
\* or no longer running, that remains so.
ThreadOK(t) ==
    /\ pc[t] \in {"new", "exited", "native", "resume", "flip_wait"} \cup Java \cup Flipping
    /\ t \in flip_list <=> pc[t] \notin {"new", "exited"}
    /\ t \in runnable <=> pc[t] \in Java \cup Flipping
    /\ pc[t] = "new" \/ t \in runnable => t \notin pending
    /\ t \in runnable \cap flip_running => pc[t] \in Claimed /\ arg[t] = t
    /\ Behalf(t) => arg[t] \in flip_list \ runnable /\ t \in pins[arg[t]]
    /\ pc[t] \in Flipping => flip_ret[t] = "pinned" \/ (flip_ret[t] = "java" /\ arg[t] = t)
    /\ pc[t] \in {"flip_await", "behalf"} => arg[t] \notin pending
    /\ pc[t] = "behalf" => arg[t] \notin flip_running

\* What the two passes of FlipThreadRoots have still to do covers every function of a
\* thread in the list that has not been run.
FlipPasses ==
    /\ pc[Gc] \in {"gc_idle", "gc_suspending", "gc_resume", "gc_ensure", "gc_finished",
                   "gc_second", "gc_await", "gc_waited"} \cup Flipping
    /\ exit_flags = flipping /\ to_flip \subseteq flipping
    /\ pc[Gc] \in {"gc_idle", "gc_suspending"} => flipping = {}
    /\ pc[Gc] \in {"gc_second", "gc_await", "gc_waited"} => to_flip = {}
    /\ pending \cap flip_list \subseteq to_flip /\ flip_running \subseteq flipping
    /\ pc[Gc] \in Flipping => flip_ret[Gc] = "gc_finished"
    /\ pc[Gc] \in Flipping \cup {"gc_finished"} => arg[Gc] \notin to_flip
    /\ pc[Gc] \in {"flip_broadcast", "gc_finished", "gc_waited"} => arg[Gc] \notin flip_running

FlipInv == FlipTypes /\ (\A t \in Thread : ThreadOK(t)) /\ FlipClaims /\ FlipPasses

------------------------------------------------------------------------------
(* What a step of one thread means for the others *)

\* Only t moves.
Only(t) == \A u \in F!All \ {t} : /\ pc'[u] = pc[u] /\ arg'[u] = arg[u]
                                  /\ flip_ret'[u] = flip_ret[u]

\* Only t changes what is its own; a flip function that is not pending does not become so,
\* and a thread that is kept suspended by another neither detaches nor becomes Runnable.
Frame(t) ==
    /\ FlipTypes' /\ Only(t)
    /\ flip_list' \ {t} = flip_list \ {t} /\ runnable' \ {t} = runnable \ {t}
    /\ pending' \subseteq pending
    /\ flip_running' \subseteq flip_running \cup (pending \cap flip_list)
    /\ \A s \in Thread \ {t}, u \in F!All : s \in pins[u] => s \in pins'[u]
    /\ \/ t = Gc
       \/ pins[t] = {}
       \/ (t \in flip_list => t \in flip_list') /\ (t \in runnable' => t \in runnable)

\* Such a step keeps the invariant of every other mutator.
LEMMA OthersKept ==
  ASSUME FlipTypes, NEW t \in F!All, Frame(t), NEW s \in Thread, s # t, ThreadOK(s)
  PROVE  ThreadOK(s)'
  <1> USE FlipAssumption DEF F!ThreadAssumption, F!All
  <1>1. /\ pc'[s] = pc[s] /\ arg'[s] = arg[s] /\ flip_ret'[s] = flip_ret[s]
        /\ (s \in flip_list' <=> s \in flip_list) /\ (s \in runnable' <=> s \in runnable)
    BY DEF Frame, Only
  <1>2. Behalf(s)' <=> Behalf(s)
    BY <1>1 DEF Behalf
  <1>3. Behalf(s) => arg[s] \in flip_list' \ runnable' /\ s \in pins'[arg[s]]
    <2> SUFFICES ASSUME Behalf(s)
                 PROVE  arg[s] \in flip_list' /\ arg[s] \notin runnable' /\ s \in pins'[arg[s]]
      OBVIOUS
    <2>1. arg[s] \in flip_list /\ arg[s] \notin runnable /\ s \in pins[arg[s]] /\ arg[s] \in F!All
      BY DEF ThreadOK, FlipTypes
    <2>2. s \in pins'[arg[s]]
      BY <2>1 DEF Frame
    <2>3. CASE arg[s] = Gc
      BY <2>2, <2>3 DEF Frame, FlipTypes
    <2>4. CASE arg[s] # Gc
      BY <2>1, <2>2, <2>4 DEF Frame
    <2> QED BY <2>3, <2>4
  <1>4. \A u : u \notin pending => u \notin pending' /\ (u \in flip_running' => u \in flip_running)
    BY DEF Frame
  <1> QED
    BY <1>1, <1>2, <1>3, <1>4 DEF ThreadOK

\* A step of a mutator leaves what the collector has to do as it was.
LEMMA PassesKept ==
  ASSUME FlipPasses, NEW t \in Thread, Frame(t),
         pending' \cap flip_list' \subseteq pending \cap flip_list,
         UNCHANGED <<exit_flags, flipping, to_flip>>
  PROVE  FlipPasses'
  <1>1. pc'[Gc] = pc[Gc] /\ arg'[Gc] = arg[Gc] /\ flip_ret'[Gc] = flip_ret[Gc]
    BY FlipAssumption DEF F!ThreadAssumption, F!All, Frame, Only
  <1>2. flip_running' \subseteq flip_running \cup to_flip
    BY DEF Frame, FlipPasses
  <1> QED
    BY <1>1, <1>2 DEF FlipPasses

\* So a mutator has to keep its own part and the claims ...
LEMMA MutatorKeeps ==
  ASSUME FlipInv, NEW t \in Thread, Frame(t), ThreadOK(t)', FlipClaims',
         pending' \cap flip_list' \subseteq pending \cap flip_list,
         UNCHANGED <<exit_flags, flipping, to_flip>>
  PROVE  FlipInv'
  <1>1. \A s \in Thread : ThreadOK(s)'
    BY OthersKept DEF FlipInv, F!All
  <1>2. FlipPasses'
    BY PassesKept DEF FlipInv
  <1> QED
    BY <1>1, <1>2 DEF FlipInv, Frame

\* ... and the collector its own.
LEMMA CollectorKeeps ==
  ASSUME FlipInv, Frame(Gc), FlipPasses', FlipClaims'
  PROVE  FlipInv'
  <1>1. \A s \in Thread : ThreadOK(s)'
    BY FlipAssumption, OthersKept DEF F!ThreadAssumption, FlipInv, F!All
  <1> QED
    BY <1>1 DEF FlipInv, Frame

\* A step of a thread that has claimed nothing and claims nothing leaves the claims alone.
LEMMA ClaimsUndisturbed ==
  ASSUME FlipClaims, NEW t \in F!All, Only(t), pc[t] \notin Claimed, pc'[t] \notin Claimed,
         UNCHANGED <<pending, flip_running, flip_function>>, flip_running \subseteq flip_list'
  PROVE  FlipClaims'
  BY SMT DEF FlipClaims, Only, Claimed

\* The compare-and-set of a pending flip function makes t the one thread that runs it.
LEMMA ClaimsTaken ==
  ASSUME FlipClaims, NEW t \in F!All, Only(t), pc[t] \notin Claimed, pc'[t] = "flip_run",
         arg'[t] \in pending \cap flip_list,
         pending' = pending \ {arg'[t]}, flip_running' = flip_running \cup {arg'[t]},
         UNCHANGED <<flip_list, flip_function>>
  PROVE  FlipClaims'
  <1>1. \A u \in flip_running' : \E s \in F!All : pc'[s] \in Claimed /\ arg'[s] = u
    BY SMT DEF FlipClaims, Only, Claimed
  <1>2. \A s \in F!All : pc'[s] \in Claimed => arg'[s] \in flip_running'
    BY DEF FlipClaims, Only
  <1>3. \A s \in F!All \ {t} : pc'[s] \in Claimed => arg'[s] # arg'[t]
    BY DEF FlipClaims, Only
  <1>4. \A s, u \in F!All :
           pc'[s] \in Claimed /\ pc'[u] \in Claimed /\ arg'[s] = arg'[u] => s = u
    BY SMT, <1>3 DEF FlipClaims, Only
  <1>5. \A s \in F!All : /\ pc'[s] = "flip_run" => arg'[s] \in flip_function'
                         /\ pc'[s] = "flip_clear" => arg'[s] \notin flip_function'
    BY DEF FlipClaims, Only
  <1>6. /\ flip_running' \cap pending' = {} /\ flip_running' \subseteq flip_list'
        /\ pending' \subseteq flip_function' /\ flip_function' \subseteq pending' \cup flip_running'
    BY DEF FlipClaims
  <1> QED
    BY <1>1, <1>2, <1>4, <1>5, <1>6 DEF FlipClaims

\* The thread that claimed a flip function runs it ...
LEMMA ClaimsRun ==
  ASSUME FlipClaims, NEW t \in F!All, Only(t), pc[t] = "flip_run", pc'[t] = "flip_clear",
         arg'[t] = arg[t], flip_function' = flip_function \ {arg[t]},
         UNCHANGED <<flip_list, pending, flip_running>>
  PROVE  FlipClaims'
  <1>1. \A s \in F!All : arg'[s] = arg[s] /\ (pc'[s] \in Claimed <=> pc[s] \in Claimed)
    BY DEF Only, Claimed
  <1>2. \A s \in F!All \ {t} : pc[s] \in Claimed => arg[s] # arg[t]
    BY DEF FlipClaims, Claimed
  <1>3. \A s \in F!All : /\ pc'[s] = "flip_run" => arg'[s] \in flip_function'
                         /\ pc'[s] = "flip_clear" => arg'[s] \notin flip_function'
    BY <1>1, <1>2 DEF FlipClaims, Only, Claimed
  <1>4. arg[t] \in flip_running
    BY DEF FlipClaims, Claimed
  <1>5. pending' \subseteq flip_function' /\ flip_function' \subseteq pending' \cup flip_running'
    BY SMT, <1>4 DEF FlipClaims
  <1> QED
    BY <1>1, <1>3, <1>5 DEF FlipClaims

\* ... and then gives the claim up.
LEMMA ClaimsGivenUp ==
  ASSUME FlipClaims, NEW t \in F!All, Only(t), pc[t] = "flip_clear", pc'[t] = "flip_broadcast",
         arg'[t] = arg[t], flip_running' = flip_running \ {arg[t]},
         UNCHANGED <<flip_list, pending, flip_function>>
  PROVE  FlipClaims'
  <1>1. \A s \in F!All \ {t} : pc[s] \in Claimed => arg[s] # arg[t]
    BY DEF FlipClaims, Claimed
  <1>2. \A u \in flip_running' : \E s \in F!All : pc'[s] \in Claimed /\ arg'[s] = u
    BY SMT DEF FlipClaims, Only
  <1>3. \A s \in F!All : pc'[s] \in Claimed => s # t /\ pc'[s] = pc[s] /\ arg'[s] = arg[s]
    BY DEF Only, Claimed
  <1>4. \A s \in F!All : pc'[s] \in Claimed => arg'[s] \in flip_running'
    BY <1>1, <1>3 DEF FlipClaims
  <1>5. arg[t] \notin flip_function
    BY DEF FlipClaims
  <1>6. \A s \in F!All : /\ pc'[s] = "flip_run" => arg'[s] \in flip_function'
                         /\ pc'[s] = "flip_clear" => arg'[s] \notin flip_function'
    BY SMT, <1>3 DEF FlipClaims, Claimed
  <1>7. /\ flip_running' \cap pending' = {} /\ flip_running' \subseteq flip_list'
        /\ pending' \subseteq flip_function' /\ flip_function' \subseteq pending' \cup flip_running'
    BY <1>5 DEF FlipClaims
  <1> QED
    BY SMT, <1>2, <1>3, <1>4, <1>6, <1>7 DEF FlipClaims

------------------------------------------------------------------------------
(* The actions of the mutators *)

\* RunFlipFunction runs the closure that the thread has claimed.
LEMMA RunFlipKeeps ==
  ASSUME FlipInv, NEW t \in Thread, F!RunFlipFunction(t)
  PROVE  FlipInv'
  <1> USE FlipAssumption DEF F!ThreadAssumption, F!All, FlipInv
  <1>1. /\ Frame(t)
        /\ pc[t] = "flip_run" /\ pc'[t] = "flip_clear"
        /\ flip_function' = flip_function \ {arg[t]}
        /\ UNCHANGED <<flip_list, runnable, pins, pending, flip_running, arg, flip_ret,
                       exit_flags, flipping, to_flip>>
    BY DEF F!RunFlipFunction, F!Goto, F!flags, F!collector, FlipTypes, Frame, Only
  <1>2. FlipClaims'
    BY <1>1, ClaimsRun DEF Frame, FlipClaims, Claimed
  <1>3. ThreadOK(t)'
    BY <1>1 DEF FlipTypes, ThreadOK, Behalf, Claimed, Flipping, Java
  <1> QED
    BY <1>1, <1>2, <1>3, MutatorKeeps

\* RunFlipFunction clears kRunningFlipFunction.
LEMMA ClearRunningKeeps ==
  ASSUME FlipInv, NEW t \in Thread, F!ClearRunning(t)
  PROVE  FlipInv'
  <1> USE FlipAssumption DEF F!ThreadAssumption, F!All, FlipInv
  <1>1. /\ Frame(t)
        /\ pc[t] = "flip_clear" /\ pc'[t] = "flip_broadcast"
        /\ flip_running' = flip_running \ {arg[t]}
        /\ UNCHANGED <<flip_list, runnable, pins, pending, flip_function, arg, flip_ret,
                       exit_flags, flipping, to_flip>>
    BY DEF F!ClearRunning, F!Goto, F!flags, F!collector, FlipTypes, Frame, Only
  <1>2. FlipClaims'
    BY <1>1, ClaimsGivenUp DEF Frame, FlipClaims, Claimed
  <1>3. ThreadOK(t)'
    BY <1>1 DEF FlipTypes, ThreadOK, Behalf, Claimed, Flipping, Java
  <1> QED
    BY <1>1, <1>2, <1>3, MutatorKeeps

\* RunFlipFunction wakes those who wait for it and returns.
LEMMA BroadcastKeeps ==
  ASSUME FlipInv, NEW t \in Thread, F!BroadcastFlipped(t)
  PROVE  FlipInv'
  <1> USE FlipAssumption DEF F!ThreadAssumption, F!All, FlipInv
  <1>0. flip_ret[t] \in {"java", "pinned"}
    BY DEF F!BroadcastFlipped, ThreadOK, Flipping
  <1>1. /\ Frame(t)
        /\ pc[t] = "flip_broadcast" /\ pc'[t] = flip_ret[t] /\ flip_ret[t] \in {"java", "pinned"}
        /\ flip_ret[t] = "pinned" => arg'[t] = arg[t]
        /\ UNCHANGED <<flip_list, pending, flip_running, flip_function, runnable, pins,
                       exit_flags, flipping, to_flip>>
    BY <1>0 DEF F!BroadcastFlipped, F!Goto, F!flags, F!collector, FlipTypes, Frame, Only
  <1>2. FlipClaims'
    BY <1>1, ClaimsUndisturbed DEF Frame, FlipClaims, Claimed
  <1>3. ThreadOK(t)'
    BY <1>1 DEF FlipTypes, ThreadOK, Behalf, Claimed, Flipping, Java
  <1> QED
    BY <1>1, <1>2, <1>3, MutatorKeeps

\* A thread that attaches has no flip function.
LEMMA RegisterKeeps ==
  ASSUME FlipInv, NEW t \in Thread, F!Register(t)
  PROVE  FlipInv'
  <1> USE FlipAssumption DEF F!ThreadAssumption, F!All, FlipInv
  <1>0. t \notin pending
    BY DEF F!Register, ThreadOK
  <1>1. /\ Frame(t)
        /\ pc[t] = "new" /\ pc'[t] = "native" /\ t \notin pending
        /\ flip_list' = flip_list \cup {t}
        /\ UNCHANGED <<runnable, pins, pending, flip_running, flip_function, arg, flip_ret,
                       exit_flags, flipping, to_flip>>
    BY <1>0 DEF F!Register, F!Goto, F!flags, F!collector, FlipTypes, Frame, Only
  <1>2. FlipClaims'
    BY <1>1, ClaimsUndisturbed DEF Frame, FlipClaims, Claimed
  <1>3. ThreadOK(t)'
    BY <1>1 DEF FlipTypes, ThreadOK, Behalf, Claimed, Flipping, Java
  <1> QED
    BY <1>1, <1>2, <1>3, MutatorKeeps

\* A thread that detaches has no suspend request, and nobody runs its flip function.
LEMMA UnregisterKeeps ==
  ASSUME FlipInv, NEW t \in Thread, F!Unregister(t)
  PROVE  FlipInv'
  <1> USE FlipAssumption DEF F!ThreadAssumption, F!All, FlipInv
  <1>1. /\ Frame(t)
        /\ pc[t] = "native" /\ pc'[t] = "exited"
        /\ t \notin flip_running /\ pins[t] = {} /\ flip_list' = flip_list \ {t}
        /\ UNCHANGED <<runnable, pins, pending, flip_running, flip_function, arg, flip_ret,
                       exit_flags, flipping, to_flip>>
    BY DEF F!Unregister, F!MayDetach, F!SuspendRequest, F!Goto, F!flags, F!collector,
       FlipTypes, Frame, Only
  <1>2. FlipClaims'
    BY SMT, <1>1, ClaimsUndisturbed DEF Frame, FlipClaims, Claimed
  <1>3. ThreadOK(t)'
    BY <1>1 DEF FlipTypes, ThreadOK, Behalf, Claimed, Flipping, Java
  <1> QED
    BY <1>1, <1>2, <1>3, MutatorKeeps

\* A thread leaves native code, or finds that another thread runs its flip function.
LEMMA ResumeKeeps ==
  ASSUME FlipInv, NEW t \in Thread, F!LeaveNative(t) \/ F!AwaitFlip(t)
  PROVE  FlipInv'
  <1> USE FlipAssumption DEF F!ThreadAssumption, F!All, FlipInv
  <1>1. /\ Frame(t)
        /\ pc[t] \in {"native", "resume"} /\ pc'[t] \in {"resume", "flip_wait"}
        /\ UNCHANGED <<flip_list, pending, flip_running, flip_function, runnable, pins, arg,
                       flip_ret, exit_flags, flipping, to_flip>>
    BY DEF F!LeaveNative, F!AwaitFlip, F!Goto, F!flags, F!collector, FlipTypes, Frame,
       Only
  <1>2. FlipClaims'
    BY <1>1, ClaimsUndisturbed DEF Frame, FlipClaims, Claimed
  <1>3. ThreadOK(t)'
    BY <1>1 DEF FlipTypes, ThreadOK, Behalf, Claimed, Flipping, Java
  <1> QED
    BY <1>1, <1>2, <1>3, MutatorKeeps

\* TransitionFromSuspendedToRunnable with no flip function and no suspend request.
LEMMA BecomeRunnableKeeps ==
  ASSUME FlipInv, NEW t \in Thread, F!BecomeRunnable(t)
  PROVE  FlipInv'
  <1> USE FlipAssumption DEF F!ThreadAssumption, F!All, FlipInv
  <1>1. /\ Frame(t)
        /\ pc[t] = "resume" /\ pc'[t] = "java"
        /\ pins[t] = {} /\ t \notin pending \cup flip_running
        /\ runnable' = runnable \cup {t}
        /\ UNCHANGED <<flip_list, pending, flip_running, flip_function, pins, arg, flip_ret,
                       exit_flags, flipping, to_flip>>
    BY DEF F!BecomeRunnable, F!SuspendRequest, F!Flipped, F!Goto, F!flags, F!collector,
       FlipTypes, Frame, Only
  <1>2. FlipClaims'
    BY <1>1, ClaimsUndisturbed DEF Frame, FlipClaims, Claimed
  <1>3. ThreadOK(t)'
    BY <1>1 DEF FlipTypes, ThreadOK, Behalf, Claimed, Flipping, Java
  <1> QED
    BY <1>1, <1>2, <1>3, MutatorKeeps

\* TransitionFromSuspendedToRunnable with a pending flip function, which the thread
\* claims.
LEMMA BecomeRunnableAndFlipKeeps ==
  ASSUME FlipInv, NEW t \in Thread, F!BecomeRunnableAndFlip(t)
  PROVE  FlipInv'
  <1> USE FlipAssumption DEF F!ThreadAssumption, F!All, FlipInv
  <1>0. t \in flip_list
    BY DEF F!BecomeRunnableAndFlip, ThreadOK
  <1>1. /\ Frame(t)
        /\ pc[t] = "resume" /\ pc'[t] = "flip_run" /\ arg'[t] = t /\ flip_ret'[t] = "java"
        /\ t \in pending \cap flip_list
        /\ pending' = pending \ {t} /\ flip_running' = flip_running \cup {t}
        /\ runnable' = runnable \cup {t}
        /\ UNCHANGED <<flip_list, flip_function, pins, exit_flags, flipping, to_flip>>
    BY <1>0 DEF F!BecomeRunnableAndFlip, F!Claim, F!Unclaimed, F!SuspendRequest, F!Goto,
       F!flags, F!collector, FlipTypes, Frame, Only
  <1>2. FlipClaims'
    BY SMT, <1>1, ClaimsTaken DEF Frame, FlipClaims, Claimed
  <1>3. ThreadOK(t)'
    BY <1>1 DEF FlipTypes, ThreadOK, Behalf, Claimed, Flipping, Java
  <1> QED
    BY <1>1, <1>2, <1>3, MutatorKeeps

\* A Runnable thread that runs no flip function suspends itself.
LEMMA SuspendKeeps ==
  ASSUME FlipInv, NEW t \in Thread, F!BecomeSuspended(t, "resume") \/ F!BecomeSuspended(t, "native")
  PROVE  FlipInv'
  <1> USE FlipAssumption DEF F!ThreadAssumption, F!All, FlipInv
  <1>1. /\ Frame(t)
        /\ pc[t] = "java" /\ pc'[t] \in {"resume", "native"}
        /\ runnable' = runnable \ {t}
        /\ UNCHANGED <<flip_list, pending, flip_running, flip_function, pins, arg, flip_ret,
                       exit_flags, flipping, to_flip>>
    BY DEF F!BecomeSuspended, F!Goto, F!flags, F!collector, FlipTypes, Frame, Only
  <1>2. FlipClaims'
    BY <1>1, ClaimsUndisturbed DEF Frame, FlipClaims, Claimed
  <1>3. ThreadOK(t)'
    BY <1>1 DEF FlipTypes, ThreadOK, Behalf, Claimed, Flipping, Java
  <1> QED
    BY <1>1, <1>2, <1>3, MutatorKeeps

\* A thread keeps another one suspended, to act on its behalf.
LEMMA PinKeeps ==
  ASSUME FlipInv, NEW t \in Thread, NEW u \in F!All, F!Pin(t, u)
  PROVE  FlipInv'
  <1> USE FlipAssumption DEF F!ThreadAssumption, F!All, FlipInv
  <1>1. /\ Frame(t)
        /\ pc[t] = "java" /\ pc'[t] = "pinned" /\ arg'[t] = u
        /\ u \in flip_list \ runnable /\ t \in pins'[u]
        /\ UNCHANGED <<flip_list, pending, flip_running, flip_function, runnable, flip_ret,
                       exit_flags, flipping, to_flip>>
    BY DEF F!Pin, F!Goto, F!flags, F!collector, FlipTypes, Frame, Only
  <1>2. FlipClaims'
    BY <1>1, ClaimsUndisturbed DEF Frame, FlipClaims, Claimed
  <1>3. ThreadOK(t)'
    BY <1>1 DEF FlipTypes, ThreadOK, Behalf, Claimed, Flipping, Java
  <1> QED
    BY <1>1, <1>2, <1>3, MutatorKeeps

\* EnsureFlipFunctionStarted claims the flip function of the thread kept suspended.
LEMMA EnsureFlippedKeeps ==
  ASSUME FlipInv, NEW t \in Thread, F!EnsureFlipped(t)
  PROVE  FlipInv'
  <1> USE FlipAssumption DEF F!ThreadAssumption, F!All, FlipInv
  <1>0. arg[t] \in flip_list
    BY DEF F!EnsureFlipped, ThreadOK, Behalf, Java
  <1>1. /\ Frame(t)
        /\ pc[t] = "pinned" /\ pc'[t] = "flip_run" /\ flip_ret'[t] = "pinned"
        /\ arg'[t] = arg[t] /\ arg[t] \in pending \cap flip_list
        /\ pending' = pending \ {arg[t]} /\ flip_running' = flip_running \cup {arg[t]}
        /\ UNCHANGED <<flip_list, runnable, flip_function, pins, exit_flags, flipping, to_flip>>
    BY <1>0 DEF F!EnsureFlipped, F!Claim, F!Unclaimed, F!Goto, F!flags, F!collector,
       FlipTypes, Frame, Only
  <1>2. FlipClaims'
    BY <1>1, ClaimsTaken DEF Frame, FlipClaims, Claimed
  <1>3. ThreadOK(t)'
    BY <1>1 DEF FlipTypes, ThreadOK, Behalf, Claimed, Flipping, Java
  <1> QED
    BY <1>1, <1>2, <1>3, MutatorKeeps

\* EnsureFlipFunctionStarted finds nothing to run.
LEMMA EnsureNothingKeeps ==
  ASSUME FlipInv, NEW t \in Thread, F!EnsureNothingPending(t)
  PROVE  FlipInv'
  <1> USE FlipAssumption DEF F!ThreadAssumption, F!All, FlipInv
  <1>1. /\ Frame(t)
        /\ pc[t] = "pinned" /\ pc'[t] \in {"unpin", "flip_await"} /\ arg[t] \notin pending
        /\ UNCHANGED <<flip_list, pending, flip_running, flip_function, runnable, pins, arg,
                       flip_ret, exit_flags, flipping, to_flip>>
    BY DEF F!EnsureNothingPending, F!Goto, F!flags, F!collector, FlipTypes, Frame, Only
  <1>2. FlipClaims'
    BY <1>1, ClaimsUndisturbed DEF Frame, FlipClaims, Claimed
  <1>3. ThreadOK(t)'
    BY <1>1 DEF FlipTypes, ThreadOK, Behalf, Claimed, Flipping, Java
  <1> QED
    BY <1>1, <1>2, <1>3, MutatorKeeps

\* The thread that was kept suspended is released.
LEMMA UnpinKeeps ==
  ASSUME FlipInv, NEW t \in Thread, F!Unpin(t)
  PROVE  FlipInv'
  <1> USE FlipAssumption DEF F!ThreadAssumption, F!All, FlipInv
  <1>1. /\ Frame(t)
        /\ pc[t] \in {"unpin", "behalf"} /\ pc'[t] = "java"
        /\ UNCHANGED <<flip_list, pending, flip_running, flip_function, runnable, flip_ret,
                       exit_flags, flipping, to_flip>>
    BY DEF F!Unpin, F!Goto, F!flags, F!collector, FlipTypes, Frame, Only
  <1>2. FlipClaims'
    BY <1>1, ClaimsUndisturbed DEF Frame, FlipClaims, Claimed
  <1>3. ThreadOK(t)'
    BY <1>1 DEF FlipTypes, ThreadOK, Behalf, Claimed, Flipping, Java
  <1> QED
    BY <1>1, <1>2, <1>3, MutatorKeeps

\* A thread waits until another has run its flip function, and tries again.
LEMMA WaitKeeps ==
  ASSUME FlipInv, NEW t \in Thread, F!WaitForFlipFunction(t, t, "flip_wait", "resume")
  PROVE  FlipInv'
  <1> USE FlipAssumption DEF F!ThreadAssumption, F!All, FlipInv
  <1>1. /\ Frame(t)
        /\ pc[t] = "flip_wait" /\ pc'[t] \in {"flip_wait", "resume"}
        /\ UNCHANGED <<flip_list, pending, flip_running, flip_function, runnable, pins, arg,
                       flip_ret, exit_flags, flipping, to_flip>>
    BY DEF F!WaitForFlipFunction, F!Goto, F!flags, F!collector, FlipTypes, Frame, Only
  <1>2. FlipClaims'
    BY <1>1, ClaimsUndisturbed DEF Frame, FlipClaims, Claimed
  <1>3. ThreadOK(t)'
    BY <1>1 DEF FlipTypes, ThreadOK, Behalf, Claimed, Flipping, Java
  <1> QED
    BY <1>1, <1>2, <1>3, MutatorKeeps

\* A thread waits for the flip function of the one it acts on behalf of.
LEMMA AwaitKeeps ==
  ASSUME FlipInv, NEW t \in Thread, F!WaitForFlipFunction(t, arg[t], "flip_await", "behalf")
  PROVE  FlipInv'
  <1> USE FlipAssumption DEF F!ThreadAssumption, F!All, FlipInv
  <1>1. /\ Frame(t)
        /\ pc[t] = "flip_await" /\ pc'[t] \in {"flip_await", "behalf"}
        /\ pc'[t] = "behalf" => arg[t] \notin flip_running
        /\ UNCHANGED <<flip_list, pending, flip_running, flip_function, runnable, pins, arg,
                       flip_ret, exit_flags, flipping, to_flip>>
    BY DEF F!WaitForFlipFunction, F!StillRunning, F!Goto, F!flags, F!collector, FlipTypes,
       Frame, Only
  <1>2. FlipClaims'
    BY <1>1, ClaimsUndisturbed DEF Frame, FlipClaims, Claimed
  <1>3. ThreadOK(t)'
    BY <1>1 DEF FlipTypes, ThreadOK, Behalf, Claimed, Flipping, Java
  <1> QED
    BY <1>1, <1>2, <1>3, MutatorKeeps

------------------------------------------------------------------------------
(* The actions of the collector *)

\* The collector runs the closure that it has claimed ...
LEMMA GcRunFlipKeeps ==
  ASSUME FlipInv, F!RunFlipFunction(Gc)
  PROVE  FlipInv'
  <1> USE FlipAssumption DEF F!ThreadAssumption, F!All, FlipInv
  <1>1. /\ Frame(Gc)
        /\ pc[Gc] = "flip_run" /\ pc'[Gc] = "flip_clear"
        /\ flip_function' = flip_function \ {arg[Gc]}
        /\ UNCHANGED <<flip_list, runnable, pins, pending, flip_running, arg, flip_ret,
                       exit_flags, flipping, to_flip>>
    BY DEF F!RunFlipFunction, F!Goto, F!flags, F!collector, FlipTypes, Frame, Only
  <1>2. FlipClaims'
    BY <1>1, ClaimsRun DEF Frame, FlipClaims, Claimed
  <1>3. FlipPasses'
    BY <1>1 DEF FlipTypes, FlipPasses, FlipClaims, Flipping
  <1> QED
    BY <1>1, <1>2, <1>3, CollectorKeeps

\* ... clears kRunningFlipFunction ...
LEMMA GcClearRunningKeeps ==
  ASSUME FlipInv, F!ClearRunning(Gc)
  PROVE  FlipInv'
  <1> USE FlipAssumption DEF F!ThreadAssumption, F!All, FlipInv
  <1>1. /\ Frame(Gc)
        /\ pc[Gc] = "flip_clear" /\ pc'[Gc] = "flip_broadcast"
        /\ flip_running' = flip_running \ {arg[Gc]}
        /\ UNCHANGED <<flip_list, runnable, pins, pending, flip_function, arg, flip_ret,
                       exit_flags, flipping, to_flip>>
    BY DEF F!ClearRunning, F!Goto, F!flags, F!collector, FlipTypes, Frame, Only
  <1>2. FlipClaims'
    BY <1>1, ClaimsGivenUp DEF Frame, FlipClaims, Claimed
  <1>3. FlipPasses'
    BY <1>1 DEF FlipTypes, FlipPasses, FlipClaims, Flipping
  <1> QED
    BY <1>1, <1>2, <1>3, CollectorKeeps

\* ... and wakes those who wait.
LEMMA GcBroadcastKeeps ==
  ASSUME FlipInv, F!BroadcastFlipped(Gc)
  PROVE  FlipInv'
  <1> USE FlipAssumption DEF F!ThreadAssumption, F!All, FlipInv
  <1>1. /\ Frame(Gc)
        /\ pc[Gc] = "flip_broadcast" /\ pc'[Gc] = "gc_finished" /\ arg'[Gc] = arg[Gc]
        /\ UNCHANGED <<flip_list, pending, flip_running, flip_function, runnable, pins,
                       exit_flags, flipping, to_flip>>
    BY DEF F!BroadcastFlipped, FlipPasses, Flipping, F!Goto, F!flags, F!collector,
       FlipTypes, Frame, Only
  <1>2. FlipClaims'
    BY <1>1, ClaimsUndisturbed DEF Frame, FlipClaims, Claimed
  <1>3. FlipPasses'
    BY <1>1 DEF FlipTypes, FlipPasses, FlipClaims, Flipping
  <1> QED
    BY <1>1, <1>2, <1>3, CollectorKeeps

\* SuspendAll begins a flip, ResumeAll lets the threads go with their flip functions.
LEMMA SuspendAllKeeps ==
  ASSUME FlipInv, F!SuspendAll \/ F!ResumeAll
  PROVE  FlipInv'
  <1> USE FlipAssumption DEF F!ThreadAssumption, F!All, FlipInv
  <1>1. /\ Frame(Gc)
        /\ pc[Gc] \in {"gc_idle", "gc_resume"} /\ pc'[Gc] \in {"gc_suspending", "gc_ensure"}
        /\ pc'[Gc] = "gc_suspending" => pc[Gc] = "gc_idle"
        /\ UNCHANGED <<flip_list, pending, flip_running, flip_function, runnable, pins, arg,
                       flip_ret, exit_flags, flipping, to_flip>>
    BY DEF F!SuspendAll, F!ResumeAll, F!Goto, F!flags, F!collector, FlipTypes, Frame, Only
  <1>2. FlipClaims'
    BY <1>1, ClaimsUndisturbed DEF Frame, FlipClaims, Claimed
  <1>3. FlipPasses'
    BY <1>1 DEF FlipTypes, FlipPasses, FlipClaims, Flipping
  <1> QED
    BY <1>1, <1>2, <1>3, CollectorKeeps

\* While no thread is Runnable, every thread of the list gets a flip function.
LEMMA SetFlipFunctionsKeeps ==
  ASSUME FlipInv, F!SetFlipFunctions
  PROVE  FlipInv'
  <1> USE FlipAssumption DEF F!ThreadAssumption, F!All, FlipInv
  <1>1. /\ FlipTypes' /\ Only(Gc)
        /\ pc[Gc] = "gc_suspending" /\ pc'[Gc] = "gc_resume" /\ runnable = {}
        /\ pending' = flip_list /\ flip_function' = flip_list
        /\ exit_flags' = flip_list /\ flipping' = flip_list /\ to_flip' = flip_list
        /\ UNCHANGED <<flip_list, runnable, pins, flip_running, arg, flip_ret>>
    BY DEF F!SetFlipFunctions, F!Goto, FlipTypes, Only
  <1>2. \A t \in F!All : pc[t] \notin Flipping /\ pc'[t] \notin Flipping
    BY <1>1 DEF ThreadOK, Only, Flipping
  <1>3. flip_running = {}
    BY <1>2 DEF FlipClaims, Claimed, Flipping
  <1>4. FlipClaims'
    BY <1>1, <1>2, <1>3 DEF FlipClaims, Claimed, Flipping
  <1>5. FlipPasses'
    BY <1>1, <1>2, <1>3 DEF FlipPasses, Flipping
  <1>6. ASSUME NEW t \in Thread PROVE ThreadOK(t)'
    <2>1. /\ pc'[t] = pc[t] /\ arg'[t] = arg[t] /\ flip_ret'[t] = flip_ret[t]
          /\ pc[t] \notin Java \cup Flipping
      BY <1>1 DEF Only, ThreadOK
    <2> QED
      BY <1>1, <2>1 DEF ThreadOK, Behalf, Java
  <1> QED
    BY <1>1, <1>4, <1>5, <1>6

\* The first pass claims a flip function.
LEMMA EnsureStartedKeeps ==
  ASSUME FlipInv, NEW u \in F!All, F!EnsureStarted(u)
  PROVE  FlipInv'
  <1> USE FlipAssumption DEF F!ThreadAssumption, F!All, FlipInv
  <1>1. /\ Frame(Gc)
        /\ pc[Gc] = "gc_ensure" /\ pc'[Gc] = "flip_run"
        /\ arg'[Gc] = u /\ flip_ret'[Gc] = "gc_finished"
        /\ u \in pending \cap flip_list /\ u \in to_flip /\ to_flip' = to_flip \ {u}
        /\ pending' = pending \ {u} /\ flip_running' = flip_running \cup {u}
        /\ UNCHANGED <<flip_list, runnable, pins, flip_function, exit_flags, flipping>>
    BY DEF F!EnsureStarted, F!HasExited, F!Claim, F!Unclaimed, F!Goto, F!flags,
       F!collector, FlipTypes, Frame, Only
  <1>2. FlipClaims'
    BY <1>1, ClaimsTaken DEF Frame, FlipClaims, Claimed
  <1>3. FlipPasses'
    BY SMT, <1>1 DEF FlipTypes, FlipPasses, FlipClaims, Flipping
  <1> QED
    BY <1>1, <1>2, <1>3, CollectorKeeps

\* The first pass finds a flip function finished, or its thread gone.
LEMMA EnsureFinishedKeeps ==
  ASSUME FlipInv, NEW u \in F!All, F!EnsureFinished(u)
  PROVE  FlipInv'
  <1> USE FlipAssumption DEF F!ThreadAssumption, F!All, FlipInv
  <1>1. /\ Frame(Gc)
        /\ pc[Gc] = "gc_ensure" /\ pc'[Gc] = "gc_finished" /\ arg'[Gc] = u
        /\ u \notin flip_list \/ u \notin pending \cup flip_running
        /\ u \in to_flip /\ to_flip' = to_flip \ {u}
        /\ UNCHANGED <<flip_list, pending, flip_running, flip_function, runnable, pins,
                       flip_ret, exit_flags, flipping>>
    BY DEF F!EnsureFinished, F!HasExited, F!Goto, F!flags, F!collector, FlipTypes, Frame,
       Only
  <1>2. FlipClaims'
    BY <1>1, ClaimsUndisturbed DEF Frame, FlipClaims, Claimed
  <1>3. FlipPasses'
    BY SMT, <1>1 DEF FlipTypes, FlipPasses, FlipClaims, Flipping
  <1> QED
    BY <1>1, <1>2, <1>3, CollectorKeeps

\* The first pass leaves a flip function that is running to the second.
LEMMA EnsureRunningKeeps ==
  ASSUME FlipInv, NEW u \in F!All, F!EnsureRunning(u)
  PROVE  FlipInv'
  <1> USE FlipAssumption DEF F!ThreadAssumption, F!All, FlipInv
  <1>1. /\ Frame(Gc)
        /\ pc[Gc] = "gc_ensure" /\ u \in flip_running /\ to_flip' = to_flip \ {u}
        /\ UNCHANGED <<pc, arg, flip_list, pending, flip_running, flip_function, runnable, pins,
                       flip_ret, exit_flags, flipping>>
    BY DEF F!EnsureRunning, F!Goto, F!flags, F!collector, FlipTypes, Frame, Only
  <1>2. FlipClaims'
    BY <1>1, ClaimsUndisturbed DEF Frame, FlipClaims, Claimed
  <1>3. FlipPasses'
    BY SMT, <1>1 DEF FlipTypes, FlipPasses, FlipClaims, Flipping
  <1> QED
    BY <1>1, <1>2, <1>3, CollectorKeeps

\* The second pass takes the next thread.
LEMMA SecondPassKeeps ==
  ASSUME FlipInv, NEW u \in F!All, F!SecondPass(u)
  PROVE  FlipInv'
  <1> USE FlipAssumption DEF F!ThreadAssumption, F!All, FlipInv
  <1>1. /\ Frame(Gc)
        /\ pc[Gc] \in {"gc_ensure", "gc_second"} /\ pc'[Gc] = "gc_await" /\ to_flip = {}
        /\ UNCHANGED <<flip_list, pending, flip_running, flip_function, runnable, pins,
                       flip_ret, exit_flags, flipping, to_flip>>
    BY DEF F!SecondPass, F!Goto, F!flags, F!collector, FlipTypes, Frame, Only
  <1>2. FlipClaims'
    BY <1>1, ClaimsUndisturbed DEF Frame, FlipClaims, Claimed
  <1>3. FlipPasses'
    BY <1>1 DEF FlipTypes, FlipPasses, FlipClaims, Flipping
  <1> QED
    BY <1>1, <1>2, <1>3, CollectorKeeps

\* The second pass waits for a flip function, or finds the thread gone.
LEMMA AwaitTestingExitedKeeps ==
  ASSUME FlipInv, F!AwaitTestingExited
  PROVE  FlipInv'
  <1> USE FlipAssumption DEF F!ThreadAssumption, F!All, FlipInv
  <1>1. /\ Frame(Gc)
        /\ pc[Gc] = "gc_await" /\ pc'[Gc] \in {"gc_await", "gc_waited"}
        /\ pc'[Gc] = "gc_waited" => arg[Gc] \notin flip_running \cap flip_list
        /\ UNCHANGED <<flip_list, pending, flip_running, flip_function, runnable, pins, arg,
                       flip_ret, exit_flags, flipping, to_flip>>
    BY DEF F!AwaitTestingExited, F!WaitForFlipFunction, F!StillRunning, F!Goto, F!flags,
       F!collector, FlipTypes, Frame, Only
  <1>2. FlipClaims'
    BY <1>1, ClaimsUndisturbed DEF Frame, FlipClaims, Claimed
  <1>3. FlipPasses'
    BY <1>1 DEF FlipTypes, FlipPasses, FlipClaims, Flipping
  <1> QED
    BY <1>1, <1>2, <1>3, CollectorKeeps

\* A thread whose flip function is finished is crossed off.
LEMMA FinishedKeeps ==
  ASSUME FlipInv, F!EnsureUnregister \/ F!AwaitUnregister
  PROVE  FlipInv'
  <1> USE FlipAssumption DEF F!ThreadAssumption, F!All, FlipInv
  <1>1. /\ Frame(Gc)
        /\ \/ pc[Gc] = "gc_finished" /\ pc'[Gc] = "gc_ensure"
           \/ pc[Gc] = "gc_waited" /\ pc'[Gc] = "gc_second"
        /\ exit_flags' = exit_flags \ {arg[Gc]} /\ flipping' = flipping \ {arg[Gc]}
        /\ UNCHANGED <<flip_list, pending, flip_running, flip_function, runnable, pins,
                       flip_ret, to_flip>>
    BY DEF F!EnsureUnregister, F!AwaitUnregister, F!Finished, F!Unfinished, F!Goto,
       F!flags, F!collector, FlipTypes, Frame, Only
  <1>2. FlipClaims'
    BY <1>1, ClaimsUndisturbed DEF Frame, FlipClaims, Claimed
  <1>3. FlipPasses'
    BY <1>1 DEF FlipTypes, FlipPasses, FlipClaims, Flipping
  <1> QED
    BY <1>1, <1>2, <1>3, CollectorKeeps

\* FlipThreadRoots returns when nothing is left to do.
LEMMA FlipReturnsKeeps ==
  ASSUME FlipInv, F!FlipReturns
  PROVE  FlipInv'
  <1> USE FlipAssumption DEF F!ThreadAssumption, F!All, FlipInv
  <1>1. /\ Frame(Gc)
        /\ pc[Gc] \in {"gc_ensure", "gc_second"} /\ pc'[Gc] = "gc_idle" /\ flipping = {}
        /\ UNCHANGED <<flip_list, pending, flip_running, flip_function, runnable, pins, arg,
                       flip_ret, exit_flags, flipping, to_flip>>
    BY DEF F!FlipReturns, F!Goto, F!flags, F!collector, FlipTypes, Frame, Only
  <1>2. FlipClaims'
    BY <1>1, ClaimsUndisturbed DEF Frame, FlipClaims, Claimed
  <1>3. FlipPasses'
    BY <1>1 DEF FlipTypes, FlipPasses, FlipClaims, Flipping
  <1> QED
    BY <1>1, <1>2, <1>3, CollectorKeeps

------------------------------------------------------------------------------
(* The theorems on flip functions *)

\* At the start no thread but the collector's is registered and nothing is to be flipped.
LEMMA FlipInit == F!Init => FlipInv
  <1> SUFFICES ASSUME F!Init PROVE FlipInv
    OBVIOUS
  <1> USE FlipAssumption DEF F!ThreadAssumption, F!All
  <1>1. /\ \A t \in Thread : pc[t] = "new"
        /\ pc[Gc] = "gc_idle"
    BY DEF F!Init
  <1>2. FlipTypes
    BY DEF F!Init, FlipTypes
  <1>3. \A t \in Thread : ThreadOK(t)
    BY <1>1 DEF F!Init, ThreadOK, Behalf, Java, Flipping
  <1>4. FlipClaims
    BY <1>1 DEF F!Init, FlipClaims, Claimed
  <1>5. FlipPasses
    BY <1>1 DEF F!Init, FlipPasses, Flipping
  <1> QED
    BY <1>2, <1>3, <1>4, <1>5 DEF FlipInv

\* Every step keeps the invariant.
LEMMA FlipNext == FlipInv /\ [F!Next]_F!vars => FlipInv'
  <1> SUFFICES ASSUME FlipInv, [F!Next]_F!vars PROVE FlipInv'
    OBVIOUS
  <1>1. ASSUME NEW t \in Thread, F!MutatorStep(t) PROVE FlipInv'
    BY ZenonT(30), <1>1, RunFlipKeeps, ClearRunningKeeps, BroadcastKeeps, BecomeRunnableKeeps,
       BecomeRunnableAndFlipKeeps, ResumeKeeps, WaitKeeps, SuspendKeeps, EnsureFlippedKeeps,
       EnsureNothingKeeps, UnpinKeeps, AwaitKeeps
       DEF F!MutatorStep, F!Flip
  <1>2. ASSUME NEW t \in Thread, F!MutatorChoice(t) PROVE FlipInv'
    BY ZenonT(30), <1>2, RegisterKeeps, UnregisterKeeps, ResumeKeeps, SuspendKeeps, PinKeeps
       DEF F!MutatorChoice
  <1>3. CASE F!SuspendAll
    BY <1>3, SuspendAllKeeps
  <1>4. CASE F!FlipThreadRoots
    BY ZenonT(30), <1>4, GcRunFlipKeeps, GcClearRunningKeeps, GcBroadcastKeeps, SuspendAllKeeps,
       SetFlipFunctionsKeeps, FinishedKeeps, AwaitTestingExitedKeeps, FlipReturnsKeeps,
       EnsureStartedKeeps, EnsureFinishedKeeps, EnsureRunningKeeps, SecondPassKeeps
       DEF F!FlipThreadRoots, F!Flip
  <1>5. CASE UNCHANGED F!vars
    <2>1. UNCHANGED <<flip_list, runnable, pins, pending, flip_running, flip_function, pc, arg,
                      flip_ret, exit_flags, flipping, to_flip>>
      BY <1>5 DEF F!vars, F!flags, F!collector
    <2>2. FlipTypes' /\ FlipClaims' /\ FlipPasses'
      BY <2>1 DEF FlipInv, FlipTypes, FlipClaims, FlipPasses
    <2>3. \A t \in Thread : ThreadOK(t)'
      BY <2>1 DEF FlipInv, ThreadOK, Behalf
    <2> QED
      BY <2>2, <2>3 DEF FlipInv
  <1> QED
    BY <1>1, <1>2, <1>3, <1>4, <1>5 DEF F!Next, F!Terminated

\* Managed code never runs on a thread whose flip function has not been run to its end, and
\* a closure run on behalf of a thread finds it suspended and flipped, for any number of
\* threads that attach, detach and act for each other, and any number of flips.
THEOREM FlippedFirst == F!Spec => []FlippedBeforeJava
  <1>1. FlipInv => FlippedBeforeJava
    <2> SUFFICES ASSUME FlipInv PROVE F!FlippedBeforeJava /\ F!BehalfFlipped
      BY DEF FlippedBeforeJava
    <2>1. ASSUME NEW t \in Thread, F!InJava(t)
          PROVE  t \notin pending \cup flip_running \cup flip_function
      <3>1. pc[t] \in Java /\ pc[t] \notin Claimed /\ ThreadOK(t)
        BY <2>1 DEF F!InJava, Java, Claimed, FlipInv
      <3>2. t \notin pending \cup flip_running
        BY <3>1 DEF ThreadOK
      <3> QED
        BY <3>2 DEF FlipInv, FlipClaims
    <2>2. ASSUME NEW t \in Thread, pc[t] = "behalf"
          PROVE  arg[t] \in flip_list \ runnable /\ arg[t] \notin pending \cup flip_running
      BY <2>2 DEF FlipInv, ThreadOK, Behalf, Java
    <2> QED
      BY <2>1, <2>2 DEF F!FlippedBeforeJava, F!BehalfFlipped
  <1> QED
    BY <1>1, FlipInit, FlipNext, PTL DEF F!Spec

\* A flip function is claimed by one thread only while it has not been run, of a thread that
\* still exists, and when FlipThreadRoots returns all are complete and none of its
\* ThreadExitFlags is registered any more.
THEOREM FlippedOnce == F!Spec => []FlipExactlyOnce
  <1>1. FlipInv => FlipExactlyOnce
    <2> SUFFICES ASSUME FlipInv PROVE F!FlipExactlyOnce /\ F!TargetAlive /\ F!FlipsComplete
      BY DEF FlipExactlyOnce
    <2>1. F!FlipExactlyOnce
      BY DEF F!FlipExactlyOnce, FlipInv, FlipClaims, Claimed
    <2>2. F!TargetAlive
      BY DEF F!TargetAlive, FlipInv, FlipClaims, Claimed
    <2>3. F!FlipsComplete
      BY DEF F!FlipsComplete, FlipInv, FlipPasses
    <2> QED
      BY <2>1, <2>2, <2>3
  <1> QED
    BY <1>1, FlipInit, FlipNext, PTL DEF F!Spec

------------------------------------------------------------------------------
(* JitCodeCache: the inductive invariant *)

\* The code that entry points lead to.
Entries == {c \in Code : \E m \in Method : entry_point[m] = c}

\* The code that a holds while it changes an entry point: what it will store there, or has
\* replaced.
Held(a) ==
    IF pc[a] = "zombie" THEN {callee[a]}
    ELSE IF pc[a] \in {"load", "exchange"} THEN {callee[a].new} \ {None} ELSE {}

\* The code that t runs or is about to enter.
Using(t) == J!OnStack(t) \cup (IF pc[t] = "enter" THEN {callee[t]} ELSE {})

\* What an actor may hold; only the worker commits code and collects.
ActorOK(a) ==
    /\ pc[a] \in {"safe", "load", "exchange", "zombie"}
                    \cup (IF a = Jit THEN {"mark", "reset"} ELSE {"enter"})
    /\ pc[a] = "safe" => callee[a] = None
    /\ pc[a] \in {"enter", "zombie"} => callee[a] \in Code
    /\ pc[a] = "load" => callee[a] \in [method : Method, new : Code \cup {None}]
    /\ pc[a] = "exchange" =>
          callee[a] \in [method : Method, old : Code \cup {None}, new : Code \cup {None}]
    /\ a # Jit /\ pc[a] \in {"load", "exchange"} => callee[a].new = None

CodeTypes ==
    /\ allocated \subseteq Code /\ osr_code \subseteq Code
    /\ zombie_code \subseteq Code /\ processed_zombie_code \subseteq Code
    /\ DOMAIN method_code_map = Code
    /\ entry_point \in [Method -> Code \cup {None}]
    /\ stack \in [Mutator -> Seq(Code)]

ActorTypes ==
    /\ pc = [a \in J!Actor |-> pc[a]] /\ callee = [a \in J!Actor |-> callee[a]]
    /\ \A a \in J!Actor : ActorOK(a)

\* Code has one role at most: entry point of its own method, OSR entry, held by an actor,
\* zombie, or set aside by the collection; and code that has a role is allocated.
CodeRoles ==
    /\ Entries \cup osr_code \cup zombie_code \cup processed_zombie_code \subseteq allocated
    /\ Entries \cap osr_code = {} /\ zombie_code \cap processed_zombie_code = {}
    /\ (Entries \cup osr_code) \cap (zombie_code \cup processed_zombie_code) = {}
    /\ \A m \in Method : entry_point[m] # None => method_code_map[entry_point[m]] = m
    /\ \A a \in J!Actor :
          /\ Held(a) \subseteq allocated
          /\ Held(a) \cap (Entries \cup osr_code \cup zombie_code \cup processed_zombie_code) = {}
    /\ \A a, b \in J!Actor : a # b => Held(a) \cap Held(b) = {}
    /\ \A c \in Held(Jit) : pc[Jit] # "zombie" => method_code_map[c] = callee[Jit].method

\* What a thread runs is allocated, and once it has been marked, what it runs of the code
\* set aside is in the bitmap.
CodeKept ==
    /\ \A t \in Mutator : Using(t) \subseteq allocated
    /\ pc[Jit] = "mark" =>
          \A t \in Mutator \ unmarked : Using(t) \cap processed_zombie_code \subseteq live_bitmap

CodeInv == CodeTypes /\ ActorTypes /\ CodeRoles /\ CodeKept

------------------------------------------------------------------------------
(* The kinds of step *)

\* What an actor does that moves only its own pc.
Alone(a) == \A b \in J!Actor \ {a} : pc'[b] = pc[b] /\ callee'[b] = callee[b]

\* The other actors hold what they held.
LEMMA AloneHeld ==
  ASSUME NEW a \in J!Actor, Alone(a)
  PROVE  \A b \in J!Actor \ {a} :
            pc'[b] = pc[b] /\ callee'[b] = callee[b] /\ Held(b)' = Held(b)
  BY DEF Alone, Held

\* An actor that goes on to l with x.
LEMMA Going ==
  ASSUME ActorTypes, NEW a \in J!Actor, NEW l, NEW x, J!Goto(a, l, x)
  PROVE  /\ Alone(a) /\ pc'[a] = l /\ callee'[a] = x
         /\ ActorOK(a)' => ActorTypes'
  <1>1. /\ pc' = [b \in J!Actor |-> IF b = a THEN l ELSE pc[b]]
        /\ callee' = [b \in J!Actor |-> IF b = a THEN x ELSE callee[b]]
    BY DEF ActorTypes, J!Goto
  <1>2. Alone(a) /\ pc'[a] = l /\ callee'[a] = x
    BY <1>1 DEF Alone
  <1>3. \A b \in J!Actor \ {a} : ActorOK(b)'
    BY <1>2 DEF ActorTypes, ActorOK, Alone
  <1>4. pc' = [b \in J!Actor |-> pc'[b]] /\ callee' = [b \in J!Actor |-> callee'[b]]
    BY <1>1
  <1> QED
    BY <1>2, <1>3, <1>4 DEF ActorTypes

\* An actor that gives up what it holds.
LEMMA GoingSafe ==
  ASSUME ActorTypes, NEW a \in J!Actor, J!Goto(a, "safe", None)
  PROVE  /\ ActorTypes' /\ Held(a)' = {}
         /\ \A b \in J!Actor \ {a} :
               pc'[b] = pc[b] /\ callee'[b] = callee[b] /\ Held(b)' = Held(b)
  <1>1. Alone(a) /\ pc'[a] = "safe" /\ callee'[a] = None /\ (ActorOK(a)' => ActorTypes')
    BY Going
  <1>2. ActorOK(a)' /\ Held(a)' = {}
    BY <1>1 DEF ActorOK, Held
  <1> QED
    BY <1>1, <1>2, AloneHeld

\* Roles that code only loses.
LEMMA RolesShrink ==
  ASSUME CodeRoles, Entries' \subseteq Entries, osr_code' \subseteq osr_code,
         zombie_code' \subseteq zombie_code,
         processed_zombie_code' \subseteq processed_zombie_code,
         Entries' \cup osr_code' \cup zombie_code' \cup processed_zombie_code' \subseteq allocated',
         \A a \in J!Actor : Held(a)' \subseteq Held(a) \cap allocated',
         \A m \in Method : entry_point'[m] # None => method_code_map'[entry_point'[m]] = m,
         \A c \in Held(Jit)' : pc'[Jit] # "zombie" => method_code_map'[c] = callee'[Jit].method
  PROVE  CodeRoles'
  BY DEF CodeRoles

\* What is on a stack after a call and after a return.
LEMMA RangeAppend ==
  ASSUME NEW s \in Seq(Code), NEW c \in Code
  PROVE  J!Range(Append(s, c)) = J!Range(s) \cup {c}
  <1>1. /\ DOMAIN Append(s, c) = 1..Len(s) + 1 /\ DOMAIN s = 1..Len(s)
        /\ \A i \in 1..Len(s) : Append(s, c)[i] = s[i]
        /\ Append(s, c)[Len(s) + 1] = c /\ Len(s) \in Nat
    BY SMT
  <1> QED
    BY SMT, <1>1 DEF J!Range

LEMMA RangeReturn ==
  ASSUME NEW s \in Seq(Code), s # << >>
  PROVE  /\ SubSeq(s, 1, Len(s) - 1) \in Seq(Code)
         /\ J!Range(SubSeq(s, 1, Len(s) - 1)) \subseteq J!Range(s)
  <1>1. Len(s) \in Nat /\ Len(s) # 0
    BY SMT
  <1>2. /\ SubSeq(s, 1, Len(s) - 1) \in Seq(Code)
        /\ DOMAIN SubSeq(s, 1, Len(s) - 1) = 1..Len(s) - 1
        /\ \A i \in 1..Len(s) - 1 : SubSeq(s, 1, Len(s) - 1)[i] = s[i]
    BY SMT, <1>1
  <1> QED
    BY SMT, <1>1, <1>2 DEF J!Range

\* Roles that nobody changes, of code that some actor may stop holding.
LEMMA RolesUndisturbed ==
  ASSUME CodeRoles, UNCHANGED <<J!maps, entry_point, zombie_code, processed_zombie_code>>,
         \A a \in J!Actor : Held(a)' \subseteq Held(a),
         Held(Jit)' # {} => \/ pc'[Jit] = "zombie"
                            \/ pc[Jit] # "zombie" /\ callee'[Jit].method = callee[Jit].method
  PROVE  CodeRoles'
  <1>1. Entries' = Entries
    BY DEF Entries
  <1>2. /\ allocated' = allocated /\ osr_code' = osr_code /\ zombie_code' = zombie_code
        /\ processed_zombie_code' = processed_zombie_code
        /\ method_code_map' = method_code_map /\ entry_point' = entry_point
    BY DEF J!maps
  <1>3. Jit \in J!Actor
    BY DEF J!Actor
  <1> QED
    BY <1>1, <1>2, <1>3 DEF CodeRoles

\* Threads run what they ran, or code that no collection may free.
LEMMA KeptUndisturbed ==
  ASSUME CodeKept, allocated \subseteq allocated',
         processed_zombie_code' \subseteq processed_zombie_code,
         live_bitmap \subseteq live_bitmap',
         \A t \in Mutator : Using(t)' \subseteq Using(t) \cup (allocated' \ processed_zombie_code'),
         pc'[Jit] = "mark" => pc[Jit] = "mark" /\ unmarked' = unmarked
  PROVE  CodeKept'
  BY DEF CodeKept

\* What code is an entry point.
LEMMA EntryCode ==
  ASSUME CodeInv, NEW m \in Method, entry_point[m] # None
  PROVE  /\ entry_point[m] \in Entries /\ entry_point[m] \in allocated \ processed_zombie_code
         /\ entry_point[m] \in Code
  BY DEF CodeInv, CodeTypes, CodeRoles, Entries

------------------------------------------------------------------------------
(* The steps of JitCodeCache *)

LEMMA CodeInit == J!Init => CodeInv
  <1> SUFFICES ASSUME J!Init PROVE CodeInv
    OBVIOUS
  <1>1. \A a \in J!Actor : pc[a] = "safe" /\ callee[a] = None /\ Held(a) = {} /\ ActorOK(a)
    BY DEF J!Init, Held, ActorOK
  <1>2. Entries = {}
    BY JitAssumption DEF J!Init, Entries, J!CodeAssumption
  <1>3. Jit \in J!Actor /\ Mutator \subseteq J!Actor
    BY DEF J!Actor
  <1>4. \A t \in Mutator : Using(t) = {}
    BY SMT, <1>1, <1>3 DEF J!Init, Using, J!OnStack, J!Range
  <1>5. CodeTypes
    BY SMT DEF J!Init, CodeTypes
  <1>6. ActorTypes
    BY <1>1 DEF J!Init, ActorTypes
  <1>7. CodeRoles
    BY <1>1, <1>2, <1>3 DEF J!Init, CodeRoles
  <1>8. CodeKept
    BY <1>1, <1>3, <1>4 DEF CodeKept
  <1> QED
    BY <1>5, <1>6, <1>7, <1>8 DEF CodeInv

\* A thread that is about to enter code that is an entry point or OSR code.
LEMMA AboutToEnter ==
  ASSUME CodeInv, NEW t \in Mutator, pc[t] = "safe",
         NEW c \in Code, c \in allocated \ processed_zombie_code, J!Goto(t, "enter", c),
         UNCHANGED <<J!maps, entry_point, zombie_code, processed_zombie_code, J!collection, stack>>
  PROVE  CodeInv'
  <1>0. CodeTypes /\ ActorTypes /\ CodeRoles /\ CodeKept /\ t \in J!Actor /\ t # Jit
    BY JitAssumption DEF CodeInv, J!Actor, J!CodeAssumption
  <1>1. /\ Alone(t) /\ pc'[t] = "enter" /\ callee'[t] = c
        /\ ActorOK(t)' => ActorTypes'
    BY <1>0, Going
  <1>2. ActorTypes'
    BY <1>0, <1>1 DEF ActorOK
  <1>3. /\ Held(t)' = {} /\ pc'[Jit] = pc[Jit] /\ callee'[Jit] = callee[Jit]
        /\ Held(Jit)' = Held(Jit)
        /\ \A a \in J!Actor : Held(a)' \subseteq Held(a)
    BY <1>0, <1>1, AloneHeld DEF Held, J!Actor
  <1>4. CodeRoles'
    BY <1>0, <1>3, RolesUndisturbed DEF Held
  <1>5. \A b \in Mutator : Using(b)' \subseteq Using(b) \cup {c}
    BY <1>0, <1>1, AloneHeld DEF Using, J!OnStack, J!Range, J!Actor
  <1>6. CodeKept'
    BY <1>0, <1>3, <1>5, KeptUndisturbed DEF J!maps, J!collection
  <1>7. CodeTypes'
    BY <1>0 DEF CodeTypes, J!maps
  <1> QED
    BY <1>2, <1>4, <1>6, <1>7 DEF CodeInv

LEMMA CallKeeps ==
  ASSUME CodeInv, NEW t \in Mutator, J!Call(t)
  PROVE  CodeInv'
  <1>1. PICK m \in Method : entry_point[m] # None /\ J!Goto(t, "enter", entry_point[m])
    BY DEF J!Call
  <1>2. entry_point[m] \in Code /\ entry_point[m] \in allocated \ processed_zombie_code
    BY <1>1, EntryCode
  <1>3. /\ pc[t] = "safe"
        /\ UNCHANGED <<J!maps, entry_point, zombie_code, processed_zombie_code, J!collection,
                       stack>>
    BY DEF J!Call
  <1> QED
    BY <1>1, <1>2, <1>3, AboutToEnter

LEMMA PrepareForOsrKeeps ==
  ASSUME CodeInv, NEW t \in Mutator, J!PrepareForOsr(t)
  PROVE  CodeInv'
  <1>1. PICK c \in osr_code : J!Goto(t, "enter", c)
    BY DEF J!PrepareForOsr
  <1>2. c \in Code /\ c \in allocated \ processed_zombie_code
    BY DEF CodeInv, CodeTypes, CodeRoles
  <1>3. /\ pc[t] = "safe"
        /\ UNCHANGED <<J!maps, entry_point, zombie_code, processed_zombie_code, J!collection,
                       stack>>
    BY DEF J!PrepareForOsr
  <1> QED
    BY <1>1, <1>2, <1>3, AboutToEnter

LEMMA EnterKeeps ==
  ASSUME CodeInv, NEW t \in Mutator, J!Enter(t)
  PROVE  CodeInv'
  <1>0. CodeTypes /\ ActorTypes /\ CodeRoles /\ CodeKept /\ t \in J!Actor /\ t # Jit
    BY JitAssumption DEF CodeInv, J!Actor, J!CodeAssumption
  <1>1. /\ pc[t] = "enter" /\ stack' = [stack EXCEPT ![t] = Append(@, callee[t])]
        /\ J!Goto(t, "safe", None)
        /\ UNCHANGED <<J!maps, entry_point, zombie_code, processed_zombie_code, J!collection>>
    BY DEF J!Enter
  <1>2. /\ ActorTypes' /\ Held(t)' = {}
        /\ \A b \in J!Actor \ {t} :
              pc'[b] = pc[b] /\ callee'[b] = callee[b] /\ Held(b)' = Held(b)
    BY <1>0, <1>1, GoingSafe
  <1>3. CodeRoles'
    BY <1>0, <1>1, <1>2, RolesUndisturbed DEF Held, J!Actor
  <1>4. /\ stack[t] \in Seq(Code) /\ callee[t] \in Code /\ pc'[t] = "safe"
        /\ stack'[t] = Append(stack[t], callee[t])
        /\ \A b \in Mutator \ {t} : stack'[b] = stack[b]
    BY <1>0, <1>1, Going DEF CodeTypes, ActorTypes, ActorOK
  <1>5. J!Range(stack'[t]) = J!Range(stack[t]) \cup {callee[t]}
    BY <1>4, RangeAppend
  <1>6. Using(t)' = Using(t)
    BY <1>1, <1>4, <1>5 DEF Using, J!OnStack
  <1>7. \A b \in Mutator \ {t} : Using(b)' = Using(b)
    BY <1>2, <1>4 DEF Using, J!OnStack, J!Actor
  <1>8. pc'[Jit] = pc[Jit]
    BY <1>0, <1>2 DEF J!Actor
  <1>9. CodeKept'
    BY <1>0, <1>1, <1>6, <1>7, <1>8, KeptUndisturbed DEF J!maps, J!collection
  <1>10. CodeTypes'
    BY SMT, <1>0, <1>1, <1>4 DEF CodeTypes, J!maps
  <1> QED
    BY <1>2, <1>3, <1>9, <1>10 DEF CodeInv

LEMMA ReturnKeeps ==
  ASSUME CodeInv, NEW t \in Mutator, J!Return(t)
  PROVE  CodeInv'
  <1>0. CodeTypes /\ ActorTypes /\ CodeRoles /\ CodeKept
    BY DEF CodeInv
  <1>1. /\ stack[t] # << >> /\ stack' = [stack EXCEPT ![t] = SubSeq(@, 1, Len(@) - 1)]
        /\ UNCHANGED <<J!maps, entry_point, zombie_code, processed_zombie_code, J!collection,
                       pc, callee>>
    BY DEF J!Return
  <1>2. /\ stack[t] \in Seq(Code) /\ stack'[t] = SubSeq(stack[t], 1, Len(stack[t]) - 1)
        /\ \A b \in Mutator \ {t} : stack'[b] = stack[b]
    BY <1>0, <1>1 DEF CodeTypes
  <1>3. stack'[t] \in Seq(Code) /\ J!Range(stack'[t]) \subseteq J!Range(stack[t])
    BY <1>1, <1>2, RangeReturn
  <1>4. CodeTypes'
    BY <1>0, <1>1, <1>3 DEF CodeTypes, J!maps
  <1>5. ActorTypes'
    BY <1>0, <1>1 DEF ActorTypes, ActorOK
  <1>6. \A b \in Mutator : Using(b)' \subseteq Using(b)
    BY <1>1, <1>2, <1>3 DEF Using, J!OnStack
  <1>7. CodeKept'
    BY <1>0, <1>1, <1>6, KeptUndisturbed DEF J!maps, J!collection
  <1>8. \A a \in J!Actor : Held(a)' = Held(a)
    BY <1>1 DEF Held
  <1>9. CodeRoles'
    BY <1>0, <1>1, <1>8, RolesUndisturbed DEF Held, J!Actor
  <1> QED
    BY <1>4, <1>5, <1>7, <1>9 DEF CodeInv

\* An actor that changes only what it holds, to less: the threads run what they ran.
LEMMA HoldsLess ==
  ASSUME CodeInv, ActorTypes', NEW a \in J!Actor,
         pc[a] # "enter", pc'[a] \notin {"enter", "mark"},
         \A b \in J!Actor \ {a} :
            pc'[b] = pc[b] /\ callee'[b] = callee[b] /\ Held(b)' = Held(b),
         Held(a)' \subseteq Held(a),
         Held(a)' # {} => pc[a] # "zombie" /\ callee'[a].method = callee[a].method,
         UNCHANGED <<J!maps, entry_point, zombie_code, processed_zombie_code, J!collection, stack>>
  PROVE  CodeInv'
  <1>0. CodeTypes /\ CodeRoles /\ CodeKept /\ Jit \in J!Actor /\ Mutator \subseteq J!Actor
    BY DEF CodeInv, J!Actor
  <1>1. CodeTypes'
    BY <1>0 DEF CodeTypes, J!maps
  <1>2. \A b \in J!Actor : Held(b)' \subseteq Held(b)
    BY SMT
  <1>3. Held(Jit)' # {} => \/ pc'[Jit] = "zombie"
                           \/ pc[Jit] # "zombie" /\ callee'[Jit].method = callee[Jit].method
    BY <1>0
  <1>4. CodeRoles'
    BY <1>0, <1>2, <1>3, RolesUndisturbed
  <1>5. \A t \in Mutator : Using(t)' = Using(t)
    BY <1>0 DEF Using, J!OnStack
  <1>6. pc'[Jit] = "mark" => pc[Jit] = "mark"
    BY <1>0
  <1>7. CodeKept'
    BY <1>0, <1>5, <1>6, KeptUndisturbed DEF J!maps, J!collection
  <1> QED
    BY <1>1, <1>4, <1>7 DEF CodeInv

LEMMA InvalidateCompiledCodeForKeeps ==
  ASSUME CodeInv, NEW t \in Mutator, J!InvalidateCompiledCodeFor(t)
  PROVE  CodeInv'
  <1>0. CodeTypes /\ ActorTypes /\ CodeRoles /\ CodeKept /\ t \in J!Actor /\ t # Jit
    BY JitAssumption DEF CodeInv, J!Actor, J!CodeAssumption
  <1>1. /\ pc[t] = "safe"
        /\ UNCHANGED <<allocated, method_code_map, entry_point, zombie_code,
                       processed_zombie_code, J!collection, stack>>
    BY DEF J!InvalidateCompiledCodeFor
  <1>2. \/ UNCHANGED osr_code /\ \E m \in Method : J!Goto(t, "load", [method |-> m, new |-> None])
        \/ osr_code' \subseteq osr_code /\ UNCHANGED <<pc, callee>>
    BY DEF J!InvalidateCompiledCodeFor
  <1>3. CASE /\ UNCHANGED osr_code
             /\ \E m \in Method : J!Goto(t, "load", [method |-> m, new |-> None])
    <2>1. PICK m \in Method : J!Goto(t, "load", [method |-> m, new |-> None])
      BY <1>3
    <2>2. /\ Alone(t) /\ pc'[t] = "load" /\ callee'[t] = [method |-> m, new |-> None]
          /\ ActorOK(t)' => ActorTypes'
      BY <1>0, <2>1, Going
    <2>3. ActorTypes' /\ Held(t)' = {}
      BY SMT, <1>0, <2>2 DEF ActorOK, Held
    <2> QED
      BY <1>0, <1>1, <1>3, <2>2, <2>3, AloneHeld, HoldsLess DEF J!maps
  <1>4. CASE osr_code' \subseteq osr_code /\ UNCHANGED <<pc, callee>>
    <2>1. CodeTypes'
      BY <1>0, <1>1, <1>4 DEF CodeTypes
    <2>2. ActorTypes'
      BY <1>0, <1>4 DEF ActorTypes, ActorOK
    <2>3. (\A a \in J!Actor : Held(a)' = Held(a)) /\ Entries' = Entries
      BY <1>1, <1>4 DEF Held, Entries
    <2>4. Jit \in J!Actor
      BY DEF J!Actor
    <2>5. CodeRoles'
      BY SMT, <1>0, <1>1, <1>4, <2>3, <2>4, RolesShrink DEF CodeRoles
    <2>6. \A b \in Mutator : Using(b)' = Using(b)
      BY <1>1, <1>4 DEF Using, J!OnStack
    <2>7. CodeKept'
      BY <1>0, <1>1, <1>4, <2>6, KeptUndisturbed DEF J!collection
    <2> QED
      BY <2>1, <2>2, <2>5, <2>7 DEF CodeInv
  <1> QED
    BY <1>2, <1>3, <1>4

LEMMA LoadEntryPointKeeps ==
  ASSUME CodeInv, NEW a \in J!Actor, J!LoadEntryPoint(a)
  PROVE  CodeInv'
  <1>0. CodeTypes /\ ActorTypes /\ ActorOK(a)
    BY DEF CodeInv, ActorTypes
  <1>1. /\ pc[a] = "load"
        /\ UNCHANGED <<J!maps, entry_point, zombie_code, processed_zombie_code, J!collection,
                       stack>>
    BY DEF J!LoadEntryPoint
  <1>2. callee[a] \in [method : Method, new : Code \cup {None}]
    BY <1>0, <1>1 DEF ActorOK
  <1>3. \/ J!Goto(a, "safe", None)
        \/ J!Goto(a, "exchange", [method |-> callee[a].method, old |-> entry_point[callee[a].method],
                                  new |-> callee[a].new])
    BY DEF J!LoadEntryPoint
  <1>4. CASE J!Goto(a, "safe", None)
    <2>1. /\ ActorTypes' /\ Held(a)' = {}
          /\ \A b \in J!Actor \ {a} :
                pc'[b] = pc[b] /\ callee'[b] = callee[b] /\ Held(b)' = Held(b)
      BY <1>0, <1>4, GoingSafe
    <2>2. pc'[a] = "safe"
      BY <1>0, <1>4, Going
    <2> QED
      BY <1>1, <2>1, <2>2, HoldsLess
  <1>5. CASE J!Goto(a, "exchange", [method |-> callee[a].method,
                                    old |-> entry_point[callee[a].method],
                                    new |-> callee[a].new])
    <2>1. /\ Alone(a) /\ pc'[a] = "exchange"
          /\ callee'[a] = [method |-> callee[a].method, old |-> entry_point[callee[a].method],
                           new |-> callee[a].new]
          /\ ActorOK(a)' => ActorTypes'
      BY <1>0, <1>5, Going
    <2>2. entry_point[callee[a].method] \in Code \cup {None}
      BY <1>0, <1>2 DEF CodeTypes
    <2>3. ActorTypes' /\ Held(a)' = Held(a) /\ callee'[a].method = callee[a].method
      BY SMT, <1>0, <1>1, <1>2, <2>1, <2>2 DEF ActorOK, Held
    <2> QED
      BY <1>1, <2>1, <2>3, AloneHeld, HoldsLess
  <1> QED
    BY <1>3, <1>4, <1>5

LEMMA MarkCodeKeeps ==
  ASSUME CodeInv, NEW t \in Mutator, J!MarkCode(t)
  PROVE  CodeInv'
  <1>0. CodeTypes /\ ActorTypes /\ CodeRoles /\ CodeKept
    BY DEF CodeInv
  <1>1. /\ pc[t] = "safe" /\ unmarked' = unmarked \ {t}
        /\ live_bitmap' = live_bitmap \cup J!OnStack(t)
        /\ UNCHANGED <<J!maps, entry_point, zombie_code, processed_zombie_code, J!actors>>
    BY DEF J!MarkCode
  <1>2. CodeTypes'
    BY <1>0, <1>1 DEF CodeTypes, J!maps, J!actors
  <1>3. ActorTypes'
    BY <1>0, <1>1 DEF ActorTypes, ActorOK, J!actors
  <1>4. CodeRoles'
    BY <1>0, <1>1, RolesUndisturbed DEF Held, J!actors
  <1>5. \A b \in Mutator : Using(b)' = Using(b)
    BY <1>1 DEF Using, J!OnStack, J!actors
  <1>6. Using(t) = J!OnStack(t) /\ pc'[Jit] = pc[Jit]
    BY <1>1 DEF Using, J!actors
  <1>7. CodeKept'
    BY <1>0, <1>1, <1>5, <1>6 DEF CodeKept, J!maps
  <1> QED
    BY <1>2, <1>3, <1>4, <1>7 DEF CodeInv

\* The exchange makes what the actor holds the entry point, and what it replaces is held.
LEMMA CompareExchangeKeeps ==
  ASSUME CodeInv, NEW a \in J!Actor, J!CompareExchange(a)
  PROVE  CodeInv'
  <1> DEFINE m == callee[a].method
             old == callee[a].old
             new == callee[a].new
  <1>0. /\ CodeTypes /\ ActorTypes /\ CodeRoles /\ CodeKept /\ ActorOK(a)
        /\ Jit \in J!Actor /\ Mutator \subseteq J!Actor
    BY DEF CodeInv, ActorTypes, J!Actor
  <1>1. /\ pc[a] = "exchange"
        /\ UNCHANGED <<J!maps, zombie_code, processed_zombie_code, J!collection, stack>>
    BY DEF J!CompareExchange
  <1>2. m \in Method /\ old \in Code \cup {None} /\ new \in Code \cup {None}
    BY <1>0, <1>1 DEF ActorOK
  <1>3. \/ J!Goto(a, "safe", None) /\ UNCHANGED entry_point
        \/ /\ entry_point[m] = old /\ entry_point' = [entry_point EXCEPT ![m] = new]
           /\ \/ old # None /\ J!Goto(a, "zombie", old)
              \/ old = None /\ J!Goto(a, "safe", None)
    <2>1. [entry_point EXCEPT ![m] = entry_point[m]] = entry_point
      BY <1>0, <1>2 DEF CodeTypes
    <2> QED
      BY <2>1 DEF J!CompareExchange
  <1>4. CASE J!Goto(a, "safe", None) /\ UNCHANGED entry_point
    <2>1. /\ ActorTypes' /\ Held(a)' = {}
          /\ \A b \in J!Actor \ {a} :
                pc'[b] = pc[b] /\ callee'[b] = callee[b] /\ Held(b)' = Held(b)
      BY <1>0, <1>4, GoingSafe
    <2>2. pc'[a] = "safe"
      BY <1>0, <1>4, Going
    <2> QED
      BY <1>1, <1>4, <2>1, <2>2, HoldsLess
  <1>5. CASE /\ entry_point[m] = old /\ entry_point' = [entry_point EXCEPT ![m] = new]
             /\ \/ old # None /\ J!Goto(a, "zombie", old)
                \/ old = None /\ J!Goto(a, "safe", None)
    <2>1. /\ ActorTypes' /\ Held(a)' = {old} \ {None} /\ pc'[a] \in {"zombie", "safe"}
          /\ Held(a)' # {} => pc'[a] = "zombie"
          /\ \A b \in J!Actor \ {a} :
                pc'[b] = pc[b] /\ callee'[b] = callee[b] /\ Held(b)' = Held(b)
      <3>1. CASE old # None /\ J!Goto(a, "zombie", old)
        <4>1. /\ Alone(a) /\ pc'[a] = "zombie" /\ callee'[a] = old
              /\ ActorOK(a)' => ActorTypes'
          BY <1>0, <3>1, Going
        <4>2. ActorTypes' /\ Held(a)' = {old} \ {None}
          BY <1>2, <3>1, <4>1 DEF ActorOK, Held
        <4> QED
          BY <4>1, <4>2, AloneHeld
      <3>2. CASE old = None /\ J!Goto(a, "safe", None)
        BY <1>0, <3>2, Going, GoingSafe
      <3> QED
        BY <1>5, <3>1, <3>2
    <2>2. /\ entry_point' \in [Method -> Code \cup {None}] /\ entry_point'[m] = new
          /\ \A n \in Method \ {m} : entry_point'[n] = entry_point[n]
      BY <1>0, <1>2, <1>5 DEF CodeTypes
    <2>3. CodeTypes'
      BY <1>0, <1>1, <2>2 DEF CodeTypes, J!maps
    <2>4. Held(a) = {new} \ {None}
      BY <1>1 DEF Held
    <2>5. new # None => method_code_map[new] = m /\ a = Jit
      BY SMT, <1>0, <1>1, <2>4 DEF CodeRoles, ActorOK
    <2>6. Entries' \subseteq Entries \cup Held(a)
      BY <2>2, <2>4, JitAssumption DEF Entries, J!CodeAssumption
    <2>7. old \notin Entries'
      BY SMT, <1>0, <1>2, <1>5, <2>2, <2>4, JitAssumption
         DEF Entries, CodeRoles, J!CodeAssumption
    <2>8. old # None => old \in Entries
      BY <1>2, <1>5 DEF Entries
    <2>9. CodeRoles'
      <3>1. /\ allocated' = allocated /\ osr_code' = osr_code /\ zombie_code' = zombie_code
            /\ processed_zombie_code' = processed_zombie_code
            /\ method_code_map' = method_code_map
        BY <1>1 DEF J!maps
      <3>2. /\ Entries' \cup osr_code \cup zombie_code \cup processed_zombie_code \subseteq allocated
            /\ Entries' \cap (osr_code \cup zombie_code \cup processed_zombie_code) = {}
        BY <1>0, <2>6 DEF CodeRoles
      <3>3. \A n \in Method : entry_point'[n] # None => method_code_map[entry_point'[n]] = n
        BY <1>0, <2>2, <2>5 DEF CodeRoles
      <3>4. /\ Held(a)' \subseteq allocated
            /\ Held(a)' \cap (Entries' \cup osr_code \cup zombie_code \cup processed_zombie_code) = {}
        BY SMT, <1>0, <2>1, <2>7, <2>8 DEF CodeRoles
      <3>5. \A b \in J!Actor \ {a} :
               /\ Held(b)' \subseteq allocated
               /\ Held(b)' \cap (Entries' \cup osr_code \cup zombie_code
                                    \cup processed_zombie_code) = {}
               /\ Held(b)' \cap Held(a)' = {}
        BY SMT, <1>0, <2>1, <2>6, <2>8 DEF CodeRoles
      <3>6. \A b, d \in J!Actor : b # d => Held(b)' \cap Held(d)' = {}
        BY <1>0, <2>1, <3>5 DEF CodeRoles
      <3>7. \A c \in Held(Jit)' : pc'[Jit] # "zombie" => method_code_map[c] = callee'[Jit].method
        BY <1>0, <2>1 DEF CodeRoles
      <3> QED
        BY <1>0, <3>1, <3>2, <3>3, <3>4, <3>5, <3>6, <3>7 DEF CodeRoles
    <2>10. \A t \in Mutator : Using(t)' = Using(t)
      BY <1>0, <1>1, <2>1 DEF Using, J!OnStack
    <2>11. pc'[Jit] = "mark" => pc[Jit] = "mark"
      BY <1>0, <2>1
    <2>12. CodeKept'
      BY <1>0, <1>1, <2>10, <2>11, KeptUndisturbed DEF J!maps, J!collection
    <2> QED
      BY <2>1, <2>3, <2>9, <2>12 DEF CodeInv
  <1> QED
    BY <1>3, <1>4, <1>5

LEMMA AddZombieCodeKeeps ==
  ASSUME CodeInv, NEW a \in J!Actor, J!AddZombieCode(a)
  PROVE  CodeInv'
  <1>0. /\ CodeTypes /\ ActorTypes /\ CodeRoles /\ CodeKept /\ ActorOK(a)
        /\ Jit \in J!Actor /\ Mutator \subseteq J!Actor
    BY DEF CodeInv, ActorTypes, J!Actor
  <1>1. /\ pc[a] = "zombie" /\ zombie_code' = zombie_code \cup {callee[a]}
        /\ J!Goto(a, "safe", None)
        /\ UNCHANGED <<J!maps, entry_point, processed_zombie_code, J!collection, stack>>
    BY DEF J!AddZombieCode, J!AddZombies
  <1>2. /\ ActorTypes' /\ Held(a)' = {}
        /\ \A b \in J!Actor \ {a} :
              pc'[b] = pc[b] /\ callee'[b] = callee[b] /\ Held(b)' = Held(b)
    BY <1>0, <1>1, GoingSafe
  <1>3. Held(a) = {callee[a]} /\ callee[a] \in Code /\ Entries' = Entries /\ pc'[a] = "safe"
    BY <1>0, <1>1, Going DEF Held, ActorOK, Entries
  <1>4. CodeTypes'
    BY <1>0, <1>1, <1>3 DEF CodeTypes, J!maps
  <1>5. CodeRoles'
    <2>1. /\ allocated' = allocated /\ osr_code' = osr_code
          /\ method_code_map' = method_code_map /\ zombie_code' = zombie_code \cup Held(a)
          /\ processed_zombie_code' = processed_zombie_code /\ entry_point' = entry_point
      BY <1>1, <1>3 DEF J!maps
    <2>2. \A b \in J!Actor :
             /\ Held(b)' \subseteq allocated
             /\ Held(b)' \cap (Entries \cup osr_code \cup zombie_code' \cup processed_zombie_code) = {}
      BY <1>0, <1>2, <2>1 DEF CodeRoles
    <2>3. \A b, d \in J!Actor : b # d => Held(b)' \cap Held(d)' = {}
      BY <1>0, <1>2 DEF CodeRoles
    <2>4. /\ Entries \cup osr_code \cup zombie_code' \cup processed_zombie_code \subseteq allocated
          /\ zombie_code' \cap (Entries \cup osr_code \cup processed_zombie_code) = {}
      BY <1>0, <2>1 DEF CodeRoles
    <2>5. \A c \in Held(Jit)' : pc'[Jit] # "zombie" => method_code_map[c] = callee'[Jit].method
      BY <1>0, <1>2 DEF CodeRoles
    <2> QED
      BY <1>0, <1>3, <2>1, <2>2, <2>3, <2>4, <2>5 DEF CodeRoles
  <1>6. \A t \in Mutator : Using(t)' = Using(t)
    BY <1>0, <1>1, <1>2, <1>3 DEF Using, J!OnStack
  <1>7. pc'[Jit] = "mark" => pc[Jit] = "mark"
    BY <1>0, <1>2, <1>3
  <1>8. CodeKept'
    BY <1>0, <1>1, <1>6, <1>7, KeptUndisturbed DEF J!maps, J!collection
  <1> QED
    BY <1>2, <1>4, <1>5, <1>8 DEF CodeInv

------------------------------------------------------------------------------
(* The steps of the worker *)

\* Code that is committed was free, so it had no role and nobody ran it.
LEMMA CommitKeeps ==
  ASSUME CodeInv, J!Commit
  PROVE  CodeInv'
  <1>0. /\ CodeTypes /\ ActorTypes /\ CodeRoles /\ CodeKept
        /\ Jit \in J!Actor /\ Mutator \subseteq J!Actor /\ Jit \notin Mutator
    BY JitAssumption DEF CodeInv, J!Actor, J!CodeAssumption
  <1>1. PICK m \in Method, c \in Code \ allocated :
           /\ allocated' = allocated \cup {c}
           /\ method_code_map' = [method_code_map EXCEPT ![c] = m]
           /\ \/ osr_code' = osr_code \cup {c} /\ UNCHANGED <<pc, callee>>
              \/ J!Goto(Jit, "load", [method |-> m, new |-> c]) /\ UNCHANGED osr_code
    BY DEF J!Commit
  <1>2. /\ pc[Jit] = "safe"
        /\ UNCHANGED <<entry_point, zombie_code, processed_zombie_code, J!collection, stack>>
    BY DEF J!Commit
  <1>3. /\ Entries' = Entries /\ method_code_map'[c] = m /\ DOMAIN method_code_map' = Code
        /\ \A d \in Code \ {c} : method_code_map'[d] = method_code_map[d]
    BY <1>0, <1>1, <1>2 DEF Entries, CodeTypes
  <1>4. \A n \in Method : entry_point'[n] # None => method_code_map'[entry_point'[n]] = n
    <2>1. \A n \in Method : entry_point[n] # None => entry_point[n] \in allocated \cap Code
      BY EntryCode
    <2> QED
      BY SMT, <1>0, <1>1, <1>2, <1>3, <2>1 DEF CodeRoles
  <1>5. Held(Jit) = {}
    BY <1>2 DEF Held
  <1>6. CASE osr_code' = osr_code \cup {c} /\ UNCHANGED <<pc, callee>>
    <2>1. CodeTypes'
      BY <1>0, <1>1, <1>2, <1>3, <1>6 DEF CodeTypes
    <2>2. ActorTypes'
      BY <1>0, <1>6 DEF ActorTypes, ActorOK
    <2>3. \A a \in J!Actor : Held(a)' = Held(a)
      BY <1>6 DEF Held
    <2>4. CodeRoles'
      BY SMT, <1>0, <1>1, <1>2, <1>3, <1>4, <1>5, <1>6, <2>3 DEF CodeRoles
    <2>5. \A t \in Mutator : Using(t)' = Using(t)
      BY <1>2, <1>6 DEF Using, J!OnStack
    <2>6. CodeKept'
      BY <1>0, <1>1, <1>2, <1>6, <2>5, KeptUndisturbed DEF J!collection
    <2> QED
      BY <2>1, <2>2, <2>4, <2>6 DEF CodeInv
  <1>7. CASE J!Goto(Jit, "load", [method |-> m, new |-> c]) /\ UNCHANGED osr_code
    <2>1. /\ Alone(Jit) /\ pc'[Jit] = "load" /\ callee'[Jit] = [method |-> m, new |-> c]
          /\ ActorOK(Jit)' => ActorTypes'
      BY <1>0, <1>7, Going
    <2>2. ActorTypes' /\ Held(Jit)' = {c}
      BY SMT, <1>1, <2>1, JitAssumption DEF ActorOK, Held, J!CodeAssumption
    <2>3. \A b \in J!Actor \ {Jit} :
             pc'[b] = pc[b] /\ callee'[b] = callee[b] /\ Held(b)' = Held(b)
      BY <1>0, <2>1, AloneHeld
    <2>4. CodeTypes'
      BY <1>0, <1>1, <1>2, <1>3, <1>7 DEF CodeTypes
    <2>5. CodeRoles'
      <3>1. \A a \in J!Actor :
               /\ Held(a)' \subseteq allocated'
               /\ Held(a)' \cap (Entries \cup osr_code \cup zombie_code
                                    \cup processed_zombie_code) = {}
        BY ZenonT(30), <1>0, <1>1, <2>2, <2>3 DEF CodeRoles
      <3>2. \A a, b \in J!Actor : a # b => Held(a)' \cap Held(b)' = {}
        BY SMT, <1>0, <1>1, <2>2, <2>3 DEF CodeRoles
      <3>3. \A d \in Held(Jit)' : pc'[Jit] # "zombie" => method_code_map'[d] = callee'[Jit].method
        BY SMT, <1>3, <2>1, <2>2
      <3> QED
        BY <1>0, <1>1, <1>2, <1>3, <1>4, <1>7, <3>1, <3>2, <3>3 DEF CodeRoles
    <2>6. \A t \in Mutator : Using(t)' = Using(t)
      BY <1>0, <1>2, <2>3 DEF Using, J!OnStack
    <2>7. CodeKept'
      BY <1>0, <1>1, <1>2, <2>1, <2>6, KeptUndisturbed DEF J!collection
    <2> QED
      BY <2>2, <2>4, <2>5, <2>7 DEF CodeInv
  <1> QED
    BY <1>1, <1>6, <1>7

\* The worker goes on with the collection and holds nothing.
LEMMA WorkerGoes ==
  ASSUME CodeInv, pc[Jit] \in {"safe", "mark", "reset"}, NEW l \in {"safe", "mark", "reset"},
         J!Goto(Jit, l, None), UNCHANGED stack
  PROVE  /\ ActorTypes' /\ pc'[Jit] = l /\ Held(Jit)' = {}
         /\ \A a \in J!Actor : Held(a)' = Held(a)
         /\ \A t \in Mutator : Using(t)' = Using(t)
  <1>0. /\ ActorTypes /\ Jit \in J!Actor /\ Mutator \subseteq J!Actor /\ Jit \notin Mutator
    BY JitAssumption DEF CodeInv, J!Actor, J!CodeAssumption
  <1>1. Alone(Jit) /\ pc'[Jit] = l /\ callee'[Jit] = None /\ (ActorOK(Jit)' => ActorTypes')
    BY <1>0, Going
  <1>2. ActorTypes' /\ Held(Jit)' = {} /\ Held(Jit) = {}
    BY <1>1 DEF ActorOK, Held
  <1>3. \A b \in J!Actor \ {Jit} :
           pc'[b] = pc[b] /\ callee'[b] = callee[b] /\ Held(b)' = Held(b)
    BY <1>0, <1>1, AloneHeld
  <1>4. \A t \in Mutator : Using(t)' = Using(t)
    BY <1>0, <1>3 DEF Using, J!OnStack
  <1> QED
    BY <1>1, <1>2, <1>3, <1>4

\* What a collection sets aside was OSR code or a zombie.
LEMMA DoCollectionKeeps ==
  ASSUME CodeInv, J!DoCollection
  PROVE  CodeInv'
  <1>0. CodeTypes /\ CodeRoles /\ CodeKept
    BY DEF CodeInv
  <1>1. /\ pc[Jit] = "safe" /\ J!Goto(Jit, "mark", None)
        /\ processed_zombie_code' = processed_zombie_code \cup zombie_code \cup osr_code
        /\ zombie_code' = {} /\ osr_code' = {} /\ unmarked' = Mutator
        /\ UNCHANGED <<allocated, method_code_map, entry_point, stack>>
    BY DEF J!DoCollection
  <1>2. /\ ActorTypes' /\ Held(Jit)' = {}
        /\ \A a \in J!Actor : Held(a)' = Held(a)
        /\ \A t \in Mutator : Using(t)' = Using(t)
    BY <1>1, WorkerGoes
  <1>3. CodeTypes'
    BY <1>0, <1>1 DEF CodeTypes
  <1>4. Entries' = Entries
    BY <1>1 DEF Entries
  <1>5. CodeRoles'
    BY <1>0, <1>1, <1>2, <1>4 DEF CodeRoles
  <1>6. CodeKept'
    BY <1>0, <1>1, <1>2 DEF CodeKept
  <1> QED
    BY <1>2, <1>3, <1>5, <1>6 DEF CodeInv

\* What is freed was set aside and is on no stack, for every thread has been marked.
LEMMA RemoveUnmarkedCodeKeeps ==
  ASSUME CodeInv, J!RemoveUnmarkedCode
  PROVE  CodeInv'
  <1> DEFINE freed == processed_zombie_code \ live_bitmap
  <1>0. CodeTypes /\ CodeRoles /\ CodeKept
    BY DEF CodeInv
  <1>1. /\ pc[Jit] = "mark" /\ unmarked = {} /\ J!Goto(Jit, "reset", None)
        /\ processed_zombie_code' = processed_zombie_code \ freed
        /\ allocated' = allocated \ freed
        /\ method_code_map' = [c \in Code |-> IF c \in freed THEN None ELSE method_code_map[c]]
        /\ UNCHANGED <<osr_code, entry_point, zombie_code, stack>>
    BY DEF J!RemoveUnmarkedCode, J!Removable, J!Free
  <1>2. /\ ActorTypes' /\ pc'[Jit] = "reset" /\ Held(Jit)' = {}
        /\ \A a \in J!Actor : Held(a)' = Held(a)
        /\ \A t \in Mutator : Using(t)' = Using(t)
    BY <1>1, WorkerGoes
  <1>3. CodeTypes'
    BY <1>0, <1>1 DEF CodeTypes
  <1>4. Entries' = Entries
    BY <1>1 DEF Entries
  <1>5. \A m \in Method : entry_point'[m] # None => method_code_map'[entry_point'[m]] = m
    <2>1. \A m \in Method : entry_point[m] # None => entry_point[m] \in Code \ freed
      BY EntryCode
    <2> QED
      BY <1>0, <1>1, <2>1 DEF CodeRoles
  <1>6. \A a \in J!Actor : Held(a)' \subseteq Held(a) \cap allocated'
    BY <1>0, <1>1, <1>2 DEF CodeRoles
  <1>7. CodeRoles'
    <2>1. Entries' \cup osr_code' \cup zombie_code' \cup processed_zombie_code' \subseteq allocated'
      BY <1>0, <1>1, <1>4 DEF CodeRoles
    <2> QED
      BY <1>0, <1>1, <1>2, <1>4, <1>5, <1>6, <2>1, RolesShrink
  <1>8. CodeKept'
    BY <1>0, <1>1, <1>2 DEF CodeKept
  <1> QED
    BY <1>2, <1>3, <1>7, <1>8 DEF CodeInv

LEMMA CollectionDoneKeeps ==
  ASSUME CodeInv, J!CollectionDone
  PROVE  CodeInv'
  <1>0. CodeTypes /\ CodeRoles /\ CodeKept
    BY DEF CodeInv
  <1>1. /\ pc[Jit] = "reset" /\ J!Goto(Jit, "safe", None)
        /\ UNCHANGED <<J!maps, entry_point, zombie_code, processed_zombie_code, stack>>
    BY DEF J!CollectionDone
  <1>2. /\ ActorTypes' /\ pc'[Jit] = "safe" /\ Held(Jit)' = {}
        /\ \A a \in J!Actor : Held(a)' = Held(a)
        /\ \A t \in Mutator : Using(t)' = Using(t)
    BY <1>1, WorkerGoes
  <1>3. CodeTypes'
    BY <1>0, <1>1 DEF CodeTypes, J!maps
  <1>4. CodeRoles'
    BY <1>0, <1>1, <1>2, RolesUndisturbed
  <1>5. CodeKept'
    BY <1>0, <1>1, <1>2 DEF CodeKept, J!maps
  <1> QED
    BY <1>2, <1>3, <1>4, <1>5 DEF CodeInv

------------------------------------------------------------------------------
(* Invalidation of everything, unloading and redefinition *)

\* The entry points that are reset become zombies; nobody holds code or is about to enter.
LEMMA InvalidateAllCompiledCodeKeeps ==
  ASSUME CodeInv, J!InvalidateAllCompiledCode
  PROVE  CodeInv'
  <1> DEFINE invalidated == {m \in Method : J!CodeOf(m) # {}}
             zombies == {entry_point[m] : m \in invalidated} \ {None}
  <1>0. CodeTypes /\ ActorTypes /\ CodeRoles /\ CodeKept
    BY DEF CodeInv
  <1>1. /\ entry_point' = [m \in Method |-> IF m \in invalidated THEN None ELSE entry_point[m]]
        /\ zombie_code' = zombie_code \cup zombies
        /\ osr_code' = {}
        /\ UNCHANGED <<allocated, method_code_map, processed_zombie_code, J!collection, J!actors>>
    BY DEF J!InvalidateAllCompiledCode, J!AddZombies
  <1>2. zombies \subseteq Entries
    BY <1>0 DEF CodeTypes, Entries
  <1>3. \A m \in Method : entry_point'[m] = None
    <2>1. \A m \in Method : entry_point[m] # None => entry_point[m] \in J!CodeOf(m)
      BY <1>0, EntryCode DEF CodeRoles, J!CodeOf
    <2> QED
      BY <1>1, <2>1
  <1>4. Entries' = {}
    BY <1>3, JitAssumption DEF Entries, J!CodeAssumption
  <1>5. Entries \subseteq Code
    BY DEF Entries
  <1>6. CodeTypes'
    BY <1>0, <1>1, <1>2, <1>5 DEF CodeTypes, J!actors
  <1>7. ActorTypes'
    BY <1>0, <1>1 DEF ActorTypes, ActorOK, J!actors
  <1>8. \A a \in J!Actor : Held(a)' = Held(a)
    BY <1>1 DEF Held, J!actors
  <1>9. Jit \in J!Actor /\ pc' = pc /\ callee' = callee
    BY <1>1 DEF J!Actor, J!actors
  <1>10. CodeRoles'
    BY SMT, <1>0, <1>1, <1>2, <1>3, <1>4, <1>8, <1>9 DEF CodeRoles
  <1>11. \A t \in Mutator : Using(t)' = Using(t)
    BY <1>1 DEF Using, J!OnStack, J!actors
  <1>12. CodeKept'
    BY <1>0, <1>1, <1>9, <1>11, KeptUndisturbed DEF J!collection
  <1> QED
    BY <1>6, <1>7, <1>10, <1>12 DEF CodeInv

\* Code of a method that nobody uses is forgotten everywhere at once.
LEMMA ForgetKeeps ==
  ASSUME CodeInv, NEW m \in Method, ~J!InUse(m), J!JitLockFree, J!Free(J!CodeOf(m)),
         entry_point' = [entry_point EXCEPT ![m] = None],
         zombie_code' = zombie_code \ J!CodeOf(m), osr_code' = osr_code \ J!CodeOf(m),
         processed_zombie_code' = processed_zombie_code \ J!CodeOf(m),
         UNCHANGED <<J!collection, J!actors>>
  PROVE  CodeInv'
  <1> DEFINE freed == J!CodeOf(m)
  <1>0. /\ CodeTypes /\ ActorTypes /\ CodeRoles /\ CodeKept
        /\ Jit \in J!Actor /\ Mutator \subseteq J!Actor
    BY DEF CodeInv, J!Actor
  <1>1. /\ allocated' = allocated \ freed
        /\ method_code_map' = [c \in Code |-> IF c \in freed THEN None ELSE method_code_map[c]]
        /\ pc' = pc /\ callee' = callee /\ stack' = stack
        /\ live_bitmap' = live_bitmap /\ unmarked' = unmarked
    BY DEF J!Free, J!collection, J!actors
  <1>2. /\ entry_point' \in [Method -> Code \cup {None}] /\ entry_point'[m] = None
        /\ \A n \in Method \ {m} : entry_point'[n] = entry_point[n]
    BY <1>0 DEF CodeTypes
  <1>3. \A n \in Method : entry_point'[n] # None =>
           /\ entry_point'[n] = entry_point[n] /\ entry_point[n] \in Code \ freed
           /\ method_code_map[entry_point[n]] = n
    BY <1>0, <1>2, EntryCode DEF CodeRoles, J!CodeOf
  <1>4. \A c \in Entries' : c \in Entries /\ c \notin freed
    BY SMT, <1>3, JitAssumption DEF Entries, J!CodeAssumption
  <1>5. CodeTypes'
    BY <1>0, <1>1, <1>2 DEF CodeTypes
  <1>6. ActorTypes'
    BY <1>0, <1>1 DEF ActorTypes, ActorOK
  <1>7. \A t \in Mutator : (J!OnStack(t) \cup {callee[t]}) \cap freed = {}
    BY DEF J!InUse
  <1>8. \A a \in J!Actor : Held(a)' = Held(a) /\ Held(a) \cap freed = {}
    <2>1. Held(Jit) = {}
      BY DEF J!JitLockFree, Held
    <2>2. \A t \in Mutator : Held(t) \subseteq {callee[t]} \cap Code
      <3> SUFFICES ASSUME NEW t \in Mutator PROVE Held(t) \subseteq {callee[t]} \cap Code
        OBVIOUS
      <3>1. ActorOK(t) /\ t # Jit
        BY <1>0, JitAssumption DEF ActorTypes, J!CodeAssumption
      <3> QED
        BY <3>1 DEF ActorOK, Held
    <2>3. \A a \in J!Actor : a = Jit \/ a \in Mutator
      BY DEF J!Actor
    <2> QED
      BY <1>1, <1>7, <2>1, <2>2, <2>3 DEF Held
  <1>9. CodeRoles'
    <2>1. Entries' \subseteq Entries
      BY <1>4
    <2>2. Entries' \cup osr_code' \cup zombie_code' \cup processed_zombie_code' \subseteq allocated'
      BY <1>0, <1>1, <1>4 DEF CodeRoles
    <2>3. \A a \in J!Actor : Held(a)' \subseteq Held(a) \cap allocated'
      BY <1>0, <1>1, <1>8 DEF CodeRoles
    <2>4. \A n \in Method : entry_point'[n] # None => method_code_map'[entry_point'[n]] = n
      BY <1>1, <1>3
    <2>5. Held(Jit)' = {}
      BY <1>0, <1>8 DEF J!JitLockFree, Held
    <2> QED
      BY <1>0, <2>1, <2>2, <2>3, <2>4, <2>5, RolesShrink
  <1>10. \A t \in Mutator : Using(t)' = Using(t) /\ Using(t) \cap freed = {}
    BY <1>1, <1>7 DEF Using, J!OnStack
  <1>11. CodeKept'
    BY <1>0, <1>1, <1>10 DEF CodeKept
  <1> QED
    BY <1>5, <1>6, <1>9, <1>11 DEF CodeInv

LEMMA RemoveMethodsInKeeps ==
  ASSUME CodeInv, NEW m \in Method, J!RemoveMethodsIn(m)
  PROVE  CodeInv'
  BY ForgetKeeps DEF J!RemoveMethodsIn

\* A redefinition that frees code a collection has set aside is left_behind's.
LEMMA RedefineKeeps ==
  ASSUME CodeInv, NEW m \in Method, J!Redefine(m), ~left_behind'
  PROVE  CodeInv'
  <1>0. CodeTypes /\ ActorTypes /\ CodeRoles /\ CodeKept /\ Jit \in J!Actor
    BY DEF CodeInv, J!Actor
  <1>1. /\ J!JitLockFree /\ entry_point' = [entry_point EXCEPT ![m] = None]
        /\ UNCHANGED <<processed_zombie_code, J!collection, J!actors>>
    BY DEF J!Redefine, J!AllSuspended
  <1>2. \/ /\ method_code_map' =
                 [c \in Code |-> IF c \in J!CodeOf(m) THEN Obsolete ELSE method_code_map[c]]
           /\ UNCHANGED <<allocated, osr_code, zombie_code>>
        \/ /\ ~J!InUse(m) /\ J!Free(J!CodeOf(m))
           /\ zombie_code' = zombie_code \ J!CodeOf(m)
           /\ osr_code' = osr_code \ J!CodeOf(m)
           /\ processed_zombie_code \cap J!CodeOf(m) = {}
    BY DEF J!Redefine
  <1>3. CASE /\ ~J!InUse(m) /\ J!Free(J!CodeOf(m))
             /\ zombie_code' = zombie_code \ J!CodeOf(m)
             /\ osr_code' = osr_code \ J!CodeOf(m)
             /\ processed_zombie_code \cap J!CodeOf(m) = {}
    <2>1. processed_zombie_code' = processed_zombie_code \ J!CodeOf(m)
      BY <1>1, <1>3
    <2> QED
      BY <1>1, <1>3, <2>1, ForgetKeeps
  <1>4. CASE /\ method_code_map' =
                   [c \in Code |-> IF c \in J!CodeOf(m) THEN Obsolete ELSE method_code_map[c]]
             /\ UNCHANGED <<allocated, osr_code, zombie_code>>
    <2>1. /\ pc' = pc /\ callee' = callee /\ stack' = stack
          /\ live_bitmap' = live_bitmap /\ unmarked' = unmarked
      BY <1>1 DEF J!collection, J!actors
    <2>2. /\ entry_point' \in [Method -> Code \cup {None}] /\ entry_point'[m] = None
          /\ \A n \in Method \ {m} : entry_point'[n] = entry_point[n]
      BY <1>0, <1>1 DEF CodeTypes
    <2>3. \A n \in Method : entry_point'[n] # None =>
             /\ entry_point'[n] = entry_point[n] /\ entry_point[n] \in Code \ J!CodeOf(m)
             /\ method_code_map[entry_point[n]] = n
      BY <1>0, <2>2, EntryCode DEF CodeRoles, J!CodeOf
    <2>4. Entries' \subseteq Entries
      BY SMT, <2>3, JitAssumption DEF Entries, J!CodeAssumption
    <2>5. CodeTypes'
      BY <1>0, <1>1, <1>4, <2>1, <2>2 DEF CodeTypes
    <2>6. ActorTypes'
      BY <1>0, <2>1 DEF ActorTypes, ActorOK
    <2>7. (\A a \in J!Actor : Held(a)' = Held(a)) /\ Held(Jit)' = {}
      BY <1>1, <2>1 DEF Held, J!JitLockFree
    <2>8. \A n \in Method : entry_point'[n] # None => method_code_map'[entry_point'[n]] = n
      BY <1>4, <2>3
    <2>9. CodeRoles'
      <3>1. Entries' \cup osr_code' \cup zombie_code' \cup processed_zombie_code' \subseteq allocated'
        BY <1>0, <1>1, <1>4, <2>4 DEF CodeRoles
      <3>2. \A a \in J!Actor : Held(a)' \subseteq Held(a) \cap allocated'
        BY <1>0, <1>4, <2>7 DEF CodeRoles
      <3> QED
        BY <1>0, <1>1, <1>4, <2>4, <2>7, <2>8, <3>1, <3>2, RolesShrink
    <2>10. \A t \in Mutator : Using(t)' = Using(t)
      BY <2>1 DEF Using, J!OnStack
    <2>11. CodeKept'
      BY <1>0, <1>1, <1>4, <2>1, <2>10, KeptUndisturbed
    <2> QED
      BY <2>5, <2>6, <2>9, <2>11 DEF CodeInv
  <1> QED
    BY <1>2, <1>3, <1>4

------------------------------------------------------------------------------
(* The theorems *)

\* Nothing takes a left_behind back, and until there is one every step keeps CodeInv.
LEMMA CodeNext ==
  ASSUME ~left_behind => CodeInv, [J!Next]_(J!vars)
  PROVE  (~left_behind => CodeInv)'
  <1> SUFFICES ASSUME ~left_behind' PROVE CodeInv'
    OBVIOUS
  <1>1. CASE J!Next
    <2>1. ~left_behind
      BY <1>1 DEF J!Next, J!Call, J!PrepareForOsr, J!Enter, J!Return, J!InvalidateCompiledCodeFor,
         J!MarkCode, J!LoadEntryPoint, J!CompareExchange, J!AddZombieCode, J!Commit,
         J!DoCollection, J!RemoveUnmarkedCode, J!CollectionDone, J!InvalidateAllCompiledCode,
         J!RemoveMethodsIn, J!Redefine
    <2>2. CodeInv
      BY <2>1
    <2>3. CASE \E t \in Mutator :
                  \/ J!Call(t) \/ J!PrepareForOsr(t) \/ J!Enter(t) \/ J!Return(t)
                  \/ J!InvalidateCompiledCodeFor(t) \/ J!MarkCode(t)
      BY ZenonT(30), <2>2, <2>3, CallKeeps, PrepareForOsrKeeps, EnterKeeps, ReturnKeeps,
         InvalidateCompiledCodeForKeeps, MarkCodeKeeps
    <2>4. CASE \E a \in J!Actor :
                  J!LoadEntryPoint(a) \/ J!CompareExchange(a) \/ J!AddZombieCode(a)
      BY ZenonT(30), <2>2, <2>4, LoadEntryPointKeeps, CompareExchangeKeeps, AddZombieCodeKeeps
    <2>5. CASE \E m \in Method : J!RemoveMethodsIn(m) \/ J!Redefine(m)
      BY ZenonT(30), <2>2, <2>5, RemoveMethodsInKeeps, RedefineKeeps
    <2>6. CASE \/ J!Commit \/ J!DoCollection \/ J!RemoveUnmarkedCode \/ J!CollectionDone
               \/ J!InvalidateAllCompiledCode
      BY ZenonT(30), <2>2, <2>6, CommitKeeps, DoCollectionKeeps, RemoveUnmarkedCodeKeeps,
         CollectionDoneKeeps, InvalidateAllCompiledCodeKeeps
    <2> QED
      BY ZenonT(30), <1>1, <2>3, <2>4, <2>5, <2>6 DEF J!Next
  <1>2. CASE UNCHANGED J!vars
    <2>1. /\ left_behind' = left_behind /\ UNCHANGED <<pc, callee, stack>>
          /\ UNCHANGED <<allocated, method_code_map, osr_code, entry_point, zombie_code,
                         processed_zombie_code, live_bitmap, unmarked>>
      BY <1>2 DEF J!vars, J!maps, J!collection, J!actors
    <2>2. CodeTypes' /\ ActorTypes'
      BY <2>1 DEF CodeInv, CodeTypes, ActorTypes, ActorOK
    <2>3. \A a \in J!Actor : Held(a)' = Held(a)
      BY <2>1 DEF Held
    <2>4. CodeRoles'
      BY <2>1, <2>3, RolesUndisturbed DEF CodeInv, J!maps
    <2>5. \A t \in Mutator : Using(t)' = Using(t)
      BY <2>1 DEF Using, J!OnStack
    <2>6. CodeKept'
      BY <2>1, <2>5, KeptUndisturbed DEF CodeInv
    <2> QED
      BY <2>2, <2>4, <2>6 DEF CodeInv
  <1> QED
    BY <1>1, <1>2

\* What a thread runs, is about to enter, or has replaced and is registering as a zombie is
\* allocated.
LEMMA CodeInvRunning ==
  ASSUME CodeInv
  PROVE  \A t \in Mutator : J!OnStack(t) \cup ({callee[t]} \cap Code) \subseteq allocated
  <1> SUFFICES ASSUME NEW t \in Mutator
               PROVE  J!OnStack(t) \cup ({callee[t]} \cap Code) \subseteq allocated
    OBVIOUS
  <1>1. /\ t \in J!Actor /\ t # Jit /\ ActorOK(t) /\ Using(t) \subseteq allocated
        /\ Held(t) \subseteq allocated
    BY JitAssumption DEF CodeInv, ActorTypes, CodeKept, CodeRoles, J!Actor, J!CodeAssumption
  <1>2. callee[t] \in Code => pc[t] \in {"enter", "zombie"}
    <2>1. pc[t] \in {"load", "exchange"} => callee[t] \notin Code
      BY <1>1, JitAssumption DEF ActorOK, J!CodeAssumption
    <2> QED
      BY <1>1, <2>1, JitAssumption DEF ActorOK, J!CodeAssumption
  <1> QED
    BY <1>1, <1>2 DEF Using, Held

LEMMA CodeInvEntries ==
  ASSUME CodeInv
  PROVE  /\ J!Range(entry_point) \cup osr_code \subseteq allocated \cup {None}
         /\ (J!Range(entry_point) \cup osr_code) \cap (zombie_code \cup processed_zombie_code) = {}
  <1>1. J!Range(entry_point) \subseteq Entries \cup {None}
    BY DEF CodeInv, CodeTypes, Entries, J!Range
  <1>2. None \notin zombie_code \cup processed_zombie_code
    BY JitAssumption DEF CodeInv, CodeTypes, J!CodeAssumption
  <1> QED
    BY <1>1, <1>2 DEF CodeInv, CodeRoles

\* The collection of compiled code frees no code that a thread runs or is about to enter,
\* for any number of threads, methods and places for code and any threshold: code that is
\* set aside is no entry any more, so a thread that has been marked cannot enter it again
\* (JitCodeCache::DoCollection, RemoveUnmarkedCode).
THEOREM RunningKept == J!Spec => []RunningCodeKept
  <1>1. J!Init => (~left_behind => CodeInv)
    BY CodeInit
  <1>2. (~left_behind => CodeInv) /\ [J!Next]_(J!vars) => (~left_behind => CodeInv)'
    BY CodeNext
  <1>3. (~left_behind => CodeInv) => RunningCodeKept
    BY CodeInvRunning DEF RunningCodeKept, J!RunningCodeKept
  <1> QED
    BY <1>1, <1>2, <1>3, PTL DEF J!Spec

\* No entry point and no OSR entry leads to code that is free, a zombie or set aside by a
\* collection, whoever races to replace an entry point: only who exchanges it registers the
\* code it replaced, so no code gets two roles (Instrumentation::UpdateEntryPoints,
\* JitCodeCache::AddZombieCode).
THEOREM EntriesKept == J!Spec => []EntryPointsKept
  <1>1. J!Init => (~left_behind => CodeInv)
    BY CodeInit
  <1>2. (~left_behind => CodeInv) /\ [J!Next]_(J!vars) => (~left_behind => CodeInv)'
    BY CodeNext
  <1>3. (~left_behind => CodeInv) => EntryPointsKept
    BY CodeInvEntries DEF EntryPointsKept, J!EntryPointsKept
  <1> QED
    BY <1>1, <1>2, <1>3, PTL DEF J!Spec

===============================================================================
