--------------------------- MODULE MCWeakReferences ---------------------------
(***************************************************************************)
(* The liveness of WeakReferences, over two heaps; graph says which one a  *)
(* behaviour has.  "global" has a weak reference w and a JNI weak global   *)
(* to x, which nothing else refers to, and several threads.  "finalizer"   *)
(* has two weak references to x, and a finalizer reference through which   *)
(* x, and y behind it, are marked again once the weak references have been *)
(* cleared, and one thread.                                                *)
(***************************************************************************)
EXTENDS Integers

CONSTANTS Thread, Single, LockKind, None, w, v, f, x, y, z

VARIABLES graph, color, referent, tl_mark_stack, revoked, gc_mark_stack, mark_stack_mode,
          weak_access, rp_state, weak_queue, finalizer_queue, weak_global, gc, popping, scanning,
          empty_prev, count, suspend_request, revoke, empty_flag, barrier, unasked, expected, pc,
          arg, held, mutex, null_seen, stale

ASSUME Single \in Thread

G == INSTANCE WeakReferences WITH
         Obj <- {w, x}, Fields <- [o \in {w, x} |-> {}], WeakRef <- {w}, FinalizerRef <- {},
         Referent <- [r \in {w} |-> x], Roots <- {w}, Known <- {w}, WeakGlobal <- x
F == INSTANCE WeakReferences WITH
         Thread <- {Single}, Obj <- {w, v, f, x, y, z},
         Fields <- [o \in {w, v, f, x, y, z} |->
                        CASE o = x -> {y} [] o = z -> {x} [] OTHER -> {}],
         WeakRef <- {w, v}, FinalizerRef <- {f},
         Referent <- [r \in {w, v, f} |-> IF r = f THEN z ELSE x],
         Roots <- {w, v, f}, Known <- {w, v}, WeakGlobal <- None

weakVars == <<graph, G!vars>>

WeakInit ==
    \/ graph = "global" /\ G!Init
    \/ graph = "finalizer" /\ F!Init

WeakNext ==
    /\ UNCHANGED graph
    /\ \/ graph = "global" /\ G!Next
       \/ graph = "finalizer" /\ F!Next

\* FairSpec of WeakReferences.
WeakSpec ==
    /\ WeakInit /\ [][WeakNext]_weakVars
    /\ WF_weakVars(/\ UNCHANGED graph
                   /\ \/ graph = "global" /\ G!Collector
                      \/ graph = "finalizer" /\ F!Collector)
    /\ \A t \in Thread :
           /\ WF_weakVars(/\ UNCHANGED graph
                          /\ \/ graph = "global" /\ G!Proceed(t)
                             \/ graph = "finalizer" /\ t = Single /\ F!Proceed(t))
           /\ SF_weakVars(/\ UNCHANGED graph
                          /\ \/ graph = "global" /\ G!Respond(t)
                             \/ graph = "finalizer" /\ t = Single /\ F!Respond(t))
           /\ SF_weakVars(UNCHANGED graph /\ graph = "global" /\ G!Lock(t))

\* CopyingPhase ends, and every thread blocked on weak reference access is let in: neither
\* such a thread, nor one that waits for a ReaderWriterMutex which such a thread holds, keeps
\* an empty checkpoint (ThreadList::RunEmptyCheckpoint) from completing.
CollectionEnds ==
    \A t \in Thread :
        []<>(/\ gc = "done"
             /\ graph = "global" => G!Outside(t)
             /\ graph = "finalizer" => F!Outside(Single))

===============================================================================
