--------------------------- MODULE ReferenceMarking ---------------------------
(***************************************************************************)
(* WeakReferences over any heap.  WeakReferencesProofs has the proofs.     *)
(***************************************************************************)
EXTENDS ThreadWaits, Integers, FiniteSets

CONSTANTS Obj, Fields, WeakRef, FinalizerRef, Referent, Roots, Known, WeakGlobal, LockKind

VARIABLES color, referent, tl_mark_stack, revoked, gc_mark_stack, mark_stack_mode,
          weak_access, rp_state, weak_queue, finalizer_queue, weak_global, gc, popping,
          scanning, empty_prev, count, suspend_request, revoke, empty_flag, barrier, unasked,
          expected, arg, held, mutex, null_seen, stale

M == INSTANCE WeakReferences WITH pc <- at

==============================================================================
