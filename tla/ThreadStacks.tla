----------------------------- MODULE ThreadStacks -----------------------------
(***************************************************************************)
(* What the components that visit every thread's stack share: the threads, *)
(* where each one is, and which component takes the steps of a behaviour.  *)
(***************************************************************************)
EXTENDS Threads

VARIABLES component, pc

==============================================================================
