------------------------------ MODULE ThreadWaits ------------------------------
(***************************************************************************)
(* What the components that are checked one at a time share: the threads,  *)
(* where each one is, and which component takes the steps of a behaviour.  *)
(***************************************************************************)
EXTENDS Threads

VARIABLES component, at

==============================================================================
