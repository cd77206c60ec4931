-------------------------------- MODULE Threads --------------------------------
(***************************************************************************)
(* The threads of the runtime.                                             *)
(***************************************************************************)
EXTENDS FiniteSets

CONSTANTS
    Thread,   \* the threads
    None      \* no thread: a null pointer, or an owner of 0

ASSUME ThreadAssumption == IsFiniteSet(Thread) /\ None \notin Thread

==============================================================================
