---------------------------- MODULE ClassProgress ----------------------------
(***************************************************************************)
(* ClassInit under the variables MCProgress gives it: the component        *)
(* "class".  ClassInitProofs has the proofs.                               *)
(***************************************************************************)
EXTENDS ThreadWaits, Integers, Sequences, FiniteSets

CONSTANTS Class, Super, Interfaces, IfTable, IsInterface, HasDefault, Programs, Calls, MaxCalls

VARIABLES program, status, clinit_thread, recursively_initialized, owner, waiting,
          stack, answer, runs, calls, failed

classVars == <<program, status, clinit_thread, recursively_initialized, owner, waiting, stack,
               answer, runs, calls, failed>>

K == INSTANCE ClassInit WITH ret <- answer

ASSUME ClassAssumption == K!ClassAssumption /\ K!BoundAssumption

------------------------------------------------------------------------------
(* Properties *)

\* InitializeClass: <clinit> runs once per class and after that of its superclass, and the
\* callers are told the truth, though threads initialise, wait for and find erroneous one
\* another's classes.
InitializedOnce == component = "class" => K!InitializedOnce /\ K!SuperInitializedFirst

==============================================================================
