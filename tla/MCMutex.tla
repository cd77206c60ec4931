------------------------------ MODULE MCMutex ------------------------------
(* Mutex with three symmetric threads. *)
EXTENDS Mutex, TLC
ThreadSymmetry == Permutations(Thread)
==============================================================================
