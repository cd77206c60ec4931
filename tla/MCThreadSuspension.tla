------------------------- MODULE MCThreadSuspension -------------------------
EXTENDS ThreadSuspension, TLC

ThreadSymmetry == Permutations(Thread)

=============================================================================
