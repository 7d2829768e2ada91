---------------------------- MODULE MCPsynchMutex ----------------------------
EXTENDS PsynchMutex, TLC

CONSTANTS t1, t2, t3

ThreadSymmetry == Permutations(Thread)

=============================================================================
