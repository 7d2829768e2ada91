-------------------------- MODULE MCPsynchCondition --------------------------
EXTENDS PsynchCondition, TLC

CONSTANTS t1, t2, t3

ThreadSymmetry == Permutations(Thread)

=============================================================================
