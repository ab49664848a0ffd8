---------------------------- MODULE MCOwnership ----------------------------
EXTENDS ExecutionOwnership, TLC
Symmetry == Permutations(Exec) \union Permutations(Proc)
=============================================================================
