------------------------- MODULE MCActionExecution -------------------------
EXTENDS ActionExecution, TLC

Symmetry == Permutations(Job) \cup Permutations(Attempt) \cup Permutations(Caller)
=============================================================================
