-------------------------- MODULE MCSessionRunState --------------------------
EXTENDS SessionRunState, TLC

Symmetry == Permutations(Calls \ Abortable) \cup Permutations(Runners)
=============================================================================
