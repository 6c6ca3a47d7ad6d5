------------------------------ MODULE MCPlanning ------------------------------
EXTENDS Planning, TLC

Symmetry == Permutations(TaskIds)
=============================================================================
