------------------------------ MODULE MCAsynquery ------------------------------
EXTENDS Asynquery, TLC
Symmetry == Permutations(Workers) \cup Permutations(Bodies)
================================================================================
