----------------------------- MODULE MCJobList ------------------------------
EXTENDS JobList, TLC

CONSTANTS p1, p2, p3, p4

Symmetry == Permutations(Pid)

=============================================================================
