------------------------------ MODULE MCGitOps ------------------------------
EXTENDS GitOpsHandoff, TLC
Symmetry == Permutations(Jobs) \cup Permutations(Digests)
=============================================================================
