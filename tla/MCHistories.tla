----------------------------- MODULE MCHistories -----------------------------
\* Instances of Histories for TLC.
EXTENDS Histories, TLC

Symmetry == Permutations(Callers) \cup Permutations(Keys)
=============================================================================
