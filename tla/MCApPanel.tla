----------------------------- MODULE MCApPanel ------------------------------
EXTENDS ApPanel, TLC
Profiles == Permutations(AP)
=============================================================================
