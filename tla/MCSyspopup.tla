---------------------------- MODULE MCSyspopup -----------------------------
EXTENDS Syspopup, TLC
Profiles == Permutations(AP)
=============================================================================
