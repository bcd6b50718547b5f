---------------------------- MODULE MCRelayFleet ----------------------------
EXTENDS RelayFleet, TLC
Symmetry == Permutations(Proc) \cup Permutations(Desc)
=============================================================================
