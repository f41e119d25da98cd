---------------------------- MODULE MCSyncEngine ----------------------------
EXTENDS SyncEngine, TLC

Symmetry == Permutations(Assets) \cup Permutations(Events) \cup Permutations(Slots)
=============================================================================
