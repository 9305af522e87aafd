---------------------------- MODULE MCLifecycle ----------------------------
EXTENDS Lifecycle, TLC
Alike == Permutations(Daemon) \cup Permutations(Client)
=============================================================================
