----------------------------- MODULE MCMonitor -----------------------------
EXTENDS Monitor, TLC

Symmetric == Permutations(Threads)
=============================================================================
