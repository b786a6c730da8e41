---------------------------- MODULE MCContext ----------------------------
\* Instances of Context for TLC.
EXTENDS Context, TLC

CONSTANTS p1, p2, t1, t2, k1

OneProcess   == {p1}
TwoProcesses == {p1, p2}
TwoThreads   == {t1, t2}
OneKey       == {k1}

Symmetry == Permutations(Processes) \union Permutations(Threads)
=============================================================================
