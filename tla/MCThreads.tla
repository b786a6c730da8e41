----------------------------- MODULE MCThreads -----------------------------
\* Instances of Threads for TLC.
EXTENDS Threads

CONSTANT s1

OneSlot == {s1}

EndsOnly == {"suspend", "terminate"}
=============================================================================
