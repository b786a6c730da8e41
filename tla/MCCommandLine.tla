--------------------------- MODULE MCCommandLine ---------------------------
\* Instances of CommandLine for TLC.
EXTENDS CommandLine, TLC

CONSTANTS s1, s2

TwoSlots == {s1, s2}

AllRequests == {"suspend", "wakeup", "resume", "terminate"}
=============================================================================
