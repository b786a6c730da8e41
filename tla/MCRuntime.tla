----------------------------- MODULE MCRuntime -----------------------------
\* Instances of Runtime for TLC.
EXTENDS Runtime, TLC

CONSTANT c1

OneCaller == {c1}
=============================================================================
