------------------------------ MODULE MCLookup ------------------------------
\* Instances of Lookup for TLC.
EXTENDS Lookup, TLC

CONSTANTS p1, p2

\* One package begins another, and one component another.
MCPackages   == {<<"f">>, <<"f", "o">>}
MCComponents == {<<"1">>, <<"1", "0">>}

Symmetry == Permutations(Processes)
=============================================================================
