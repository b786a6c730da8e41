----------------------------- MODULE MCAddons -----------------------------
\* Instances of Addons for TLC.
EXTENDS Addons, TLC

CONSTANTS p1, p2, m1, m2, w1, ctor, dep, host

TwoProcesses == {p1, p2}

Host    == {host}

TwoThreads   == {m1, m2}
ThreeThreads == {m1, w1, m2}

\* An addon that registers from a constructor, and one that does and depends on it.
JustCtor == {ctor}
CtorAndDep == {ctor, dep}
NeedsNone == [l \in Libraries |-> {}]
NeedsCtor == [l \in Libraries |-> IF l = dep THEN {ctor} ELSE {}]

HomeTwo   == (m1 :> p1) @@ (m2 :> p2)
HomeThree == (m1 :> p1) @@ (w1 :> p1) @@ (m2 :> p2)
=============================================================================
