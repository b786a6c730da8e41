----------------------------- MODULE Lifecycle -----------------------------
(***************************************************************************)
(* What a Bare process promises about suspension, resumption and exit, as  *)
(* include/bare.h and bare.d.ts present it to embedders and scripts: a     *)
(* phase, the last accepted request ("run" after bare_resume(), "hold"     *)
(* after bare_suspend()), and whether accepted requests are still owed an  *)
(* answer.  There is no loop, no mailbox and no thread here; Runtime is    *)
(* shown to implement it.                                                  *)
(***************************************************************************)
CONSTANT MayCut   \* may the process be torn down before it has exited?

VARIABLES
  phase,   \* "active", "winding" (down, or briefly awake), "suspended", ...
  want,    \* the last accepted of suspend ("hold") and resume ("run")
  owed     \* is some accepted request not answered yet?

vars == <<phase, want, owed>>

Phases == {"active", "winding", "suspended", "terminated", "exiting", "exited"}
Ended  == {"terminated", "exiting", "exited"}

TypeOK == phase \in Phases /\ want \in {"run", "hold"} /\ owed \in BOOLEAN

\* Answered in full, the process runs exactly when asked to.
Settled == phase \in Ended \/ (phase = "active" <=> want = "run")

Init == phase = "active" /\ want = "run" /\ owed = FALSE

\* A request is accepted.  Wakeup and terminate do not change what is wanted.
Request == want' \in {"run", "hold"} /\ owed' = TRUE /\ UNCHANGED phase

\* Answering goes down from active, or up from winding and suspended ...
Climbs == \/ phase = "active" /\ phase' \in {"active", "winding"}
          \/ phase \in {"winding", "suspended"} /\ phase' \in {"winding", "active"}
          \/ phase' = phase

\* ... and ends only once the last request has had its effect.
Answer == owed /\ Climbs /\ (owed' \/ Settled') /\ UNCHANGED want

\* A winding process may come to rest at any time.
Rest == phase = "winding" /\ phase' = "suspended" /\ UNCHANGED <<want, owed>>

\* Bare.exit() or bare_terminate(): whatever else was asked is dropped.
Kill == phase # "exiting" /\ phase' = "terminated" /\ UNCHANGED want
        /\ (owed' => owed)

\* Left alone, the process exits only while active and owing nothing.
Leave == /\ phase = "terminated" \/ (phase = "active" /\ ~owed)
         /\ phase' = "exiting"
         /\ UNCHANGED <<want, owed>>

TearDown == /\ phase = "exiting" \/ MayCut
            /\ phase' = "exited"
            /\ UNCHANGED <<want, owed>>

Next == (phase # "exited" /\ (Request \/ Answer \/ Rest \/ Kill \/ Leave \/ TearDown))

Spec == Init /\ [][Next]_vars
=============================================================================
