---------------------------- MODULE CommandLine ----------------------------
(***************************************************************************)
(* The program bare (src/bin/bare.c): the process of Threads between the   *)
(* start and the return of main(), beside the thread that the JavaScript   *)
(* platform is served on.  That thread makes the platform and tells the    *)
(* main one at a barrier; main() then sets up, loads, runs and tears down, *)
(* and asks it to shut down again.                                         *)
(***************************************************************************)
EXTENDS Threads

VARIABLES
  main,       \* where main() is
  platform,   \* where the thread of the platform is
  shutdown    \* whether bare__platform_shutdown was signalled

program == <<main, platform, shutdown>>
all     == <<vars, program>>

CommandInit ==
  /\ Init
  /\ main = "start" /\ platform = "none" /\ shutdown = FALSE

Platform(from, to) == platform = from /\ platform' = to

----------------------------------------------------------------------------
(* main() *)

StartPlatform ==
  /\ main = "start" /\ main' = "await" /\ Platform("none", "created")
  /\ UNCHANGED <<vars, shutdown>>

\* Variant: main() does not wait for the platform.
StartsAlone ==
  /\ main = "await" /\ main' = "process"
  /\ UNCHANGED <<vars, platform, shutdown>>

\* Both at the barrier.  With bare_setup() and bare_load() behind it, main() is
\* where a process of Threads starts.
PlatformReady ==
  /\ main = "await" /\ main' = "process" /\ Platform("barrier", "serving")
  /\ UNCHANGED <<vars, shutdown>>

\* bare_run() and bare_teardown().
Process(A) == main = "process" /\ A /\ UNCHANGED program

\* Variant: the platform is shut down while the teardown still waits for threads.
ShutdownEarly ==
  /\ main = "process" /\ pc[Main] \in {"closed", "done"}
  /\ shutdown' = TRUE
  /\ main' = IF pc[Main] = "done" THEN "join" ELSE main
  /\ UNCHANGED <<vars, platform>>

Shutdown ==
  /\ main = "process" /\ pc[Main] = "done" /\ main' = "join"
  /\ shutdown' = TRUE
  /\ UNCHANGED <<vars, platform>>

JoinPlatform ==
  /\ main = "join" /\ platform = "ended" /\ main' = "returned"
  /\ UNCHANGED <<vars, platform, shutdown>>

----------------------------------------------------------------------------
(* bare__on_platform_thread() *)

\* The loop and the handle that ends it are there before the platform, and all
\* of it before main() goes on.
CreatePlatform ==
  /\ Platform("created", "barrier")
  /\ UNCHANGED <<vars, main, shutdown>>

\* Variant: what was signalled before the loop runs is lost.
ServeLosesSignal ==
  /\ shutdown /\ Platform("serving", "serving")
  /\ shutdown' = FALSE
  /\ UNCHANGED <<vars, main>>

\* The callback closes the handle, and with that the loop has nothing left.
Serve ==
  /\ shutdown /\ Platform("serving", "stopping")
  /\ UNCHANGED <<vars, main, shutdown>>

DestroyPlatform ==
  /\ Platform("stopping", "ended")
  /\ UNCHANGED <<vars, main, shutdown>>

----------------------------------------------------------------------------
Program ==
  \/ StartPlatform \/ PlatformReady \/ Shutdown \/ JoinPlatform
  \/ CreatePlatform \/ Serve \/ DestroyPlatform

CommandNext == Program \/ Process(Next)

(***************************************************************************)
(* Fairness.  Both threads keep executing, and the process does as Threads *)
(* says.                                                                   *)
(***************************************************************************)
CommandFairness ==
  /\ WF_all(StartPlatform \/ PlatformReady \/ Shutdown \/ JoinPlatform)
  /\ WF_all(CreatePlatform \/ Serve \/ DestroyPlatform)
  /\ \A r \in Runtimes : WF_all(Process(GoesOn(r)))

CommandSpec == CommandInit /\ [][CommandNext]_all /\ CommandFairness

----------------------------------------------------------------------------
(* Properties *)

\* The threads with a runtime that is set up and not torn down, or in between.
Serviced == {s \in Slots : pc[s] # "free"} \union
            {r \in {Main} : main = "process" /\ pc[r] # "done"}

\* js_create_env(), everything that an environment does and js_destroy_env() lean
\* on the platform: it is made before the first of them and is served until the
\* last thread of the process is gone.
PlatformOutlives == Serviced # {} => platform = "serving" /\ ~shutdown

\* Once its main runtime has ended, which it never takes back, a process returns
\* from main(), unless one of its threads is suspended: no order of exits,
\* finalizers and joins keeps it, and no call that is stuck at a barrier or at the
\* lock of a thread.
TerminatedReturns ==
  []<>(\/ phase[Main] \in Live \/ main = "returned"
       \/ \E s \in Slots : phase[s] = "suspended")
============================================================================
