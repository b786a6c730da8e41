------------------------- MODULE CommandLineProofs -------------------------
(***************************************************************************)
(* Proofs about CommandLine: the platform and the tree of threads, however *)
(* many there are.                                                         *)
(***************************************************************************)
EXTENDS CommandLine, ThreadProofs

\* Where the thread of the platform is while main() is where it is.  Before the
\* process starts there are no threads, and main() leaves it when it is torn down.
ProgramInv ==
  /\ main \in {"start", "await", "process", "join", "returned"}
  /\ main \in {"start", "await"} => \A s \in Slots : pc[s] = "free"
  /\ main = "process" => platform = "serving" /\ ~shutdown
  /\ main \in {"start", "await"} =>
       platform \in {"none", "created", "barrier"} /\ ~shutdown
  /\ main \in {"join", "returned"} => pc[Main] = "done"

LEMMA InitProgram == CommandInit => IInv /\ ProgramInv
<1> SUFFICES ASSUME CommandInit PROVE IInv /\ ProgramInv
  OBVIOUS
<1>1. IInv
  BY InitHolds DEF CommandInit
<1>2. \A s \in Slots : pc[s] = "free"
  BY NamesAssumption DEF CommandInit, Init, Runtimes
<1> QED
  BY <1>1, <1>2 DEF CommandInit, ProgramInv

LEMMA NextProgram == IInv /\ ProgramInv /\ [CommandNext]_all => IInv' /\ ProgramInv'
<1> SUFFICES ASSUME IInv, ProgramInv, [CommandNext]_all PROVE IInv' /\ ProgramInv'
  OBVIOUS
<1>1. [Next]_vars
  BY DEF CommandNext, Program, Process, StartPlatform, PlatformReady, Shutdown,
         JoinPlatform, CreatePlatform, Serve, DestroyPlatform, all
<1>2. IInv'
  BY <1>1, NextHolds
<1> SUFFICES ProgramInv'
  BY <1>2
<1>3. CASE Process(Next)
  BY <1>3 DEF Process, ProgramInv, program
<1>4. CASE Program
  <2>1. UNCHANGED pc
    BY <1>4 DEF Program, StartPlatform, PlatformReady, Shutdown, JoinPlatform,
                CreatePlatform, Serve, DestroyPlatform, vars, at
  <2>2. CASE StartPlatform \/ PlatformReady
    BY <2>1, <2>2 DEF StartPlatform, PlatformReady, Platform, ProgramInv
  <2>3. CASE Shutdown \/ JoinPlatform
    BY <2>1, <2>3 DEF Shutdown, JoinPlatform, ProgramInv
  <2>4. CASE CreatePlatform \/ Serve \/ DestroyPlatform
    BY <2>1, <2>4 DEF CreatePlatform, Serve, DestroyPlatform, Platform, ProgramInv
  <2> QED
    BY <1>4, <2>2, <2>3, <2>4 DEF Program
<1>5. CASE UNCHANGED all
  BY <1>5 DEF all, vars, at, program, ProgramInv
<1> QED
  BY <1>3, <1>4, <1>5 DEF CommandNext

\* The thread of the platform and that of main() agree, whatever the process does.
THEOREM ProgramInvariance == CommandSpec => [](IInv /\ ProgramInv)
BY InitProgram, NextProgram, PTL DEF CommandSpec

\* js_create_env() to js_destroy_env(), on whichever thread and however deep in the
\* tree, the platform is there and served.
THEOREM PlatformAlwaysOutlives == CommandSpec => []PlatformOutlives
<1>1. IInv /\ ProgramInv => PlatformOutlives
  <2> SUFFICES ASSUME IInv, ProgramInv, Serviced # {} PROVE main = "process"
    BY DEF PlatformOutlives, ProgramInv
  <2>1. CASE main = "process"
    BY <2>1
  <2>2. CASE main # "process"
    <3>1. PICK s \in Slots : pc[s] # "free"
      BY <2>2 DEF Serviced
    <3>2. pc[Main] = "done"
      BY <2>2, <3>1 DEF ProgramInv
    <3> QED
      BY <3>1, <3>2, NobodyIsLeft DEF NobodyLeft
  <2> QED
    BY <2>1, <2>2
<1> QED
  BY <1>1, ProgramInvariance, PTL
=============================================================================
