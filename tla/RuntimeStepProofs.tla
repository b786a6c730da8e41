------------------------- MODULE RuntimeStepProofs -------------------------
(***************************************************************************)
(* What a step of the runtime may never do, and that every step is one     *)
(* that Lifecycle allows.  All of it rests on the inductive invariant of   *)
(* RuntimeProofs, before and (for the last request) after the step.        *)
(***************************************************************************)
EXTENDS RuntimeProofs

USE DEF vars, mailbox, handles, control

----------------------------------------------------------------------------
(* Action properties *)

\* Only RunExit emits exit, from pc = "exit"; and Terminate, which could undo
\* an exit, looks for it.
LEMMA StaysFinalStep == IInv /\ [Next]_vars => StaysFinal
<1> SUFFICES ASSUME IInv, [Next]_vars PROVE StaysFinal
  OBVIOUS
<1> USE DEF IInv, TypeOK, ExitInv, StackInv, ClosedInv, WindingDown, NotActive,
            Live, StaysFinal
<1>1. CASE Js
  BY <1>1 DEF Js, JsRequest, JsIdle, JsExit, JsWork, JsReturn, Accept,
              Terminate, Return
<1>2. CASE Signal
  BY <1>2 DEF Signal, TakeTransitions, DispatchTerminate, DispatchSuspend,
              DispatchWakeup, DispatchResume, DispatchDone, OnSuspend,
              OnWakeup, OnResume, Terminate, Call
<1>3. CASE Loop
  BY <1>3 DEF Loop, UvEnter, UvReturn, WorkFires, TimeoutFires, SignalFires,
              HostStop, OnIdle, OnSignal, Call, Alive
<1>4. CASE Run
  BY <1>4 DEF Run, RunSignal, RunTerminated, RunIdle, RunYield,
              RunBeforeExit, RunTail, RunExit, OnIdle, OnSignal, Call
<1>5. CASE Host
  BY <1>5 DEF Host, HostScript, HostExit, HostRun, Terminate, Call
<1>6. CASE Teardown
  BY <1>6 DEF Teardown, TeardownEnv, TeardownClose, TeardownWork,
              TeardownReturn, TeardownAgain
<1>7. CASE Foreign
  BY <1>7 DEF Foreign, Post, Send
<1>8. CASE Gone \/ UNCHANGED vars
  BY <1>8 DEF Gone
<1> QED
  BY <1>1, <1>2, <1>3, <1>4, <1>5, <1>6, <1>7, <1>8 DEF Next

\* An exit is final and is emitted once.
THEOREM ExitAlwaysFinal == Spec => ExitIsFinal
BY StaysFinalStep, Invariance, PTL DEF Spec, ExitIsFinal

\* After the exit the thread is with the host or in the teardown, where every
\* handler finds a state it does not act on.
LEMMA SaysNothingMoreStep == IInv /\ [Next]_vars => SaysNothingMore
<1> SUFFICES ASSUME IInv, [Next]_vars PROVE SaysNothingMore
  OBVIOUS
<1> USE DEF IInv, TypeOK, ExitInv, StackInv, ClosedInv, WindingDown, NotActive,
            Live, SaysNothingMore
<1>1. CASE Js
  BY <1>1 DEF Js, JsRequest, JsIdle, JsExit, JsWork, JsReturn, Accept,
              Terminate, Return
<1>2. CASE Signal
  BY <1>2 DEF Signal, TakeTransitions, DispatchTerminate, DispatchSuspend,
              DispatchWakeup, DispatchResume, DispatchDone, OnSuspend,
              OnWakeup, OnResume, Terminate, Call
<1>3. CASE Loop
  BY <1>3 DEF Loop, UvEnter, UvReturn, WorkFires, TimeoutFires, SignalFires,
              HostStop, OnIdle, OnSignal, Call, Alive
<1>4. CASE Run
  BY <1>4 DEF Run, RunSignal, RunTerminated, RunIdle, RunYield,
              RunBeforeExit, RunTail, RunExit, OnIdle, OnSignal, Call
<1>5. CASE Host
  BY <1>5 DEF Host, HostScript, HostExit, HostRun, Terminate, Call
<1>6. CASE Teardown
  BY <1>6 DEF Teardown, TeardownEnv, TeardownClose, TeardownWork,
              TeardownReturn, TeardownAgain
<1>7. CASE Foreign
  BY <1>7 DEF Foreign, Post, Send
<1>8. CASE Gone \/ UNCHANGED vars
  BY <1>8 DEF Gone
<1> QED
  BY <1>1, <1>2, <1>3, <1>4, <1>5, <1>6, <1>7, <1>8 DEF Next

\* No listener runs after exit, whatever was left in the mailbox or is posted
\* since, and although the teardown runs the loop once more.
THEOREM ExitAlwaysHeardLast == Spec => ExitIsHeardLast
BY SaysNothingMoreStep, Invariance, PTL DEF Spec, ExitIsHeardLast

\* The steps of bare_runtime_run() are the only ones from these points: a stop
\* without the host's doing means the runtime is over, and a suspended loop is
\* alive at the bottom.
LEMMA KeepsRunningStep == IInv /\ [Next]_vars => KeepsRunning
<1> SUFFICES ASSUME IInv, [Next]_vars, state = "suspended",
                    pc \in {"returned", "drained", "tail"}
             PROVE  pc' \notin {"host", "exit"} \/ mode = "nowait" \/ hostStop
  BY DEF KeepsRunning
<1>1. CASE Run
  <2>1. sigRef /\ (pc = "returned" => mode = "nowait" \/ hostStop)
    BY DEF IInv, SuspendedHoldsLoop, StopInv, Over
  <2> QED
    BY <1>1, <2>1 DEF Run, RunSignal, RunTerminated, RunIdle, RunYield,
                      RunBeforeExit, RunTail, RunExit, OnIdle, OnSignal, Call,
                      Alive
<1>2. CASE Js \/ Signal \/ Loop
  BY <1>2 DEF Js, JsRequest, JsIdle, JsExit, JsWork, JsReturn, Signal,
              TakeTransitions, DispatchTerminate, DispatchSuspend,
              DispatchWakeup, DispatchResume, DispatchDone, Loop, UvEnter,
              UvReturn, WorkFires, TimeoutFires, SignalFires, HostStop
<1>3. CASE Host \/ Teardown
  BY <1>3 DEF Host, HostScript, HostExit, HostRun, Teardown, TeardownEnv,
              TeardownClose, TeardownWork, TeardownReturn, TeardownAgain
<1>4. CASE Foreign \/ Gone \/ UNCHANGED vars
  BY <1>4 DEF Foreign, Post, Send, Gone
<1> QED
  BY <1>1, <1>2, <1>3, <1>4 DEF Next

\* A default run never leaves a suspended process on its own account.
THEOREM SuspendedRunAlwaysBlocks == Spec => SuspendedRunBlocks
BY KeepsRunningStep, Invariance, PTL DEF Spec, SuspendedRunBlocks

\* Only RunBeforeExit emits beforeExit, and of the states left to it only
\* "active" is compatible with a drained loop.
LEMMA BeforeExitStep == IInv /\ [Next]_vars => EmitsBeforeExitWhenDone
<1> SUFFICES ASSUME IInv, [Next]_vars,
                    pc # "js", pc' = "js", event' = "beforeExit"
             PROVE  state = "active" /\ ~Alive /\ batch = {}
  BY DEF EmitsBeforeExitWhenDone
<1>1. CASE RunBeforeExit
  <2>1. pc = "drained" /\ state \notin WindingDown \union {"terminated"}
    BY <1>1 DEF RunBeforeExit
  <2>2. ~Alive /\ batch = {}
    BY <2>1 DEF IInv, StopInv, FlagsInv
  <2>3. state \notin {"suspended", "exiting", "exited"}
    BY <2>1, <2>2 DEF IInv, SuspendedHoldsLoop, Alive, ExitInv
  <2> QED
    BY <2>1, <2>2, <2>3 DEF IInv, TypeOK, States, WindingDown
<1>2. CASE Run /\ ~RunBeforeExit
  BY <1>2 DEF Run, RunSignal, RunTerminated, RunIdle, RunYield, RunTail,
              RunExit, OnIdle, OnSignal, Call
<1>3. CASE Js
  BY <1>3 DEF Js, JsRequest, JsIdle, JsExit, JsWork, JsReturn
<1>4. CASE Signal
  BY <1>4 DEF Signal, TakeTransitions, DispatchTerminate, DispatchSuspend,
              DispatchWakeup, DispatchResume, DispatchDone, OnSuspend,
              OnWakeup, OnResume, Call, IInv, TypeOK
<1>5. CASE Loop
  BY <1>5 DEF Loop, UvEnter, UvReturn, WorkFires, TimeoutFires, SignalFires,
              HostStop, OnIdle, OnSignal, Call
<1>6. CASE Host \/ Teardown
  BY <1>6 DEF Host, HostScript, HostExit, HostRun, Call, Teardown,
              TeardownEnv, TeardownClose, TeardownWork, TeardownReturn,
              TeardownAgain
<1>7. CASE Foreign \/ Gone \/ UNCHANGED vars
  BY <1>7 DEF Foreign, Post, Send, Gone
<1> QED
  BY <1>1, <1>2, <1>3, <1>4, <1>5, <1>6, <1>7 DEF Next

\* beforeExit is emitted only by an active runtime with nothing left to do.
THEOREM BeforeExitAlwaysLast == Spec => BeforeExitOnlyWhenDone
BY BeforeExitStep, Invariance, PTL DEF Spec, BeforeExitOnlyWhenDone

----------------------------------------------------------------------------
(* Runtime implements Lifecycle *)

Owed == transitions # {} \/ batch # {}

\* Once nothing is owed, the runtime runs exactly when it was last asked to.
LEMMA SettledWhenServed ==
  IInv /\ ~Owed => Phase \in Promise!Ended \/ (Phase = "active" <=> last = "run")
BY DEF IInv, TypeOK, States, LastRequestWins, Outcome, Now, Owed, Phase,
       Promise!Ended, WindingDown, NotActive, Live

\* Every step of the runtime is a step of Lifecycle, or changes nothing there.
LEMMA RefinementStep ==
  IInv /\ IInv' /\ [Next]_vars => [Promise!Next]_Promise!vars
<1> SUFFICES ASSUME IInv, IInv', [Next]_vars
             PROVE  Promise!Next \/ UNCHANGED <<Phase, last, Owed>>
  BY DEF Promise!vars, Owed
<1> USE DEF Promise!Next, Promise!Ended, Phase, Owed, WindingDown, NotActive,
            Live
<1> DEFINE Same == UNCHANGED <<state, transitions, last, batch>>
<1>1. ASSUME Same PROVE UNCHANGED <<Phase, last, Owed>>
  BY <1>1
\* An accepted request raises a flag; a closed mailbox takes none.
<1>2. ASSUME NEW r \in Requests, Accept(r), UNCHANGED <<state, batch>>,
             state # "exited"
      PROVE  Promise!Next \/ UNCHANGED <<Phase, last, Owed>>
  <2>1. CASE closed
    BY <1>2, <2>1 DEF Accept
  <2>2. CASE ~closed
    <3>1. transitions' # {} /\ last' \in {"run", "hold"}
      BY <1>2, <2>2 DEF Accept, Raise, IInv, TypeOK, Requests
    <3>2. Phase # "exited" /\ UNCHANGED Phase
      BY <1>2
    <3> QED
      BY <3>1, <3>2 DEF Promise!Request
  <2> QED
    BY <2>1, <2>2
\* Terminate ends the process and drops a batch, or finds it exiting.
<1>3. ASSUME Terminate, UNCHANGED <<transitions, last>>, state # "exited",
             batch' \in {batch, {}}
      PROVE  Promise!Next \/ UNCHANGED <<Phase, last, Owed>>
  <2>1. CASE state = "exiting"
    BY <1>3, <2>1 DEF Terminate, Promise!Answer, Promise!Climbs, Promise!Settled
  <2>2. CASE state # "exiting"
    BY <1>3, <2>2 DEF Terminate, Promise!Kill
  <2> QED
    BY <2>1, <2>2
\* A dispatch answers; if it was the last one, LastRequestWins says how.
<1>4. ASSUME batch # {}, UNCHANGED <<transitions, last>>, state # "exited",
             state' = state \/ (state = "active" /\ state' = "suspending")
               \/ (state \in NotActive /\ state' \in {"awake", "active"})
      PROVE  Promise!Next
  <2>1. Promise!Climbs
    BY <1>4 DEF Promise!Climbs
  <2>2. Owed' \/ Promise!Settled'
    BY SettledWhenServed DEF IInv, TypeOK, States, LastRequestWins, Outcome, Now,
       Promise!Settled
  <2> QED
    BY <1>4, <2>1, <2>2 DEF Promise!Answer
<1>5. CASE Js
  <2>1. state # "exited"
    BY <1>5 DEF Js, JsRequest, JsIdle, JsExit, JsWork, JsReturn, IInv, ExitInv
  <2>2. ASSUME NEW r \in Requests, JsRequest(r)
        PROVE  Accept(r) /\ UNCHANGED <<state, batch>>
    BY <2>2 DEF JsRequest
  <2>3. CASE JsExit
    BY <1>3, <2>1, <2>3 DEF JsExit
  <2>4. CASE JsIdle \/ JsWork \/ JsReturn
    BY <2>4 DEF JsIdle, JsWork, JsReturn
  <2> QED
    BY <1>2, <1>5, <2>1, <2>2, <2>3, <2>4 DEF Js
<1>6. CASE Signal
  <2>1. state # "exited"
    BY <1>6 DEF Signal, TakeTransitions, DispatchTerminate, DispatchSuspend,
                DispatchWakeup, DispatchResume, DispatchDone, IInv, ExitInv
  <2>2. CASE TakeTransitions
    BY <2>2 DEF TakeTransitions, IInv, FlagsInv
  <2>3. CASE DispatchTerminate
    BY <1>3, <2>1, <2>3 DEF DispatchTerminate
  <2>4. CASE DispatchSuspend
    BY <1>4, <2>1, <2>4 DEF DispatchSuspend, OnSuspend, Call
  <2>5. CASE DispatchWakeup
    BY <1>4, <2>1, <2>5 DEF DispatchWakeup, OnWakeup, Call
  <2>6. CASE DispatchResume
    BY <1>4, <2>1, <2>6 DEF DispatchResume, OnResume, Call
  <2>7. CASE DispatchDone
    BY <1>1, <2>7 DEF DispatchDone
  <2> QED
    BY <1>6, <2>2, <2>3, <2>4, <2>5, <2>6, <2>7 DEF Signal
\* A winding runtime comes to rest.
<1>7. ASSUME NEW next, OnIdle(next), UNCHANGED <<transitions, last, batch>>
      PROVE  Promise!Next \/ UNCHANGED <<Phase, last, Owed>>
  BY <1>7 DEF OnIdle, Call, Promise!Rest
<1>8. CASE Loop
  <2>1. CASE TimeoutFires
    BY <1>7, <2>1 DEF TimeoutFires
  <2>2. CASE UvEnter \/ UvReturn \/ WorkFires \/ SignalFires \/ HostStop
    BY <1>1, <2>2 DEF UvEnter, UvReturn, WorkFires, SignalFires, HostStop
  <2> QED
    BY <1>8, <2>1, <2>2 DEF Loop
<1>9. CASE Run
  <2>1. CASE RunIdle
    BY <1>7, <2>1 DEF RunIdle
  <2>2. CASE RunExit
    BY <2>2 DEF RunExit, Call, IInv, ExitInv, ClosedInv, Promise!Leave
  <2>3. CASE RunSignal \/ RunTerminated \/ RunYield \/ RunBeforeExit \/ RunTail
    BY <1>1, <2>3 DEF RunSignal, RunTerminated, RunYield, RunBeforeExit, RunTail
  <2> QED
    BY <1>9, <2>1, <2>2, <2>3 DEF Run
<1>10. CASE Host
  <2>1. CASE HostExit
    BY <1>3, <2>1 DEF HostExit
  <2>2. CASE HostScript \/ \E m \in Modes : HostRun(m)
    BY <1>1, <2>2 DEF HostScript, HostRun
  <2> QED
    BY <1>10, <2>1, <2>2 DEF Host
<1>11. CASE Teardown
  <2>1. CASE TeardownClose
    <3>1. Phase # "exited" /\ Phase' = "exited"
      BY <2>1 DEF TeardownClose, IInv, ExitInv
    <3> QED
      BY <2>1, <3>1 DEF TeardownClose, Promise!TearDown
  <2>2. CASE Teardown /\ ~TeardownClose
    BY <1>1, <2>2 DEF Teardown, TeardownEnv, TeardownWork, TeardownReturn,
                      TeardownAgain
  <2> QED
    BY <1>11, <2>1, <2>2
<1>12. CASE Foreign
  <2>1. ASSUME NEW c \in Callers, Send(c) PROVE Same
    BY <2>1 DEF Send
  <2>2. ASSUME NEW c \in Callers, NEW r \in Requests, Post(c, r)
        PROVE  Accept(r) /\ UNCHANGED <<state, batch>> /\ state # "exited"
    BY <2>2 DEF Post
  <2> QED
    BY <1>1, <1>2, <1>12, <2>1, <2>2 DEF Foreign
<1>13. CASE Gone \/ UNCHANGED vars
  BY <1>13 DEF Gone
<1> QED
  BY <1>5, <1>6, <1>8, <1>9, <1>10, <1>11, <1>12, <1>13 DEF Next

\* The runtime with its loop, mailbox and threads keeps the promise that the
\* documentation makes of a process.
THEOREM RuntimeImplementsLifecycle == Spec => ImplementsLifecycle
<1>1. Init => Promise!Init
  BY DEF Init, Promise!Init, Phase, WindingDown
<1> QED
  BY <1>1, RefinementStep, Invariance, PTL
  DEF Spec, ImplementsLifecycle, Promise!Spec
=============================================================================
