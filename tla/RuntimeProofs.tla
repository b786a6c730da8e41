--------------------------- MODULE RuntimeProofs ---------------------------
(***************************************************************************)
(* Proofs about Runtime, for any set of foreign threads and any bound on   *)
(* the user work.  Each part of the inductive invariant IInv has a lemma   *)
(* that names the parts it leans on; they are put together in              *)
(* InductiveStep, and the properties follow.                               *)
(***************************************************************************)
EXTENDS Runtime, TLAPS

USE DEF vars, mailbox, handles, control

----------------------------------------------------------------------------
(* The parts of the invariant *)

\* Every variable keeps its type; one step per group of variables, each over
\* all actions.
LEMMA TypeStep == TypeOK /\ [Next]_vars => TypeOK'
<1> SUFFICES ASSUME TypeOK, [Next]_vars PROVE TypeOK'
  OBVIOUS
<1> USE MaxWorkAssumption
<1> USE DEF TypeOK, States, Flags, Requests, Modes, Events, Points,
            WindingDown, NotActive, Live, Next, Js, Signal, Loop, Run, Host,
            Teardown, Foreign, Gone
<1> USE DEF JsRequest, JsIdle, JsExit, JsWork, JsReturn, TakeTransitions,
            DispatchTerminate, DispatchSuspend, DispatchWakeup,
            DispatchResume, DispatchDone, UvEnter, UvReturn, WorkFires,
            TimeoutFires, SignalFires, HostStop
<1> USE DEF HostScript, HostExit, HostRun, RunSignal, RunTerminated, RunIdle,
            RunYield, RunBeforeExit, RunTail, RunExit, TeardownEnv,
            TeardownClose, TeardownWork, TeardownReturn, TeardownAgain, Post,
            Send
<1> USE DEF Accept, Raise, Terminate, Call, Return, OnSuspend, OnIdle,
            OnWakeup, OnResume, OnSignal, Alive, Pending
<1>1. state' \in States /\ pc' \in Points /\ event' \in Events /\ mode' \in Modes
  OBVIOUS
<1>2. /\ ret' \in {"host", "loop", "dispatch", "tail", "sweep"}
     /\ sigRet' \in {"uvrun", "loop", "sweep"}
  OBVIOUS
<1>3. batch' \in SUBSET Flags /\ transitions' \in SUBSET Flags
  OBVIOUS
<1>4. last' \in {"run", "hold"}
  OBVIOUS
<1>5. work' \in 0..MaxWork
  OBVIOUS
<1>6. sender' \in [Callers -> BOOLEAN]
  OBVIOUS
<1>7. sigRef' \in BOOLEAN /\ sigPending' \in BOOLEAN /\ timer' \in BOOLEAN
  OBVIOUS
<1>8. stop' \in BOOLEAN /\ hostStop' \in BOOLEAN
  OBVIOUS
<1>9. closed' \in BOOLEAN /\ env' \in BOOLEAN
  OBVIOUS
<1> QED
  BY <1>1, <1>2, <1>3, <1>4, <1>5, <1>6, <1>7, <1>8, <1>9

\* Flags rise in Raise and fall together in TakeTransitions, and only the
\* dispatch has a batch in hand.
LEMMA FlagsStep ==
  TypeOK /\ FlagsInv /\ [Next]_vars
    => FlagsInv'
<1> SUFFICES ASSUME TypeOK, FlagsInv,
                    [Next]_vars
             PROVE  FlagsInv'
  OBVIOUS
<1> USE DEF FlagsInv, TypeOK, Flags, Requests
<1>1. CASE Js
  BY <1>1 DEF Js, JsRequest, JsIdle, JsExit, JsWork, JsReturn, Accept, Raise,
              Terminate, Return
<1>2. CASE Signal
  BY <1>2 DEF Signal, TakeTransitions, DispatchTerminate, DispatchSuspend,
              DispatchWakeup, DispatchResume, DispatchDone, OnSuspend,
              OnWakeup, OnResume, Terminate, Call
<1>3. CASE Loop
  BY <1>3 DEF Loop, UvEnter, UvReturn, WorkFires, TimeoutFires, SignalFires,
              HostStop, OnIdle, OnSignal, Call, Alive
<1>4. CASE Run
  BY <1>4 DEF Run, RunSignal, RunTerminated, RunIdle, RunYield, RunBeforeExit,
              RunTail, RunExit, OnIdle, OnSignal, Call, Alive, Pending
<1>5. CASE Host
  BY <1>5 DEF Host, HostScript, HostExit, HostRun, Terminate, Call
<1>6. CASE Teardown
  BY <1>6 DEF Teardown, TeardownEnv, TeardownClose, TeardownWork,
              TeardownReturn, TeardownAgain
<1>7. CASE Foreign
  BY <1>7 DEF Foreign, Post, Send, Accept, Raise
<1>8. CASE Gone \/ UNCHANGED vars
  BY <1>8 DEF Gone
<1> QED
  BY <1>1, <1>2, <1>3, <1>4, <1>5, <1>6, <1>7, <1>8 DEF Next

\* RunTail closes an empty mailbox on the way to RunExit; nothing gets in later.
LEMMA ClosedStep ==
  FlagsInv /\ TypeOK /\ ExitInv /\ ClosedInv /\ [Next]_vars
    => ClosedInv'
<1> SUFFICES ASSUME FlagsInv, TypeOK, ExitInv, ClosedInv,
                    [Next]_vars
             PROVE  ClosedInv'
  OBVIOUS
<1> USE DEF ClosedInv, FlagsInv, TypeOK, ExitInv, Flags, Requests,
            WindingDown, NotActive, Live
<1>1. CASE Js
  BY <1>1 DEF Js, JsRequest, JsIdle, JsExit, JsWork, JsReturn, Accept, Raise,
              Terminate, Return
<1>2. CASE Signal
  BY <1>2 DEF Signal, TakeTransitions, DispatchTerminate, DispatchSuspend,
              DispatchWakeup, DispatchResume, DispatchDone, OnSuspend,
              OnWakeup, OnResume, Terminate, Call
<1>3. CASE Loop
  BY <1>3 DEF Loop, UvEnter, UvReturn, WorkFires, TimeoutFires, SignalFires,
              HostStop, OnIdle, OnSignal, Call, Alive
<1>4. CASE Run
  BY <1>4 DEF Run, RunSignal, RunTerminated, RunIdle, RunYield, RunBeforeExit,
              RunTail, RunExit, OnIdle, OnSignal, Call, Alive, Pending
<1>5. CASE Host
  BY <1>5 DEF Host, HostScript, HostExit, HostRun, Terminate, Call
<1>6. CASE Teardown
  BY <1>6 DEF Teardown, TeardownEnv, TeardownClose, TeardownWork,
              TeardownReturn, TeardownAgain
<1>7. CASE Foreign
  BY <1>7 DEF Foreign, Post, Send, Accept, Raise
<1>8. CASE Gone \/ UNCHANGED vars
  BY <1>8 DEF Gone
<1> QED
  BY <1>1, <1>2, <1>3, <1>4, <1>5, <1>6, <1>7, <1>8 DEF Next

\* What returns to the sweep was called from it, without an environment.
LEMMA StackStep ==
  TypeOK /\ StackInv /\ [Next]_vars
    => StackInv'
<1> SUFFICES ASSUME TypeOK, StackInv,
                    [Next]_vars
             PROVE  StackInv'
  OBVIOUS
<1> USE DEF StackInv, TypeOK
<1>1. CASE Js
  BY <1>1 DEF Js, JsRequest, JsIdle, JsExit, JsWork, JsReturn, Accept, Raise,
              Terminate, Return
<1>2. CASE Signal
  BY <1>2 DEF Signal, TakeTransitions, DispatchTerminate, DispatchSuspend,
              DispatchWakeup, DispatchResume, DispatchDone, OnSuspend,
              OnWakeup, OnResume, Terminate, Call
<1>3. CASE Loop
  BY <1>3 DEF Loop, UvEnter, UvReturn, WorkFires, TimeoutFires, SignalFires,
              HostStop, OnIdle, OnSignal, Call, Alive
<1>4. CASE Run
  BY <1>4 DEF Run, RunSignal, RunTerminated, RunIdle, RunYield, RunBeforeExit,
              RunTail, RunExit, OnIdle, OnSignal, Call, Alive, Pending
<1>5. CASE Host
  BY <1>5 DEF Host, HostScript, HostExit, HostRun, Terminate, Call
<1>6. CASE Teardown
  BY <1>6 DEF Teardown, TeardownEnv, TeardownClose, TeardownWork,
              TeardownReturn, TeardownAgain
<1>7. CASE Foreign
  BY <1>7 DEF Foreign, Post, Send, Accept, Raise
<1>8. CASE Gone \/ UNCHANGED vars
  BY <1>8 DEF Gone
<1> QED
  BY <1>1, <1>2, <1>3, <1>4, <1>5, <1>6, <1>7, <1>8 DEF Next

\* Only the host and Terminate stop the loop, so only they cut a run short.
LEMMA StopStep ==
  TypeOK /\ StopInv /\ [Next]_vars
    => StopInv'
<1> SUFFICES ASSUME TypeOK, StopInv,
                    [Next]_vars
             PROVE  StopInv'
  OBVIOUS
<1> USE MaxWorkAssumption DEF StopInv, TypeOK, Over, Alive, WindingDown,
                              NotActive, Live
<1>1. CASE Js
  BY <1>1 DEF Js, JsRequest, JsIdle, JsExit, JsWork, JsReturn, Accept, Raise,
              Terminate, Return
<1>2. CASE Signal
  BY <1>2 DEF Signal, TakeTransitions, DispatchTerminate, DispatchSuspend,
              DispatchWakeup, DispatchResume, DispatchDone, OnSuspend,
              OnWakeup, OnResume, Terminate, Call
<1>3. CASE Loop
  BY <1>3 DEF Loop, UvEnter, UvReturn, WorkFires, TimeoutFires, SignalFires,
              HostStop, OnIdle, OnSignal, Call, Alive
<1>4. CASE Run
  BY <1>4 DEF Run, RunSignal, RunTerminated, RunIdle, RunYield, RunBeforeExit,
              RunTail, RunExit, OnIdle, OnSignal, Call, Alive, Pending
<1>5. CASE Host
  BY <1>5 DEF Host, HostScript, HostExit, HostRun, Terminate, Call
<1>6. CASE Teardown
  BY <1>6 DEF Teardown, TeardownEnv, TeardownClose, TeardownWork,
              TeardownReturn, TeardownAgain
<1>7. CASE Foreign
  BY <1>7 DEF Foreign, Post, Send, Accept, Raise
<1>8. CASE Gone \/ UNCHANGED vars
  BY <1>8 DEF Gone
<1> QED
  BY <1>1, <1>2, <1>3, <1>4, <1>5, <1>6, <1>7, <1>8 DEF Next

\* Where the program counter can be once the runtime may no longer live.  A
\* suspended loop is alive, so RunTail never closes behind it.
LEMMA ExitStep ==
  TypeOK /\ ClosedInv /\ StackInv /\ StopInv /\ SuspendedHoldsLoop /\ ExitInv
  /\ [Next]_vars
    => ExitInv'
<1> SUFFICES ASSUME TypeOK, ClosedInv, StackInv, StopInv, SuspendedHoldsLoop,
                    ExitInv, [Next]_vars
             PROVE  ExitInv'
  OBVIOUS
<1> USE MaxWorkAssumption DEF ExitInv, TypeOK, ClosedInv, StackInv, StopInv,
                              SuspendedHoldsLoop, WindingDown, NotActive, Live,
                              Over, Alive, Pending, States, Requests, Flags
<1>1. CASE Js
  BY <1>1 DEF Js, JsRequest, JsIdle, JsExit, JsWork, JsReturn, Accept, Raise,
              Terminate, Return
<1>2. CASE Signal
  BY <1>2 DEF Signal, TakeTransitions, DispatchTerminate, DispatchSuspend,
              DispatchWakeup, DispatchResume, DispatchDone, OnSuspend,
              OnWakeup, OnResume, Terminate, Call
<1>3. CASE Loop
  BY <1>3 DEF Loop, UvEnter, UvReturn, WorkFires, TimeoutFires, SignalFires,
              HostStop, OnIdle, OnSignal, Call, Alive
<1>4. CASE Run
  BY <1>4 DEF Run, RunSignal, RunTerminated, RunIdle, RunYield, RunBeforeExit,
              RunTail, RunExit, OnIdle, OnSignal, Call, Alive, Pending
<1>5. CASE Host
  BY <1>5 DEF Host, HostScript, HostExit, HostRun, Terminate, Call
<1>6. CASE Teardown
  BY <1>6 DEF Teardown, TeardownEnv, TeardownClose, TeardownWork,
              TeardownReturn, TeardownAgain
<1>7. CASE Foreign
  BY <1>7 DEF Foreign, Post, Send, Accept, Raise
<1>8. CASE Gone \/ UNCHANGED vars
  BY <1>8 DEF Gone
<1> QED
  BY <1>1, <1>2, <1>3, <1>4, <1>5, <1>6, <1>7, <1>8 DEF Next

\* Without an environment the thread is in the teardown, or in what the sweep
\* of one has called.
LEMMA DestroyStep ==
  TypeOK /\ StackInv /\ ExitInv /\ DestroyInv /\ [Next]_vars
    => DestroyInv'
<1> SUFFICES ASSUME TypeOK, StackInv, ExitInv, DestroyInv,
                    [Next]_vars
             PROVE  DestroyInv'
  OBVIOUS
<1> USE MaxWorkAssumption DEF DestroyInv, TypeOK, StackInv, ExitInv,
                              WindingDown, NotActive, Live, Modes
<1>1. CASE Js
  BY <1>1 DEF Js, JsRequest, JsIdle, JsExit, JsWork, JsReturn, Accept, Raise,
              Terminate, Return
<1>2. CASE Signal
  BY <1>2 DEF Signal, TakeTransitions, DispatchTerminate, DispatchSuspend,
              DispatchWakeup, DispatchResume, DispatchDone, OnSuspend,
              OnWakeup, OnResume, Terminate, Call
<1>3. CASE Loop
  BY <1>3 DEF Loop, UvEnter, UvReturn, WorkFires, TimeoutFires, SignalFires,
              HostStop, OnIdle, OnSignal, Call, Alive
<1>4. CASE Run
  BY <1>4 DEF Run, RunSignal, RunTerminated, RunIdle, RunYield, RunBeforeExit,
              RunTail, RunExit, OnIdle, OnSignal, Call, Alive, Pending
<1>5. CASE Host
  BY <1>5 DEF Host, HostScript, HostExit, HostRun, Terminate, Call
<1>6. CASE Teardown
  BY <1>6 DEF Teardown, TeardownEnv, TeardownClose, TeardownWork,
              TeardownReturn, TeardownAgain
<1>7. CASE Foreign
  BY <1>7 DEF Foreign, Post, Send, Accept, Raise
<1>8. CASE Gone \/ UNCHANGED vars
  BY <1>8 DEF Gone
<1> QED
  BY <1>1, <1>2, <1>3, <1>4, <1>5, <1>6, <1>7, <1>8 DEF Next

\* Only on_wakeup(), on_resume() and Terminate leave "suspended"; on_signal()
\* drops the reference in every other state.
LEMMA HoldsLoopStep ==
  SuspendedHoldsLoop /\ [Next]_vars
    => SuspendedHoldsLoop'
<1> SUFFICES ASSUME SuspendedHoldsLoop,
                    [Next]_vars
             PROVE  SuspendedHoldsLoop'
  OBVIOUS
<1> USE DEF SuspendedHoldsLoop, WindingDown, NotActive, Live
<1>1. CASE Js
  BY <1>1 DEF Js, JsRequest, JsIdle, JsExit, JsWork, JsReturn, Accept, Raise,
              Terminate, Return
<1>2. CASE Signal
  BY <1>2 DEF Signal, TakeTransitions, DispatchTerminate, DispatchSuspend,
              DispatchWakeup, DispatchResume, DispatchDone, OnSuspend,
              OnWakeup, OnResume, Terminate, Call
<1>3. CASE Loop
  BY <1>3 DEF Loop, UvEnter, UvReturn, WorkFires, TimeoutFires, SignalFires,
              HostStop, OnIdle, OnSignal, Call, Alive
<1>4. CASE Run
  BY <1>4 DEF Run, RunSignal, RunTerminated, RunIdle, RunYield, RunBeforeExit,
              RunTail, RunExit, OnIdle, OnSignal, Call, Alive, Pending
<1>5. CASE Host
  BY <1>5 DEF Host, HostScript, HostExit, HostRun, Terminate, Call
<1>6. CASE Teardown
  BY <1>6 DEF Teardown, TeardownEnv, TeardownClose, TeardownWork,
              TeardownReturn, TeardownAgain
<1>7. CASE Foreign
  BY <1>7 DEF Foreign, Post, Send, Accept, Raise
<1>8. CASE Gone \/ UNCHANGED vars
  BY <1>8 DEF Gone
<1> QED
  BY <1>1, <1>2, <1>3, <1>4, <1>5, <1>6, <1>7, <1>8 DEF Next

\* Whoever references the signal of a live runtime also sends it, and its
\* delivery drops the reference.
LEMMA StrayReferenceStep ==
  ClosedInv /\ ExitInv /\ NoStrayReference /\ [Next]_vars
    => NoStrayReference'
<1> SUFFICES ASSUME ClosedInv, ExitInv, NoStrayReference,
                    [Next]_vars
             PROVE  NoStrayReference'
  OBVIOUS
<1> USE DEF NoStrayReference, ClosedInv, ExitInv, WindingDown, NotActive,
            Live, Requests
<1>1. CASE Js
  BY <1>1 DEF Js, JsRequest, JsIdle, JsExit, JsWork, JsReturn, Accept, Raise,
              Terminate, Return
<1>2. CASE Signal
  BY <1>2 DEF Signal, TakeTransitions, DispatchTerminate, DispatchSuspend,
              DispatchWakeup, DispatchResume, DispatchDone, OnSuspend,
              OnWakeup, OnResume, Terminate, Call
<1>3. CASE Loop
  BY <1>3 DEF Loop, UvEnter, UvReturn, WorkFires, TimeoutFires, SignalFires,
              HostStop, OnIdle, OnSignal, Call, Alive
<1>4. CASE Run
  BY <1>4 DEF Run, RunSignal, RunTerminated, RunIdle, RunYield, RunBeforeExit,
              RunTail, RunExit, OnIdle, OnSignal, Call, Alive, Pending
<1>5. CASE Host
  BY <1>5 DEF Host, HostScript, HostExit, HostRun, Terminate, Call
<1>6. CASE Teardown
  BY <1>6 DEF Teardown, TeardownEnv, TeardownClose, TeardownWork,
              TeardownReturn, TeardownAgain
<1>7. CASE Foreign
  <2>1. ASSUME NEW c \in Callers, Send(c) PROVE NoStrayReference'
    BY <2>1 DEF Send
  <2>2. ASSUME NEW c \in Callers, NEW r \in Requests, Post(c, r)
        PROVE  NoStrayReference'
    BY <2>2 DEF Post, Accept
  <2> QED
    BY <1>7, <2>1, <2>2 DEF Foreign
<1>8. CASE Gone \/ UNCHANGED vars
  BY <1>8 DEF Gone
<1> QED
  BY <1>1, <1>2, <1>3, <1>4, <1>5, <1>6, <1>7, <1>8 DEF Next

\* Posting changes the outcome of the flags as it changes "last"; dispatching
\* moves it, one flag at a time, from the batch into the state.
LEMMA LastRequestStep ==
  TypeOK /\ FlagsInv /\ ClosedInv /\ ExitInv /\ LastRequestWins /\ [Next]_vars
    => LastRequestWins'
<1> SUFFICES ASSUME TypeOK, FlagsInv, ClosedInv, ExitInv, LastRequestWins,
                    [Next]_vars
             PROVE  LastRequestWins'
  OBVIOUS
<1> USE DEF LastRequestWins, TypeOK, FlagsInv, ClosedInv, ExitInv, Outcome,
            Now, WindingDown, NotActive, Live, Flags, Requests
<1>1. CASE Js
  BY <1>1 DEF Js, JsRequest, JsIdle, JsExit, JsWork, JsReturn, Accept, Raise,
              Terminate, Return
<1>2. CASE Signal
  BY <1>2 DEF Signal, TakeTransitions, DispatchTerminate, DispatchSuspend,
              DispatchWakeup, DispatchResume, DispatchDone, OnSuspend,
              OnWakeup, OnResume, Terminate, Call
<1>3. CASE Loop
  BY <1>3 DEF Loop, UvEnter, UvReturn, WorkFires, TimeoutFires, SignalFires,
              HostStop, OnIdle, OnSignal, Call, Alive
<1>4. CASE Run
  BY <1>4 DEF Run, RunSignal, RunTerminated, RunIdle, RunYield, RunBeforeExit,
              RunTail, RunExit, OnIdle, OnSignal, Call, Alive, Pending
<1>5. CASE Host
  BY <1>5 DEF Host, HostScript, HostExit, HostRun, Terminate, Call
<1>6. CASE Teardown
  BY <1>6 DEF Teardown, TeardownEnv, TeardownClose, TeardownWork,
              TeardownReturn, TeardownAgain
<1>7. CASE Foreign
  <2>1. ASSUME NEW c \in Callers, Send(c) PROVE LastRequestWins'
    BY <2>1 DEF Send
  <2>2. ASSUME NEW c \in Callers, NEW r \in Requests, Post(c, r)
        PROVE  LastRequestWins'
    <3>1. CASE closed
      BY <2>2, <3>1 DEF Post, Accept
    <3>2. CASE ~closed
      BY <2>2, <3>2 DEF Post, Accept, Raise
    <3> QED
      BY <3>1, <3>2
  <2> QED
    BY <1>7, <2>1, <2>2 DEF Foreign
<1>8. CASE Gone \/ UNCHANGED vars
  BY <1>8 DEF Gone
<1> QED
  BY <1>1, <1>2, <1>3, <1>4, <1>5, <1>6, <1>7, <1>8 DEF Next

\* Every transition into or out of "awake" and "idle" sets the timer.
LEMMA DeadlineStep ==
  DeadlineArmed /\ [Next]_vars
    => DeadlineArmed'
<1> SUFFICES ASSUME DeadlineArmed,
                    [Next]_vars
             PROVE  DeadlineArmed'
  OBVIOUS
<1> USE DEF DeadlineArmed, WindingDown, NotActive, Live
<1>1. CASE Js
  BY <1>1 DEF Js, JsRequest, JsIdle, JsExit, JsWork, JsReturn, Accept, Raise,
              Terminate, Return
<1>2. CASE Signal
  BY <1>2 DEF Signal, TakeTransitions, DispatchTerminate, DispatchSuspend,
              DispatchWakeup, DispatchResume, DispatchDone, OnSuspend,
              OnWakeup, OnResume, Terminate, Call
<1>3. CASE Loop
  BY <1>3 DEF Loop, UvEnter, UvReturn, WorkFires, TimeoutFires, SignalFires,
              HostStop, OnIdle, OnSignal, Call, Alive
<1>4. CASE Run
  BY <1>4 DEF Run, RunSignal, RunTerminated, RunIdle, RunYield, RunBeforeExit,
              RunTail, RunExit, OnIdle, OnSignal, Call, Alive, Pending
<1>5. CASE Host
  BY <1>5 DEF Host, HostScript, HostExit, HostRun, Terminate, Call
<1>6. CASE Teardown
  BY <1>6 DEF Teardown, TeardownEnv, TeardownClose, TeardownWork,
              TeardownReturn, TeardownAgain
<1>7. CASE Foreign
  BY <1>7 DEF Foreign, Post, Send, Accept, Raise
<1>8. CASE Gone \/ UNCHANGED vars
  BY <1>8 DEF Gone
<1> QED
  BY <1>1, <1>2, <1>3, <1>4, <1>5, <1>6, <1>7, <1>8 DEF Next

----------------------------------------------------------------------------
(* The invariant and the invariants that follow from it *)

LEMMA InductiveInit == Init => IInv
<1> SUFFICES ASSUME Init PROVE IInv
  OBVIOUS
<1> USE MaxWorkAssumption DEF Init
<1>1. TypeOK
  <2>1. /\ state \in States /\ pc \in Points /\ event \in Events /\ mode \in Modes
        /\ transitions \in SUBSET Flags /\ batch \in SUBSET Flags
        /\ work \in 0..MaxWork /\ sender \in [Callers -> BOOLEAN]
    BY DEF States, Points, Events, Modes
  <2>2. sigRef \in BOOLEAN /\ sigPending \in BOOLEAN /\ timer \in BOOLEAN
    OBVIOUS
  <2>3. /\ stop \in BOOLEAN /\ hostStop \in BOOLEAN
        /\ closed \in BOOLEAN /\ env \in BOOLEAN
    OBVIOUS
  <2> QED
    BY <2>1, <2>2, <2>3 DEF TypeOK
<1>2. FlagsInv /\ ClosedInv /\ StackInv /\ StopInv /\ ExitInv /\ DestroyInv
  BY DEF FlagsInv, ClosedInv, StackInv, StopInv, ExitInv, DestroyInv
<1>3. SuspendedHoldsLoop /\ NoStrayReference /\ DeadlineArmed
  BY DEF SuspendedHoldsLoop, NoStrayReference, DeadlineArmed
<1>4. LastRequestWins
  BY DEF LastRequestWins, Outcome, Now
<1> QED
  BY <1>1, <1>2, <1>3, <1>4 DEF IInv

LEMMA InductiveStep == IInv /\ [Next]_vars => IInv'
BY TypeStep, FlagsStep, ClosedStep, StackStep, StopStep, ExitStep, DestroyStep,
   HoldsLoopStep, StrayReferenceStep, LastRequestStep, DeadlineStep
DEF IInv

\* The inductive invariant holds of every behaviour of the runtime.
THEOREM Invariance == Spec => []IInv
BY InductiveInit, InductiveStep, PTL DEF Spec

\* Every variable of the runtime keeps its type.
THEOREM TypeCorrect == Spec => []TypeOK
<1>1. IInv => TypeOK
  BY DEF IInv
<1> QED
  BY <1>1, Invariance, PTL

\* However the requests of any number of threads, of JavaScript and of its
\* lifecycle listeners interleave with the handling of earlier ones, the
\* runtime ends up as the last accepted of them asked: src/src/runtime.c
\* coalesces them into five flags without losing their order.
THEOREM LastRequestAlwaysWins == Spec => []LastRequestWins
<1>1. IInv => LastRequestWins
  BY DEF IInv
<1> QED
  BY <1>1, Invariance, PTL

\* A suspended runtime always holds its loop open.
THEOREM SuspendedAlwaysHoldsLoop == Spec => []SuspendedHoldsLoop
<1>1. IInv => SuspendedHoldsLoop
  BY DEF IInv
<1> QED
  BY <1>1, Invariance, PTL

\* A runtime that is not suspended is never held open for nothing.
THEOREM NeverStrayReference == Spec => []NoStrayReference
<1>1. IInv => NoStrayReference
  BY DEF IInv
<1> QED
  BY <1>1, Invariance, PTL

\* The deadline timer is armed exactly while a wakeup or an idle call is on.
THEOREM DeadlineAlwaysArmed == Spec => []DeadlineArmed
<1>1. IInv => DeadlineArmed
  BY DEF IInv
<1> QED
  BY <1>1, Invariance, PTL

\* A natural exit loses no transition that the mailbox had accepted.
THEOREM ClosedAlwaysServed == Spec => []ClosedMeansServed
<1>1. IInv => ClosedMeansServed
  BY DEF IInv, ClosedInv, ClosedMeansServed
<1> QED
  BY <1>1, Invariance, PTL
=============================================================================
