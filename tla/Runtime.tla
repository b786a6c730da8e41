------------------------------ MODULE Runtime ------------------------------
(***************************************************************************)
(* One Bare runtime (src/src/runtime.c): the thread that owns the event    *)
(* loop, the mailbox of lifecycle transitions that other threads write,    *)
(* and the JavaScript that the lifecycle events call back into.            *)
(*                                                                         *)
(* The owner thread is a program counter "pc".  A step of the owner runs   *)
(* up to the next point where another thread can be noticed (the mailbox   *)
(* lock, the async handle) or where JavaScript or the host gets control.   *)
(* Any number of foreign threads post transitions; a post is two steps,    *)
(* because bare_runtime_suspend() and its kin release the mailbox lock     *)
(* before they call uv_async_send().                                       *)
(*                                                                         *)
(* The loop itself is libuv, outside the repository.  It is modelled by    *)
(* what runtime.c relies on: uv_run() returns whether a referenced handle  *)
(* is left, returns early once stopped, runs callbacks in any order, and   *)
(* coalesces sends to one async handle.                                    *)
(***************************************************************************)
EXTENDS Naturals

CONSTANTS
  Callers,        \* foreign threads that may call bare_suspend() and its kin
  MaxWork         \* bound: referenced user handles on the loop at a time

ASSUME MaxWorkAssumption == MaxWork \in Nat

VARIABLES
  state,          \* runtime->state
  transitions,    \* runtime->transitions, as the set of flags that are up
  closed,         \* runtime->closed
  batch,          \* what is left of the snapshot on_signal() took
  sigRef,         \* does runtime->signal hold the loop open?
  sigPending,     \* was the signal sent and not yet delivered?
  timer,          \* is runtime->timeout armed?
  work,           \* referenced user handles
  stop,           \* the loop's stop flag
  hostStop,       \* history: the stop came from the host, with work left
  mode,           \* the uv_run_mode of the current bare_run()
  pc,             \* where the owner thread is
  event,          \* which JavaScript runs while pc = "js"
  ret,            \* where the owner continues after that JavaScript
  sigRet,         \* where the owner continues after on_signal()
  env,            \* does the JavaScript environment exist?
  sender,         \* foreign threads between unlock and uv_async_send()
  last            \* history: was resume or suspend accepted last?

mailbox == <<transitions, closed, last>>
handles == <<sigRef, sigPending, timer, work, stop, hostStop>>
control == <<pc, event, ret, sigRet>>
vars    == <<state, mailbox, batch, handles, mode, control, env, sender>>

----------------------------------------------------------------------------
(* Kinds, states and program counters *)

States   == {"active", "suspending", "idle", "suspended", "awake",
             "terminated", "exiting", "exited"}
Requests == {"suspend", "wakeup", "resume", "terminate"}
Flags    == Requests \union {"resuspend"}
Modes    == {"default", "nowait"}
Events   == {"none", "script", "work", "suspend", "wakeup", "idle", "resume",
             "beforeExit", "exit"}

\* Variant: a woken runtime out of work is not sent back to sleep.
WindingDownNotAwake == {"suspending", "idle"}

\* The states from which on_idle() lets the runtime go to sleep.
WindingDown == {"suspending", "idle", "awake"}
\* Variant: a suspension can be cancelled, but not ended.
NotActiveNotSuspended == WindingDown

\* The states that on_wakeup() and on_resume() act on.
NotActive   == WindingDown \union {"suspended"}
Live        == {"active", "suspending", "idle", "suspended", "awake"}

Points == {"host", "uvrun", "loop", "drained", "returned", "signal",
           "dispatch", "js", "tail", "exit", "sweep", "drain", "gone"}

\* Variant: a transition missing from the list of those that are pending.
PendingNotWakeup == transitions \intersect {"suspend", "resume", "terminate"} # {}

\* bare_runtime__pending_transitions(): "resuspend" alone is not pending.
Pending == transitions \intersect Requests # {}

\* uv_loop_alive(); the timeout is unreferenced by bare_runtime_setup().
Alive == work > 0 \/ sigRef

TypeOK ==
  /\ state \in States
  /\ transitions \in SUBSET Flags
  /\ closed \in BOOLEAN
  /\ batch \in SUBSET Flags
  /\ sigRef \in BOOLEAN /\ sigPending \in BOOLEAN /\ timer \in BOOLEAN
  /\ work \in 0..MaxWork
  /\ stop \in BOOLEAN /\ hostStop \in BOOLEAN
  /\ mode \in Modes
  /\ pc \in Points
  /\ event \in Events
  /\ ret \in {"host", "loop", "dispatch", "tail", "sweep"}
  /\ sigRet \in {"uvrun", "loop", "sweep"}
  /\ env \in BOOLEAN
  /\ sender \in [Callers -> BOOLEAN]
  /\ last \in {"run", "hold"}

\* bare_runtime_setup(): an active runtime with both handles unreferenced.
Init ==
  /\ state = "active"
  /\ transitions = {} /\ closed = FALSE /\ batch = {}
  /\ sigRef = FALSE /\ sigPending = FALSE /\ timer = FALSE
  /\ work = 0 /\ stop = FALSE /\ hostStop = FALSE
  /\ mode = "default"
  /\ pc = "host" /\ event = "none" /\ ret = "host" /\ sigRet = "uvrun"
  /\ env = TRUE
  /\ sender = [c \in Callers |-> FALSE]
  /\ last = "run"

----------------------------------------------------------------------------
(* The mailbox: bare_runtime_suspend(), _wakeup(), _resume(), _terminate() *)

\* Variant: resume does not take a resuspend back.
RaiseKeepsResuspend(r) ==
  transitions \union (IF r = "suspend" THEN {"suspend", "resuspend"} ELSE {r})

\* The flags after request r: suspend asks to be repeated after a resume in
\* the same batch, and resume takes that back.
Raise(r) ==
  CASE r = "suspend" -> transitions \union {"suspend", "resuspend"}
    [] r = "resume"  -> (transitions \union {"resume"}) \ {"resuspend"}
    [] OTHER         -> transitions \union {r}

\* The part under runtime->lock; a closed mailbox takes nothing.
Accept(r) ==
  IF closed
    THEN UNCHANGED mailbox
    ELSE /\ transitions' = Raise(r)
         /\ last' = CASE r = "suspend" -> "hold"
                      [] r = "resume"  -> "run"
                      [] OTHER         -> last
         /\ UNCHANGED closed

\* A foreign thread posts.  The host does not start a call on a process it
\* is tearing down.
Post(c, r) ==
  /\ pc \notin {"sweep", "drain", "gone"} /\ state # "exited"
  /\ ~sender[c]
  /\ Accept(r)
  /\ sender' = [sender EXCEPT ![c] = ~closed]
  /\ UNCHANGED <<state, batch, handles, mode, control, env>>

\* ... and, with the lock released, sends.
Send(c) ==
  /\ sender[c]
  /\ sender' = [sender EXCEPT ![c] = FALSE]
  /\ sigPending' = TRUE
  /\ UNCHANGED <<state, mailbox, batch, sigRef, timer, work, stop, hostStop,
                 mode, control, env>>

----------------------------------------------------------------------------
(* JavaScript: scripts, callbacks and lifecycle listeners on the owner *)

Call(e, r) == pc' = "js" /\ event' = e /\ ret' = r /\ UNCHANGED sigRet
Return     == pc' = ret /\ event' = "none" /\ ret' = "host" /\ UNCHANGED sigRet

\* Bare.suspend(), Bare.wakeup() and Bare.resume(): the binding first makes
\* the signal hold the loop open, so that it is delivered.
JsRequest(r) ==
  /\ pc = "js"
  /\ r # "terminate"
  /\ sigRef' = TRUE
  /\ Accept(r)
  /\ sigPending' = (sigPending \/ ~closed)
  /\ UNCHANGED <<state, batch, timer, work, stop, hostStop, mode, control,
                 env, sender>>

\* Bare.idle()
JsIdle ==
  /\ pc = "js"
  /\ state \in {"suspending", "awake"}
  /\ state' = "idle"
  /\ timer' = TRUE
  /\ UNCHANGED <<mailbox, batch, sigRef, sigPending, work, stop, hostStop,
                 mode, control, env, sender>>

\* Variants: an exiting runtime is terminated again; the loop is not stopped.
TerminateAlways == state' = "terminated" /\ stop' = TRUE

TerminateNoStop ==
  IF state = "exiting"
    THEN UNCHANGED <<state, stop>>
    ELSE state' = "terminated" /\ UNCHANGED stop

\* bare_runtime__terminate(), reached through exit() of bare.js
Terminate ==
  IF state = "exiting"
    THEN UNCHANGED <<state, stop>>
    ELSE state' = "terminated" /\ stop' = TRUE

\* Bare.exit(): terminating the execution also ends the listener.
JsExit ==
  /\ pc = "js"
  /\ Terminate
  /\ Return
  /\ UNCHANGED <<mailbox, batch, sigRef, sigPending, timer, work, hostStop,
                 mode, env, sender>>

\* JavaScript starts and ends timers, requests and other handles.
JsWork ==
  /\ pc = "js"
  /\ work' \in {work - 1, work + 1} \intersect 0..MaxWork
  /\ UNCHANGED <<state, mailbox, batch, sigRef, sigPending, timer, stop,
                 hostStop, mode, control, env, sender>>

JsReturn ==
  /\ pc = "js"
  /\ Return
  /\ UNCHANGED <<state, mailbox, batch, handles, mode, env, sender>>

----------------------------------------------------------------------------
(* Lifecycle handlers.  Each continues at "next" when nothing is emitted. *)

\* Variant: no look at the state.
OnSuspendAlways(next) == state' = "suspending" /\ Call("suspend", next)

OnSuspend(next) ==
  IF state = "active"
    THEN state' = "suspending" /\ Call("suspend", next)
    ELSE pc' = next /\ UNCHANGED <<state, event, ret, sigRet>>

\* Its callers: a timer that has fired, which is no longer armed, and
\* bare_runtime_run() in a state that on_idle() acts on.
OnIdle(next) ==
  /\ timer' = FALSE
  /\ IF state \in WindingDown
       THEN state' = "suspended" /\ sigRef' = TRUE /\ Call("idle", next)
       ELSE pc' = next /\ UNCHANGED <<state, sigRef, event, ret, sigRet>>

\* Variants: no deadline is set; the deadline of a wakeup is left armed.
OnWakeupNoDeadline(next) ==
  IF state \in NotActive
    THEN /\ state' = "awake" /\ sigRef' = FALSE /\ UNCHANGED timer
         /\ Call("wakeup", next)
    ELSE pc' = next /\ UNCHANGED <<state, sigRef, timer, event, ret, sigRet>>

OnResumeKeepsDeadline(next) ==
  IF state \in NotActive
    THEN /\ state' = "active" /\ sigRef' = FALSE /\ UNCHANGED timer
         /\ Call("resume", next)
    ELSE pc' = next /\ UNCHANGED <<state, sigRef, timer, event, ret, sigRet>>

OnWakeup(next) ==
  IF state \in NotActive
    THEN /\ state' = "awake" /\ sigRef' = FALSE /\ timer' = TRUE
         /\ Call("wakeup", next)
    ELSE pc' = next /\ UNCHANGED <<state, sigRef, timer, event, ret, sigRet>>

OnResume(next) ==
  IF state \in NotActive
    THEN /\ state' = "active" /\ sigRef' = FALSE /\ timer' = FALSE
         /\ Call("resume", next)
    ELSE pc' = next /\ UNCHANGED <<state, sigRef, timer, event, ret, sigRet>>

\* Variants: the reference is dropped in every state; it is never dropped.
OnSignalDrops(next) ==
  sigRef' = FALSE /\ pc' = "signal" /\ sigRet' = next /\ UNCHANGED <<event, ret>>

OnSignalKeeps(next) ==
  pc' = "signal" /\ sigRet' = next /\ UNCHANGED <<sigRef, event, ret>>

\* on_signal() up to the lock: a suspended runtime stays referenced.
OnSignal(next) ==
  /\ sigRef' = (sigRef /\ state = "suspended")
  /\ pc' = "signal" /\ sigRet' = next
  /\ UNCHANGED <<event, ret>>

\* ... under the lock: take the flags and lower them.  A resuspend counts
\* only behind a resume.
TakeTransitions ==
  /\ pc = "signal"
  /\ batch' = IF "resume" \in transitions THEN transitions
                                          ELSE transitions \ {"resuspend"}
  /\ transitions' = {}
  /\ pc' = "dispatch"
  /\ UNCHANGED <<state, closed, last, handles, mode, event, ret, sigRet, env,
                 sender>>

\* ... and then: terminate alone, or suspend, wakeup, resume, resuspend.
DispatchTerminate ==
  /\ pc = "dispatch" /\ "terminate" \in batch
  /\ batch' = {}
  /\ Terminate
  /\ UNCHANGED <<mailbox, sigRef, sigPending, timer, work, hostStop, mode,
                 control, env, sender>>

DispatchSuspend ==
  /\ pc = "dispatch" /\ "terminate" \notin batch
  /\ \/ "suspend" \in batch /\ batch' = batch \ {"suspend"}
     \/ batch = {"resuspend"} /\ batch' = {}
  /\ OnSuspend("dispatch")
  /\ UNCHANGED <<mailbox, handles, mode, env, sender>>

DispatchWakeup ==
  /\ pc = "dispatch" /\ "wakeup" \in batch
  /\ batch \intersect {"terminate", "suspend"} = {}
  /\ batch' = batch \ {"wakeup"}
  /\ OnWakeup("dispatch")
  /\ UNCHANGED <<mailbox, sigPending, work, stop, hostStop, mode, env, sender>>

DispatchResume ==
  /\ pc = "dispatch" /\ "resume" \in batch
  /\ batch \intersect {"terminate", "suspend", "wakeup"} = {}
  /\ batch' = batch \ {"resume"}
  /\ OnResume("dispatch")
  /\ UNCHANGED <<mailbox, sigPending, work, stop, hostStop, mode, env, sender>>

DispatchDone ==
  /\ pc = "dispatch" /\ batch = {}
  /\ pc' = sigRet /\ sigRet' = "uvrun"
  /\ UNCHANGED <<state, mailbox, batch, handles, mode, event, ret, env, sender>>

----------------------------------------------------------------------------
(* uv_run(): the callbacks of one loop, and when it returns *)

\* uv_run() goes no further when nothing is alive or a stop is pending.
UvEnter ==
  /\ pc = "uvrun"
  /\ IF Alive /\ ~stop
       THEN pc' = "loop" /\ UNCHANGED <<stop, hostStop>>
       ELSE /\ pc' = IF Alive THEN "returned" ELSE "drained"
            /\ stop' = FALSE /\ hostStop' = (hostStop /\ Alive)
  /\ UNCHANGED <<state, mailbox, batch, sigRef, sigPending, timer, work, mode,
                 event, ret, sigRet, env, sender>>

UvReturn ==
  /\ pc = "loop"
  /\ stop \/ ~Alive \/ mode = "nowait"
  /\ pc' = IF Alive THEN "returned" ELSE "drained"
  /\ stop' = FALSE /\ hostStop' = (hostStop /\ Alive)
  /\ UNCHANGED <<state, mailbox, batch, sigRef, sigPending, timer, work, mode,
                 event, ret, sigRet, env, sender>>

\* A user handle calls back into JavaScript.
WorkFires ==
  /\ pc = "loop" /\ work > 0
  /\ Call("work", "loop")
  /\ UNCHANGED <<state, mailbox, batch, handles, mode, env, sender>>

\* bare_runtime__on_timeout()
TimeoutFires ==
  /\ pc = "loop" \/ (pc = "sweep" /\ ~stop)
  /\ timer
  /\ OnIdle(pc)
  /\ UNCHANGED <<mailbox, batch, sigPending, work, stop, hostStop, mode, env,
                 sender>>

\* libuv clears the pending flag before it calls bare_runtime__on_signal().
SignalFires ==
  /\ pc = "loop" \/ (pc = "sweep" /\ ~stop)
  /\ sigPending
  /\ sigPending' = FALSE
  /\ OnSignal(pc)
  /\ UNCHANGED <<state, mailbox, batch, timer, work, stop, hostStop, mode, env,
                 sender>>

\* A handle of the host stops the loop (test/run-stop.c).
HostStop ==
  /\ pc = "loop" /\ work > 0
  /\ stop' = TRUE /\ hostStop' = TRUE
  /\ UNCHANGED <<state, mailbox, batch, sigRef, sigPending, timer, work, mode,
                 control, env, sender>>

----------------------------------------------------------------------------
(* bare_runtime_run() *)

\* The host calls bare_load() or its own JavaScript, at any time before exit.
HostScript ==
  /\ pc = "host" /\ state \notin {"exiting", "exited"}
  /\ Call("script", "host")
  /\ UNCHANGED <<state, mailbox, batch, handles, mode, env, sender>>

\* bare_exit()
HostExit ==
  /\ pc = "host" /\ state # "exited"
  /\ Terminate
  /\ UNCHANGED <<mailbox, batch, sigRef, sigPending, timer, work, hostStop,
                 mode, control, env, sender>>

\* bare_run() and bare_poll(), never again once one has returned zero.
HostRun(m) ==
  /\ pc = "host" /\ state \notin {"exiting", "exited"}
  /\ mode' = m
  /\ pc' = "uvrun"
  /\ UNCHANGED <<state, mailbox, batch, handles, event, ret, sigRet, env,
                 sender>>

\* uv_run() returned zero with transitions pending: deliver them directly.
RunSignal ==
  /\ pc = "drained" /\ Pending
  /\ OnSignal("uvrun")
  /\ UNCHANGED <<state, mailbox, batch, sigPending, timer, work, stop,
                 hostStop, mode, env, sender>>

RunTerminated ==
  /\ pc = "returned" \/ (pc = "drained" /\ ~Pending) \/ pc = "tail"
  /\ state = "terminated"
  /\ pc' = "exit"
  /\ UNCHANGED <<state, mailbox, batch, handles, mode, event, ret, sigRet,
                 env, sender>>

\* Idle at last: on demand, or because a suspending or woken loop ran dry.
RunIdle ==
  /\ \/ pc = "returned" /\ state = "idle"
     \/ pc = "drained" /\ ~Pending /\ state \in WindingDown
  /\ OnIdle("tail")
  /\ UNCHANGED <<mailbox, batch, sigPending, work, stop, hostStop, mode, env,
                 sender>>

\* Work is left and the mode or a stop says to give the thread back.
RunYield ==
  /\ pc = "returned" /\ state \notin {"terminated", "idle"}
  /\ pc' = "host" /\ mode' = "default"
  /\ hostStop' = FALSE
  /\ UNCHANGED <<state, mailbox, batch, sigRef, sigPending, timer, work, stop,
                 event, ret, sigRet, env, sender>>

RunBeforeExit ==
  /\ pc = "drained" /\ ~Pending
  /\ state \notin WindingDown \union {"terminated"}
  /\ Call("beforeExit", "tail")
  /\ UNCHANGED <<state, mailbox, batch, handles, mode, env, sender>>

\* The bottom of the loop; bare_runtime__close_transitions() under the lock.
RunTail ==
  /\ pc = "tail" /\ state # "terminated"
  /\ IF ~Alive /\ ~Pending
       THEN closed' = TRUE /\ pc' = "exit"
       ELSE pc' = "uvrun" /\ UNCHANGED closed
  /\ UNCHANGED <<state, transitions, last, batch, handles, mode, event, ret,
                 sigRet, env, sender>>

\* bare_runtime__on_exit(), after which bare_runtime_run() returns zero.
RunExit ==
  /\ pc = "exit"
  /\ state' = "exiting"
  /\ timer' = FALSE
  /\ hostStop' = FALSE /\ mode' = "default"
  /\ Call("exit", "host")
  /\ UNCHANGED <<mailbox, batch, sigRef, sigPending, work, stop, env, sender>>

----------------------------------------------------------------------------
(* bare_runtime_teardown() *)

\* Up to and including js_destroy_env(), which closes what JavaScript left;
\* n native handles are still closing.  The host may tear down a process that
\* has not exited, or never ran (test/attach-nested.c); no foreign call is in
\* flight, but what was sent may still be undelivered.
TeardownEnv(n) ==
  /\ pc = "host" /\ state # "exited"
  /\ \A c \in Callers : ~sender[c]
  /\ n <= work /\ work' = n
  /\ env' = FALSE
  /\ pc' = "sweep"
  /\ UNCHANGED <<state, mailbox, batch, sigRef, sigPending, timer, stop,
                 hostStop, mode, event, ret, sigRet, sender>>

\* The sweep, uv_run(UV_RUN_NOWAIT) for the handles the environment is
\* closing, is SignalFires and TimeoutFires at pc = "sweep"; then both handles
\* and the lock go.
TeardownClose ==
  /\ pc = "sweep"
  /\ sigRef' = FALSE /\ sigPending' = FALSE /\ timer' = FALSE /\ stop' = FALSE
  /\ state' = "exited"
  /\ pc' = "drain"
  /\ UNCHANGED <<mailbox, batch, work, hostStop, mode, event, ret, sigRet, env,
                 sender>>

\* uv_run(mode): native handles close ...
TeardownWork ==
  /\ pc = "drain" /\ work > 0
  /\ work' = work - 1
  /\ UNCHANGED <<state, mailbox, batch, sigRef, sigPending, timer, stop,
                 hostStop, mode, control, env, sender>>

\* ... and with none left the threads are joined and the addons unloaded,
\* or the mode gives up early and the host calls bare_teardown() again.
TeardownReturn ==
  /\ pc = "drain"
  /\ pc' = IF work = 0 THEN "gone" ELSE "host"
  /\ UNCHANGED <<state, mailbox, batch, handles, mode, event, ret, sigRet,
                 env, sender>>

TeardownAgain ==
  /\ pc = "host" /\ state = "exited"
  /\ pc' = "drain"
  /\ UNCHANGED <<state, mailbox, batch, handles, mode, event, ret, sigRet,
                 env, sender>>

----------------------------------------------------------------------------
Js == JsIdle \/ JsExit \/ JsWork \/ JsReturn \/ \E r \in Requests : JsRequest(r)

Signal == \/ TakeTransitions \/ DispatchTerminate \/ DispatchSuspend
          \/ DispatchWakeup \/ DispatchResume \/ DispatchDone

Loop == UvEnter \/ UvReturn \/ WorkFires \/ TimeoutFires \/ SignalFires \/ HostStop

Run == \/ RunSignal \/ RunTerminated \/ RunIdle \/ RunYield \/ RunBeforeExit
       \/ RunTail \/ RunExit

Host == HostScript \/ HostExit \/ \E m \in Modes : HostRun(m)

Teardown == \/ \E n \in 0..MaxWork : TeardownEnv(n)
            \/ TeardownClose \/ TeardownWork \/ TeardownReturn \/ TeardownAgain

Foreign == \E c \in Callers : Send(c) \/ \E r \in Requests : Post(c, r)

\* The process is gone; stated so that no other state may be without a step.
Gone == pc = "gone" /\ UNCHANGED vars

Next == Js \/ Signal \/ Loop \/ Run \/ Host \/ Teardown \/ Foreign \/ Gone

Spec == Init /\ [][Next]_vars

(***************************************************************************)
(* Fairness.  The owner thread keeps executing, and so does a foreign      *)
(* thread inside bare_suspend() and its kin.  JavaScript returns: a        *)
(* listener that never does is a hang of the program's own.  libuv polls   *)
(* the async handle and runs due timers in every iteration, however much   *)
(* other work there is, and tests the stop flag and the liveness of the    *)
(* loop after each, hence SF; the sweep is one iteration, hence SF for its *)
(* end.  The host keeps running the loop until told it has exited or       *)
(* tearing down, whatever scripts it runs in between.  Foreign threads     *)
(* post at any rate, but not forever: bare_runtime_run() delivers whatever *)
(* is pending before it looks whether it was terminated.  Nothing is       *)
(* assumed of user work, of requests from JavaScript or of when the host   *)
(* tears down.                                                             *)
(***************************************************************************)
Fairness ==
  /\ WF_vars(JsReturn) /\ WF_vars(Signal) /\ WF_vars(Run) /\ WF_vars(UvEnter)
  /\ SF_vars(UvReturn) /\ SF_vars(SignalFires) /\ SF_vars(TimeoutFires)
  /\ SF_vars(\E m \in Modes : HostRun(m)) /\ SF_vars(TeardownClose)
  /\ \A c \in Callers : WF_vars(Send(c))

ForeignQuiet == <>[][~\E c \in Callers, r \in Requests : Post(c, r)]_vars

LiveSpec == Spec /\ Fairness /\ ForeignQuiet

----------------------------------------------------------------------------
(* Properties *)

\* No transition is lost at a natural exit: once bare_runtime__close_transitions()
\* has closed the mailbox, every request it had accepted has been delivered.
ClosedMeansServed == closed => transitions = {} /\ batch = {}

\* "The loop [is] blocked, keeping it from exiting" (README, Suspension): a
\* suspended runtime always has its signal referenced, whichever of on_idle(),
\* on_signal(), on_wakeup() and the bindings touched the reference last.
SuspendedHoldsLoop == state = "suspended" => sigRef

\* The other half: a runtime that is not suspended never waits on a reference
\* left behind.  If the signal holds the loop open a delivery is on its way
\* that will drop it, so a process out of work always gets to exit.
NoStrayReference ==
  sigRef /\ state \in Live \ {"suspended"} => sigPending

\* The mailbox coalesces requests into five flags, but nothing is confused by
\* it: applying the flags not yet served, first those of the batch in hand and
\* then those posted since, gives what the last accepted request asked for.
Outcome(flags, was) ==
  CASE "resuspend" \in flags                                  -> "hold"
    [] "resuspend" \notin flags /\ "resume" \in flags         -> "run"
    [] flags \intersect {"suspend", "resume", "resuspend"} = {"suspend"} -> "hold"
    [] OTHER                                                  -> was

Now == IF state = "active" THEN "run" ELSE "hold"

LastRequestWins ==
  state \in Live => last = Outcome(transitions, Outcome(batch, Now))

\* An awake or idling runtime has its deadline armed, and no deadline outlives
\* the wakeup it was for: a resumed runtime is never sent to sleep by it.
DeadlineArmed ==
  state \in Live => (timer <=> state \in {"idle", "awake"})

(***************************************************************************)
(* The inductive invariant behind these properties.  Beside the properties *)
(* themselves it says when flags can be up and a batch in hand, what the   *)
(* return points stand for, why the loop may have stopped, and what is     *)
(* left of the program counter once the runtime is on its way out.         *)
(***************************************************************************)
Over == {"terminated", "exiting", "exited"}

FlagsInv == /\ "resuspend" \in transitions => "suspend" \in transitions
            /\ batch # {} => pc = "dispatch" \/ (pc = "js" /\ ret = "dispatch")

ClosedInv == closed => /\ transitions = {} /\ batch = {}
                       /\ pc = "exit" \/ state \in {"exiting", "exited"}

StackInv == /\ pc = "sweep" => ~env
            /\ pc = "js" /\ ret = "sweep" => ~env
            /\ pc \in {"signal", "dispatch"} /\ sigRet = "sweep" => ~env
            /\ pc = "js" /\ ret = "dispatch" /\ sigRet = "sweep" => ~env

StopInv ==
  /\ stop => hostStop \/ state \in Over
  /\ pc = "returned" => ~stop /\ (mode = "nowait" \/ hostStop \/ state \in Over)
  /\ pc = "drained" => ~Alive

ExitInv ==
  /\ pc = "tail" \/ (pc = "js" /\ ret = "tail")
       => state \in {"active", "suspended", "terminated"}
  /\ pc = "exit" => state = "terminated" \/ (state = "active" /\ closed)
  /\ state = "exiting" => /\ pc \in {"js", "host", "sweep", "signal", "dispatch"}
                          /\ pc = "js" => ret = "host"
                          /\ pc \in {"signal", "dispatch"} => sigRet = "sweep"
  /\ state = "exited" => pc \in {"host", "drain", "gone"}

DestroyInv ==
  ~env => \/ pc = "sweep"
          \/ pc \in {"signal", "dispatch"} /\ sigRet = "sweep"
          \/ pc = "js" /\ ret = "sweep"
          \/ pc = "js" /\ ret = "dispatch" /\ sigRet = "sweep"
          \/ pc \in {"host", "drain", "gone"} /\ state = "exited"

IInv == /\ TypeOK /\ FlagsInv /\ ClosedInv /\ StackInv /\ StopInv /\ ExitInv
        /\ DestroyInv /\ SuspendedHoldsLoop /\ NoStrayReference
        /\ LastRequestWins /\ DeadlineArmed

\* beforeExit is for a runtime that is active and out of work, with nothing
\* asked of it: never for one suspended, nor after an explicit exit
\* (bare.d.ts, beforeExit).
EmitsBeforeExitWhenDone ==
  pc # "js" /\ pc' = "js" /\ event' = "beforeExit"
    => state = "active" /\ ~Alive /\ batch = {}

BeforeExitOnlyWhenDone == [][EmitsBeforeExitWhenDone]_vars

\* "bare_run() will not return until another thread resumes the process"
\* (bare.h, bare_suspend()): in the default mode a run that finds itself
\* suspended neither exits nor goes back to the host, unless the host itself
\* stopped the loop.
KeepsRunning ==
  state = "suspended" /\ pc \in {"returned", "drained", "tail"}
    => pc' \notin {"host", "exit"} \/ mode = "nowait" \/ hostStop

SuspendedRunBlocks == [][KeepsRunning]_vars

\* The exit is final: exit is emitted once, and nothing that JavaScript, the
\* host or another thread asks for afterwards makes the runtime live again.
StaysFinal ==
  /\ state = "exiting" => state' \in {"exiting", "exited"}
  /\ state = "exited" => state' = "exited"
  /\ pc # "js" /\ pc' = "js" /\ event' = "exit" => state # "exiting"

ExitIsFinal == [][StaysFinal]_vars

\* Exit is the last thing JavaScript hears: what is left in the mailbox of a
\* terminated process, or on its timer, starts no listener after it, although
\* the sweep of the teardown delivers it, with the environment gone.
SaysNothingMore ==
  state \in {"exiting", "exited"} /\ pc # "js" => pc' # "js"

ExitIsHeardLast == [][SaysNothingMore]_vars

\* Every step of the runtime is a step of Lifecycle or changes nothing there.
Phase == IF state \in WindingDown THEN "winding" ELSE state
Promise == INSTANCE Lifecycle WITH
  MayCut <- TRUE,
  phase <- Phase, want <- last, owed <- (transitions # {} \/ batch # {})

ImplementsLifecycle == Promise!Spec

\* A bare_terminate() that was accepted ends the process, whatever state it is
\* in and whatever else is asked of it: no reference, no blocked loop and no
\* race with the mailbox loses the request.
TerminateTakesEffect ==
  "terminate" \in transitions ~> state \in {"exiting", "exited"}

\* So does a resume: the process becomes active, unless it is asked to suspend
\* again or ends.
ResumeTakesEffect ==
  last = "run" ~> (state = "active" \/ last = "hold" \/ state \notin Live)

\* A wakeup ends by its deadline, and Bare.idle() takes effect, however much
\* work is left on the loop.
WakeupEnds ==
  state \in {"awake", "idle"} ~> state \notin {"awake", "idle"}

(* What the documentation says and the code does not do *)

\* Nothing runs JavaScript once js_destroy_env() has been called, no listener
\* and not exit() for a terminate that was still in the mailbox: what runs
\* "after the JavaScript environment has been destroyed [...] must not call
\* into the environment" (bare.h, bare_context_set()).  The sweep of a teardown
\* before the exit delivers what was sent.
NoJavaScriptAfterDestroy ==
  /\ pc = "js" => env
  /\ pc = "dispatch" /\ "terminate" \in batch /\ state # "exiting" => env

\* A stop of the host's "must make the run return early rather than carry on
\* until the process exits" (test/run-stop.c).
HostStopReturns ==
  [][hostStop /\ pc = "tail" => pc' # "uvrun"]_vars
=============================================================================
