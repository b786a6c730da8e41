------------------------------ MODULE Threads ------------------------------
(***************************************************************************)
(* The threads of a process (src/src/thread.c, and the handlers of         *)
(* runtime.c that forward to them).  Every thread has a runtime of its own *)
(* that lives on its stack; a runtime starts threads, keeps them in a      *)
(* list, forwards suspend, wakeup and resume to them, and joins them when  *)
(* it is torn down.  Threads start threads, so runtimes form a tree under  *)
(* the main one.                                                           *)
(*                                                                         *)
(* Of the lifecycle of a runtime there is here what Lifecycle promises,    *)
(* and Runtime is shown to implement: a phase, the last accepted of        *)
(* suspend and resume, and the requests that are not answered yet.  "pc"   *)
(* says where each runtime's thread is, "args" which threads a call of its *)
(* is about.                                                               *)
(***************************************************************************)
EXTENDS Naturals

CONSTANTS
  Main,       \* the runtime of the main thread
  Slots,      \* the threads that there is room for, and their runtimes
  Requests,   \* which of "suspend", "wakeup", "resume" and "terminate" are made
  NoOne,      \* the owner of a lock that is free
  MaxCalls    \* bound: calls that scripts and the embedder make

Runtimes == {Main} \union Slots

ASSUME NamesAssumption == Main \notin Slots /\ NoOne \notin Runtimes
ASSUME RequestsAssumption ==
  Requests \subseteq {"suspend", "wakeup", "resume", "terminate"}
ASSUME MaxCallsAssumption == MaxCalls \in Nat

VARIABLES
  pc,        \* where the thread of each runtime is
  args,      \* the threads that its call has left to deal with
  req,       \* the request that it is posting to them
  phase,     \* of each runtime, as in Lifecycle
  want,      \* the last accepted of suspend ("hold") and resume ("run")
  owed,      \* the accepted requests that are not answered yet
  after,     \* what a handler forwards once its listener has returned
  threads,   \* runtime->threads
  ready,     \* the threads whose thread->lock is initialised
  holder,    \* the owner of each thread->lock
  exited,    \* the threads with thread->exited
  joined,    \* the threads with thread->id = 0
  handles,   \* the threads whose JavaScript object is not finalized
  stray,     \* history: the threads that run and were told something of their own
  calls      \* how many calls there were

life  == <<phase, want, owed, after>>
at    == <<pc, args, req>>
links == <<threads, ready, holder, exited, joined, handles>>
vars  == <<at, life, links, stray, calls>>

Points == {"free", "setup", "barrier", "run", "create", "await", "post", "join",
           "ended", "exited", "closed", "done"}
Phases == {"active", "winding", "suspended", "terminated", "exiting", "exited"}
Live   == {"active", "winding", "suspended"}

TypeOK ==
  /\ pc \in [Runtimes -> Points]
  /\ args \in [Runtimes -> SUBSET Slots]
  /\ req \in [Runtimes -> Requests \union {"none"}]
  /\ phase \in [Runtimes -> Phases]
  /\ want \in [Runtimes -> {"run", "hold"}]
  /\ owed \in [Runtimes -> SUBSET Requests]
  /\ after \in [Runtimes -> Requests \union {"none"}]
  /\ threads \in [Runtimes -> SUBSET Slots]
  /\ holder \in [Slots -> Runtimes \union {NoOne}]
  /\ \A s \in Slots : holder[s] # NoOne =>
       pc[holder[s]] = "post" /\ s \in args[holder[s]]
  /\ {ready, exited, joined, handles, stray} \subseteq SUBSET Slots
  /\ calls \in 0..MaxCalls

Init ==
  /\ pc = [r \in Runtimes |-> IF r = Main THEN "run" ELSE "free"]
  /\ args = [r \in Runtimes |-> {}] /\ req = [r \in Runtimes |-> "none"]
  /\ phase = [r \in Runtimes |-> "active"]
  /\ want = [r \in Runtimes |-> "run"]
  /\ owed = [r \in Runtimes |-> {}]
  /\ after = [r \in Runtimes |-> "none"]
  /\ threads = [r \in Runtimes |-> {}]
  /\ holder = [s \in Slots |-> NoOne]
  /\ ready = {} /\ exited = {} /\ joined = {} /\ handles = {} /\ stray = {}
  /\ calls = 0

Goto(r, p)    == pc' = [pc EXCEPT ![r] = p]
Counted       == calls < MaxCalls /\ calls' = calls + 1

\* A script can run: Bare.exit() ends the listener that it is called from.
Scripts(r) == pc[r] = "run" /\ (phase[r] = "terminated" => after[r] = "none")

----------------------------------------------------------------------------
(* The lifecycle of one runtime *)

\* A request is accepted until the runtime is on its way out.
Accept(r, q) ==
  IF phase[r] \in Live \union {"terminated"}
    THEN /\ want' = [want EXCEPT ![r] = CASE q = "suspend" -> "hold"
                                          [] q = "resume"  -> "run"
                                          [] OTHER         -> @]
         /\ owed' = [owed EXCEPT ![r] = @ \union {q}]
    ELSE UNCHANGED <<want, owed>>

\* Own requests of a script, and those of the embedder to the main runtime.
Request(r, q) ==
  /\ Scripts(r) \/ (r = Main /\ phase[Main] # "exited")
  /\ Accept(r, q)
  /\ stray' = stray \union (IF q \in {"suspend", "resume"} THEN {r} \ {Main} ELSE {})
  /\ Counted
  /\ UNCHANGED <<at, phase, after, links>>

\* Of what is pending on_signal() handles a terminate alone, if there is one.
\* One that comes while it has others in hand is as good as one that comes
\* after them.
Answers(r, q) ==
  /\ pc[r] = "run" /\ after[r] = "none" /\ phase[r] \in Live
  /\ q \in owed[r] /\ ("terminate" \in owed[r] => q = "terminate")

\* A handler changes the phase and calls its listener; with that it has
\* something to forward.
Handle(r, q, from, to) ==
  /\ IF phase[r] \in from
       THEN phase' = [phase EXCEPT ![r] = to] /\ after' = [after EXCEPT ![r] = q]
       ELSE UNCHANGED <<phase, after>>
  /\ UNCHANGED <<at, want, links, stray, calls>>

\* Variant: a suspend behind a resume is answered before it, for good.
OnSuspendOnce(r) ==
  /\ Answers(r, "suspend")
  /\ owed' = [owed EXCEPT ![r] = @ \ {"suspend"}]
  /\ Handle(r, "suspend", {"active"}, "winding")

\* With a resume in between, a suspend is answered again behind it.
OnSuspend(r) ==
  /\ Answers(r, "suspend")
  /\ IF "resume" \in owed[r] /\ want[r] = "hold"
       THEN UNCHANGED owed
       ELSE owed' = [owed EXCEPT ![r] = @ \ {"suspend"}]
  /\ Handle(r, "suspend", {"active"}, "winding")

OnWakeup(r) ==
  /\ Answers(r, "wakeup")
  /\ owed' = [owed EXCEPT ![r] = @ \ {"wakeup"}]
  /\ Handle(r, "wakeup", {"winding", "suspended"}, "winding")

OnResume(r) ==
  /\ Answers(r, "resume") /\ ("suspend" \in owed[r] => want[r] = "hold")
  /\ owed' = [owed EXCEPT ![r] = @ \ {"resume"}]
  /\ Handle(r, "resume", {"winding", "suspended"}, "active")

\* The rest of what was asked is dropped, and nothing is forwarded.
OnTerminate(r) ==
  /\ Answers(r, "terminate")
  /\ owed' = [owed EXCEPT ![r] = {}]
  /\ phase' = [phase EXCEPT ![r] = "terminated"]
  /\ UNCHANGED <<at, want, after, links, stray, calls>>

Become(r, from, to) ==
  /\ pc[r] = "run" /\ phase[r] = from
  /\ phase' = [phase EXCEPT ![r] = to]
  /\ UNCHANGED <<at, want, owed, after, links, stray, calls>>

\* Bare.exit(), in a listener or not.
Kill(r) == \E from \in Live : Become(r, from, "terminated")

\* Out of work, or at its deadline.
Rest(r) == after[r] = "none" /\ Become(r, "winding", "suspended")

\* The run ends: by itself with nothing left, or because it was terminated.
Finish(r) == after[r] = "none" /\ owed[r] = {} /\ Become(r, "active", "exiting")
Leave(r)  == after[r] = "none" /\ Become(r, "terminated", "exiting")

\* ... and returns once the exit listeners have.  What is left in its mailbox
\* is never answered.
RunReturns(r) ==
  /\ pc[r] = "run" /\ phase[r] = "exiting"
  /\ Goto(r, "ended")
  /\ owed' = [owed EXCEPT ![r] = {}]
  /\ UNCHANGED <<args, req, phase, want, after, links, stray, calls>>

----------------------------------------------------------------------------
(* bare_thread_create() and the start of bare_thread__entry() *)

\* The thread record is set up and the thread started; which of the free ones
\* it gets makes no difference.  One that is started while its parent is
\* suspending is not told of it.
Create(r, s) ==
  /\ Scripts(r) /\ pc[s] = "free"
  /\ s = CHOOSE t \in Slots : pc[t] = "free"
  /\ pc' = [pc EXCEPT ![r] = "create", ![s] = "setup"]
  /\ args' = [args EXCEPT ![r] = {s}]
  /\ stray' = IF phase[r] # "active" /\ after[r] # "suspend" THEN stray \union {s}
                                                            ELSE stray
  /\ UNCHANGED <<req, life, links, calls>>

\* Linked, and its lock initialised, while it is already running.
Link(r) ==
  /\ pc[r] = "create"
  /\ threads' = [threads EXCEPT ![r] = @ \union args[r]]
  /\ ready' = ready \union args[r]
  /\ Goto(r, "await")
  /\ UNCHANGED <<args, req, life, holder, exited, joined, handles, stray, calls>>

\* bare_runtime_setup() of the runtime on the stack, and thread->runtime.
Setup(s) ==
  /\ pc[s] = "setup"
  /\ Goto(s, "barrier")
  /\ UNCHANGED <<args, req, life, links, stray, calls>>

\* Both at the barrier.
Meet(r) ==
  /\ pc[r] = "await"
  /\ \A s \in args[r] : pc[s] = "barrier"
  /\ pc' = [t \in Runtimes |-> IF t \in {r} \union args[r] THEN "run" ELSE pc[t]]
  /\ args' = [args EXCEPT ![r] = {}]
  /\ handles' = handles \union args[r]
  /\ UNCHANGED <<req, life, threads, ready, holder, exited, joined, stray, calls>>

----------------------------------------------------------------------------
(* bare_thread_suspend(), _wakeup(), _resume() and _terminate() *)

\* A call goes on until the request was posted to all that it is for.
Tells(r, ss, q) ==
  /\ Goto(r, IF ss = {} THEN "run" ELSE "post")
  /\ args' = [args EXCEPT ![r] = ss]
  /\ req' = [req EXCEPT ![r] = IF ss = {} THEN "none" ELSE q]

\* From a script, on one thread ...
Tell(r, s, q) ==
  /\ Scripts(r) /\ s \in threads[r] \intersect handles
  /\ Tells(r, {s}, q) /\ Counted
  /\ stray' = stray \union (IF q \in {"suspend", "resume"} THEN {s} ELSE {})
  /\ UNCHANGED <<life, links>>

\* Variant: the walk over the list misses one.
ForwardMissesOne(r) ==
  /\ pc[r] = "run" /\ after[r] # "none"
  /\ Tells(r, IF threads[r] = {} THEN {}
              ELSE threads[r] \ {CHOOSE s \in threads[r] : TRUE}, after[r])
  /\ after' = [after EXCEPT ![r] = "none"]
  /\ stray' = IF after[r] = "wakeup" THEN stray ELSE stray \ threads[r]
  /\ UNCHANGED <<phase, want, owed, links, calls>>

\* ... and from a handler whose listener has returned, on all of them.
Forward(r) ==
  /\ pc[r] = "run" /\ after[r] # "none"
  /\ Tells(r, threads[r], after[r])
  /\ after' = [after EXCEPT ![r] = "none"]
  /\ stray' = IF after[r] = "wakeup" THEN stray ELSE stray \ threads[r]
  /\ UNCHANGED <<phase, want, owed, links, calls>>

\* Variant: a thread that was joined is locked all the same.
PostLocksAll(r, s) ==
  /\ pc[r] = "post" /\ s \in args[r] /\ holder[s] = NoOne
  /\ holder' = [holder EXCEPT ![s] = r]
  /\ UNCHANGED <<at, life, threads, ready, exited, joined, handles, stray, calls>>

\* Variant: the early return keeps the lock.
PostKeepsLock(r, s) ==
  /\ pc[r] = "post" /\ s \in args[r] /\ (s \notin joined => holder[s] = NoOne)
  /\ holder' = IF s \in joined THEN holder ELSE [holder EXCEPT ![s] = r]
  /\ IF s \in joined \union exited THEN Tells(r, args[r] \ {s}, req[r]) ELSE UNCHANGED at
  /\ UNCHANGED <<life, threads, ready, exited, joined, handles, stray, calls>>

\* Nothing is posted to a thread that was joined, nor to one that is found to
\* have exited once its lock is taken; the lock of another is kept for the post.
PostLock(r, s) ==
  /\ pc[r] = "post" /\ s \in args[r]
  /\ s \notin joined => holder[s] = NoOne
  /\ IF s \in joined \union exited
       THEN Tells(r, args[r] \ {s}, req[r]) /\ UNCHANGED holder
       ELSE holder' = [holder EXCEPT ![s] = r] /\ UNCHANGED at
  /\ UNCHANGED <<life, threads, ready, exited, joined, handles, stray, calls>>

\* The request goes to the mailbox on the other thread's stack.
Post(r, s) ==
  /\ pc[r] = "post" /\ s \in args[r] /\ holder[s] = r
  /\ Accept(s, req[r])
  /\ holder' = [holder EXCEPT ![s] = NoOne]
  /\ Tells(r, args[r] \ {s}, req[r])
  /\ UNCHANGED <<phase, after, threads, ready, exited, joined, handles, stray, calls>>

----------------------------------------------------------------------------
(* bare_thread_join() and bare_thread_release() *)

\* One that was joined before is left alone.
Join(r, s) ==
  /\ Scripts(r) /\ s \in (threads[r] \intersect handles) \ joined
  /\ Goto(r, "join") /\ args' = [args EXCEPT ![r] = {s}] /\ Counted
  /\ UNCHANGED <<req, life, links, stray>>

JoinReturns(r) ==
  /\ pc[r] = "join" /\ \A s \in args[r] : pc[s] = "done"
  /\ joined' = joined \union args[r] /\ ready' = ready \ args[r]
  /\ Goto(r, "run") /\ args' = [args EXCEPT ![r] = {}]
  /\ UNCHANGED <<req, life, threads, holder, exited, handles, stray, calls>>

Reset(f, ss, x) == [t \in Runtimes |-> IF t \in ss THEN x ELSE f[t]]

\* The records go, and it is as it was before there were threads in them.
Free(r, ss) ==
  /\ threads' = [threads EXCEPT ![r] = @ \ ss]
  /\ pc' = Reset(pc, ss, "free") /\ phase' = Reset(phase, ss, "active")
  /\ want' = Reset(want, ss, "run") /\ owed' = Reset(owed, ss, {})
  /\ ready' = ready \ ss
  /\ exited' = exited \ ss /\ joined' = joined \ ss /\ stray' = stray \ ss

\* Variant: what was not joined is released as well, while it runs.
FinalizeFrees(r, s) ==
  /\ pc[r] = "run" /\ s \in threads[r] \intersect handles
  /\ handles' = handles \ {s}
  /\ IF pc[s] = "done"
       THEN Free(r, {s})
       ELSE /\ threads' = [threads EXCEPT ![r] = @ \ {s}]
            /\ UNCHANGED <<pc, phase, want, owed, ready, exited, joined, stray>>
  /\ UNCHANGED <<args, req, after, holder, calls>>

\* The JavaScript object is collected.  A thread that was not joined stays for
\* the teardown of its parent.
Finalize(r, s) ==
  /\ pc[r] = "run" /\ s \in threads[r] \intersect handles
  /\ handles' = handles \ {s}
  /\ IF s \in joined
       THEN Free(r, {s})
       ELSE UNCHANGED <<pc, phase, want, owed, threads, ready, exited, joined, stray>>
  /\ UNCHANGED <<args, req, after, holder, calls>>

----------------------------------------------------------------------------
(* The end of bare_thread__entry(), and bare_runtime_teardown() *)

\* Variant: the flag goes up without the lock.
ExitUnlocked(s) ==
  /\ pc[s] = "ended"
  /\ exited' = exited \union {s} /\ stray' = stray \ {s}
  /\ Goto(s, "exited")
  /\ UNCHANGED <<args, req, life, threads, ready, holder, joined, handles, calls>>

Exit(s) ==
  /\ pc[s] = "ended" /\ holder[s] = NoOne
  /\ exited' = exited \union {s} /\ stray' = stray \ {s}
  /\ Goto(s, "exited")
  /\ UNCHANGED <<args, req, life, threads, ready, holder, joined, handles, calls>>

\* js_destroy_env() collects what objects there are, as above; after the last
\* run of the loop the mailbox goes.
Destroy(r) ==
  /\ pc[r] = IF r = Main THEN "ended" ELSE "exited"
  /\ LET ss == threads[r] \intersect handles \intersect joined
     IN /\ threads' = [threads EXCEPT ![r] = @ \ ss]
        /\ pc' = [Reset(pc, ss, "free") EXCEPT ![r] = "closed"]
        /\ phase' = [Reset(phase, ss, "active") EXCEPT ![r] = "exited"]
        /\ want' = Reset(want, ss, "run") /\ owed' = Reset(owed, ss, {})
        /\ exited' = exited \ ss /\ joined' = joined \ ss /\ stray' = stray \ ss
  /\ handles' = handles \ threads[r]
  /\ UNCHANGED <<args, req, after, ready, holder, calls>>

\* bare_thread_teardown() of each thread that is left; in which order it waits
\* for them makes no difference to when it has waited for all.
TeardownJoin(r, s) ==
  /\ pc[r] = "closed" /\ s \in threads[r]
  /\ s \in joined \/ pc[s] = "done"
  /\ Free(r, {s})
  /\ UNCHANGED <<args, req, after, holder, handles, calls>>

TeardownDone(r) ==
  /\ pc[r] = "closed" /\ threads[r] = {}
  /\ Goto(r, "done")
  /\ UNCHANGED <<args, req, life, links, stray, calls>>

----------------------------------------------------------------------------
\* What a thread does next, whether it is asked to or not ...
Steps(r) ==
  \/ Link(r) \/ Meet(r) \/ JoinReturns(r) \/ Destroy(r)
  \/ TeardownDone(r)
  \/ \E s \in Slots : PostLock(r, s) \/ Post(r, s) \/ TeardownJoin(r, s)

Enters(s) == Setup(s) \/ Exit(s)

Lives(r) == \/ OnSuspend(r) \/ OnWakeup(r) \/ OnResume(r) \/ OnTerminate(r)
            \/ Forward(r) \/ Rest(r) \/ Leave(r) \/ RunReturns(r)

\* ... and what scripts and the embedder choose to do.
Chooses(r) ==
  \/ Kill(r) \/ Finish(r)
  \/ \E q \in Requests : Request(r, q)
  \/ \E s \in Slots : \/ Create(r, s) \/ Join(r, s) \/ Finalize(r, s)
                      \/ \E q \in Requests : Tell(r, s, q)

Next == \/ \E r \in Runtimes : Steps(r) \/ Lives(r) \/ Chooses(r)
        \/ \E s \in Slots : Enters(s)

Spec == Init /\ [][Next]_vars

(***************************************************************************)
(* Fairness.  A thread in a call or a teardown keeps executing; a runtime  *)
(* answers what it was asked and leaves once terminated, as Runtime does   *)
(* under its own fairness; and the work of a thread that is active is      *)
(* finite.  Of these no more than one is ever enabled for a thread.        *)
(* Nothing is assumed of what scripts and the embedder call.               *)
(***************************************************************************)
GoesOn(r) == Steps(r) \/ Lives(r) \/ Finish(r) \/ (r \in Slots /\ Enters(r))

Fairness == \A r \in Runtimes : WF_vars(GoesOn(r))

LiveSpec == Spec /\ Fairness

----------------------------------------------------------------------------
(* Properties *)

\* thread->lock is used while it is initialised: by the thread, which may end at
\* once, and by whoever is about to post to it or is posting.
LockReady ==
  \A s \in Slots :
    \/ pc[s] = "ended" \/ holder[s] # NoOne
    \/ \E r \in Runtimes : pc[r] = "post" /\ s \in args[r] \ joined
    => s \in ready

\* A post reaches a runtime whose stack frame and mailbox are still there: from
\* when "exited" was found false until the lock is released, it is not torn down.
PostsReachTheLiving ==
  \A s \in Slots : holder[s] # NoOne => pc[s] \notin {"free", "setup", "closed", "done"}

\* A thread record is in the list of one runtime until it is freed, and it is
\* freed once: not while its JavaScript object can still be used, not while it
\* runs.
OwnedOnce ==
  \A s \in Slots :
    /\ s \in handles => pc[s] # "free"
    /\ pc[s] \notin {"free", "setup", "barrier"} =>
         \E r \in Runtimes : s \in threads[r]
    /\ \A r, t \in Runtimes : s \in threads[r] \intersect threads[t] => r = t
    /\ pc[s] = "free" => \A r \in Runtimes : s \notin threads[r]

\* "Suspend the process and all threads", "Resume the process and all threads"
\* (bare.d.ts): a thread was asked last what its parent was answering last, all
\* the way down the tree, unless a script told it something else or started it
\* while its parent was not active.
Obedient ==
  \A r \in Runtimes : \A s \in threads[r] \ (stray \union exited) :
    pc[r] = "run" /\ after[r] = "none" /\ phase[r] \in Live /\ phase[s] \in Live
      => (want[s] = "run" <=> phase[r] = "active")

\* The lifecycle that is assumed of a runtime here is the one that Runtime is
\* shown to implement.
Promise == INSTANCE Lifecycle WITH
  MayCut <- FALSE,
  phase <- phase[Main], want <- want[Main], owed <- owed[Main] # {}

KeepsPromise == Promise!Spec

(* What the documentation says and the code does not do *)

\* "Terminate the process as soon as possible" (bare.h, bare_terminate()): a
\* process that is asked to is gone in the end, as long as the work of its
\* threads is finite and no script told one of them something of its own.
TerminationEnds ==
  "terminate" \in owed[Main] ~> pc[Main] = "done" \/ stray # {}
=============================================================================
