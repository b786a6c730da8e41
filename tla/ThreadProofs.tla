---------------------------- MODULE ThreadProofs ----------------------------
(***************************************************************************)
(* Proofs about Threads: for any number of threads, in any tree, and any   *)
(* number of calls.                                                        *)
(***************************************************************************)
EXTENDS Threads, TLAPS

\* The threads that a runtime has: those in its list, and the one that it is
\* starting and has not linked yet.
Has(r) == threads[r] \union args[r]

\* A thread is had by one runtime, from when its record is set up until it is
\* freed.
OwnedInv ==
  /\ \A r, t \in Runtimes : r # t => Has(r) \intersect Has(t) = {}
  /\ \A s \in Slots : pc[s] = "free" <=> \A r \in Runtimes : s \notin Has(r)

\* A call is about threads in the list of the one who makes it; only one that is
\* being started is not in it yet.
CallInv ==
  \A r \in Runtimes :
    /\ pc[r] \in {"await", "post", "join"} => args[r] \subseteq threads[r]
    /\ pc[r] \notin {"create", "await", "post", "join"} => args[r] = {}
    /\ pc[r] = "post" => req[r] \in Requests

\* A thread is starting for as long as another waits for it.
StartInv ==
  \A s \in Slots :
    pc[s] \in {"setup", "barrier"} <=>
      \E r \in Runtimes : pc[r] \in {"create", "await"} /\ s \in args[r]

\* What the two flags of a thread say.
FlagsInv ==
  \A s \in Slots : /\ pc[s] \in {"exited", "closed", "done"} => s \in exited
                   /\ s \in joined => pc[s] = "done"

\* JavaScript objects are of threads that have started, and are gone when the
\* teardown joins.
HandlesInv ==
  /\ \A s \in handles : pc[s] \notin {"free", "setup", "barrier"}
  /\ \A r \in Runtimes : pc[r] = "closed" => threads[r] \intersect handles = {}

\* A lock is there while a thread is listed and not joined, and while it is held
\* the thread does not get past its exit.
LockInv ==
  \A s \in Slots :
    /\ (\E r \in Runtimes : s \in threads[r] \ joined) => s \in ready
    /\ holder[s] # NoOne =>
         /\ s \notin joined \union exited
         /\ pc[s] \in {"run", "create", "await", "post", "join", "ended"}

Tree == OwnedInv /\ CallInv /\ StartInv /\ FlagsInv /\ HandlesInv /\ LockInv

\* Who is not running yet, or any more, has no threads.
LeafInv ==
  \A r \in Runtimes : pc[r] \in {"free", "setup", "barrier", "done"} => threads[r] = {}

\* No threads have only each other: of any that there are, one is had by a runtime
\* that is not among them.
RootedInv ==
  \A S \in SUBSET Slots :
    S # {} /\ (\A s \in S : pc[s] # "free") =>
      \E s \in S, r \in Runtimes \ S : s \in Has(r)

IInv == TypeOK /\ Tree /\ LeafInv /\ RootedInv

----------------------------------------------------------------------------
(* The initial states *)

LEMMA InitTyped == Init => TypeOK
BY NamesAssumption, RequestsAssumption, MaxCallsAssumption
   DEF Init, TypeOK, Runtimes, Points, Phases

LEMMA InitTree == Init => Tree
<1> SUFFICES ASSUME Init PROVE Tree
  OBVIOUS
<1> USE NamesAssumption DEF Runtimes
<1>1. OwnedInv
  BY DEF Init, OwnedInv, Has
<1>2. CallInv /\ StartInv /\ FlagsInv
  BY DEF Init, CallInv, StartInv, FlagsInv
<1>3. HandlesInv /\ LockInv
  BY DEF Init, HandlesInv, LockInv
<1> QED
  BY <1>1, <1>2, <1>3 DEF Tree

LEMMA InitRooted == Init => LeafInv /\ RootedInv
<1> SUFFICES ASSUME Init PROVE LeafInv /\ RootedInv
  OBVIOUS
<1>1. LeafInv
  BY DEF Init, LeafInv
<1>2. \A s \in Slots : pc[s] = "free"
  BY NamesAssumption DEF Init, Runtimes
<1>3. RootedInv
  BY <1>2 DEF RootedInv
<1> QED
  BY <1>1, <1>3

----------------------------------------------------------------------------
(* Steps that concern the lifecycle of one runtime only *)

LifeStep(r) ==
  \/ OnSuspend(r) \/ OnWakeup(r) \/ OnResume(r) \/ OnTerminate(r)
  \/ Rest(r) \/ Leave(r) \/ Kill(r) \/ Finish(r)
  \/ \E q \in Requests : Request(r, q)

LEMMA LifeKeepsTree ==
  ASSUME Tree, UNCHANGED <<at, links>> PROVE Tree'
BY DEF Tree, OwnedInv, Has, CallInv, StartInv, FlagsInv, HandlesInv, LockInv, at, links

LEMMA LifeStepIsLife ==
  ASSUME NEW r \in Runtimes, LifeStep(r) PROVE UNCHANGED <<at, links>>
BY DEF LifeStep, OnSuspend, OnWakeup, OnResume, OnTerminate, Rest, Leave, Kill, Finish,
       Request, Handle, Become

LEMMA AcceptTyped ==
  ASSUME TypeOK, NEW r \in Runtimes, NEW q \in Requests, Accept(r, q)
  PROVE  /\ want' \in [Runtimes -> {"run", "hold"}]
         /\ owed' \in [Runtimes -> SUBSET Requests]
BY DEF TypeOK, Accept

LEMMA LifeTyped ==
  ASSUME TypeOK, NEW r \in Runtimes, LifeStep(r) PROVE TypeOK'
<1> USE RequestsAssumption DEF TypeOK, at, links
<1>1. CASE OnSuspend(r) \/ OnWakeup(r) \/ OnResume(r)
  BY <1>1 DEF OnSuspend, OnWakeup, OnResume, Handle, Answers, Phases
<1>2. CASE OnTerminate(r)
  BY <1>2 DEF OnTerminate, Phases
<1>3. CASE Rest(r) \/ Leave(r) \/ Kill(r) \/ Finish(r)
  BY <1>3 DEF Rest, Leave, Kill, Finish, Become, Phases
<1>4. ASSUME NEW q \in Requests, Request(r, q) PROVE TypeOK'
  <2>1. /\ want' \in [Runtimes -> {"run", "hold"}]
        /\ owed' \in [Runtimes -> SUBSET Requests]
    BY <1>4, AcceptTyped DEF Request
  <2>2. calls' \in 0..MaxCalls
    BY <1>4, MaxCallsAssumption DEF Request, Counted
  <2>3. stray' \subseteq Slots
    BY <1>4 DEF Request, Runtimes
  <2> QED
    BY <1>4, <2>1, <2>2, <2>3 DEF Request
<1> QED
  BY <1>1, <1>2, <1>3, <1>4 DEF LifeStep
----------------------------------------------------------------------------
(* Steps of the tree of threads *)

\* The start of a call about threads in the list, or of none.
LEMMA CallKeepsTree ==
  ASSUME TypeOK, Tree, NEW r \in Runtimes, NEW ss \in SUBSET threads[r],
         NEW p \in {"run", "post", "join"}, NEW q,
         pc[r] = "run", p = "run" => ss = {}, p = "post" => q \in Requests,
         pc' = [pc EXCEPT ![r] = p], args' = [args EXCEPT ![r] = ss],
         req' = [req EXCEPT ![r] = q], UNCHANGED links
  PROVE  Tree'
<1> USE DEF TypeOK, Tree, links
<1>1. \A t \in Runtimes : Has(t)' = Has(t)
  BY DEF Has, CallInv
<1>2. OwnedInv'
  BY <1>1 DEF OwnedInv
<1>3. CallInv'
  BY DEF CallInv
<1>4. StartInv'
  BY DEF StartInv
<1>5. FlagsInv'
  BY DEF FlagsInv
<1>6. HandlesInv'
  BY DEF HandlesInv
<1>7. LockInv'
  BY DEF LockInv
<1> QED
  BY <1>2, <1>3, <1>4, <1>5, <1>6, <1>7

LEMMA ForwardCalls ==
  ASSUME NEW r \in Runtimes, Forward(r)
  PROVE  /\ pc[r] = "run" /\ UNCHANGED links
         /\ pc' = [pc EXCEPT ![r] = IF threads[r] = {} THEN "run" ELSE "post"]
         /\ args' = [args EXCEPT ![r] = threads[r]]
         /\ req' = [req EXCEPT ![r] = IF threads[r] = {} THEN "none" ELSE after[r]]
BY DEF Forward, Tells, Goto

LEMMA ForwardKeepsTree ==
  ASSUME TypeOK, Tree, NEW r \in Runtimes, Forward(r) PROVE Tree'
<1> DEFINE p == IF threads[r] = {} THEN "run" ELSE "post"
           q == IF threads[r] = {} THEN "none" ELSE after[r]
<1>1. /\ pc[r] = "run" /\ UNCHANGED links
      /\ pc' = [pc EXCEPT ![r] = p] /\ args' = [args EXCEPT ![r] = threads[r]]
      /\ req' = [req EXCEPT ![r] = q]
  BY ForwardCalls
<1>2. p = "post" => q \in Requests
  BY DEF Forward, TypeOK
<1> QED
  BY <1>1, <1>2, CallKeepsTree

LEMMA TellKeepsTree ==
  ASSUME TypeOK, Tree, NEW r \in Runtimes, NEW s \in Slots, NEW q \in Requests,
         Tell(r, s, q)
  PROVE  Tree'
<1>1. /\ pc[r] = "run" /\ {s} \subseteq threads[r] /\ UNCHANGED links
      /\ pc' = [pc EXCEPT ![r] = "post"] /\ args' = [args EXCEPT ![r] = {s}]
      /\ req' = [req EXCEPT ![r] = q]
  BY DEF Tell, Tells, Goto, Scripts
<1> QED
  BY <1>1, CallKeepsTree

LEMMA JoinKeepsTree ==
  ASSUME TypeOK, Tree, NEW r \in Runtimes, NEW s \in Slots, Join(r, s) PROVE Tree'
<1>1. /\ pc[r] = "run" /\ {s} \subseteq threads[r] /\ UNCHANGED links
      /\ pc' = [pc EXCEPT ![r] = "join"] /\ args' = [args EXCEPT ![r] = {s}]
      /\ req' = [req EXCEPT ![r] = req[r]]
  BY DEF Join, Goto, Scripts, TypeOK
<1> QED
  BY <1>1, CallKeepsTree

LEMMA CreateKeepsTree ==
  ASSUME TypeOK, Tree, NEW r \in Runtimes, NEW s \in Slots, Create(r, s) PROVE Tree'
<1>1. /\ pc[r] = "run" /\ pc[s] = "free" /\ r # s /\ s \in Runtimes
      /\ UNCHANGED <<req, threads, ready, holder, exited, joined, handles>>
      /\ pc' = [pc EXCEPT ![r] = "create", ![s] = "setup"]
      /\ args' = [args EXCEPT ![r] = {s}]
  BY DEF Create, Scripts, links, Runtimes
<1>2. pc \in [Runtimes -> Points] /\ args \in [Runtimes -> SUBSET Slots]
  BY DEF TypeOK
<1>3. args[r] = {} /\ \A t \in Runtimes : s \notin Has(t)
  BY <1>1 DEF Tree, CallInv, OwnedInv
<1> USE <1>1, <1>2, <1>3 DEF Tree, Has
<1>4. OwnedInv'
  <2>1. \A t \in Runtimes : Has(t)' = IF t = r THEN Has(r) \union {s} ELSE Has(t)
    OBVIOUS
  <2>2. \A t \in Slots : pc'[t] = "free" <=> pc[t] = "free" /\ t # s
    BY DEF Runtimes
  <2>3. \A t, u \in Runtimes : t # u => Has(t)' \intersect Has(u)' = {}
    BY DEF OwnedInv
  <2>4. \A t \in Slots : pc'[t] = "free" <=> \A u \in Runtimes : t \notin Has(u)'
    BY <2>2 DEF OwnedInv
  <2> HIDE DEF Has
  <2> QED
    BY <2>3, <2>4 DEF OwnedInv
<1>5. CallInv'
  BY DEF CallInv
<1>6. StartInv'
  BY DEF StartInv, Runtimes
<1>7. FlagsInv'
  BY DEF FlagsInv, Runtimes
<1>8. HandlesInv'
  BY DEF HandlesInv, TypeOK, Runtimes
<1>9. LockInv'
  BY DEF LockInv, Runtimes
<1> QED
  BY <1>4, <1>5, <1>6, <1>7, <1>8, <1>9

LEMMA LinkKeepsTree ==
  ASSUME TypeOK, Tree, NEW r \in Runtimes, Link(r) PROVE Tree'
<1> USE NamesAssumption DEF TypeOK, Tree, Runtimes, Link, Goto
<1>1. OwnedInv'
  BY DEF OwnedInv, Has
<1>2. CallInv'
  BY DEF CallInv
<1>3. StartInv'
  BY DEF StartInv
<1>4. FlagsInv'
  BY DEF FlagsInv
<1>5. HandlesInv'
  BY DEF HandlesInv
<1>6. LockInv'
  BY DEF LockInv
<1> QED
  BY <1>1, <1>2, <1>3, <1>4, <1>5, <1>6

LEMMA MeetKeepsTree ==
  ASSUME TypeOK, Tree, NEW r \in Runtimes, Meet(r) PROVE Tree'
<1> USE NamesAssumption DEF TypeOK, Tree, Runtimes, Meet
<1>1. OwnedInv'
  BY DEF OwnedInv, Has, CallInv
<1>2. CallInv'
  BY DEF CallInv
<1>3. StartInv'
  BY DEF OwnedInv, Has, StartInv
<1>4. FlagsInv'
  BY DEF FlagsInv
<1>5. HandlesInv'
  BY DEF OwnedInv, Has, HandlesInv
<1>6. LockInv'
  BY DEF LockInv
<1> QED
  BY <1>1, <1>2, <1>3, <1>4, <1>5, <1>6

LEMMA PostLockKeepsTree ==
  ASSUME TypeOK, Tree, NEW r \in Runtimes, NEW s \in Slots, PostLock(r, s) PROVE Tree'
<1> USE NamesAssumption DEF TypeOK, Tree, Runtimes, PostLock, Tells, Goto, at
<1>1. OwnedInv'
  BY DEF OwnedInv, Has, CallInv, StartInv, FlagsInv
<1>2. CallInv'
  BY DEF CallInv
<1>3. StartInv'
  BY DEF StartInv
<1>4. FlagsInv'
  BY DEF FlagsInv
<1>5. HandlesInv'
  BY DEF HandlesInv
<1>6. \/ pc[s] \in {"run", "create", "await", "post", "join", "ended"}
      \/ s \in joined \union exited
  BY DEF OwnedInv, Has, StartInv, FlagsInv, Points
<1>7. LockInv'
  BY <1>6 DEF LockInv
<1> QED
  BY <1>1, <1>2, <1>3, <1>4, <1>5, <1>7

LEMMA PostKeepsTree ==
  ASSUME TypeOK, Tree, NEW r \in Runtimes, NEW s \in Slots, Post(r, s) PROVE Tree'
<1> USE NamesAssumption DEF TypeOK, Tree, Runtimes, Post, Tells, Goto
<1>1. OwnedInv'
  BY DEF OwnedInv, Has, CallInv
<1>2. CallInv'
  BY DEF CallInv
<1>3. StartInv'
  BY DEF StartInv
<1>4. FlagsInv'
  BY DEF FlagsInv
<1>5. HandlesInv'
  BY DEF HandlesInv
<1>6. LockInv'
  BY DEF LockInv
<1> QED
  BY <1>1, <1>2, <1>3, <1>4, <1>5, <1>6

LEMMA JoinReturnsKeepsTree ==
  ASSUME TypeOK, Tree, NEW r \in Runtimes, JoinReturns(r) PROVE Tree'
<1> USE NamesAssumption DEF TypeOK, Tree, Runtimes, JoinReturns, Goto
<1>1. OwnedInv'
  BY DEF OwnedInv, Has, CallInv
<1>2. CallInv'
  BY DEF CallInv
<1>3. StartInv'
  BY DEF StartInv
<1>4. FlagsInv'
  BY DEF FlagsInv
<1>5. HandlesInv'
  BY DEF HandlesInv
<1>6. LockInv'
  BY DEF LockInv
<1> QED
  BY <1>1, <1>2, <1>3, <1>4, <1>5, <1>6

LEMMA FinalizeKeepsTree ==
  ASSUME TypeOK, Tree, NEW r \in Runtimes, NEW s \in Slots, Finalize(r, s) PROVE Tree'
<1> USE NamesAssumption DEF TypeOK, Tree, Runtimes, Finalize, Free, Reset
<1>1. OwnedInv'
  BY DEF OwnedInv, Has, CallInv, StartInv, FlagsInv
<1>2. CallInv'
  BY DEF CallInv, FlagsInv
<1>3. StartInv'
  BY DEF StartInv, FlagsInv
<1>4. FlagsInv'
  BY DEF FlagsInv
<1>5. HandlesInv'
  BY DEF HandlesInv
<1>6. LockInv'
  BY DEF OwnedInv, Has, LockInv
<1> QED
  BY <1>1, <1>2, <1>3, <1>4, <1>5, <1>6

LEMMA RunReturnsKeepsTree ==
  ASSUME TypeOK, Tree, NEW r \in Runtimes, RunReturns(r) PROVE Tree'
<1> USE NamesAssumption DEF TypeOK, Tree, Runtimes, RunReturns, Goto, links
<1>1. OwnedInv'
  BY DEF OwnedInv, Has
<1>2. CallInv'
  BY DEF CallInv
<1>3. StartInv'
  BY DEF StartInv
<1>4. FlagsInv'
  BY DEF FlagsInv
<1>5. HandlesInv'
  BY DEF HandlesInv
<1>6. LockInv'
  BY DEF LockInv
<1> QED
  BY <1>1, <1>2, <1>3, <1>4, <1>5, <1>6

LEMMA DestroyKeepsTree ==
  ASSUME TypeOK, Tree, NEW r \in Runtimes, Destroy(r) PROVE Tree'
<1> USE NamesAssumption DEF TypeOK, Tree, Runtimes, Destroy, Reset
<1>1. OwnedInv'
  BY DEF OwnedInv, Has, CallInv, FlagsInv
<1>2. CallInv'
  BY DEF CallInv, FlagsInv
<1>3. StartInv'
  BY DEF StartInv, FlagsInv
<1>4. FlagsInv'
  BY DEF FlagsInv
<1>5. HandlesInv'
  BY DEF HandlesInv
<1>6. LockInv'
  BY DEF OwnedInv, Has, LockInv
<1> QED
  BY <1>1, <1>2, <1>3, <1>4, <1>5, <1>6

LEMMA TeardownJoinKeepsTree ==
  ASSUME TypeOK, Tree, NEW r \in Runtimes, NEW s \in Slots, TeardownJoin(r, s) PROVE Tree'
<1> USE NamesAssumption DEF TypeOK, Tree, Runtimes, TeardownJoin, Free, Reset
<1>1. OwnedInv'
  BY DEF OwnedInv, Has, CallInv
<1>2. CallInv'
  BY DEF CallInv, FlagsInv
<1>3. StartInv'
  BY DEF StartInv, FlagsInv
<1>4. FlagsInv'
  BY DEF FlagsInv
<1>5. HandlesInv'
  BY DEF HandlesInv
<1>6. LockInv'
  BY DEF OwnedInv, Has, LockInv
<1> QED
  BY <1>1, <1>2, <1>3, <1>4, <1>5, <1>6

LEMMA TeardownDoneKeepsTree ==
  ASSUME TypeOK, Tree, NEW r \in Runtimes, TeardownDone(r) PROVE Tree'
<1> USE NamesAssumption DEF TypeOK, Tree, Runtimes, TeardownDone, Goto, links
<1>1. OwnedInv'
  BY DEF OwnedInv, Has
<1>2. CallInv'
  BY DEF CallInv
<1>3. StartInv'
  BY DEF StartInv
<1>4. FlagsInv'
  BY DEF FlagsInv
<1>5. HandlesInv'
  BY DEF HandlesInv
<1>6. LockInv'
  BY DEF LockInv
<1> QED
  BY <1>1, <1>2, <1>3, <1>4, <1>5, <1>6

LEMMA SetupKeepsTree ==
  ASSUME TypeOK, Tree, NEW s \in Slots, Setup(s) PROVE Tree'
<1> USE NamesAssumption DEF TypeOK, Tree, Runtimes, Setup, Goto, links
<1>1. OwnedInv'
  BY DEF OwnedInv, Has
<1>2. CallInv'
  BY DEF CallInv
<1>3. StartInv'
  BY DEF StartInv
<1>4. FlagsInv'
  BY DEF FlagsInv
<1>5. HandlesInv'
  BY DEF HandlesInv
<1>6. LockInv'
  BY DEF LockInv
<1> QED
  BY <1>1, <1>2, <1>3, <1>4, <1>5, <1>6

LEMMA ExitKeepsTree ==
  ASSUME TypeOK, Tree, NEW s \in Slots, Exit(s) PROVE Tree'
<1> USE NamesAssumption DEF TypeOK, Tree, Runtimes, Exit, Goto
<1>1. OwnedInv'
  BY DEF OwnedInv, Has
<1>2. CallInv'
  BY DEF CallInv
<1>3. StartInv'
  BY DEF StartInv
<1>4. FlagsInv'
  BY DEF FlagsInv
<1>5. HandlesInv'
  BY DEF HandlesInv
<1>6. LockInv'
  BY DEF LockInv
<1> QED
  BY <1>1, <1>2, <1>3, <1>4, <1>5, <1>6

----------------------------------------------------------------------------
(* The tree as a whole *)

\* What a runtime does, except to start a thread.
Others(r) ==
  \/ Steps(r) \/ Lives(r) \/ Kill(r) \/ Finish(r)
  \/ \E q \in Requests : Request(r, q)
  \/ \E s \in Slots : \/ Join(r, s) \/ Finalize(r, s)
                      \/ \E q \in Requests : Tell(r, s, q)

Shrinks ==
  /\ \A r \in Runtimes : Has(r)' \subseteq Has(r)
  /\ \A s \in Slots : pc[s] = "free" => pc'[s] = "free"

LEMMA LifeShrinks == ASSUME UNCHANGED <<at, links>> PROVE Shrinks
BY DEF Shrinks, Has, at, links

LEMMA CallsShrink ==
  ASSUME TypeOK, Tree, NEW r \in Runtimes,
         \/ Link(r) \/ Meet(r) \/ JoinReturns(r) \/ Forward(r)
         \/ \E s \in Slots : \/ PostLock(r, s) \/ Post(r, s) \/ Join(r, s)
                             \/ \E q \in Requests : Tell(r, s, q)
  PROVE  Shrinks
<1> USE NamesAssumption DEF Tree, TypeOK, Shrinks, Has, Runtimes
<1>1. CASE Link(r)
  BY <1>1 DEF Link, Goto
<1>2. CASE Meet(r)
  BY <1>2 DEF Meet
<1>3. CASE JoinReturns(r)
  BY <1>3 DEF JoinReturns, Goto
<1>4. CASE Forward(r)
  <2>1. \A t \in Runtimes : Has(t)' \subseteq Has(t)
    BY <1>4, ForwardCalls DEF links
  <2> QED
    BY <1>4, <2>1, ForwardCalls
<1>5. ASSUME NEW s \in Slots, PostLock(r, s) PROVE Shrinks
  BY <1>5 DEF PostLock, Tells, Goto, at
<1>6. ASSUME NEW s \in Slots, Post(r, s) PROVE Shrinks
  BY <1>6 DEF Post, Tells, Goto
<1>7. ASSUME NEW s \in Slots, Join(r, s) PROVE Shrinks
  BY <1>7 DEF Join, Scripts, Goto, links
<1>8. ASSUME NEW s \in Slots, NEW q \in Requests, Tell(r, s, q) PROVE Shrinks
  BY <1>8 DEF Tell, Tells, Scripts, Goto, links
<1> QED
  BY <1>1, <1>2, <1>3, <1>4, <1>5, <1>6, <1>7, <1>8

LEMMA EndsShrink ==
  ASSUME TypeOK, Tree, NEW r \in Runtimes,
         \/ RunReturns(r) \/ Destroy(r) \/ TeardownDone(r)
         \/ \E s \in Slots : Finalize(r, s) \/ TeardownJoin(r, s)
  PROVE  Shrinks
<1> USE NamesAssumption DEF Tree, TypeOK, Shrinks, Has, Runtimes
<1>1. CASE RunReturns(r)
  BY <1>1 DEF RunReturns, Goto, links
<1>2. CASE Destroy(r)
  BY <1>2 DEF Destroy, Reset
<1>3. CASE TeardownDone(r)
  BY <1>3 DEF TeardownDone, Goto, links
<1>4. ASSUME NEW s \in Slots, Finalize(r, s) PROVE Shrinks
  BY <1>4 DEF Finalize, Free, Reset
<1>5. ASSUME NEW s \in Slots, TeardownJoin(r, s) PROVE Shrinks
  BY <1>5 DEF TeardownJoin, Free, Reset
<1> QED
  BY <1>1, <1>2, <1>3, <1>4, <1>5

LEMMA EntersShrink == ASSUME TypeOK, NEW s \in Slots, Enters(s) PROVE Shrinks
BY NamesAssumption
   DEF Enters, Setup, Exit, Goto, links, TypeOK, Shrinks, Has, Runtimes

LEMMA OthersShrink == ASSUME TypeOK, Tree, NEW r \in Runtimes, Others(r) PROVE Shrinks
<1>1. CASE Steps(r)
  BY <1>1, CallsShrink, EndsShrink DEF Steps
<1>2. CASE Lives(r)
  BY <1>2, LifeShrinks, LifeStepIsLife, CallsShrink, EndsShrink DEF Lives, LifeStep
<1>3. CASE \/ Kill(r) \/ Finish(r) \/ \E q \in Requests : Request(r, q)
  BY <1>3, LifeShrinks, LifeStepIsLife DEF LifeStep
<1> QED
  BY <1>1, <1>2, <1>3, CallsShrink, EndsShrink DEF Others

\* A step that gives nobody a thread, and frees those that lose theirs.
LEMMA ShrinkingKeepsRoots ==
  ASSUME OwnedInv, OwnedInv', RootedInv, Shrinks PROVE RootedInv'
<1> SUFFICES ASSUME NEW S \in SUBSET Slots, S # {}, \A s \in S : pc'[s] # "free"
             PROVE  \E s \in S, r \in Runtimes \ S : s \in Has(r)'
  BY DEF RootedInv
<1>1. PICK s \in S, r \in Runtimes \ S : s \in Has(r)
  BY DEF RootedInv, Shrinks
<1>2. PICK t \in Runtimes : s \in Has(t)'
  BY DEF OwnedInv
<1>3. t = r
  BY <1>1, <1>2 DEF Shrinks, OwnedInv
<1> QED
  BY <1>1, <1>2, <1>3

LEMMA CreateKeepsRoots ==
  ASSUME TypeOK, Tree, LeafInv, RootedInv, NEW r \in Runtimes, NEW s \in Slots,
         Create(r, s)
  PROVE  RootedInv'
<1>1. /\ pc[r] = "run" /\ pc[s] = "free" /\ r # s /\ s \in Runtimes
      /\ UNCHANGED threads
      /\ pc' = [pc EXCEPT ![r] = "create", ![s] = "setup"]
      /\ args' = [args EXCEPT ![r] = {s}]
  BY DEF Create, Scripts, links, Runtimes
<1>2. args[r] = {} /\ Has(s) = {}
  BY <1>1 DEF Tree, CallInv, LeafInv, Has
<1>3. s \in Has(r)' /\ \A t \in Runtimes : Has(t) \subseteq Has(t)'
  BY <1>1, <1>2 DEF Has, TypeOK
<1>4. \A t \in Slots \ {s} : pc'[t] # "free" => pc[t] # "free"
  BY <1>1 DEF TypeOK, Runtimes
<1> SUFFICES ASSUME NEW S \in SUBSET Slots, S # {}, \A t \in S : pc'[t] # "free"
             PROVE  \E t \in S, u \in Runtimes \ S : t \in Has(u)'
  BY DEF RootedInv
<1>5. CASE s \in S /\ r \notin S
  BY <1>3, <1>5
<1>6. CASE s \notin S \/ r \in S
  <2>1. S \ {s} # {}
    BY <1>1, <1>6
  <2>2. PICK t \in S \ {s}, u \in Runtimes \ (S \ {s}) : t \in Has(u)
    BY <2>1, <1>4 DEF RootedInv
  <2>3. u # s
    BY <1>2, <2>2
  <2> QED
    BY <2>2, <2>3, <1>3
<1> QED
  BY <1>5, <1>6

LEMMA NextKeepsRoots ==
  ASSUME TypeOK, Tree, Tree', LeafInv, RootedInv, [Next]_vars PROVE RootedInv'
<1>1. ASSUME NEW r \in Runtimes, Others(r) PROVE RootedInv'
  BY <1>1, OthersShrink, ShrinkingKeepsRoots DEF Tree
<1>2. ASSUME NEW s \in Slots, Enters(s) PROVE RootedInv'
  BY <1>2, EntersShrink, ShrinkingKeepsRoots DEF Tree
<1>3. CASE UNCHANGED vars
  BY <1>3, LifeShrinks, ShrinkingKeepsRoots DEF Tree, vars
<1> QED
  BY <1>1, <1>2, <1>3, CreateKeepsRoots DEF Next, Others, Chooses

\* Nobody gets a thread but by Link, and who has some left is not done.
LEMMA NextKeepsLeaves ==
  ASSUME TypeOK, Tree, LeafInv, [Next]_vars PROVE LeafInv'
<1> SUFFICES ASSUME NEW u \in Runtimes, pc'[u] \in {"free", "setup", "barrier", "done"}
             PROVE  threads'[u] = {}
  BY DEF LeafInv
<1> USE NamesAssumption DEF Tree, LeafInv, FlagsInv, TypeOK, Runtimes
<1>1. ASSUME NEW r \in Runtimes, Link(r) PROVE threads'[u] = {}
  BY <1>1 DEF Link, Goto
<1>2. ASSUME NEW r \in Runtimes, Meet(r) \/ JoinReturns(r) PROVE threads'[u] = {}
  BY <1>2 DEF Meet, JoinReturns, Goto
<1>3. ASSUME NEW r \in Runtimes, Forward(r) PROVE threads'[u] = {}
  BY <1>3, ForwardCalls DEF links
<1>4. ASSUME NEW r \in Runtimes, NEW s \in Slots, PostLock(r, s) \/ Post(r, s)
      PROVE  threads'[u] = {}
  BY <1>4 DEF PostLock, Post, Tells, Goto, at
<1>5. ASSUME NEW r \in Runtimes, NEW s \in Slots, Join(r, s) PROVE threads'[u] = {}
  BY <1>5 DEF Join, Scripts, Goto, links
<1>6. ASSUME NEW r \in Runtimes, NEW s \in Slots, NEW q \in Requests, Tell(r, s, q)
      PROVE  threads'[u] = {}
  BY <1>6 DEF Tell, Tells, Scripts, Goto, links
<1>7. ASSUME NEW r \in Runtimes, RunReturns(r) \/ TeardownDone(r) PROVE threads'[u] = {}
  BY <1>7 DEF RunReturns, TeardownDone, Goto, links
<1>8. ASSUME NEW r \in Runtimes, Destroy(r) PROVE threads'[u] = {}
  BY <1>8 DEF Destroy, Reset
<1>9. ASSUME NEW r \in Runtimes, NEW s \in Slots, Finalize(r, s) PROVE threads'[u] = {}
  BY <1>9 DEF Finalize, Free, Reset
<1>10. ASSUME NEW r \in Runtimes, NEW s \in Slots, TeardownJoin(r, s)
       PROVE  threads'[u] = {}
  BY <1>10 DEF TeardownJoin, Free, Reset
<1>11. ASSUME NEW r \in Runtimes, NEW s \in Slots, Create(r, s) PROVE threads'[u] = {}
  BY <1>11 DEF Create, Scripts, links
<1>12. ASSUME NEW s \in Slots, Enters(s) PROVE threads'[u] = {}
  BY <1>12 DEF Enters, Setup, Exit, Goto, links
<1>13. CASE UNCHANGED <<at, links>>
  BY <1>13 DEF at, links
<1>14. ASSUME NEW r \in Runtimes, LifeStep(r) PROVE threads'[u] = {}
  BY <1>13, <1>14, LifeStepIsLife
<1> HIDE DEF Tree, LeafInv, FlagsInv, TypeOK
<1>15. CASE UNCHANGED vars
  BY <1>13, <1>15 DEF vars
<1>16. ASSUME NEW r \in Runtimes, Steps(r) PROVE threads'[u] = {}
  BY <1>1, <1>2, <1>4, <1>7, <1>8, <1>10, <1>16 DEF Steps
<1>17. ASSUME NEW r \in Runtimes, Lives(r) PROVE threads'[u] = {}
  BY <1>3, <1>7, <1>14, <1>17 DEF Lives, LifeStep
<1>18. ASSUME NEW r \in Runtimes, Chooses(r) PROVE threads'[u] = {}
  BY <1>5, <1>6, <1>9, <1>11, <1>14, <1>18 DEF Chooses, LifeStep
<1> QED
  BY <1>12, <1>15, <1>16, <1>17, <1>18 DEF Next

----------------------------------------------------------------------------
(* Types *)

LEMMA StartTyped ==
  ASSUME TypeOK, Tree, NEW r \in Runtimes,
         \/ \E s \in Slots : Create(r, s)
         \/ Link(r) \/ Meet(r)
  PROVE  TypeOK'
<1> USE NamesAssumption DEF TypeOK, Tree, CallInv, Runtimes, Points, life
<1>1. ASSUME NEW s \in Slots, Create(r, s) PROVE TypeOK'
  <2>1. /\ pc[r] = "run" /\ pc[s] = "free"
        /\ pc' = [pc EXCEPT ![r] = "create", ![s] = "setup"]
        /\ args' = [args EXCEPT ![r] = {s}] /\ stray' \subseteq Slots
        /\ UNCHANGED <<req, life, links, calls>>
    BY <1>1 DEF Create, Scripts
  <2>2. \A t \in Slots : holder'[t] # NoOne =>
          pc'[holder'[t]] = "post" /\ t \in args'[holder'[t]]
    BY <2>1 DEF links
  <2> QED
    BY <2>1, <2>2 DEF links
<1>2. CASE Link(r)
  BY <1>2 DEF Link, Goto
<1>3. CASE Meet(r)
  BY <1>3 DEF Meet
<1> QED
  BY <1>1, <1>2, <1>3

LEMMA CallTyped ==
  ASSUME TypeOK, Tree, NEW r \in Runtimes,
         \/ Forward(r) \/ JoinReturns(r)
         \/ \E s \in Slots : Join(r, s) \/ \E q \in Requests : Tell(r, s, q)
  PROVE  TypeOK'
<1> USE NamesAssumption DEF TypeOK, Tree, CallInv, Runtimes, Points, life, links
<1>1. CASE Forward(r)
  BY <1>1 DEF Forward, Tells, Goto
<1>2. CASE JoinReturns(r)
  BY <1>2 DEF JoinReturns, Goto
<1>3. ASSUME NEW s \in Slots, Join(r, s) PROVE TypeOK'
  BY <1>3, MaxCallsAssumption DEF Join, Scripts, Goto, Counted
<1>4. ASSUME NEW s \in Slots, NEW q \in Requests, Tell(r, s, q) PROVE TypeOK'
  BY <1>4, MaxCallsAssumption DEF Tell, Tells, Scripts, Goto, Counted
<1> QED
  BY <1>1, <1>2, <1>3, <1>4

LEMMA PostTyped ==
  ASSUME TypeOK, Tree, NEW r \in Runtimes, NEW s \in Slots, PostLock(r, s) \/ Post(r, s)
  PROVE  TypeOK'
<1> USE NamesAssumption DEF TypeOK, Tree, CallInv, Runtimes, Points
<1>1. CASE PostLock(r, s)
  BY <1>1 DEF PostLock, Tells, Goto, at, life, LockInv
<1>2. CASE Post(r, s)
  <2>1. /\ want' \in [Runtimes -> {"run", "hold"}]
        /\ owed' \in [Runtimes -> SUBSET Requests]
    BY <1>2, AcceptTyped DEF Post
  <2>2. /\ pc' = [pc EXCEPT ![r] = IF args[r] \ {s} = {} THEN "run" ELSE "post"]
        /\ args' = [args EXCEPT ![r] = args[r] \ {s}]
        /\ req' = [req EXCEPT ![r] = IF args[r] \ {s} = {} THEN "none" ELSE req[r]]
        /\ holder' = [holder EXCEPT ![s] = NoOne]
        /\ UNCHANGED <<phase, after, threads, ready, exited, joined, handles, stray, calls>>
    BY <1>2 DEF Post, Tells, Goto
  <2>3. \A t \in Slots : holder'[t] # NoOne =>
          pc'[holder'[t]] = "post" /\ t \in args'[holder'[t]]
    BY <2>2
  <2> QED
    BY <2>1, <2>2, <2>3
<1> QED
  BY <1>1, <1>2

LEMMA EndTyped ==
  ASSUME TypeOK, Tree, NEW r \in Runtimes,
         \/ RunReturns(r) \/ Destroy(r) \/ TeardownDone(r)
         \/ \E s \in Slots : Finalize(r, s) \/ TeardownJoin(r, s)
  PROVE  TypeOK'
<1> USE NamesAssumption
    DEF TypeOK, Tree, CallInv, FlagsInv, Runtimes, Points, Phases, life, links
<1>1. CASE RunReturns(r)
  BY <1>1 DEF RunReturns, Goto
<1>2. CASE Destroy(r)
  BY <1>2 DEF Destroy, Reset
<1>3. CASE TeardownDone(r)
  BY <1>3 DEF TeardownDone, Goto
<1>4. ASSUME NEW s \in Slots, Finalize(r, s) PROVE TypeOK'
  BY <1>4 DEF Finalize, Free, Reset
<1>5. ASSUME NEW s \in Slots, TeardownJoin(r, s) PROVE TypeOK'
  BY <1>5 DEF TeardownJoin, Free, Reset
<1> QED
  BY <1>1, <1>2, <1>3, <1>4, <1>5

LEMMA EntersTyped ==
  ASSUME TypeOK, Tree, NEW s \in Slots, Enters(s) PROVE TypeOK'
BY NamesAssumption
   DEF Enters, Setup, Exit, Goto, TypeOK, Runtimes, Points, life, links

LEMMA StutterKeeps ==
  ASSUME TypeOK, Tree, UNCHANGED vars PROVE TypeOK' /\ Tree'
BY LifeKeepsTree DEF TypeOK, vars, at, life, links

LEMMA NextKeeps ==
  ASSUME TypeOK, Tree, [Next]_vars PROVE TypeOK' /\ Tree'
<1>1. ASSUME NEW r \in Runtimes, Steps(r) PROVE TypeOK' /\ Tree'
  BY <1>1, LinkKeepsTree, MeetKeepsTree, JoinReturnsKeepsTree, DestroyKeepsTree,
     TeardownDoneKeepsTree, PostLockKeepsTree, PostKeepsTree, TeardownJoinKeepsTree,
     StartTyped, CallTyped, PostTyped, EndTyped
     DEF Steps
<1>2. ASSUME NEW r \in Runtimes, Lives(r) PROVE TypeOK' /\ Tree'
  BY <1>2, LifeKeepsTree, LifeStepIsLife, LifeTyped, ForwardKeepsTree, CallTyped,
     RunReturnsKeepsTree, EndTyped
     DEF Lives, LifeStep
<1>3. ASSUME NEW r \in Runtimes, Chooses(r) PROVE TypeOK' /\ Tree'
  BY <1>3, LifeKeepsTree, LifeStepIsLife, LifeTyped, CreateKeepsTree, JoinKeepsTree,
     FinalizeKeepsTree, TellKeepsTree, StartTyped, CallTyped, EndTyped
     DEF Chooses, LifeStep
<1>4. ASSUME NEW s \in Slots, Enters(s) PROVE TypeOK' /\ Tree'
  BY <1>4, SetupKeepsTree, ExitKeepsTree, EntersTyped DEF Enters
<1> QED
  BY <1>1, <1>2, <1>3, <1>4, StutterKeeps DEF Next

----------------------------------------------------------------------------
LEMMA InitHolds == Init => IInv
BY InitTyped, InitTree, InitRooted DEF IInv

LEMMA NextHolds == IInv /\ [Next]_vars => IInv'
BY NextKeeps, NextKeepsLeaves, NextKeepsRoots DEF IInv

\* IInv is inductive: the tree of threads stays one, whatever is started, told,
\* joined, collected and torn down at once.
THEOREM Invariance == Spec => []IInv
BY InitHolds, NextHolds, PTL DEF Spec

\* The variables have their types, and a lock that is held is of a call's thread.
THEOREM TypeCorrect == Spec => []TypeOK
BY Invariance, PTL DEF IInv

\* thread->lock is initialised whenever a thread or its parent takes it.
THEOREM LockAlwaysReady == Spec => []LockReady
<1>1. IInv => LockReady
  <2> SUFFICES ASSUME IInv, NEW s \in Slots,
                      \/ pc[s] = "ended" \/ holder[s] # NoOne
                      \/ \E r \in Runtimes : pc[r] = "post" /\ s \in args[r] \ joined
               PROVE  s \in ready
    BY DEF LockReady
  <2>1. s \notin joined
    BY DEF IInv, Tree, FlagsInv, LockInv
  <2>2. pc[s] \notin {"free", "setup", "barrier"}
    BY DEF IInv, Tree, LockInv, CallInv, StartInv, OwnedInv, Has
  <2>3. \E r \in Runtimes : s \in threads[r]
    BY <2>2 DEF IInv, TypeOK, Tree, OwnedInv, Has, CallInv, StartInv
  <2> QED
    BY <2>1, <2>3 DEF IInv, Tree, LockInv
<1> QED
  BY <1>1, Invariance, PTL

\* No request is posted to a mailbox on a stack that is gone.
THEOREM PostsAlwaysReachTheLiving == Spec => []PostsReachTheLiving
<1>1. IInv => PostsReachTheLiving
  BY DEF IInv, Tree, LockInv, PostsReachTheLiving
<1> QED
  BY <1>1, Invariance, PTL

\* No thread record is freed twice, or while anyone can still use it.
THEOREM AlwaysOwnedOnce == Spec => []OwnedOnce
<1>1. IInv => OwnedOnce
  <2> SUFFICES ASSUME IInv, NEW s \in Slots
               PROVE  /\ s \in handles => pc[s] # "free"
                      /\ pc[s] \notin {"free", "setup", "barrier"} =>
                           \E r \in Runtimes : s \in threads[r]
                      /\ \A r, t \in Runtimes :
                           s \in threads[r] \intersect threads[t] => r = t
                      /\ pc[s] = "free" => \A r \in Runtimes : s \notin threads[r]
    BY DEF OwnedOnce
  <2>1. s \in handles => pc[s] # "free"
    BY DEF IInv, Tree, HandlesInv
  <2>2. pc[s] \notin {"free", "setup", "barrier"} => \E r \in Runtimes : s \in threads[r]
    BY DEF IInv, TypeOK, Tree, OwnedInv, Has, CallInv, StartInv
  <2>3. \A r, t \in Runtimes : s \in threads[r] \intersect threads[t] => r = t
    BY DEF IInv, Tree, OwnedInv, Has
  <2>4. pc[s] = "free" => \A r \in Runtimes : s \notin threads[r]
    BY DEF IInv, Tree, OwnedInv, Has
  <2> QED
    BY <2>1, <2>2, <2>3, <2>4
<1> QED
  BY <1>1, Invariance, PTL

NobodyLeft == pc[Main] = "done" => \A s \in Slots : pc[s] = "free"

LEMMA NobodyIsLeft == IInv => NobodyLeft
<1> SUFFICES ASSUME IInv, pc[Main] = "done", NEW s \in Slots, pc[s] # "free" PROVE FALSE
  BY DEF NobodyLeft
<1> DEFINE S == {t \in Slots : pc[t] # "free"}
<1>1. PICK t \in S, r \in Runtimes \ S : t \in Has(r)
  BY DEF IInv, RootedInv
<1>2. pc[r] \in {"free", "done"}
  BY <1>1 DEF Runtimes
<1>3. Has(r) = {}
  BY <1>2 DEF IInv, Tree, CallInv, LeafInv, Has
<1> QED
  BY <1>1, <1>3

\* No thread is left when the main runtime has been torn down: those that threads
\* started, however deep, are joined before it (bare_thread_teardown()).
THEOREM TeardownLeavesNobody == Spec => []NobodyLeft
BY NobodyIsLeft, Invariance, PTL

----------------------------------------------------------------------------
(* A suspension and the tree *)

Sides == {"suspend", "resume"}

\* What a handler has to forward goes with the phase that it put its runtime in; and
\* where a thread is with the phase of its runtime.
PhaseInv ==
  \A r \in Runtimes :
    /\ after[r] # "none" =>
         /\ pc[r] \in {"run", "create", "await", "post", "join"}
         /\ \/ phase[r] = "terminated"
            \/ after[r] = "resume" /\ phase[r] = "active"
            \/ after[r] \in {"suspend", "wakeup"} /\ phase[r] = "winding"
    /\ pc[r] \in {"ended", "exited"} => phase[r] = "exiting"
    /\ pc[r] \in {"closed", "done"} => phase[r] = "exited"
    /\ r \in exited => pc[r] \in {"exited", "closed", "done"}

\* A thread that is not running yet was asked for nothing.
FreshInv ==
  \A s \in Slots : pc[s] \in {"free", "setup", "barrier"} =>
    phase[s] = "active" /\ want[s] = "run" /\ owed[s] = {}

\* A runtime owes an answer, or is as it was last asked to be.
SettledInv ==
  \A r \in Runtimes : phase[r] \in Live =>
    \/ Sides \subseteq owed[r]
    \/ owed[r] \intersect Sides = {"suspend"} /\ want[r] = "hold"
    \/ owed[r] \intersect Sides = {"resume"} /\ want[r] = "run"
    \/ owed[r] \intersect Sides = {} /\ (phase[r] = "active" <=> want[r] = "run")

\* The walk of a suspend or resume has not got to a thread yet.
Untold(r, s) == pc[r] = "post" /\ req[r] \in Sides /\ s \in args[r]

\* A thread was asked for what its parent last forwarded, or is about to be.
ObeyInv ==
  \A r \in Runtimes : \A s \in Has(r) \ stray :
    phase[r] \in Live /\ phase[s] \in Live /\ after[r] \in {"none", "wakeup"} =>
      IF Untold(r, s) THEN req[r] = "resume" <=> phase[r] = "active"
                      ELSE want[s] = "run" <=> phase[r] = "active"

SideInv == PhaseInv /\ FreshInv /\ SettledInv /\ ObeyInv

LEMMA InitSides == Init => SideInv
<1> SUFFICES ASSUME Init PROVE SideInv
  OBVIOUS
<1>1. PhaseInv /\ FreshInv
  BY NamesAssumption DEF Init, PhaseInv, FreshInv, Runtimes
<1>2. SettledInv /\ ObeyInv
  BY DEF Init, SettledInv, ObeyInv, Has
<1> QED
  BY <1>1, <1>2 DEF SideInv

\* One lemma for each kind of step: what it leaves of the four parts.
LEMMA HandlerKeepsSides ==
  ASSUME IInv, SideInv, NEW r \in Runtimes,
         OnSuspend(r) \/ OnWakeup(r) \/ OnResume(r) \/ OnTerminate(r)
  PROVE  SideInv'
<1>1. PhaseInv'
  BY DEF IInv, TypeOK, SideInv, OnSuspend, OnWakeup, OnResume, OnTerminate, Handle,
         Answers, at, links, PhaseInv
<1>2. FreshInv'
  BY DEF IInv, TypeOK, SideInv, Runtimes, OnSuspend, OnWakeup, OnResume, OnTerminate,
         Handle, Answers, at, FreshInv
<1>3. SettledInv'
  BY DEF IInv, TypeOK, SideInv, OnSuspend, OnWakeup, OnResume, OnTerminate, Handle,
         Answers, Live, SettledInv, Sides
<1>4. ObeyInv'
  BY DEF IInv, TypeOK, SideInv, Runtimes, OnSuspend, OnWakeup, OnResume, OnTerminate,
         Handle, Answers, Live, at, links, ObeyInv, Untold, Has
<1> QED
  BY <1>1, <1>2, <1>3, <1>4 DEF SideInv

LEMMA BecomeKeepsSides ==
  ASSUME IInv, SideInv, NEW r \in Runtimes, Kill(r) \/ Rest(r) \/ Finish(r) \/ Leave(r)
  PROVE  SideInv'
<1>1. PhaseInv'
  BY DEF IInv, TypeOK, SideInv, Kill, Rest, Finish, Leave, Become, at, links, PhaseInv
<1>2. FreshInv'
  BY DEF IInv, TypeOK, SideInv, Runtimes, Kill, Rest, Finish, Leave, Become, at,
         FreshInv
<1>3. SettledInv'
  BY DEF IInv, TypeOK, SideInv, Kill, Rest, Finish, Leave, Become, Live, SettledInv
<1>4. ObeyInv'
  BY DEF IInv, TypeOK, SideInv, Runtimes, Kill, Rest, Finish, Leave, Become, Live, at,
         links, ObeyInv, Untold, Has
<1> QED
  BY <1>1, <1>2, <1>3, <1>4 DEF SideInv

LEMMA RequestKeepsSides ==
  ASSUME IInv, SideInv, NEW r \in Runtimes, NEW q \in Requests, Request(r, q)
  PROVE  SideInv'
<1>1. PhaseInv'
  BY DEF SideInv, Request, at, links, PhaseInv
<1>2. FreshInv'
  BY NamesAssumption
     DEF IInv, TypeOK, SideInv, Runtimes, Request, Accept, Scripts, at, FreshInv
<1>3. SettledInv'
  BY DEF IInv, TypeOK, SideInv, Request, Accept, SettledInv, Sides
<1>4. ObeyInv'
  BY NamesAssumption
     DEF IInv, TypeOK, SideInv, Runtimes, Request, Accept, at, links, ObeyInv, Untold,
         Has
<1> QED
  BY <1>1, <1>2, <1>3, <1>4 DEF SideInv

LEMMA StartKeepsSides ==
  ASSUME IInv, SideInv, NEW r \in Runtimes,
         Link(r) \/ Meet(r) \/ \E s \in Slots : Create(r, s)
  PROVE  SideInv'
<1>1. PhaseInv'
  BY DEF IInv, TypeOK, SideInv, Create, Link, Meet, Goto, Scripts, links, life,
         PhaseInv
<1>2. FreshInv'
  BY DEF IInv, TypeOK, SideInv, Runtimes, Create, Link, Meet, Goto, life, FreshInv
<1>3. SettledInv'
  BY DEF SideInv, Create, Link, Meet, life, SettledInv
<1>4. ObeyInv'
  BY DEF IInv, TypeOK, SideInv, Create, Link, Meet, Goto, Scripts, links, life,
         ObeyInv, Untold, Has, FreshInv
<1> QED
  BY <1>1, <1>2, <1>3, <1>4 DEF SideInv

LEMMA CallKeepsSides ==
  ASSUME IInv, SideInv, NEW r \in Runtimes, 
         \/ JoinReturns(r)
         \/ \E s \in Slots : \/ Join(r, s) \/ PostLock(r, s)
                             \/ \E q \in Requests : Tell(r, s, q)
  PROVE  SideInv'
<1>1. PhaseInv'
  BY DEF IInv, TypeOK, SideInv, Join, JoinReturns, PostLock, Tell, Tells, Goto,
         Scripts, at, links, life, PhaseInv
<1>2. FreshInv'
  BY DEF IInv, TypeOK, SideInv, Runtimes, Join, JoinReturns, PostLock, Tell, Tells,
         Goto, at, life, FreshInv
<1>3. SettledInv'
  BY DEF SideInv, Join, JoinReturns, PostLock, Tell, life, SettledInv
<1>4. ObeyInv'
  BY DEF IInv, TypeOK, SideInv, Runtimes, Join, JoinReturns, PostLock, Tell, Tells,
         Goto, Scripts, Live, at, links, life, Tree, FlagsInv, ObeyInv, Untold, Has,
         PhaseInv, Sides
<1> QED
  BY <1>1, <1>2, <1>3, <1>4 DEF SideInv

LEMMA ForwardKeepsSides ==
  ASSUME IInv, SideInv, NEW r \in Runtimes, Forward(r)
  PROVE  SideInv'
<1>1. PhaseInv'
  BY DEF SideInv, Forward, Tells, Goto, links, PhaseInv
<1>2. FreshInv'
  BY DEF SideInv, Forward, Tells, Goto, FreshInv
<1>3. SettledInv'
  BY DEF SideInv, Forward, SettledInv
<1>4. ObeyInv'
  BY DEF IInv, TypeOK, SideInv, Forward, Tells, Goto, Live, links, Tree, ObeyInv,
         Untold, Has, PhaseInv, Sides, OwnedInv
<1> QED
  BY <1>1, <1>2, <1>3, <1>4 DEF SideInv

LEMMA PostKeepsSides ==
  ASSUME IInv, SideInv, NEW r \in Runtimes, NEW s \in Slots, Post(r, s)
  PROVE  SideInv'
<1>1. PhaseInv'
  BY DEF SideInv, Post, Tells, Goto, PhaseInv
<1>2. FreshInv'
  BY NamesAssumption
     DEF IInv, TypeOK, SideInv, Runtimes, Post, Accept, Tells, Goto, Tree, FreshInv,
         LockInv
<1>3. SettledInv'
  BY DEF IInv, TypeOK, SideInv, Post, Accept, SettledInv, Sides
<1>4. ObeyInv'
  BY DEF IInv, TypeOK, SideInv, Runtimes, Post, Accept, Tells, Goto, Tree, ObeyInv,
         Untold, Has, Sides, OwnedInv
<1> QED
  BY <1>1, <1>2, <1>3, <1>4 DEF SideInv

LEMMA FreeKeepsSides ==
  ASSUME IInv, SideInv, NEW r \in Runtimes, NEW s \in Slots,
         Finalize(r, s) \/ TeardownJoin(r, s)
  PROVE  SideInv'
<1>1. PhaseInv'
  BY DEF IInv, SideInv, Finalize, TeardownJoin, Free, Reset, Tree, FlagsInv, PhaseInv
<1>2. FreshInv'
  BY DEF SideInv, Runtimes, Finalize, TeardownJoin, Free, Reset, FreshInv
<1>3. SettledInv'
  BY DEF SideInv, Finalize, TeardownJoin, Free, Reset, SettledInv
<1>4. ObeyInv'
  BY DEF IInv, TypeOK, SideInv, Runtimes, Finalize, TeardownJoin, Free, Reset, Tree,
         FlagsInv, ObeyInv, Untold, Has, OwnedInv, LeafInv, CallInv
<1> QED
  BY <1>1, <1>2, <1>3, <1>4 DEF SideInv

LEMMA DestroyKeepsSides ==
  ASSUME IInv, SideInv, NEW r \in Runtimes, Destroy(r) PROVE SideInv'
<1>1. PhaseInv'
  BY DEF IInv, TypeOK, SideInv, Tree, FlagsInv, Destroy, Reset, PhaseInv
<1>2. FreshInv'
  BY DEF SideInv, Runtimes, Destroy, Reset, FreshInv
<1>3. SettledInv'
  BY DEF SideInv, Live, Destroy, Reset, SettledInv
<1>4. ObeyInv'
  BY NamesAssumption
     DEF IInv, TypeOK, SideInv, Runtimes, Live, Tree, FlagsInv, Destroy, Reset,
         ObeyInv, Untold, Has, OwnedInv, LeafInv, CallInv
<1> QED
  BY <1>1, <1>2, <1>3, <1>4 DEF SideInv

LEMMA ReturnKeepsSides ==
  ASSUME IInv, SideInv, NEW r \in Runtimes, RunReturns(r) \/ TeardownDone(r)
  PROVE  SideInv'
<1>1. PhaseInv'
  BY DEF IInv, TypeOK, SideInv, RunReturns, TeardownDone, Goto, links, life, PhaseInv
<1>2. FreshInv'
  BY DEF IInv, TypeOK, SideInv, Runtimes, RunReturns, TeardownDone, Goto, life,
         FreshInv
<1>3. SettledInv'
  <2>1. /\ UNCHANGED <<phase, want>>
        /\ \A t \in Runtimes : phase[t] \in Live => owed'[t] = owed[t]
    BY DEF IInv, TypeOK, RunReturns, TeardownDone, Live, life
  <2> QED
    BY <2>1 DEF SideInv, SettledInv
<1>4. ObeyInv'
  BY DEF IInv, TypeOK, SideInv, RunReturns, TeardownDone, Goto, links, life, ObeyInv,
         Untold, Has
<1> QED
  BY <1>1, <1>2, <1>3, <1>4 DEF SideInv

LEMMA EntersKeepsSides ==
  ASSUME IInv, SideInv, NEW s \in Slots, Enters(s)
  PROVE  SideInv'
<1>1. PhaseInv'
  BY DEF IInv, TypeOK, SideInv, Enters, Setup, Exit, Goto, links, life, PhaseInv
<1>2. FreshInv'
  BY DEF IInv, TypeOK, SideInv, Runtimes, Enters, Setup, Exit, Goto, life, FreshInv
<1>3. SettledInv'
  BY DEF SideInv, Enters, Setup, Exit, life, SettledInv
\* A thread that exits is not live any more.
<1>4. ObeyInv'
  <2>1. CASE Setup(s)
    BY <2>1 DEF IInv, TypeOK, SideInv, Setup, Goto, links, life, ObeyInv, Untold, Has
  <2>2. CASE Exit(s)
    <3>1. phase[s] \notin Live
      BY <2>2 DEF SideInv, PhaseInv, Runtimes, Exit, Live
    <3>2. /\ UNCHANGED <<args, req, life, threads>> /\ stray' = stray \ {s}
          /\ \A r \in Runtimes : pc'[r] = "post" <=> pc[r] = "post"
      BY <2>2 DEF IInv, TypeOK, Runtimes, Exit, Goto
    <3> QED
      BY <3>1, <3>2 DEF SideInv, life, ObeyInv, Untold, Has
  <2> QED
    BY <2>1, <2>2 DEF Enters
<1> QED
  BY <1>1, <1>2, <1>3, <1>4 DEF SideInv

\* No step of any runtime or thread breaks the four parts of SideInv.
LEMMA NextSides == IInv /\ SideInv /\ [Next]_vars => SideInv'
<1> SUFFICES ASSUME IInv, SideInv, [Next]_vars PROVE SideInv'
  OBVIOUS
<1>1. ASSUME NEW r \in Runtimes, Steps(r) PROVE SideInv'
  BY <1>1, StartKeepsSides, CallKeepsSides, DestroyKeepsSides, ReturnKeepsSides,
     PostKeepsSides, FreeKeepsSides
     DEF Steps
<1>2. ASSUME NEW r \in Runtimes, Lives(r) PROVE SideInv'
  BY <1>2, HandlerKeepsSides, BecomeKeepsSides, ForwardKeepsSides, ReturnKeepsSides
     DEF Lives
<1>3. ASSUME NEW r \in Runtimes, Chooses(r) PROVE SideInv'
  BY <1>3, BecomeKeepsSides, RequestKeepsSides, StartKeepsSides, CallKeepsSides,
     FreeKeepsSides
     DEF Chooses
<1>4. ASSUME NEW s \in Slots, Enters(s) PROVE SideInv'
  BY <1>4, EntersKeepsSides
<1>5. CASE UNCHANGED vars
  BY <1>5
     DEF vars, at, life, links, SideInv, PhaseInv, FreshInv, SettledInv, ObeyInv, Has,
         Untold
<1> QED
  BY <1>1, <1>2, <1>3, <1>4, <1>5 DEF Next

\* Everybody has run, answered and forwarded what was asked of them, and nobody was
\* told anything of their own.
Quiet ==
  /\ stray = {}
  /\ \A r \in Runtimes : pc[r] # "free" =>
       pc[r] = "run" /\ after[r] = "none" /\ phase[r] \in Live /\ owed[r] = {}

OneSide ==
  Quiet =>
    \A s \in Slots : pc[s] # "free" => (phase[s] = "active" <=> phase[Main] = "active")

\* SideInv is inductive next to IInv: what a thread was asked for, what it owes and
\* what its parent has still to forward fit together at every step
\* (bare_runtime__on_suspend(), __on_wakeup() and __on_resume() with the walk over
\* runtime->threads).
THEOREM SidesInvariant == Spec => [](IInv /\ SideInv)
<1>1. Init => IInv /\ SideInv
  BY InitHolds, InitSides
<1>2. IInv /\ SideInv /\ [Next]_vars => IInv' /\ SideInv'
  BY NextHolds, NextSides
<1> QED
  BY <1>1, <1>2, PTL DEF Spec

\* Once a runtime has forwarded a suspension or a resumption, each of its threads
\* was asked last for the side that the runtime is on itself, whatever was posted
\* meanwhile (bare_thread_suspend() .. bare_thread_resume()).
THEOREM AlwaysObedient == Spec => []Obedient
<1>1. IInv /\ SideInv => Obedient
  BY DEF SideInv, ObeyInv, Untold, Has, Obedient
<1> QED
  BY <1>1, SidesInvariant, PTL

\* So a suspension reaches threads at any depth: when everybody is at rest, and no
\* script told a thread of its own something, the whole tree of threads is on the
\* side that the main runtime is on.
THEOREM AllOnOneSide == Spec => []OneSide
<1>1. IInv /\ SideInv => OneSide
  <2> SUFFICES ASSUME IInv, SideInv, Quiet, NEW s \in Slots, pc[s] # "free",
                      ~(phase[s] = "active" <=> phase[Main] = "active")
               PROVE  FALSE
    BY DEF OneSide
  <2> DEFINE S == {t \in Slots : /\ pc[t] # "free"
                                 /\ ~(phase[t] = "active" <=> phase[Main] = "active")}
  <2>1. PICK t \in S, r \in Runtimes \ S : t \in Has(r)
    <3>1. S \in SUBSET Slots /\ S # {} /\ \A t \in S : pc[t] # "free"
      OBVIOUS
    <3> HIDE DEF S
    <3> QED
      BY <3>1 DEF IInv, RootedInv
  <2>2. pc[r] # "free" /\ pc[r] # "done"
    <3>1. Has(r) # {}
      BY <2>1
    <3> QED
      BY <2>1, <3>1 DEF IInv, Tree, CallInv, LeafInv, Has, Quiet
  <2>3. pc[r] = "run" /\ phase[r] \in Live /\ after[r] = "none"
    BY <2>2 DEF Quiet
  <2>4. pc[t] = "run" /\ phase[t] \in Live /\ owed[t] = {} /\ t \in Runtimes
    BY <2>1 DEF Quiet, Runtimes
  <2>5. phase[r] = "active" <=> phase[Main] = "active"
    BY <2>1, <2>2 DEF Runtimes
  <2>6. t \notin stray
    BY DEF Quiet
  <2>7. want[t] = "run" <=> phase[r] = "active"
    BY <2>1, <2>3, <2>4, <2>6 DEF SideInv, ObeyInv, Untold
  <2>8. phase[t] = "active" <=> want[t] = "run"
    BY <2>4 DEF SideInv, SettledInv, Sides
  <2> QED
    BY <2>1, <2>5, <2>7, <2>8
<1> QED
  BY <1>1, SidesInvariant, PTL

----------------------------------------------------------------------------
(* The main runtime and its promise *)

LEMMA MainAlone ==
  ASSUME phase'[Main] = phase[Main], want'[Main] = want[Main], owed'[Main] = owed[Main]
  PROVE  UNCHANGED Promise!vars
BY DEF Promise!vars

\* What SideInv says of the main runtime.
MainSettled ==
  /\ phase[Main] \in Live =>
       \/ Sides \subseteq owed[Main]
       \/ owed[Main] \intersect Sides = {"suspend"} /\ want[Main] = "hold"
       \/ owed[Main] \intersect Sides = {"resume"} /\ want[Main] = "run"
       \/ /\ owed[Main] \intersect Sides = {}
          /\ phase[Main] = "active" <=> want[Main] = "run"
  /\ pc[Main] = "ended" => phase[Main] = "exiting"

LEMMA MainIsSettled == ASSUME SideInv PROVE MainSettled
BY DEF SideInv, SettledInv, PhaseInv, MainSettled, Runtimes

LEMMA AcceptPromise ==
  ASSUME TypeOK, NEW q \in Requests, Accept(Main, q), UNCHANGED phase
  PROVE  [Promise!Next]_(Promise!vars)
<1>1. Main \in Runtimes /\ want \in [Runtimes -> {"run", "hold"}]
      /\ owed \in [Runtimes -> SUBSET Requests]
  BY DEF TypeOK, Runtimes
<1>2. CASE phase[Main] \in Live \union {"terminated"}
  <2>1. owed'[Main] = owed[Main] \union {q}
    BY <1>1, <1>2 DEF Accept
  <2>2. want'[Main] = IF q = "suspend" THEN "hold"
                      ELSE IF q = "resume" THEN "run" ELSE want[Main]
    BY <1>1, <1>2 DEF Accept
  <2>3. Promise!Request
    BY <1>1, <2>1, <2>2 DEF Promise!Request
  <2> QED
    BY <1>2, <2>3 DEF Promise!Next, Live
<1>3. CASE phase[Main] \notin Live \union {"terminated"}
  BY <1>3, MainAlone DEF Accept
<1> QED
  BY <1>2, <1>3

LEMMA LifePromise ==
  ASSUME TypeOK, SideInv, LifeStep(Main)
  PROVE  [Promise!Next]_(Promise!vars)
<1>1. /\ Main \in Runtimes /\ phase \in [Runtimes -> Phases]
      /\ want \in [Runtimes -> {"run", "hold"}]
      /\ owed \in [Runtimes -> SUBSET Requests]
  BY DEF TypeOK, Runtimes
<1> USE MainIsSettled DEF Sides
<1>2. CASE OnSuspend(Main)
  BY <1>1, <1>2
     DEF OnSuspend, Answers, Handle, at, MainSettled, Live, Promise!Next, Promise!Answer,
         Promise!Climbs, Promise!Settled, Promise!Ended, Promise!vars
<1>3. CASE OnWakeup(Main)
  BY <1>1, <1>3
     DEF OnWakeup, Answers, Handle, at, MainSettled, Live, Promise!Next, Promise!Answer,
         Promise!Climbs, Promise!Settled, Promise!Ended, Promise!vars
<1>4. CASE OnResume(Main)
  BY <1>1, <1>4
     DEF OnResume, Answers, Handle, at, MainSettled, Live, Promise!Next, Promise!Answer,
         Promise!Climbs, Promise!Settled, Promise!Ended, Promise!vars
<1>5. CASE OnTerminate(Main)
  BY <1>1, <1>5
     DEF OnTerminate, Answers, at, MainSettled, Live, Promise!Next, Promise!Kill
<1>6. CASE Kill(Main)
  BY <1>1, <1>6 DEF Kill, Become, at, MainSettled, Live, Promise!Next, Promise!Kill
<1>7. CASE Rest(Main)
  BY <1>1, <1>7 DEF Rest, Become, at, MainSettled, Live, Promise!Next, Promise!Rest
<1>8. CASE Leave(Main) \/ Finish(Main)
  BY <1>1, <1>8
     DEF Leave, Finish, Become, at, MainSettled, Live, Promise!Next, Promise!Leave
<1>9. ASSUME NEW q \in Requests, Request(Main, q) PROVE [Promise!Next]_(Promise!vars)
  BY <1>9, AcceptPromise DEF Request, at
<1> QED
  BY <1>2, <1>3, <1>4, <1>5, <1>6, <1>7, <1>8, <1>9 DEF LifeStep

\* What the other runtimes do, and what the main one does to them.
LEMMA TreePromise ==
  ASSUME IInv, SideInv, NEW r \in Runtimes,
         \/ r # Main /\ LifeStep(r)
         \/ Link(r) \/ Meet(r) \/ JoinReturns(r) \/ TeardownDone(r) \/ Forward(r)
         \/ r # Main /\ (RunReturns(r) \/ Destroy(r))
         \/ \E s \in Slots :
              \/ PostLock(r, s) \/ Post(r, s) \/ TeardownJoin(r, s) \/ Create(r, s)
              \/ Join(r, s) \/ Finalize(r, s) \/ \E q \in Requests : Tell(r, s, q)
  PROVE  UNCHANGED Promise!vars
<1> USE NamesAssumption, MainAlone DEF IInv, TypeOK, Runtimes
<1>1. CASE r # Main /\ LifeStep(r)
  <2>1. UNCHANGED pc
    BY <1>1, LifeStepIsLife DEF at
  <2>2. CASE OnSuspend(r) \/ OnWakeup(r) \/ OnResume(r) \/ OnTerminate(r)
    BY <1>1, <2>1, <2>2 DEF OnSuspend, OnWakeup, OnResume, OnTerminate, Handle
  <2>3. CASE Rest(r) \/ Leave(r) \/ Kill(r) \/ Finish(r)
    BY <1>1, <2>1, <2>3 DEF Rest, Leave, Kill, Finish, Become
  <2>4. ASSUME NEW q \in Requests, Request(r, q)
        PROVE  UNCHANGED Promise!vars
    <3>1. want'[Main] = want[Main] /\ owed'[Main] = owed[Main]
      BY <1>1, <2>4 DEF Request, Accept
    <3> QED
      BY <2>1, <2>4, <3>1 DEF Request
  <2> QED
    BY <1>1, <2>2, <2>3, <2>4 DEF LifeStep
<1>2. CASE Link(r) \/ Meet(r) \/ JoinReturns(r) \/ TeardownDone(r)
  BY <1>2 DEF Link, Meet, JoinReturns, TeardownDone, Goto, life
<1>3. CASE Forward(r)
  <2>1. UNCHANGED <<phase, want, owed>>
    BY <1>3 DEF Forward
  <2> QED
    BY <1>3, <2>1, ForwardCalls
<1>4. CASE r # Main /\ RunReturns(r)
  BY <1>4 DEF RunReturns
<1>5. CASE r # Main /\ Destroy(r)
  BY <1>5 DEF Destroy, Reset
<1>6. ASSUME NEW s \in Slots, PostLock(r, s) PROVE UNCHANGED Promise!vars
  BY <1>6 DEF PostLock, Tells, Goto, at, life
<1>7. ASSUME NEW s \in Slots, Post(r, s) PROVE UNCHANGED Promise!vars
  BY <1>7 DEF Post, Accept, Tells, Goto
<1>8. ASSUME NEW s \in Slots, TeardownJoin(r, s) \/ Finalize(r, s)
      PROVE  UNCHANGED Promise!vars
  BY <1>8 DEF TeardownJoin, Finalize, Free, Reset
<1>9. ASSUME NEW s \in Slots, Create(r, s) \/ Join(r, s)
      PROVE  UNCHANGED Promise!vars
  BY <1>9 DEF Create, Join, Goto, life
<1>10. ASSUME NEW s \in Slots, NEW q \in Requests, Tell(r, s, q)
       PROVE  UNCHANGED Promise!vars
  BY <1>10 DEF Tell, Tells, Goto, life
<1> QED
  BY <1>1, <1>2, <1>3, <1>4, <1>5, <1>6, <1>7, <1>8, <1>9, <1>10

LEMMA EndPromise ==
  ASSUME TypeOK, SideInv, RunReturns(Main) \/ Destroy(Main)
  PROVE  [Promise!Next]_(Promise!vars)
<1> USE NamesAssumption DEF TypeOK, Runtimes
<1>1. CASE RunReturns(Main)
  <2>1. /\ phase[Main] = "exiting" /\ UNCHANGED <<phase, want>>
        /\ owed'[Main] = {}
    BY <1>1 DEF RunReturns
  <2>2. CASE owed[Main] = {}
    BY <2>1, <2>2, MainAlone
  <2>3. CASE owed[Main] # {}
    BY <2>1, <2>3 DEF Promise!Next, Promise!Answer, Promise!Climbs,
                      Promise!Settled, Promise!Ended
  <2> QED
    BY <2>2, <2>3
<1>2. CASE Destroy(Main)
  <2>1. /\ pc[Main] = "ended" /\ pc'[Main] = "closed"
        /\ phase'[Main] = "exited" /\ want'[Main] = want[Main] /\ owed'[Main] = owed[Main]
    BY <1>2 DEF Destroy, Reset
  <2> QED
    BY <2>1, MainIsSettled DEF MainSettled, Promise!Next, Promise!TearDown
<1> QED
  BY <1>1, <1>2

LEMMA SlotPromise ==
  ASSUME TypeOK, SideInv, NEW s \in Slots, Enters(s)
  PROVE  UNCHANGED Promise!vars
BY NamesAssumption, MainAlone DEF Enters, Setup, Exit, Goto, life, TypeOK, Runtimes

LEMMA NextPromise ==
  ASSUME IInv, SideInv, [Next]_vars
  PROVE  [Promise!Next]_(Promise!vars)
<1> DEFINE Keeps == [Promise!Next]_(Promise!vars)
<1>1. ASSUME NEW r \in Runtimes, r # Main, LifeStep(r) PROVE Keeps
  BY <1>1, TreePromise
<1>2. ASSUME LifeStep(Main) PROVE Keeps
  BY <1>2, LifePromise DEF IInv
<1>3. ASSUME NEW r \in Runtimes, RunReturns(r) \/ Destroy(r) PROVE Keeps
  BY <1>3, TreePromise, EndPromise DEF IInv
<1>4. ASSUME NEW r \in Runtimes, Steps(r) PROVE Keeps
  BY <1>3, <1>4, TreePromise DEF Steps
<1>5. ASSUME NEW r \in Runtimes, Lives(r) PROVE Keeps
  BY <1>1, <1>2, <1>3, <1>5, TreePromise DEF Lives, LifeStep
<1>6. ASSUME NEW r \in Runtimes, Chooses(r) PROVE Keeps
  BY <1>1, <1>2, <1>6, TreePromise DEF Chooses, LifeStep
<1>7. ASSUME NEW s \in Slots, Enters(s) PROVE Keeps
  BY <1>7, SlotPromise DEF IInv
<1>8. CASE UNCHANGED vars
  BY <1>8, MainAlone DEF IInv, vars, at, life
<1> QED
  BY <1>4, <1>5, <1>6, <1>7, <1>8 DEF Next

\* The main runtime keeps the promise of Lifecycle, whatever its threads do.
THEOREM MainKeepsPromise == Spec => KeepsPromise
<1>1. Init => Promise!Init
  BY DEF Init, Promise!Init, Runtimes
<1>2. IInv /\ SideInv /\ [Next]_vars => [Promise!Next]_(Promise!vars)
  BY NextPromise
<1> QED
  BY <1>1, <1>2, SidesInvariant, PTL DEF Spec, KeepsPromise, Promise!Spec
=============================================================================
