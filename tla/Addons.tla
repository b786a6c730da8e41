------------------------------ MODULE Addons ------------------------------
(***************************************************************************)
(* The registry of native addons (src/src/addon.c), shared by every thread *)
(* of every Bare process in the operating system process.                  *)
(*                                                                         *)
(* Three locks meet here: bare_addon__loading ("loading"), which makes     *)
(* loads, unlinking and sealing exclusive; bare_addon__lock ("lock"),      *)
(* which guards the list and the seals; and the lock of the dynamic loader *)
(* ("loader"), which is held while libraries are mapped and unmapped and   *)
(* under which their constructors call back into the registry.  "pc" says  *)
(* what a thread is doing; a step that needs locks waits for them one at a *)
(* time, in the order of the code.                                         *)
(*                                                                         *)
(* The dynamic loader is outside the repository and is modelled by what    *)
(* the code relies on: a library is mapped while it, or a library that     *)
(* needs it, has been opened more often than closed, and constructors run  *)
(* only when a library is mapped for the first time.                       *)
(*                                                                         *)
(* A library stands for its specifier, its handle and the name its addon   *)
(* registers.  The list is a set: what depends on its order, which of      *)
(* several addons of the same name a lookup prefers, is left open.         *)
(***************************************************************************)
EXTENDS Naturals, FiniteSets

CONSTANTS
  Processes, Threads,
  Home,           \* the process that each thread belongs to
  Mains,          \* the main thread of each process
  Libraries,
  Constructors,   \* the libraries that register from a constructor
  Needs,          \* the libraries that each library depends on
  Linked,         \* addons in libraries that are opened without Bare
  NoThread,       \* the owner of a lock that is free
  NoLibrary       \* what a thread loads that loads nothing

ASSUME HomeAssumption ==
  /\ Home \in [Threads -> Processes]
  /\ Mains \subseteq Threads
  /\ \A p \in Processes : \E t \in Mains : Home[t] = p
  /\ \A t, u \in Mains : Home[t] = Home[u] => t = u
ASSUME LibraryAssumption ==
  /\ Constructors \subseteq Libraries
  /\ Needs \in [Libraries -> SUBSET Libraries]
ASSUME NoneAssumption == NoThread \notin Threads /\ NoLibrary \notin Libraries

VARIABLES
  pc,          \* what each thread is doing
  arg,         \* the library that it is loading
  loading,     \* the owner of bare_addon__loading
  lock,        \* the owner of bare_addon__lock
  loader,      \* the owner of the lock of the dynamic loader
  dynamic,     \* bare_addon__dynamic
  static,      \* bare_addon__static
  staging,     \* bare_addon__staging of each thread
  pending,     \* is bare_addon__pending_owner set on the thread?
  unloading,   \* what the teardown on each main thread has left to unload
  sealed,      \* the processes with process->sealed
  opened       \* external: opens less closes of each library

locks == <<loading, lock, loader>>
local == <<pc, arg, staging, pending, unloading>>
vars  == <<local, locks, dynamic, static, sealed, opened>>

Points == {"run", "load", "dlopen", "failed", "resident", "publish", "close",
           "seal", "foreign", "ended", "unlink", "unload", "gone"}

Addon == [owner : Processes, lib : Libraries, name : Libraries \union Linked,
          unloads : BOOLEAN]
Owners == Threads \union {NoThread}

TypeOK ==
  /\ pc \in [Threads -> Points]
  /\ arg \in [Threads -> Libraries \union {NoLibrary}]
  /\ loading \in Owners /\ lock \in Owners /\ loader \in Owners
  /\ dynamic \in SUBSET Addon
  /\ static \in SUBSET Linked
  /\ staging \in [Threads -> SUBSET Addon]
  /\ pending \in [Threads -> BOOLEAN]
  /\ unloading \in [Threads -> SUBSET Addon]
  /\ sealed \in SUBSET Processes
  /\ opened \in [Libraries -> Nat]

Init ==
  /\ pc = [t \in Threads |-> IF t \in Mains THEN "run" ELSE "ended"]
  /\ arg = [t \in Threads |-> NoLibrary]
  /\ loading = NoThread /\ lock = NoThread /\ loader = NoThread
  /\ dynamic = {} /\ static = {}
  /\ staging = [t \in Threads |-> {}]
  /\ pending = [t \in Threads |-> FALSE]
  /\ unloading = [t \in Threads |-> {}]
  /\ sealed = {}
  /\ opened = [l \in Libraries |-> 0]

Goto(t, p) == pc' = [pc EXCEPT ![t] = p]

\* Nothing but the start of a call, or the end of a thread.
Move(t, from, to) ==
  /\ pc[t] = from
  /\ Goto(t, to)
  /\ UNCHANGED <<arg, staging, pending, unloading, locks, dynamic, static,
                 sealed, opened>>

\* Back to JavaScript.
Return(t)  == Goto(t, "run") /\ arg' = [arg EXCEPT ![t] = NoLibrary]

----------------------------------------------------------------------------
(* The locks *)

TakeLoading(t) ==
  /\ pc[t] \in {"load", "seal", "unlink"}
  /\ loading = NoThread
  /\ loading' = t
  /\ UNCHANGED <<local, lock, loader, dynamic, static, sealed, opened>>

\* Only ever the innermost lock; its sections make no calls that block.
TakeLock(t) ==
  /\ pc[t] \in {"resident", "publish"} \/ loading = t
  /\ pc[t] \in {"load", "seal", "unlink", "resident", "publish"}
  /\ lock = NoThread
  /\ lock' = t
  /\ UNCHANGED <<local, loading, loader, dynamic, static, sealed, opened>>

TakeLoader(t) ==
  /\ pc[t] \in {"dlopen", "close", "foreign"}
       \/ (pc[t] = "unload" /\ \E a \in unloading[t] : a.unloads)
  /\ loader = NoThread
  /\ loader' = t
  /\ UNCHANGED <<local, loading, lock, dynamic, static, sealed, opened>>

\* A constructor or destructor may look an addon up: it needs the lock, which
\* is recursive.
MayLookUp(t) == lock \in {NoThread, t}

----------------------------------------------------------------------------
(* bare_module_register() *)

\* Staged on the thread while a load is in flight on it, in the name of that
\* load; statically linked otherwise.
Register(t, ls) ==
  IF pending[t]
    THEN /\ staging' = [staging EXCEPT ![t] = @ \union
              {[owner |-> Home[t], lib |-> arg[t], name |-> l, unloads |-> FALSE]
                 : l \in ls}]
         /\ UNCHANGED static
    ELSE static' = static \union ls /\ UNCHANGED staging

----------------------------------------------------------------------------
(* bare_addon_load_dynamic() *)

Load(t, l) ==
  /\ pc[t] = "run"
  /\ arg' = [arg EXCEPT ![t] = l]
  /\ Goto(t, "load")
  /\ UNCHANGED <<staging, pending, unloading, locks, dynamic, static, sealed,
                 opened>>

\* The first addon of a list with the handle of l: the list has those that
\* registered last first, hence a library before those that it depends on.
First(as, l) ==
  LET same == {a \in as : a.lib = l}
      own  == {a \in same : a.name = l}
  IN IF own # {} THEN own ELSE same

Loaded(p, l) == \E a \in dynamic : a.owner = p /\ a.lib = l

\* Already loaded, or refused by the seal.
LoadReturns(t) ==
  /\ pc[t] = "load" /\ loading = t /\ lock = t
  /\ Loaded(Home[t], arg[t]) \/ Home[t] \in sealed
  /\ lock' = NoThread /\ loading' = NoThread
  /\ Return(t)
  /\ UNCHANGED <<staging, pending, unloading, loader, dynamic, static,
                 sealed, opened>>

\* Variants: a lock is let go too early, or kept across the load.
LoadProceedsReleases(t) ==
  /\ pc[t] = "load" /\ loading = t /\ lock = t
  /\ ~Loaded(Home[t], arg[t]) /\ Home[t] \notin sealed
  /\ lock' = NoThread /\ loading' = NoThread
  /\ pending' = [pending EXCEPT ![t] = TRUE]
  /\ Goto(t, "dlopen")
  /\ UNCHANGED <<arg, staging, unloading, loader, dynamic, static, sealed,
                 opened>>

LoadProceedsLocked(t) ==
  /\ pc[t] = "load" /\ loading = t /\ lock = t
  /\ ~Loaded(Home[t], arg[t]) /\ Home[t] \notin sealed
  /\ pending' = [pending EXCEPT ![t] = TRUE]
  /\ Goto(t, "dlopen")
  /\ UNCHANGED <<arg, staging, unloading, locks, dynamic, static, sealed,
                 opened>>

LoadProceeds(t) ==
  /\ pc[t] = "load" /\ loading = t /\ lock = t
  /\ ~Loaded(Home[t], arg[t]) /\ Home[t] \notin sealed
  /\ lock' = NoThread
  /\ pending' = [pending EXCEPT ![t] = TRUE]
  /\ Goto(t, "dlopen")
  /\ UNCHANGED <<arg, staging, unloading, loading, loader, dynamic, static,
                 sealed, opened>>

Mapped(l) == \E k \in Libraries : opened[k] > 0 /\ (k = l \/ l \in Needs[k])

\* The libraries whose constructors dlopen() runs: those that it maps.
Fresh(t) ==
  {l \in Constructors \intersect ({arg[t]} \union Needs[arg[t]]) : ~Mapped(l)}

\* With nothing staged by a constructor the addon is registered from its known
\* symbol, if it has one.
Dlopen(t) ==
  LET names == IF Fresh(t) = {} THEN {arg[t]} \ Constructors ELSE Fresh(t)
  IN /\ pc[t] = "dlopen" /\ loader = t /\ MayLookUp(t)
     /\ opened' = [opened EXCEPT ![arg[t]] = @ + 1]
     /\ Register(t, names)
     /\ loader' = NoThread
     /\ Goto(t, IF names = {} THEN "resident" ELSE "publish")
     /\ UNCHANGED <<arg, pending, unloading, loading, lock, dynamic, sealed>>

\* What a load leaves behind on its thread, and the lock it gives up last.
LoadEnds(t) ==
  /\ staging' = [staging EXCEPT ![t] = {}]
  /\ pending' = [pending EXCEPT ![t] = FALSE]
  /\ loading' = NoThread

\* dlopen() may fail after constructors have run and staged their addons; what
\* it had mapped is unmapped again.
DlopenFails(t) ==
  /\ pc[t] = "dlopen" /\ loader = t /\ MayLookUp(t)
  /\ \E ls \in SUBSET Fresh(t) : Register(t, ls)
  /\ loader' = NoThread
  /\ Goto(t, "failed")
  /\ UNCHANGED <<arg, pending, unloading, loading, lock, dynamic, sealed, opened>>

\* Variant: what was staged before the load failed is not freed.
LoadFailsStaged(t) ==
  /\ pc[t] = "failed"
  /\ pending' = [pending EXCEPT ![t] = FALSE]
  /\ loading' = NoThread
  /\ Return(t)
  /\ UNCHANGED <<staging, unloading, lock, loader, dynamic, static, sealed, opened>>

LoadFails(t) ==
  /\ pc[t] = "failed"
  /\ LoadEnds(t)
  /\ Return(t)
  /\ UNCHANGED <<unloading, lock, loader, dynamic, static, sealed, opened>>

\* The constructor has run before: copy the registration that it made then.
ResidentFound(t) ==
  /\ pc[t] = "resident" /\ lock = t
  /\ \E a \in First(dynamic, arg[t]) : Register(t, {a.name})
  /\ lock' = NoThread
  /\ Goto(t, "publish")
  /\ UNCHANGED <<arg, pending, unloading, loading, loader, dynamic, sealed,
                 opened>>

ResidentMissing(t) ==
  /\ pc[t] = "resident" /\ lock = t
  /\ \A a \in dynamic : a.lib # arg[t]
  /\ LoadEnds(t)
  /\ lock' = NoThread
  /\ Goto(t, "close")
  /\ UNCHANGED <<arg, unloading, loader, dynamic, static, sealed, opened>>

\* ... and if there is none, close the library again.
Close(t) ==
  /\ pc[t] = "close" /\ loader = t /\ MayLookUp(t)
  /\ opened' = [opened EXCEPT ![arg[t]] = @ - 1]
  /\ loader' = NoThread
  /\ Return(t)
  /\ UNCHANGED <<staging, pending, unloading, loading, lock, dynamic,
                 static, sealed>>

\* Variant: every addon of the load releases its reference.
PublishAllUnload(t) ==
  /\ pc[t] = "publish" /\ lock = t
  /\ dynamic' = dynamic \union {[a EXCEPT !.unloads = TRUE] : a \in staging[t]}
  /\ LoadEnds(t)
  /\ lock' = NoThread
  /\ Return(t)
  /\ UNCHANGED <<unloading, loader, static, sealed, opened>>

\* The first of the staged addons is the one that is returned, and that will
\* release the reference of the load.
Publish(t) ==
  /\ pc[t] = "publish" /\ lock = t
  /\ \E head \in First(staging[t], arg[t]) :
       dynamic' = dynamic \union (staging[t] \ {head})
                          \union {[head EXCEPT !.unloads = TRUE]}
  /\ LoadEnds(t)
  /\ lock' = NoThread
  /\ Return(t)
  /\ UNCHANGED <<unloading, loader, static, sealed, opened>>

----------------------------------------------------------------------------
(* bare_addon_seal(), and libraries that load without Bare *)

SealCall(t) == Move(t, "run", "seal")

\* Variant: the seal does not wait for a load in flight.
SealUnlocked(t) ==
  /\ pc[t] = "seal" /\ loading # t
  /\ sealed' = sealed \union {Home[t]}
  /\ Goto(t, "run")
  /\ UNCHANGED <<arg, staging, pending, unloading, locks, dynamic, static,
                 opened>>

Seal(t) ==
  /\ pc[t] = "seal" /\ loading = t /\ lock = t
  /\ sealed' = sealed \union {Home[t]}
  /\ lock' = NoThread /\ loading' = NoThread
  /\ Goto(t, "run")
  /\ UNCHANGED <<arg, staging, pending, unloading, loader, dynamic, static,
                 opened>>

\* The embedder, or an addon, opens a library of its own that has an addon
\* linked into it.  It registers from a constructor, outside any load of Bare.
ForeignCall(t) == Linked # {} /\ Move(t, "run", "foreign")

Foreign(t, n) ==
  /\ pc[t] = "foreign" /\ loader = t /\ MayLookUp(t)
  /\ Register(t, {n})
  /\ loader' = NoThread
  /\ Goto(t, "run")
  /\ UNCHANGED <<arg, pending, unloading, loading, lock, dynamic, sealed,
                 opened>>

----------------------------------------------------------------------------
(* bare_addon_teardown(), on the main thread once the others are joined *)

MainOf(p) == CHOOSE t \in Mains : Home[t] = p

ThreadStart(t) ==
  t \notin Mains /\ pc[MainOf(Home[t])] = "run" /\ Move(t, "ended", "run")

ThreadEnd(t) == t \notin Mains /\ Move(t, "run", "ended")

Teardown(t) ==
  /\ t \in Mains
  /\ \A u \in Threads \ {t} : Home[u] = Home[t] => pc[u] = "ended"
  /\ Move(t, "run", "unlink")

\* Variant: the owner is not looked at.
UnlinkAll(t) ==
  /\ pc[t] = "unlink" /\ loading = t /\ lock = t
  /\ unloading' = [unloading EXCEPT ![t] = dynamic]
  /\ dynamic' = {}
  /\ lock' = NoThread /\ loading' = NoThread
  /\ Goto(t, "unload")
  /\ UNCHANGED <<arg, staging, pending, loader, static, sealed, opened>>

Unlink(t) ==
  LET own == {a \in dynamic : a.owner = Home[t]}
  IN /\ pc[t] = "unlink" /\ loading = t /\ lock = t
     /\ unloading' = [unloading EXCEPT ![t] = own]
     /\ dynamic' = dynamic \ own
     /\ lock' = NoThread /\ loading' = NoThread
     /\ Goto(t, "unload")
     /\ UNCHANGED <<arg, staging, pending, loader, static, sealed, opened>>

\* Variant: the library is closed for every addon.
UnloadOneAlways(t) ==
  /\ pc[t] = "unload" /\ loader = t
  /\ \E a \in unloading[t] :
       /\ unloading' = [unloading EXCEPT ![t] = @ \ {a}]
       /\ opened' = [opened EXCEPT ![a.lib] = @ - 1]
  /\ loader' = NoThread
  /\ UNCHANGED <<pc, arg, staging, pending, loading, lock, dynamic, static,
                 sealed>>

UnloadOne(t) ==
  /\ pc[t] = "unload"
  /\ \E a \in unloading[t] :
       /\ unloading' = [unloading EXCEPT ![t] = @ \ {a}]
       /\ IF a.unloads
            THEN /\ loader = t /\ MayLookUp(t)
                 /\ loader' = NoThread
                 /\ opened' = [opened EXCEPT ![a.lib] = @ - 1]
            ELSE loader # t /\ UNCHANGED <<loader, opened>>
  /\ UNCHANGED <<pc, arg, staging, pending, loading, lock, dynamic, static,
                 sealed>>

\* The process is freed, and its seal with it ...
TeardownDone(t) ==
  /\ pc[t] = "unload" /\ unloading[t] = {}
  /\ sealed' = sealed \ {Home[t]}
  /\ Goto(t, "gone")
  /\ UNCHANGED <<arg, staging, pending, unloading, locks, dynamic, static,
                 opened>>

\* ... and bare_setup() may start another in its place.
Setup(t) == Move(t, "gone", "run")

----------------------------------------------------------------------------
Loading(t) ==
  \/ LoadReturns(t) \/ LoadProceeds(t) \/ Dlopen(t) \/ DlopenFails(t) \/ LoadFails(t)
  \/ ResidentFound(t) \/ ResidentMissing(t) \/ Close(t) \/ Publish(t)

Busy(t) == \/ Loading(t) \/ Seal(t) \/ \E n \in Linked : Foreign(t, n)
           \/ Unlink(t) \/ UnloadOne(t) \/ TeardownDone(t)

Take(t) == TakeLoading(t) \/ TakeLock(t) \/ TakeLoader(t)

Start(t) == \/ SealCall(t) \/ ForeignCall(t) \/ \E l \in Libraries : Load(t, l)
            \/ ThreadStart(t) \/ ThreadEnd(t) \/ Teardown(t) \/ Setup(t)

Next == \E t \in Threads : Busy(t) \/ Take(t) \/ Start(t)

Spec == Init /\ [][Next]_vars

(***************************************************************************)
(* Fairness.  A thread in a call keeps executing: it works or takes its    *)
(* next lock, never a choice of the two.  The locks are not fair, but a    *)
(* thread that finds one free again and again gets it in the end, also     *)
(* within a constructor or destructor (MayLookUp).  Nothing is assumed of  *)
(* which calls are made.                                                   *)
(***************************************************************************)
Fairness == \A t \in Threads : SF_vars(Busy(t) \/ Take(t))

LiveSpec == Spec /\ Fairness

----------------------------------------------------------------------------
(* Properties *)

Opened(t) == pc[t] \in {"resident", "publish", "close"}

\* Every reference that a load takes is released once and by whoever answers
\* for it: a load in flight, or exactly one of the addons that it published.
\* None leaks when a load fails, and none is released twice however many
\* addons registered against it (types.h, "unloads").
HandlesBalanced ==
  \A l \in Libraries :
    opened[l] = Cardinality({a \in dynamic \union UNION {unloading[t] : t \in Threads} :
                               a.lib = l /\ a.unloads})
                + Cardinality({t \in Threads : Opened(t) /\ arg[t] = l})

\* An addon on the list is backed by a mapped library, whichever processes came
\* and went: the library that bare_module_find() returns stays loaded for as
\* long as the process that loaded it (module.h).
NeverUnmapped == \A a \in dynamic : opened[a.lib] > 0 /\ Mapped(a.name)

\* A load that has passed the lookup is the only one in flight, and what it is
\* loading for its process is not on the list yet: no library is loaded twice
\* by one process.
LoadedOnce ==
  \A t \in Threads : pc[t] = "dlopen" \/ pending[t] =>
    loading = t /\ ~Loaded(Home[t], arg[t])

\* "Every load leaves the thread with nothing staged" (addon.c), published or
\* failed with its constructors half done, and no registration outside a load is
\* attributed to one.
NothingLeftStaged ==
  \A t \in Threads : pc[t] \notin {"dlopen", "failed", "resident", "publish"} =>
    staging[t] = {} /\ ~pending[t]

\* "Once sealed, the process may not load any further dynamic addons on any of
\* its threads, now or in the future" (bare.h, bare_seal()): not even one whose
\* load was in flight when the seal was asked for.
KeepsSealed ==
  \A p \in Processes : p \in sealed =>
    {a \in dynamic' : a.owner = p} \subseteq {a \in dynamic : a.owner = p}

SealHolds == [][KeepsSealed]_vars

\* Every step of the registry is a step of AddonStore or changes nothing there.
Store == INSTANCE AddonStore WITH
  loaded <- [p \in Processes |-> {l \in Libraries : Loaded(p, l)}],
  frozen <- sealed

ImplementsStore == Store!Spec

\* A load returns, with an addon or an error, whatever the other threads load,
\* seal and unload: the three locks are never taken against each other.
LoadsReturn == \A t \in Threads : pc[t] = "load" ~> pc[t] = "run"

(* What a comment says and the code does not do *)

\* "... so that an addon can't be unlinked while another thread is loading the
\* same library and is about to look it up to recover its registration."
RegistrationRecovered ==
  \A t \in Threads : pc[t] = "resident" => First(dynamic, arg[t]) # {}
=============================================================================
