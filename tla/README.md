# A verification development for Bare

[Bare](../src/README.md) is a small JavaScript runtime that is embedded in
native programs. An embedder sets up a *process*, loads scripts into it, runs
its event loop, and suspends, resumes or terminates it from any thread; addons
written in C are loaded on demand, and one operating system process may hold any
number of Bare processes. This directory holds TLA+ models of the parts of Bare
that are concurrent or keep state across calls, the TLC configurations that
check them on small instances, and TLAPS proofs of what matters most for
instances of any size.

`tlc -config X.cfg MCModule` runs a check and `tlapm Module.tla` the proofs of a
module; `PROJECT.json` lists the runs, the mutants, the source lines behind every
definition, the findings, the hazards and the theorems.

## 1. Inventory

| Component | Source | State | Operations |
| --- | --- | --- | --- |
| Runtime lifecycle | `src/runtime.c`, `src/bare.c`, `src/bare.js`, `src/types.h` | `runtime->state`, the mailbox (`transitions`, `closed`, under `runtime->lock`), the async handle `signal` and whether it is referenced, the timer `timeout` | `bare_suspend/wakeup/resume/terminate` (any thread), `Bare.suspend/wakeup/idle/resume/exit` (JavaScript), `on_suspend/idle/wakeup/resume/terminate/signal/timeout`, `bare_run`, `bare_poll`, `bare_exit`, `bare_teardown` |
| Addon registry | `src/addon.c` | the lists `bare_addon__dynamic` and `__static`, the thread-local `__staging` and `__pending_owner`, `process->sealed`, two locks, the handles of the dynamic loader | `bare_addon_load_dynamic`, `bare_module_register`, `bare_module_find`, `bare_addon_seal`, `bare_addon_teardown` |
| Context registry and attachment | `src/context.c`, `src/addon.c`, `src/runtime.c` | `process->context.entries` and its lock, the thread-local `bare_addon__current` | `bare_context_set/get`, `bare_seal`, `bare_attach/detach`, `bare_context_teardown` |
| Threads | `src/thread.c`, `src/thread.js` | the list of threads of a runtime, `thread->lock`, `exited`, `joined`, a barrier | create, suspend, wakeup, resume, terminate, join, finalizer, joining teardown |
| Embedding API | `src/bare.c`, `include/bare.h` | `bare_t` | delegates to the components above; options and callbacks |
| Bootstrap and the `Bare` object | `src/bare.js` | the addon cache, the `exiting` flag, listeners | `Bare.*`, `on*` hooks |
| Addon API in JavaScript | `src/addon.js` | a cache local to a thread | resolve, load, unload |
| Module protocol, filesystem bindings | `src/protocol.js`, parts of `src/runtime.c` | the file that is open and how much of it was read; the frames of a listing | resolve, exists, read, list: synchronous calls, each of several steps on a disk that others change |
| Setup and binding plumbing | parts of `src/runtime.c` | none of its own | conversions, exports |
| Command line | `bin/bare.c`, `bin/bare.js` | the JavaScript platform, on a thread of its own, with a barrier and a shutdown signal | `main()`: platform, setup, load, run, teardown, shutdown |
| Build, packaging, tests, documentation | the rest | none | none |

How they interact:

* **Embedder and runtime.** The call to `bare_run()` owns the thread. Other
  threads reach it through the mailbox only: they raise flags under
  `runtime->lock`, release the lock, and then call `uv_async_send()`. The owner
  takes the flags in `on_signal()`, releases the lock, and runs the handlers.
* **Runtime and JavaScript.** Handlers call listeners, and a listener may call
  any of `Bare.suspend()`, `wakeup()`, `idle()`, `resume()` and `exit()` before
  it returns to the handler that called it.
* **Runtime and loop.** The loop exits when no referenced handle is left, so
  whether `signal` is referenced decides whether a suspended process stays and
  a finished one goes. Four places write the reference.
* **Runtime and addons.** Loads happen on any thread of any process; libraries
  call back into the registry from constructors, under the lock of the dynamic
  loader. The teardown of a process unloads what it loaded, while other
  processes go on loading.
* **Addons and context.** An addon reads what the embedder published, through
  the process that its thread is attached to. The seal of the addon registry
  also freezes the context.
* **Runtime and threads.** A runtime forwards suspend, wakeup and resume to its
  threads, and joins them in its teardown.
* **Program, platform and process.** The program serves the platform on a thread
  of its own, which has to be there before the first environment of any thread
  and until after the last.
* **Scripts and the file system.** The protocol of a script reads and lists files
  in several calls of libuv; other programs change what is there in between.

What is hard here: coalesced requests that must come out as the last one asked;
a mailbox that must not be closed on a request; one loop reference with four
writers; handlers that are re-entered by their own listeners; a deadline against
a resume; three locks, one of which belongs to the loader and is held during
callbacks; reference counts on libraries across failure, reload and teardown;
several processes that come and go in one address space. `PROJECT.json` lists
these hazards at the lines where they bite, each with the properties that watch
it, or a note that says why none does.

What makes each component correct:

* *Runtime lifecycle.* Every accepted transition takes effect or the process
  ends; the last of suspend and resume wins; a suspended process stays and
  blocks, a finished one exits; a deadline ends what it was set for and nothing
  else; `exit` is final, emitted once, and the last thing that scripts hear.
* *Addon registry.* No library is unmapped under an addon that is listed, none
  is leaked; a process loads a library once; a failed load leaves nothing
  behind; a seal holds against loads in flight; teardowns touch their own
  process only; no order of the three locks deadlocks.
* *Context.* What was read is never withdrawn or replaced; a thread's lookups go
  to the process it entered last; a process that is gone leaves nothing.
* *Threads.* No post reaches a runtime whose stack is gone; a lock is used after
  it was made; a thread is freed once; a suspension reaches every thread.
* *Addon lookup.* A search by text finds what the name means, of the process
  that asks or static, and of several of one owner the one that came last.
* *Filesystem bindings.* What was opened is closed; a file that nobody changes is
  read whole, however it comes; a listing has all that can be reached, and ends.
* *Command line.* The platform outlives every environment, and a program that was
  terminated ends.

## 2. Modules

| Module | Role | Code |
| --- | --- | --- |
| `Lifecycle` | abstract specification: what a process promises about suspend, resume and exit | `include/bare.h`, `bare.d.ts` |
| `Runtime` | one runtime: mailbox, handlers, loop, run, exit, teardown | `runtime.c`, `bare.js` |
| `MCRuntime` | instances of `Runtime` | |
| `RuntimeProofs` | invariance proofs about `Runtime` | |
| `RuntimeStepProofs` | action properties and the refinement of `Lifecycle` | |
| `AddonStore` | abstract specification: what a process has loaded, and the seal | `include/bare.h`, `include/bare/module.h` |
| `Addons` | the registry with its locks, the loader, threads and processes | `addon.c` |
| `MCAddons` | instances of `Addons` | |
| `AddonProofs` | invariance proofs about `Addons`, and the refinement of `AddonStore` | |
| `Context` | the context registry, and attachment | `context.c`, `addon.c`, `runtime.c` |
| `MCContext` | instances of `Context` | |
| `ContextProofs` | invariance proofs about `Context` | |
| `Threads` | the runtimes of a process, each with the threads it started | `thread.c`, handlers of `runtime.c` |
| `MCThreads` | instances of `Threads` | |
| `ThreadProofs` | invariance proofs about `Threads`: ownership, suspension down the tree, its main runtime's promise | |
| `CommandLine` | the program: `Threads` beside the thread of the platform | `bin/bare.c` |
| `MCCommandLine` | instances of `CommandLine` | |
| `CommandLineProofs` | that the platform outlives every environment | |
| `Lookup` | which addon is found for which name | `addon.c` |
| `MCLookup` | instances of `Lookup` | |
| `LookupProofs` | that comparing characters compares names, and what is found | |
| `Protocol` | reading and listing files | `protocol.js`, bindings of `runtime.c` |
| `MCProtocol` | instances of `Protocol` | |
| `ProtocolProofs` | invariance proofs about `Protocol`: reads, and listings | |

`Runtime` carries `Promise == INSTANCE Lifecycle WITH ...` and `Addons` carries
`Store == INSTANCE AddonStore WITH ...`; both refinements are properties of a
run. `Threads` is composed of runtimes by way of `Lifecycle`: it keeps of each
what `Lifecycle` promises, and a run checks that its main runtime does.
`CommandLine` extends `Threads` with the rest of the program: a step of the
process is `Process(A)`, which leaves `main()` and the platform alone.

Operators marked `Variant` in the modules are plausible mistakes in the operator
that follows them. No specification uses them: `PROJECT.json` pairs each
property with one that it catches.

### Runtime

The owner thread is a program counter. Its values are the places in the code
where something else can happen: `host` (outside any call), `uvrun` and `loop`
(entering, and inside, `uv_run()`), `drained` and `returned` (after it, with or
without work left), `signal` and `dispatch` (`on_signal()`, before and after it
takes the flags), `js` (a script, callback or listener), `tail` (the bottom of
the loop in `bare_runtime_run()`, with `close_transitions()`), `exit`, and
`sweep`, `drain` and `gone` in the teardown. Between these points the code is
one step. `ret` and `sigRet` are the two return addresses that matter: where a
listener returns to, and where `on_signal()` does.

The mailbox is the set of flags that are up; `batch` is what is left of the
snapshot that `on_signal()` works through. A post by a foreign thread is two
actions, `Post` and `Send`, as in the code. JavaScript may do anything that the
bindings offer, any number of times (`JsRequest`, `JsIdle`, `JsExit`, `JsWork`),
before it returns. `work` counts referenced handles of user code, up to
`MaxWork`: the loop tells none from some, and so does the code. The values of
linger and deadline are abstracted: a timer that is armed may fire at any time.
libuv is external, and modelled by what the code relies on (module comment).

### Addons

A thread has a program counter with one value per section of the code between
locks, and a lock is taken in a step of its own, so that every wait and every
order is a behaviour. `loading`, `lock` and `loader` hold their owners. A library
stands for its specifier, its handle and the name it registers; `opened` is how
often it was opened less how often it was closed; it is mapped while it, or a
library that needs it, is open. Constructors run only on the first mapping.
`Fresh` is the constructors that an opening runs. An opening fails before, between
or after them (`DlopenFails`), so a load that failed may have staged any of their
addons, and `LoadFails` is the code that frees them. `Foreign` is a library that
the embedder opens itself and that registers an addon from a constructor, outside
any load of Bare.

### Context

`SetCheck` and `SetInsert` are the two halves of `bare_context_set()`, which
reads the seal under one lock and inserts under another. `frames` is what a
thread has attached and not yet detached: by `bare_attach()`, which refuses a
process that is terminated or gone (`Attach`), by `bare_run()`, `bare_load()` and
`bare_exit()`, which do not look (`Enter`), or by the teardown; the code keeps only the top of it
in `bare_addon__current` and the rest on the C stack, which is what `previous`
stands for. An entry's value is named for the thread that published it, so that
a replaced entry is told from the original.

### Threads

Runtimes form a tree under that of the main thread. A slot is a thread record
and the runtime on the thread's stack; `pc` says where that thread is: started
(`setup`), at the barrier, running (`run`), in a native call about other threads
(`create`, `await`, `post`, `join`), between its run and its flag `exited`
(`ended`), before its teardown (`exited`), in it (`closed`), finished (`done`).
`args` is which threads a call still has to deal with and `req` what it tells
them. Starting a thread, linking it and meeting at the barrier are steps of
their own, and so are taking `thread->lock` and posting under it. A slot can be
used again once its record is freed.

Of the lifecycle there is what `Runtime` is shown to implement: a phase (awake
and idle are one, `winding`), the last accepted of suspend and resume, and the
requests that are not answered yet. A handler changes the phase, and its
listener may do whatever a script may (`after` says that one is running, and
what its handler forwards when it returns); then `Forward` tells every thread in
the list. A terminate that is owed is all that is answered (`Answers`), as a
snapshot that has it is handled for that alone. A record that is set up takes the
first slot that is free, since slots are alike. `stray` is a history variable: threads that were told something by a
script, or were started while their parent was not active. They are the ones
that `Obedient` says nothing about, until the next suspend or resume that is
forwarded.

### CommandLine

`main` and `platform` are the program counters of the two threads of the
program. While `main` is at `process`, the actions are those of `Threads`;
`bare_setup()` and `bare_load()` are what `Threads` starts from. The signal of
the shutdown is a flag, as it is raised before or after the platform gets to its
loop. What `main()` parses before it starts the platform is left out.

### Lookup

The two lists of addons are sequences, newest first, and a name is a sequence of
characters, since that is what `bare_addon__matches()` compares. A load is one
step here: `Addons` has the steps. `Denotes` is the reference definition, on
names as their authors mean them: a package, and a version of components. The
text of a name (`Joined`) and what a teardown leaves of a list (`Kept`) are
recursive functions; a search is the least index of those where it would stop
(`StaticHits`, `DynamicHits`). The process of the thread that asks, if any, is a
parameter of `Find`: which one it is, is the matter of `Context`.

### Protocol

`pc` is the next call of libuv of the one operation that is under way, and each
call may fail. Between two calls others may put something else at a path
(`Change`) or write to the file that is open (`Resize`). For `read()` the state
is the C stack of `bare_runtime__read()`: the descriptor, the size found, and how
much is left of the buffer. For `list()` it is the generators on the stack of
the script, and `yielded` is what came out of them. Links are followed as the
kernel does it, and a circle of them leads nowhere. What can be reached, by links
and directories, is the least set that is closed under a step (`Spread`), which
needs no recursion; the paths are a tree (`TreeAssumption`).

## 3. Runs

| Run | Instance | What it shows |
| --- | --- | --- |
| `runtime` | one foreign thread, one user handle | five invariants, four action properties, that `Runtime` implements `Lifecycle`, and that an accepted terminate or resume takes effect and a wakeup or idle ends |
| `addons` | two processes, three threads, two libraries with constructors, one of which depends on the other, and a foreign library | references balance, nothing listed is unmapped or left staged, a process loads a library once, seals hold, every load returns, and `Addons` implements `AddonStore` |
| `context_safety` | two processes, two threads, one key, three attachments deep | entries that were read stay, lookups go to the innermost process, teardown leaves nothing |
| `command_line` | a program, a main runtime and two slots, two requests, joins or tells | no post to a runtime that is gone, locks used while they exist, records freed once, threads on the side of their parent, the main runtime keeps the promise of `Lifecycle`, the platform outlives every environment, a terminated program ends |
| `protocol` | a directory in a directory, a link that points anywhere, a directory elsewhere; a file of up to five bytes, an unsigned int of four values | files are closed, an unchanged file is read whole, a listing has all that can be reached and every call returns |
| `lookup` | two processes, two packages of which one begins the other, versions of up to two components of which one begins the other, three addons | a search finds what the query means, and of several of one owner the latest |
| `threads_termination`, `runtime_host_stop_returns`, `runtime_early_teardown`, `addons_unlink_race`, `context_seal_freezes`, `lookup_as_documented` | the smallest that show it | see *Findings* |

Why the bounds are enough:

* *Runtime.* Foreign threads share no state but the mailbox, which is a set of
  flags: one thread can raise any sequence of them. One handle tells a loop with
  work from one without. Nothing else is bounded: calls, posts, runs and
  suspensions go on forever in a finite state space. Two posts that are both
  between the lock and the send need a second thread: that case is left to the
  proofs, which are for any callers and any `MaxWork`.
* *Addons.* Locks and staging need two threads in one process and a second
  process beside it; three threads are the least that has both. Two libraries
  with constructors, of which one depends on the other, make every number of
  constructors that an opening runs, or runs before it fails: none, one, two.
  Processes are torn down and set up again without limit, and the foreign library
  is opened at any time. A library with a known symbol, which is registered
  without a constructor, would be a third and take the run past a few minutes;
  the safety proofs are for any libraries and have it.
* *Context.* Two processes and depth three contain every nesting of different
  and of equal processes with one above and one below. Keys do not interact. The
  properties are proved for any number of each.
* *Threads and CommandLine.* Two slots make two children of one parent and a
  chain of three runtimes. `MaxCalls` bounds what scripts and the embedder ask
  for: requests, tells and joins. Two are enough for a suspend and a resume,
  wakeup, terminate or join that overtakes it anywhere in the tree, and for one
  call to find what another left locked. Creations, exits, finalizers and
  everything else that a runtime does are not bounded. Liveness is about what is
  left when the last of the calls was made.
* *Lookup.* Every name is registered and searched, so what matters is one name
  that begins another, at a component and inside of one. Three addons are a
  static one beside two of a load, or two processes beside a static one.
* *Protocol.* The tree has each way on from an entry (file, directory, link,
  gone), a directory below another, and a link to any of them, upwards as well,
  which makes a circle; `MaxDepth` is one more than the tree is deep, so that
  only a circle gets there. A size of five is past the four values of an unsigned
  int, and can be read in any parts. One change or failure in a call
  (`MaxFaults`) is enough to have it at each step of the call; two were checked
  once, with the same result.

Deadlock is checked in every run but those of `Threads`, `CommandLine` and
`Lookup`. In the first two the system really may stop: a process that has returned
from its teardown is not set up again, and a join or a teardown may wait for a
thread that stays suspended (see *Findings*). `Lookup` stops when its bound of
addons is reached and none is left to unload. `Runtime` has a stuttering step
`Gone` for the one state in which the process no longer exists, so any other state
without a successor is reported; `Addons` and `Context` can always set up another
process, and a script can always call `Protocol` again.

### Fairness

`Runtime!Fairness` is stated beside the specification. The owner thread keeps
executing (WF), and so does a foreign thread between its lock and its send.
libuv polls the async handle, runs due timers and tests the stop flag in every
iteration, whatever else calls back (SF on `SignalFires`, `TimeoutFires` and
`UvReturn`). Listeners return. The host runs the loop again until a run says
that the process exited. Nothing is assumed of user work, of requests by
JavaScript or of the teardown. `ForeignQuiet` says that foreign threads stop
posting some day. It is needed: `bare_runtime_run()` delivers what is pending
before it looks whether it was terminated (`runtime.c:2111`), and a stream of
posts without end would keep it there.

`Addons!Fairness` is SF, for each thread, on its next step, be that in a call or
at a lock: the locks are not fair, but a thread that finds one free again and
again gets it in the end. Which calls are made is not assumed.

`Threads!Fairness` is WF, for each runtime, on what it does next: in a call, at
its start or in its end, in answer to what it was asked (`Runtime!Fairness`
yields that), and on `Finish`: the work of a thread that is active is finite. With
less, a process need not end for reasons of its own. Scripts need not call
anything. `CommandLine!CommandFairness` is the same on the steps of the process,
and WF on `main()` and on the thread of the platform: both are threads that keep
executing unless they wait.

`Protocol` has WF on the steps of the call: libuv returns from every call. Which
calls are made, and what others do to the disk, is not assumed.

## 4. Proofs

Everything here is proved for arbitrary constants, from the assumptions named in
the modules: `MaxWork` is a natural number (`Runtime`); `NoProcess` and `NoThread` are not a process and not a thread, and
`MaxDepth` is a natural number (`Context`); every thread is of a process, each of
which has one main thread, a library needs other libraries only, and the two
names for nobody are nobody's (`Addons`); `Main` is not a slot, `NoOne` not a
runtime, requests are some of the four, and `MaxCalls` is a natural number
(`Threads`); an unsigned int has one value or more, the paths are finitely many
and a tree, links have nothing below them, and the bounds are natural numbers
(`Protocol`); a process is not nobody, packages and components are spelled with
one character or more, and what separates them (`@`, a dot, the extension) is in
none of them (`Lookup`). The type invariants of
`Runtime` and `Context` and all the inductive invariants are in no run: they are
proved.

**Runtime** (`RuntimeProofs`, `RuntimeStepProofs`). `Invariance` proves
`Spec => []IInv`. The properties are not inductive as they stand, and `IInv` adds
what they lean on:

* `FlagsInv`: `resuspend` is up only beside `suspend`, and a batch is in hand
  only while it is dispatched. `LastRequestWins` needs it, as `resuspend` alone
  is not *pending* and would otherwise be left behind in a closed mailbox.
* `ClosedInv`: a closed mailbox is empty and the owner is on its way out.
* `StackInv`: a return address in the sweep of the teardown means that the
  environment is gone; it ties `ret` and `sigRet` to `env`.
* `StopInv`: who may have stopped the loop, and what `drained` and `returned`
  say about it. `SuspendedRunBlocks` needs it.
* `ExitInv`: the states that the bottom of the loop and the exit are reached in.
* `DestroyInv`: nothing but the teardown is left once the environment is gone,
  though its sweep may still get to JavaScript (see *Findings*).

Each part has a lemma with one step per action that can disturb it. From `IInv`
follow the safety properties of the run, as theorems of their own.
`RuntimeStepProofs` proves the action properties
from the same invariant, and `RuntimeImplementsLifecycle`: initial states map to
initial states, and every step to a step of `Lifecycle` or a stutter. The key
lemma is `SettledWhenServed`: with no flag up and no batch in hand,
`LastRequestWins` says that the state is the one last asked for, which is what
`Lifecycle` demands of a full answer.

**Context** (`ContextProofs`). `PushFacts` and `PopFacts` say once what
attaching and detaching do to a sequence of frames. `IInv` adds to the
properties: `ChainInv` (each frame remembers the process of the frame below),
without which detaching would not lead back to it; `HoldsInv` (a process that is
being torn down is attached in one place, one that is gone nowhere), without
which freeing a process might leave a thread in it; `SettingInv` (whoever is
about to insert does so in a process still in use) and `EmptyInv` (entries go
before the process), without which an insertion might be left for the next
process. `ReadsAreNeverWithdrawn`, `LookupsAreOfTheInnermost` and
`TeardownLeavesNothing` follow.

**Protocol** (`ProtocolProofs`). `ReadInv` is inductive: the variables of a read
are natural numbers (`Sizes`), a descriptor is open exactly while a read is
under way (`Balanced`), and at every point of it what was read and what is left
make up the size that was found, cut to an unsigned int (`Filling`). `Cut` is
the one lemma of arithmetic: a remainder is a natural number no larger than what
it is of. `FilesAreClosed` and `ReadsAreWhole` follow, and `ReadsFit`: no read
writes past the buffer, for any size, any width of an unsigned int and any
number of changes and failures. `TypeCorrect` adds what the disk and the stack of
a listing are.

For `list()`, `ListReachesAll` says something of the state in which the call
returns, and what makes it so is a fact about every state before: `Covers`, of
each set of paths that nobody has touched, says that each of its files that can
be reached from the start has been yielded or is still ahead: behind the path
that is resolved or scanned next, or behind an entry of a frame on the stack,
*with as many frames left as the way to it has directories* (`Lists(V, p, n)`).
The sets are what makes this inductive: a directory that is being listed is taken
out of the set, since a shortest way to a file does not lead through it again,
and so a link to a directory above costs its own branch and loses no file. The
lemmas `ListsPlain`, `ListsReal` and `ListsDir` say what is behind a file, a link
and a directory. `Told` says that what a frame takes an untouched entry for is
what it is, `Honest` that only files were yielded, and `Still` where there is no
frame. `ListingCovers` is the invariant,
`ListsEverything` the property, for any tree, under `Roomy`: the stack has room
for a frame per directory. That is what the code does not check and JavaScript
bounds by throwing; the instance of the run meets it.

**Lookup** (`LookupProofs`). `MatchesMeant` says that `bare_addon__matches()`,
which compares characters, decides `Denotes`, which compares packages and
components: `SameWord` is the step, that of two texts one of which begins the
other up to a dot the words at one place are the same, because a word ends where
a separator is and none is in a word. That goes from the package on to each
component in turn (`PackagesAgree`, `ComponentsAgree`, `AllAgree`). The texts are
recursive functions; `Recursion` shows once that such a function exists, and
`Determined` that there is one, from the least place where it would fail
(`LeastNat`), so nothing is assumed about what the recursion computes.
`ListsInOrder` is the inductive invariant: both lists are newest first and hold
addons of the right owners; `Glued` is for what is put in front, `KeptIsPart`
for what a teardown leaves. With it the first hit in a list is the latest, and
`AlwaysFindsWhatIsMeant` and `AlwaysFindsNewestOfOwner` follow, for names of any
spelling and any number of components, addons and processes.

**Threads** (`ThreadProofs`). The runtimes form a tree, and `IInv` says so in
parts: `OwnedInv` (a thread is had by one runtime, from when its record is set up
until it is freed), `CallInv` (who is told, joined or waited for is in the list
of the one who does it), `StartInv` (a thread is starting exactly while its
parent waits for it), `FlagsInv` and `HandlesInv` (what `exited`, `joined` and a
JavaScript object say of a thread), `LockInv` (the lock is there while the thread
is listed and not joined, and while it is held the thread does not get past its
exit) and `LeafInv` (who is not running has no threads). `LockAlwaysReady`,
`PostsAlwaysReachTheLiving` and `AlwaysOwnedOnce` follow without counting slots.
`TeardownLeavesNobody` needs more: each runtime joins only its own threads, and
that nobody is left at any depth takes that there is no group of threads that
have only each other. `RootedInv` says that of every set of threads, which is
what stands in for an induction over the depth.

A suspension that goes down the tree is the matter of `SideInv`. `PhaseInv` ties
what a handler has still to forward to the phase that it put its runtime in;
`FreshInv`: a thread that is not running yet was asked for nothing; `SettledInv`:
a runtime owes an answer or is as it was last asked to be, and when it owes both,
nothing is said until one of them is given; `ObeyInv`: a thread was last asked
for the side that its parent is on, or the parent's walk has not got to it and
carries that side. `Obedient` is the last of them without the walk, and is not
inductive without it, nor without the others: a listener may answer a suspension
with a resume before the suspension was forwarded. `AlwaysObedient` follows, and
`AllOnOneSide`: when nobody owes or forwards anything and no script told a thread
something of its own, threads at any depth are on the side of the main runtime,
by `RootedInv` applied to the set of those that are not. `MainKeepsPromise` maps
every step of the whole tree to a step of `Lifecycle` or a stutter; what it needs
of the main runtime is `SettledInv`.

**CommandLine** (`CommandLineProofs`). `ProgramInv` ties `main` and `platform` to
each other and to the state of the main runtime. `PlatformAlwaysOutlives` is that
and `NobodyLeft`: `main()` signals the platform after the teardown, when no
thread at any depth has an environment.

**Addons** (`AddonProofs`). `FlightInv` says that the load past its lookup holds
`bare_addon__loading` for a process that is not sealed and does not have the
library; as the lock has one owner, `AlwaysLoadedOnce` and `SealAlwaysHolds`
follow, although the lookup and the publishing are under a lock of their own.
`StagedInv` says from when to when a thread has something staged, and for whom,
`TearInv` that a process in its teardown has no other thread and no addon comes
after the unlinking, `ListInv` where a listed addon came from, and that one of
those that its load published has the reference. `CountInv` counts: a library is
open as often as there are addons that will close it (`Keepers`) and loads that
have not passed it on (`Openers`). `OpenerCounted`, `CloserCounted`,
`KeeperCounted` and `PassedOn` are the four ways in which that changes, each an
addition or removal of one element. `NeverAnyUnmapped` follows from it and from
`ListInv`. `AddonsImplementStore` maps each step to one of `AddonStore`.

`HoldInv` says in which calls a thread has each of the locks. `LocksTakenInOrder`
follows: `bare_addon__loading` comes before the lock of the loader, and that before
`bare_addon__lock`, which a constructor takes under the other. `NeverADeadlock` is
what the order is for: while a lock is held, one of those who hold one waits for
nobody. That a load then returns also takes fairness, and stays with TLC
(`LoadsReturn`).

**Model-checked only.** Liveness under fairness, which is out of reach of the
prover: `TerminateTakesEffect`, `ResumeTakesEffect` and `WakeupEnds` of `Runtime`,
`LoadsReturn` of `Addons`, `TerminatedReturns` of `CommandLine`, `CallsReturn` of
`Protocol`. Every invariant, action property and refinement of a passing run is
proved.

**A caution.** The SMT translation of this version of `tlapm` takes every value
for one that has a length, and so has a contradiction at hand when a fact about
`Len` stands beside a function on `0..n`. `LookupProofs` needs both, and keeps
them in different steps: what is a sequence is hidden (`HIDE DEF`) where the
recursive function is a function, and its lemmas say what its values are and
leave out its domain.

## 5. Findings

Each is a run of its own, whose one property quotes what the repository says.

1. `threads_termination`: suspend, wakeup and resume are forwarded to threads,
   terminate is not. A process that is suspended and then terminated leaves its
   threads suspended, and its teardown joins them forever, where `bare.h` says
   that it terminates as soon as possible.
2. `runtime_host_stop_returns`: `test/run-stop.c` says that a stop of the loop
   makes the run return early. A run that is idle at that moment calls
   `on_idle()` and enters `uv_run()` again, and the stop is lost.
3. `addons_unlink_race`: a teardown unlinks its addons under
   `bare_addon__loading` and closes the libraries after releasing it. A load of
   the same constructor library in between finds it mapped and unregistered, and
   fails; the comment at `addon.c:457` says that the lock prevents this.
4. `context_seal_freezes`: `bare.h` says that a sealed process gains no context
   entry. A `bare_context_set()` that read the seal before still inserts one.
5. `runtime_early_teardown`: a teardown before the process has exited runs the loop
   once more after `js_destroy_env()`, and a transition still in the mailbox is
   delivered there, to listeners in an environment that no longer exists. `bare.h`
   and `docs/context-keys.md` say of what runs that late that it must not call into
   it. No document asks for an exit before the teardown, and
   `test/attach-nested.c:82` tears down a process that never ran. What holds
   nevertheless is `ExitIsHeardLast`: a process that has exited hears nothing in
   the sweep.
6. `lookup_as_documented`: `module.h` says that of several addons that match the
   most recently loaded is returned. The static ones are searched first, so one of
   them is returned even if the process has loaded another since.
7. The same run: `module.h` says that `NULL` is returned if no process is running
   on the thread. Static addons are found there, and `test/addon-find.c:44` relies
   on it. `FindsWhatIsMeant` therefore asks for an answer on threads of a process
   only, and `FindsNewestOfOwner` compares addons of one owner. The state that TLC finds
   refutes both halves of `FoundAsDocumented`.

Seen while modelling, without a run of their own:

* A constructor library first mapped as a dependency is recorded under the
  handle of its dependent, and a later load by its own specifier does not find
  its registration. An instance with `CtorAndDep` violates
  `RegistrationRecovered`.
* `exists()` in `runtime.c` tests `st_mode & S_IFREG`, which is true of sockets;
  `Protocol` models the bits, so a listing that starts at a socket has it.
* The size of a file is cut to an unsigned int before it is read. `ReadIsWhole`
  states that; it does not exclude it, and nothing in the repository promises
  more.
* `bare.d.ts` says that after `idle` the loop blocks and no work is performed
  until a resume, but `on_idle()` only references the signal, and handles that
  are still open go on calling back.

## 6. Not modelled, and why

* *The source and data of a thread*, which are copied once when it starts.
  `Addons` starts and joins threads in single steps (`ThreadStart`, `ThreadEnd`,
  and the guard of `Teardown`); `Threads` has the steps between.
* *A thread that cannot be started*: its record is freed at once and nothing
  else changes.
* *Values of linger and deadline*: they only choose when a timer fires.
* *The lists that JavaScript asks for* (`bare_addon_get_static`, `_get_dynamic`,
  `_load_static`): they copy names under a lock, or look one up.
* *Detaching out of order*, which `bare_detach()` does not always notice:
  `Context` detaches in the order that `bare.h` asks for.
* *Failures of `bare_setup()`*, options and callback slots: straight-line code
  on one thread.
* *Uncaught exceptions, rejections, exit codes* (`bare.js`): sequential, and
  without effect on the state modelled, other than through `Bare.exit()`.
* *The addon cache of `bare.js` and `addon.js`*: local to a thread and
  sequential. What can go wrong in the former is listed among the hazards, with
  this reason.
* *URLs that are not files, and conversions* of URLs, paths and arguments: no
  state, and nothing that could interleave.
* *A directory that becomes a link, or back, during a listing*: the paths of
  `Protocol` have a fixed tree, in which a link stays a link or goes.
* *Limits, signals and flags of the command line*, set once before anything
  starts; *the build, packaging*: no state of the running system.

## 7. Plan

Done, in this order: `Lifecycle` and `Runtime`, their runs and proofs;
`AddonStore` and `Addons` with their runs; `Context`, its run and proofs;
`Threads` and its runs; `Lookup`; `CommandLine`, with the liveness of the tree of
runtimes; `Protocol`, its run and proofs; `ThreadProofs`, `CommandLineProofs` and
`AddonProofs`; the listing in `ProtocolProofs`, suspension in `ThreadProofs`,
`LookupProofs`, and the order of the locks in `AddonProofs`.

Next:

1. An abstract specification of the tree of runtimes, in which a suspension is
   one step, for `Threads` to implement: it would state `AllOnOneSide` and the
   join of the teardown together.
2. The addon cache of `bare.js`, if more than one thread ever comes to share it.
