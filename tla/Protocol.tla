------------------------------ MODULE Protocol ------------------------------
(***************************************************************************)
(* The module protocol of a script (src/src/protocol.js) and the bindings  *)
(* that it stands on (bare_runtime__exists, __realpath, __read and __list  *)
(* in src/src/runtime.c), over a file system that others change while a    *)
(* call is under way.  Every call of libuv is one step, which may fail.    *)
(*                                                                         *)
(* A path is where it is in the tree, and which kind of file is there may  *)
(* change; a symbolic link points where it does from the start.  What a    *)
(* file holds is told apart by how much of it was read.  A listing is a    *)
(* generator: "stack" holds a frame for each listDirectory() that is under *)
(* way, with what is left of the entries that scandir() returned.          *)
(***************************************************************************)
EXTENDS Naturals, Sequences, FiniteSets

CONSTANTS
  Paths,       \* the paths there are
  Parent,      \* the directory of each; one that is its own is not listed
  LinkPaths,   \* those at which there may be a symbolic link
  NoPath,      \* no path
  UInts,       \* how many values an unsigned int has; a size_t has more
  MaxSize,     \* bound: the size of a file
  MaxFaults,   \* bound: what others change, and what fails, during a call
  MaxDepth     \* the frames of listDirectory() that a script's stack has room for

Children == [d \in Paths |-> {p \in Paths \ {d} : Parent[p] = d}]

\* Where some paths lead, by any number of steps: the least set that holds them and
\* what is next to each of its own, so that one without the path p is too small.
Spread(S, next) ==
  {p \in Paths : \A T \in SUBSET (Paths \ {p}) :
                   S \subseteq T => \E q \in T : ~(next[q] \subseteq T)}

Below == [d \in Paths |-> Spread(Children[d], Children)]

ASSUME TreeAssumption ==
  /\ IsFiniteSet(Paths) /\ NoPath \notin Paths /\ LinkPaths \subseteq Paths
  /\ Parent \in [Paths -> Paths] /\ \A d \in Paths : d \notin Below[d]
  /\ \A l \in LinkPaths : Children[l] = {}
ASSUME SizesAssumption ==
  {MaxSize, MaxFaults, MaxDepth} \subseteq Nat /\ UInts \in Nat \ {0}

VARIABLES
  fs,       \* the kind of what is at each path
  to,       \* where the link at a path points
  typed,    \* whether the file system says in a listing what an entry is
  pc,       \* where the call of the script is
  cur,      \* the path that its next step is about
  stack,    \* the frames of listDirectory()
  yielded,  \* the paths that the listing has produced
  fds,      \* the file descriptors that are open
  is,       \* the kind of the file that is open ...
  size,     \* ... and its size
  len,      \* the size of the buffer
  left,     \* how much of it there is left to fill
  read,     \* how much of it was filled
  changed,  \* history: the file was changed since it was opened
  touched,  \* history: the paths that were changed, or failed, during the call
  start,    \* history: what the listing was asked for ...
  asDir,    \* ... with a separator at its end
  faults    \* how many there were of either in this call

disk == <<fs, to, typed>>
walk == <<stack, yielded>>
file == <<fds, is, size, len, left, read, changed>>
past == <<touched, start, asDir, faults>>
vars == <<disk, pc, cur, walk, file, past>>

Kinds == {"none", "file", "dir", "link", "socket"}

Done    == {"bytes", "threw", "listed"}
Reading == {"fstat", "read", "close", "fail"}
Listing == {"enter", "resolve", "stat", "scan", "walk"}

Min(a, b) == IF a < b THEN a ELSE b

----------------------------------------------------------------------------
(* The file system *)

\* What can be at a path: only a directory that is empty becomes something else
\* here, and what was in one goes with it.
Possible(p) ==
  IF p \in LinkPaths THEN {"none", "link"}
  ELSE IF Children[p] # {} THEN {"none", "file", "dir"}
  ELSE {"none", "file", "socket"}

Consistent(f) ==
  /\ \A p \in Paths : f[p] \in Possible(p)
  /\ \A d \in Paths : f[d] # "dir" => \A p \in Children[d] : f[p] = "none"

Target == [p \in Paths |-> IF fs[p] = "link" THEN {to[p]} ELSE {}]

Follow(p) == Spread({p}, Target)

\* The path behind the links at a path, as realpath() finds it: none if one
\* leads nowhere, or in a circle.
Real(p) ==
  LET ends == {q \in Follow(p) : fs[q] \notin {"none", "link"}}
  IN IF ends = {} THEN NoPath ELSE CHOOSE q \in ends : TRUE

\* The type bits of st_mode, in units of 0010000.
Mode(k) == CASE k = "file" -> 8 [] k = "dir" -> 4 [] k = "socket" -> 12

\* st_mode & S_IFREG: of a socket as well.
Exists(p) == fs[p] # "none" /\ (Mode(fs[p]) \div 8) % 2 = 1

\* What scandir() says of an entry.
TypeOf(p) == IF typed THEN fs[p] ELSE "unknown"

----------------------------------------------------------------------------
TypeOK ==
  /\ Consistent(fs) /\ to \in [LinkPaths -> Paths] /\ typed \in BOOLEAN
  /\ pc \in {"idle"} \union Done \union Reading \union Listing
  /\ cur \in Paths \union {NoPath}
  /\ \A i \in DOMAIN stack : stack[i] \subseteq Paths \X (Kinds \union {"unknown"})
  /\ {yielded, touched} \subseteq SUBSET Paths
  /\ start \in Paths \union {NoPath} /\ asDir \in BOOLEAN
  /\ {size, len, left, read} \subseteq 0..MaxSize /\ read + left <= len
  /\ is \in {"file", "dir"} /\ changed \in BOOLEAN
  /\ faults \in 0..MaxFaults

Init ==
  /\ fs \in {f \in [Paths -> Kinds] : Consistent(f)}
  /\ to \in [LinkPaths -> Paths]
  /\ typed \in BOOLEAN
  /\ pc = "idle" /\ cur = NoPath
  /\ stack = <<>> /\ yielded = {}
  /\ fds = 0 /\ is = "file" /\ size = 0 /\ len = 0 /\ left = 0 /\ read = 0
  /\ changed = FALSE
  /\ touched = {} /\ start = NoPath /\ asDir = FALSE /\ faults = 0

Files == {p \in Paths : fs[p] # "link" /\ Exists(p)}

NoFile ==
  is' = "file" /\ size' = 0 /\ len' = 0 /\ left' = 0 /\ read' = 0 /\ changed' = FALSE

\* The script has what the call returned or threw.
Return ==
  /\ pc \in Done /\ pc' = "idle" /\ cur' = NoPath
  /\ stack' = <<>> /\ yielded' = {} /\ NoFile
  /\ touched' = {} /\ start' = NoPath /\ asDir' = FALSE /\ faults' = 0
  /\ UNCHANGED <<disk, fds>>

----------------------------------------------------------------------------
(* read() *)

\* Links are followed, and a socket cannot be opened.
Opens(p) ==
  /\ pc = "idle" /\ pc' = "fstat"
  /\ Real(p) # NoPath /\ fs[Real(p)] \in {"file", "dir"}
  /\ is' = fs[Real(p)] /\ size' \in 0..MaxSize
  /\ fds' = fds + 1
  /\ UNCHANGED <<disk, cur, walk, len, left, read, changed, past>>

OpenFails ==
  /\ pc = "idle" /\ pc' = "threw"
  /\ UNCHANGED <<disk, cur, walk, file, past>>

\* Others do something, or a call of libuv fails for reasons of its own.
Fault == faults < MaxFaults /\ faults' = faults + 1

\* The size as it is now is what is read, cut to an unsigned int.
Fstat ==
  /\ pc = "fstat" /\ pc' = "read"
  /\ len' = size /\ left' = size % UInts /\ read' = 0
  /\ UNCHANGED <<disk, cur, walk, fds, is, size, changed, past>>

\* Variant: a file that could not be looked at is left open.
FailKeepsOpen ==
  /\ pc \in {"fstat", "read"}
  /\ IF pc = "read" /\ is = "dir" THEN UNCHANGED faults ELSE Fault
  /\ pc' = IF pc = "fstat" THEN "threw" ELSE "fail"
  /\ UNCHANGED <<disk, cur, walk, file, touched, start, asDir>>

\* Either call may fail; to read a directory does.
Fail ==
  /\ pc \in {"fstat", "read"}
  /\ IF pc = "read" /\ is = "dir" THEN UNCHANGED faults ELSE Fault
  /\ pc' = "fail"
  /\ UNCHANGED <<disk, cur, walk, file, touched, start, asDir>>

\* What there is from where the last read ended, or some of it.
Got == IF left = 0 \/ size <= read THEN {0} ELSE 1..Min(left, size - read)

\* Variant: the buffer is moved on but not made shorter.
ReadPastEnd ==
  /\ pc = "read" /\ is = "file"
  /\ \E n \in Got :
       /\ read' = read + n /\ left' = left
       /\ pc' = IF n = 0 \/ read + n = len THEN "close" ELSE "read"
  /\ UNCHANGED <<disk, cur, walk, fds, is, size, len, changed, past>>

\* Variant: one read is enough.
ReadOnce ==
  /\ pc = "read" /\ is = "file"
  /\ \E n \in Got : read' = read + n /\ left' = left - n
  /\ pc' = "close"
  /\ UNCHANGED <<disk, cur, walk, fds, is, size, len, changed, past>>

\* Variant: only a buffer that is full ends the loop.
ReadUntilFull ==
  /\ pc = "read" /\ is = "file"
  /\ \E n \in Got : read' = read + n /\ left' = left - n
  /\ pc' = IF read' = len THEN "close" ELSE "read"
  /\ UNCHANGED <<disk, cur, walk, fds, is, size, len, changed, past>>

ReadSome ==
  /\ pc = "read" /\ is = "file"
  /\ \E n \in Got :
       /\ read' = read + n /\ left' = left - n
       /\ pc' = IF n = 0 \/ read + n = len THEN "close" ELSE "read"
  /\ UNCHANGED <<disk, cur, walk, fds, is, size, len, changed, past>>

\* It is closed on the way out, whatever that is.
Close ==
  /\ pc \in {"close", "fail"}
  /\ pc' = IF pc = "close" THEN "bytes" ELSE "threw"
  /\ fds' = fds - 1
  /\ UNCHANGED <<disk, cur, walk, is, size, len, left, read, changed, past>>

----------------------------------------------------------------------------
(* list() *)

\* With a separator at its end, a URL names a directory or nothing.
List(p) ==
  /\ pc = "idle" /\ pc' \in {"resolve", "enter"}
  /\ cur' = p /\ start' = p /\ asDir' = (pc' = "enter")
  /\ UNCHANGED <<disk, walk, file, touched, faults>>

\* A step that has nothing for the script: the listing goes on with what is next.
Skip == pc' = "walk" /\ cur' = NoPath /\ UNCHANGED stack

\* ... because it failed, at a path where it need not have.
Failed == Fault /\ touched' = touched \union {cur} /\ UNCHANGED <<start, asDir>>

\* Whether realpath() finds something.
Resolves ==
  Real(cur) # NoPath /\ (pc = "enter" => fs[Real(cur)] = "dir")

Resolve ==
  /\ pc \in {"resolve", "enter"} /\ Resolves
  /\ cur' = Real(cur) /\ pc' = IF pc = "enter" THEN "scan" ELSE "stat"
  /\ UNCHANGED <<disk, walk, file, past>>

ResolveFails ==
  /\ pc \in {"resolve", "enter"} /\ Skip
  /\ IF Resolves THEN Failed ELSE UNCHANGED past
  /\ UNCHANGED <<disk, yielded, file>>

\* exists(): a file is all that there is to list.
Stat ==
  /\ pc = "stat"
  /\ IF Exists(cur)
       THEN Skip /\ yielded' = yielded \union {cur}
       ELSE pc' = "scan" /\ UNCHANGED <<cur, walk>>
  /\ UNCHANGED <<disk, file, past>>

StatFails ==
  /\ pc = "stat" /\ Failed
  /\ pc' = "scan"
  /\ UNCHANGED <<disk, cur, walk, file>>

\* scandir(), all at once.
Scan ==
  /\ pc = "scan" /\ fs[cur] = "dir" /\ Len(stack) < MaxDepth
  /\ pc' = "walk" /\ cur' = NoPath
  /\ LET entries == {p \in Children[cur] : fs[p] # "none"}
     IN stack' = Append(stack, {<<p, TypeOf(p)>> : p \in entries})
  /\ UNCHANGED <<disk, yielded, file, past>>

ScanFails ==
  /\ pc = "scan" /\ Skip
  /\ IF fs[cur] = "dir" /\ Len(stack) < MaxDepth THEN Failed ELSE UNCHANGED past
  /\ UNCHANGED <<disk, yielded, file>>

\* The stack is full: where that throws is chance, and so is whether one of the
\* handlers of list() takes it for a directory that cannot be read (ScanFails).
Overflows ==
  /\ pc = "scan" /\ Len(stack) = MaxDepth
  /\ pc' = "threw" /\ cur' = NoPath /\ stack' = <<>>
  /\ UNCHANGED <<disk, yielded, file, past>>

Top == stack[Len(stack)]

\* Variant: what is neither a file nor a directory is left out.
WalkPlain ==
  /\ pc = "walk" /\ stack # <<>>
  /\ \E e \in Top :
       /\ stack' = [stack EXCEPT ![Len(stack)] = @ \ {e}]
       /\ yielded' = IF e[2] = "file" THEN yielded \union {e[1]} ELSE yielded
       /\ IF e[2] = "dir" THEN cur' = e[1] /\ pc' = "scan" ELSE UNCHANGED <<pc, cur>>
  /\ UNCHANGED <<disk, file, past>>

\* The next entry: a file is listed as it is, a directory is walked, and
\* anything else has to be resolved to say.
Walk ==
  /\ pc = "walk" /\ stack # <<>>
  /\ \E e \in Top :
       /\ stack' = [stack EXCEPT ![Len(stack)] = @ \ {e}]
       /\ IF e[2] = "file"
            THEN yielded' = yielded \union {e[1]} /\ UNCHANGED <<pc, cur>>
            ELSE /\ cur' = e[1] /\ UNCHANGED yielded
                 /\ pc' = IF e[2] = "dir" THEN "scan" ELSE "resolve"
  /\ UNCHANGED <<disk, file, past>>

\* A directory is done, and with the last of them the listing.
Up ==
  /\ pc = "walk" /\ stack # <<>> /\ Top = {}
  /\ stack' = SubSeq(stack, 1, Len(stack) - 1)
  /\ UNCHANGED <<disk, pc, cur, yielded, file, past>>

ListReturns ==
  /\ pc = "walk" /\ stack = <<>>
  /\ pc' = "listed"
  /\ UNCHANGED <<disk, cur, walk, file, past>>

----------------------------------------------------------------------------
(* Others *)

\* Something else is put at a path, or what was there is taken away; a file that
\* is open does not feel it.
Change(p, k) ==
  /\ pc \in Listing /\ Fault
  /\ k \in Possible(p) \ {fs[p]}
  /\ k # "none" => Parent[p] = p \/ fs[Parent[p]] = "dir"
  /\ fs' = [q \in Paths |-> IF q = p THEN k
                           ELSE IF k # "dir" /\ q \in Below[p] THEN "none"
                           ELSE fs[q]]
  /\ touched' = touched \union {q \in Paths : fs'[q] # fs[q]}
  /\ UNCHANGED <<to, typed, pc, cur, walk, file, start, asDir>>

\* The file that is open is written to, or cut off.
Resize ==
  /\ pc \in Reading /\ Fault
  /\ size' \in (0..MaxSize) \ {size} /\ changed' = TRUE
  /\ UNCHANGED <<disk, pc, cur, walk, fds, is, len, left, read, touched, start, asDir>>

----------------------------------------------------------------------------
Steps ==
  \/ Fstat \/ ReadSome \/ Fail \/ Close
  \/ Resolve \/ ResolveFails \/ Stat \/ StatFails \/ Scan \/ ScanFails
  \/ Overflows \/ Walk \/ Up \/ ListReturns

Next ==
  \/ Steps \/ OpenFails \/ Return \/ Resize
  \/ \E p \in Paths : \/ Opens(p) \/ List(p)
                      \/ \E k \in Kinds : Change(p, k)

\* Every call of libuv returns; nothing is assumed of others, nor of which calls
\* are made.
Spec == Init /\ [][Next]_vars /\ WF_vars(Steps)

----------------------------------------------------------------------------
(* Properties *)

\* Whichever call of libuv fails, the file that was opened is closed, and once.
Balanced == fds = IF pc \in Reading THEN 1 ELSE 0

\* However little each read returns, a file that nobody changed is returned
\* whole (bare_runtime__read()), as far as the count of a uv_buf_t goes: of a size
\* that an unsigned int does not hold only the remainder is read, which this states
\* and does not exclude.
ReadIsWhole == pc = "bytes" /\ ~changed => len = size /\ read = len % UInts

\* What a path leads to: the entries of a directory, the target of a link.
Leads == [p \in Paths |-> IF fs[p] = "dir" THEN Children[p] ELSE Target[p]]

Inside(next, W) == [p \in Paths |-> IF p \in W THEN next[p] \intersect W ELSE {}]

Reached(p, W) == Spread({p} \intersect W, Inside(Leads, W))

\* "enumerates through `list()` so that everything under it is reached"
\* (test/asset-directory.js): the files that can be reached by way of what did
\* not change or fail are listed, by links and by paths alike, whatever else
\* happens during the listing; and nothing is but what was a file meanwhile, by
\* its real path.
ListReachesAll ==
  pc = "listed" =>
    /\ (asDir => Real(start) # NoPath /\ fs[Real(start)] = "dir") =>
          Reached(start, Paths \ touched) \intersect Files \subseteq yielded
    /\ yielded \subseteq Files \union touched

\* Every call returns: a file that shrinks while it is read ends the loop, and a
\* link to a directory above it does not keep a listing going for ever, whatever
\* changes while it goes on.
CallsReturn == pc \in Reading \union Listing ~> pc \in Done
============================================================================
