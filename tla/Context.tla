------------------------------ MODULE Context ------------------------------
(***************************************************************************)
(* The context registry (src/src/context.c), through which an embedder     *)
(* hands pointers to the addons of a process, and the attachment of a      *)
(* thread to a process (bare_addon__current, bare_attach() and             *)
(* bare_detach()), against which an addon's lookups are resolved.          *)
(*                                                                         *)
(* bare_context_set() reads the seal under the addon lock, lets go of it,  *)
(* and only then takes the lock of the registry: two steps.  An entry's    *)
(* value is named for the thread that published it.  bare_run(),           *)
(* bare_load() and bare_exit() attach their process while they run (Enter) *)
(* just as bare_attach() does for the embedder's own calls (Attach), and   *)
(* all are left by Detach; "frames" is what a thread has attached and not  *)
(* yet detached, outermost first.                                          *)
(***************************************************************************)
EXTENDS Naturals, Sequences

CONSTANTS
  Processes, Threads, Keys,
  NoProcess,   \* what a thread with no process is attached to
  NoThread,    \* the publisher of a key that is not published
  MaxDepth     \* bound: attachments of one thread at a time

ASSUME NoneAssumption == NoProcess \notin Processes /\ NoThread \notin Threads
ASSUME MaxDepthAssumption == MaxDepth \in Nat

VARIABLES
  phase,     \* of each process: "up", "ended", "unload", "destroy" or "gone"
  sealed,    \* the processes with process->sealed
  entries,   \* process->context.entries: the publisher of each key
  setting,   \* the <<process, key>> that a thread is about to insert
  current,   \* bare_addon__current of each thread
  frames,    \* the attachments of each thread: [process, previous]
  seen       \* history: the <<key, value>> that addons of each process read

registry == <<entries, setting, seen>>
attached == <<current, frames>>
vars     == <<phase, sealed, registry, attached>>

Phases == {"up", "ended", "unload", "destroy", "gone"}
Values == Threads \union {NoThread}
Frame  == [process : Processes, previous : Processes \union {NoProcess}]

TypeOK ==
  /\ phase \in [Processes -> Phases]
  /\ sealed \in SUBSET Processes
  /\ entries \in [Processes -> [Keys -> Values]]
  /\ setting \in [Threads -> (Processes \X Keys) \union {<<>>}]
  /\ current \in [Threads -> Processes \union {NoProcess}]
  /\ frames \in [Threads -> Seq(Frame)]
  /\ \A t \in Threads : Len(frames[t]) <= MaxDepth
  /\ seen \in [Processes -> SUBSET (Keys \X Threads)]

Empty == [k \in Keys |-> NoThread]

Init ==
  /\ phase = [p \in Processes |-> "up"]
  /\ sealed = {}
  /\ entries = [p \in Processes |-> Empty]
  /\ setting = [t \in Threads |-> <<>>]
  /\ current = [t \in Threads |-> NoProcess]
  /\ frames = [t \in Threads |-> <<>>]
  /\ seen = [p \in Processes |-> {}]

InUse == {"up", "ended"}

----------------------------------------------------------------------------
(* bare_context_set() *)

\* The seal is read before the lock of the registry is taken.
SetCheck(t, p, k) ==
  /\ phase[p] \in InUse /\ setting[t] = <<>>
  /\ p \notin sealed
  /\ setting' = [setting EXCEPT ![t] = <<p, k>>]
  /\ UNCHANGED <<phase, sealed, entries, seen, attached>>

\* Variant: the lookup before the insertion is left out.
SetInsertReplaces(t) ==
  LET p == setting[t][1]  k == setting[t][2]
  IN /\ setting[t] # <<>>
     /\ entries' = [entries EXCEPT ![p][k] = t]
     /\ setting' = [setting EXCEPT ![t] = <<>>]
     /\ UNCHANGED <<phase, sealed, seen, attached>>

\* A key that is published stays as it is; otherwise there may be no memory.
SetInsert(t) ==
  LET p == setting[t][1]  k == setting[t][2]
  IN /\ setting[t] # <<>>
     /\ \/ entries[p][k] = NoThread /\ entries' = [entries EXCEPT ![p][k] = t]
        \/ UNCHANGED entries
     /\ setting' = [setting EXCEPT ![t] = <<>>]
     /\ UNCHANGED <<phase, sealed, seen, attached>>

\* bare_seal()
Seal(p) ==
  /\ phase[p] \in InUse
  /\ sealed' = sealed \union {p}
  /\ UNCHANGED <<phase, registry, attached>>

\* bare_context_get(), by an addon of whichever process the thread is in.
Get(t, k) ==
  LET p == current[t]
  IN /\ p # NoProcess /\ entries[p][k] # NoThread
     /\ seen' = [seen EXCEPT ![p] = @ \union {<<k, entries[p][k]>>}]
     /\ UNCHANGED <<phase, sealed, entries, setting, attached>>

----------------------------------------------------------------------------
(* bare_addon_attach() and bare_addon_detach() *)

Push(t, p) ==
  /\ Len(frames[t]) < MaxDepth
  /\ frames' = [frames EXCEPT ![t] =
                  Append(@, [process |-> p, previous |-> current[t]])]
  /\ current' = [current EXCEPT ![t] = p]

\* bare_attach() fails on a process that has terminated ...
Attach(t, p) ==
  /\ phase[p] = "up"
  /\ Push(t, p)
  /\ UNCHANGED <<phase, sealed, registry>>

\* ... while a process may be run, loaded into and exited in any state.
Enter(t, p) ==
  /\ phase[p] \in InUse
  /\ Push(t, p)
  /\ UNCHANGED <<phase, sealed, registry>>

\* Variant: detaching leaves the thread with no process.
PopToNone(t) ==
  /\ frames' = [frames EXCEPT ![t] = SubSeq(@, 1, Len(@) - 1)]
  /\ current' = [current EXCEPT ![t] = NoProcess]

Pop(t) ==
  /\ frames' = [frames EXCEPT ![t] = SubSeq(@, 1, Len(@) - 1)]
  /\ current' = [current EXCEPT ![t] = frames[t][Len(frames[t])].previous]

\* In the reverse order of attaching, as bare_detach() asks for; it refuses a
\* process that is not the one attached.
Detach(t) ==
  LET top == frames[t][Len(frames[t])].process
  IN /\ frames[t] # <<>> /\ phase[top] \in InUse
     /\ current[t] = top
     /\ Pop(t)
     /\ UNCHANGED <<phase, sealed, registry>>

----------------------------------------------------------------------------
(* The end of a process: bare_runtime_teardown() *)

End(p) ==
  /\ phase[p] = "up"
  /\ phase' = [phase EXCEPT ![p] = "ended"]
  /\ UNCHANGED <<sealed, registry, attached>>

\* Variant: the context goes before the addons do.
TeardownContextFirst(t, p) ==
  /\ phase[p] \in InUse
  /\ \A u \in Threads : /\ setting[u] # <<>> => setting[u][1] # p
                        /\ \A i \in 1..Len(frames[u]) : frames[u][i].process # p
  /\ phase' = [phase EXCEPT ![p] = "unload"]
  /\ entries' = [entries EXCEPT ![p] = Empty]
  /\ Push(t, p)
  /\ UNCHANGED <<sealed, setting, seen>>

\* The host has left the process on every thread and calls it no more.  It is
\* attached while its addons are unloaded ...
Teardown(t, p) ==
  /\ phase[p] \in InUse
  /\ \A u \in Threads : /\ setting[u] # <<>> => setting[u][1] # p
                        /\ \A i \in 1..Len(frames[u]) : frames[u][i].process # p
  /\ phase' = [phase EXCEPT ![p] = "unload"]
  /\ Push(t, p)
  /\ UNCHANGED <<sealed, registry>>

\* ... and only then does bare_context_teardown() unlink the entries, to
\* destroy them with the lock released.
Unlink(t, p) ==
  /\ phase[p] = "unload" /\ current[t] = p
  /\ phase' = [phase EXCEPT ![p] = "destroy"]
  /\ entries' = [entries EXCEPT ![p] = Empty]
  /\ UNCHANGED <<sealed, setting, seen, attached>>

\* Variant: the teardown does not detach.
FreeStaysAttached(t, p) ==
  /\ phase[p] = "destroy" /\ current[t] = p
  /\ phase' = [phase EXCEPT ![p] = "gone"]
  /\ sealed' = sealed \ {p}
  /\ seen' = [seen EXCEPT ![p] = {}]
  /\ UNCHANGED <<entries, setting, attached>>

\* The process is freed, and its seal with it.
Free(t, p) ==
  /\ phase[p] = "destroy" /\ current[t] = p
  /\ phase' = [phase EXCEPT ![p] = "gone"]
  /\ sealed' = sealed \ {p}
  /\ seen' = [seen EXCEPT ![p] = {}]
  /\ Pop(t)
  /\ UNCHANGED <<entries, setting>>

\* bare_setup() of another process in its place.
Setup(p) ==
  /\ phase[p] = "gone"
  /\ phase' = [phase EXCEPT ![p] = "up"]
  /\ UNCHANGED <<sealed, registry, attached>>

----------------------------------------------------------------------------
Next ==
  \/ \E p \in Processes : Seal(p) \/ End(p) \/ Setup(p)
  \/ \E t \in Threads : SetInsert(t) \/ Detach(t) \/ \E k \in Keys : Get(t, k)
  \/ \E t \in Threads, p \in Processes :
       \/ Attach(t, p) \/ Enter(t, p)
       \/ Teardown(t, p) \/ Unlink(t, p) \/ Free(t, p)
       \/ \E k \in Keys : SetCheck(t, p, k)

Spec == Init /\ [][Next]_vars

----------------------------------------------------------------------------
(* Properties *)

\* "Nothing can withdraw it while the addon is using it" (bare.h): whatever an
\* addon has read is still what its process has published, whoever else tried to
\* publish the key, up to and including the unloading of the addons.
NeverWithdrawn ==
  \A p \in Processes : phase[p] \in {"up", "ended", "unload"} =>
    \A kv \in seen[p] : entries[p][kv[1]] = kv[2]

\* A thread is attached to the process it entered last and has not left, through
\* any nesting of processes: a lookup never reads another process's context.
InnermostAttached ==
  \A t \in Threads :
    current[t] = IF frames[t] = <<>> THEN NoProcess
                                     ELSE frames[t][Len(frames[t])].process

\* No thread is left attached to a process that is gone, and nothing of that
\* process is left for the one set up in its place.
GoneLeavesNothing ==
  \A p \in Processes : phase[p] = "gone" =>
    /\ p \notin sealed /\ entries[p] = Empty /\ seen[p] = {}
    /\ \A t \in Threads : current[t] # p

(***************************************************************************)
(* The inductive invariant behind these properties: attachments form a     *)
(* chain, a process that is being torn down is attached in one place and   *)
(* one that is gone nowhere, and what a process keeps is given up in the   *)
(* order of the teardown.                                                  *)
(***************************************************************************)
Below(t, i) == IF i = 1 THEN NoProcess ELSE frames[t][i - 1].process

ChainInv == \A t \in Threads : \A i \in 1..Len(frames[t]) :
              frames[t][i].previous = Below(t, i)

HoldsInv ==
  \A t \in Threads : \A i \in 1..Len(frames[t]) :
    /\ phase[frames[t][i].process] # "gone"
    /\ phase[frames[t][i].process] \notin InUse =>
         \A u \in Threads : \A j \in 1..Len(frames[u]) :
           frames[u][j].process = frames[t][i].process => u = t /\ j = i

SettingInv == \A t \in Threads : setting[t] # <<>> => phase[setting[t][1]] \in InUse

EmptyInv == \A p \in Processes :
  /\ phase[p] \in {"destroy", "gone"} => entries[p] = Empty
  /\ phase[p] = "gone" => p \notin sealed /\ seen[p] = {}

IInv == /\ TypeOK /\ ChainInv /\ HoldsInv /\ SettingInv /\ EmptyInv
        /\ NeverWithdrawn /\ InnermostAttached

(* What the documentation says and the code does not do *)

\* "Sealing also freezes the context registry of the process, which may not gain
\* an entry once sealed" (bare.h, bare_seal()).
GainsNothing ==
  \A p \in Processes : p \in sealed =>
    \A k \in Keys : entries[p][k] = NoThread => entries'[p][k] = NoThread

SealFreezes == [][GainsNothing]_vars
=============================================================================
