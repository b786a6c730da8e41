---------------------------- MODULE AddonStore ----------------------------
(***************************************************************************)
(* What a process is promised about its dynamic addons (include/bare.h,    *)
(* bare_seal(), and include/bare/module.h, bare_module_find()): each       *)
(* process has a set of loaded libraries of its own that only grows, that  *)
(* stops growing for good once the process is sealed, and that goes away   *)
(* with the process.  There are no locks, no loader and no threads here;   *)
(* Addons is shown to implement it.                                        *)
(***************************************************************************)
CONSTANTS Processes, Libraries

VARIABLES
  loaded,   \* what each process has loaded
  frozen    \* the processes that are sealed

vars == <<loaded, frozen>>

Init == loaded = [p \in Processes |-> {}] /\ frozen = {}

Load(p, l) ==
  /\ p \notin frozen
  /\ loaded' = [loaded EXCEPT ![p] = @ \union {l}]
  /\ UNCHANGED frozen

Seal(p) == frozen' = frozen \union {p} /\ UNCHANGED loaded

\* The end of a process.  Its addons go first and the seal with the process.
Unload(p) == loaded' = [loaded EXCEPT ![p] = {}] /\ UNCHANGED frozen
Free(p)   == loaded[p] = {} /\ frozen' = frozen \ {p} /\ UNCHANGED loaded

Next == \E p \in Processes :
          Seal(p) \/ Unload(p) \/ Free(p) \/ \E l \in Libraries : Load(p, l)

Spec == Init /\ [][Next]_vars
=============================================================================
