---------------------------- MODULE AddonProofs ----------------------------
(***************************************************************************)
(* Proofs about Addons: for any processes, threads and libraries, however  *)
(* loads, seals and teardowns meet.                                        *)
(***************************************************************************)
EXTENDS Addons, FiniteSetTheorems, TLAPS

\* All of TypeOK but that no library is closed more often than opened.
TypeInv ==
  /\ pc \in [Threads -> Points]
  /\ arg \in [Threads -> Libraries \union {NoLibrary}]
  /\ loading \in Owners /\ lock \in Owners /\ loader \in Owners
  /\ dynamic \in SUBSET Addon
  /\ static \in SUBSET Linked
  /\ staging \in [Threads -> SUBSET Addon]
  /\ pending \in [Threads -> BOOLEAN]
  /\ unloading \in [Threads -> SUBSET Addon]
  /\ sealed \in SUBSET Processes
  /\ opened \in [Libraries -> Int]

\* Past the lookup and neither published nor undone yet.
InFlight(t) == pc[t] \in {"dlopen", "failed", "resident", "publish"}

\* The load that is in flight has bare_addon__loading, and is of a library that is
\* not on the list for a process that is not sealed.
FlightInv ==
  \A t \in Threads : InFlight(t) =>
    loading = t /\ Home[t] \notin sealed /\ ~Loaded(Home[t], arg[t])

\* What a thread keeps for its load, and from when to when.
StagedInv ==
  \A t \in Threads :
    /\ InFlight(t) \/ pc[t] \in {"load", "close"} => arg[t] \in Libraries
    /\ pending[t] <=> InFlight(t)
    /\ pc[t] \notin {"publish", "failed"} => staging[t] = {}
    /\ \A a \in staging[t] :
         /\ a.owner = Home[t] /\ a.lib = arg[t] /\ ~a.unloads
         /\ a.name \in {a.lib} \union Needs[a.lib]

\* In a teardown there is only its thread left of the process, and once it has
\* unlinked what that loaded nothing comes after it.
TearInv ==
  \A t \in Threads :
    /\ pc[t] \in {"unlink", "unload", "gone"} =>
         t \in Mains /\ \A u \in Threads \ {t} : Home[u] = Home[t] => pc[u] = "ended"
    /\ pc[t] # "unload" => unloading[t] = {}
    /\ \A a \in unloading[t] : a.owner = Home[t]
    /\ pc[t] \in {"unload", "gone"} => \A a \in dynamic : a.owner # Home[t]

\* An addon came out of the library of its load or of one that this needs, and one
\* of those that the load published has the reference.
ListInv ==
  \A a \in dynamic :
    /\ a.name \in {a.lib} \union Needs[a.lib]
    /\ \E b \in dynamic : b.owner = a.owner /\ b.lib = a.lib /\ b.unloads

\* Who will release a reference to a library: addons, and loads.
Keepers(l) ==
  {a \in dynamic \union UNION {unloading[t] : t \in Threads} : a.lib = l /\ a.unloads}
Openers(l) == {t \in Threads : Opened(t) /\ arg[t] = l}

CountInv ==
  \A l \in Libraries :
    /\ IsFiniteSet(Keepers(l)) /\ IsFiniteSet(Openers(l))
    /\ opened[l] = Cardinality(Keepers(l)) + Cardinality(Openers(l))

IInv == TypeInv /\ FlightInv /\ StagedInv /\ TearInv /\ ListInv /\ CountInv

----------------------------------------------------------------------------
(* The initial states *)

LEMMA InitHolds == Init => IInv
<1> SUFFICES ASSUME Init PROVE IInv
  OBVIOUS
<1> USE DEF Init
<1>1. TypeInv
  BY DEF TypeInv, Points, Owners
<1>2. FlightInv /\ StagedInv
  BY DEF FlightInv, StagedInv, InFlight
<1>3. TearInv /\ ListInv
  BY DEF TearInv, ListInv
<1>4. CountInv
  <2> SUFFICES ASSUME NEW l \in Libraries
               PROVE  /\ IsFiniteSet(Keepers(l)) /\ IsFiniteSet(Openers(l))
                      /\ opened[l] = Cardinality(Keepers(l)) + Cardinality(Openers(l))
    BY DEF CountInv
  <2>1. Keepers(l) = {} /\ Openers(l) = {}
    BY DEF Keepers, Openers, Opened
  <2> QED
    BY <2>1, FS_EmptySet
<1> QED
  BY <1>1, <1>2, <1>3, <1>4 DEF IInv

----------------------------------------------------------------------------
(* Steps *)

\* A process has one main thread.
LEMMA MainOfProcess ==
  ASSUME NEW t \in Threads, NEW u \in Mains, Home[u] = Home[t]
  PROVE  MainOf(Home[t]) = u
BY HomeAssumption DEF MainOf

Shape == TypeInv /\ FlightInv /\ StagedInv /\ TearInv /\ ListInv

LEMMA TakeKeepsShape ==
  ASSUME Shape, NEW t \in Threads, Take(t) PROVE Shape'
<1> USE DEF Shape, TypeInv, Take, TakeLoading, TakeLock, TakeLoader, local
<1>1. TypeInv'
  BY DEF Owners
<1>2. FlightInv'
  BY NoneAssumption DEF FlightInv, InFlight, Loaded
<1>3. StagedInv'
  BY DEF StagedInv, InFlight
<1>4. TearInv'
  BY DEF TearInv
<1>5. ListInv'
  BY DEF ListInv
<1> QED
  BY <1>1, <1>2, <1>3, <1>4, <1>5

LEMMA LoadReturnsKeepsShape ==
  ASSUME Shape, NEW t \in Threads, LoadReturns(t) PROVE Shape'
<1> USE DEF Shape, TypeInv, LoadReturns, Return, Goto
<1>1. TypeInv'
  BY DEF Points, Owners
<1>2. FlightInv'
  BY DEF FlightInv, InFlight
<1>3. StagedInv'
  BY DEF StagedInv, InFlight
<1>4. TearInv'
  BY DEF TearInv
<1>5. ListInv'
  BY DEF ListInv
<1> QED
  BY <1>1, <1>2, <1>3, <1>4, <1>5

LEMMA LoadProceedsKeepsShape ==
  ASSUME Shape, NEW t \in Threads, LoadProceeds(t) PROVE Shape'
<1> USE DEF Shape, TypeInv, LoadProceeds, Goto
<1>1. TypeInv'
  BY DEF Points, Owners
<1>2. FlightInv'
  BY DEF FlightInv, InFlight, Loaded
<1>3. StagedInv'
  BY DEF StagedInv, InFlight
<1>4. TearInv'
  BY DEF TearInv
<1>5. ListInv'
  BY DEF ListInv
<1> QED
  BY <1>1, <1>2, <1>3, <1>4, <1>5

\* A constructor that runs in a load stages its addon on the thread.
LEMMA RegisterStages ==
  ASSUME Shape, NEW t \in Threads, InFlight(t),
         NEW ls \in SUBSET ({arg[t]} \union Needs[arg[t]]), Register(t, ls)
  PROVE  staging' \in [Threads -> SUBSET Addon] /\ UNCHANGED static
<1> USE DEF Shape, TypeInv
<1>1. pending[t] /\ arg[t] \in Libraries
  BY DEF StagedInv
<1>2. ls \subseteq Libraries
  BY <1>1, LibraryAssumption
<1>3. \A l \in ls :
        [owner |-> Home[t], lib |-> arg[t], name |-> l, unloads |-> FALSE] \in Addon
  BY <1>1, <1>2, HomeAssumption DEF Addon
<1>4. /\ static' = static
      /\ staging' = [staging EXCEPT ![t] = @ \union
           {[owner |-> Home[t], lib |-> arg[t], name |-> l, unloads |-> FALSE] : l \in ls}]
  BY <1>1 DEF Register
<1> QED
  BY <1>3, <1>4

LEMMA DlopenKeepsShape ==
  ASSUME Shape, NEW t \in Threads, Dlopen(t) PROVE Shape'
<1> USE DEF Shape, TypeInv, Dlopen, Fresh, Register, Goto
<1>1. TypeInv'
  <2>1. staging' \in [Threads -> SUBSET Addon] /\ UNCHANGED static
    <3>1. PICK names \in SUBSET ({arg[t]} \union Needs[arg[t]]) : Register(t, names)
      OBVIOUS
    <3>2. InFlight(t)
      BY DEF InFlight
    <3> HIDE DEF Dlopen, Register
    <3> QED
      BY <3>1, <3>2, RegisterStages
  <2>2. pc' \in [Threads -> Points] /\ opened' \in [Libraries -> Int]
    BY DEF StagedInv, InFlight, Points
  <2> QED
    BY <2>1, <2>2 DEF Owners
<1>2. FlightInv'
  BY DEF FlightInv, InFlight, Loaded
<1>3. StagedInv'
  BY DEF StagedInv, InFlight
<1>4. TearInv'
  BY DEF TearInv
<1>5. ListInv'
  BY DEF ListInv
<1> QED
  BY <1>1, <1>2, <1>3, <1>4, <1>5

LEMMA DlopenFailsKeepsShape ==
  ASSUME Shape, NEW t \in Threads, DlopenFails(t) PROVE Shape'
<1> USE DEF Shape, TypeInv, DlopenFails, Fresh, Register, Goto
<1>1. TypeInv'
  <2>1. staging' \in [Threads -> SUBSET Addon] /\ UNCHANGED static
    <3>1. PICK names \in SUBSET ({arg[t]} \union Needs[arg[t]]) : Register(t, names)
      OBVIOUS
    <3>2. InFlight(t)
      BY DEF InFlight
    <3> HIDE DEF DlopenFails, Register
    <3> QED
      BY <3>1, <3>2, RegisterStages
  <2>2. pc' \in [Threads -> Points]
    BY DEF Points
  <2> QED
    BY <2>1, <2>2 DEF Owners
<1>2. FlightInv'
  BY DEF FlightInv, InFlight, Loaded
<1>3. StagedInv'
  BY DEF StagedInv, InFlight
<1>4. TearInv'
  BY DEF TearInv
<1>5. ListInv'
  BY DEF ListInv
<1> QED
  BY <1>1, <1>2, <1>3, <1>4, <1>5

LEMMA LoadFailsKeepsShape ==
  ASSUME Shape, NEW t \in Threads, LoadFails(t) PROVE Shape'
<1> USE DEF Shape, TypeInv, LoadFails, LoadEnds, Return, Goto
<1>1. TypeInv'
  BY DEF Points, Owners
<1>2. FlightInv'
  BY DEF FlightInv, InFlight
<1>3. StagedInv'
  BY DEF StagedInv, InFlight
<1>4. TearInv'
  BY DEF TearInv
<1>5. ListInv'
  BY DEF ListInv
<1> QED
  BY <1>1, <1>2, <1>3, <1>4, <1>5

LEMMA ResidentFoundKeepsShape ==
  ASSUME Shape, NEW t \in Threads, ResidentFound(t) PROVE Shape'
<1> USE DEF Shape, TypeInv, ResidentFound, Register, First, Goto
<1>1. TypeInv'
  <2>1. PICK a \in First(dynamic, arg[t]) :
          staging' = [staging EXCEPT ![t] = @ \union
            {[owner |-> Home[t], lib |-> arg[t], name |-> a.name, unloads |-> FALSE]}]
    BY DEF StagedInv, InFlight
  <2>2. arg[t] \in Libraries /\ a.name \in Libraries \union Linked
    BY DEF Addon
  <2>3. [owner |-> Home[t], lib |-> arg[t], name |-> a.name, unloads |-> FALSE] \in Addon
    BY HomeAssumption DEF Addon
  <2>4. staging' \in [Threads -> SUBSET Addon]
    BY <2>1, <2>3
  <2>5. pc' \in [Threads -> Points] /\ static' = static
    BY DEF Points, StagedInv, InFlight
  <2> QED
    BY <2>4, <2>5 DEF Owners
<1>2. FlightInv'
  BY DEF FlightInv, InFlight, Loaded
<1>3. StagedInv'
  BY DEF StagedInv, ListInv, InFlight
<1>4. TearInv'
  BY DEF TearInv
<1>5. ListInv'
  BY DEF ListInv
<1> QED
  BY <1>1, <1>2, <1>3, <1>4, <1>5

LEMMA ResidentMissingKeepsShape ==
  ASSUME Shape, NEW t \in Threads, ResidentMissing(t) PROVE Shape'
<1> USE DEF Shape, TypeInv, ResidentMissing, LoadEnds, Goto
<1>1. TypeInv'
  BY DEF Points, Owners
<1>2. FlightInv'
  BY DEF FlightInv, InFlight
<1>3. StagedInv'
  BY DEF StagedInv, InFlight
<1>4. TearInv'
  BY DEF TearInv
<1>5. ListInv'
  BY DEF ListInv
<1> QED
  BY <1>1, <1>2, <1>3, <1>4, <1>5

LEMMA CloseKeepsShape ==
  ASSUME Shape, NEW t \in Threads, Close(t) PROVE Shape'
<1> USE DEF Shape, TypeInv, Close, Return, Goto
<1>1. TypeInv'
  BY DEF StagedInv, Points, Owners
<1>2. FlightInv'
  BY DEF FlightInv, InFlight, Loaded
<1>3. StagedInv'
  BY DEF StagedInv, InFlight
<1>4. TearInv'
  BY DEF TearInv
<1>5. ListInv'
  BY DEF ListInv
<1> QED
  BY <1>1, <1>2, <1>3, <1>4, <1>5

LEMMA PublishKeepsShape ==
  ASSUME Shape, NEW t \in Threads, Publish(t) PROVE Shape'
<1> USE DEF Shape, TypeInv, Publish, First, LoadEnds, Return, Goto
<1>1. PICK head \in First(staging[t], arg[t]) :
        dynamic' = dynamic \union (staging[t] \ {head})
                           \union {[head EXCEPT !.unloads = TRUE]}
  OBVIOUS
<1>2. head \in staging[t] /\ head \in Addon
  OBVIOUS
<1> DEFINE kept == [head EXCEPT !.unloads = TRUE]
<1>3. /\ kept \in Addon /\ kept.owner = Home[t] /\ kept.lib = arg[t] /\ kept.unloads
      /\ kept.name \in {kept.lib} \union Needs[kept.lib]
  BY <1>2 DEF StagedInv, Addon
<1>4. TypeInv'
  <2>1. dynamic' \in SUBSET Addon
    BY <1>1, <1>3
  <2>2. pc' \in [Threads -> Points] /\ arg' \in [Threads -> Libraries \union {NoLibrary}]
    BY DEF Points
  <2>3. /\ staging' \in [Threads -> SUBSET Addon] /\ pending' \in [Threads -> BOOLEAN]
        /\ {loading', lock'} \subseteq Owners
    BY DEF Owners
  <2> QED
    BY <2>1, <2>2, <2>3
<1>5. FlightInv'
  BY DEF FlightInv, InFlight
<1>6. StagedInv'
  BY DEF StagedInv, InFlight
<1>7. TearInv'
  <2>1. \A a \in dynamic' : a \in dynamic \/ a.owner = Home[t]
    BY <1>1, <1>3 DEF StagedInv
  <2> QED
    BY <2>1 DEF TearInv
<1>8. ListInv'
  <2>1. kept \in dynamic' /\ dynamic \subseteq dynamic'
    BY <1>1
  <2>2. \A a \in dynamic' : a \in dynamic \/ a \in staging[t] \/ a = kept
    BY <1>1
  <2>3. ASSUME NEW a \in dynamic, a \in dynamic
        PROVE  /\ a.name \in {a.lib} \union Needs[a.lib]
               /\ \E b \in dynamic' : b.owner = a.owner /\ b.lib = a.lib /\ b.unloads
    BY DEF ListInv
  <2>4. ASSUME NEW a, a \in staging[t] \/ a = kept
        PROVE  /\ a.name \in {a.lib} \union Needs[a.lib]
               /\ \E b \in dynamic' : b.owner = a.owner /\ b.lib = a.lib /\ b.unloads
    BY <1>3, <2>1, <2>4 DEF StagedInv
  <2> QED
    BY <2>2, <2>4 DEF ListInv
<1> QED
  BY <1>4, <1>5, <1>6, <1>7, <1>8

LEMMA SealKeepsShape ==
  ASSUME Shape, NEW t \in Threads, Seal(t) PROVE Shape'
<1> USE DEF Shape, TypeInv, Seal, Goto
<1>1. TypeInv'
  <2>1. Home[t] \in Processes
    BY HomeAssumption
  <2>2. pc' \in [Threads -> Points]
    BY DEF Points
  <2> QED
    BY <2>1, <2>2 DEF Owners
<1>2. FlightInv'
  BY DEF FlightInv, InFlight
<1>3. StagedInv'
  BY DEF StagedInv, InFlight
<1>4. TearInv'
  BY DEF TearInv
<1>5. ListInv'
  BY DEF ListInv
<1> QED
  BY <1>1, <1>2, <1>3, <1>4, <1>5

LEMMA ForeignKeepsShape ==
  ASSUME Shape, NEW t \in Threads, NEW n \in Linked, Foreign(t, n) PROVE Shape'
<1> USE DEF Shape, TypeInv, Foreign, Register, Goto
<1>1. TypeInv'
  BY DEF StagedInv, InFlight, Points, Owners
<1>2. FlightInv'
  BY DEF FlightInv, InFlight, Loaded
<1>3. StagedInv'
  BY DEF StagedInv, InFlight
<1>4. TearInv'
  BY DEF TearInv
<1>5. ListInv'
  BY DEF ListInv
<1> QED
  BY <1>1, <1>2, <1>3, <1>4, <1>5

LEMMA UnlinkKeepsShape ==
  ASSUME Shape, NEW t \in Threads, Unlink(t) PROVE Shape'
<1> USE DEF Shape, TypeInv, Unlink, Goto
<1>1. TypeInv'
  BY DEF Points, Owners
<1>2. FlightInv'
  BY DEF FlightInv, InFlight
<1>3. StagedInv'
  BY DEF StagedInv, InFlight
<1>4. TearInv'
  BY DEF TearInv
<1>5. ListInv'
  BY DEF ListInv
<1> QED
  BY <1>1, <1>2, <1>3, <1>4, <1>5

LEMMA UnloadOneKeepsShape ==
  ASSUME Shape, NEW t \in Threads, UnloadOne(t) PROVE Shape'
<1> USE DEF Shape, TypeInv, UnloadOne
<1>1. TypeInv'
  BY DEF Owners
<1>2. FlightInv'
  BY DEF FlightInv, InFlight, Loaded
<1>3. StagedInv'
  BY DEF StagedInv, InFlight
<1>4. TearInv'
  BY DEF TearInv
<1>5. ListInv'
  BY DEF ListInv
<1> QED
  BY <1>1, <1>2, <1>3, <1>4, <1>5

LEMMA TeardownDoneKeepsShape ==
  ASSUME Shape, NEW t \in Threads, TeardownDone(t) PROVE Shape'
<1> USE DEF Shape, TypeInv, TeardownDone, Goto, locks
<1>1. TypeInv'
  <2>1. sealed' \in SUBSET Processes /\ pc' \in [Threads -> Points]
    BY DEF Points
  <2> QED
    BY <2>1
<1>2. FlightInv'
  <2>1. \A p : p \in sealed' => p \in sealed
    OBVIOUS
  <2>2. \A u \in Threads : InFlight(u)' => InFlight(u)
    BY DEF InFlight
  <2> QED
    BY <2>2 DEF FlightInv, Loaded
<1>3. StagedInv'
  BY DEF StagedInv, InFlight
<1>4. TearInv'
  BY DEF TearInv
<1>5. ListInv'
  BY DEF ListInv
<1> QED
  BY <1>1, <1>2, <1>3, <1>4, <1>5

LEMMA LoadKeepsShape ==
  ASSUME Shape, NEW t \in Threads, NEW l \in Libraries, Load(t, l) PROVE Shape'
<1> USE DEF Shape, TypeInv, Load, Goto, locks
<1>1. TypeInv'
  BY DEF Points
<1>2. FlightInv'
  BY DEF FlightInv, InFlight, Loaded
<1>3. StagedInv'
  BY DEF StagedInv, InFlight
<1>4. TearInv'
  BY DEF TearInv
<1>5. ListInv'
  BY DEF ListInv
<1> QED
  BY <1>1, <1>2, <1>3, <1>4, <1>5

LEMMA StartKeepsShape ==
  ASSUME Shape, NEW t \in Threads,
         SealCall(t) \/ ForeignCall(t) \/ ThreadStart(t) \/ ThreadEnd(t)
  PROVE  Shape'
<1> USE DEF Shape, TypeInv, SealCall, ForeignCall, ThreadStart, ThreadEnd, Move, Goto, locks
<1>1. TypeInv'
  BY DEF Points
<1>2. FlightInv'
  BY DEF FlightInv, InFlight, Loaded
<1>3. StagedInv'
  BY DEF StagedInv, InFlight
<1>4. TearInv'
  <2>1. CASE SealCall(t) \/ ForeignCall(t) \/ ThreadEnd(t)
    BY <2>1 DEF TearInv
  <2>2. ASSUME ThreadStart(t), NEW u \in Mains, Home[u] = Home[t] PROVE pc[u] = "run"
    BY <2>2, MainOfProcess
  <2>3. CASE ThreadStart(t)
    BY <2>2 DEF TearInv
  <2> QED
    BY <2>1, <2>3
<1>5. ListInv'
  BY DEF ListInv
<1> QED
  BY <1>1, <1>2, <1>3, <1>4, <1>5

LEMMA TeardownKeepsShape ==
  ASSUME Shape, NEW t \in Threads, Teardown(t) \/ Setup(t) PROVE Shape'
<1> USE DEF Shape, TypeInv, Teardown, Setup, Move, Goto, locks
<1>1. TypeInv'
  BY DEF Points
<1>2. FlightInv'
  BY DEF FlightInv, InFlight, Loaded
<1>3. StagedInv'
  BY DEF StagedInv, InFlight
<1>4. TearInv'
  BY DEF TearInv
<1>5. ListInv'
  BY DEF ListInv
<1> QED
  BY <1>1, <1>2, <1>3, <1>4, <1>5

----------------------------------------------------------------------------
(* References *)

\* What CountInv says of a library, with the numbers that it adds.
Counts(l) ==
  /\ IsFiniteSet(Keepers(l)) /\ IsFiniteSet(Openers(l))
  /\ Cardinality(Keepers(l)) \in Nat /\ Cardinality(Openers(l)) \in Nat
  /\ opened[l] = Cardinality(Keepers(l)) + Cardinality(Openers(l))

LEMMA CountsAreNat == ASSUME CountInv, NEW l \in Libraries PROVE Counts(l)
BY FS_CardinalityType DEF CountInv, Counts

LEMMA CountKept ==
  ASSUME CountInv, UNCHANGED opened,
         \A l \in Libraries : Keepers(l)' = Keepers(l) /\ Openers(l)' = Openers(l)
  PROVE  CountInv'
BY DEF CountInv

\* A load takes a reference, or gives the one that it took back.
LEMMA OpenerCounted ==
  ASSUME TypeInv, CountInv, NEW k \in Libraries, NEW t \in Threads, t \notin Openers(k),
         opened' = [opened EXCEPT ![k] = @ + 1],
         \A l \in Libraries : /\ Keepers(l)' = Keepers(l)
                              /\ Openers(l)' =
                                   IF l = k THEN Openers(l) \union {t} ELSE Openers(l)
  PROVE  CountInv'
<1> SUFFICES ASSUME NEW l \in Libraries
             PROVE  /\ IsFiniteSet(Keepers(l)') /\ IsFiniteSet(Openers(l)')
                    /\ opened'[l] = Cardinality(Keepers(l)') + Cardinality(Openers(l)')
  BY DEF CountInv
<1> USE DEF Counts
<1>1. Counts(l)
  BY CountsAreNat
<1>2. CASE l = k
  <2>1. /\ IsFiniteSet(Openers(l)')
        /\ Cardinality(Openers(l)') = Cardinality(Openers(l)) + 1
    BY <1>1, <1>2, FS_AddElement
  <2>2. opened'[l] = opened[l] + 1
    BY <1>2 DEF TypeInv
  <2> QED
    BY <1>1, <2>1, <2>2
<1>3. CASE l # k
  BY <1>1, <1>3 DEF TypeInv
<1> QED
  BY <1>2, <1>3

LEMMA CloserCounted ==
  ASSUME TypeInv, CountInv, NEW k \in Libraries, NEW t \in Threads, t \in Openers(k),
         opened' = [opened EXCEPT ![k] = @ - 1],
         \A l \in Libraries : /\ Keepers(l)' = Keepers(l)
                              /\ Openers(l)' =
                                   IF l = k THEN Openers(l) \ {t} ELSE Openers(l)
  PROVE  CountInv'
<1> SUFFICES ASSUME NEW l \in Libraries
             PROVE  /\ IsFiniteSet(Keepers(l)') /\ IsFiniteSet(Openers(l)')
                    /\ opened'[l] = Cardinality(Keepers(l)') + Cardinality(Openers(l)')
  BY DEF CountInv
<1> USE DEF Counts
<1>1. Counts(l)
  BY CountsAreNat
<1>2. CASE l = k
  <2>1. /\ IsFiniteSet(Openers(l)')
        /\ Cardinality(Openers(l)') = Cardinality(Openers(l)) - 1
    BY <1>1, <1>2, FS_RemoveElement
  <2>2. opened'[l] = opened[l] - 1
    BY <1>2 DEF TypeInv
  <2> QED
    BY <1>1, <2>1, <2>2
<1>3. CASE l # k
  BY <1>1, <1>3 DEF TypeInv
<1> QED
  BY <1>2, <1>3

\* An addon that was unloaded has given its reference back.
LEMMA KeeperCounted ==
  ASSUME TypeInv, CountInv, NEW k \in Libraries, NEW a, a \in Keepers(k),
         opened' = [opened EXCEPT ![k] = @ - 1],
         \A l \in Libraries : /\ Keepers(l)' =
                                   IF l = k THEN Keepers(l) \ {a} ELSE Keepers(l)
                              /\ Openers(l)' = Openers(l)
  PROVE  CountInv'
<1> SUFFICES ASSUME NEW l \in Libraries
             PROVE  /\ IsFiniteSet(Keepers(l)') /\ IsFiniteSet(Openers(l)')
                    /\ opened'[l] = Cardinality(Keepers(l)') + Cardinality(Openers(l)')
  BY DEF CountInv
<1> USE DEF Counts
<1>1. Counts(l)
  BY CountsAreNat
<1>2. CASE l = k
  <2>1. /\ IsFiniteSet(Keepers(l)')
        /\ Cardinality(Keepers(l)') = Cardinality(Keepers(l)) - 1
    BY <1>1, <1>2, FS_RemoveElement
  <2>2. opened'[l] = opened[l] - 1
    BY <1>2 DEF TypeInv
  <2> QED
    BY <1>1, <2>1, <2>2
<1>3. CASE l # k
  BY <1>1, <1>3 DEF TypeInv
<1> QED
  BY <1>2, <1>3

\* The reference of a load passes to an addon that it published.
LEMMA PassedOn ==
  ASSUME TypeInv, CountInv, NEW k \in Libraries, NEW a, a \notin Keepers(k),
         NEW t \in Threads, t \in Openers(k), UNCHANGED opened,
         \A l \in Libraries :
           /\ Keepers(l)' = IF l = k THEN Keepers(l) \union {a} ELSE Keepers(l)
           /\ Openers(l)' = IF l = k THEN Openers(l) \ {t} ELSE Openers(l)
  PROVE  CountInv'
<1> SUFFICES ASSUME NEW l \in Libraries
             PROVE  /\ IsFiniteSet(Keepers(l)') /\ IsFiniteSet(Openers(l)')
                    /\ opened'[l] = Cardinality(Keepers(l)') + Cardinality(Openers(l)')
  BY DEF CountInv
<1> USE DEF Counts
<1>1. Counts(l)
  BY CountsAreNat
<1>2. CASE l = k
  <2>1. /\ IsFiniteSet(Keepers(l)')
        /\ Cardinality(Keepers(l)') = Cardinality(Keepers(l)) + 1
    BY <1>1, <1>2, FS_AddElement
  <2>2. /\ IsFiniteSet(Openers(l)')
        /\ Cardinality(Openers(l)') = Cardinality(Openers(l)) - 1
    BY <1>1, <1>2, FS_RemoveElement
  <2> QED
    BY <1>1, <2>1, <2>2
<1>3. CASE l # k
  BY <1>1, <1>3
<1> QED
  BY <1>2, <1>3

\* Steps that no reference depends on: nobody comes to hold one, or ceases to.
LEMMA IdleCount ==
  ASSUME Shape, CountInv, NEW t \in Threads,
         \/ Take(t) \/ LoadReturns(t) \/ LoadProceeds(t) \/ DlopenFails(t) \/ LoadFails(t)
         \/ ResidentFound(t) \/ ResidentMissing(t) \/ Seal(t) \/ TeardownDone(t)
         \/ SealCall(t) \/ ForeignCall(t) \/ ThreadStart(t) \/ ThreadEnd(t)
         \/ Teardown(t) \/ Setup(t)
         \/ (\E n \in Linked : Foreign(t, n)) \/ (\E l \in Libraries : Load(t, l))
  PROVE  CountInv'
<1> USE DEF Shape, TypeInv, Goto
<1>1. UNCHANGED <<opened, dynamic, unloading>>
  BY DEF Take, TakeLoading, TakeLock, TakeLoader, LoadReturns, LoadProceeds, DlopenFails, LoadFails,
         ResidentFound, ResidentMissing, Seal, TeardownDone, SealCall, ForeignCall,
         ThreadStart, ThreadEnd, Teardown, Setup, Move, Foreign, Load, local, locks
<1>2. \A u \in Threads :
        /\ Opened(u)' <=> Opened(u)
        /\ Opened(u) => arg'[u] = arg[u]
  <2>1. CASE Take(t)
    BY <2>1 DEF Take, TakeLoading, TakeLock, TakeLoader, local, Opened
  <2>2. CASE LoadReturns(t) \/ LoadProceeds(t) \/ DlopenFails(t) \/ LoadFails(t)
    BY <2>2 DEF LoadReturns, LoadProceeds, DlopenFails, LoadFails, LoadEnds, Return, Opened
  <2>3. CASE ResidentFound(t) \/ ResidentMissing(t)
    BY <2>3 DEF ResidentFound, ResidentMissing, LoadEnds, Opened
  <2>4. CASE Seal(t) \/ TeardownDone(t) \/ \E n \in Linked : Foreign(t, n)
    BY <2>4 DEF Seal, TeardownDone, Foreign, locks, Opened
  <2>5. CASE \E l \in Libraries : Load(t, l)
    BY <2>5 DEF Load, Opened
  <2>6. CASE \/ SealCall(t) \/ ForeignCall(t) \/ ThreadStart(t) \/ ThreadEnd(t)
             \/ Teardown(t) \/ Setup(t)
    BY <2>6 DEF SealCall, ForeignCall, ThreadStart, ThreadEnd, Teardown, Setup, Move, Opened
  <2> QED
    BY <2>1, <2>2, <2>3, <2>4, <2>5, <2>6
<1>3. \A l \in Libraries : Keepers(l)' = Keepers(l)
  BY <1>1 DEF Keepers
<1>4. \A l \in Libraries : Openers(l)' = Openers(l)
  BY <1>2 DEF Openers
<1> QED
  BY <1>1, <1>3, <1>4, CountKept

LEMMA DlopenCount == ASSUME Shape, CountInv, NEW t \in Threads, Dlopen(t) PROVE CountInv'
<1> USE DEF Shape, TypeInv
<1>1. arg[t] \in Libraries /\ t \notin Openers(arg[t])
  BY DEF Dlopen, StagedInv, InFlight, Openers, Opened
<1>2. /\ opened' = [opened EXCEPT ![arg[t]] = @ + 1]
      /\ UNCHANGED <<dynamic, unloading, arg>>
  BY DEF Dlopen
<1>3. \A u \in Threads : Opened(u)' <=> Opened(u) \/ u = t
  BY DEF Dlopen, Goto, Opened
<1>4. \A l \in Libraries : Keepers(l)' = Keepers(l)
  BY <1>2 DEF Keepers
<1>5. \A l \in Libraries :
        Openers(l)' = IF l = arg[t] THEN Openers(l) \union {t} ELSE Openers(l)
  BY <1>2, <1>3 DEF Openers
<1> QED
  BY <1>1, <1>2, <1>4, <1>5, OpenerCounted

LEMMA CloseCount == ASSUME Shape, CountInv, NEW t \in Threads, Close(t) PROVE CountInv'
<1> USE DEF Shape, TypeInv
<1>1. arg[t] \in Libraries /\ t \in Openers(arg[t])
  BY DEF Close, StagedInv, Openers, Opened
<1>2. /\ opened' = [opened EXCEPT ![arg[t]] = @ - 1]
      /\ UNCHANGED <<dynamic, unloading>>
      /\ \A u \in Threads \ {t} : arg'[u] = arg[u]
  BY DEF Close, Return
<1>3. \A u \in Threads : Opened(u)' <=> Opened(u) /\ u # t
  BY DEF Close, Return, Goto, Opened
<1>4. \A l \in Libraries : Keepers(l)' = Keepers(l)
  BY <1>2 DEF Keepers
<1>5. \A l \in Libraries :
        Openers(l)' = IF l = arg[t] THEN Openers(l) \ {t} ELSE Openers(l)
  BY <1>2, <1>3 DEF Openers
<1> QED
  BY <1>1, <1>2, <1>4, <1>5, CloserCounted

\* What a load publishes is of a process that has none of the library yet, and
\* that nobody is tearing down.
LEMMA PublishCount == ASSUME Shape, CountInv, NEW t \in Threads, Publish(t) PROVE CountInv'
<1> USE DEF Shape, TypeInv
<1>1. arg[t] \in Libraries /\ t \in Openers(arg[t])
  BY DEF Publish, StagedInv, InFlight, Openers, Opened
<1>2. PICK head \in staging[t] :
        dynamic' = dynamic \union (staging[t] \ {head})
                           \union {[head EXCEPT !.unloads = TRUE]}
  BY DEF Publish, First
<1> DEFINE kept == [head EXCEPT !.unloads = TRUE]
<1>3. kept.owner = Home[t] /\ kept.lib = arg[t] /\ kept.unloads
  BY DEF StagedInv, Addon
<1>4. kept \notin dynamic
  BY <1>3 DEF FlightInv, InFlight, Loaded, Publish
<1>5. \A u \in Threads : kept \notin unloading[u]
  BY <1>3 DEF TearInv, Publish
<1>6. kept \notin Keepers(arg[t])
  BY <1>4, <1>5 DEF Keepers
<1>7. UNCHANGED <<opened, unloading>> /\ \A u \in Threads \ {t} : arg'[u] = arg[u]
  BY DEF Publish, Return
<1>8. \A u \in Threads : Opened(u)' <=> Opened(u) /\ u # t
  BY DEF Publish, Return, Goto, Opened
<1>9. \A l \in Libraries :
        Openers(l)' = IF l = arg[t] THEN Openers(l) \ {t} ELSE Openers(l)
  BY <1>7, <1>8 DEF Openers
<1>10. \A a \in staging[t] : ~a.unloads
  BY DEF StagedInv
<1>11. \A l \in Libraries :
         Keepers(l)' = IF l = arg[t] THEN Keepers(l) \union {kept} ELSE Keepers(l)
  BY <1>2, <1>3, <1>7, <1>10 DEF Keepers
<1> QED
  BY <1>1, <1>6, <1>7, <1>9, <1>11, PassedOn

LEMMA UnlinkCount == ASSUME Shape, CountInv, NEW t \in Threads, Unlink(t) PROVE CountInv'
<1> USE DEF Shape, TypeInv
<1> DEFINE own == {a \in dynamic : a.owner = Home[t]}
<1>1. /\ UNCHANGED <<opened, arg>> /\ unloading[t] = {}
      /\ unloading' = [unloading EXCEPT ![t] = own]
      /\ dynamic' = dynamic \ own
  BY DEF Unlink, TearInv
<1>2. UNION {unloading'[u] : u \in Threads} =
        own \union UNION {unloading[u] : u \in Threads}
  BY <1>1
<1>3. \A l \in Libraries : Keepers(l)' = Keepers(l)
  BY <1>1, <1>2 DEF Keepers
<1>4. \A l \in Libraries : Openers(l)' = Openers(l)
  BY DEF Unlink, Goto, Openers, Opened
<1> QED
  BY <1>1, <1>3, <1>4, CountKept

LEMMA UnloadCount == ASSUME Shape, CountInv, NEW t \in Threads, UnloadOne(t) PROVE CountInv'
<1> USE DEF Shape, TypeInv
<1>1. PICK a \in unloading[t] :
        /\ unloading' = [unloading EXCEPT ![t] = @ \ {a}]
        /\ IF a.unloads THEN opened' = [opened EXCEPT ![a.lib] = @ - 1]
                        ELSE UNCHANGED opened
  BY DEF UnloadOne
<1>2. a.lib \in Libraries /\ a.owner = Home[t]
  BY DEF TearInv, Addon
<1>3. a \notin dynamic /\ \A u \in Threads \ {t} : a \notin unloading[u]
  BY <1>2 DEF UnloadOne, TearInv
<1>4. UNCHANGED <<pc, arg, dynamic>>
  BY DEF UnloadOne
<1>5. \A l \in Libraries : Openers(l)' = Openers(l)
  BY <1>4 DEF Openers, Opened
<1>6. \A b : b \in UNION {unloading'[u] : u \in Threads} <=>
                b \in UNION {unloading[u] : u \in Threads} /\ b # a
  BY <1>1, <1>3
<1>7. CASE a.unloads
  <2>1. a \in Keepers(a.lib)
    BY <1>7 DEF Keepers
  <2>2. \A l \in Libraries :
          Keepers(l)' = IF l = a.lib THEN Keepers(l) \ {a} ELSE Keepers(l)
    BY <1>3, <1>4, <1>6 DEF Keepers
  <2> QED
    BY <1>1, <1>2, <1>5, <1>7, <2>1, <2>2, KeeperCounted
<1>8. CASE ~a.unloads
  <2>1. \A l \in Libraries : Keepers(l)' = Keepers(l)
    BY <1>4, <1>6, <1>8 DEF Keepers
  <2> QED
    BY <1>1, <1>5, <1>8, <2>1, CountKept
<1> QED
  BY <1>7, <1>8

----------------------------------------------------------------------------
(* Invariance *)

LEMMA StutterHolds == ASSUME IInv, UNCHANGED vars PROVE IInv'
<1> USE DEF IInv, vars, local, locks
<1>1. TypeInv'
  BY DEF TypeInv
<1>2. FlightInv' /\ StagedInv'
  BY DEF FlightInv, StagedInv, InFlight, Loaded
<1>3. TearInv' /\ ListInv'
  BY DEF TearInv, ListInv
<1>4. CountInv'
  BY CountKept DEF Keepers, Openers, Opened
<1> QED
  BY <1>1, <1>2, <1>3, <1>4

LEMMA NextHolds == IInv /\ [Next]_vars => IInv'
<1> SUFFICES ASSUME IInv, [Next]_vars PROVE IInv'
  OBVIOUS
<1>1. Shape /\ CountInv
  BY DEF IInv, Shape
<1> SUFFICES ASSUME NEW t \in Threads, Busy(t) \/ Take(t) \/ Start(t)
             PROVE  Shape' /\ CountInv'
  BY StutterHolds DEF Next, IInv, Shape
<1>2. CASE Take(t)
  BY <1>1, <1>2, TakeKeepsShape, IdleCount
<1>3. CASE \/ LoadReturns(t) \/ LoadProceeds(t) \/ Dlopen(t) \/ DlopenFails(t)
           \/ LoadFails(t)
  BY <1>1, <1>3, LoadReturnsKeepsShape, LoadProceedsKeepsShape, DlopenKeepsShape,
     DlopenFailsKeepsShape, LoadFailsKeepsShape, IdleCount, DlopenCount
<1>4. CASE ResidentFound(t) \/ ResidentMissing(t) \/ Close(t) \/ Publish(t)
  BY <1>1, <1>4, ResidentFoundKeepsShape, ResidentMissingKeepsShape, CloseKeepsShape,
     PublishKeepsShape, IdleCount, CloseCount, PublishCount
<1>5. CASE Seal(t) \/ \E n \in Linked : Foreign(t, n)
  BY <1>1, <1>5, SealKeepsShape, ForeignKeepsShape, IdleCount
<1>6. CASE Unlink(t) \/ UnloadOne(t) \/ TeardownDone(t)
  BY <1>1, <1>6, UnlinkKeepsShape, UnloadOneKeepsShape, TeardownDoneKeepsShape, IdleCount,
     UnlinkCount, UnloadCount
<1>7. CASE Start(t)
  BY <1>1, <1>7, LoadKeepsShape, StartKeepsShape, TeardownKeepsShape, IdleCount DEF Start
<1> QED
  BY <1>2, <1>3, <1>4, <1>5, <1>6, <1>7 DEF Busy, Loading

\* IInv is inductive: what bare_addon__loading and the staging of a thread keep
\* apart stays apart, and references add up.
THEOREM Invariance == Spec => []IInv
BY InitHolds, NextHolds, PTL DEF Spec

----------------------------------------------------------------------------
(* Properties *)

LEMMA OpenedIsCounted ==
  ASSUME IInv, NEW l \in Libraries
  PROVE  /\ opened[l] \in Nat
         /\ Keepers(l) # {} => opened[l] > 0
<1>1. /\ IsFiniteSet(Keepers(l)) /\ IsFiniteSet(Openers(l))
      /\ opened[l] = Cardinality(Keepers(l)) + Cardinality(Openers(l))
  BY DEF IInv, CountInv
<1>2. Cardinality(Keepers(l)) \in Nat /\ Cardinality(Openers(l)) \in Nat
  BY <1>1, FS_CardinalityType
<1>3. Keepers(l) # {} => Cardinality(Keepers(l)) # 0
  BY <1>1, FS_EmptySet
<1> QED
  BY <1>1, <1>2, <1>3

\* The variables have their types: no library is closed more often than opened.
THEOREM TypeCorrect == Spec => []TypeOK
<1>1. IInv => TypeOK
  <2> SUFFICES ASSUME IInv PROVE TypeOK
    OBVIOUS
  <2>1. opened \in [Libraries -> Nat]
    BY OpenedIsCounted DEF IInv, TypeInv
  <2> QED
    BY <2>1 DEF IInv, TypeInv, TypeOK
<1> QED
  BY <1>1, Invariance, PTL

\* Every reference to a library is released once, by a load that failed or by one
\* of the addons of a load that did not (types.h, unloads).
THEOREM HandlesAlwaysBalanced == Spec => []HandlesBalanced
<1>1. IInv => HandlesBalanced
  BY DEF IInv, CountInv, Keepers, Openers, HandlesBalanced
<1> QED
  BY <1>1, Invariance, PTL

\* The library behind an addon on the list is mapped, whichever processes come and
\* go, and so is the one that the addon came out of.
THEOREM NeverAnyUnmapped == Spec => []NeverUnmapped
<1>1. IInv => NeverUnmapped
  <2> SUFFICES ASSUME IInv, NEW a \in dynamic
               PROVE  opened[a.lib] > 0 /\ Mapped(a.name)
    BY DEF NeverUnmapped
  <2>1. a.lib \in Libraries
    BY DEF IInv, TypeInv, Addon
  <2>2. Keepers(a.lib) # {}
    BY DEF IInv, ListInv, Keepers
  <2>3. opened[a.lib] > 0
    BY <2>1, <2>2, OpenedIsCounted
  <2>4. a.name \in {a.lib} \union Needs[a.lib]
    BY DEF IInv, ListInv
  <2> QED
    BY <2>1, <2>3, <2>4 DEF Mapped
<1> QED
  BY <1>1, Invariance, PTL

\* One load is past the lookup at a time, and of a library that its process does
\* not have.
THEOREM AlwaysLoadedOnce == Spec => []LoadedOnce
<1>1. IInv => LoadedOnce
  BY DEF IInv, FlightInv, StagedInv, InFlight, LoadedOnce
<1> QED
  BY <1>1, Invariance, PTL

\* A load leaves nothing staged on its thread, however it ends.
THEOREM NothingEverLeftStaged == Spec => []NothingLeftStaged
<1>1. IInv => NothingLeftStaged
  BY DEF IInv, StagedInv, InFlight, NothingLeftStaged
<1> QED
  BY <1>1, Invariance, PTL

----------------------------------------------------------------------------
(* The seal, and what a process is promised *)

\* Steps after which every process has the addons and the seal that it had.
Quiet(t) ==
  \/ Take(t) \/ LoadReturns(t) \/ LoadProceeds(t)
  \/ Dlopen(t) \/ DlopenFails(t) \/ LoadFails(t)
  \/ ResidentFound(t) \/ ResidentMissing(t) \/ Close(t) \/ UnloadOne(t) \/ Start(t)
  \/ \E n \in Linked : Foreign(t, n)

LEMMA QuietSteps == ASSUME NEW t \in Threads, Quiet(t) PROVE UNCHANGED <<dynamic, sealed>>
<1>1. CASE Take(t)
  BY <1>1 DEF Take, TakeLoading, TakeLock, TakeLoader
<1>2. CASE LoadReturns(t) \/ LoadProceeds(t)
  BY <1>2 DEF LoadReturns, LoadProceeds
<1>3. CASE Dlopen(t) \/ DlopenFails(t) \/ LoadFails(t)
  BY <1>3 DEF Dlopen, DlopenFails, LoadFails
<1>4. CASE ResidentFound(t) \/ ResidentMissing(t) \/ Close(t) \/ UnloadOne(t)
  BY <1>4 DEF ResidentFound, ResidentMissing, Close, UnloadOne
<1>5. CASE Start(t) \/ \E n \in Linked : Foreign(t, n)
  BY <1>5 DEF Start, SealCall, ForeignCall, Load, ThreadStart, ThreadEnd, Teardown, Setup,
              Move, Foreign
<1> QED
  BY <1>1, <1>2, <1>3, <1>4, <1>5 DEF Quiet

\* What is published is of the library that was loaded, for a process that was not
\* sealed when the lookup was passed, and is not now.
LEMMA PublishAdds ==
  ASSUME IInv, NEW t \in Threads, Publish(t)
  PROVE  /\ Home[t] \in Processes \ sealed /\ arg[t] \in Libraries /\ UNCHANGED sealed
         /\ dynamic \subseteq dynamic'
         /\ \A a \in dynamic' \ dynamic : a.owner = Home[t] /\ a.lib = arg[t]
         /\ \E a \in dynamic' : a.owner = Home[t] /\ a.lib = arg[t]
<1> USE DEF IInv, TypeInv
<1>1. /\ pc[t] = "publish" /\ Home[t] \in Processes \ sealed /\ arg[t] \in Libraries
  BY HomeAssumption DEF Publish, FlightInv, StagedInv, InFlight
<1>2. PICK head \in staging[t] :
        dynamic' = dynamic \union (staging[t] \ {head})
                           \union {[head EXCEPT !.unloads = TRUE]}
  BY DEF Publish, First
<1> DEFINE kept == [head EXCEPT !.unloads = TRUE]
<1>3. kept.owner = Home[t] /\ kept.lib = arg[t]
  BY DEF StagedInv, Addon
<1>4. \A a \in staging[t] : a.owner = Home[t] /\ a.lib = arg[t]
  BY DEF StagedInv
<1> QED
  BY <1>1, <1>2, <1>3, <1>4 DEF Publish

LEMMA SealStep == ASSUME IInv, [Next]_vars PROVE [KeepsSealed]_vars
<1>1. ASSUME NEW t \in Threads, Quiet(t) PROVE KeepsSealed
  BY <1>1, QuietSteps DEF KeepsSealed
<1>2. ASSUME NEW t \in Threads, Seal(t) \/ TeardownDone(t) PROVE KeepsSealed
  BY <1>2 DEF Seal, TeardownDone, KeepsSealed
<1>3. ASSUME NEW t \in Threads, Unlink(t) PROVE KeepsSealed
  BY <1>3 DEF Unlink, KeepsSealed
<1>4. ASSUME NEW t \in Threads, Publish(t) PROVE KeepsSealed
  BY <1>4, PublishAdds DEF KeepsSealed
<1> QED
  BY <1>1, <1>2, <1>3, <1>4 DEF Next, Busy, Loading, Quiet

\* A process that is sealed gains no addon, not even by a load that was in flight.
THEOREM SealAlwaysHolds == Spec => SealHolds
BY SealStep, Invariance, PTL DEF Spec, SealHolds

LoadedBy(p) == {l \in Libraries : Loaded(p, l)}

LEMMA StoreStep == ASSUME IInv, [Next]_vars PROVE [Store!Next]_(Store!vars)
<1> DEFINE loaded == [p \in Processes |-> LoadedBy(p)]
<1>1. ASSUME (\E t \in Threads : Quiet(t)) \/ UNCHANGED vars PROVE UNCHANGED Store!vars
  <2>1. UNCHANGED <<dynamic, sealed>>
    BY <1>1, QuietSteps DEF vars
  <2> QED
    BY <2>1 DEF Store!vars, Loaded
<1>2. ASSUME NEW t \in Threads, Seal(t) PROVE Store!Next
  <2>1. /\ Home[t] \in Processes /\ UNCHANGED dynamic
        /\ sealed' = sealed \union {Home[t]}
    BY <1>2, HomeAssumption DEF Seal
  <2>2. Store!Seal(Home[t])
    BY <2>1 DEF Store!Seal, Loaded
  <2> QED
    BY <2>1, <2>2 DEF Store!Next
<1>3. ASSUME NEW t \in Threads, TeardownDone(t) PROVE Store!Next
  <2>1. /\ Home[t] \in Processes /\ UNCHANGED dynamic
        /\ sealed' = sealed \ {Home[t]}
    BY <1>3, HomeAssumption DEF TeardownDone
  <2>2. loaded[Home[t]] = {}
    BY <1>3, <2>1 DEF TeardownDone, IInv, TearInv, LoadedBy, Loaded
  <2>3. Store!Free(Home[t])
    BY <2>1, <2>2 DEF Store!Free, LoadedBy, Loaded
  <2> QED
    BY <2>1, <2>3 DEF Store!Next
<1>4. ASSUME NEW t \in Threads, Unlink(t) PROVE Store!Next
  <2>1. /\ Home[t] \in Processes /\ UNCHANGED sealed
        /\ dynamic' = {a \in dynamic : a.owner # Home[t]}
    BY <1>4, HomeAssumption DEF Unlink
  <2>2. \A p \in Processes : LoadedBy(p)' = IF p = Home[t] THEN {} ELSE LoadedBy(p)
    BY <2>1 DEF LoadedBy, Loaded
  <2>3. loaded' = [loaded EXCEPT ![Home[t]] = {}]
    BY <2>2
  <2>4. Store!Unload(Home[t])
    BY <2>1, <2>3 DEF Store!Unload, LoadedBy
  <2> QED
    BY <2>1, <2>4 DEF Store!Next
<1>5. ASSUME NEW t \in Threads, Publish(t) PROVE Store!Next
  <2>1. /\ Home[t] \in Processes \ sealed /\ arg[t] \in Libraries /\ UNCHANGED sealed
        /\ dynamic \subseteq dynamic'
        /\ \A a \in dynamic' \ dynamic : a.owner = Home[t] /\ a.lib = arg[t]
        /\ \E a \in dynamic' : a.owner = Home[t] /\ a.lib = arg[t]
    BY <1>5, PublishAdds
  <2>2. \A p \in Processes :
          LoadedBy(p)' = IF p = Home[t] THEN LoadedBy(p) \union {arg[t]} ELSE LoadedBy(p)
    BY <2>1 DEF LoadedBy, Loaded
  <2>3. loaded' = [loaded EXCEPT ![Home[t]] = @ \union {arg[t]}]
    BY <2>2
  <2>4. Store!Load(Home[t], arg[t])
    BY <2>1, <2>3 DEF Store!Load, LoadedBy
  <2> QED
    BY <2>1, <2>4 DEF Store!Next
<1> QED
  BY <1>1, <1>2, <1>3, <1>4, <1>5 DEF Next, Busy, Loading, Quiet

\* The registry with its locks, threads and loader keeps what a process is promised
\* about its addons.
THEOREM AddonsImplementStore == Spec => ImplementsStore
<1>1. Init => Store!Init
  BY DEF Init, Store!Init, Loaded
<1> QED
  BY <1>1, StoreStep, Invariance, PTL DEF Spec, ImplementsStore, Store!Spec

----------------------------------------------------------------------------
(* The order of the locks *)

\* Where a thread holds which lock.
HoldInv ==
  \A t \in Threads :
    /\ loading = t => InFlight(t) \/ pc[t] \in {"load", "seal", "unlink"}
    /\ lock = t => \/ pc[t] \in {"resident", "publish"}
                   \/ pc[t] \in {"load", "seal", "unlink"} /\ loading = t
    /\ loader = t => \/ pc[t] \in {"dlopen", "close", "foreign"}
                     \/ pc[t] = "unload" /\ \E a \in unloading[t] : a.unloads

\* The lock that the next step of a thread takes first; in the loader it is the one
\* that a constructor or destructor takes to register or look up.
AwaitsLoading(t) == pc[t] \in {"load", "seal", "unlink"} /\ loading # t
AwaitsLoader(t) ==
  /\ pc[t] \in {"dlopen", "close", "foreign"}
       \/ (pc[t] = "unload" /\ \E a \in unloading[t] : a.unloads)
  /\ loader # t
AwaitsLock(t) ==
  \/ pc[t] \in {"resident", "publish"} /\ lock # t
  \/ pc[t] \in {"load", "seal", "unlink"} /\ loading = t /\ lock # t
  \/ loader = t /\ lock # t

\* bare_addon__loading comes before the lock of the loader, and that before
\* bare_addon__lock: nobody waits for one that holds it or a later one.
LockOrder ==
  \A t \in Threads :
    /\ AwaitsLoading(t) => t \notin {loading, loader, lock}
    /\ AwaitsLoader(t) => t \notin {loader, lock}
    /\ AwaitsLock(t) => t # lock

\* While a lock is held, one of those who hold one waits for nobody.
SomeoneProceeds ==
  {loading, loader, lock} # {NoThread} =>
    \E t \in Threads \intersect {loading, loader, lock} :
      /\ AwaitsLoading(t) => loading = NoThread
      /\ AwaitsLoader(t) => loader = NoThread
      /\ AwaitsLock(t) => lock = NoThread

LEMMA TakeHolds ==
  ASSUME HoldInv, NEW t \in Threads, Take(t) PROVE HoldInv'
<1> USE NoneAssumption DEF HoldInv, InFlight, local
<1>1. CASE TakeLoading(t)
  BY <1>1 DEF TakeLoading
<1>2. CASE TakeLock(t)
  BY <1>2 DEF TakeLock
<1>3. CASE TakeLoader(t)
  BY <1>3 DEF TakeLoader
<1> QED
  BY <1>1, <1>2, <1>3 DEF Take

LEMMA LoadingHolds ==
  ASSUME TypeInv, HoldInv, FlightInv, NEW t \in Threads, Loading(t) PROVE HoldInv'
<1> USE NoneAssumption DEF TypeInv, HoldInv, InFlight, Goto, Return
<1>1. CASE LoadReturns(t)
  BY <1>1 DEF LoadReturns
<1>2. CASE LoadProceeds(t)
  BY <1>2 DEF LoadProceeds
<1>3. CASE Dlopen(t)
  BY <1>3 DEF Dlopen
<1>4. CASE DlopenFails(t)
  BY <1>4 DEF DlopenFails
<1>5. CASE LoadFails(t)
  BY <1>5 DEF LoadFails, LoadEnds, FlightInv
<1>6. CASE ResidentFound(t)
  BY <1>6 DEF ResidentFound
<1>7. CASE ResidentMissing(t)
  BY <1>7 DEF ResidentMissing, LoadEnds
<1>8. CASE Close(t)
  BY <1>8 DEF Close
<1>9. CASE Publish(t)
  BY <1>9 DEF Publish, LoadEnds
<1> QED
  BY <1>1, <1>2, <1>3, <1>4, <1>5, <1>6, <1>7, <1>8, <1>9 DEF Loading

LEMMA BusyHolds ==
  ASSUME TypeInv, HoldInv, FlightInv, NEW t \in Threads, Busy(t) PROVE HoldInv'
<1> USE NoneAssumption DEF TypeInv, HoldInv, InFlight, Goto
<1>1. CASE Loading(t)
  BY <1>1, LoadingHolds
<1>2. CASE Seal(t)
  BY <1>2 DEF Seal
<1>3. ASSUME NEW n \in Linked, Foreign(t, n) PROVE HoldInv'
  BY <1>3 DEF Foreign
<1>4. CASE Unlink(t)
  BY <1>4 DEF Unlink
<1>5. CASE UnloadOne(t)
  <2>1. PICK a \in unloading[t] :
          /\ unloading' = [unloading EXCEPT ![t] = @ \ {a}]
          /\ IF a.unloads
               THEN loader = t /\ loader' = NoThread
               ELSE loader # t /\ loader' = loader
    BY <1>5 DEF UnloadOne
  <2>2. UNCHANGED <<pc, loading, lock>>
    BY <1>5 DEF UnloadOne
  <2>3. \A u \in Threads : loader' = u => u # t /\ loader = u /\ unloading'[u] = unloading[u]
    BY <2>1
  <2> QED
    BY <2>2, <2>3
<1>6. CASE TeardownDone(t)
  BY <1>6 DEF TeardownDone, locks
<1> QED
  BY <1>1, <1>2, <1>3, <1>4, <1>5, <1>6 DEF Busy

LEMMA StartHolds ==
  ASSUME TypeInv, HoldInv, NEW t \in Threads, Start(t) PROVE HoldInv'
<1>1. /\ UNCHANGED <<locks, unloading>>
      /\ pc[t] \in {"run", "ended", "gone"}
      /\ \A u \in Threads \ {t} : pc'[u] = pc[u]
  BY DEF TypeInv, Start, SealCall, ForeignCall, Load, ThreadStart, ThreadEnd, Teardown, Setup,
         Move, Goto
<1>2. t \notin {loading, lock, loader}
  BY <1>1 DEF HoldInv, InFlight
<1> QED
  BY <1>1, <1>2 DEF HoldInv, InFlight, locks

LEMMA HoldersStay ==
  IInv /\ HoldInv /\ [Next]_vars => HoldInv'
<1> SUFFICES ASSUME IInv, HoldInv, [Next]_vars PROVE HoldInv'
  OBVIOUS
<1>1. CASE UNCHANGED vars
  BY <1>1 DEF HoldInv, InFlight, vars, local, locks
<1>2. ASSUME NEW t \in Threads, Busy(t) \/ Take(t) \/ Start(t) PROVE HoldInv'
  BY <1>2, BusyHolds, TakeHolds, StartHolds DEF IInv
<1> QED
  BY <1>1, <1>2 DEF Next

\* A thread has each of the locks in the calls that take it and nowhere else.
THEOREM HoldersAreInCalls == Spec => []HoldInv
<1>1. Init => HoldInv
  BY NoneAssumption DEF Init, HoldInv, InFlight
<1> QED
  BY <1>1, HoldersStay, Invariance, PTL DEF Spec

\* The three locks are always taken in one order: bare_addon__loading before the
\* lock of the loader, before bare_addon__lock.
THEOREM LocksTakenInOrder == Spec => []LockOrder
<1>1. HoldInv => LockOrder
  BY DEF HoldInv, InFlight, LockOrder, AwaitsLoading, AwaitsLoader, AwaitsLock
<1> QED
  BY <1>1, HoldersAreInCalls, PTL

\* Threads that load, seal and unload never all wait for one another, with the
\* constructors that call back into the registry under the lock of the loader.
THEOREM NeverADeadlock == Spec => []SomeoneProceeds
<1>1. IInv /\ HoldInv => SomeoneProceeds
  <2> SUFFICES ASSUME IInv, HoldInv, {loading, loader, lock} # {NoThread}
               PROVE  \E t \in Threads \intersect {loading, loader, lock} :
                        /\ AwaitsLoading(t) => loading = NoThread
                        /\ AwaitsLoader(t) => loader = NoThread
                        /\ AwaitsLock(t) => lock = NoThread
    BY DEF SomeoneProceeds
  <2> USE DEF HoldInv, InFlight, AwaitsLoading, AwaitsLoader, AwaitsLock
  <2>1. {loading, loader, lock} \subseteq Threads \union {NoThread}
    BY DEF IInv, TypeInv, Owners
  <2>2. CASE lock # NoThread
    <3>1. lock \in Threads /\ ~AwaitsLoading(lock) /\ ~AwaitsLoader(lock) /\ ~AwaitsLock(lock)
      BY <2>1, <2>2
    <3> QED
      BY <3>1
  <2>3. CASE lock = NoThread /\ loader # NoThread
    <3>1. loader \in Threads /\ ~AwaitsLoading(loader) /\ ~AwaitsLoader(loader)
      BY <2>1, <2>3
    <3> QED
      BY <2>3, <3>1
  <2>4. CASE lock = NoThread /\ loader = NoThread
    <3>1. loading \in Threads /\ ~AwaitsLoading(loading)
      BY <2>1, <2>4
    <3> QED
      BY <2>4, <3>1
  <2> QED
    BY <2>2, <2>3, <2>4
<1> QED
  BY <1>1, HoldersAreInCalls, Invariance, PTL
=============================================================================
