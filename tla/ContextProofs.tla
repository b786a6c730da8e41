--------------------------- MODULE ContextProofs ---------------------------
(***************************************************************************)
(* Proofs about Context, for any processes, threads and keys, and any      *)
(* depth of attachments.  What attaching and detaching do to the frames of *)
(* a thread is stated once, in PushFacts and PopFacts; every part of the   *)
(* inductive invariant IInv then has a lemma of its own.                   *)
(***************************************************************************)
EXTENDS Context, SequenceTheorems, TLAPS

USE DEF vars, registry, attached

----------------------------------------------------------------------------
(* Sequences *)

\* Appending keeps what is there and adds one element.
LEMMA AppendFacts ==
  ASSUME NEW S, NEW s \in Seq(S), NEW e \in S
  PROVE /\ Append(s, e) \in Seq(S)
        /\ Len(Append(s, e)) = Len(s) + 1
        /\ Append(s, e)[Len(s) + 1] = e
        /\ \A i \in 1..Len(s) : Append(s, e)[i] = s[i]
  OBVIOUS

\* Dropping the last element keeps the others.
LEMMA FrontFacts ==
  ASSUME NEW S, NEW s \in Seq(S), s # <<>>
  PROVE /\ Len(s) \in Nat /\ Len(s) > 0
        /\ SubSeq(s, 1, Len(s) - 1) \in Seq(S)
        /\ Len(SubSeq(s, 1, Len(s) - 1)) = Len(s) - 1
        /\ \A i \in 1..(Len(s) - 1) : SubSeq(s, 1, Len(s) - 1)[i] = s[i]
<1>1. Len(s) \in Nat /\ Len(s) > 0
  BY EmptySeq
<1> DEFINE n == Len(s) - 1
<1>2. n \in Nat /\ \A i \in 1..n : s[i] \in S
  BY <1>1, ElementOfSeq
<1> HIDE DEF n
<1>3. /\ SubSeq(s, 1, n) \in Seq(S)
      /\ Len(SubSeq(s, 1, n)) = IF 1 <= n THEN n - 1 + 1 ELSE 0
      /\ \A i \in 1..(n - 1 + 1) : SubSeq(s, 1, n)[i] = s[1 + i - 1]
  BY <1>2, SubSeqProperties
<1>4. Len(SubSeq(s, 1, n)) = n
  BY <1>2, <1>3
<1>5. ASSUME NEW i \in 1..n PROVE SubSeq(s, 1, n)[i] = s[i]
  <2>1. i \in 1..(n - 1 + 1) /\ 1 + i - 1 = i
    BY <1>2
  <2> QED
    BY <1>3, <2>1
<1> QED
  BY <1>1, <1>3, <1>4, <1>5 DEF n

----------------------------------------------------------------------------
(* Attaching and detaching *)

\* bare_addon_attach() adds one frame on top, which remembers what it covers.
LEMMA PushFacts ==
  ASSUME TypeOK, NEW t \in Threads, NEW p \in Processes, Push(t, p)
  PROVE /\ frames' \in [Threads -> Seq(Frame)]
        /\ Len(frames[t]) \in Nat
        /\ Len(frames'[t]) = Len(frames[t]) + 1
        /\ frames'[t][Len(frames[t]) + 1] = [process |-> p, previous |-> current[t]]
        /\ \A i \in 1..Len(frames[t]) : frames'[t][i] = frames[t][i]
        /\ \A u \in Threads \ {t} : frames'[u] = frames[u]
        /\ current' \in [Threads -> Processes \union {NoProcess}]
        /\ current'[t] = p
        /\ \A u \in Threads \ {t} : current'[u] = current[u]
        /\ \A u \in Threads : Len(frames'[u]) <= MaxDepth
<1> DEFINE f == [process |-> p, previous |-> current[t]]
<1>1. frames[t] \in Seq(Frame) /\ f \in Frame
  BY DEF TypeOK, Frame
<1>2. frames' = [frames EXCEPT ![t] = Append(@, f)]
  BY DEF Push
<1>3. frames'[t] = Append(frames[t], f)
  BY <1>2 DEF TypeOK
<1>4. \A u \in Threads \ {t} : frames'[u] = frames[u]
  BY <1>2 DEF TypeOK
<1> HIDE DEF f
<1>5. /\ Append(frames[t], f) \in Seq(Frame)
      /\ Len(Append(frames[t], f)) = Len(frames[t]) + 1
      /\ Append(frames[t], f)[Len(frames[t]) + 1] = f
      /\ \A i \in 1..Len(frames[t]) : Append(frames[t], f)[i] = frames[t][i]
  BY <1>1, AppendFacts
<1>6. frames' \in [Threads -> Seq(Frame)]
  BY <1>2, <1>5 DEF TypeOK
<1>7. Len(frames[t]) \in Nat
  BY <1>1
<1>8. \A u \in Threads : Len(frames'[u]) <= MaxDepth
  BY <1>3, <1>4, <1>5, <1>7, MaxDepthAssumption DEF TypeOK, Push
<1>9. /\ current' \in [Threads -> Processes \union {NoProcess}]
      /\ current'[t] = p
      /\ \A u \in Threads \ {t} : current'[u] = current[u]
  BY DEF TypeOK, Push
<1> QED
  BY <1>3, <1>4, <1>5, <1>6, <1>7, <1>8, <1>9 DEF f

\* bare_addon_detach() takes the top frame off and goes back to what it covers.
LEMMA PopFacts ==
  ASSUME TypeOK, NEW t \in Threads, frames[t] # <<>>, Pop(t)
  PROVE /\ frames' \in [Threads -> Seq(Frame)]
        /\ Len(frames[t]) \in Nat /\ Len(frames[t]) > 0
        /\ Len(frames'[t]) = Len(frames[t]) - 1
        /\ \A i \in 1..(Len(frames[t]) - 1) : frames'[t][i] = frames[t][i]
        /\ \A u \in Threads \ {t} : frames'[u] = frames[u]
        /\ current' \in [Threads -> Processes \union {NoProcess}]
        /\ current'[t] = frames[t][Len(frames[t])].previous
        /\ \A u \in Threads \ {t} : current'[u] = current[u]
        /\ \A u \in Threads : Len(frames'[u]) <= MaxDepth
<1>1. frames[t] \in Seq(Frame)
  BY DEF TypeOK
<1>2. frames' = [frames EXCEPT ![t] = SubSeq(@, 1, Len(@) - 1)]
  BY DEF Pop
<1>3. frames'[t] = SubSeq(frames[t], 1, Len(frames[t]) - 1)
  BY <1>2 DEF TypeOK
<1>4. \A u \in Threads \ {t} : frames'[u] = frames[u]
  BY <1>2 DEF TypeOK
<1>5. /\ Len(frames[t]) \in Nat /\ Len(frames[t]) > 0
      /\ SubSeq(frames[t], 1, Len(frames[t]) - 1) \in Seq(Frame)
      /\ Len(SubSeq(frames[t], 1, Len(frames[t]) - 1)) = Len(frames[t]) - 1
      /\ \A i \in 1..(Len(frames[t]) - 1) :
           SubSeq(frames[t], 1, Len(frames[t]) - 1)[i] = frames[t][i]
  BY <1>1, FrontFacts
<1>6. frames' \in [Threads -> Seq(Frame)]
  BY <1>2, <1>5 DEF TypeOK
<1>7. \A u \in Threads : Len(frames'[u]) <= MaxDepth
  BY <1>3, <1>4, <1>5, MaxDepthAssumption DEF TypeOK
<1>8. frames[t][Len(frames[t])] \in Frame
  BY <1>1, <1>5
<1>9. /\ current' \in [Threads -> Processes \union {NoProcess}]
      /\ current'[t] = frames[t][Len(frames[t])].previous
      /\ \A u \in Threads \ {t} : current'[u] = current[u]
  BY <1>8 DEF TypeOK, Pop, Frame
<1> QED
  BY <1>3, <1>4, <1>5, <1>6, <1>7, <1>9

\* A frame is of a process.
LEMMA FrameFacts ==
  ASSUME TypeOK, NEW t \in Threads, NEW i \in 1..Len(frames[t])
  PROVE frames[t][i].process \in Processes
<1>1. frames[t] \in Seq(Frame)
  BY DEF TypeOK
<1>2. frames[t][i] \in Frame
  BY <1>1, ElementOfSeq
<1> QED
  BY <1>2 DEF Frame

\* A thread that is attached has a frame to take off.
LEMMA AttachedHasFrame ==
  ASSUME TypeOK, InnermostAttached, NEW t \in Threads, NEW p \in Processes,
         current[t] = p
  PROVE /\ frames[t] # <<>>
        /\ Len(frames[t]) \in Nat /\ Len(frames[t]) > 0
        /\ frames[t][Len(frames[t])].process = p
<1>1. frames[t] # <<>>
  BY NoneAssumption DEF InnermostAttached
<1>2. frames[t] \in Seq(Frame)
  BY DEF TypeOK
<1> QED
  BY <1>1, <1>2, FrontFacts DEF InnermostAttached

\* The attachments of a thread change in these ways only.
LEMMA AttachedSteps ==
  ASSUME TypeOK, InnermostAttached, [Next]_vars
  PROVE \/ UNCHANGED attached
        \/ \E t \in Threads, p \in Processes : Push(t, p)
        \/ \E t \in Threads : frames[t] # <<>> /\ Pop(t)
<1>1. CASE UNCHANGED vars
  BY <1>1
<1>2. ASSUME NEW t \in Threads, NEW p \in Processes,
             
             Attach(t, p) \/ Enter(t, p) \/ Teardown(t, p)
      PROVE Push(t, p)
  BY <1>2 DEF Attach, Enter, Teardown
<1>3. ASSUME NEW t \in Threads, Detach(t)
      PROVE frames[t] # <<>> /\ Pop(t)
  BY <1>3 DEF Detach
<1>4. ASSUME NEW t \in Threads, NEW p \in Processes, Free(t, p)
      PROVE frames[t] # <<>> /\ Pop(t)
  BY <1>4, AttachedHasFrame DEF Free
<1>5. ASSUME NEW p \in Processes, Seal(p) \/ End(p) \/ Setup(p)
      PROVE UNCHANGED attached
  BY <1>5 DEF Seal, End, Setup
<1>6. ASSUME NEW t \in Threads, SetInsert(t) \/ \E k \in Keys : Get(t, k)
      PROVE UNCHANGED attached
  BY <1>6 DEF SetInsert, Get
<1>7. ASSUME NEW t \in Threads, NEW p \in Processes,
             Unlink(t, p) \/ \E k \in Keys : SetCheck(t, p, k)
      PROVE UNCHANGED attached
  BY <1>7 DEF Unlink, SetCheck
<1> QED
  BY <1>1, <1>2, <1>3, <1>4, <1>5, <1>6, <1>7 DEF Next

\* What a thread is about to publish is a key of some process.
LEMMA SettingFacts ==
  ASSUME TypeOK, NEW t \in Threads, setting[t] # <<>>
  PROVE setting[t][1] \in Processes /\ setting[t][2] \in Keys
  BY DEF TypeOK

\* The registry changes in these ways only.
LEMMA RegistrySteps ==
  ASSUME [Next]_vars
  PROVE /\ \/ UNCHANGED setting
           \/ \E t \in Threads, p \in Processes, k \in Keys : SetCheck(t, p, k)
           \/ \E t \in Threads : SetInsert(t)
        /\ \/ UNCHANGED entries
           \/ \E t \in Threads : SetInsert(t)
           \/ \E t \in Threads, p \in Processes : Unlink(t, p)
        /\ \/ UNCHANGED seen
           \/ \E t \in Threads, k \in Keys : Get(t, k)
           \/ \E t \in Threads, p \in Processes : Free(t, p)
<1>1. ASSUME NEW p \in Processes, Seal(p) \/ End(p) \/ Setup(p)
      PROVE UNCHANGED registry
  BY <1>1 DEF Seal, End, Setup
<1>2. ASSUME NEW t \in Threads, NEW p \in Processes,
             Attach(t, p) \/ Enter(t, p) \/ Teardown(t, p)
      PROVE UNCHANGED registry
  BY <1>2 DEF Attach, Enter, Teardown
<1>3. ASSUME NEW t \in Threads, Detach(t) PROVE UNCHANGED registry
  BY <1>3 DEF Detach
<1>4. ASSUME NEW t \in Threads, SetInsert(t) PROVE UNCHANGED seen
  BY <1>4 DEF SetInsert
<1>5. ASSUME NEW t \in Threads, NEW k \in Keys, Get(t, k)
      PROVE UNCHANGED <<setting, entries>>
  BY <1>5 DEF Get
<1>6. ASSUME NEW t \in Threads, NEW p \in Processes, NEW k \in Keys,
             SetCheck(t, p, k)
      PROVE UNCHANGED <<entries, seen>>
  BY <1>6 DEF SetCheck
<1>7. ASSUME NEW t \in Threads, NEW p \in Processes, Unlink(t, p)
      PROVE UNCHANGED <<setting, seen>>
  BY <1>7 DEF Unlink
<1>8. ASSUME NEW t \in Threads, NEW p \in Processes, Free(t, p)
      PROVE UNCHANGED <<setting, entries>>
  BY <1>8 DEF Free
<1> QED
  BY <1>1, <1>2, <1>3, <1>4, <1>5, <1>6, <1>7, <1>8 DEF Next

----------------------------------------------------------------------------
(* The parts of the invariant *)

\* Every variable keeps its type.
LEMMA TypeStep == TypeOK /\ InnermostAttached /\ [Next]_vars => TypeOK'
<1> SUFFICES ASSUME TypeOK, InnermostAttached, [Next]_vars PROVE TypeOK'
  OBVIOUS
<1> DEFINE Typed == /\ frames' \in [Threads -> Seq(Frame)]
                    /\ current' \in [Threads -> Processes \union {NoProcess}]
                    /\ \A t \in Threads : Len(frames'[t]) <= MaxDepth
<1>1. Typed
  <2>1. CASE UNCHANGED attached
    BY <2>1 DEF TypeOK
  <2>2. ASSUME NEW t \in Threads, NEW p \in Processes, Push(t, p) PROVE Typed
    BY <2>2, PushFacts
  <2>3. ASSUME NEW t \in Threads, frames[t] # <<>>, Pop(t) PROVE Typed
    BY <2>3, PopFacts
  <2> QED
    BY <2>1, <2>2, <2>3, AttachedSteps
<1>2. phase' \in [Processes -> Phases] /\ sealed' \in SUBSET Processes
  BY DEF TypeOK, Phases, Next, SetCheck, SetInsert, Seal, Get, Attach, Enter, Detach,
         End, Teardown, Unlink, Free, Setup
<1>3. setting' \in [Threads -> (Processes \X Keys) \union {<<>>}]
  <2> DEFINE SettingTyped == setting' \in [Threads -> (Processes \X Keys) \union {<<>>}]
  <2>1. ASSUME NEW t \in Threads, NEW p \in Processes, NEW k \in Keys,
               SetCheck(t, p, k)
        PROVE SettingTyped
    BY <2>1 DEF TypeOK, SetCheck
  <2>2. ASSUME NEW t \in Threads, SetInsert(t) PROVE SettingTyped
    BY <2>2 DEF TypeOK, SetInsert
  <2>3. CASE UNCHANGED setting
    BY <2>3 DEF TypeOK
  <2> QED
    BY <2>1, <2>2, <2>3, RegistrySteps
<1>4. entries' \in [Processes -> [Keys -> Values]]
  <2> DEFINE EntriesTyped == entries' \in [Processes -> [Keys -> Values]]
  <2>1. ASSUME NEW t \in Threads, SetInsert(t) PROVE EntriesTyped
    <3> DEFINE p == setting[t][1]
               k == setting[t][2]
    <3>1. p \in Processes /\ k \in Keys
      BY <2>1, SettingFacts DEF SetInsert
    <3>2. entries' = [entries EXCEPT ![p][k] = t] \/ entries' = entries
      BY <2>1 DEF SetInsert
    <3> HIDE DEF p, k
    <3>3. [entries[p] EXCEPT ![k] = t] \in [Keys -> Values]
      BY <3>1 DEF TypeOK, Values
    <3> QED
      BY <3>1, <3>2, <3>3 DEF TypeOK
  <2>2. ASSUME NEW t \in Threads, NEW p \in Processes, Unlink(t, p)
        PROVE EntriesTyped
    BY <2>2 DEF TypeOK, Unlink, Empty, Values
  <2>3. CASE UNCHANGED entries
    BY <2>3 DEF TypeOK
  <2> QED
    BY <2>1, <2>2, <2>3, RegistrySteps
<1>5. seen' \in [Processes -> SUBSET (Keys \X Threads)]
  <2> DEFINE SeenTyped == seen' \in [Processes -> SUBSET (Keys \X Threads)]
  <2>1. ASSUME NEW t \in Threads, NEW k \in Keys, Get(t, k) PROVE SeenTyped
    <3>1. /\ current[t] \in Processes
          /\ entries[current[t]][k] \in Threads
      BY <2>1 DEF TypeOK, Get, Values
    <3>2. seen' = [seen EXCEPT ![current[t]] = @ \union {<<k, entries[current[t]][k]>>}]
      BY <2>1 DEF Get
    <3> QED
      BY <3>1, <3>2 DEF TypeOK
  <2>2. ASSUME NEW t \in Threads, NEW p \in Processes, Free(t, p) PROVE SeenTyped
    BY <2>2 DEF TypeOK, Free
  <2>3. CASE UNCHANGED seen
    BY <2>3 DEF TypeOK
  <2> QED
    BY <2>1, <2>2, <2>3, RegistrySteps
<1> QED
  BY <1>1, <1>2, <1>3, <1>4, <1>5 DEF TypeOK

\* The chain of frames and the process on top of it go together.
LEMMA AttachStep ==
  TypeOK /\ ChainInv /\ InnermostAttached /\ [Next]_vars
    => ChainInv' /\ InnermostAttached'
<1> SUFFICES ASSUME TypeOK, ChainInv, InnermostAttached, [Next]_vars
             PROVE ChainInv' /\ InnermostAttached'
  OBVIOUS
<1>1. CASE UNCHANGED attached
  BY <1>1 DEF ChainInv, InnermostAttached, Below
<1>2. ASSUME NEW t \in Threads, NEW p \in Processes, Push(t, p)
      PROVE ChainInv' /\ InnermostAttached'
  <2> DEFINE n == Len(frames[t])
  <2>1. /\ frames' \in [Threads -> Seq(Frame)]
        /\ n \in Nat /\ Len(frames'[t]) = n + 1
        /\ frames'[t][n + 1] = [process |-> p, previous |-> current[t]]
        /\ \A i \in 1..n : frames'[t][i] = frames[t][i]
        /\ \A u \in Threads \ {t} : frames'[u] = frames[u]
        /\ current'[t] = p
        /\ \A u \in Threads \ {t} : current'[u] = current[u]
    BY <1>2, PushFacts
  <2>2. frames[t] \in Seq(Frame) /\ frames'[t] # <<>>
    BY <2>1, EmptySeq DEF TypeOK
  <2>3. InnermostAttached'
    BY <2>1, <2>2 DEF InnermostAttached
  <2>4. current[t] = IF n = 0 THEN NoProcess ELSE frames[t][n].process
    BY <2>2, EmptySeq DEF InnermostAttached
  <2> HIDE DEF n
  <2>5. ASSUME NEW i \in 1..(n + 1)
        PROVE frames'[t][i].previous = Below(t, i)'
    <3>1. CASE i = n + 1
      BY <2>1, <2>4, <3>1 DEF Below
    <3>2. CASE i # n + 1
      <4>1. i \in 1..n /\ (i # 1 => i - 1 \in 1..n)
        BY <2>1, <3>2
      <4> QED
        BY <2>1, <4>1 DEF ChainInv, Below, n
    <3> QED
      BY <3>1, <3>2
  <2>6. ASSUME NEW u \in Threads \ {t}, NEW i \in 1..Len(frames'[u])
        PROVE frames'[u][i].previous = Below(u, i)'
    BY <2>1 DEF ChainInv, Below
  <2> QED
    BY <2>1, <2>3, <2>5, <2>6 DEF ChainInv
<1>3. ASSUME NEW t \in Threads, frames[t] # <<>>, Pop(t)
      PROVE ChainInv' /\ InnermostAttached'
  <2> DEFINE n == Len(frames[t])
  <2>1. /\ frames' \in [Threads -> Seq(Frame)]
        /\ n \in Nat /\ n > 0 /\ Len(frames'[t]) = n - 1
        /\ \A i \in 1..(n - 1) : frames'[t][i] = frames[t][i]
        /\ \A u \in Threads \ {t} : frames'[u] = frames[u]
        /\ current'[t] = frames[t][n].previous
        /\ \A u \in Threads \ {t} : current'[u] = current[u]
    BY <1>3, PopFacts
  <2>2. frames[t][n].previous = Below(t, n)
    BY <2>1 DEF ChainInv
  <2>3. frames'[t] = <<>> <=> n = 1
    <3>1. frames'[t] \in Seq(Frame)
      BY <2>1
    <3>2. frames'[t] # <<>> => Len(frames'[t]) \in Nat \ {0}
      BY <3>1, EmptySeq
    <3>3. frames'[t] = <<>> => Len(frames'[t]) = 0
      BY EmptySeq
    <3> HIDE DEF n
    <3> QED
      BY <2>1, <3>2, <3>3
  <2> HIDE DEF n
  <2>4. current'[t] = IF frames'[t] = <<>> THEN NoProcess
                      ELSE frames'[t][Len(frames'[t])].process
    <3>1. CASE n = 1
      BY <2>1, <2>2, <2>3, <3>1 DEF Below
    <3>2. CASE n # 1
      <4>1. n - 1 \in 1..(n - 1)
        BY <2>1, <3>2
      <4> QED
        BY <2>1, <2>2, <2>3, <3>2, <4>1 DEF Below
    <3> QED
      BY <3>1, <3>2
  <2>5. InnermostAttached'
    BY <2>1, <2>4 DEF InnermostAttached
  <2>6. ASSUME NEW i \in 1..(n - 1)
        PROVE frames'[t][i].previous = Below(t, i)'
    <3>1. i \in 1..n /\ (i # 1 => i - 1 \in 1..(n - 1))
      BY <2>1
    <3> QED
      BY <2>1, <3>1 DEF ChainInv, Below, n
  <2>7. ASSUME NEW u \in Threads \ {t}, NEW i \in 1..Len(frames'[u])
        PROVE frames'[u][i].previous = Below(u, i)'
    BY <2>1 DEF ChainInv, Below
  <2> QED
    BY <2>1, <2>5, <2>6, <2>7 DEF ChainInv
<1> QED
  BY <1>1, <1>2, <1>3, AttachedSteps

\* Only what is up is attached to; a process is given up from the one place
\* that is left.
LEMMA HoldsStep ==
  TypeOK /\ ChainInv /\ InnermostAttached /\ HoldsInv /\ [Next]_vars
    => HoldsInv'
<1> SUFFICES ASSUME TypeOK, ChainInv, InnermostAttached, HoldsInv, [Next]_vars
             PROVE HoldsInv'
  OBVIOUS
<1>1. CASE UNCHANGED <<phase, frames>>
  BY <1>1 DEF HoldsInv
<1>2. ASSUME NEW t \in Threads, NEW p \in Processes, Push(t, p),
             \/ phase[p] \in InUse /\ phase' = phase
             \/ /\ phase' = [phase EXCEPT ![p] = "unload"]
                /\ \A u \in Threads : \A i \in 1..Len(frames[u]) :
                     frames[u][i].process # p
      PROVE HoldsInv'
  <2> DEFINE n == Len(frames[t])
  <2>1. /\ n \in Nat /\ Len(frames'[t]) = n + 1
        /\ frames'[t][n + 1].process = p
        /\ \A i \in 1..n : frames'[t][i] = frames[t][i]
        /\ \A u \in Threads \ {t} : frames'[u] = frames[u]
    <3>1. Push(t, p)
      BY <1>2
    <3>2. frames'[t][n + 1] = [process |-> p, previous |-> current[t]]
      BY <3>1, PushFacts
    <3> QED
      BY <3>1, <3>2, PushFacts
  <2>2. phase'[p] # "gone" /\ \A q \in Processes \ {p} : phase'[q] = phase[q]
    BY <1>2 DEF TypeOK, InUse
  <2>3. ASSUME NEW u \in Threads, NEW i \in 1..Len(frames'[u]),
               ~(u = t /\ i = n + 1)
        PROVE /\ i \in 1..Len(frames[u]) /\ frames'[u][i] = frames[u][i]
              /\ frames[u][i].process \in Processes
    <3>1. i \in 1..Len(frames[u]) /\ frames'[u][i] = frames[u][i]
      BY <2>1, <2>3
    <3> QED
      BY <3>1, FrameFacts
  <2> HIDE DEF n
  <2>4. ASSUME NEW u \in Threads, NEW i \in 1..Len(frames'[u])
        PROVE phase'[frames'[u][i].process] # "gone"
    BY <2>1, <2>2, <2>3 DEF HoldsInv
  <2>5. ASSUME NEW u \in Threads, NEW i \in 1..Len(frames'[u]),
               phase'[frames'[u][i].process] \notin InUse,
               NEW v \in Threads, NEW j \in 1..Len(frames'[v]),
               frames'[v][j].process = frames'[u][i].process
        PROVE v = u /\ j = i
    <3>1. CASE frames'[u][i].process = p
      <4>1. \A w \in Threads : \A k \in 1..Len(frames[w]) : frames[w][k].process # p
        BY <1>2, <2>5, <3>1 DEF InUse
      <4> QED
        BY <2>1, <2>3, <2>5, <3>1, <4>1
    <3>2. CASE frames'[u][i].process # p
      <4>1. ~(u = t /\ i = n + 1) /\ ~(v = t /\ j = n + 1)
        BY <2>1, <2>5, <3>2
      <4>2. /\ i \in 1..Len(frames[u]) /\ frames'[u][i] = frames[u][i]
            /\ j \in 1..Len(frames[v]) /\ frames'[v][j] = frames[v][j]
            /\ frames[u][i].process \in Processes
        BY <2>3, <2>5, <4>1
      <4>3. phase[frames[u][i].process] \notin InUse
        BY <2>2, <2>5, <3>2, <4>2
      <4> QED
        BY <2>5, <4>2, <4>3 DEF HoldsInv
    <3> QED
      BY <3>1, <3>2
  <2> QED
    BY <2>4, <2>5 DEF HoldsInv
<1>3. ASSUME NEW t \in Threads, frames[t] # <<>>, Pop(t),
             \/ phase' = phase
             \/ \E p \in Processes : /\ phase[p] = "destroy" /\ current[t] = p
                                    /\ phase' = [phase EXCEPT ![p] = "gone"]
      PROVE HoldsInv'
  <2> DEFINE n == Len(frames[t])
  <2>1. /\ n \in Nat /\ n > 0 /\ Len(frames'[t]) = n - 1
        /\ \A i \in 1..(n - 1) : frames'[t][i] = frames[t][i]
        /\ \A u \in Threads \ {t} : frames'[u] = frames[u]
    <3>1. Pop(t) /\ frames[t] # <<>>
      BY <1>3
    <3> QED
      BY <3>1, PopFacts
  <2>2. ASSUME NEW u \in Threads, NEW i \in 1..Len(frames'[u])
        PROVE /\ i \in 1..Len(frames[u]) /\ frames'[u][i] = frames[u][i]
              /\ ~(u = t /\ i = n)
              /\ frames[u][i].process \in Processes
    <3>1. /\ i \in 1..Len(frames[u]) /\ frames'[u][i] = frames[u][i]
          /\ ~(u = t /\ i = n)
      BY <2>1, <2>2
    <3> QED
      BY <3>1, FrameFacts
  <2>3. ASSUME NEW u \in Threads, NEW i \in 1..Len(frames'[u])
        PROVE phase'[frames'[u][i].process] = phase[frames[u][i].process]
    <3>1. CASE phase' = phase
      BY <2>2, <3>1
    <3>2. ASSUME NEW p \in Processes, phase[p] = "destroy", current[t] = p,
                 phase' = [phase EXCEPT ![p] = "gone"]
          PROVE phase'[frames'[u][i].process] = phase[frames[u][i].process]
      <4>1. n \in 1..n /\ frames[t][n].process = p
        BY <2>1, <3>2, AttachedHasFrame
      <4>2. frames[u][i].process # p
        BY <2>2, <3>2, <4>1 DEF HoldsInv, InUse
      <4> QED
        BY <2>2, <3>2, <4>2 DEF TypeOK
    <3> QED
      BY <1>3, <3>1, <3>2
  <2> HIDE DEF n
  <2>4. ASSUME NEW u \in Threads, NEW i \in 1..Len(frames'[u])
        PROVE phase'[frames'[u][i].process] # "gone"
    BY <2>2, <2>3 DEF HoldsInv
  <2>5. ASSUME NEW u \in Threads, NEW i \in 1..Len(frames'[u]),
               phase'[frames'[u][i].process] \notin InUse,
               NEW v \in Threads, NEW j \in 1..Len(frames'[v]),
               frames'[v][j].process = frames'[u][i].process
        PROVE v = u /\ j = i
    <3>1. /\ i \in 1..Len(frames[u]) /\ frames'[u][i] = frames[u][i]
          /\ j \in 1..Len(frames[v]) /\ frames'[v][j] = frames[v][j]
      BY <2>2, <2>5
    <3>2. phase[frames[u][i].process] \notin InUse
      BY <2>3, <2>5
    <3> QED
      BY <2>5, <3>1, <3>2 DEF HoldsInv
  <2> QED
    BY <2>4, <2>5 DEF HoldsInv
<1>4. ASSUME NEW p \in Processes, UNCHANGED frames,
             \/ phase[p] = "up" /\ phase' = [phase EXCEPT ![p] = "ended"]
             \/ phase[p] = "unload" /\ phase' = [phase EXCEPT ![p] = "destroy"]
             \/ phase[p] = "gone" /\ phase' = [phase EXCEPT ![p] = "up"]
      PROVE HoldsInv'
  <2>1. ASSUME NEW u \in Threads, NEW i \in 1..Len(frames[u])
        PROVE /\ phase'[frames[u][i].process] # "gone"
              /\ phase'[frames[u][i].process] \notin InUse
                   => phase[frames[u][i].process] \notin InUse
    <3>1. frames[u][i].process \in Processes
      BY FrameFacts
    <3>2. phase[frames[u][i].process] # "gone"
      BY DEF HoldsInv
    <3> QED
      BY <1>4, <3>1, <3>2 DEF TypeOK, InUse
  <2> QED
    BY <1>4, <2>1 DEF HoldsInv
<1>5. ASSUME NEW t \in Threads, NEW p \in Processes, Free(t, p) PROVE HoldsInv'
  BY <1>3, <1>5, AttachedHasFrame DEF Free
<1>6. ASSUME NEW t \in Threads, NEW p \in Processes,
             Attach(t, p) \/ Enter(t, p) \/ Teardown(t, p)
      PROVE HoldsInv'
  <2>1. CASE Attach(t, p) \/ Enter(t, p)
    BY <1>2, <2>1 DEF Attach, Enter, InUse
  <2>2. CASE Teardown(t, p)
    BY <1>2, <2>2 DEF Teardown
  <2> QED
    BY <1>6, <2>1, <2>2
<1>7. ASSUME NEW t \in Threads, Detach(t) PROVE HoldsInv'
  BY <1>3, <1>7 DEF Detach
<1>8. ASSUME NEW p \in Processes, End(p) \/ Setup(p) PROVE HoldsInv'
  BY <1>4, <1>8 DEF End, Setup
<1>9. ASSUME NEW t \in Threads, NEW p \in Processes, Unlink(t, p) PROVE HoldsInv'
  BY <1>4, <1>9 DEF Unlink
<1>10. ASSUME NEW p \in Processes, Seal(p) PROVE HoldsInv'
  BY <1>1, <1>10 DEF Seal
<1>11. ASSUME NEW t \in Threads, SetInsert(t) \/ \E k \in Keys : Get(t, k)
       PROVE HoldsInv'
  BY <1>1, <1>11 DEF SetInsert, Get
<1>12. ASSUME NEW t \in Threads, NEW p \in Processes, NEW k \in Keys,
              SetCheck(t, p, k)
       PROVE HoldsInv'
  BY <1>1, <1>12 DEF SetCheck
<1> QED
  BY <1>1, <1>5, <1>6, <1>7, <1>8, <1>9, <1>10, <1>11, <1>12 DEF Next

\* What is about to be published belongs to a process in use: it is not torn
\* down under the thread that publishes.
LEMMA SettingStep == TypeOK /\ SettingInv /\ [Next]_vars => SettingInv'
<1> SUFFICES ASSUME TypeOK, SettingInv, [Next]_vars PROVE SettingInv'
  OBVIOUS
<1>1. ASSUME UNCHANGED setting,
             \A p \in Processes : phase[p] \in InUse =>
               phase'[p] \in InUse \/ \A u \in Threads : setting[u] # <<>> => setting[u][1] # p
      PROVE SettingInv'
  BY <1>1, SettingFacts DEF SettingInv
<1>2. ASSUME NEW t \in Threads, NEW p \in Processes, NEW k \in Keys,
             SetCheck(t, p, k)
      PROVE SettingInv'
  <2>1. /\ UNCHANGED phase /\ phase[p] \in InUse
        /\ setting'[t][1] = p
        /\ \A u \in Threads \ {t} : setting'[u] = setting[u]
    BY <1>2 DEF SetCheck, TypeOK
  <2> QED
    BY <2>1 DEF SettingInv
<1>3. ASSUME NEW t \in Threads, SetInsert(t) PROVE SettingInv'
  <2>1. /\ UNCHANGED phase /\ setting'[t] = <<>>
        /\ \A u \in Threads \ {t} : setting'[u] = setting[u]
    BY <1>3 DEF SetInsert, TypeOK
  <2> QED
    BY <2>1 DEF SettingInv
<1>4. ASSUME NEW p \in Processes, Seal(p) \/ End(p) \/ Setup(p)
      PROVE SettingInv'
  BY <1>1, <1>4 DEF Seal, End, Setup, TypeOK, InUse
<1>5. ASSUME NEW t \in Threads, NEW p \in Processes,
             Attach(t, p) \/ Enter(t, p) \/ Teardown(t, p) \/ Unlink(t, p) \/ Free(t, p)
      PROVE SettingInv'
  BY <1>1, <1>5 DEF Attach, Enter, Teardown, Unlink, Free, TypeOK, InUse
<1>6. ASSUME NEW t \in Threads, Detach(t) \/ \E k \in Keys : Get(t, k)
      PROVE SettingInv'
  BY <1>1, <1>6 DEF Detach, Get
<1>7. CASE UNCHANGED vars
  BY <1>1, <1>7
<1> QED
  BY <1>2, <1>3, <1>4, <1>5, <1>6, <1>7 DEF Next

\* An insertion changes no key that is published.
LEMMA InsertFacts ==
  ASSUME TypeOK, NEW t \in Threads, SetInsert(t)
  PROVE /\ \A p \in Processes : p # setting[t][1] => entries'[p] = entries[p]
        /\ \A p \in Processes : \A k \in Keys :
             entries[p][k] # NoThread => entries'[p][k] = entries[p][k]
<1> DEFINE p == setting[t][1]
           k == setting[t][2]
<1>1. p \in Processes /\ k \in Keys
  BY SettingFacts DEF SetInsert
<1>2. \/ entries[p][k] = NoThread /\ entries' = [entries EXCEPT ![p][k] = t]
      \/ entries' = entries
  BY DEF SetInsert
<1> HIDE DEF p, k
<1>3. CASE entries' = entries
  BY <1>3
<1>4. CASE entries[p][k] = NoThread /\ entries' = [entries EXCEPT ![p][k] = t]
  <2>1. \A q \in Processes \ {p} : entries'[q] = entries[q]
    BY <1>4 DEF TypeOK
  <2>2. \A l \in Keys \ {k} : entries'[p][l] = entries[p][l]
    BY <1>1, <1>4 DEF TypeOK
  <2> QED
    BY <1>1, <1>4, <2>1, <2>2 DEF p
<1> QED
  BY <1>2, <1>3, <1>4 DEF p

\* The entries are given up before the process is, and stay given up.
LEMMA EmptyStep ==
  TypeOK /\ SettingInv /\ HoldsInv /\ InnermostAttached /\ EmptyInv /\ [Next]_vars
    => EmptyInv'
<1> SUFFICES ASSUME TypeOK, SettingInv, HoldsInv, InnermostAttached, EmptyInv,
                    [Next]_vars
             PROVE EmptyInv'
  OBVIOUS
<1>1. CASE UNCHANGED vars
  BY <1>1 DEF EmptyInv
<1>2. ASSUME NEW t \in Threads, SetInsert(t) PROVE EmptyInv'
  <2>1. phase[setting[t][1]] \in InUse /\ UNCHANGED <<phase, sealed, seen>>
    BY <1>2 DEF SetInsert, SettingInv
  <2> QED
    BY <1>2, <2>1, InsertFacts DEF EmptyInv, InUse
<1>3. ASSUME NEW t \in Threads, NEW k \in Keys, Get(t, k) PROVE EmptyInv'
  <2>1. phase[current[t]] # "gone"
    <3>1. current[t] \in Processes
      BY <1>3 DEF TypeOK, Get
    <3>2. /\ Len(frames[t]) \in 1..Len(frames[t])
          /\ frames[t][Len(frames[t])].process = current[t]
      BY <3>1, AttachedHasFrame
    <3> QED
      BY <3>2 DEF HoldsInv
  <2>2. /\ UNCHANGED <<phase, sealed, entries>>
        /\ \A q \in Processes : q # current[t] => seen'[q] = seen[q]
    BY <1>3 DEF Get, TypeOK
  <2> QED
    BY <2>1, <2>2 DEF EmptyInv
<1>4. ASSUME NEW t \in Threads, NEW p \in Processes, Unlink(t, p)
      PROVE EmptyInv'
  <2>1. /\ entries'[p] = Empty /\ phase'[p] = "destroy"
        /\ \A q \in Processes \ {p} : entries'[q] = entries[q] /\ phase'[q] = phase[q]
        /\ UNCHANGED <<sealed, seen>>
    BY <1>4 DEF Unlink, TypeOK
  <2> QED
    BY <2>1 DEF EmptyInv
<1>5. ASSUME NEW t \in Threads, NEW p \in Processes, Free(t, p)
      PROVE EmptyInv'
  <2>1. /\ phase[p] = "destroy" /\ seen'[p] = {} /\ sealed' = sealed \ {p}
        /\ \A q \in Processes \ {p} : seen'[q] = seen[q] /\ phase'[q] = phase[q]
        /\ UNCHANGED entries
    BY <1>5 DEF Free, TypeOK
  <2> QED
    BY <2>1 DEF EmptyInv
<1>6. ASSUME NEW t \in Threads, NEW p \in Processes,
             Attach(t, p) \/ Enter(t, p) \/ Teardown(t, p) \/ \E k \in Keys : SetCheck(t, p, k)
      PROVE EmptyInv'
  <2>1. /\ UNCHANGED <<sealed, entries, seen>>
        /\ \A q \in Processes : phase'[q] = phase[q] \/ phase'[q] = "unload"
    BY <1>6 DEF Attach, Enter, Teardown, SetCheck, TypeOK
  <2> QED
    BY <2>1 DEF EmptyInv
<1>7. ASSUME NEW p \in Processes, End(p) \/ Setup(p) PROVE EmptyInv'
  <2>1. /\ UNCHANGED <<sealed, entries, seen>>
        /\ \A q \in Processes : phase'[q] = phase[q] \/ phase'[q] \in InUse
    BY <1>7 DEF End, Setup, TypeOK, InUse
  <2> QED
    BY <2>1 DEF EmptyInv, InUse
<1>8. ASSUME NEW p \in Processes, Seal(p) PROVE EmptyInv'
  BY <1>8 DEF Seal, EmptyInv, InUse
<1>9. ASSUME NEW t \in Threads, Detach(t) PROVE EmptyInv'
  BY <1>9 DEF Detach, EmptyInv
<1> QED
  BY <1>1, <1>2, <1>3, <1>4, <1>5, <1>6, <1>7, <1>8, <1>9 DEF Next

\* What an addon has read stays published.
LEMMA WithdrawnStep ==
  TypeOK /\ EmptyInv /\ NeverWithdrawn /\ [Next]_vars => NeverWithdrawn'
<1> SUFFICES ASSUME TypeOK, EmptyInv, NeverWithdrawn, [Next]_vars
             PROVE NeverWithdrawn'
  OBVIOUS
<1> DEFINE Published == {"up", "ended", "unload"}
<1>1. ASSUME UNCHANGED <<entries, seen>>,
             \A p \in Processes : phase'[p] \in Published =>
               phase[p] \in Published \/ seen[p] = {}
      PROVE NeverWithdrawn'
  BY <1>1 DEF NeverWithdrawn
<1>2. ASSUME NEW t \in Threads, SetInsert(t) PROVE NeverWithdrawn'
  <2>1. ASSUME NEW p \in Processes, phase'[p] \in Published, NEW kv \in seen'[p]
        PROVE entries'[p][kv[1]] = kv[2]
    <3>1. UNCHANGED <<phase, seen>>
      BY <1>2 DEF SetInsert
    <3>2. kv \in Keys \X Threads
      BY <2>1, <3>1 DEF TypeOK
    <3>3. kv[1] \in Keys /\ kv[2] # NoThread
      BY <3>2, NoneAssumption
    <3>4. entries[p][kv[1]] = kv[2]
      BY <2>1, <3>1 DEF NeverWithdrawn
    <3> QED
      BY <1>2, <3>3, <3>4, InsertFacts
  <2> QED
    BY <2>1 DEF NeverWithdrawn
<1>3. ASSUME NEW t \in Threads, NEW k \in Keys, Get(t, k) PROVE NeverWithdrawn'
  <2> DEFINE new == <<k, entries[current[t]][k]>>
  <2>1. /\ UNCHANGED <<phase, entries>>
        /\ \A q \in Processes : q # current[t] => seen'[q] = seen[q]
        /\ current[t] \in Processes => seen'[current[t]] = seen[current[t]] \union {new}
    BY <1>3 DEF Get, TypeOK
  <2>2. new[1] = k /\ new[2] = entries[current[t]][k]
    OBVIOUS
  <2> HIDE DEF new
  <2> QED
    BY <2>1, <2>2 DEF NeverWithdrawn
<1>4. ASSUME NEW t \in Threads, NEW p \in Processes, Unlink(t, p)
      PROVE NeverWithdrawn'
  <2>1. /\ phase'[p] = "destroy"
        /\ \A q \in Processes \ {p} : entries'[q] = entries[q] /\ phase'[q] = phase[q]
        /\ UNCHANGED seen
    BY <1>4 DEF Unlink, TypeOK
  <2> QED
    BY <2>1 DEF NeverWithdrawn
<1>5. ASSUME NEW t \in Threads, NEW p \in Processes, Free(t, p)
      PROVE NeverWithdrawn'
  <2>1. /\ phase'[p] = "gone"
        /\ \A q \in Processes \ {p} : seen'[q] = seen[q] /\ phase'[q] = phase[q]
        /\ UNCHANGED entries
    BY <1>5 DEF Free, TypeOK
  <2> QED
    BY <2>1 DEF NeverWithdrawn
<1>6. ASSUME NEW t \in Threads, NEW p \in Processes,
             Attach(t, p) \/ Enter(t, p) \/ Teardown(t, p) \/ \E k \in Keys : SetCheck(t, p, k)
      PROVE NeverWithdrawn'
  <2>1. /\ UNCHANGED <<entries, seen>>
        /\ \A q \in Processes : phase'[q] = phase[q] \/ phase[q] \in InUse
    BY <1>6 DEF Attach, Enter, Teardown, SetCheck, TypeOK
  <2> QED
    BY <1>1, <2>1 DEF InUse
<1>7. ASSUME NEW p \in Processes, End(p) \/ Setup(p) PROVE NeverWithdrawn'
  <2>1. /\ UNCHANGED <<entries, seen>>
        /\ \A q \in Processes : phase'[q] = phase[q] \/ phase[q] \in {"up", "gone"}
    BY <1>7 DEF End, Setup, TypeOK
  <2> QED
    BY <1>1, <2>1 DEF EmptyInv
<1>8. ASSUME NEW p \in Processes, Seal(p) PROVE NeverWithdrawn'
  BY <1>1, <1>8 DEF Seal
<1>9. ASSUME NEW t \in Threads, Detach(t) PROVE NeverWithdrawn'
  BY <1>1, <1>9 DEF Detach
<1>10. CASE UNCHANGED vars
  BY <1>1, <1>10
<1> QED
  BY <1>2, <1>3, <1>4, <1>5, <1>6, <1>7, <1>8, <1>9, <1>10 DEF Next

----------------------------------------------------------------------------
(* The theorems *)

\* Nothing is published, read or attached at the start.
LEMMA Start == Init => IInv
<1> SUFFICES ASSUME Init PROVE IInv
  OBVIOUS
<1>1. \A t \in Threads : frames[t] = <<>> /\ Len(frames[t]) = 0
  BY EmptySeq DEF Init
<1>2. TypeOK
  BY <1>1, EmptySeq, MaxDepthAssumption
  DEF Init, TypeOK, Phases, Values, Empty
<1>3. ChainInv /\ HoldsInv
  BY <1>1 DEF ChainInv, HoldsInv
<1>4. SettingInv /\ EmptyInv /\ NeverWithdrawn /\ InnermostAttached
  BY DEF Init, SettingInv, EmptyInv, NeverWithdrawn, InnermostAttached
<1> QED
  BY <1>2, <1>3, <1>4 DEF IInv

\* The inductive invariant of the registry and the attachments holds in every
\* state, for any number of processes, threads and keys.
THEOREM Invariance == Spec => []IInv
<1>1. Init => IInv
  BY Start
<1>2. IInv /\ [Next]_vars => IInv'
  BY TypeStep, AttachStep, HoldsStep, SettingStep, EmptyStep, WithdrawnStep DEF IInv
<1> QED
  BY <1>1, <1>2, PTL DEF Spec

\* Every variable of the registry and of the attachments keeps its type; no
\* thread has more attachments than the bound.
THEOREM TypeCorrect == Spec => []TypeOK
<1>1. IInv => TypeOK
  BY DEF IInv
<1> QED
  BY <1>1, Invariance, PTL

\* bare_context_get() hands out pointers that stay published until the addons
\* are unloaded, however publications, seals and teardowns interleave.
THEOREM ReadsAreNeverWithdrawn == Spec => []NeverWithdrawn
<1>1. IInv => NeverWithdrawn
  BY DEF IInv
<1> QED
  BY <1>1, Invariance, PTL

\* bare_addon__current is the process a thread entered last and has not left.
THEOREM LookupsAreOfTheInnermost == Spec => []InnermostAttached
<1>1. IInv => InnermostAttached
  BY DEF IInv
<1> QED
  BY <1>1, Invariance, PTL

\* bare_teardown() leaves no seal, no entry and no thread's attachment behind
\* for the process that is set up next.
THEOREM TeardownLeavesNothing == Spec => []GoneLeavesNothing
<1>1. ASSUME IInv PROVE GoneLeavesNothing
  <2>1. ASSUME NEW p \in Processes, phase[p] = "gone", NEW t \in Threads,
               current[t] = p
        PROVE FALSE
    <3>1. TypeOK /\ InnermostAttached /\ HoldsInv
      BY <1>1 DEF IInv
    <3>2. /\ Len(frames[t]) \in 1..Len(frames[t])
          /\ frames[t][Len(frames[t])].process = p
      BY <2>1, <3>1, AttachedHasFrame
    <3> QED
      BY <2>1, <3>1, <3>2 DEF HoldsInv
  <2> QED
    BY <1>1, <2>1 DEF IInv, EmptyInv, GoneLeavesNothing
<1> QED
  BY <1>1, Invariance, PTL
=============================================================================
