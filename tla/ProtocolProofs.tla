--------------------------- MODULE ProtocolProofs ---------------------------
(***************************************************************************)
(* Proofs about read() and list() of Protocol: for every tree of paths,    *)
(* every size of a file, every width of an unsigned int and any number of  *)
(* changes and failures.                                                   *)
(***************************************************************************)
EXTENDS Protocol, FiniteSetTheorems, SequenceTheorems, TLAPS

Sizes ==
  /\ size \in Nat /\ len \in Nat /\ left \in Nat /\ read \in Nat
  /\ changed \in BOOLEAN

\* While the buffer is filled, what was and what is to be read add up to what was
\* asked for; the loop ends with that, or with a file that was changed.
Filling ==
  /\ pc \in {"read", "close", "bytes"} =>
       /\ read + left = len % UInts
       /\ ~changed => len = size
  /\ pc \in {"close", "bytes"} => changed \/ left = 0

ReadInv == Sizes /\ Balanced /\ Filling

----------------------------------------------------------------------------
LEMMA Cut == ASSUME NEW n \in Nat PROVE n % UInts \in 0..n
BY SizesAssumption, SMT

LEMMA InitReads == Init => ReadInv
<1> SUFFICES ASSUME Init PROVE ReadInv
  OBVIOUS
<1>1. /\ pc = "idle" /\ changed = FALSE
      /\ fds = 0 /\ size = 0 /\ len = 0 /\ left = 0 /\ read = 0
  BY DEF Init
<1> QED
  BY <1>1 DEF ReadInv, Sizes, Balanced, Filling, Reading

LEMMA FstatReads == ReadInv /\ Fstat => ReadInv'
<1> SUFFICES ASSUME ReadInv, Fstat PROVE ReadInv'
  OBVIOUS
<1>1. size % UInts \in 0..size
  BY Cut DEF ReadInv, Sizes
<1> QED
  BY <1>1, SMT DEF ReadInv, Sizes, Balanced, Filling, Reading, Fstat

LEMMA ReadSomeReads == ReadInv /\ ReadSome => ReadInv'
<1> SUFFICES ASSUME ReadInv, ReadSome PROVE ReadInv'
  OBVIOUS
<1>1. PICK n \in Got : /\ read' = read + n /\ left' = left - n
                       /\ pc' = IF n = 0 \/ read + n = len THEN "close" ELSE "read"
  BY DEF ReadSome
<1>2. len % UInts \in 0..len
  BY Cut DEF ReadInv, Sizes
<1>3. /\ n \in 0..left
      /\ n = 0 => left = 0 \/ size <= read
  BY SMT DEF Got, Min, ReadInv, Sizes
<1>4. /\ pc = "read" /\ UNCHANGED <<fds, size, len, changed>>
      /\ read + left = len % UInts /\ (~changed => len = size)
  BY DEF ReadSome, ReadInv, Filling
<1>5. Sizes' /\ Balanced'
  BY <1>1, <1>3, <1>4, SMT DEF ReadInv, Sizes, Balanced, Reading
<1>6. read' + left' = len % UInts /\ (~changed => len = size)
  BY <1>1, <1>2, <1>3, <1>4, SMT DEF ReadInv, Sizes
<1>7. pc' = "close" => changed \/ left' = 0
  BY <1>1, <1>2, <1>3, <1>4, SMT DEF ReadInv, Sizes
<1> QED
  BY <1>1, <1>4, <1>5, <1>6, <1>7 DEF ReadInv, Filling

LEMMA FileStepsRead ==
  ASSUME ReadInv, Fail \/ Close \/ OpenFails \/ Return \/ Resize
  PROVE  ReadInv'
<1>1. CASE Fail
  BY <1>1 DEF Fail, file, ReadInv, Sizes, Balanced, Filling, Reading
<1>2. CASE Close
  BY <1>2, SMT DEF Close, ReadInv, Sizes, Balanced, Filling, Reading
<1>3. CASE OpenFails
  BY <1>3 DEF OpenFails, file, ReadInv, Sizes, Balanced, Filling, Reading
<1>4. CASE Return
  BY <1>4 DEF Return, NoFile, Done, ReadInv, Sizes, Balanced, Filling, Reading
<1>5. CASE Resize
  BY <1>5, SizesAssumption, SMT
     DEF Resize, ReadInv, Sizes, Balanced, Filling, Reading
<1> QED
  BY <1>1, <1>2, <1>3, <1>4, <1>5

LEMMA OpensReads == ASSUME ReadInv, NEW p \in Paths, Opens(p) PROVE ReadInv'
BY SizesAssumption, SMT DEF Opens, ReadInv, Sizes, Balanced, Filling, Reading

\* A step that neither comes from read() nor goes there.
LEMMA ElsewhereReads ==
  ASSUME ReadInv, UNCHANGED file,
         pc \notin Reading \union {"bytes"}, pc' \notin Reading \union {"bytes"}
  PROVE  ReadInv'
BY DEF file, ReadInv, Sizes, Balanced, Filling, Reading

LEMMA ListingReads ==
  ASSUME ReadInv,
         \/ Resolve \/ ResolveFails \/ Stat \/ StatFails \/ Scan \/ ScanFails
         \/ Overflows \/ Walk \/ Up \/ ListReturns
  PROVE  ReadInv'
<1>1. UNCHANGED file
  BY DEF Resolve, ResolveFails, Stat, StatFails, Scan, ScanFails, Overflows, Walk,
         Up, ListReturns
<1>2. pc \in Listing
  BY DEF Resolve, ResolveFails, Stat, StatFails, Scan, ScanFails, Overflows, Walk,
         Up, ListReturns, Listing
<1>3. pc' \in Listing \union {"threw", "listed"}
  <2>1. CASE Resolve \/ ResolveFails \/ Stat \/ StatFails
    BY <2>1 DEF Resolve, ResolveFails, Stat, StatFails, Skip, Listing
  <2>2. CASE Scan \/ ScanFails \/ Overflows \/ Up \/ ListReturns
    BY <2>2 DEF Scan, ScanFails, Overflows, Up, ListReturns, Skip, Listing
  <2>3. CASE Walk
    BY <2>3 DEF Walk, Listing
  <2> QED
    BY <2>1, <2>2, <2>3
<1> QED
  BY <1>1, <1>2, <1>3, ElsewhereReads DEF Listing, Reading

LEMMA OthersRead ==
  ASSUME ReadInv, NEW p \in Paths, List(p) \/ \E k \in Kinds : Change(p, k)
  PROVE  ReadInv'
<1>1. UNCHANGED file
  BY DEF List, Change
<1>2. pc \in Listing \union {"idle"} /\ pc' \in Listing
  BY DEF List, Change, Listing
<1> QED
  BY <1>1, <1>2, ElsewhereReads DEF Listing, Reading

LEMMA StutterReads == ReadInv /\ UNCHANGED vars => ReadInv'
BY DEF vars, file, ReadInv, Sizes, Balanced, Filling

LEMMA NextReads == ReadInv /\ [Next]_vars => ReadInv'
BY FstatReads, ReadSomeReads, FileStepsRead, OpensReads, ListingReads, OthersRead,
   StutterReads DEF Next, Steps

----------------------------------------------------------------------------
\* ReadInv is inductive: what bare_runtime__read() has filled and has left to fill
\* add up from fstat() to the last read.
THEOREM ReadsAddUp == Spec => []ReadInv
BY InitReads, NextReads, PTL DEF Spec

\* However calls of libuv fail, a script leaves no file open, and closes none twice.
THEOREM FilesAreClosed == Spec => []Balanced
BY ReadsAddUp, PTL DEF ReadInv

\* A file that nobody changed is read whole, up to what an unsigned int can say.
THEOREM ReadsAreWhole == Spec => []ReadIsWhole
<1>1. ReadInv => ReadIsWhole
  BY SizesAssumption, SMT DEF ReadInv, Sizes, Filling, ReadIsWhole
<1> QED
  BY <1>1, ReadsAddUp, PTL

\* What is asked of a read fits into what is left of the buffer.
Fits == pc = "read" => read + left <= len

\* No read runs past the end of the buffer, whatever becomes of the file.
THEOREM ReadsFit == Spec => []Fits
<1>1. ReadInv => Fits
  <2> SUFFICES ASSUME ReadInv, pc = "read" PROVE read + left <= len
    BY DEF Fits
  <2>1. len % UInts \in 0..len
    BY Cut DEF ReadInv, Sizes
  <2> QED
    BY <2>1, SMT DEF ReadInv, Sizes, Filling
<1> QED
  BY <1>1, ReadsAddUp, PTL

----------------------------------------------------------------------------
(* Where paths lead *)

\* A spread holds where it starts, goes on to what is next, and no set that does so is
\* smaller.
LEMMA SpreadHolds ==
  ASSUME NEW S \in SUBSET Paths, NEW next PROVE S \subseteq Spread(S, next)
BY DEF Spread

LEMMA SpreadGoesOn ==
  ASSUME NEW S, NEW next, NEW p \in Spread(S, next), NEW q \in next[p] \intersect Paths
  PROVE  q \in Spread(S, next)
<1> SUFFICES ASSUME NEW T \in SUBSET (Paths \ {q}), S \subseteq T,
                    \A o \in T : next[o] \subseteq T
             PROVE  FALSE
  BY DEF Spread
<1>1. p \in T
  <2> SUFFICES ASSUME p \notin T PROVE FALSE
    OBVIOUS
  <2>1. T \in SUBSET (Paths \ {p})
    OBVIOUS
  <2> QED
    BY <2>1 DEF Spread
<1> QED
  BY <1>1

LEMMA SpreadLeast ==
  ASSUME NEW S, NEW next, NEW T, S \intersect Paths \subseteq T, S \subseteq Paths,
         \A p \in T \intersect Paths : next[p] \subseteq T \intersect Paths
  PROVE  Spread(S, next) \subseteq T
<1> SUFFICES ASSUME NEW p \in Spread(S, next), p \notin T PROVE FALSE
  OBVIOUS
<1>1. T \intersect Paths \in SUBSET (Paths \ {p})
  OBVIOUS
<1> QED
  BY <1>1 DEF Spread

LEMMA SpreadPaths == ASSUME NEW S, NEW next PROVE Spread(S, next) \subseteq Paths
BY DEF Spread

----------------------------------------------------------------------------
Stack == Seq(SUBSET (Paths \X (Kinds \union {"unknown"})))

\* What is below a directory goes on below, and never up to it again.
LEMMA ChildrenBelow ==
  ASSUME NEW d \in Paths
  PROVE  /\ Children[d] \subseteq Below[d] /\ Below[d] \subseteq Paths
         /\ \A p \in Below[d] : Children[p] \subseteq Below[d]
         /\ d \notin Below[d]
<1>1. \A p \in Paths : Children[p] \subseteq Paths
  BY DEF Children
<1>2. Below[d] = Spread(Children[d], Children)
  BY DEF Below
<1> QED
  BY <1>1, <1>2, SpreadHolds, SpreadGoesOn, SpreadPaths, TreeAssumption

\* Nothing is left in what is no directory any more.
LEMMA ChangeConsistent ==
  ASSUME Consistent(fs), NEW p \in Paths, NEW k \in Kinds, Change(p, k)
  PROVE  Consistent(fs')
<1>1. fs' = [q \in Paths |-> IF q = p THEN k
                           ELSE IF k # "dir" /\ q \in Below[p] THEN "none"
                           ELSE fs[q]]
  BY DEF Change
<1>2. \A q \in Paths : fs'[q] \in Possible(q)
  <2>1. \A q \in Paths : "none" \in Possible(q)
    BY DEF Possible
  <2>2. k \in Possible(p)
    BY DEF Change
  <2> QED
    BY <1>1, <2>1, <2>2 DEF Consistent
<1>3. ASSUME NEW d \in Paths, fs'[d] # "dir", NEW q \in Children[d], fs'[q] # "none"
      PROVE  FALSE
  <2>1. q \in Paths /\ q # d /\ Parent[q] = d
    BY DEF Children
  <2>2. CASE d = p
    <3>1. q \in Below[p]
      BY <2>2, ChildrenBelow
    <3>2. k # "dir" /\ q # p
      BY <1>1, <1>3, <2>1, <2>2
    <3> QED
      BY <1>1, <1>3, <2>1, <3>1, <3>2
  <2>3. CASE d # p /\ q = p
    <3>1. fs'[p] = k
      BY <1>1
    <3>2. fs[d] = "dir"
      BY <1>3, <2>1, <2>3, <3>1 DEF Change
    <3>3. d \in Below[p]
      BY <1>1, <1>3, <2>3, <3>2
    <3> QED
      BY <2>3, <3>3, ChildrenBelow
  <2>4. CASE d # p /\ q # p
    <3>1. ~(k # "dir" /\ q \in Below[p])
      BY <1>1, <1>3, <2>1, <2>4
    <3>2. ~(k # "dir" /\ d \in Below[p])
      BY <3>1, ChildrenBelow
    <3>3. fs[d] # "dir" /\ fs[q] # "none"
      BY <1>1, <1>3, <2>1, <2>4, <3>1, <3>2
    <3> QED
      BY <3>3 DEF Consistent
  <2> QED
    BY <2>2, <2>3, <2>4
<1> QED
  BY <1>2, <1>3 DEF Consistent

----------------------------------------------------------------------------
(* realpath() *)

\* The links from a path on are followed as far as they lead.
LEMMA FollowClosed ==
  ASSUME to \in [LinkPaths -> Paths], Consistent(fs), NEW p \in Paths
  PROVE  /\ p \in Follow(p) /\ Follow(p) \subseteq Paths
         /\ \A q \in Follow(p) : fs[q] = "link" => to[q] \in Follow(p)
<1>1. p \in Follow(p) /\ Follow(p) \subseteq Paths
  BY SpreadHolds, SpreadPaths DEF Follow
<1>2. ASSUME NEW q \in Follow(p), fs[q] = "link" PROVE to[q] \in Follow(p)
  <2>1. q \in LinkPaths
    BY <1>1, <1>2 DEF Consistent, Possible
  <2>2. to[q] \in Target[q] \intersect Paths
    BY <1>1, <1>2, <2>1 DEF Target
  <2> QED
    BY <2>2, SpreadGoesOn DEF Follow
<1> QED
  BY <1>1, <1>2

LEMMA FollowLeast ==
  ASSUME NEW p \in Paths, NEW T \in SUBSET Paths, p \in T,
         \A q \in T : fs[q] = "link" => to[q] \in T
  PROVE  Follow(p) \subseteq T
<1>1. \A q \in T \intersect Paths : Target[q] \subseteq T \intersect Paths
  BY DEF Target
<1> QED
  BY <1>1, SpreadLeast DEF Follow

Ends(p) == {q \in Follow(p) : fs[q] \notin {"none", "link"}}

\* A link points one way.
LEMMA OneEnd ==
  ASSUME to \in [LinkPaths -> Paths], Consistent(fs), NEW p \in Paths,
         NEW e \in Ends(p), NEW f \in Ends(p)
  PROVE  e = f
<1> DEFINE T == {q \in Follow(p) : e \in Follow(q)}
<1>1. \A q \in Follow(p) : q \in Paths
  BY FollowClosed
<1>2. p \in T
  BY FollowClosed DEF Ends
<1>3. ASSUME NEW q \in T, fs[q] = "link" PROVE to[q] \in T
  <2>1. to[q] \in Follow(p)
    BY <1>3, FollowClosed
  <2> DEFINE B == {q} \union Follow(to[q])
  <2>2. \A o \in B : fs[o] = "link" => to[o] \in B
    BY <1>1, <2>1, FollowClosed
  <2>3. B \in SUBSET Paths
    BY <1>1, <2>1, FollowClosed
  <2> HIDE DEF B
  <2>4. Follow(q) \subseteq B
    BY <1>1, <2>2, <2>3, FollowLeast DEF B
  <2> QED
    BY <1>3, <2>1, <2>4 DEF B, Ends
<1>4. Follow(p) \subseteq T
  <2> HIDE DEF T
  <2>1. T \in SUBSET Paths
    BY <1>1 DEF T
  <2> QED
    BY <1>2, <1>3, <2>1, FollowLeast
<1>5. Follow(f) \subseteq {f}
  BY <1>1, FollowLeast DEF Ends
<1> QED
  BY <1>4, <1>5 DEF Ends

\* Real is that end.
LEMMA RealIsEnd ==
  ASSUME to \in [LinkPaths -> Paths], Consistent(fs), NEW p \in Paths
  PROVE  /\ Real(p) # NoPath => Real(p) \in Ends(p) /\ Real(p) \in Paths
         /\ \A e \in Ends(p) : Real(p) = e
<1>1. Real(p) = IF Ends(p) = {} THEN NoPath ELSE CHOOSE q \in Ends(p) : TRUE
  BY DEF Real, Ends
<1> HIDE DEF Real
<1>2. Ends(p) \subseteq Paths
  BY FollowClosed DEF Ends
<1> QED
  BY <1>1, <1>2, OneEnd, TreeAssumption

----------------------------------------------------------------------------
(* What is reached *)

\* Reached(p, W) is the least part of W that holds p and goes on within W.
LEMMA ReachedClosed ==
  ASSUME NEW W \in SUBSET Paths, NEW p
  PROVE  /\ Reached(p, W) \subseteq W
         /\ p \in W => p \in Reached(p, W)
         /\ \A q \in Reached(p, W) : Leads[q] \intersect W \subseteq Reached(p, W)
<1>1. Reached(p, W) \subseteq W
  <2>1. \A q \in W \intersect Paths : Inside(Leads, W)[q] \subseteq W \intersect Paths
    BY DEF Inside
  <2> QED
    BY <2>1, SpreadLeast DEF Reached
<1>2. p \in W => p \in Reached(p, W)
  BY SpreadHolds DEF Reached
<1>3. ASSUME NEW q \in Reached(p, W), NEW o \in Leads[q] \intersect W
      PROVE  o \in Reached(p, W)
  <2>1. o \in Inside(Leads, W)[q] \intersect Paths
    BY <1>1 DEF Inside
  <2> QED
    BY <2>1, SpreadGoesOn DEF Reached
<1> QED
  BY <1>1, <1>2, <1>3

LEMMA ReachedLeast ==
  ASSUME NEW W \in SUBSET Paths, NEW p, NEW T, p \in W => p \in T,
         \A q \in T \intersect W : Leads[q] \intersect W \subseteq T
  PROVE  Reached(p, W) \subseteq T
<1>1. \A q \in T \intersect Paths : Inside(Leads, W)[q] \subseteq T \intersect Paths
  BY DEF Inside
<1> QED
  BY <1>1, SpreadLeast DEF Reached

\* What is no directory and no link leads nowhere.
LEMMA ReachedPlain ==
  ASSUME NEW W \in SUBSET Paths, NEW p \in Paths, fs[p] \notin {"dir", "link"}
  PROVE  Reached(p, W) \subseteq {p}
<1>1. Leads[p] = {}
  BY DEF Leads, Target
<1> QED
  BY <1>1, ReachedLeast

\* A path in a directory is reached by way of an entry, and not back by way of the
\* directory.
LEMMA ReachedEntry ==
  ASSUME NEW W \in SUBSET Paths, NEW d \in Paths, fs[d] = "dir",
         NEW f \in Reached(d, W), f # d
  PROVE  d \in W /\ \E c \in Children[d] : f \in Reached(c, W \ {d})
<1> DEFINE T == {d} \union {g \in Paths : \E c \in Children[d] : g \in Reached(c, W \ {d})}
<1>1. Leads[d] = Children[d]
  BY DEF Leads
<1>2. ASSUME NEW q \in T \intersect W, NEW o \in Leads[q] \intersect W PROVE o \in T
  <2>1. CASE o = d
    BY <2>1
  <2>2. CASE o # d /\ q = d
    BY <1>1, <2>2, ReachedClosed
  <2>3. CASE o # d /\ q # d
    <3>1. PICK c \in Children[d] : q \in Reached(c, W \ {d})
      BY <2>3
    <3>2. o \in Reached(c, W \ {d})
      BY <2>3, <3>1, ReachedClosed
    <3> QED
      BY <3>2
  <2> QED
    BY <2>1, <2>2, <2>3
<1>3. f \in T
  <2> HIDE DEF T
  <2>1. d \in T
    BY DEF T
  <2> QED
    BY <1>2, <2>1, ReachedLeast
<1>4. d \in W
  <2> DEFINE N == {g \in W : d \in W}
  <2>1. d \in W => d \in N
    OBVIOUS
  <2>2. \A q \in N \intersect W : Leads[q] \intersect W \subseteq N
    OBVIOUS
  <2>3. f \in N => d \in W
    OBVIOUS
  <2> HIDE DEF N
  <2> QED
    BY <2>1, <2>2, <2>3, ReachedLeast
<1> QED
  BY <1>3, <1>4

\* The links to go by that are within a set.
Followed(p, W) == Spread({p} \intersect W, Inside(Target, W))

LEMMA FollowedClosed ==
  ASSUME NEW W \in SUBSET Paths, NEW p \in Paths, to \in [LinkPaths -> Paths], Consistent(fs)
  PROVE  /\ Followed(p, W) \subseteq W \intersect Follow(p)
         /\ p \in W => p \in Followed(p, W)
         /\ \A q \in Followed(p, W) : Target[q] \intersect W \subseteq Followed(p, W)
<1> DEFINE B == W \intersect Follow(p)
<1>1. p \in W => p \in Followed(p, W)
  BY SpreadHolds DEF Followed
<1>2. Followed(p, W) \subseteq B
  <2>1. ASSUME NEW q \in B \intersect Paths, NEW o \in Inside(Target, W)[q]
        PROVE  o \in B \intersect Paths
    BY <2>1, FollowClosed DEF Inside, Target
  <2>2. {p} \intersect W \intersect Paths \subseteq B
    BY FollowClosed
  <2> HIDE DEF B
  <2> QED
    BY <2>1, <2>2, SpreadLeast DEF Followed
<1>3. ASSUME NEW q \in Followed(p, W), NEW o \in Target[q] \intersect W
      PROVE  o \in Followed(p, W)
  <2>1. q \in W
    BY <1>2
  <2>2. o \in Inside(Target, W)[q] \intersect Paths
    BY <2>1 DEF Inside
  <2> QED
    BY <2>2, SpreadGoesOn DEF Followed
<1> QED
  BY <1>1, <1>2, <1>3

\* A file is reached by way of what realpath() finds.
LEMMA ReachedReal ==
  ASSUME NEW W \in SUBSET Paths, NEW p \in Paths, to \in [LinkPaths -> Paths], Consistent(fs),
         NEW f \in Reached(p, W), fs[f] \notin {"none", "dir", "link"}
  PROVE  /\ Real(p) \in Paths /\ f \in Reached(Real(p), W)
         /\ Real(p) \in Followed(p, W)
<1> DEFINE F == Followed(p, W)
<1>1. F \subseteq W /\ F \subseteq Follow(p) /\ (p \in W => p \in F)
      /\ \A q \in F : Target[q] \intersect W \subseteq F
  BY FollowedClosed
<1> HIDE DEF F
<1>2. ASSUME F \intersect Ends(p) = {} PROVE FALSE
  <2>1. \A q \in F : fs[q] \in {"none", "link"}
    BY <1>1, <1>2 DEF Ends
  <2>2. \A q \in F : Leads[q] \intersect W \subseteq F
    BY <1>1, <2>1 DEF Leads
  <2>3. Reached(p, W) \subseteq F
    BY <1>1, <2>2, ReachedLeast
  <2> QED
    BY <2>1, <2>3
<1>3. PICK e \in F : e \in Ends(p)
  BY <1>2
<1>4. Real(p) = e /\ e \in Paths /\ e \in W
  BY <1>1, <1>3, RealIsEnd
<1> DEFINE T == F \union Reached(e, W)
<1>5. ASSUME NEW q \in T \intersect W, NEW o \in Leads[q] \intersect W PROVE o \in T
  <2>1. CASE q \in Reached(e, W)
    BY <2>1, ReachedClosed
  <2>2. CASE q \in F /\ q = e
    BY <1>4, <2>2, ReachedClosed
  <2>3. CASE q \in F /\ q # e
    <3>1. q \notin Ends(p)
      BY <1>3, <2>3, OneEnd
    <3>2. fs[q] # "dir"
      BY <1>1, <2>3, <3>1 DEF Ends
    <3> QED
      BY <1>1, <2>3, <3>2 DEF Leads
  <2> QED
    BY <2>1, <2>2, <2>3
<1>6. f \in T
  <2>1. p \in W => p \in T
    BY <1>1
  <2> HIDE DEF T
  <2> QED
    BY <1>5, <2>1, ReachedLeast
<1>7. f \in F => f = e
  BY <1>1, <1>3, OneEnd DEF Ends
<1>8. e \in Reached(e, W)
  BY <1>4, ReachedClosed
<1> QED
  BY <1>3, <1>4, <1>6, <1>7, <1>8 DEF F

----------------------------------------------------------------------------
(* Types *)

DiskTyped ==
  /\ fs \in [Paths -> Kinds] /\ Consistent(fs)
  /\ to \in [LinkPaths -> Paths] /\ typed \in BOOLEAN

WalkTyped ==
  /\ stack \in Stack /\ Len(stack) <= MaxDepth
  /\ yielded \subseteq Paths /\ touched \subseteq Paths

CallTyped ==
  /\ pc \in {"idle"} \union Done \union Reading \union Listing
  /\ cur \in Paths \union {NoPath}
  /\ pc \in Listing \ {"walk"} => cur \in Paths
  /\ start \in Paths \union {NoPath} /\ asDir \in BOOLEAN
  /\ pc \in Listing \union {"listed"} => start \in Paths
  /\ faults \in 0..MaxFaults

FileTyped ==
  /\ {size, len, left, read} \subseteq 0..MaxSize /\ read + left <= len
  /\ is \in {"file", "dir"} /\ changed \in BOOLEAN

Types == DiskTyped /\ WalkTyped /\ CallTyped /\ FileTyped

\* What is left of a sequence without its last element.
LEMMA Front ==
  ASSUME NEW E, NEW s \in Seq(E), s # <<>>
  PROVE  LET f == SubSeq(s, 1, Len(s) - 1)
         IN  /\ f \in Seq(E) /\ Len(f) = Len(s) - 1
             /\ \A i \in 1..Len(s) - 1 : f[i] = s[i]
<1> DEFINE n == Len(s) - 1
<1>1. n \in Nat /\ Len(s) = n + 1 /\ \A i \in 1..n : s[i] \in E
  OBVIOUS
<1> HIDE DEF n
<1>2. /\ SubSeq(s, 1, n) \in Seq(E) /\ Len(SubSeq(s, 1, n)) = n
      /\ \A i \in 1..n : SubSeq(s, 1, n)[i] = s[i]
  BY <1>1, SubSeqProperties
<1> QED
  BY <1>2 DEF n

LEMMA Bounds ==
  /\ MaxSize \in Nat /\ MaxFaults \in Nat /\ MaxDepth \in Nat
  /\ 0 \in 0..MaxSize /\ 0 \in 0..MaxFaults
<1>1. MaxSize \in Nat /\ MaxFaults \in Nat /\ MaxDepth \in Nat
  BY SizesAssumption
<1> QED
  BY <1>1

LEMMA Typing == Types => TypeOK
BY DEF Types, DiskTyped, WalkTyped, CallTyped, FileTyped, Stack, TypeOK

LEMMA InitTyped == Init => Types
<1> SUFFICES ASSUME Init PROVE Types
  OBVIOUS
<1>1. DiskTyped
  BY DEF Init, DiskTyped
<1>2. FileTyped
  <2>1. size = 0 /\ len = 0 /\ left = 0 /\ read = 0 /\ is = "file"
    BY DEF Init
  <2>2. changed \in BOOLEAN
    BY DEF Init
  <2> QED
    BY <2>1, <2>2, Bounds DEF FileTyped
<1>3. WalkTyped
  BY Bounds DEF Init, WalkTyped, Stack
<1>4. CallTyped
  BY Bounds DEF Init, CallTyped, Listing
<1> QED
  BY <1>1, <1>2, <1>3, <1>4 DEF Types

LEMMA ReadsTyped ==
  ASSUME Types,
         \/ OpenFails \/ Fstat \/ ReadSome \/ Fail \/ Close \/ Return \/ Resize
         \/ \E p \in Paths : Opens(p)
  PROVE  Types'
<1> USE SizesAssumption
<1>1. UNCHANGED disk
  BY DEF Opens, OpenFails, Fstat, ReadSome, Fail, Close, Return, Resize
<1>2. DiskTyped'
  BY <1>1 DEF Types, DiskTyped, disk
<1>3. CASE Return
  <2>1. WalkTyped'
    BY <1>3, Bounds DEF Return, WalkTyped, Stack
  <2>2. CallTyped'
    BY <1>3, Bounds DEF Return, CallTyped, Listing
  <2>3. FileTyped'
    <3>1. size' = 0 /\ len' = 0 /\ left' = 0 /\ read' = 0 /\ is' = "file"
      BY <1>3 DEF Return, NoFile
    <3>2. changed' \in BOOLEAN
      BY <1>3 DEF Return, NoFile
    <3> QED
      BY <3>1, <3>2, Bounds DEF FileTyped
  <2> QED
    BY <1>2, <2>1, <2>2, <2>3 DEF Types
<1>4. CASE OpenFails \/ Close
  BY <1>2, <1>4
     DEF OpenFails, Close, walk, file, past, Types, WalkTyped, CallTyped, FileTyped,
         Listing, Done
<1>5. CASE Resize
  BY <1>2, <1>5
     DEF Resize, Fault, walk, Types, WalkTyped, CallTyped, FileTyped, Listing, Done
<1>6. CASE \E p \in Paths : Opens(p)
  <2>1. PICK p \in Paths : Opens(p)
    BY <1>6
  <2>2. WalkTyped' /\ CallTyped'
    BY <2>1 DEF Opens, walk, past, Types, WalkTyped, CallTyped, Reading, Listing
  <2> QED
    BY <1>2, <2>1, <2>2 DEF Opens, Types, FileTyped
<1>7. CASE Fail
  BY <1>2, <1>7
     DEF Fail, Fault, walk, file, Types, WalkTyped, CallTyped, FileTyped, Reading,
         Listing
<1>8. CASE Fstat
  <2>1. size % UInts \in 0..size
    BY <1>8, Cut DEF Types, FileTyped
  <2>2. WalkTyped' /\ CallTyped'
    BY <1>8 DEF Fstat, walk, past, Types, WalkTyped, CallTyped, Reading, Listing
  <2> QED
    BY <1>2, <1>8, <2>1, <2>2 DEF Fstat, Types, FileTyped
<1>9. CASE ReadSome
  <2>1. WalkTyped' /\ CallTyped'
    BY <1>9 DEF ReadSome, walk, past, Types, WalkTyped, CallTyped, Reading, Listing
  <2>2. PICK n \in Got : read' = read + n /\ left' = left - n
    BY <1>9 DEF ReadSome
  <2>3. n \in 0..left
    BY DEF Got, Min, Types, FileTyped
  <2>4. FileTyped'
    BY <1>9, <2>2, <2>3 DEF ReadSome, Types, FileTyped
  <2> QED
    BY <1>2, <2>1, <2>4 DEF Types
<1> QED
  BY <1>3, <1>4, <1>5, <1>6, <1>7, <1>8, <1>9

LEMMA WalksTyped ==
  ASSUME Types,
         \/ Resolve \/ ResolveFails \/ Stat \/ StatFails \/ Scan \/ ScanFails
         \/ Overflows \/ Walk \/ Up \/ ListReturns
         \/ \E p \in Paths : List(p)
  PROVE  Types'
<1> USE SizesAssumption
<1>1. UNCHANGED <<disk, file>>
  BY DEF List, Resolve, ResolveFails, Stat, StatFails, Scan, ScanFails, Overflows,
         Walk, Up, ListReturns
<1>2. DiskTyped' /\ FileTyped'
  BY <1>1 DEF Types, DiskTyped, FileTyped, disk, file
<1> USE DEF Types, WalkTyped, CallTyped
<1>3. CASE \E p \in Paths : List(p)
  BY <1>2, <1>3 DEF List, walk, Listing
<1>4. CASE Resolve
  BY <1>2, <1>4, RealIsEnd DEF Resolve, Resolves, walk, past, Listing, DiskTyped
<1>5. CASE ResolveFails
  BY <1>2, <1>5 DEF ResolveFails, Skip, Failed, Fault, past, Listing
<1>6. CASE Stat
  BY <1>2, <1>6 DEF Stat, Skip, walk, past, Listing
<1>7. CASE StatFails
  BY <1>2, <1>7 DEF StatFails, Failed, Fault, walk, Listing
<1>8. CASE Scan
  <2> DEFINE new == {<<p, TypeOf(p)>> : p \in {p \in Children[cur] : fs[p] # "none"}}
  <2>1. new \in SUBSET (Paths \X (Kinds \union {"unknown"}))
    BY <1>8 DEF Scan, TypeOf, DiskTyped, Children, Listing
  <2>2. stack' = Append(stack, new)
    BY <1>8 DEF Scan
  <2> HIDE DEF new
  <2>3. stack' \in Stack /\ Len(stack') = Len(stack) + 1
    BY <2>1, <2>2 DEF Stack
  <2> QED
    BY <1>2, <1>8, <2>3 DEF Scan, past, Listing, Stack
<1>9. CASE ScanFails
  BY <1>2, <1>9 DEF ScanFails, Skip, Failed, Fault, past, Listing
<1>10. CASE Overflows
  BY <1>2, <1>10 DEF Overflows, past, Listing, Stack, Done
<1>11. CASE Walk
  <2>1. PICK e \in Top :
          /\ stack' = [stack EXCEPT ![Len(stack)] = @ \ {e}]
          /\ IF e[2] = "file"
               THEN yielded' = yielded \union {e[1]} /\ UNCHANGED <<pc, cur>>
               ELSE /\ cur' = e[1] /\ UNCHANGED yielded
                    /\ pc' = IF e[2] = "dir" THEN "scan" ELSE "resolve"
    BY <1>11 DEF Walk
  <2>2. /\ Len(stack) \in DOMAIN stack
        /\ \A i \in DOMAIN stack : stack[i] \in SUBSET (Paths \X (Kinds \union {"unknown"}))
    BY <1>11 DEF Walk, Stack
  <2>3. e[1] \in Paths
    BY <2>2 DEF Top
  <2>4. stack' \in Stack /\ Len(stack') = Len(stack)
    BY <2>1, <2>2 DEF Stack
  <2> QED
    BY <1>2, <1>11, <2>1, <2>3, <2>4 DEF Walk, past, Listing, Stack
<1>12. CASE Up
  <2>1. stack' \in Stack /\ Len(stack') = Len(stack) - 1
    BY <1>12, Front DEF Up, Stack
  <2> QED
    BY <1>2, <1>12, <2>1 DEF Up, past, Listing, Stack
<1>13. CASE ListReturns
  BY <1>2, <1>13 DEF ListReturns, walk, past, Listing, Done
<1> QED
  BY <1>3, <1>4, <1>5, <1>6, <1>7, <1>8, <1>9, <1>10, <1>11, <1>12, <1>13

LEMMA OthersTyped ==
  ASSUME Types, NEW p \in Paths, NEW k \in Kinds, Change(p, k) PROVE Types'
<1>1. fs' \in [Paths -> Kinds]
  BY DEF Change, Types, DiskTyped, Kinds
<1>2. Consistent(fs')
  BY ChangeConsistent DEF Types, DiskTyped
<1> QED
  BY <1>1, <1>2, SizesAssumption
     DEF Change, Fault, walk, file, Types, DiskTyped, WalkTyped, CallTyped, FileTyped

LEMMA NextTyped == Types /\ [Next]_vars => Types'
<1> SUFFICES ASSUME Types, [Next]_vars PROVE Types'
  OBVIOUS
<1>1. CASE UNCHANGED vars
  BY <1>1
     DEF vars, disk, walk, file, past, Types, DiskTyped, WalkTyped, CallTyped,
         FileTyped
<1>2. CASE Next
  BY <1>2, ReadsTyped, WalksTyped, OthersTyped DEF Next, Steps
<1> QED
  BY <1>1, <1>2

\* Every variable keeps its type; in particular, whatever others change, nothing is
\* left in what is no directory any more, and a read never asks for more than there is
\* room for.
THEOREM TypeCorrect == Spec => []TypeOK
BY InitTyped, NextTyped, Typing, PTL DEF Spec

----------------------------------------------------------------------------
(* list() *)

\* What S_IFREG tells of: a file, and a socket as well.
Plain == \A p \in Paths : p \in Files <=> fs[p] \in {"file", "socket"}

LEMMA FilesArePlain == DiskTyped => Plain
<1> SUFFICES ASSUME DiskTyped, NEW p \in Paths
             PROVE  p \in Files <=> fs[p] \in {"file", "socket"}
  BY DEF Plain
<1>1. fs[p] \in Kinds
  BY DEF DiskTyped
<1>2. (8 \div 8) % 2 = 1 /\ (4 \div 8) % 2 = 0 /\ (12 \div 8) % 2 = 1
  OBVIOUS
<1>3. Mode("file") = 8 /\ Mode("dir") = 4 /\ Mode("socket") = 12
  BY DEF Mode
<1> QED
  BY <1>1, <1>2, <1>3 DEF Files, Exists, Kinds

Dirs(W) == {d \in W : fs[d] = "dir"}

\* The files of V that are reached from p by reading n directories at most, none twice.
Lists(V, p, n) ==
  {f \in Files : \E W \in SUBSET V : Cardinality(Dirs(W)) <= n /\ f \in Reached(p, W)}

\* Without one of its directories, a set has one less.
LEMMA DirsFinite ==
  ASSUME NEW W \in SUBSET Paths
  PROVE  /\ IsFiniteSet(Dirs(W)) /\ Cardinality(Dirs(W)) \in Nat
         /\ \A d \in Dirs(W) : Cardinality(Dirs(W \ {d})) = Cardinality(Dirs(W)) - 1
<1>1. IsFiniteSet(Dirs(W))
  BY FS_Subset, TreeAssumption DEF Dirs
<1>2. ASSUME NEW d \in Dirs(W) PROVE Cardinality(Dirs(W \ {d})) = Cardinality(Dirs(W)) - 1
  <2>1. Dirs(W \ {d}) = Dirs(W) \ {d}
    BY DEF Dirs
  <2> QED
    BY <1>1, <2>1, FS_RemoveElement
<1> QED
  BY <1>1, <1>2, FS_CardinalityType

\* What is listed from a path by its kind: itself; what is behind a link; what is
\* listed from an entry with one directory less to read.
LEMMA ListsPlain ==
  ASSUME DiskTyped, NEW V \in SUBSET Paths, NEW p \in Paths, NEW n,
         fs[p] \notin {"dir", "link"}, NEW f \in Lists(V, p, n)
  PROVE  f = p
BY ReachedPlain DEF Lists

LEMMA ListsInside ==
  ASSUME NEW V \in SUBSET Paths, NEW p \in Paths, NEW n, NEW f \in Lists(V, p, n)
  PROVE  p \in V /\ f \in V /\ f \in Files
<1>1. PICK W \in SUBSET V : f \in Reached(p, W)
  BY DEF Lists
<1> DEFINE N == {g \in W : p \in W}
<1>2. (p \in W => p \in N) /\ (\A q \in N \intersect W : Leads[q] \intersect W \subseteq N)
  OBVIOUS
<1>3. f \in N => p \in W /\ f \in W
  OBVIOUS
<1> HIDE DEF N
<1> QED
  BY <1>1, <1>2, <1>3, ReachedLeast DEF Lists

LEMMA ListsReal ==
  ASSUME DiskTyped, NEW V \in SUBSET Paths, NEW p \in Paths, NEW n, NEW f \in Lists(V, p, n)
  PROVE  Real(p) \in Paths /\ f \in Lists(V, Real(p), n)
<1>1. PICK W \in SUBSET V : Cardinality(Dirs(W)) <= n /\ f \in Reached(p, W)
  BY DEF Lists
<1>2. f \in Files /\ f \in Paths /\ fs[f] \notin {"none", "dir", "link"}
  BY FilesArePlain DEF Lists, Files, Plain
<1>3. Real(p) \in Paths /\ f \in Reached(Real(p), W)
  BY <1>1, <1>2, ReachedReal DEF DiskTyped
<1> QED
  BY <1>1, <1>2, <1>3 DEF Lists

LEMMA ListsDir ==
  ASSUME DiskTyped, NEW V \in SUBSET Paths, NEW d \in Paths, fs[d] = "dir",
         NEW n \in Int, NEW f \in Lists(V, d, n)
  PROVE  /\ n >= 1
         /\ \E c \in Children[d] : fs[c] # "none" /\ f \in Lists(V, c, n - 1)
<1>1. PICK W \in SUBSET V : Cardinality(Dirs(W)) <= n /\ f \in Reached(d, W)
  BY DEF Lists
<1>2. f \in Files /\ f \in Paths /\ fs[f] \in {"file", "socket"}
  BY FilesArePlain DEF Lists, Files, Plain
<1>3. PICK c \in Children[d] : d \in W /\ f \in Reached(c, W \ {d})
  BY <1>1, <1>2, ReachedEntry
<1>4. /\ Cardinality(Dirs(W)) \in Nat /\ Cardinality(Dirs(W \ {d})) \in Nat
      /\ Cardinality(Dirs(W \ {d})) = Cardinality(Dirs(W)) - 1
  BY <1>3, DirsFinite DEF Dirs
<1>5. n >= 1 /\ Cardinality(Dirs(W \ {d})) <= n - 1
  BY <1>1, <1>4
<1>6. f \in Lists(V, c, n - 1)
  BY <1>2, <1>3, <1>5 DEF Lists
<1>7. c \in Paths
  BY DEF Children
<1>8. fs[c] # "none"
  BY <1>2, <1>3, <1>7, ReachedPlain
<1> QED
  BY <1>5, <1>6, <1>8

\* What is reached by way of what stays as it is stays within reach.
LEMMA SameLists ==
  ASSUME DiskTyped, DiskTyped', to' = to, NEW V \in SUBSET Paths, \A q \in V : fs'[q] = fs[q],
         NEW p, NEW n
  PROVE  Lists(V, p, n)' = Lists(V, p, n)
<1>1. ASSUME NEW W \in SUBSET V
      PROVE  Reached(p, W)' = Reached(p, W) /\ Dirs(W)' = Dirs(W)
  <2>1. Inside(Leads, W)' = Inside(Leads, W)
    BY DEF Inside, Leads, Target
  <2>2. Reached(p, W)' = Reached(p, W)
    BY <2>1 DEF Reached
  <2> QED
    BY <2>2 DEF Dirs
<1>2. \A f \in V : f \in Files <=> f \in Files'
  <2>1. DiskTyped' => Plain'
    BY FilesArePlain, PTL
  <2> QED
    BY <2>1, FilesArePlain DEF Plain
<1>3. \A W \in SUBSET V : Reached(p, W) \subseteq V /\ Reached(p, W)' \subseteq V
  BY <1>1, ReachedClosed
<1> QED
  BY <1>1, <1>2, <1>3 DEF Lists

Ending ==
  \A p \in Paths :
    /\ \A W \in SUBSET Paths : Followed(p, W) \subseteq Follow(p)
    /\ \A e \in Ends(p) : Real(p) = e

LEMMA LinksEnd == DiskTyped => Ending
BY FollowedClosed, RealIsEnd DEF DiskTyped, Ending

\* The files of V that the listing has to produce.
Wanted(V) ==
  {f \in Lists(V, start, MaxDepth) : asDir => fs[Real(start)] = "dir"}

LEMMA SameWanted ==
  ASSUME DiskTyped, DiskTyped', UNCHANGED <<to, start, asDir>>, start \in Paths,
         NEW V \in SUBSET Paths, \A q \in V : fs'[q] = fs[q]
  PROVE  Wanted(V)' \subseteq Wanted(V)
<1> SUFFICES ASSUME NEW f \in Wanted(V)' PROVE f \in Wanted(V)
  OBVIOUS
<1>1. f \in Lists(V, start, MaxDepth)
  BY SameLists DEF Wanted
<1>2. PICK W \in SUBSET V : f \in Reached(start, W)
  BY <1>1 DEF Lists
<1>3. f \in Files /\ f \in Paths /\ fs[f] \in {"file", "socket"}
  BY <1>1, FilesArePlain DEF Lists, Files, Plain
<1>4. Real(start) \in Followed(start, W)
  BY <1>2, <1>3, ReachedReal DEF DiskTyped
<1>5. f \in Reached(start, W)' /\ f \in V
  <2>1. Inside(Leads, W)' = Inside(Leads, W)
    BY DEF Inside, Leads, Target
  <2> QED
    BY <1>2, <2>1, ReachedClosed DEF Reached
<1> DEFINE r == Real(start)
<1>6. r \in W /\ r \in Followed(start, W)'
  <2>1. Inside(Target, W)' = Inside(Target, W)
    BY DEF Inside, Target
  <2> QED
    BY <1>4, <2>1, FollowedClosed DEF Followed, DiskTyped
<1> HIDE DEF r
<1>7. DiskTyped' => Ending'
  BY LinksEnd, PTL
<1>8. r \in Ends(start)'
  <2>1. fs[r] \notin {"none", "link"}
    <3>1. Real(start) # NoPath
      BY <1>6, TreeAssumption DEF r
    <3> QED
      BY <3>1, RealIsEnd DEF DiskTyped, Ends, r
  <2>2. r \in Follow(start)'
    BY <1>6, <1>7 DEF Ending
  <2> QED
    BY <1>6, <2>1, <2>2 DEF Ends
<1>9. Real(start)' = Real(start)
  BY <1>7, <1>8 DEF Ending, r
<1> QED
  BY <1>1, <1>6, <1>9 DEF Wanted, r

----------------------------------------------------------------------------
Pending == Listing \ {"walk"}

\* Where a listing starts and ends.
Still ==
  /\ pc \in {"idle", "bytes"} \union Reading => stack = <<>> /\ yielded = {}
  /\ pc = "enter" => stack = <<>> /\ asDir /\ cur = start
  /\ pc = "listed" => stack = <<>>

\* What the listing takes a path for is what it is, unless it was changed meanwhile.
Told ==
  /\ pc = "stat" => cur \notin LinkPaths
  /\ pc = "scan" => cur \in touched \/ fs[cur] \in {"none", "dir"}
  /\ \A i \in 1..Len(stack) : \A e \in stack[i] :
       e[1] \in touched \/ e[2] \in {fs[e[1]], "unknown"}

Honest == yielded \subseteq Files \union touched

\* A file is listed, or it will be by way of what is to be listed still, with as
\* many frames as are left.
Found(V, f) ==
  \/ f \in yielded
  \/ pc \in Pending /\ f \in Lists(V, cur, MaxDepth - Len(stack))
  \/ \E i \in 1..Len(stack) : \E e \in stack[i] : f \in Lists(V, e[1], MaxDepth - i)

Covers ==
  pc \in Listing \union {"listed"} =>
    \A V \in SUBSET (Paths \ touched) : \A f \in Wanted(V) : Found(V, f)

ListInv == Still /\ Told /\ Honest /\ Covers

\* It is enough that a step loses no file that it leaves alone with all on the way.
LEMMA CoverStep ==
  ASSUME Types, Types', Covers, pc \in Listing \union {"listed"},
         UNCHANGED <<to, start, asDir>>, touched \subseteq touched',
         \A q \in Paths \ touched' : fs'[q] = fs[q],
         \A V \in SUBSET (Paths \ touched') : \A f \in Wanted(V) :
           (\A p, n : Lists(V, p, n)' = Lists(V, p, n)) /\ Found(V, f) => Found(V, f)'
  PROVE  Covers'
<1> SUFFICES ASSUME NEW V \in SUBSET (Paths \ touched'), NEW f \in Wanted(V)'
             PROVE  Found(V, f)'
  BY DEF Covers
<1>1. DiskTyped /\ DiskTyped' /\ start \in Paths
  BY DEF Types, CallTyped
<1>2. V \in SUBSET Paths /\ V \in SUBSET (Paths \ touched) /\ \A q \in V : fs'[q] = fs[q]
  OBVIOUS
<1>3. \A p, n : Lists(V, p, n)' = Lists(V, p, n)
  BY <1>1, <1>2, SameLists
<1>4. f \in Wanted(V)
  BY <1>1, <1>2, SameWanted
<1> QED
  BY <1>2, <1>3, <1>4 DEF Covers

LEMMA StackStep ==
  ASSUME Types
  PROVE  /\ Len(stack) \in Nat /\ Len(stack) <= MaxDepth /\ MaxDepth \in Nat
         /\ \A i \in 1..Len(stack) : \A e \in stack[i] :
              e[1] \in Paths /\ e = <<e[1], e[2]>>
BY Bounds DEF Types, WalkTyped, Stack

\* One lemma for each step of the listing: a file that was found, or ahead, is so still.
LEMMA ResolveFinds ==
  ASSUME Types, Types', ListInv, Resolve \/ ResolveFails,
         NEW V \in SUBSET (Paths \ touched'), NEW f \in Wanted(V), Found(V, f),
         \A p, n : Lists(V, p, n)' = Lists(V, p, n)
  PROVE  Found(V, f)'
<1> DEFINE n == MaxDepth - Len(stack)
<1>1. DiskTyped /\ cur \in Paths /\ pc \in {"resolve", "enter"} /\ UNCHANGED <<stack, yielded>>
  BY DEF Types, CallTyped, Resolve, ResolveFails, Skip, walk, Listing
<1>2. V \in SUBSET Paths
  OBVIOUS
<1>3. ASSUME f \in Lists(V, cur, n)
      PROVE  Real(cur) \in Paths /\ f \in Lists(V, Real(cur), n) /\ cur \in V
  BY <1>1, <1>2, <1>3, ListsReal, ListsInside
<1>4. CASE Resolve
  <2>1. cur' = Real(cur) /\ pc' \in Pending
    BY <1>4 DEF Resolve, Pending, Listing
  <2> QED
    BY <1>1, <1>3, <2>1 DEF Found
<1>5. CASE ResolveFails
  <2>1. ASSUME f \in Lists(V, cur, n) PROVE FALSE
    <3>1. cur \notin touched' /\ Real(cur) # NoPath
      BY <1>3, <2>1, TreeAssumption
    <3>2. ~Resolves
      BY <1>5, <3>1 DEF ResolveFails, Failed
    <3>3. pc = "enter" /\ fs[Real(cur)] # "dir"
      BY <3>1, <3>2 DEF Resolves
    <3>4. asDir /\ cur = start
      BY <3>3 DEF ListInv, Still
    <3> QED
      BY <3>3, <3>4 DEF Wanted
  <2> QED
    BY <1>1, <2>1 DEF Found
<1> QED
  BY <1>4, <1>5

LEMMA StatFinds ==
  ASSUME Types, Types', ListInv, Stat \/ StatFails,
         NEW V \in SUBSET (Paths \ touched'), NEW f \in Wanted(V), Found(V, f),
         \A p, n : Lists(V, p, n)' = Lists(V, p, n)
  PROVE  Found(V, f)'
<1> DEFINE n == MaxDepth - Len(stack)
<1>1. DiskTyped /\ cur \in Paths /\ pc = "stat" /\ UNCHANGED stack
  BY DEF Types, CallTyped, Stat, StatFails, Skip, walk, Listing
<1>2. CASE Stat /\ Exists(cur)
  <2>1. cur \in Files
    <3>1. fs[cur] # "link"
      BY <1>1 DEF ListInv, Told, DiskTyped, Consistent, Possible
    <3> QED
      BY <1>1, <1>2, <3>1 DEF Files
  <2>2. f \in Lists(V, cur, n) => f = cur
    BY <1>1, <2>1, FilesArePlain, ListsPlain DEF Plain
  <2> QED
    BY <1>1, <1>2, <2>2 DEF Found, Stat
<1>3. CASE StatFails \/ (Stat /\ ~Exists(cur))
  <2>1. pc' \in Pending /\ cur' = cur /\ yielded' = yielded
    BY <1>3 DEF StatFails, Stat, Pending, Listing, walk
  <2> QED
    BY <1>1, <2>1 DEF Found
<1> QED
  BY <1>2, <1>3

LEMMA ScanFinds ==
  ASSUME Types, Types', ListInv, Scan,
         NEW V \in SUBSET (Paths \ touched'), NEW f \in Wanted(V), Found(V, f),
         \A p, n : Lists(V, p, n)' = Lists(V, p, n)
  PROVE  Found(V, f)'
<1> DEFINE k == Len(stack)
           new == {<<p, TypeOf(p)>> : p \in {p \in Children[cur] : fs[p] # "none"}}
<1>1. DiskTyped /\ cur \in Paths /\ fs[cur] = "dir" /\ yielded' = yielded
  BY DEF Types, CallTyped, Scan, Listing
<1>2. /\ k \in Nat /\ MaxDepth \in Nat /\ Len(stack') = k + 1
      /\ stack'[k + 1] = new /\ \A i \in 1..k : stack'[i] = stack[i]
  <2>1. stack' = Append(stack, new)
    BY DEF Scan
  <2>2. stack \in Stack
    BY DEF Types, WalkTyped
  <2> HIDE DEF new
  <2> QED
    BY <2>1, <2>2, StackStep DEF Stack
<1>3. CASE f \in Lists(V, cur, MaxDepth - k)
  <2>1. PICK c \in Children[cur] : fs[c] # "none" /\ f \in Lists(V, c, MaxDepth - k - 1)
    <3> HIDE DEF k
    <3> QED
      BY <1>1, <1>2, <1>3, ListsDir
  <2>2. <<c, TypeOf(c)>> \in stack'[k + 1]
    BY <1>2, <2>1
  <2> HIDE DEF new, k
  <2>3. f \in Lists(V, c, MaxDepth - (k + 1))
    BY <1>2, <2>1
  <2>4. k + 1 \in 1..Len(stack')
    BY <1>2
  <2> QED
    BY <2>2, <2>3, <2>4 DEF Found
<1>4. CASE \E i \in 1..k : \E e \in stack[i] : f \in Lists(V, e[1], MaxDepth - i)
  BY <1>2, <1>4 DEF Found
<1> QED
  BY <1>1, <1>3, <1>4 DEF Found

LEMMA ScanFailsFinds ==
  ASSUME Types, Types', ListInv, ScanFails,
         NEW V \in SUBSET (Paths \ touched'), NEW f \in Wanted(V), Found(V, f),
         \A p, n : Lists(V, p, n)' = Lists(V, p, n)
  PROVE  Found(V, f)'
<1> DEFINE n == MaxDepth - Len(stack)
<1>1. DiskTyped /\ cur \in Paths /\ UNCHANGED <<stack, yielded>> /\ pc = "scan"
  BY DEF Types, CallTyped, ScanFails, Skip, Listing
<1>2. ASSUME f \in Lists(V, cur, n) PROVE FALSE
  <2>1. cur \in V /\ f \in Files /\ f \in Paths
    BY <1>1, <1>2, ListsInside
  <2>2. ~(fs[cur] = "dir" /\ Len(stack) < MaxDepth)
    BY <2>1 DEF ScanFails, Failed
  <2>3. touched \subseteq touched'
    BY DEF ScanFails, Failed, past
  <2>4. fs[cur] \in {"none", "dir"}
    BY <1>1, <2>1, <2>3 DEF ListInv, Told
  <2>5. fs[cur] # "dir"
    <3>1. n \in Int /\ (~(Len(stack) < MaxDepth) => ~(n >= 1))
      BY StackStep
    <3> HIDE DEF n
    <3> QED
      BY <1>1, <1>2, <2>2, <3>1, ListsDir
  <2>6. f = cur
    BY <1>1, <1>2, <2>4, <2>5, ListsPlain
  <2> QED
    BY <1>1, <2>1, <2>4, <2>5, <2>6, FilesArePlain DEF Plain
<1> QED
  BY <1>1, <1>2 DEF Found

LEMMA WalkFinds ==
  ASSUME Types, Types', ListInv, Walk,
         NEW V \in SUBSET (Paths \ touched'), NEW f \in Wanted(V), Found(V, f),
         \A p, n : Lists(V, p, n)' = Lists(V, p, n)
  PROVE  Found(V, f)'
<1> DEFINE k == Len(stack)
<1>1. PICK e \in stack[k] :
        /\ stack' = [stack EXCEPT ![k] = @ \ {e}]
        /\ IF e[2] = "file"
             THEN yielded' = yielded \union {e[1]} /\ UNCHANGED <<pc, cur>>
             ELSE /\ cur' = e[1] /\ UNCHANGED yielded
                  /\ pc' = IF e[2] = "dir" THEN "scan" ELSE "resolve"
  BY DEF Walk, Top
<1>2. DiskTyped /\ k \in Nat \ {0} /\ UNCHANGED <<fs, touched>> /\ pc = "walk"
  BY DEF Types, WalkTyped, Stack, Walk, disk, past
<1>3. /\ Len(stack') = k /\ stack'[k] = stack[k] \ {e}
      /\ \A i \in 1..k : i # k => stack'[i] = stack[i]
  BY <1>1, <1>2 DEF Types, WalkTyped, Stack
<1>4. e[1] \in Paths
  BY <1>1, <1>2, StackStep
<1>5. pc \notin Pending
  BY <1>2 DEF Pending
<1>6. f \in yielded => f \in yielded'
  BY <1>1
<1>7. ASSUME NEW i \in 1..k, NEW d \in stack[i], d # e \/ i # k, f \in Lists(V, d[1], MaxDepth - i)
      PROVE  Found(V, f)'
  <2>1. d \in stack'[i]
    BY <1>3, <1>7
  <2> QED
    BY <1>3, <1>7, <2>1 DEF Found
<1>8. ASSUME f \in Lists(V, e[1], MaxDepth - k) PROVE Found(V, f)'
  <2>1. CASE e[2] = "file"
    <3>1. e[1] \in V
      BY <1>4, <1>8, ListsInside
    <3>2. fs[e[1]] = "file"
      BY <1>1, <1>2, <2>1, <3>1 DEF ListInv, Told
    <3>3. f = e[1]
      BY <1>2, <1>4, <1>8, <3>2, ListsPlain
    <3> QED
      BY <1>1, <2>1, <3>3 DEF Found
  <2>2. CASE e[2] # "file"
    <3>1. cur' = e[1] /\ pc' \in Pending
      BY <1>1, <2>2 DEF Pending, Listing
    <3> QED
      BY <1>3, <1>8, <3>1 DEF Found
  <2> QED
    BY <2>1, <2>2
<1> QED
  BY <1>5, <1>6, <1>7, <1>8 DEF Found

LEMMA RestFinds ==
  ASSUME Types, Types', ListInv, Up \/ ListReturns \/ \E p \in Paths, k \in Kinds : Change(p, k),
         NEW V \in SUBSET (Paths \ touched'), NEW f \in Wanted(V), Found(V, f),
         \A p, n : Lists(V, p, n)' = Lists(V, p, n)
  PROVE  Found(V, f)'
<1>1. CASE Up
  <2>1. /\ stack \in Stack /\ stack # <<>> /\ stack[Len(stack)] = {}
        /\ stack' = SubSeq(stack, 1, Len(stack) - 1)
        /\ UNCHANGED <<pc, yielded>> /\ pc \notin Pending
    BY <1>1 DEF Types, WalkTyped, Up, Top, Pending
  <2>2. Len(stack') = Len(stack) - 1 /\ \A i \in 1..Len(stack) - 1 : stack'[i] = stack[i]
    BY <2>1, Front DEF Stack
  <2>3. Len(stack) \in Nat
    BY StackStep
  <2>4. ASSUME NEW i \in 1..Len(stack), NEW e \in stack[i], f \in Lists(V, e[1], MaxDepth - i)
        PROVE  Found(V, f)'
    <3>1. i # Len(stack)
      BY <2>1, <2>4
    <3>2. i \in 1..Len(stack') /\ e \in stack'[i]
      BY <2>2, <2>3, <3>1
    <3> QED
      BY <2>4, <3>2 DEF Found
  <2> QED
    BY <2>1, <2>4 DEF Found
<1>2. CASE ListReturns
  BY <1>2 DEF Found, ListReturns, walk, Pending
<1>3. CASE \E p \in Paths, k \in Kinds : Change(p, k)
  BY <1>3 DEF Found, Change, walk
<1> QED
  BY <1>1, <1>2, <1>3

ListSteps ==
  \/ Resolve \/ ResolveFails \/ Stat \/ StatFails \/ Scan \/ ScanFails
  \/ Walk \/ Up \/ ListReturns
  \/ \E p \in Paths, k \in Kinds : Change(p, k)

\* What others do to the disk, or a failure, is told of the paths that it is about.
LEMMA ListStepsTouch ==
  ASSUME Types, ListSteps
  PROVE  /\ pc \in Listing /\ UNCHANGED <<to, start, asDir>> /\ touched \subseteq touched'
         /\ \A q \in Paths \ touched' : fs'[q] = fs[q]
<1>1. CASE \E p \in Paths, k \in Kinds : Change(p, k)
  BY <1>1 DEF Change
<1>2. CASE Resolve \/ ResolveFails
  BY <1>2 DEF Resolve, ResolveFails, Failed, disk, past, Listing
<1>3. CASE Stat \/ StatFails
  BY <1>3 DEF Stat, StatFails, Failed, disk, past, Listing
<1>4. CASE Scan \/ ScanFails
  BY <1>4 DEF Scan, ScanFails, Failed, disk, past, Listing
<1>5. CASE Walk \/ Up \/ ListReturns
  BY <1>5 DEF Walk, Up, ListReturns, disk, past, Listing
<1> QED
  BY <1>1, <1>2, <1>3, <1>4, <1>5 DEF ListSteps

\* What the steps of a listing leave of each part of ListInv.
LEMMA ListStepsCover == ASSUME Types, Types', ListInv, ListSteps PROVE Covers'
<1>1. ASSUME NEW V \in SUBSET (Paths \ touched'), NEW f \in Wanted(V), Found(V, f),
             \A p, n : Lists(V, p, n)' = Lists(V, p, n)
      PROVE  Found(V, f)'
  BY <1>1, ResolveFinds, StatFinds, ScanFinds, ScanFailsFinds, WalkFinds, RestFinds
     DEF ListSteps
<1> QED
  BY <1>1, ListStepsTouch, CoverStep DEF ListInv

LEMMA ListStepsStill == ASSUME Types, ListInv, ListSteps PROVE Still'
<1> USE DEF ListInv, Still
<1>1. CASE \E p \in Paths, k \in Kinds : Change(p, k)
  BY <1>1 DEF Change, walk, Listing, Reading
<1>2. CASE Resolve \/ ResolveFails
  BY <1>2 DEF Resolve, ResolveFails, Skip, Reading
<1>3. CASE Stat \/ StatFails
  BY <1>3 DEF Stat, StatFails, Skip, Reading
<1>4. CASE Scan \/ ScanFails
  BY <1>4 DEF Scan, ScanFails, Skip, Reading
<1>5. CASE Walk
  BY <1>5 DEF Walk, Reading
<1>6. CASE Up \/ ListReturns
  BY <1>6 DEF Up, ListReturns, walk, Reading
<1> QED
  BY <1>1, <1>2, <1>3, <1>4, <1>5, <1>6 DEF ListSteps

LEMMA ListStepsTell == ASSUME Types, Types', ListInv, ListSteps PROVE Told'
<1> USE DEF ListInv, Told
<1>1. /\ DiskTyped /\ WalkTyped
      /\ pc \in Pending => cur \in Paths
  BY DEF Types, CallTyped, Pending
<1>2. CASE \E p \in Paths, k \in Kinds : Change(p, k)
  <2>1. \A i \in 1..Len(stack) : \A e \in stack[i] : e[1] \in Paths
    BY StackStep
  <2>2. pc = "scan" => cur \in Paths
    BY <1>1 DEF Pending, Listing
  <2>3. UNCHANGED <<pc, cur, stack>>
    BY <1>2 DEF Change, walk
  <2> QED
    BY <2>1, <2>2, <2>3, ListStepsTouch DEF ListSteps
<1>3. CASE Resolve
  <2>1. Real(cur) \in Ends(cur) /\ Real(cur) \in Paths
    BY <1>1, <1>3, RealIsEnd DEF Resolve, Resolves, Pending, Listing, DiskTyped
  <2>2. Real(cur) \notin LinkPaths
    BY <1>1, <2>1 DEF Ends, DiskTyped, Consistent, Possible
  <2>3. pc' = "scan" => fs[Real(cur)] = "dir"
    BY <1>3 DEF Resolve, Resolves
  <2> QED
    BY <1>3, <2>2, <2>3 DEF Resolve, disk, walk, past
<1>4. CASE Stat
  <2>1. cur \in Paths /\ fs[cur] \in Kinds /\ fs[cur] # "link"
    BY <1>1, <1>4 DEF Stat, Pending, Listing, DiskTyped, Consistent, Possible
  <2>2. ~Exists(cur) => fs[cur] \in {"none", "dir"}
    BY <1>1, <2>1, FilesArePlain DEF Plain, Files, Kinds
  <2> QED
    BY <1>4, <2>2 DEF Stat, Skip, disk, walk, past
<1>5. CASE StatFails
  BY <1>5 DEF StatFails, Failed, disk, walk
<1>6. CASE ResolveFails \/ ScanFails
  BY <1>6 DEF ResolveFails, ScanFails, Skip, Failed, disk, past
<1>7. CASE Scan
  <2> DEFINE new == {<<p, TypeOf(p)>> : p \in {p \in Children[cur] : fs[p] # "none"}}
  <2>1. stack' = Append(stack, new)
    BY <1>7 DEF Scan
  <2>2. \A e \in new : e[2] \in {fs[e[1]], "unknown"}
    BY DEF TypeOf
  <2> HIDE DEF new
  <2> QED
    BY <1>1, <1>7, <2>1, <2>2 DEF Scan, WalkTyped, Stack, disk, past
<1>8. CASE Walk
  <2>1. PICK e \in stack[Len(stack)] :
          /\ stack' = [stack EXCEPT ![Len(stack)] = @ \ {e}]
          /\ IF e[2] = "file"
               THEN yielded' = yielded \union {e[1]} /\ UNCHANGED <<pc, cur>>
               ELSE /\ cur' = e[1] /\ UNCHANGED yielded
                    /\ pc' = IF e[2] = "dir" THEN "scan" ELSE "resolve"
    BY <1>8 DEF Walk, Top
  <2>2. Len(stack) \in 1..Len(stack) /\ UNCHANGED <<fs, touched>> /\ pc = "walk"
    BY <1>1, <1>8 DEF Walk, WalkTyped, Stack, disk, past
  <2>3. pc' = "scan" => cur' \in touched' \/ fs'[cur'] = "dir"
    BY <2>1, <2>2
  <2>4. Len(stack') = Len(stack) /\ \A i \in 1..Len(stack) : stack'[i] \subseteq stack[i]
    BY <1>1, <2>1 DEF WalkTyped, Stack
  <2>5. pc' # "stat"
    BY <2>1, <2>2
  <2> QED
    BY <2>2, <2>3, <2>4, <2>5
<1>9. CASE Up
  <2>1. Len(stack') = Len(stack) - 1 /\ \A i \in 1..Len(stack) - 1 : stack'[i] = stack[i]
    BY <1>1, <1>9, Front DEF Up, WalkTyped, Stack
  <2>2. Len(stack) \in Nat
    BY StackStep
  <2> QED
    BY <1>9, <2>1, <2>2 DEF Up, disk, past
<1>10. CASE ListReturns
  BY <1>10 DEF ListReturns, disk, walk, past
<1> QED
  BY <1>2, <1>3, <1>4, <1>5, <1>6, <1>7, <1>8, <1>9, <1>10 DEF ListSteps

LEMMA ListStepsHonest == ASSUME Types, Types', ListInv, ListSteps PROVE Honest'
<1>1. /\ DiskTyped /\ WalkTyped /\ (pc \in Pending => cur \in Paths)
      /\ touched \subseteq touched' /\ \A q \in Paths \ touched' : fs'[q] = fs[q]
  BY ListStepsTouch DEF Types, CallTyped, Pending
<1>2. \A q \in Paths \ touched' : q \in Files => q \in Files'
  <2>1. Plain /\ Plain'
    <3>1. DiskTyped' => Plain'
      BY FilesArePlain, PTL
    <3> QED
      BY <3>1, FilesArePlain DEF Types
  <2> QED
    BY <1>1, <2>1 DEF Plain
<1>3. yielded' \subseteq yielded \union Files \union touched
  <2>1. CASE Stat
    <3>1. cur \in Paths /\ fs[cur] # "link"
      BY <1>1, <2>1
         DEF Stat, Pending, Listing, DiskTyped, Consistent, Possible, ListInv, Told
    <3> QED
      BY <2>1, <3>1 DEF Stat, walk, Files
  <2>2. CASE Walk
    <3>1. PICK e \in stack[Len(stack)] :
            yielded' = IF e[2] = "file" THEN yielded \union {e[1]} ELSE yielded
      BY <2>2 DEF Walk, Top
    <3>2. Len(stack) \in 1..Len(stack)
      BY <1>1, <2>2 DEF Walk, WalkTyped, Stack
    <3>3. e[1] \in Paths
      BY <3>2, StackStep
    <3>4. e[2] = "file" => e[1] \in touched \/ fs[e[1]] = "file"
      BY <3>2 DEF ListInv, Told
    <3> QED
      BY <1>1, <3>1, <3>3, <3>4, FilesArePlain DEF Plain
  <2>3. CASE ~Stat /\ ~Walk
    BY <2>3 DEF ListSteps, Resolve, ResolveFails, StatFails, Scan, ScanFails, Up,
                ListReturns, Change, walk
  <2> QED
    BY <2>1, <2>2, <2>3
<1>4. yielded' \subseteq Paths /\ yielded \subseteq Files \union touched
  BY DEF Types, WalkTyped, ListInv, Honest
<1> QED
  BY <1>1, <1>2, <1>3, <1>4 DEF Honest

\* A call that reads or returns, and one that starts to list.
LEMMA OtherStepsList ==
  ASSUME Types, Types', ListInv,
         \/ OpenFails \/ Fstat \/ ReadSome \/ Fail \/ Close \/ Return \/ Resize \/ Overflows
         \/ \E p \in Paths : Opens(p) \/ List(p)
  PROVE  ListInv'
<1>1. CASE Return
  BY <1>1 DEF Return, Done, ListInv, Still, Told, Honest, Covers, Listing
<1>2. CASE Overflows
  BY <1>2
     DEF Overflows, disk, past, ListInv, Still, Told, Honest, Files, Exists, Covers,
         Listing, Reading
<1>3. CASE \E p \in Paths : List(p)
  <2>1. PICK p \in Paths : List(p)
    BY <1>3
  <2>2. /\ stack = <<>> /\ yielded = {} /\ UNCHANGED <<stack, yielded, fs, touched>>
        /\ cur' = p /\ start' = p /\ pc' \in {"resolve", "enter"}
    BY <2>1 DEF List, walk, disk, ListInv, Still
  <2>6. pc' = "enter" => asDir'
    BY <2>1 DEF List
  <2>3. Still' /\ Told'
    BY <2>2, <2>6 DEF Still, Told, Reading
  <2>4. Honest'
    BY <2>2 DEF Honest
  <2>5. ASSUME NEW V, NEW f \in Wanted(V)' PROVE Found(V, f)'
    <3>1. f \in Lists(V, cur, MaxDepth)'
      BY <2>2, <2>5 DEF Wanted
    <3>2. MaxDepth - Len(stack') = MaxDepth
      BY <2>2, Bounds
    <3>3. pc' \in Pending
      BY <2>2 DEF Pending, Listing
    <3> QED
      BY <3>1, <3>2, <3>3 DEF Found
  <2> QED
    BY <2>3, <2>4, <2>5 DEF ListInv, Covers
<1>4. CASE \/ OpenFails \/ Fstat \/ ReadSome \/ Fail \/ Close \/ Resize
           \/ \E p \in Paths : Opens(p)
  <2>1. /\ pc \in {"idle"} \union Reading /\ UNCHANGED <<stack, yielded, fs, touched>>
        /\ pc' \in Reading \union {"bytes", "threw"}
    BY <1>4
       DEF OpenFails, Fstat, ReadSome, Fail, Close, Resize, Opens, Reading, disk,
           walk, past
  <2>2. Still' /\ Told' /\ Covers'
    BY <2>1 DEF ListInv, Still, Told, Covers, Reading, Listing
  <2>3. Honest'
    BY <2>1 DEF ListInv, Still, Honest
  <2> QED
    BY <2>2, <2>3 DEF ListInv
<1> QED
  BY <1>1, <1>2, <1>3, <1>4

LEMMA InitLists == Init => ListInv
BY DEF Init, ListInv, Still, Told, Honest, Covers, Listing

LEMMA NextLists == Types /\ ListInv /\ [Next]_vars => ListInv'
<1> SUFFICES ASSUME Types, ListInv, [Next]_vars PROVE ListInv'
  OBVIOUS
<1>1. Types'
  BY NextTyped
<1>2. CASE UNCHANGED vars
  <2>1. UNCHANGED <<fs, to, pc, cur, stack, yielded, touched, start, asDir>>
    BY <1>2 DEF vars, disk, walk, past
  <2>2. Still' /\ Told' /\ Honest'
    BY <2>1 DEF ListInv, Still, Told, Honest, Files, Exists
  <2>3. Covers'
    <3>1. \A V, f : (\A p, n : Lists(V, p, n)' = Lists(V, p, n)) /\ Found(V, f) =>
                      Found(V, f)'
      BY <2>1 DEF Found
    <3> QED
      BY <1>1, <2>1, <3>1, CoverStep DEF ListInv, Covers
  <2> QED
    BY <2>2, <2>3 DEF ListInv
<1>3. CASE ListSteps
  BY <1>1, <1>3, ListStepsCover, ListStepsStill, ListStepsTell, ListStepsHonest
     DEF ListInv
<1>4. CASE Next /\ ~ListSteps
  BY <1>1, <1>4, OtherStepsList DEF Next, Steps, ListSteps
<1> QED
  BY <1>2, <1>3, <1>4

\* ListInv is inductive: whatever others change and whichever call fails, each file of
\* each set of paths that nobody touched is listed, or is still ahead with frames
\* enough to get there (list() and listDirectory()).
THEOREM ListingCovers == Spec => [](Types /\ ListInv)
<1>1. Init => Types /\ ListInv
  BY InitTyped, InitLists
<1>2. Types /\ ListInv /\ [Next]_vars => Types' /\ ListInv'
  BY NextTyped, NextLists
<1> QED
  BY <1>1, <1>2, PTL DEF Spec

\* The stack of a script has room for every directory at once.
Roomy == Cardinality({d \in Paths : Children[d] # {}}) <= MaxDepth

\* With room for a frame per directory, a listing that returns has reached every file
\* behind directories and links that were left alone, links in a circle and the same
\* directory met twice included, and lists nothing but files, by their real paths.
THEOREM ListsEverything == ASSUME Roomy PROVE Spec => []ListReachesAll
<1>1. Types /\ ListInv => ListReachesAll
  <2> SUFFICES ASSUME Types, ListInv, pc = "listed"
               PROVE  /\ (asDir => Real(start) # NoPath /\ fs[Real(start)] = "dir") =>
                            Reached(start, Paths \ touched) \intersect Files \subseteq yielded
                      /\ yielded \subseteq Files \union touched
    BY DEF ListReachesAll
  <2>1. ASSUME asDir => Real(start) # NoPath /\ fs[Real(start)] = "dir",
               NEW f \in Reached(start, Paths \ touched) \intersect Files
        PROVE  f \in yielded
    <3> DEFINE V == Paths \ touched
    <3>1. Cardinality(Dirs(V)) <= MaxDepth
      <4> DEFINE D == {d \in Paths : Children[d] # {}}
      <4>1. Dirs(V) \in SUBSET D
        <5>1. \A d \in V : fs[d] = "dir" => Children[d] # {}
          BY DEF Types, DiskTyped, Consistent, Possible
        <5> QED
          BY <5>1 DEF Dirs
      <4>2. IsFiniteSet(D)
        BY FS_Subset, TreeAssumption
      <4>3. Cardinality(D) \in Nat /\ Cardinality(Dirs(V)) \in Nat
        BY <4>1, <4>2, FS_CardinalityType, FS_Subset
      <4>4. Cardinality(Dirs(V)) <= Cardinality(D)
        BY <4>1, <4>2, FS_Subset
      <4> QED
        BY <4>3, <4>4, Bounds DEF Roomy
    <3>2. f \in Wanted(V)
      BY <2>1, <3>1 DEF Wanted, Lists
    <3>3. Found(V, f)
      BY <3>2 DEF ListInv, Covers
    <3> QED
      BY <3>3 DEF ListInv, Still, Found, Pending, Listing
  <2> QED
    BY <2>1 DEF ListInv, Honest
<1> QED
  BY <1>1, ListingCovers, PTL
=============================================================================
