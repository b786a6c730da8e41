------------------------------- MODULE Lookup -------------------------------
(***************************************************************************)
(* bare_module_find() of src/src/addon.c over the two lists of addons: the *)
(* static ones, which belong to every process, and the dynamic ones, each  *)
(* of the process that loaded it.  Both are newest first.                  *)
(*                                                                         *)
(* How loads on several threads get to publish is the matter of Addons,    *)
(* and how a thread gets into a process that of Context; here a load is    *)
(* one step, and whoever asks says which process its thread is in.  Names  *)
(* are spelled out, as the search compares them by character.              *)
(***************************************************************************)
EXTENDS Naturals, Sequences

CONSTANTS
  Processes,
  NoProcess,    \* the owner of a static addon, and what runs on a thread without one
  Packages,     \* the names of addons without their versions, spelled out
  Components,   \* the components of versions, spelled out
  MaxParts,     \* bound: the components of one version
  MaxAddons     \* bound: the addons that are ever registered

\* A name as its author means it; NoName is that of a dynamic addon without one.
Names == [package : Packages, version : UNION {[1..n -> Components] : n \in 0..MaxParts}]
NoName == [package |-> <<>>, version |-> <<>>]

Chars == UNION {{s[i] : i \in DOMAIN s} : s \in Packages \union Components}

ASSUME ProcessesAssumption == NoProcess \notin Processes
ASSUME SpellingAssumption ==
  /\ Packages \union Components \subseteq Seq(Chars) \ {<<>>}
  /\ {"@", ".", ".bare"} \intersect Chars = {}
ASSUME LookupBounds == MaxParts \in Nat /\ MaxAddons \in Nat

VARIABLES
  static,     \* bare_addon__static
  dynamic,    \* bare_addon__dynamic
  clock       \* history: the addons that were registered so far

vars == <<static, dynamic, clock>>

Addons == [name : Names \union {NoName}, owner : Processes \union {NoProcess}, at : Nat]

Init == static = <<>> /\ dynamic = <<>> /\ clock = 0

Fits(n) == clock + n <= MaxAddons

Addon(n, p, i) == [name |-> n, owner |-> p, at |-> clock + i]

----------------------------------------------------------------------------
(* Registration *)

\* Outside a load.
RegisterStatic(n) ==
  /\ Fits(1)
  /\ static' = <<Addon(n, NoProcess, 1)>> \o static
  /\ clock' = clock + 1
  /\ UNCHANGED dynamic

\* Variant: what is loaded goes to the end of the list.
LoadAppends(p, ns) ==
  /\ Fits(Len(ns))
  /\ dynamic' = dynamic \o [i \in 1..Len(ns) |-> Addon(ns[i], p, i)]
  /\ clock' = clock + Len(ns)
  /\ UNCHANGED static

\* A load publishes what its library and the dependencies of that registered.
Load(p, ns) ==
  /\ Fits(Len(ns))
  /\ LET Staged == [i \in 1..Len(ns) |-> Addon(ns[Len(ns) + 1 - i], p, Len(ns) + 1 - i)]
     IN dynamic' = Staged \o dynamic
  /\ clock' = clock + Len(ns)
  /\ UNCHANGED static

\* What is left of the list once the addons of a process are taken out, up to each of
\* its elements.
Kept(list, p) ==
  LET Left[i \in 0..Len(list)] ==
        IF i = 0 THEN <<>>
        ELSE IF list[i].owner = p THEN Left[i - 1] ELSE Append(Left[i - 1], list[i])
  IN Left

\* bare_addon_teardown().
Unload(p) ==
  /\ dynamic' = Kept(dynamic, p)[Len(dynamic)]
  /\ dynamic' # dynamic
  /\ UNCHANGED <<static, clock>>

----------------------------------------------------------------------------
(* bare_module_find() *)

\* <name>@<version>, up to each component of the version; they are separated by dots.
Joined(n) ==
  LET Upto[i \in 0..Len(n.version)] ==
        IF i = 0 THEN n.package
        ELSE Upto[i - 1] \o <<IF i = 1 THEN "@" ELSE ".">> \o n.version[i]
  IN Upto

Text(n) == Joined(n)[Len(n.version)]

\* ".bare" counts as one character; a query that is nothing else stays.
Strip(q) == IF Len(q) > 1 /\ q[Len(q)] = ".bare" THEN SubSeq(q, 1, Len(q) - 1) ELSE q

\* Variant: any name that the query begins.
MatchesPrefix(q, a) ==
  LET name == Text(a.name)
  IN a.name # NoName /\ Len(q) <= Len(name) /\ SubSeq(name, 1, Len(q)) = q

\* bare_addon__matches(): the query begins the name and ends with it or at a dot.
Matches(q, a) ==
  LET name == Text(a.name)
  IN /\ a.name # NoName
     /\ Len(q) <= Len(name) /\ SubSeq(name, 1, Len(q)) = q
     /\ Len(q) < Len(name) => name[Len(q) + 1] = "."

\* Where the search of a list would stop: at the static addons that match, and at the
\* dynamic ones that match of the process (bare_addon__current) that is asking.
StaticHits(q) == {i \in DOMAIN static : Matches(q, static[i])}
DynamicHits(q, p) ==
  {i \in DOMAIN dynamic :
     p # NoProcess /\ dynamic[i].owner = p /\ Matches(q, dynamic[i])}

First(S) == CHOOSE i \in S : \A j \in S : i <= j

\* What a thread of p finds: one addon, or none.
Find(query, p) ==
  LET S == StaticHits(Strip(query))
      D == DynamicHits(Strip(query), p)
  IN IF S # {} THEN {static[First(S)]} ELSE IF D # {} THEN {dynamic[First(D)]} ELSE {}

----------------------------------------------------------------------------
Next ==
  \/ \E n \in Names : RegisterStatic(n)
  \/ \E p \in Processes :
       \/ Unload(p)
       \/ \E n \in Names \union {NoName} : Load(p, <<n>>)
       \/ \E n, d \in Names : Load(p, <<d, n>>)

Spec == Init /\ [][Next]_vars

----------------------------------------------------------------------------
(* Properties *)

\* "the version may be truncated at a component boundary" and "a query that carries
\* no version matches only an addon registered without one" (module.h): a query names
\* an addon of its package, and of its version as far as it says one.
Denotes(q, n) ==
  /\ n # NoName /\ q.package = n.package
  /\ Len(q.version) <= Len(n.version)
  /\ SubSeq(n.version, 1, Len(q.version)) = q.version
  /\ q.version = <<>> => n.version = <<>>

\* What a thread of p may be given: what is static, and what p loaded.
Visible(p) == {a \in {static[i] : i \in DOMAIN static} \union
                     {dynamic[i] : i \in DOMAIN dynamic} :
                 a.owner \in {NoProcess, p}}

Meant(q, p) == {a \in Visible(p) : Denotes(q, a.name)}

Asked(q) == {Text(q), Append(Text(q), ".bare")}

\* Comparing characters finds what the query means and nothing else: not 10.0.0 for
\* 1, and nothing of another process, however they came and went.  On a thread of a
\* process it finds something whenever there is such an addon.  That a package is
\* not another one and a dot is for the names to see to.
FindsWhatIsMeant ==
  \A q \in Names, p \in Processes \union {NoProcess} : \A query \in Asked(q) :
    /\ Find(query, p) \subseteq Meant(q, p)
    /\ p # NoProcess /\ Find(query, p) = {} => Meant(q, p) = {}

\* Both lists stay newest first (addon.c): of the addons of one owner that are meant
\* the last to register is found, also of the several that one load publishes and
\* after other processes have left the list.
FindsNewestOfOwner ==
  \A q \in Names, p \in Processes \union {NoProcess} :
    \A found \in Find(Text(q), p) : \A a \in Meant(q, p) :
      a.owner = found.owner => a.at <= found.at

(* What the documentation says and the code does not do *)

Latest(S) == {a \in S : \A b \in S : b.at <= a.at}

\* "If several addons match, the most recently loaded of them is returned", and
\* "NULL is returned ... if no process is running on the thread" (module.h).  With a
\* static addon and one that a process loaded after it the two come apart from what
\* the search does, which is to try the static addons first, on any thread.
FoundAsDocumented ==
  \A q \in Names, p \in Processes :
    {a.owner : a \in Meant(q, p)} = {NoProcess, p} =>
      /\ \A a \in Latest(Meant(q, p)) : a.owner = p => Find(Text(q), p) = {a}
      /\ Find(Text(q), NoProcess) = {}
=============================================================================
