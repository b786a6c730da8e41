---------------------------- MODULE LookupProofs ----------------------------
(***************************************************************************)
(* Proofs about Lookup, for any names, processes and number of addons.     *)
(*                                                                         *)
(* The first half is about the texts of names: the comparison of           *)
(* characters in bare_addon__matches() is the relation Denotes between     *)
(* names, because what separates the components of a name is in none of    *)
(* them.  The second is about the two lists, which stay newest first and   *)
(* apart by owner whatever is loaded and unloaded, so that the first hit   *)
(* of the search is the one that module.h promises.                        *)
(*                                                                         *)
(* Texts and what teardown keeps are recursive functions.  What they       *)
(* compute is shown by least counterexamples, with LeastNat in the place   *)
(* of induction.                                                           *)
(***************************************************************************)
EXTENDS Lookup, SequenceTheorems, WellFoundedInduction, TLAPS

(* Recursion *)

\* A set of numbers has a least element.
LEMMA LeastNat ==
  ASSUME NEW T, T \subseteq Nat, T # {} PROVE \E x \in T : \A y \in T : x <= y
<1>1. PICK x \in T : \A y \in T : <<y, x>> \notin OpToRel(<, Nat)
  BY NatLessThanWellFounded, WFMin
<1>2. \A y \in T : ~ (y < x)
  BY <1>1 DEF OpToRel
<1> QED
  BY <1>2

\* f is computed from a, each value by g from its place and the one before.
Recurs(f, L, S, a, g) ==
  f \in [0..L -> S] /\ f[0] = a /\ \A i \in 1..L : f[i] = g[<<i, f[i - 1]>>]

\* There is such a function.
LEMMA Recursion ==
  ASSUME NEW L \in Nat, NEW S, NEW a \in S, NEW g \in [(1..L) \X S -> S]
  PROVE  \E f : Recurs(f, L, S, a, g)
<1> DEFINE Good(k) ==
      \E f \in [0..k -> S] : f[0] = a /\ \A i \in 1..k : f[i] = g[<<i, f[i - 1]>>]
           T == {k \in 0..L : ~Good(k)}
<1> SUFFICES ASSUME ~Good(L) PROVE FALSE
  BY DEF Recurs
<1>1. T \subseteq Nat /\ T # {}
  OBVIOUS
<1>2. PICK k \in T : \A j \in T : k <= j
  <2> HIDE DEF T
  <2> QED
    BY <1>1, LeastNat
<1>3. k # 0
  <2>1. Good(0)
    <3> DEFINE z == [i \in 0..0 |-> a]
    <3>1. z \in [0..0 -> S] /\ z[0] = a /\ 1..0 = {}
      OBVIOUS
    <3> HIDE DEF z
    <3> QED
      BY <3>1
  <2> QED
    BY <1>2, <2>1
<1>4. k \in 1..L /\ k - 1 \in 0..L /\ k - 1 \in Nat
  BY <1>2, <1>3
<1>5. Good(k - 1)
  <2>1. k - 1 \notin T
    <3> HIDE DEF T
    <3> QED
      BY <1>2, <1>4
  <2> QED
    BY <1>4, <2>1
<1>6. PICK f \in [0..k - 1 -> S] :
        f[0] = a /\ \A i \in 1..k - 1 : f[i] = g[<<i, f[i - 1]>>]
  BY <1>5
<1> DEFINE h == [i \in 0..k |-> IF i = k THEN g[<<k, f[k - 1]>>] ELSE f[i]]
<1>7. h \in [0..k -> S]
  <2>1. f[k - 1] \in S
    BY <1>4
  <2>2. g[<<k, f[k - 1]>>] \in S
    BY <1>4, <2>1
  <2> QED
    BY <1>4, <2>2
<1>8. h[0] = a
  BY <1>4, <1>6
<1>9. ASSUME NEW i \in 1..k PROVE h[i] = g[<<i, h[i - 1]>>]
  <2>1. h[i - 1] = f[i - 1]
    BY <1>4
  <2>2. CASE i = k
    <3>1. h[k] = g[<<k, f[k - 1]>>]
      BY <1>4
    <3> HIDE DEF h
    <3> QED
      BY <2>1, <2>2, <3>1
  <2>3. CASE i # k
    BY <1>4, <1>6, <2>1, <2>3
  <2> QED
    BY <2>2, <2>3
<1>10. Good(k)
  <2> HIDE DEF h
  <2> QED
    BY <1>7, <1>8, <1>9
<1> QED
  BY <1>2, <1>10

\* The same for a function of which only the domain is known.
Solves(h, L, S, a, g) ==
  /\ h = [i \in 0..L |-> h[i]] /\ h[0] = a
  /\ \A i \in 1..L : h[i - 1] \in S => h[i] = g[<<i, h[i - 1]>>]

\* There is only one.
LEMMA Determined ==
  ASSUME NEW L \in Nat, NEW S, NEW a, NEW g, NEW f, Recurs(f, L, S, a, g),
         NEW h, Solves(h, L, S, a, g)
  PROVE  h = f
<1> DEFINE T == {i \in 0..L : h[i] # f[i]}
<1>1. T = {}
  <2> SUFFICES ASSUME T # {} PROVE FALSE
    OBVIOUS
  <2>1. PICK k \in T : \A m \in T : k <= m
    <3>1. T \subseteq Nat
      OBVIOUS
    <3> HIDE DEF T
    <3> QED
      BY <3>1, LeastNat
  <2>2. k # 0
    BY <2>1 DEF Recurs, Solves
  <2>3. k \in 1..L /\ k - 1 \in 0..L
    BY <2>1, <2>2
  <2>4. h[k - 1] = f[k - 1]
    <3>1. k - 1 \notin T
      <4> HIDE DEF T
      <4> QED
        BY <2>1, <2>3
    <3> QED
      BY <2>3, <3>1
  <2>5. f[k - 1] \in S /\ f[k] = g[<<k, f[k - 1]>>]
    BY <2>3 DEF Recurs
  <2> QED
    BY <2>1, <2>3, <2>4, <2>5 DEF Solves
<1> QED
  BY <1>1 DEF Recurs, Solves

----------------------------------------------------------------------------
(* Text *)

\* What names look like when they are compared.
Texts == Seq(Chars \union {"@", "."})

\* Packages and components are texts of at least one character.
LEMMA Spelled ==
  ASSUME NEW s \in Packages \union Components
  PROVE  s \in Seq(Chars) /\ s \in Texts /\ Len(s) \in Nat \ {0}
<1>1. s \in Seq(Chars) /\ s # <<>>
  BY SpellingAssumption
<1>2. Len(s) \in Nat \ {0}
  BY <1>1, EmptySeq
<1>3. s \in Texts
  BY <1>1 DEF Texts
<1> QED
  BY <1>1, <1>2, <1>3

\* What a name consists of.
LEMMA Versions ==
  ASSUME NEW n \in Names
  PROVE  /\ n.package \in Packages
         /\ n.version \in Seq(Components) /\ Len(n.version) \in Nat
         /\ \A i \in 1..Len(n.version) : n.version[i] \in Components
<1>1. /\ n.package \in Packages
      /\ n.version \in UNION {[1..k -> Components] : k \in 0..MaxParts}
  BY DEF Names
<1>2. PICK k \in 0..MaxParts : n.version \in [1..k -> Components]
  BY <1>1
<1>3. k \in Nat
  BY LookupBounds
<1> QED
  BY <1>1, <1>2, <1>3

Separator(i) == IF i = 1 THEN "@" ELSE "."

\* The text of a name is put together as its definition says.
LEMMA JoinedIs ==
  ASSUME NEW n \in Names
  PROVE  /\ \A i \in 0..Len(n.version) : Joined(n)[i] \in Texts
         /\ Joined(n)[0] = n.package
         /\ \A i \in 1..Len(n.version) :
              Joined(n)[i] = Joined(n)[i - 1] \o <<Separator(i)>> \o n.version[i]
<1> DEFINE L == Len(n.version)
           E(i, s) == s \o <<Separator(i)>> \o n.version[i]
           B(h) == [i \in 0..L |-> IF i = 0 THEN n.package ELSE E(i, h[i - 1])]
           g == [x \in (1..L) \X Texts |-> E(x[1], x[2])]
<1>1. L \in Nat /\ n.package \in Texts
  BY Versions, Spelled
<1>2. ASSUME NEW i \in 1..L, NEW s \in Texts PROVE E(i, s) \in Texts
  <2>1. n.version[i] \in Texts
    BY Versions, Spelled
  <2>2. <<Separator(i)>> \in Texts
    BY DEF Texts, Separator
  <2> QED
    BY <2>1, <2>2 DEF Texts
<1>3. Joined(n) = CHOOSE h : h = B(h)
  BY DEF Joined, Separator
<1> HIDE DEF L, E
<1>4. /\ g \in [(1..L) \X Texts -> Texts]
      /\ \A i \in 1..L, s \in Texts : g[<<i, s>>] = E(i, s)
  BY <1>2
<1> HIDE DEF g
<1>5. PICK f : Recurs(f, L, Texts, n.package, g)
  BY <1>1, <1>4, Recursion
<1>6. f = B(f)
  <2>1. \A i \in 0..L : f[i] = B(f)[i]
    <3> SUFFICES ASSUME NEW i \in 0..L PROVE f[i] = B(f)[i]
      OBVIOUS
    <3>1. CASE i = 0
      BY <1>1, <1>5, <3>1 DEF Recurs
    <3>2. CASE i # 0
      <4>1. i \in 1..L /\ i - 1 \in 0..L
        BY <1>1, <3>2
      <4>2. f[i] = E(i, f[i - 1])
        BY <1>4, <1>5, <4>1 DEF Recurs
      <4> QED
        BY <3>2, <4>2
    <3> QED
      BY <3>1, <3>2
  <2> QED
    BY <1>5, <2>1 DEF Recurs
<1> DEFINE K == Joined(n)
           M == B(K)
<1>7. K = M
  <2> HIDE DEF B
  <2> QED
    BY <1>3, <1>6
<1> HIDE DEF K
<1>8. /\ M = [i \in 0..L |-> M[i]] /\ M[0] = n.package
      /\ \A i \in 1..L : M[i] = E(i, K[i - 1])
  BY <1>1
<1> HIDE DEF M
<1>9. K = f
  <2>1. /\ K = [i \in 0..L |-> K[i]] /\ K[0] = n.package
        /\ \A i \in 1..L : K[i] = E(i, K[i - 1])
    BY <1>7, <1>8
  <2>2. Solves(K, L, Texts, n.package, g)
    BY <1>4, <2>1 DEF Solves
  <2> QED
    BY <1>1, <1>5, <2>2, Determined
<1>10. \A i \in 0..L : K[i] \in Texts
  BY <1>5, <1>9 DEF Recurs
<1> QED
  BY <1>7, <1>8, <1>10 DEF K, L, E

\* The characters of two texts with one between them.
LEMMA Glue ==
  ASSUME NEW S, NEW s \in Seq(S), NEW c \in S, NEW t \in Seq(S)
  PROVE  LET g == s \o <<c>> \o t
         IN  /\ Len(s) \in Nat /\ Len(t) \in Nat /\ Len(g) = Len(s) + 1 + Len(t)
             /\ \A p \in 1..Len(s) : g[p] = s[p]
             /\ g[Len(s) + 1] = c
             /\ \A p \in 1..Len(t) : g[Len(s) + 1 + p] = t[p]
<1> DEFINE h == s \o <<c>>
           g == h \o t
<1>1. h \in Seq(S) /\ Len(h) = Len(s) + 1 /\ Len(s) \in Nat /\ Len(t) \in Nat
  OBVIOUS
<1>2. h[Len(s) + 1] = c /\ \A p \in 1..Len(s) : h[p] = s[p]
  OBVIOUS
<1> HIDE DEF h
<1>3. Len(g) = Len(s) + 1 + Len(t)
  BY <1>1
<1>4. \A p \in 1..Len(h) : g[p] = h[p]
  BY <1>1
<1>5. \A p \in 1..Len(t) : g[Len(h) + p] = t[p]
  BY <1>1
<1> HIDE DEF g
<1>6. /\ Len(g) = Len(s) + 1 + Len(t)
      /\ \A p \in 1..Len(s) : g[p] = s[p]
      /\ g[Len(s) + 1] = c
      /\ \A p \in 1..Len(t) : g[Len(s) + 1 + p] = t[p]
  BY <1>1, <1>2, <1>3, <1>4, <1>5
<1> QED
  BY <1>1, <1>6 DEF g, h

\* Where the text up to a component ends.
Ends(n, i) == Len(Joined(n)[i])

\* A component adds what separates it and itself.
LEMMA JoinedStep ==
  ASSUME NEW n \in Names, NEW i \in 1..Len(n.version)
  PROVE  /\ Ends(n, i - 1) \in Nat /\ Ends(n, i) = Ends(n, i - 1) + 1 + Len(n.version[i])
         /\ \A p \in 1..Ends(n, i - 1) : Joined(n)[i][p] = Joined(n)[i - 1][p]
         /\ Joined(n)[i][Ends(n, i - 1) + 1] = Separator(i)
         /\ \A p \in 1..Len(n.version[i]) :
              Joined(n)[i][Ends(n, i - 1) + 1 + p] = n.version[i][p]
<1>1. i - 1 \in 0..Len(n.version)
  BY Versions
<1>2. Joined(n)[i - 1] \in Texts /\ n.version[i] \in Texts
  BY <1>1, JoinedIs, Versions, Spelled
<1>3. Separator(i) \in Chars \union {"@", "."}
  BY DEF Separator
<1>4. Joined(n)[i] = Joined(n)[i - 1] \o <<Separator(i)>> \o n.version[i]
  BY JoinedIs
<1> DEFINE A == Joined(n)[i - 1]
           w == n.version[i]
           c == Separator(i)
           S == Chars \union {"@", "."}
<1>6. A \in Seq(S) /\ w \in Seq(S) /\ c \in S
  BY <1>2, <1>3 DEF Texts
<1> HIDE DEF A, w, c, S
<1>5. LET g == A \o <<c>> \o w
      IN  /\ Len(A) \in Nat /\ Len(w) \in Nat /\ Len(g) = Len(A) + 1 + Len(w)
          /\ \A p \in 1..Len(A) : g[p] = A[p]
          /\ g[Len(A) + 1] = c
          /\ \A p \in 1..Len(w) : g[Len(A) + 1 + p] = w[p]
  BY <1>6, Glue
<1> QED
  BY <1>4, <1>5 DEF A, w, c, Ends

\* What the text is up to a component, it stays.
LEMMA JoinedBegins ==
  ASSUME NEW n \in Names, NEW i \in 0..Len(n.version), NEW j \in i..Len(n.version)
  PROVE  /\ Ends(n, i) \in Nat /\ Ends(n, j) \in Nat /\ Ends(n, i) <= Ends(n, j)
         /\ \A p \in 1..Ends(n, i) : Joined(n)[j][p] = Joined(n)[i][p]
<1> DEFINE Good(k) == /\ Ends(n, i) <= Ends(n, k)
                      /\ \A p \in 1..Ends(n, i) : Joined(n)[k][p] = Joined(n)[i][p]
           T == {k \in i..Len(n.version) : ~Good(k)}
<1>0. Len(n.version) \in Nat
  BY Versions
<1>1. \A k \in 0..Len(n.version) : Ends(n, k) \in Nat
  <2>1. \A k \in 0..Len(n.version) : Joined(n)[k] \in Texts
    BY JoinedIs
  <2> QED
    BY <2>1 DEF Ends, Texts
<1>2. ASSUME T # {} PROVE FALSE
  <2>1. PICK k \in T : \A m \in T : k <= m
    <3>1. T \subseteq Nat
      BY <1>0
    <3> HIDE DEF T
    <3> QED
      BY <1>2, <3>1, LeastNat
  <2>2. k # i
    BY <1>1, <2>1
  <2>3. k \in 1..Len(n.version) /\ k - 1 \in i..Len(n.version)
    BY <1>0, <2>1, <2>2
  <2>4. Good(k - 1)
    <3>1. k - 1 \notin T
      <4> HIDE DEF T
      <4> QED
        BY <1>0, <2>1, <2>3
    <3> QED
      BY <2>3, <3>1
  <2>5. /\ Ends(n, k) = Ends(n, k - 1) + 1 + Len(n.version[k])
        /\ \A p \in 1..Ends(n, k - 1) : Joined(n)[k][p] = Joined(n)[k - 1][p]
    BY <2>3, JoinedStep
  <2>6. Len(n.version[k]) \in Nat
    BY <2>3, Versions, Spelled
  <2>7. Ends(n, k - 1) \in Nat /\ Ends(n, i) \in Nat /\ Ends(n, k) \in Nat
    BY <1>0, <1>1, <2>3
  <2>8. Good(k)
    BY <2>4, <2>5, <2>6, <2>7
  <2> QED
    BY <2>1, <2>8
<1> QED
  BY <1>0, <1>1, <1>2

\* Where the package, the components and what separates them are in a text.
LEMMA TextIs ==
  ASSUME NEW n \in Names
  PROVE  /\ Text(n) \in Texts /\ Len(Text(n)) = Ends(n, Len(n.version))
         /\ \A i \in 0..Len(n.version) : Ends(n, i) \in Nat /\ Ends(n, i) <= Len(Text(n))
         /\ Ends(n, 0) = Len(n.package)
         /\ \A p \in 1..Len(n.package) : Text(n)[p] = n.package[p]
         /\ \A i \in 1..Len(n.version) :
              /\ Ends(n, i) = Ends(n, i - 1) + 1 + Len(n.version[i])
              /\ Text(n)[Ends(n, i - 1) + 1] = Separator(i)
              /\ \A p \in 1..Len(n.version[i]) :
                   Text(n)[Ends(n, i - 1) + 1 + p] = n.version[i][p]
<1> DEFINE L == Len(n.version)
<1>1. L \in Nat /\ Text(n) = Joined(n)[L] /\ Len(Text(n)) = Ends(n, L)
  BY Versions DEF Text, Ends
<1>2. Text(n) \in Texts
  <2>1. L \in 0..L
    BY <1>1
  <2> QED
    BY <1>1, <2>1, JoinedIs
<1>3. \A i \in 0..L : /\ Ends(n, i) \in Nat /\ Ends(n, i) <= Len(Text(n))
                      /\ \A p \in 1..Ends(n, i) : Text(n)[p] = Joined(n)[i][p]
  BY <1>1, JoinedBegins
<1>4. Ends(n, 0) = Len(n.package) /\ Joined(n)[0] = n.package
  BY JoinedIs DEF Ends
<1>5. \A p \in 1..Len(n.package) : Text(n)[p] = n.package[p]
  BY <1>1, <1>3, <1>4
<1>6. ASSUME NEW i \in 1..L
      PROVE  /\ Ends(n, i) = Ends(n, i - 1) + 1 + Len(n.version[i])
             /\ Text(n)[Ends(n, i - 1) + 1] = Separator(i)
             /\ \A p \in 1..Len(n.version[i]) :
                  Text(n)[Ends(n, i - 1) + 1 + p] = n.version[i][p]
  <2>1. Len(n.version[i]) \in Nat
    BY Versions, Spelled
  <2>2. i \in 0..L
    BY <1>1
  <2>3. Ends(n, i - 1) \in Nat /\ Ends(n, i) = Ends(n, i - 1) + 1 + Len(n.version[i])
    BY JoinedStep
  <2>4. \A p \in 1..Ends(n, i) : Text(n)[p] = Joined(n)[i][p]
    BY <1>3, <2>2
  <2>5. Text(n)[Ends(n, i - 1) + 1] = Separator(i)
    <3>1. Ends(n, i - 1) + 1 \in 1..Ends(n, i)
      BY <2>1, <2>3
    <3> QED
      BY <2>4, <3>1, JoinedStep
  <2>6. ASSUME NEW p \in 1..Len(n.version[i])
        PROVE  Text(n)[Ends(n, i - 1) + 1 + p] = n.version[i][p]
    <3>1. Ends(n, i - 1) + 1 + p \in 1..Ends(n, i)
      BY <2>1, <2>3
    <3> QED
      BY <2>4, <3>1, JoinedStep
  <2> QED
    BY <2>3, <2>5, <2>6
<1> QED
  BY <1>1, <1>2, <1>3, <1>4, <1>5, <1>6

----------------------------------------------------------------------------
(* Matching *)

\* A word of u ends at o.
Apart(u, o) == o = Len(u) \/ u[o + 1] \in {"@", "."}

\* Each component of a text does.
LEMMA EndsApart ==
  ASSUME NEW n \in Names, NEW i \in 0..Len(n.version) PROVE Apart(Text(n), Ends(n, i))
<1>1. CASE i = Len(n.version)
  BY <1>1, TextIs DEF Apart
<1>2. CASE i # Len(n.version)
  <2>1. i + 1 \in 1..Len(n.version) /\ (i + 1) - 1 = i
    BY <1>2, Versions
  <2>2. Text(n)[Ends(n, (i + 1) - 1) + 1] = Separator(i + 1)
    BY <2>1, TextIs
  <2> QED
    BY <2>1, <2>2 DEF Apart, Separator
<1> QED
  BY <1>1, <1>2

\* The comparison of bare_addon__matches(), character by character.
Begins(t, u) ==
  /\ Len(t) <= Len(u) /\ \A p \in 1..Len(t) : t[p] = u[p]
  /\ Len(t) < Len(u) => u[Len(t) + 1] = "."

\* Of two texts, one of which begins the other up to a dot, the words at one place are
\* the same.
LEMMA SameWord ==
  ASSUME NEW t \in Texts, NEW u \in Texts, Begins(t, u),
         NEW c \in Seq(Chars), NEW d \in Seq(Chars), NEW o \in Nat,
         o + Len(c) <= Len(t), o + Len(d) <= Len(u),
         \A p \in 1..Len(c) : t[o + p] = c[p],
         \A p \in 1..Len(d) : u[o + p] = d[p],
         Apart(t, o + Len(c)), Apart(u, o + Len(d))
  PROVE  c = d
<1>1. Len(c) \in Nat /\ Len(d) \in Nat /\ Len(t) \in Nat /\ Len(u) \in Nat
  BY DEF Texts
<1>2. \A x \in Chars : x \notin {"@", "."}
  BY SpellingAssumption
<1>3. CASE Len(c) < Len(d)
  <2> DEFINE p == Len(c) + 1
  <2>1. p \in 1..Len(d) /\ d[p] \in Chars /\ u[o + p] = d[p]
    BY <1>1, <1>3
  <2>2. CASE o + Len(c) = Len(t)
    <3>1. Len(t) + 1 = o + p
      BY <1>1, <2>2
    <3>2. Len(t) < Len(u)
      BY <1>1, <1>3, <2>2
    <3> QED
      BY <1>2, <2>1, <3>1, <3>2 DEF Begins
  <2>3. CASE o + Len(c) # Len(t)
    <3>1. t[(o + Len(c)) + 1] \in {"@", "."}
      BY <2>3 DEF Apart
    <3>2. (o + Len(c)) + 1 = o + p /\ o + p \in 1..Len(t)
      BY <1>1, <2>3 DEF Texts
    <3>3. t[o + p] = u[o + p]
      BY <3>2 DEF Begins
    <3> QED
      BY <1>2, <2>1, <3>1, <3>2, <3>3
  <2> QED
    BY <2>2, <2>3
<1>4. CASE Len(d) < Len(c)
  <2> DEFINE p == Len(d) + 1
  <2>1. p \in 1..Len(c) /\ c[p] \in Chars /\ t[o + p] = c[p]
    BY <1>1, <1>4
  <2>2. o + p \in 1..Len(t) /\ (o + Len(d)) + 1 = o + p
    BY <1>1, <1>4
  <2>3. t[o + p] = u[o + p] /\ o + Len(d) # Len(u)
    BY <1>1, <1>4, <2>2 DEF Begins
  <2>4. u[(o + Len(d)) + 1] \in {"@", "."}
    BY <2>3 DEF Apart
  <2> QED
    BY <1>2, <2>1, <2>2, <2>3, <2>4
<1>5. CASE Len(c) = Len(d)
  <2>1. ASSUME NEW p \in 1..Len(c) PROVE c[p] = d[p]
    <3>1. o + p \in 1..Len(t)
      BY <1>1
    <3> QED
      BY <1>5, <3>1 DEF Begins
  <2> QED
    BY <1>5, <2>1, SeqEqual
<1> QED
  BY <1>1, <1>3, <1>4, <1>5

\* The query and the name have the same components, up to one of the query.
Agree(q, n, i) ==
  /\ i <= Len(n.version) /\ Ends(q, i) = Ends(n, i)
  /\ \A j \in 1..i : q.version[j] = n.version[j]

\* If the query begins the name they are of one package,
LEMMA PackagesAgree ==
  ASSUME NEW q \in Names, NEW n \in Names, Begins(Text(q), Text(n))
  PROVE  q.package = n.package
<1>1. q.package \in Seq(Chars) /\ n.package \in Seq(Chars)
  BY Versions, Spelled
<1>2. 0 \in 0..Len(q.version) /\ 0 \in 0..Len(n.version)
  BY Versions
<1>3. /\ Len(q.package) \in Nat /\ Len(n.package) \in Nat
      /\ Ends(q, 0) = Len(q.package) /\ Ends(n, 0) = Len(n.package)
      /\ Len(q.package) <= Len(Text(q)) /\ Len(n.package) <= Len(Text(n))
  BY <1>1, <1>2, TextIs
<1>4. Apart(Text(q), Len(q.package)) /\ Apart(Text(n), Len(n.package))
  BY <1>2, <1>3, EndsApart
<1>5. /\ \A p \in 1..Len(q.package) : Text(q)[p] = q.package[p]
      /\ \A p \in 1..Len(n.package) : Text(n)[p] = n.package[p]
      /\ Text(q) \in Texts /\ Text(n) \in Texts
  BY TextIs
<1> DEFINE t == Text(q)
           u == Text(n)
           c == q.package
           d == n.package
           o == 0
<1>6. /\ t \in Texts /\ u \in Texts /\ Begins(t, u) /\ c \in Seq(Chars) /\ d \in Seq(Chars)
      /\ o \in Nat /\ o + Len(c) <= Len(t) /\ o + Len(d) <= Len(u)
      /\ \A p \in 1..Len(c) : t[o + p] = c[p]
      /\ \A p \in 1..Len(d) : u[o + p] = d[p]
      /\ Apart(t, o + Len(c)) /\ Apart(u, o + Len(d))
  BY <1>1, <1>3, <1>4, <1>5
<1> HIDE DEF t, u, c, d, o
<1>7. c = d
  BY <1>6, SameWord
<1> QED
  BY <1>7 DEF c, d

\* have one more component in common while the query has one,
LEMMA ComponentsAgree ==
  ASSUME NEW q \in Names, NEW n \in Names, Begins(Text(q), Text(n)),
         NEW i \in 1..Len(q.version), Agree(q, n, i - 1)
  PROVE  Agree(q, n, i)
<1> DEFINE e == Ends(q, i - 1)
           o == e + 1
<1>1. Len(q.version) \in Nat /\ Len(n.version) \in Nat
  BY Versions
<1>2. e = Ends(n, i - 1) /\ i - 1 \in 0..Len(q.version) /\ i - 1 \in 0..Len(n.version)
  BY <1>1 DEF Agree
<1>3. /\ Text(q) \in Texts /\ Text(n) \in Texts /\ e \in Nat
      /\ Ends(q, i) = o + Len(q.version[i]) /\ Text(q)[o] = Separator(i)
      /\ Ends(q, i) \in Nat /\ Ends(q, i) <= Len(Text(q))
      /\ \A p \in 1..Len(q.version[i]) : Text(q)[o + p] = q.version[i][p]
  BY <1>1, <1>2, TextIs
<1>4. q.version[i] \in Seq(Chars) /\ Len(q.version[i]) \in Nat
  BY Versions, Spelled
<1>5. i <= Len(n.version)
  <2> SUFFICES ASSUME i - 1 = Len(n.version) PROVE FALSE
    BY <1>1, <1>2
  <2>1. e = Len(Text(n))
    BY <1>2, TextIs
  <2>2. Len(Text(q)) <= Len(Text(n))
    BY DEF Begins
  <2>3. Len(Text(q)) \in Nat
    BY <1>3 DEF Texts
  <2> QED
    BY <1>3, <1>4, <2>1, <2>2, <2>3
<1>6. i \in 1..Len(n.version) /\ i \in 0..Len(n.version) /\ i \in 0..Len(q.version)
  BY <1>1, <1>5
<1>7. /\ Ends(n, i) = o + Len(n.version[i])
      /\ Ends(n, i) \in Nat /\ Ends(n, i) <= Len(Text(n))
      /\ \A p \in 1..Len(n.version[i]) : Text(n)[o + p] = n.version[i][p]
  BY <1>2, <1>6, TextIs
<1>8. n.version[i] \in Seq(Chars)
  BY <1>6, Versions, Spelled
<1>9. Apart(Text(q), Ends(q, i)) /\ Apart(Text(n), Ends(n, i))
  BY <1>6, EndsApart
<1>10. q.version[i] = n.version[i]
  <2> DEFINE t == Text(q)
             u == Text(n)
             c == q.version[i]
             d == n.version[i]
  <2>1. /\ t \in Texts /\ u \in Texts /\ Begins(t, u) /\ c \in Seq(Chars) /\ d \in Seq(Chars)
        /\ o \in Nat /\ o + Len(c) <= Len(t) /\ o + Len(d) <= Len(u)
        /\ \A p \in 1..Len(c) : t[o + p] = c[p]
        /\ \A p \in 1..Len(d) : u[o + p] = d[p]
        /\ Apart(t, o + Len(c)) /\ Apart(u, o + Len(d))
    BY <1>3, <1>4, <1>7, <1>8, <1>9
  <2> HIDE DEF t, u, c, d, o
  <2>2. c = d
    BY <2>1, SameWord
  <2> QED
    BY <2>2 DEF c, d
<1>11. \A j \in 1..i : q.version[j] = n.version[j]
  BY <1>10 DEF Agree
<1> QED
  BY <1>3, <1>5, <1>7, <1>10, <1>11 DEF Agree

\* and so all of those of the query.
LEMMA AllAgree ==
  ASSUME NEW q \in Names, NEW n \in Names, Begins(Text(q), Text(n))
  PROVE  \A i \in 0..Len(q.version) : Agree(q, n, i)
<1> DEFINE T == {i \in 0..Len(q.version) : ~Agree(q, n, i)}
<1> SUFFICES ASSUME T # {} PROVE FALSE
  OBVIOUS
<1>1. Len(q.version) \in Nat /\ Len(n.version) \in Nat
  BY Versions
<1>2. PICK i \in T : \A m \in T : i <= m
  <2>1. T \subseteq Nat
    BY <1>1
  <2> HIDE DEF T
  <2> QED
    BY <2>1, LeastNat
<1>3. Agree(q, n, 0)
  BY <1>1, PackagesAgree, TextIs DEF Agree
<1>4. i \in 1..Len(q.version) /\ i - 1 \in 0..Len(q.version)
  BY <1>1, <1>2, <1>3
<1>5. Agree(q, n, i - 1)
  <2>1. i - 1 \notin T
    <3> HIDE DEF T
    <3> QED
      BY <1>1, <1>2, <1>4
  <2> QED
    BY <1>4, <2>1
<1> QED
  BY <1>2, <1>4, <1>5, ComponentsAgree

\* A text that begins a name up to a dot denotes it,
LEMMA BeginsDenotes ==
  ASSUME NEW q \in Names, NEW n \in Names, Begins(Text(q), Text(n))
  PROVE  Denotes(q, n)
<1> DEFINE k == Len(q.version)
<1>1. /\ k \in Nat /\ Len(n.version) \in Nat
      /\ q.version \in Seq(Components) /\ n.version \in Seq(Components)
  BY Versions
<1>2. Agree(q, n, k)
  BY <1>1, AllAgree
<1>3. SubSeq(n.version, 1, k) = q.version
  <2>1. k <= Len(n.version) /\ \A j \in 1..k : q.version[j] = n.version[j]
    BY <1>2 DEF Agree
  <2>2. /\ SubSeq(n.version, 1, k) \in Seq(Components) /\ Len(SubSeq(n.version, 1, k)) = k
        /\ \A j \in 1..k : SubSeq(n.version, 1, k)[j] = n.version[j]
    <3>1. \A j \in 1..k : n.version[j] \in Components
      BY <1>1, <2>1
    <3> HIDE DEF k
    <3> QED
      BY <1>1, <3>1, SubSeqProperties
  <2> QED
    BY <1>1, <2>1, <2>2, SeqEqual
<1>4. n # NoName
  <2>1. n.package # <<>>
    BY Versions, SpellingAssumption
  <2> QED
    BY <2>1 DEF NoName
<1>5. q.version = <<>> => n.version = <<>>
  <2> SUFFICES ASSUME q.version = <<>>, n.version # <<>> PROVE FALSE
    OBVIOUS
  <2>1. k = 0 /\ Ends(q, 0) = Ends(n, 0) /\ Len(Text(q)) = Ends(q, 0)
    BY <1>2, TextIs DEF Agree
  <2>2. 1 \in 1..Len(n.version)
    BY <1>1, EmptySeq
  <2>3. Text(n)[Ends(n, 1 - 1) + 1] = "@"
    BY <2>2, TextIs DEF Separator
  <2>4. Ends(n, 1) = Ends(n, 1 - 1) + 1 + Len(n.version[1]) /\ Ends(n, 1) <= Len(Text(n))
    BY <1>1, <2>2, TextIs
  <2>5. Ends(n, 0) \in Nat /\ Len(n.version[1]) \in Nat /\ Len(Text(n)) \in Nat
    <3>1. 0 \in 0..Len(n.version) /\ Text(n) \in Texts
      BY <1>1, TextIs
    <3> QED
      BY <2>2, <3>1, TextIs, Versions, Spelled DEF Texts
  <2>6. Len(Text(q)) < Len(Text(n)) /\ Text(n)[Len(Text(q)) + 1] = "@"
    BY <2>1, <2>3, <2>4, <2>5
  <2> QED
    BY <2>6 DEF Begins
<1> QED
  BY <1>1, <1>2, <1>3, <1>4, <1>5, PackagesAgree DEF Denotes, Agree

\* and one that denotes a name begins it, up to a dot.
LEMMA DenotesBegins ==
  ASSUME NEW q \in Names, NEW n \in Names, Denotes(q, n)
  PROVE  Begins(Text(q), Text(n))
<1> DEFINE k == Len(q.version)
           T == {i \in 0..k : Joined(q)[i] # Joined(n)[i]}
<1>1. /\ k \in Nat /\ Len(n.version) \in Nat
      /\ q.version \in Seq(Components) /\ n.version \in Seq(Components)
  BY Versions
<1>2. k <= Len(n.version) /\ q.package = n.package
  BY DEF Denotes
<1>3. \A j \in 1..k : q.version[j] = n.version[j]
  <2>1. SubSeq(n.version, 1, k) = q.version
    BY DEF Denotes
  <2>2. \A j \in 1..k : SubSeq(n.version, 1, k)[j] = n.version[j]
    BY <1>1, <1>2
  <2> QED
    BY <2>1, <2>2
<1>4. T = {}
  <2> SUFFICES ASSUME T # {} PROVE FALSE
    OBVIOUS
  <2>1. PICK i \in T : \A m \in T : i <= m
    <3>1. T \subseteq Nat
      BY <1>1
    <3> HIDE DEF T
    <3> QED
      BY <3>1, LeastNat
  <2>2. i # 0
    BY <1>2, <2>1, JoinedIs
  <2>3. i \in 1..k /\ i - 1 \in 0..k /\ i \in 1..Len(n.version)
    BY <1>1, <1>2, <2>1, <2>2
  <2>4. Joined(q)[i - 1] = Joined(n)[i - 1]
    <3>1. i - 1 \notin T
      <4> HIDE DEF T
      <4> QED
        BY <1>1, <2>1, <2>3
    <3> QED
      BY <2>3, <3>1
  <2>5. Joined(q)[i] = Joined(n)[i]
    BY <1>3, <2>3, <2>4, JoinedIs
  <2> QED
    BY <2>1, <2>5
<1>5. Text(q) = Joined(n)[k] /\ Len(Text(q)) = Ends(n, k)
  <2>1. Joined(q)[k] = Joined(n)[k]
    BY <1>1, <1>4
  <2> QED
    BY <2>1 DEF Text, Ends
<1>6. /\ Len(Text(q)) <= Len(Text(n))
      /\ \A p \in 1..Len(Text(q)) : Text(q)[p] = Text(n)[p]
  <2>1. k \in 0..Len(n.version) /\ Len(n.version) \in k..Len(n.version)
    BY <1>1, <1>2
  <2>2. /\ Ends(n, k) <= Ends(n, Len(n.version))
        /\ \A p \in 1..Ends(n, k) : Joined(n)[Len(n.version)][p] = Joined(n)[k][p]
    <3> HIDE DEF k
    <3> QED
      BY <2>1, JoinedBegins
  <2> QED
    BY <1>5, <2>2, TextIs DEF Text
<1>7. ASSUME Len(Text(q)) < Len(Text(n)) PROVE Text(n)[Len(Text(q)) + 1] = "."
  <2>1. k # Len(n.version)
    BY <1>5, <1>7, TextIs DEF Texts
  <2>2. k # 0
    <3> SUFFICES ASSUME k = 0 PROVE FALSE
      OBVIOUS
    <3>1. q.version = <<>>
      BY <1>1, EmptySeq
    <3>2. n.version = <<>>
      BY <3>1 DEF Denotes
    <3> QED
      BY <2>1, <3>1, <3>2
  <2>3. k + 1 \in 1..Len(n.version) /\ (k + 1) - 1 = k /\ k + 1 # 1
    BY <1>1, <1>2, <2>1, <2>2
  <2>4. Text(n)[Ends(n, (k + 1) - 1) + 1] = Separator(k + 1)
    BY <2>3, TextIs
  <2> QED
    BY <1>5, <2>3, <2>4 DEF Separator
<1> QED
  BY <1>6, <1>7 DEF Begins

\* Comparing characters, as bare_addon__matches() does, is comparing packages and
\* versions by components, as module.h says: 1 does not match 10.0.0, and a query
\* without a version matches only a name without one.
THEOREM MatchesMeant ==
  ASSUME NEW q \in Names, NEW a, a.name \in Names \union {NoName}
  PROVE  Matches(Text(q), a) <=> Denotes(q, a.name)
<1>1. CASE a.name = NoName
  BY <1>1 DEF Matches, Denotes
<1>2. CASE a.name # NoName
  <2> DEFINE t == Text(q)
             u == Text(a.name)
  <2>1. t \in Texts /\ u \in Texts /\ Len(t) \in Nat /\ Len(u) \in Nat
    BY <1>2, TextIs DEF Texts
  <2>2. ASSUME Len(t) <= Len(u)
        PROVE  SubSeq(u, 1, Len(t)) = t <=> \A p \in 1..Len(t) : t[p] = u[p]
    <3> HIDE DEF t, u
    <3> DEFINE C == Chars \union {"@", "."}
    <3>1. t \in Seq(C) /\ u \in Seq(C)
      BY <2>1 DEF Texts
    <3> HIDE DEF C
    <3>2. /\ SubSeq(u, 1, Len(t)) \in Seq(C) /\ Len(SubSeq(u, 1, Len(t))) = Len(t)
          /\ \A p \in 1..Len(t) : SubSeq(u, 1, Len(t))[p] = u[p]
      <4>1. \A p \in 1..Len(t) : u[p] \in C
        BY <2>1, <2>2, <3>1
      <4> QED
        BY <2>1, <4>1, SubSeqProperties
    <3> QED
      BY <3>1, <3>2, SeqEqual
  <2>3. Matches(t, a) <=> Begins(t, u)
    BY <1>2, <2>2, Zenon DEF Matches, Begins
  <2>4. a.name \in Names
    BY <1>2
  <2> QED
    BY <2>3, <2>4, BeginsDenotes, DenotesBegins
<1> QED
  BY <1>1, <1>2

\* A query finds what it does, with or without the extension.
LEMMA Stripped ==
  ASSUME NEW q \in Names, NEW query \in Asked(q) PROVE Strip(query) = Text(q)
<1>1. Text(q) \in Texts /\ Len(Text(q)) \in Nat \ {0}
  <2>1. Text(q) \in Texts /\ Ends(q, 0) = Len(q.package) /\ 0 \in 0..Len(q.version)
    BY TextIs, Versions
  <2>2. /\ Ends(q, 0) <= Len(Text(q)) /\ q.package \in Seq(Chars)
        /\ Len(q.package) \in Nat \ {0}
    BY <2>1, TextIs, Versions, Spelled
  <2>3. Len(Text(q)) \in Nat
    BY <2>1 DEF Texts
  <2> QED
    BY <2>1, <2>2, <2>3 DEF Texts
<1>2. ".bare" \notin Chars \union {"@", "."}
  BY SpellingAssumption
<1>3. CASE query = Text(q)
  <2>1. query[Len(query)] \in Chars \union {"@", "."}
    BY <1>1, <1>3 DEF Texts
  <2> QED
    BY <1>2, <1>3, <2>1 DEF Strip
<1>4. CASE query = Append(Text(q), ".bare")
  <2> DEFINE t == Text(q)
             C == Chars \union {"@", ".", ".bare"}
  <2>1. t \in Seq(C) /\ Len(t) \in Nat \ {0}
    BY <1>1 DEF Texts
  <2> HIDE DEF t
  <2>2. /\ Len(query) = Len(t) + 1 /\ query[Len(query)] = ".bare" /\ query \in Seq(C)
        /\ \A p \in 1..Len(t) : query[p] = t[p]
    BY <1>4, <2>1 DEF t
  <2> HIDE DEF C
  <2>3. Strip(query) = SubSeq(query, 1, Len(t))
    BY <2>1, <2>2 DEF Strip
  <2>4. /\ SubSeq(query, 1, Len(t)) \in Seq(C) /\ Len(SubSeq(query, 1, Len(t))) = Len(t)
        /\ \A p \in 1..Len(t) : SubSeq(query, 1, Len(t))[p] = query[p]
    <3>1. \A p \in 1..Len(t) : query[p] \in C
      BY <2>1, <2>2
    <3> QED
      BY <2>1, <3>1, SubSeqProperties
  <2>5. SubSeq(query, 1, Len(t)) = t
    BY <2>1, <2>2, <2>4, SeqEqual
  <2> QED
    BY <2>3, <2>5 DEF t
<1> QED
  BY <1>3, <1>4 DEF Asked

----------------------------------------------------------------------------
(* The two lists *)

Lists == Seq(Addons)

\* What is left of a list is computed as its definition says.
LEMMA KeptIs ==
  ASSUME NEW list \in Seq(Addons), NEW p
  PROVE  /\ \A i \in 0..Len(list) : Kept(list, p)[i] \in Lists
         /\ Kept(list, p)[0] = <<>>
         /\ \A i \in 1..Len(list) :
              Kept(list, p)[i] = IF list[i].owner = p THEN Kept(list, p)[i - 1]
                                 ELSE Append(Kept(list, p)[i - 1], list[i])
<1> DEFINE L == Len(list)
           E(i, s) == IF list[i].owner = p THEN s ELSE Append(s, list[i])
           Empty == <<>>
           B(h) == [i \in 0..L |-> IF i = 0 THEN Empty ELSE E(i, h[i - 1])]
           g == [x \in (1..L) \X Lists |-> E(x[1], x[2])]
<1>1. L \in Nat /\ Empty \in Lists
  BY DEF Lists
<1>2. ASSUME NEW i \in 1..L, NEW s \in Lists PROVE E(i, s) \in Lists
  BY DEF Lists
<1>3. Kept(list, p) = CHOOSE h : h = B(h)
  BY DEF Kept
<1> HIDE DEF L, E, Empty
<1>4. /\ g \in [(1..L) \X Lists -> Lists]
      /\ \A i \in 1..L, s \in Lists : g[<<i, s>>] = E(i, s)
  BY <1>2
<1> HIDE DEF g
<1>5. PICK f : Recurs(f, L, Lists, Empty, g)
  BY <1>1, <1>4, Recursion
<1>6. f = B(f)
  <2>1. \A i \in 0..L : f[i] = B(f)[i]
    <3> SUFFICES ASSUME NEW i \in 0..L PROVE f[i] = B(f)[i]
      OBVIOUS
    <3>1. CASE i = 0
      BY <1>1, <1>5, <3>1 DEF Recurs
    <3>2. CASE i # 0
      <4>1. i \in 1..L /\ i - 1 \in 0..L
        BY <1>1, <3>2
      <4>2. f[i] = E(i, f[i - 1])
        BY <1>4, <1>5, <4>1 DEF Recurs
      <4> QED
        BY <3>2, <4>2
    <3> QED
      BY <3>1, <3>2
  <2> QED
    BY <1>5, <2>1 DEF Recurs
<1> DEFINE K == Kept(list, p)
           M == B(K)
<1>7. K = M
  <2> HIDE DEF B
  <2> QED
    BY <1>3, <1>6
<1> HIDE DEF K
<1>8. /\ M = [i \in 0..L |-> M[i]] /\ M[0] = Empty
      /\ \A i \in 1..L : M[i] = E(i, K[i - 1])
  BY <1>1
<1> HIDE DEF M
<1>9. K = f
  <2>1. /\ K = [i \in 0..L |-> K[i]] /\ K[0] = Empty
        /\ \A i \in 1..L : K[i] = E(i, K[i - 1])
    BY <1>7, <1>8
  <2>2. Solves(K, L, Lists, Empty, g)
    BY <1>4, <2>1 DEF Solves
  <2> QED
    BY <1>1, <1>5, <2>2, Determined
<1>10. \A i \in 0..L : K[i] \in Lists
  BY <1>5, <1>9 DEF Recurs
<1> QED
  BY <1>7, <1>8, <1>10 DEF K, L, E, Empty

----------------------------------------------------------------------------
(* The two lists *)

\* Newest first.
Descends(s) == \A i, j \in DOMAIN s : i < j => s[i].at > s[j].at

\* None of them newer than c; each owned by one of P.
NoNewer(s, c) == \A i \in DOMAIN s : s[i].at <= c
OwnedIn(s, P) == \A i \in DOMAIN s : s[i].owner \in P

\* The inductive invariant: static addons belong to no process and dynamic ones to
\* one, nothing is newer than the clock, and both lists are newest first.
ListsInv ==
  /\ clock \in Nat
  /\ static \in Lists /\ OwnedIn(static, {NoProcess}) /\ NoNewer(static, clock)
  /\ dynamic \in Lists /\ OwnedIn(dynamic, Processes) /\ NoNewer(dynamic, clock)
  /\ Descends(static) /\ Descends(dynamic)

\* Newer addons in front of a list leave it newest first.
LEMMA Glued ==
  ASSUME NEW s \in Lists, NEW t \in Lists, NEW P, NEW c \in Nat, NEW e \in Nat,
         c <= e, NoNewer(s, e), \A i \in DOMAIN s : s[i].at > c, NoNewer(t, c),
         OwnedIn(s, P), OwnedIn(t, P), Descends(s), Descends(t)
  PROVE  s \o t \in Lists /\ OwnedIn(s \o t, P) /\ NoNewer(s \o t, e) /\ Descends(s \o t)
<1> DEFINE u == s \o t
<1>0. /\ \A i \in DOMAIN s : s[i].at \in Nat
      /\ \A i \in DOMAIN t : t[i].at \in Nat
  <2>1. ASSUME NEW l \in Lists, NEW i \in DOMAIN l PROVE l[i].at \in Nat
    <3>1. l[i] \in Addons
      BY DEF Lists
    <3> QED
      BY <3>1 DEF Addons
  <2> QED
    BY <2>1
<1>1. /\ Len(s) \in Nat /\ Len(t) \in Nat /\ DOMAIN s = 1..Len(s) /\ DOMAIN t = 1..Len(t)
      /\ u \in Lists /\ DOMAIN u = 1..(Len(s) + Len(t))
      /\ \A i \in 1..Len(s) : u[i] = s[i]
      /\ \A i \in 1..Len(t) : u[Len(s) + i] = t[i]
  BY DEF Lists
<1> HIDE DEF u
<1>2. ASSUME NEW i \in DOMAIN u
      PROVE  \/ i \in DOMAIN s /\ u[i] = s[i]
             \/ i - Len(s) \in DOMAIN t /\ u[i] = t[i - Len(s)]
  BY <1>1
<1>3. OwnedIn(u, P)
  BY <1>2 DEF OwnedIn
<1>4. NoNewer(u, e)
  BY <1>0, <1>1, <1>2 DEF NoNewer
<1>5. ASSUME NEW i \in DOMAIN u, NEW j \in DOMAIN u, i < j PROVE u[i].at > u[j].at
  <2>1. CASE j \in DOMAIN s
    BY <1>1, <1>5, <2>1 DEF Descends
  <2>2. CASE i \in DOMAIN s /\ j \notin DOMAIN s
    BY <1>0, <1>1, <1>2, <2>2 DEF NoNewer
  <2>3. CASE i \notin DOMAIN s /\ j \notin DOMAIN s
    <3>1. /\ i - Len(s) \in DOMAIN t /\ u[i] = t[i - Len(s)]
          /\ j - Len(s) \in DOMAIN t /\ u[j] = t[j - Len(s)]
      BY <1>2, <2>3
    <3>2. i - Len(s) < j - Len(s)
      BY <1>1, <1>5
    <3> QED
      BY <3>1, <3>2 DEF Descends
  <2> QED
    BY <2>1, <2>2, <2>3
<1> QED
  BY <1>1, <1>3, <1>4, <1>5 DEF Descends, u

\* What is left of a list is part of it, in its order.
Part(s, list, i, p) ==
  /\ s \in Lists /\ Descends(s)
  /\ \A j \in DOMAIN s : \E k \in 1..i : s[j] = list[k] /\ list[k].owner # p

\* Teardown takes elements out and leaves the others in their order.
LEMMA KeptIsPart ==
  ASSUME NEW list \in Lists, NEW p, Descends(list)
  PROVE  Part(Kept(list, p)[Len(list)], list, Len(list), p)
<1> DEFINE L == Len(list)
           K(i) == Kept(list, p)[i]
           T == {i \in 0..L : ~Part(K(i), list, i, p)}
<1>1. L \in Nat /\ DOMAIN list = 1..L
  BY DEF Lists
<1>2. /\ K(0) = <<>>
      /\ \A i \in 1..L : /\ list[i].owner = p => K(i) = K(i - 1)
                         /\ list[i].owner # p => K(i) = Append(K(i - 1), list[i])
  BY KeptIs DEF Lists
<1>3. \A i \in 1..L : list[i] \in Addons
  BY DEF Lists
<1> HIDE DEF K, L
<1>4. T = {}
  <2> SUFFICES ASSUME T # {} PROVE FALSE
    OBVIOUS
  <2>1. PICK i \in T : \A m \in T : i <= m
    <3>1. T \subseteq Nat
      BY <1>1
    <3> HIDE DEF T
    <3> QED
      BY <3>1, LeastNat
  <2>2. i # 0
    <3>1. Part(<<>>, list, 0, p)
      BY DEF Part, Lists, Descends
    <3> QED
      BY <1>2, <2>1, <3>1
  <2>3. i \in 1..L /\ i - 1 \in 0..L
    BY <1>1, <2>1, <2>2
  <2>4. Part(K(i - 1), list, i - 1, p)
    <3>1. i - 1 \notin T
      <4> HIDE DEF T
      <4> QED
        BY <1>1, <2>1, <2>3
    <3> QED
      BY <2>3, <3>1
  <2>5. CASE list[i].owner = p
    <3>1. Part(K(i - 1), list, i, p)
      BY <1>1, <2>3, <2>4 DEF Part
    <3> QED
      BY <1>2, <2>1, <2>3, <2>5, <3>1
  <2>6. CASE list[i].owner # p
    <3> DEFINE s == K(i - 1)
               u == Append(s, list[i])
    <3>1. /\ s \in Lists /\ Descends(s) /\ list[i] \in Addons
          /\ \A j \in DOMAIN s : \E k \in 1..i - 1 : s[j] = list[k] /\ list[k].owner # p
      BY <1>3, <2>3, <2>4 DEF Part
    <3> HIDE DEF s
    <3>2. /\ u \in Lists /\ Len(s) \in Nat /\ DOMAIN s = 1..Len(s) /\ DOMAIN u = 1..Len(s) + 1
          /\ u[Len(s) + 1] = list[i] /\ \A j \in 1..Len(s) : u[j] = s[j]
      BY <3>1 DEF Lists
    <3> HIDE DEF u
    <3>3. \A j \in DOMAIN u : \E k \in 1..i : u[j] = list[k] /\ list[k].owner # p
      <4> SUFFICES ASSUME NEW j \in DOMAIN u
                   PROVE  \E k \in 1..i : u[j] = list[k] /\ list[k].owner # p
        OBVIOUS
      <4>1. CASE j = Len(s) + 1
        BY <1>1, <2>3, <2>6, <3>2, <4>1
      <4>2. CASE j # Len(s) + 1
        <5>1. j \in DOMAIN s /\ u[j] = s[j]
          BY <3>2, <4>2
        <5> QED
          BY <1>1, <2>3, <3>1, <5>1
      <4> QED
        BY <4>1, <4>2
    <3>4. ASSUME NEW j \in DOMAIN u, NEW m \in DOMAIN u, j < m PROVE u[j].at > u[m].at
      <4>1. j \in DOMAIN s /\ u[j] = s[j]
        BY <3>2, <3>4
      <4>2. CASE m = Len(s) + 1
        <5>1. PICK k \in 1..i - 1 : s[j] = list[k]
          BY <3>1, <4>1
        <5>2. list[k].at > list[i].at
          BY <1>1, <2>3, <5>1 DEF Descends
        <5> QED
          BY <3>2, <4>1, <4>2, <5>1, <5>2
      <4>3. CASE m # Len(s) + 1
        BY <3>1, <3>2, <3>4, <4>1, <4>3 DEF Descends
      <4> QED
        BY <4>2, <4>3
    <3>5. Part(u, list, i, p)
      BY <3>2, <3>3, <3>4 DEF Part, Descends
    <3> QED
      BY <1>2, <2>1, <2>3, <2>6, <3>5 DEF u, s
  <2> QED
    BY <2>5, <2>6
<1> QED
  BY <1>1, <1>4 DEF K, L

\* The elements of a list are addons.
LEMMA Typed == ASSUME NEW s \in Lists, NEW i \in DOMAIN s PROVE s[i] \in Addons
BY DEF Lists

\* A list without anything newer than a time has nothing newer than a later one.
LEMMA Older == ASSUME NEW s \in Lists, NEW c \in Nat, NEW e \in Nat, c <= e, NoNewer(s, c)
               PROVE  NoNewer(s, e)
<1> SUFFICES ASSUME NEW i \in DOMAIN s PROVE s[i].at <= e
  BY DEF NoNewer
<1>1. s[i].at \in Nat /\ s[i].at <= c
  BY Typed DEF NoNewer, Addons
<1> QED
  BY <1>1

\* Each action keeps the lists so: registering,
LEMMA Registered ==
  ASSUME ListsInv, NEW n \in Names, RegisterStatic(n) PROVE ListsInv'
<1> DEFINE s == <<Addon(n, NoProcess, 1)>>
<1>1. /\ static' = s \o static /\ clock' = clock + 1 /\ UNCHANGED dynamic
      /\ clock \in Nat /\ clock' \in Nat /\ clock <= clock'
  BY DEF ListsInv, RegisterStatic
<1>2. Addon(n, NoProcess, 1) \in Addons /\ Addon(n, NoProcess, 1).at = clock + 1
      /\ Addon(n, NoProcess, 1).owner = NoProcess
  BY <1>1 DEF Addon, Addons
<1>3. /\ s \in Lists /\ DOMAIN s = {1} /\ s[1] = Addon(n, NoProcess, 1)
  BY <1>2 DEF Lists
<1> HIDE DEF s
<1>4. /\ NoNewer(s, clock') /\ \A i \in DOMAIN s : s[i].at > clock
      /\ OwnedIn(s, {NoProcess}) /\ Descends(s)
  BY <1>1, <1>2, <1>3 DEF NoNewer, OwnedIn, Descends
<1>5. /\ s \o static \in Lists /\ OwnedIn(s \o static, {NoProcess})
      /\ NoNewer(s \o static, clock') /\ Descends(s \o static)
  BY <1>1, <1>3, <1>4, Glued DEF ListsInv
<1>6. NoNewer(dynamic, clock')
  BY <1>1, Older DEF ListsInv
<1> QED
  BY <1>1, <1>5, <1>6 DEF ListsInv, NoNewer, OwnedIn, Descends

\* loading a library and what it depends on,
LEMMA Loaded ==
  ASSUME ListsInv, NEW p \in Processes, NEW ns \in Seq(Names \union {NoName}), Load(p, ns)
  PROVE  ListsInv'
<1> DEFINE k == Len(ns)
           s == [i \in 1..k |-> Addon(ns[k + 1 - i], p, k + 1 - i)]
<1>1. /\ dynamic' = s \o dynamic /\ clock' = clock + k /\ UNCHANGED static
      /\ k \in Nat /\ clock \in Nat /\ clock' \in Nat /\ clock <= clock'
  BY DEF ListsInv, Load
<1>2. ASSUME NEW i \in 1..k
      PROVE  /\ s[i] \in Addons /\ s[i].at = clock + (k + 1 - i) /\ s[i].owner = p
  <2>1. k + 1 - i \in 1..k /\ ns[k + 1 - i] \in Names \union {NoName}
    BY <1>1
  <2>2. s[i] = Addon(ns[k + 1 - i], p, k + 1 - i)
    OBVIOUS
  <2> QED
    BY <1>1, <2>1, <2>2 DEF Addon, Addons
<1>3. s \in Lists /\ DOMAIN s = 1..k
  BY <1>1, <1>2 DEF Lists
<1> HIDE DEF s, k
<1>4. /\ NoNewer(s, clock') /\ \A i \in DOMAIN s : s[i].at > clock
      /\ OwnedIn(s, Processes) /\ Descends(s)
  BY <1>1, <1>2, <1>3 DEF NoNewer, OwnedIn, Descends
<1>5. /\ s \o dynamic \in Lists /\ OwnedIn(s \o dynamic, Processes)
      /\ NoNewer(s \o dynamic, clock') /\ Descends(s \o dynamic)
  BY <1>1, <1>3, <1>4, Glued DEF ListsInv
<1>6. NoNewer(static, clock')
  BY <1>1, Older DEF ListsInv
<1> QED
  BY <1>1, <1>5, <1>6 DEF ListsInv, NoNewer, OwnedIn, Descends

\* and the teardown of a process.
LEMMA Unloaded == ASSUME ListsInv, NEW p \in Processes, Unload(p) PROVE ListsInv'
<1> DEFINE s == Kept(dynamic, p)[Len(dynamic)]
<1>1. dynamic' = s /\ UNCHANGED <<static, clock>>
  BY DEF Unload
<1>2. Part(s, dynamic, Len(dynamic), p) /\ DOMAIN dynamic = 1..Len(dynamic)
  BY KeptIsPart DEF ListsInv, Lists
<1> HIDE DEF s
<1>3. NoNewer(s, clock) /\ OwnedIn(s, Processes)
  BY <1>2 DEF Part, ListsInv, NoNewer, OwnedIn
<1> QED
  BY <1>1, <1>2, <1>3 DEF ListsInv, NoNewer, OwnedIn, Descends, Part

\* Whatever is registered, loaded and unloaded on whichever process, both lists stay
\* newest first and hold the addons of the right owners.  Publishing puts the staged
\* addons in front, and teardown keeps the order of what it leaves.
THEOREM ListsInOrder == Spec => []ListsInv
<1>1. Init => ListsInv
  BY DEF Init, ListsInv, Lists, OwnedIn, NoNewer, Descends
<1>2. ListsInv /\ [Next]_vars => ListsInv'
  <2> SUFFICES ASSUME ListsInv, [Next]_vars PROVE ListsInv'
    OBVIOUS
  <2>1. ASSUME NEW n \in Names, RegisterStatic(n) PROVE ListsInv'
    BY <2>1, Registered
  <2>2. ASSUME NEW p \in Processes, Unload(p) PROVE ListsInv'
    BY <2>2, Unloaded
  <2>3. ASSUME NEW p \in Processes, NEW n \in Names \union {NoName}, Load(p, <<n>>)
        PROVE  ListsInv'
    <3>1. <<n>> \in Seq(Names \union {NoName})
      OBVIOUS
    <3> QED
      BY <2>3, <3>1, Loaded
  <2>4. ASSUME NEW p \in Processes, NEW n \in Names, NEW d \in Names, Load(p, <<d, n>>)
        PROVE  ListsInv'
    <3>1. <<d, n>> \in Seq(Names \union {NoName})
      OBVIOUS
    <3> QED
      BY <2>4, <3>1, Loaded
  <2>5. CASE UNCHANGED vars
    BY <2>5 DEF vars, ListsInv, OwnedIn, NoNewer, Descends
  <2> QED
    BY <2>1, <2>2, <2>3, <2>4, <2>5 DEF Next
<1> QED
  BY <1>1, <1>2, PTL DEF Spec

----------------------------------------------------------------------------
(* What is found *)

\* The search stops at the least index among the hits.
LEMMA FirstIs == ASSUME NEW S, S \subseteq Nat, S # {}
                 PROVE  First(S) \in S /\ \A i \in S : First(S) <= i
BY LeastNat DEF First

\* The hits are what the query means.
LEMMA Hits ==
  ASSUME ListsInv, NEW q \in Names, NEW p
  PROVE  /\ StaticHits(Text(q)) = {i \in DOMAIN static : Denotes(q, static[i].name)}
         /\ DynamicHits(Text(q), p) =
              {i \in DOMAIN dynamic : /\ p # NoProcess /\ dynamic[i].owner = p
                                      /\ Denotes(q, dynamic[i].name)}
         /\ StaticHits(Text(q)) \subseteq Nat /\ DynamicHits(Text(q), p) \subseteq Nat
<1>1. ASSUME NEW s \in Lists, NEW i \in DOMAIN s
      PROVE  i \in Nat /\ (Matches(Text(q), s[i]) <=> Denotes(q, s[i].name))
  <2>1. i \in Nat
    BY DEF Lists
  <2>2. s[i].name \in Names \union {NoName}
    BY Typed DEF Addons
  <2> QED
    BY <2>1, <2>2, MatchesMeant
<1>2. static \in Lists /\ dynamic \in Lists
  BY DEF ListsInv
<1> QED
  BY <1>1, <1>2 DEF StaticHits, DynamicHits

\* A static addon that is meant hides the dynamic ones;
LEMMA FoundStatic ==
  ASSUME ListsInv, NEW q \in Names, NEW p, NEW i \in DOMAIN static, Denotes(q, static[i].name)
  PROVE  \E k \in DOMAIN static :
           /\ \A query \in Asked(q) : Find(query, p) = {static[k]}
           /\ Denotes(q, static[k].name) /\ k <= i
<1> DEFINE S == StaticHits(Text(q))
<1>1. i \in S /\ S \subseteq Nat
  BY Hits
<1>2. First(S) \in S /\ First(S) <= i
  <2> HIDE DEF S
  <2> QED
    BY <1>1, FirstIs
<1>3. First(S) \in DOMAIN static /\ Denotes(q, static[First(S)].name)
  BY <1>2, Hits
<1>4. \A query \in Asked(q) : Find(query, p) = {static[First(S)]}
  BY <1>1, Stripped DEF Find
<1> QED
  BY <1>2, <1>3, <1>4

\* without one the first of those of the process that are meant is found;
LEMMA FoundDynamic ==
  ASSUME ListsInv, NEW q \in Names, NEW p,
         \A j \in DOMAIN static : ~Denotes(q, static[j].name),
         NEW i \in DOMAIN dynamic, dynamic[i].owner = p,
         Denotes(q, dynamic[i].name)
  PROVE  \E k \in DOMAIN dynamic :
           /\ \A query \in Asked(q) : Find(query, p) = {dynamic[k]}
           /\ Denotes(q, dynamic[k].name) /\ dynamic[k].owner = p /\ k <= i
<1> DEFINE S == StaticHits(Text(q))
           D == DynamicHits(Text(q), p)
<1>1. p # NoProcess
  BY ProcessesAssumption DEF ListsInv, OwnedIn
<1>2. S = {} /\ i \in D /\ D \subseteq Nat
  BY <1>1, Hits
<1>3. First(D) \in D /\ First(D) <= i
  <2> HIDE DEF D
  <2> QED
    BY <1>2, FirstIs
<1>4. /\ First(D) \in DOMAIN dynamic /\ Denotes(q, dynamic[First(D)].name)
      /\ dynamic[First(D)].owner = p
  BY <1>3, Hits
<1>5. \A query \in Asked(q) : Find(query, p) = {dynamic[First(D)]}
  BY <1>2, Stripped DEF Find
<1> QED
  BY <1>3, <1>4, <1>5

\* and without that nothing is.
LEMMA FoundNone ==
  ASSUME ListsInv, NEW q \in Names, NEW p,
         \A j \in DOMAIN static : ~Denotes(q, static[j].name),
         \A j \in DOMAIN dynamic :
           dynamic[j].owner = p => ~Denotes(q, dynamic[j].name)
  PROVE  \A query \in Asked(q) : Find(query, p) = {}
<1>1. StaticHits(Text(q)) = {} /\ DynamicHits(Text(q), p) = {}
  BY Hits
<1> QED
  BY <1>1, Stripped DEF Find

\* There is a static addon that is meant, or one of the process.
StaticMeant(q) == \E i \in DOMAIN static : Denotes(q, static[i].name)
DynamicMeant(q, p) ==
  \E i \in DOMAIN dynamic : dynamic[i].owner = p /\ Denotes(q, dynamic[i].name)

\* What a process can see: what is static, and what is its own.
LEMMA Sees ==
  ASSUME ListsInv, NEW p \in Processes \union {NoProcess}
  PROVE  /\ \A i \in DOMAIN static : static[i] \in Visible(p) /\ static[i].owner = NoProcess
         /\ \A i \in DOMAIN dynamic :
              /\ dynamic[i].owner # NoProcess
              /\ dynamic[i] \in Visible(p) <=> dynamic[i].owner = p
         /\ \A a \in Visible(p) :
              \/ \E i \in DOMAIN static : a = static[i]
              \/ \E i \in DOMAIN dynamic : a = dynamic[i] /\ a.owner = p
<1>1. \A i \in DOMAIN static : static[i].owner = NoProcess
  BY DEF ListsInv, OwnedIn
<1>2. \A i \in DOMAIN dynamic : dynamic[i].owner # NoProcess
  BY ProcessesAssumption DEF ListsInv, OwnedIn
<1>3. \A i \in DOMAIN static : static[i] \in Visible(p)
  BY <1>1 DEF Visible
<1>4. \A i \in DOMAIN dynamic : dynamic[i].owner = p => dynamic[i] \in Visible(p)
  BY DEF Visible
<1>5. ASSUME NEW i \in DOMAIN dynamic, dynamic[i] \in Visible(p) PROVE dynamic[i].owner = p
  BY <1>2, <1>5 DEF Visible
<1>6. ASSUME NEW a \in Visible(p)
      PROVE  \/ \E i \in DOMAIN static : a = static[i]
             \/ \E i \in DOMAIN dynamic : a = dynamic[i] /\ a.owner = p
  BY <1>2 DEF Visible
<1> QED
  BY <1>1, <1>2, <1>3, <1>4, <1>5, <1>6

\* So with the lists in order the search finds what is meant,
LEMMA Finds == ASSUME ListsInv PROVE FindsWhatIsMeant
<1> SUFFICES ASSUME NEW q \in Names, NEW p \in Processes \union {NoProcess},
                    NEW query \in Asked(q)
             PROVE  /\ Find(query, p) \subseteq Meant(q, p)
                    /\ Find(query, p) = {} => Meant(q, p) = {}
  BY DEF FindsWhatIsMeant
<1>1. CASE StaticMeant(q)
  <2>1. PICK k \in DOMAIN static : Find(query, p) = {static[k]} /\ Denotes(q, static[k].name)
    BY <1>1, FoundStatic DEF StaticMeant
  <2> QED
    BY <2>1, Sees DEF Meant
<1>2. CASE ~StaticMeant(q) /\ DynamicMeant(q, p)
  <2>1. PICK k \in DOMAIN dynamic :
          /\ Find(query, p) = {dynamic[k]} /\ Denotes(q, dynamic[k].name)
          /\ dynamic[k].owner = p
    BY <1>2, FoundDynamic DEF StaticMeant, DynamicMeant
  <2> QED
    BY <2>1, Sees DEF Meant
<1>3. CASE ~StaticMeant(q) /\ ~DynamicMeant(q, p)
  <2>1. Find(query, p) = {}
    BY <1>3, FoundNone DEF StaticMeant, DynamicMeant
  <2>2. ASSUME NEW a \in Visible(p), Denotes(q, a.name) PROVE FALSE
    BY <1>3, <2>2, Sees DEF StaticMeant, DynamicMeant
  <2> QED
    BY <2>1, <2>2 DEF Meant
<1> QED
  BY <1>1, <1>2, <1>3

\* and of one owner the newest of it.
LEMMA Newest == ASSUME ListsInv PROVE FindsNewestOfOwner
<1> SUFFICES ASSUME NEW q \in Names, NEW p \in Processes \union {NoProcess},
                    NEW found \in Find(Text(q), p), NEW a \in Visible(p),
                    Denotes(q, a.name), a.owner = found.owner
             PROVE  a.at <= found.at
  BY DEF FindsNewestOfOwner, Meant
<1>1. Text(q) \in Asked(q)
  BY DEF Asked
<1>2. ASSUME NEW s \in Lists, Descends(s), NEW k \in DOMAIN s, NEW j \in DOMAIN s, k <= j
      PROVE  s[j].at <= s[k].at
  <2>1. s[j].at \in Nat /\ s[k].at \in Nat /\ k \in Nat /\ j \in Nat
    <3>1. s[j] \in Addons /\ s[k] \in Addons
      BY Typed
    <3>2. k \in Nat /\ j \in Nat
      BY DEF Lists
    <3> QED
      BY <3>1, <3>2 DEF Addons
  <2>2. CASE k = j
    BY <2>1, <2>2
  <2>3. CASE k < j
    BY <1>2, <2>1, <2>3 DEF Descends
  <2> QED
    BY <1>2, <2>1, <2>2, <2>3
<1>3. CASE StaticMeant(q)
  <2>1. found.owner = NoProcess
    BY <1>1, <1>3, FoundStatic, Sees DEF StaticMeant
  <2>2. PICK j \in DOMAIN static : a = static[j]
    BY <2>1, Sees
  <2>3. PICK k \in DOMAIN static : Find(Text(q), p) = {static[k]} /\ k <= j
    BY <1>1, <2>2, FoundStatic
  <2> QED
    BY <1>2, <2>2, <2>3 DEF ListsInv
<1>4. CASE ~StaticMeant(q)
  <2>1. PICK j \in DOMAIN dynamic : a = dynamic[j] /\ a.owner = p
    BY <1>4, Sees DEF StaticMeant
  <2>2. PICK k \in DOMAIN dynamic : Find(Text(q), p) = {dynamic[k]} /\ k <= j
    BY <1>1, <1>4, <2>1, FoundDynamic DEF StaticMeant
  <2> QED
    BY <1>2, <2>1, <2>2 DEF ListsInv
<1> QED
  BY <1>3, <1>4

\* bare_module_find() returns an addon that the query means, of the process of the
\* thread or of none, and on a thread with a process it returns nothing only when
\* there is no such addon.
THEOREM AlwaysFindsWhatIsMeant == Spec => []FindsWhatIsMeant
BY ListsInOrder, Finds, PTL

\* What it returns registered last of all that the query means and that have the same
\* owner, after any loads and teardowns.
THEOREM AlwaysFindsNewestOfOwner == Spec => []FindsNewestOfOwner
BY ListsInOrder, Newest, PTL
=============================================================================
