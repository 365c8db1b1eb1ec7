--------------------------- MODULE OksSchemaProofs ---------------------------
(***************************************************************************)
(* The classes of a kernel, for any number of names, files and uses of a   *)
(* name: inheritance has no circle, the computed lists of super- and       *)
(* sub-classes are what the direct super-classes give, and no list has a   *)
(* deleted class.                                                          *)
(***************************************************************************)
EXTENDS OksSchema, SequenceTheorems, FiniteSetTheorems, WellFoundedInduction, TLAPS

-----------------------------------------------------------------------------
(* Inheritance as a graph D: the names of the super-classes of each name. *)

Closed(D, S) == \A k \in S : D[k] \subseteq S
Reach(D, n) == {m \in Name : \A S \in SUBSET Name : D[n] \subseteq S /\ Closed(D, S) => m \in S}
Circle(D) == \E S \in SUBSET Name : S # {} /\ \A n \in S : D[n] \cap S # {}
IsGraph(D) == D \in [Name -> SUBSET Name]

\* What is reached from n is the least closed set with the super-classes of n.
LEMMA ReachIsLeast ==
  ASSUME NEW D, NEW n, NEW S \in SUBSET Name, D[n] \subseteq S, Closed(D, S)
  PROVE  Reach(D, n) \subseteq S
BY DEF Reach

\* What n reaches has n's super-classes and theirs.
LEMMA ReachIsClosed ==
  ASSUME NEW D, IsGraph(D), NEW n \in Name
  PROVE  Reach(D, n) \in SUBSET Name /\ D[n] \subseteq Reach(D, n) /\ Closed(D, Reach(D, n))
<1>1. Reach(D, n) \in SUBSET Name
  BY DEF Reach
<1>2. D[n] \subseteq Reach(D, n)
  BY DEF Reach, IsGraph
<1>3. ASSUME NEW k \in Reach(D, n), NEW m \in D[k] PROVE m \in Reach(D, n)
  <2>1. m \in Name
    BY <1>1, <1>3 DEF IsGraph
  <2>2. ASSUME NEW S \in SUBSET Name, D[n] \subseteq S, Closed(D, S) PROVE m \in S
    <3>1. k \in S
      BY <1>3, <2>2 DEF Reach
    <3> QED BY <1>3, <2>2, <3>1 DEF Closed
  <2> QED BY <2>1, <2>2 DEF Reach
<1> QED BY <1>1, <1>2, <1>3 DEF Closed

\* What an ancestor reaches is reached.
LEMMA ReachTransitive ==
  ASSUME NEW D, IsGraph(D), NEW n \in Name, NEW m \in Reach(D, n)
  PROVE  Reach(D, m) \subseteq Reach(D, n)
<1>1. Reach(D, n) \in SUBSET Name /\ Closed(D, Reach(D, n))
  BY ReachIsClosed
<1>2. D[m] \subseteq Reach(D, n)
  BY <1>1 DEF Closed
<1> QED BY <1>1, <1>2, ReachIsLeast

\* One reaches its super-classes and what they reach.
LEMMA ReachStep ==
  ASSUME NEW D, IsGraph(D), NEW n \in Name
  PROVE  Reach(D, n) = D[n] \cup UNION {Reach(D, s) : s \in D[n]}
<1> DEFINE T == D[n] \cup UNION {Reach(D, s) : s \in D[n]}
<1>1. D[n] \subseteq Name
  BY DEF IsGraph
<1>2. \A s \in D[n] : Reach(D, s) \in SUBSET Name /\ D[s] \subseteq Reach(D, s) /\ Closed(D, Reach(D, s))
  BY <1>1, ReachIsClosed
<1>3. T \in SUBSET Name
  BY <1>1, <1>2
<1>4. D[n] \subseteq T
  OBVIOUS
<1>5. Closed(D, T)
  <2> SUFFICES ASSUME NEW k \in T PROVE D[k] \subseteq T
    BY DEF Closed
  <2>1. CASE k \in D[n]
    BY <1>2, <2>1
  <2>2. ASSUME NEW s \in D[n], k \in Reach(D, s) PROVE D[k] \subseteq T
    BY <1>2, <2>2 DEF Closed
  <2> QED BY <2>1, <2>2
<1>6. Reach(D, n) \subseteq T
  <2> HIDE DEF T
  <2> QED BY <1>3, <1>4, <1>5, ReachIsLeast
<1>7. D[n] \subseteq Reach(D, n)
  BY ReachIsClosed
<1>8. ASSUME NEW s \in D[n] PROVE Reach(D, s) \subseteq Reach(D, n)
  BY <1>7, ReachTransitive
<1> QED BY <1>6, <1>7, <1>8

\* What one reaches depends on the super-classes of it and of what it reaches.
LEMMA ReachSame ==
  ASSUME NEW D, IsGraph(D), NEW E, IsGraph(E), NEW n \in Name,
         \A k \in Reach(D, n) \cup {n} : E[k] = D[k]
  PROVE  Reach(E, n) = Reach(D, n)
<1> DEFINE S == Reach(D, n)
           T == Reach(E, n)
<1>1. S \in SUBSET Name /\ D[n] \subseteq S /\ Closed(D, S)
  BY ReachIsClosed
<1>2. T \in SUBSET Name /\ E[n] \subseteq T /\ Closed(E, T)
  BY ReachIsClosed
<1>3. E[n] = D[n] /\ \A k \in S : E[k] = D[k]
  OBVIOUS
<1>4. T \subseteq S
  <2>1. Closed(E, S)
    BY <1>1, <1>3 DEF Closed
  <2>2. E[n] \subseteq S
    BY <1>1, <1>3
  <2> HIDE DEF S
  <2> QED BY <1>1, <2>1, <2>2, ReachIsLeast
<1>5. S \subseteq S \cap T
  <2> DEFINE U == S \cap T
  <2>1. U \in SUBSET Name /\ D[n] \subseteq U
    BY <1>1, <1>2, <1>3
  <2>2. Closed(D, U)
    BY <1>1, <1>2, <1>3 DEF Closed
  <2> HIDE DEF U
  <2>3. Reach(D, n) \subseteq U
    BY <2>1, <2>2, ReachIsLeast
  <2> QED BY <2>3 DEF U
<1> QED BY <1>4, <1>5

\* A change of the super-classes of c takes from no name what c did not reach.
LEMMA ReachKept ==
  ASSUME NEW D, IsGraph(D), NEW E, IsGraph(E), NEW c \in Name, \A k \in Name \ {c} : E[k] = D[k],
         NEW n \in Name
  PROVE  Reach(D, n) \subseteq Reach(E, n) \cup Reach(D, c)
<1> DEFINE T == Reach(E, n) \cup Reach(D, c)
<1>1. Reach(D, c) \in SUBSET Name /\ D[c] \subseteq Reach(D, c) /\ Closed(D, Reach(D, c))
  BY ReachIsClosed
<1>2. Reach(E, n) \in SUBSET Name /\ E[n] \subseteq Reach(E, n) /\ Closed(E, Reach(E, n))
  BY ReachIsClosed
<1>3. T \in SUBSET Name
  BY <1>1, <1>2
<1>4. D[n] \subseteq T
  BY <1>1, <1>2
<1>5. Closed(D, T)
  <2> SUFFICES ASSUME NEW k \in T PROVE D[k] \subseteq T
    BY DEF Closed
  <2>1. CASE k = c
    BY <1>1, <2>1
  <2>2. CASE k \in Reach(D, c)
    BY <1>1, <2>2 DEF Closed
  <2>3. CASE k # c /\ k \in Reach(E, n)
    BY <1>2, <2>3 DEF Closed
  <2> QED BY <2>1, <2>2, <2>3
<1> HIDE DEF T
<1>6. Reach(D, n) \subseteq T
  BY <1>3, <1>4, <1>5, ReachIsLeast
<1> QED BY <1>6 DEF T

\* Without a circle nobody inherits from itself.
LEMMA NotOwnAncestor ==
  ASSUME NEW D, IsGraph(D), ~Circle(D), NEW n \in Name
  PROVE  n \notin Reach(D, n)
<1> SUFFICES ASSUME n \in Reach(D, n) PROVE FALSE
  OBVIOUS
<1> DEFINE S == {k \in Name : n \in Reach(D, k)}
<1>1. ASSUME NEW k \in S PROVE D[k] \cap S # {}
  <2>1. n \in D[k] \cup UNION {Reach(D, s) : s \in D[k]}
    BY ReachStep
  <2>2. D[k] \subseteq Name
    BY DEF IsGraph
  <2>3. CASE n \in D[k]
    BY <2>3
  <2>4. ASSUME NEW s \in D[k], n \in Reach(D, s) PROVE D[k] \cap S # {}
    BY <2>2, <2>4
  <2> QED BY <2>1, <2>3, <2>4
<1>2. n \in S /\ S \in SUBSET Name
  OBVIOUS
<1> HIDE DEF S
<1> QED BY <1>1, <1>2 DEF Circle

\* A super-class that does not reach c can be added to c.
LEMMA NoCircleAdded ==
  ASSUME NEW D, IsGraph(D), NEW E, IsGraph(E), NEW c \in Name, NEW n \in Name \ {c},
         \A k \in Name \ {c} : E[k] = D[k], E[c] \subseteq D[c] \cup {n},
         c \notin Reach(D, n), ~Circle(D)
  PROVE  ~Circle(E)
<1> SUFFICES ASSUME NEW S \in SUBSET Name, S # {}, \A k \in S : E[k] \cap S # {}
             PROVE  FALSE
  BY DEF Circle
<1> DEFINE T == S \cap (Reach(D, n) \cup {n})
<1>1. D[n] \subseteq Reach(D, n) /\ Closed(D, Reach(D, n)) /\ Reach(D, n) \subseteq Name
  BY ReachIsClosed
<1>2. ASSUME NEW k \in T PROVE D[k] \cap T # {}
  <2>1. k # c /\ k \in Name /\ E[k] \cap S # {}
    OBVIOUS
  <2>2. D[k] \subseteq Reach(D, n)
    BY <1>1 DEF Closed
  <2> QED BY <2>1, <2>2
<1>3. T = {}
  <2>1. T \in SUBSET Name
    OBVIOUS
  <2> HIDE DEF T
  <2> QED BY <1>2, <2>1 DEF Circle
<1>4. \A k \in S : D[k] \cap S # {}
  <2> TAKE k \in S
  <2>1. n \notin S
    BY <1>3
  <2>2. CASE k # c
    BY <2>2
  <2>3. CASE k = c
    BY <2>1, <2>3
  <2> QED BY <2>2, <2>3
<1> QED BY <1>4 DEF Circle

\* Taking super-classes away closes no circle.
LEMMA NoCircleFewer ==
  ASSUME NEW D, NEW E, \A k \in Name : E[k] \subseteq D[k], ~Circle(D)
  PROVE  ~Circle(E)
<1> SUFFICES ASSUME NEW S \in SUBSET Name, S # {}, \A k \in S : E[k] \cap S # {}
             PROVE  FALSE
  BY DEF Circle
<1>1. \A k \in S : D[k] \cap S # {}
  OBVIOUS
<1> QED BY <1>1 DEF Circle

\* New names F whose super-classes have no circle among themselves can be added
\* to a closed set of names.
LEMMA NoCircleJoined ==
  ASSUME NEW D, IsGraph(D), NEW E, IsGraph(E), NEW F \in SUBSET Name, ~Circle(D),
         \A k \in Name \ F : E[k] = D[k] /\ E[k] \cap F = {},
         ~ \E S \in SUBSET F : S # {} /\ \A k \in S : E[k] \cap S # {}
  PROVE  ~Circle(E)
<1> SUFFICES ASSUME NEW S \in SUBSET Name, S # {}, \A k \in S : E[k] \cap S # {}
             PROVE  FALSE
  BY DEF Circle
<1> DEFINE T == S \ F
<1>1. ASSUME NEW k \in T PROVE D[k] \cap T # {}
  <2>1. k \in Name \ F /\ E[k] \cap S # {}
    OBVIOUS
  <2> QED BY <2>1
<1>2. T = {}
  <2>1. T \in SUBSET Name
    OBVIOUS
  <2> HIDE DEF T
  <2> QED BY <1>1, <2>1 DEF Circle
<1> QED BY <1>2
-----------------------------------------------------------------------------
(* Lists. *)

\* A set of numbers has a least one.
LEMMA LeastNumber ==
  ASSUME NEW P \in SUBSET Nat, P # {}
  PROVE  \E i \in P : \A j \in P : i <= j
<1>1. PICK i \in P : \A j \in P : <<j, i>> \notin OpToRel(<, Nat)
  BY NatLessThanWellFounded, WFMin
<1>2. ASSUME NEW j \in P, j < i PROVE FALSE
  <2>1. i \in Nat /\ j \in Nat
    OBVIOUS
  <2>2. <<j, i>> \in OpToRel(<, Nat)
    BY <1>2, <2>1, Zenon DEF OpToRel
  <2> QED BY <1>1, <2>2
<1>3. i \in Nat /\ \A j \in P : j \in Nat
  OBVIOUS
<1> QED BY <1>2, <1>3

\* A function on 1 .. n is a sequence.
LEMMA IsSeq ==
  ASSUME NEW S, NEW n \in Nat, NEW f, f = [i \in 1 .. n |-> f[i]], \A i \in 1 .. n : f[i] \in S
  PROVE  f \in Seq(S)
OBVIOUS

\* How many of K there are up to k, and the place in K of that rank.
Rank(K, k) == Cardinality({j \in K : j <= k})
Nth(K, i) == CHOOSE k \in K : Rank(K, k) = i

\* Only(s, K) in terms of Nth.
LEMMA OnlyIs ==
  ASSUME NEW s, NEW K
  PROVE  /\ Only(s, K) = [i \in 1 .. Cardinality(K) |-> s[Nth(K, i)]]
         /\ DOMAIN Only(s, K) = 1 .. Cardinality(K)
         /\ \A i \in 1 .. Cardinality(K) : Only(s, K)[i] = s[Nth(K, i)]
BY DEF Only, Rank, Nth

\* Only(s, K) has each place of K once.
LEMMA OnlyParts ==
  ASSUME NEW S, NEW s \in Seq(S), NEW K \in SUBSET DOMAIN s
  PROVE  /\ Only(s, K) \in Seq(S) /\ Len(Only(s, K)) = Cardinality(K) /\ Cardinality(K) \in Nat
         /\ \E g \in [1 .. Cardinality(K) -> K] :
               /\ \A i \in 1 .. Cardinality(K) :
                     Only(s, K)[i] = s[g[i]] /\ g[i] = Nth(K, i)
               /\ \A i, j \in 1 .. Cardinality(K) : g[i] = g[j] => i = j
               /\ \A k \in K : \E i \in 1 .. Cardinality(K) : g[i] = k
<1> DEFINE n == Cardinality(K)
           r == [k \in K |-> Rank(K, k)]
<1>1. IsFiniteSet(DOMAIN s) /\ DOMAIN s = 1 .. Len(s) /\ Len(s) \in Nat
  BY FS_Interval
<1>2. IsFiniteSet(K) /\ n \in Nat /\ \A k \in K : k \in Nat
  BY <1>1, FS_Subset, FS_CardinalityType
<1>3. ASSUME NEW k \in K PROVE Rank(K, k) \in 1 .. n
  <2> DEFINE T == {j \in K : j <= k}
  <2>1. IsFiniteSet(T) /\ Cardinality(T) \in Nat /\ Cardinality(T) <= n
    BY <1>2, FS_Subset, FS_CardinalityType
  <2>2. k \in T
    BY <1>2
  <2>3. Cardinality(T) # 0
    BY <2>1, <2>2, FS_EmptySet
  <2> QED BY <2>1, <2>3 DEF Rank
<1>4. ASSUME NEW k \in K, NEW l \in K, k < l PROVE Rank(K, k) < Rank(K, l)
  <2> DEFINE T == {j \in K : j <= k}
             U == {j \in K : j <= l}
  <2>1. T \subseteq U /\ l \in U /\ l \notin T
    BY <1>2, <1>4
  <2>2. IsFiniteSet(U)
    BY <1>2, FS_Subset
  <2>3. T # U
    BY <2>1
  <2> HIDE DEF T, U
  <2>4. Cardinality(T) <= Cardinality(U) /\ Cardinality(T) # Cardinality(U) /\ Cardinality(T) \in Nat
        /\ Cardinality(U) \in Nat
    BY <2>1, <2>2, <2>3, FS_Subset, FS_CardinalityType
  <2> QED BY <2>4 DEF Rank, T, U
<1>5. \A k, l \in K : Rank(K, k) = Rank(K, l) => k = l
  <2> SUFFICES ASSUME NEW k \in K, NEW l \in K, Rank(K, k) = Rank(K, l), k # l PROVE FALSE
    OBVIOUS
  <2>1. k < l \/ l < k
    BY <1>2
  <2>2. Rank(K, k) \in Nat /\ Rank(K, l) \in Nat
    BY <1>2, <1>3
  <2> QED BY <1>4, <2>1, <2>2
<1>6. \A i \in 1 .. n : \E k \in K : Rank(K, k) = i
  <2>1. r \in Injection(K, 1 .. n)
    BY <1>3, <1>5 DEF Injection, IsInjective
  <2>2. IsFiniteSet(1 .. n) /\ Cardinality(1 .. n) = n
    BY <1>2, FS_Interval
  <2>3. r \in Surjection(K, 1 .. n)
    BY <1>2, <2>1, <2>2, FS_Injection
  <2> QED BY <2>3 DEF Surjection
<1> DEFINE g == [i \in 1 .. n |-> Nth(K, i)]
<1>7. \A i \in 1 .. n : g[i] \in K /\ Rank(K, g[i]) = i /\ Only(s, K)[i] = s[g[i]]
  <2>1. \A i \in 1 .. n : g[i] \in K /\ Rank(K, g[i]) = i
    BY <1>6 DEF Nth
  <2> QED BY <2>1, OnlyIs
<1>8. \A k \in K : g[Rank(K, k)] = k
  BY <1>3, <1>5, <1>7
<1>9. Only(s, K) = [i \in 1 .. n |-> s[g[i]]]
  BY <1>7, OnlyIs
<1>10. \A i \in 1 .. n : s[g[i]] \in S
  BY <1>7
<1>11. g \in [1 .. n -> K]
  BY <1>7
<1>12. \A i \in 1 .. n : g[i] = Nth(K, i)
  OBVIOUS
<1> HIDE DEF g, r
<1>13. Only(s, K) \in Seq(S) /\ Len(Only(s, K)) = n
  BY <1>2, <1>9, <1>10
<1>14. \A i, j \in 1 .. n : g[i] = g[j] => i = j
  BY <1>7
<1>15. \A k \in K : \E i \in 1 .. n : g[i] = k
  BY <1>3, <1>8
<1> QED BY <1>2, <1>7, <1>11, <1>12, <1>13, <1>14, <1>15

\* Only(s, K) has what s has at the places K.
LEMMA OnlyElements ==
  ASSUME NEW S, NEW s \in Seq(S), NEW K \in SUBSET DOMAIN s
  PROVE  /\ Only(s, K) \in Seq(S) /\ ToSet(Only(s, K)) = {s[k] : k \in K}
         /\ (\A j, k \in K : s[j] = s[k] => j = k) => IsInjective(Only(s, K))
<1> DEFINE u == Only(s, K)
<1>1. u \in Seq(S) /\ Len(u) = Cardinality(K)
  BY OnlyParts
<1>2. PICK g \in [1 .. Cardinality(K) -> K] :
         /\ \A i \in 1 .. Cardinality(K) : u[i] = s[g[i]] /\ g[i] = Nth(K, i)
         /\ \A i, j \in 1 .. Cardinality(K) : g[i] = g[j] => i = j
         /\ \A k \in K : \E i \in 1 .. Cardinality(K) : g[i] = k
  BY OnlyParts
<1>3. DOMAIN u = 1 .. Cardinality(K)
  BY OnlyIs
<1> HIDE DEF u
<1>4. ToSet(u) = {s[k] : k \in K}
  <2>1. \A i \in DOMAIN u : g[i] \in K /\ u[i] = s[g[i]]
    BY <1>2, <1>3
  <2>2. \A k \in K : \E i \in DOMAIN u : u[i] = s[k]
    BY <1>2, <1>3
  <2> QED BY <2>1, <2>2 DEF ToSet
<1>5. (\A j, k \in K : s[j] = s[k] => j = k) => IsInjective(u)
  <2> SUFFICES ASSUME \A j, k \in K : s[j] = s[k] => j = k,
                      NEW i \in DOMAIN u, NEW j \in DOMAIN u, u[i] = u[j]
               PROVE  i = j
    BY DEF IsInjective
  <2>1. g[i] \in K /\ g[j] \in K /\ s[g[i]] = s[g[j]]
    BY <1>2, <1>3
  <2> QED BY <1>2, <1>3, <2>1
<1> QED BY <1>1, <1>4, <1>5 DEF u

\* What Distinct leaves out is there before.
LEMMA DistinctParts ==
  ASSUME NEW S, NEW s \in Seq(S)
  PROVE  Distinct(s) \in Seq(S) /\ ToSet(Distinct(s)) = ToSet(s) /\ IsInjective(Distinct(s))
<1> DEFINE K == {i \in DOMAIN s : \A j \in 1 .. i - 1 : s[j] # s[i]}
<1>1. DOMAIN s = 1 .. Len(s) /\ Len(s) \in Nat
  OBVIOUS
<1>2. \A j, k \in K : s[j] = s[k] => j = k
  <2> SUFFICES ASSUME NEW j \in K, NEW k \in K, s[j] = s[k], j # k PROVE FALSE
    OBVIOUS
  <2>1. j \in 1 .. k - 1 \/ k \in 1 .. j - 1
    BY <1>1
  <2> QED BY <2>1
<1>3. \A i \in DOMAIN s : \E k \in K : s[k] = s[i]
  <2> TAKE i \in DOMAIN s
  <2> DEFINE P == {k \in DOMAIN s : s[k] = s[i]}
  <2>1. P \in SUBSET Nat /\ P # {}
    BY <1>1
  <2>2. PICK k \in P : \A j \in P : k <= j
    <3> HIDE DEF P
    <3> QED BY <2>1, LeastNumber
  <2>3. \A j \in 1 .. k - 1 : s[j] # s[k]
    <3> SUFFICES ASSUME NEW j \in 1 .. k - 1, s[j] = s[k] PROVE FALSE
      OBVIOUS
    <3>1. j \in P /\ k <= j
      BY <1>1, <2>2
    <3> QED BY <1>1, <2>2, <3>1
  <2> QED BY <2>2, <2>3
<1>4. K \in SUBSET DOMAIN s
  OBVIOUS
<1>5. Distinct(s) = Only(s, K)
  BY DEF Distinct
<1> HIDE DEF K
<1>6. Only(s, K) \in Seq(S) /\ ToSet(Only(s, K)) = {s[k] : k \in K} /\ IsInjective(Only(s, K))
  BY <1>2, <1>4, OnlyElements
<1>7. {s[k] : k \in K} = ToSet(s)
  BY <1>3, <1>4 DEF ToSet
<1> QED BY <1>5, <1>6, <1>7

\* The elements of two lists one after the other.
LEMMA ConcatElements ==
  ASSUME NEW S, NEW s \in Seq(S), NEW t \in Seq(S)
  PROVE  s \o t \in Seq(S) /\ ToSet(s \o t) = ToSet(s) \cup ToSet(t)
<1> DEFINE u == s \o t
<1>1. /\ u \in Seq(S) /\ Len(u) = Len(s) + Len(t) /\ Len(s) \in Nat /\ Len(t) \in Nat
      /\ \A i \in 1 .. Len(s) : u[i] = s[i]
      /\ \A i \in 1 .. Len(t) : u[Len(s) + i] = t[i]
      /\ DOMAIN s = 1 .. Len(s) /\ DOMAIN t = 1 .. Len(t) /\ DOMAIN u = 1 .. Len(u)
  OBVIOUS
<1> HIDE DEF u
<1>2. \A i \in DOMAIN u : u[i] \in ToSet(s) \cup ToSet(t)
  <2> TAKE i \in DOMAIN u
  <2>1. CASE i <= Len(s)
    BY <1>1, <2>1 DEF ToSet
  <2>2. CASE i > Len(s)
    <3>1. i - Len(s) \in 1 .. Len(t) /\ Len(s) + (i - Len(s)) = i
      BY <1>1, <2>2
    <3> QED BY <1>1, <3>1 DEF ToSet
  <2> QED BY <1>1, <2>1, <2>2
<1>3. (\A i \in DOMAIN s : i \in DOMAIN u /\ u[i] = s[i])
      /\ \A i \in DOMAIN t : Len(s) + i \in DOMAIN u /\ u[Len(s) + i] = t[i]
  BY <1>1
<1>4. ToSet(u) = ToSet(s) \cup ToSet(t)
  BY <1>2, <1>3 DEF ToSet
<1> QED BY <1>1, <1>4 DEF u

-----------------------------------------------------------------------------
(* Recursion over the places of a list. *)

\* What holds at 0 and is kept by each step holds at every place.
LEMMA Induction ==
  ASSUME NEW n \in Nat, NEW P, 0 \in P, \A i \in 1 .. n : i - 1 \in P => i \in P
  PROVE  0 .. n \subseteq P
<1> DEFINE T == (0 .. n) \ P
<1> SUFFICES ASSUME T # {} PROVE FALSE
  OBVIOUS
<1>1. T \in SUBSET Nat
  OBVIOUS
<1>2. PICK e \in T : \A j \in T : e <= j
  <2> HIDE DEF T
  <2> QED BY <1>1, LeastNumber
<1>3. e # 0 /\ e \in 1 .. n
  BY <1>2
<1>4. e - 1 \in P
  BY <1>2, <1>3
<1> QED BY <1>2, <1>3, <1>4

\* A function that is given step by step is there.
Iterates(f, X, n, b, step) ==
    f \in [0 .. n -> X] /\ f[0] = b /\ \A i \in 1 .. n : f[i] = step[<<i, f[i - 1]>>]

\* Such a function exists when each step stays in X.
LEMMA Iteration ==
  ASSUME NEW X, NEW n \in Nat, NEW b \in X, NEW step \in [(1 .. n) \X X -> X]
  PROVE  \E f : Iterates(f, X, n, b, step)
<1> DEFINE Fits1(m, f) == f[0] = b /\ \A i \in 1 .. m : f[i] = step[<<i, f[i - 1]>>]
           P == {m \in 0 .. n : \E f \in [0 .. m -> X] : Fits1(m, f)}
<1>1. 0 \in P
  <2> DEFINE f == [i \in 0 .. 0 |-> b]
  <2>1. f \in [0 .. 0 -> X] /\ Fits1(0, f)
    OBVIOUS
  <2>2. 0 \in 0 .. n
    OBVIOUS
  <2> HIDE DEF f, Fits1
  <2> QED BY <2>1, <2>2
<1>2. ASSUME NEW i \in 1 .. n, i - 1 \in P PROVE i \in P
  <2>1. PICK f \in [0 .. i - 1 -> X] : Fits1(i - 1, f)
    BY <1>2
  <2> DEFINE x == step[<<i, f[i - 1]>>]
             g == [k \in 0 .. i |-> IF k = i THEN x ELSE f[k]]
  <2>2. x \in X
    <3>1. f[i - 1] \in X
      OBVIOUS
    <3>2. <<i, f[i - 1]>> \in (1 .. n) \X X
      BY <3>1
    <3> QED BY <3>2
  <2> HIDE DEF x
  <2>3. g \in [0 .. i -> X]
    BY <2>2
  <2>4. \A k \in 0 .. i - 1 : g[k] = f[k]
    OBVIOUS
  <2>5. g[i] = x /\ g[i - 1] = f[i - 1]
    OBVIOUS
  <2> HIDE DEF g
  <2>6. \A k \in 1 .. i : g[k] = step[<<k, g[k - 1]>>]
    <3> TAKE k \in 1 .. i
    <3>1. CASE k = i
      BY <2>5, <3>1 DEF x
    <3>2. CASE k # i
      <4>1. k \in 1 .. i - 1 /\ k - 1 \in 0 .. i - 1 /\ k \in 0 .. i - 1
        BY <3>2
      <4>2. f[k] = step[<<k, f[k - 1]>>]
        BY <2>1, <4>1
      <4> QED BY <2>4, <4>1, <4>2
    <3> QED BY <3>1, <3>2
  <2>7. g[0] = b
    BY <2>1, <2>4
  <2> QED BY <2>3, <2>6, <2>7
<1> HIDE DEF P
<1>3. 0 .. n \subseteq P
  BY <1>1, <1>2, Induction
<1>4. n \in P
  BY <1>3
<1> QED BY <1>4 DEF P, Iterates

-----------------------------------------------------------------------------
(* All super-classes. *)

\* What add_super_classes gives: a list, and if it came to its end.
Found == [list : Seq(Class), ok : BOOLEAN]

ClassesOK(cs) ==
    cs \in [Name -> Class \cup {NoClass}] /\ \A n \in Name : cs[n] # NoClass => NameOf(cs[n]) = n
Known(cs) == {n \in Name : cs[n] # NoClass}
Graph(cs, sup) == [n \in Name |-> IF cs[n] = NoClass THEN {} ELSE ToSet(sup[cs[n]])]

\* Each super-class is there.
SupersOK(cs, sup) ==
    sup \in [Class -> Seq(Name)] /\ \A n \in Name : Graph(cs, sup)[n] \subseteq Known(cs)

\* A class that is there is found under its name.
LEMMA ThereParts ==
  ASSUME NEW cs, ClassesOK(cs)
  PROVE  /\ There(cs) \subseteq Class
         /\ \A n \in Known(cs) : n \in Name /\ cs[n] \in There(cs) /\ NameOf(cs[n]) = n
         /\ \A c \in There(cs) : NameOf(c) \in Known(cs) /\ cs[NameOf(c)] = c
BY DEF There, Known, ClassesOK

\* The graph has the super-classes of each class that is there.
LEMMA GraphParts ==
  ASSUME NEW cs, ClassesOK(cs), NEW sup, SupersOK(cs, sup)
  PROVE  /\ IsGraph(Graph(cs, sup))
         /\ \A c \in There(cs) :
              Graph(cs, sup)[NameOf(c)] = ToSet(sup[c]) /\ ToSet(sup[c]) \subseteq Known(cs)
         /\ \A n \in Name : cs[n] = NoClass => Graph(cs, sup)[n] = {}
<1> DEFINE D == Graph(cs, sup)
<1>1. \A n \in Name : D[n] \in SUBSET Name
  BY DEF SupersOK, Known
<1>2. D = [n \in Name |-> D[n]]
  BY DEF Graph
<1>3. \A c \in There(cs) : D[NameOf(c)] = ToSet(sup[c])
  <2> TAKE c \in There(cs)
  <2>1. NameOf(c) \in Name /\ cs[NameOf(c)] = c /\ c # NoClass
    BY ThereParts DEF Known, There
  <2> QED BY <2>1 DEF Graph
<1>4. \A c \in There(cs) : ToSet(sup[c]) \subseteq Known(cs)
  <2> TAKE c \in There(cs)
  <2>1. NameOf(c) \in Name
    BY ThereParts DEF Known
  <2>2. D[NameOf(c)] \subseteq Known(cs)
    BY <2>1 DEF SupersOK
  <2> QED BY <1>3, <2>2
<1>5. \A n \in Name : cs[n] = NoClass => D[n] = {}
  BY DEF Graph
<1>6. IsGraph(D)
  <2> HIDE DEF D
  <2> QED BY <1>1, <1>2 DEF IsGraph
<1> QED BY <1>3, <1>4, <1>5, <1>6

Start == [list |-> <<>>, ok |-> TRUE]
\* A step of the loop over the super-classes.
Next1(cs, below, v, n) ==
    IF ~v.ok \/ cs[n] = NoClass THEN [list |-> v.list, ok |-> FALSE]
    ELSE [list |-> v.list \o below[cs[n]].list \o (IF below[cs[n]].ok THEN <<cs[n]>> ELSE <<>>),
          ok |-> below[cs[n]].ok]

\* What a step of the loop adds: the super-class and its list.
LEMMA Next1Type ==
  ASSUME NEW cs, ClassesOK(cs), NEW below \in [Class -> Found], NEW v \in Found, NEW n \in Name
  PROVE  /\ Next1(cs, below, v, n) \in Found
         /\ Next1(cs, below, v, n).ok <=> v.ok /\ cs[n] # NoClass /\ below[cs[n]].ok
         /\ Next1(cs, below, v, n).ok =>
              ToSet(Next1(cs, below, v, n).list) = ToSet(v.list) \cup ToSet(below[cs[n]].list) \cup {cs[n]}
<1>1. v.list \in Seq(Class) /\ v.ok \in BOOLEAN
  BY DEF Found
<1>2. CASE ~v.ok \/ cs[n] = NoClass
  BY <1>1, <1>2 DEF Next1, Found
<1>3. CASE v.ok /\ cs[n] # NoClass
  <2> DEFINE d == cs[n]
             a == below[d]
             t == IF a.ok THEN <<d>> ELSE <<>>
             s == v.list \o a.list
             w == s \o t
  <2>1. d \in Class
    BY <1>3 DEF ClassesOK
  <2>2. a \in Found
    BY <2>1
  <2>3. a.list \in Seq(Class) /\ a.ok \in BOOLEAN
    BY <2>2 DEF Found
  <2>4. Next1(cs, below, v, n) = [list |-> w, ok |-> a.ok]
    BY <1>3 DEF Next1
  <2>5. t \in Seq(Class) /\ (a.ok => ToSet(t) = {d})
    BY <2>1 DEF ToSet
  <2> HIDE DEF d, a, t
  <2>6. s \in Seq(Class) /\ ToSet(s) = ToSet(v.list) \cup ToSet(a.list)
    BY <1>1, <2>3, ConcatElements
  <2> HIDE DEF s
  <2>7. w \in Seq(Class) /\ ToSet(w) = ToSet(s) \cup ToSet(t)
    BY <2>5, <2>6, ConcatElements
  <2> HIDE DEF w
  <2>8. Next1(cs, below, v, n) \in Found
    BY <2>3, <2>4, <2>7 DEF Found
  <2>9. Next1(cs, below, v, n).ok = a.ok /\ Next1(cs, below, v, n).list = w
    BY <2>4
  <2> QED BY <1>3, <2>5, <2>6, <2>7, <2>8, <2>9 DEF d, a
<1> QED BY <1>1, <1>2, <1>3

\* What a level gives: it comes to its end when all super-classes are there and
\* came to their end, and then has them and their lists.
Visited(cs, sup, below, c, v) ==
    /\ v \in Found
    /\ v.ok <=> \A n \in ToSet(sup[c]) : cs[n] # NoClass /\ below[cs[n]].ok
    /\ v.ok => ToSet(v.list) = UNION {ToSet(below[cs[n]].list) \cup {cs[n]} : n \in ToSet(sup[c])}

\* add_super_classes visits each super-class in turn.
LEMMA VisitParts ==
  ASSUME NEW cs, ClassesOK(cs), NEW sup \in [Class -> Seq(Name)], NEW below \in [Class -> Found],
         NEW c \in Class
  PROVE  Visited(cs, sup, below, c, AddSuperClasses(cs, sup, below, c))
<1> DEFINE s == sup[c]
           m == Len(s)
           IsVisit(f) == f = [i \in 0 .. m |-> IF i = 0 THEN Start ELSE Next1(cs, below, f[i - 1], s[i])]
           visit == CHOOSE f : IsVisit(f)
<1>1. s \in Seq(Name) /\ m \in Nat /\ DOMAIN s = 1 .. m /\ \A i \in 1 .. m : s[i] \in Name
  OBVIOUS
<1>2. AddSuperClasses(cs, sup, below, c) = visit[m]
  BY DEF AddSuperClasses, Start, Next1
<1>3. \E f : IsVisit(f)
  <2> DEFINE step == [p \in (1 .. m) \X Found |-> Next1(cs, below, p[2], s[p[1]])]
  <2>1. \A i \in 1 .. m, v \in Found : Next1(cs, below, v, s[i]) \in Found
    BY <1>1, Next1Type
  <2>2. step \in [(1 .. m) \X Found -> Found]
    BY <2>1
  <2>3. \A i \in 1 .. m, v \in Found : step[<<i, v>>] = Next1(cs, below, v, s[i])
    OBVIOUS
  <2>4. Start \in Found
    BY DEF Start, Found
  <2>0. m \in Nat
    BY <1>1
  <2> HIDE DEF step, s, m
  <2>9. PICK f : Iterates(f, Found, m, Start, step)
    BY <2>0, <2>2, <2>4, Iteration
  <2>5. f \in [0 .. m -> Found] /\ f[0] = Start /\ \A i \in 1 .. m : f[i] = step[<<i, f[i - 1]>>]
    BY <2>9 DEF Iterates
  <2>6. \A i \in 1 .. m : f[i] = Next1(cs, below, f[i - 1], s[i])
    <3> TAKE i \in 1 .. m
    <3>1. f[i - 1] \in Found
      BY <2>0, <2>5
    <3> QED BY <2>3, <2>5, <3>1
  <2>7. \A i \in 0 .. m : f[i] = IF i = 0 THEN Start ELSE Next1(cs, below, f[i - 1], s[i])
    BY <1>1, <2>5, <2>6
  <2>8. f = [i \in 0 .. m |-> IF i = 0 THEN Start ELSE Next1(cs, below, f[i - 1], s[i])]
    BY <2>5, <2>7
  <2> QED BY <2>8
<1>4. IsVisit(visit)
  <2> HIDE DEF IsVisit
  <2> QED BY <1>3
<1> HIDE DEF visit
<1>5. visit[0] = Start /\ \A i \in 1 .. m : visit[i] = Next1(cs, below, visit[i - 1], s[i])
  <2>1. visit = [i \in 0 .. m |-> IF i = 0 THEN Start ELSE Next1(cs, below, visit[i - 1], s[i])]
    BY <1>4, Zenon
  <2>2. m \in Nat
    BY <1>1
  <2> HIDE DEF s, m, IsVisit
  <2>3. \A i \in 0 .. m : visit[i] = IF i = 0 THEN Start ELSE Next1(cs, below, visit[i - 1], s[i])
    BY <2>1, Zenon
  <2> QED BY <2>2, <2>3
<1> DEFINE good(i) == cs[s[i]] # NoClass /\ below[cs[s[i]]].ok
           part(i) == ToSet(below[cs[s[i]]].list) \cup {cs[s[i]]}
           P == {i \in 0 .. m : /\ visit[i] \in Found
                                /\ visit[i].ok <=> \A j \in 1 .. i : good(j)
                                /\ visit[i].ok => ToSet(visit[i].list) = UNION {part(j) : j \in 1 .. i}}
<1>6. 0 \in P
  <2>1. Start \in Found /\ Start.ok = TRUE /\ ToSet(Start.list) = {}
    BY DEF Start, Found, ToSet
  <2>2. 0 \in 0 .. m /\ 1 .. 0 = {}
    BY <1>1
  <2> QED BY <1>5, <2>1, <2>2
<1>7. ASSUME NEW i \in 1 .. m, i - 1 \in P PROVE i \in P
  <2> DEFINE v == visit[i - 1]
             w == visit[i]
             g == good(i)
             q == part(i)
  <2>1. v \in Found /\ (v.ok <=> \A j \in 1 .. i - 1 : good(j))
        /\ (v.ok => ToSet(v.list) = UNION {part(j) : j \in 1 .. i - 1})
    BY <1>7
  <2>2. w = Next1(cs, below, v, s[i]) /\ s[i] \in Name
    BY <1>1, <1>5
  <2> HIDE DEF v, w
  <2> DEFINE n == s[i]
  <2> HIDE DEF n
  <2>9. w = Next1(cs, below, v, n) /\ n \in Name
    BY <2>2 DEF n
  <2>10. /\ w \in Found
         /\ w.ok <=> v.ok /\ cs[n] # NoClass /\ below[cs[n]].ok
         /\ w.ok => ToSet(w.list) = ToSet(v.list) \cup ToSet(below[cs[n]].list) \cup {cs[n]}
    BY <2>1, <2>9, Next1Type
  <2>3. w \in Found /\ (w.ok <=> v.ok /\ g) /\ (w.ok => ToSet(w.list) = ToSet(v.list) \cup q)
    BY <2>10 DEF n
  <2>4. i \in 0 .. m /\ 1 .. i = (1 .. i - 1) \cup {i}
    BY <1>1
  <2> HIDE DEF good, part
  <2>5. w.ok <=> \A j \in 1 .. i : good(j)
    BY <2>1, <2>3, <2>4
  <2>6. UNION {part(j) : j \in 1 .. i} = (UNION {part(j) : j \in 1 .. i - 1}) \cup part(i)
    <3>1. {part(j) : j \in 1 .. i} = {part(j) : j \in 1 .. i - 1} \cup {part(i)}
      BY <2>4
    <3> DEFINE A == {part(j) : j \in 1 .. i - 1}
               B == {part(j) : j \in 1 .. i}
               p == part(i)
    <3> HIDE DEF A, B, p
    <3>2. B = A \cup {p}
      BY <3>1 DEF A, B, p
    <3>3. UNION B = (UNION A) \cup p
      BY <3>2
    <3> QED BY <3>3, Zenon DEF A, B, p
  <2>7. w.ok => ToSet(w.list) = UNION {part(j) : j \in 1 .. i}
    BY <2>1, <2>3, <2>6
  <2> QED BY <2>3, <2>4, <2>5, <2>7 DEF w
<1> HIDE DEF P
<1>8. m \in P
  <2>1. 0 .. m \subseteq P
    BY <1>1, <1>6, <1>7, Induction
  <2> QED BY <1>1, <2>1
<1> DEFINE v == visit[m]
<1>9. v \in Found /\ (v.ok <=> \A j \in 1 .. m : good(j))
      /\ (v.ok => ToSet(v.list) = UNION {part(j) : j \in 1 .. m})
  BY <1>8 DEF P
<1> HIDE DEF v
<1>10. ToSet(s) = {s[j] : j \in 1 .. m}
  BY <1>1 DEF ToSet
<1> HIDE DEF s, m
<1>11. (\A j \in 1 .. m : good(j)) <=> \A n \in ToSet(s) : cs[n] # NoClass /\ below[cs[n]].ok
  BY <1>10
<1>12. UNION {part(j) : j \in 1 .. m} = UNION {ToSet(below[cs[n]].list) \cup {cs[n]} : n \in ToSet(s)}
  BY <1>10
<1>13. Visited(cs, sup, below, c, v)
  BY <1>9, <1>11, <1>12 DEF Visited, s
<1> QED BY <1>2, <1>13 DEF v

\* What the classes with names in N have in a list.
Addresses(cs, N) == {cs[m] : m \in N}

\* One level of add_super_classes.
Visit(cs, sup, a) == [c \in Class |-> AddSuperClasses(cs, sup, a, c)]

\* Levels of add_super_classes: the next one comes to its end for the classes
\* whose super-classes the level before came to an end for.
LevelOK(cs, sup, a) ==
    /\ a \in [Class -> Found]
    /\ \A c \in There(cs) : a[c].ok => ToSet(a[c].list) = Addresses(cs, Reach(Graph(cs, sup), NameOf(c)))
Ended(cs, a) == {n \in Known(cs) : a[cs[n]].ok}

\* A further level keeps what a list is and ends where the one before did.
LEMMA LevelStep ==
  ASSUME NEW cs, ClassesOK(cs), NEW sup, SupersOK(cs, sup), NEW a, LevelOK(cs, sup, a)
  PROVE  /\ LevelOK(cs, sup, Visit(cs, sup, a))
         /\ Ended(cs, Visit(cs, sup, a)) = {n \in Known(cs) : Graph(cs, sup)[n] \subseteq Ended(cs, a)}
<1> DEFINE D == Graph(cs, sup)
           b == Visit(cs, sup, a)
<1>1. sup \in [Class -> Seq(Name)] /\ a \in [Class -> Found]
  BY DEF SupersOK, LevelOK
<1>2. IsGraph(D) /\ (\A c \in There(cs) : D[NameOf(c)] = ToSet(sup[c]) /\ ToSet(sup[c]) \subseteq Known(cs))
  BY GraphParts
<1>3. /\ There(cs) \subseteq Class
      /\ \A n \in Known(cs) : n \in Name /\ cs[n] \in There(cs) /\ NameOf(cs[n]) = n
      /\ \A c \in There(cs) : NameOf(c) \in Known(cs) /\ cs[NameOf(c)] = c
  BY ThereParts
<1> HIDE DEF b, D
<1>4. \A c \in Class :
         /\ b[c] \in Found
         /\ b[c].ok <=> \A n \in ToSet(sup[c]) : cs[n] # NoClass /\ a[cs[n]].ok
         /\ b[c].ok => ToSet(b[c].list) = UNION {ToSet(a[cs[n]].list) \cup {cs[n]} : n \in ToSet(sup[c])}
  <2> TAKE c \in Class
  <2>1. b[c] = AddSuperClasses(cs, sup, a, c)
    BY DEF b, Visit
  <2>2. Visited(cs, sup, a, c, b[c])
    BY <1>1, <2>1, VisitParts
  <2> QED BY <2>2 DEF Visited
<1>5. b \in [Class -> Found]
  <2>1. b = [c \in Class |-> b[c]]
    BY DEF b, Visit
  <2> QED BY <1>4, <2>1
<1>6. \A c \in There(cs) : b[c].ok <=> D[NameOf(c)] \subseteq Ended(cs, a)
  BY <1>2, <1>3, <1>4 DEF Ended, Known
<1>7. ASSUME NEW c \in There(cs), b[c].ok
      PROVE  ToSet(b[c].list) = Addresses(cs, Reach(D, NameOf(c)))
  <2> DEFINE k == NameOf(c)
  <2>1. k \in Name /\ c \in Class
    BY <1>3
  <2>2. D[k] = ToSet(sup[c]) /\ D[k] \subseteq Ended(cs, a)
    BY <1>2, <1>6, <1>7
  <2>3. ToSet(b[c].list) = UNION {ToSet(a[cs[n]].list) \cup {cs[n]} : n \in D[k]}
    BY <1>4, <1>7, <2>1, <2>2
  <2>4. \A n \in D[k] : ToSet(a[cs[n]].list) = Addresses(cs, Reach(D, n))
    <3> TAKE n \in D[k]
    <3>1. n \in Known(cs) /\ a[cs[n]].ok
      BY <2>2 DEF Ended
    <3>2. cs[n] \in There(cs) /\ NameOf(cs[n]) = n
      BY <1>3, <3>1
    <3> QED BY <3>1, <3>2 DEF LevelOK, D
  <2> HIDE DEF k
  <2>5. Reach(D, k) = D[k] \cup UNION {Reach(D, s) : s \in D[k]}
    BY <1>2, <2>1, ReachStep
  <2>6. ASSUME NEW x \in ToSet(b[c].list) PROVE x \in Addresses(cs, Reach(D, k))
    <3>1. PICK n \in D[k] : x \in ToSet(a[cs[n]].list) \/ x = cs[n]
      BY <2>3
    <3>2. CASE x = cs[n]
      BY <2>5, <3>2 DEF Addresses
    <3>3. CASE x \in ToSet(a[cs[n]].list)
      <4>1. PICK m \in Reach(D, n) : x = cs[m]
        BY <2>4, <3>3 DEF Addresses
      <4>2. m \in Reach(D, k)
        BY <2>5
      <4> QED BY <4>1, <4>2 DEF Addresses
    <3> QED BY <3>1, <3>2, <3>3
  <2>7. ASSUME NEW x \in Addresses(cs, Reach(D, k)) PROVE x \in ToSet(b[c].list)
    <3>1. PICK m \in Reach(D, k) : x = cs[m]
      BY DEF Addresses
    <3>2. CASE m \in D[k]
      BY <2>3, <3>1, <3>2
    <3>3. ASSUME NEW n \in D[k], m \in Reach(D, n) PROVE x \in ToSet(b[c].list)
      <4>1. x \in ToSet(a[cs[n]].list)
        BY <2>4, <3>1, <3>3 DEF Addresses
      <4> QED BY <2>3, <4>1
    <3> QED BY <2>5, <3>2, <3>3
  <2>8. ToSet(b[c].list) = Addresses(cs, Reach(D, k))
    BY <2>6, <2>7
  <2> QED BY <2>8 DEF k
<1>8. Ended(cs, b) = {n \in Known(cs) : D[n] \subseteq Ended(cs, a)}
  BY <1>3, <1>6 DEF Ended
<1>9. LevelOK(cs, sup, b)
  BY <1>5, <1>7 DEF LevelOK, D
<1> QED BY <1>8, <1>9 DEF b, D

\* Above is the last of the levels, each of which is what a level should be.
LEMMA AboveSteps ==
  ASSUME NEW cs, ClassesOK(cs), NEW sup, SupersOK(cs, sup)
  PROVE  \E f : /\ Above(cs, sup) = f[Names]
                /\ f[0] = [c \in Class |-> [list |-> <<>>, ok |-> FALSE]]
                /\ \A k \in 1 .. Names : f[k] = Visit(cs, sup, f[k - 1])
                /\ \A k \in 0 .. Names : LevelOK(cs, sup, f[k])
<1> DEFINE X == [Class -> Found]
           bottom == [c \in Class |-> [list |-> <<>>, ok |-> FALSE]]
           IsAbove(f) == f = [k \in 0 .. Names |-> IF k = 0 THEN bottom ELSE Visit(cs, sup, f[k - 1])]
           above == CHOOSE f : IsAbove(f)
<1>1. Above(cs, sup) = above[Names]
  BY DEF Above, Visit
<1>2. bottom \in X /\ LevelOK(cs, sup, bottom)
  <2>1. \A c \in Class : bottom[c] \in Found /\ bottom[c].ok = FALSE
    BY DEF Found
  <2>2. bottom \in X
    BY DEF Found
  <2> HIDE DEF bottom
  <2> QED BY <2>1, <2>2, ThereParts DEF LevelOK
<1>3. sup \in [Class -> Seq(Name)] /\ Names \in Nat
  BY SchemaAssumption DEF SupersOK
<1> HIDE DEF bottom
<1>4. ASSUME NEW a \in X PROVE Visit(cs, sup, a) \in X
  <2>1. \A c \in Class : AddSuperClasses(cs, sup, a, c) \in Found
    BY <1>3, VisitParts DEF Visited
  <2> QED BY <2>1 DEF Visit
<1>5. \E f : IsAbove(f)
  <2> DEFINE step == [p \in (1 .. Names) \X X |-> Visit(cs, sup, p[2])]
  <2>1. step \in [(1 .. Names) \X X -> X]
    BY <1>4
  <2>2. \A k \in 1 .. Names, a \in X : step[<<k, a>>] = Visit(cs, sup, a)
    OBVIOUS
  <2> HIDE DEF step, X
  <2>3. PICK f : Iterates(f, X, Names, bottom, step)
    BY <1>2, <1>3, <2>1, Iteration
  <2>4. f \in [0 .. Names -> X] /\ f[0] = bottom /\ \A k \in 1 .. Names : f[k] = step[<<k, f[k - 1]>>]
    BY <2>3 DEF Iterates
  <2>5. \A k \in 0 .. Names : f[k] = IF k = 0 THEN bottom ELSE Visit(cs, sup, f[k - 1])
    <3> TAKE k \in 0 .. Names
    <3>1. CASE k = 0
      BY <2>4, <3>1
    <3>2. CASE k # 0
      <4>1. k \in 1 .. Names /\ k - 1 \in 0 .. Names
        BY <1>3, <3>2
      <4>2. f[k - 1] \in X
        BY <2>4, <4>1
      <4> QED BY <2>2, <2>4, <3>2, <4>1, <4>2
    <3> QED BY <3>1, <3>2
  <2>6. f = [k \in 0 .. Names |-> IF k = 0 THEN bottom ELSE Visit(cs, sup, f[k - 1])]
    BY <2>4, <2>5
  <2> QED BY <2>6
<1>6. IsAbove(above)
  <2> HIDE DEF IsAbove
  <2> QED BY <1>5
<1>7. above = [k \in 0 .. Names |-> IF k = 0 THEN bottom ELSE Visit(cs, sup, above[k - 1])]
  BY <1>6, Zenon
<1> HIDE DEF above
<1>8. \A k \in 0 .. Names : above[k] = IF k = 0 THEN bottom ELSE Visit(cs, sup, above[k - 1])
  BY <1>7, Zenon
<1>9. above[0] = bottom /\ \A k \in 1 .. Names : above[k] = Visit(cs, sup, above[k - 1])
  BY <1>3, <1>8
<1> DEFINE P == {k \in 0 .. Names : LevelOK(cs, sup, above[k])}
<1>10. 0 \in P
  BY <1>2, <1>3, <1>9
<1>11. ASSUME NEW k \in 1 .. Names, k - 1 \in P PROVE k \in P
  <2>1. above[k] = Visit(cs, sup, above[k - 1]) /\ LevelOK(cs, sup, above[k - 1])
    BY <1>9, <1>11
  <2>2. LevelOK(cs, sup, above[k])
    BY <2>1, LevelStep
  <2> QED BY <1>3, <2>2
<1> HIDE DEF P
<1>12. 0 .. Names \subseteq P
  BY <1>3, <1>10, <1>11, Induction
<1>13. \A k \in 0 .. Names : LevelOK(cs, sup, above[k])
  BY <1>12 DEF P
<1> QED BY <1>1, <1>9, <1>13 DEF bottom

\* With all super-classes there and no circle, there are enough levels: the list
\* has the classes that are inherited from.
LEMMA AboveIsExact ==
  ASSUME NEW cs, ClassesOK(cs), NEW sup, SupersOK(cs, sup), ~Circle(Graph(cs, sup))
  PROVE  /\ Above(cs, sup) \in [Class -> Found]
         /\ \A c \in There(cs) :
              /\ Above(cs, sup)[c].ok
              /\ ToSet(Above(cs, sup)[c].list) = Addresses(cs, Reach(Graph(cs, sup), NameOf(c)))
<1> DEFINE D == Graph(cs, sup)
<1>1. PICK f : /\ Above(cs, sup) = f[Names]
               /\ f[0] = [c \in Class |-> [list |-> <<>>, ok |-> FALSE]]
               /\ \A k \in 1 .. Names : f[k] = Visit(cs, sup, f[k - 1])
               /\ \A k \in 0 .. Names : LevelOK(cs, sup, f[k])
  BY AboveSteps
<1>2. Names \in Nat /\ IsFiniteSet(Name) /\ Cardinality(Name) = Names
  BY SchemaAssumption, FS_Interval DEF Name
<1> DEFINE Left(k) == Known(cs) \ Ended(cs, f[k])
<1>3. \A k \in 0 .. Names : Left(k) \in SUBSET Name /\ IsFiniteSet(Left(k)) /\ Cardinality(Left(k)) \in Nat
  BY <1>2, FS_Subset, FS_CardinalityType DEF Known
<1>4. ASSUME NEW k \in 1 .. Names
      PROVE  Left(k) = {n \in Known(cs) : ~ (D[n] \subseteq Ended(cs, f[k - 1]))}
  <2>1. k - 1 \in 0 .. Names
    BY <1>2
  <2>2. Ended(cs, f[k]) = {n \in Known(cs) : D[n] \subseteq Ended(cs, f[k - 1])}
    BY <1>1, <2>1, LevelStep
  <2> QED BY <2>2
<1>5. \A n \in Name : D[n] \subseteq Known(cs)
  BY DEF SupersOK
<1>6. ASSUME NEW k \in 0 .. Names, Left(k) # {} PROVE \E n \in Left(k) : D[n] \subseteq Ended(cs, f[k])
  <2>1. PICK n \in Left(k) : D[n] \cap Left(k) = {}
    <3> DEFINE S == Left(k)
    <3>1. S \in SUBSET Name /\ S # {}
      BY <1>3, <1>6
    <3> HIDE DEF S, D
    <3> QED BY <3>1 DEF Circle, D, S
  <2>2. n \in Name
    BY <1>3
  <2> QED BY <1>5, <2>1, <2>2
<1>7. \A n \in Known(cs) : n \in Ended(cs, f[0]) => FALSE
  BY <1>1, ThereParts DEF Ended
<1> DEFINE M == {k \in 0 .. Names : k = 0 \/ Ended(cs, f[k - 1]) \subseteq Ended(cs, f[k])}
<1>8. ASSUME NEW k \in 1 .. Names, k - 1 \in M PROVE k \in M
  <2>1. CASE k = 1
    <3>1. Ended(cs, f[k - 1]) = {}
      BY <1>7, <2>1 DEF Ended
    <3> QED BY <1>2, <3>1
  <2>2. CASE k # 1
    <3>1. k - 1 \in 1 .. Names /\ k - 1 - 1 \in 0 .. Names /\ k \in 0 .. Names
      BY <1>2, <2>2
    <3>2. Ended(cs, f[k - 1 - 1]) \subseteq Ended(cs, f[k - 1])
      BY <1>8, <3>1
    <3>3. /\ Left(k - 1) = {n \in Known(cs) : ~ (D[n] \subseteq Ended(cs, f[k - 1 - 1]))}
          /\ Left(k) = {n \in Known(cs) : ~ (D[n] \subseteq Ended(cs, f[k - 1]))}
      BY <1>4, <3>1
    <3> HIDE DEF D
    <3>4. Left(k) \subseteq Left(k - 1)
      BY <3>2, <3>3
    <3>5. Ended(cs, f[k - 1]) \subseteq Ended(cs, f[k])
      BY <3>4 DEF Ended
    <3> QED BY <3>1, <3>5
  <2> QED BY <2>1, <2>2
<1>9. 0 \in M
  BY <1>2
<1> HIDE DEF M
<1>10. 0 .. Names \subseteq M
  BY <1>2, <1>8, <1>9, Induction
<1>11. \A k \in 1 .. Names : Ended(cs, f[k - 1]) \subseteq Ended(cs, f[k])
  <2> TAKE k \in 1 .. Names
  <2>1. k \in M /\ k # 0
    BY <1>2, <1>10
  <2> QED BY <2>1 DEF M
<1> DEFINE P == {k \in 0 .. Names : Cardinality(Left(k)) <= Names - k}
<1>12. 0 \in P
  <2> DEFINE L == Left(0)
  <2>0. 0 \in 0 .. Names
    BY <1>2
  <2>1. L \in SUBSET Name
    BY <1>3, <2>0
  <2> HIDE DEF L
  <2>2. Cardinality(L) <= Names
    BY <1>2, <2>1, FS_Subset
  <2>3. Cardinality(L) \in Nat
    BY <1>2, <2>1, FS_Subset, FS_CardinalityType
  <2> QED BY <1>2, <2>0, <2>2, <2>3 DEF L
<1>13. ASSUME NEW k \in 1 .. Names, k - 1 \in P PROVE k \in P
  <2> DEFINE L == Left(k)
             N == Left(k - 1)
  <2>1. k \in 0 .. Names /\ k - 1 \in 0 .. Names /\ k \in Nat
    BY <1>2
  <2>2. L \subseteq N
    BY <1>11
  <2>3. IsFiniteSet(N) /\ Cardinality(N) \in Nat /\ IsFiniteSet(L) /\ Cardinality(L) \in Nat
    BY <1>3, <2>1
  <2>4. Cardinality(N) <= Names - (k - 1)
    BY <1>13
  <2>5. CASE N = {}
    <3>1. L = {}
      BY <2>2, <2>5
    <3> HIDE DEF L, N
    <3>2. Cardinality(L) = 0
      BY <3>1, FS_EmptySet
    <3> QED BY <1>2, <2>1, <3>2 DEF L
  <2>6. CASE N # {}
    <3>1. PICK n \in N : D[n] \subseteq Ended(cs, f[k - 1])
      BY <1>6, <2>1, <2>6
    <3>2. n \notin L
      BY <1>4, <3>1
    <3> HIDE DEF L, N
    <3>3. L # N
      BY <3>2
    <3>4. Cardinality(L) < Cardinality(N)
      BY <2>2, <2>3, <3>3, FS_Subset
    <3> QED BY <1>2, <2>1, <2>3, <2>4, <3>4 DEF L
  <2> QED BY <2>5, <2>6
<1> HIDE DEF P
<1>14. 0 .. Names \subseteq P
  BY <1>2, <1>12, <1>13, Induction
<1>15. Left(Names) = {}
  <2> DEFINE L == Left(Names)
  <2>0. Names \in 0 .. Names
    BY <1>2
  <2>1. Cardinality(L) <= Names - Names
    BY <1>14, <2>0 DEF P
  <2>2. IsFiniteSet(L) /\ Cardinality(L) \in Nat
    BY <1>2, <1>3
  <2> HIDE DEF L
  <2>3. Cardinality(L) = 0
    BY <1>2, <2>1, <2>2
  <2>4. L = {}
    BY <2>2, <2>3, FS_EmptySet
  <2> QED BY <2>4 DEF L
<1>16. LevelOK(cs, sup, f[Names])
  BY <1>1, <1>2
<1>17. \A c \in There(cs) : f[Names][c].ok
  BY <1>15, ThereParts DEF Ended
<1> QED BY <1>1, <1>16, <1>17 DEF LevelOK

-----------------------------------------------------------------------------
(* The lists of a class. *)

\* The list of super-classes, that of sub-classes, and the classes that
\* attributes and relationships are from.
Exact(cs, sup, l, c) ==
    /\ IsInjective(l[c].up)
    /\ ToSet(l[c].up) = Addresses(cs, Reach(Graph(cs, sup), NameOf(c)))
DownExact(cs, l, c) == ToSet(l[c].down) = {d \in There(cs) : c \in ToSet(l[d].up)}
PropsOK(l, c) == l[c].props \subseteq ToSet(l[c].up) \cup {c}

\* The lists r made anew, and with another hierarchy.
Made(r, up, p) == [r EXCEPT !.up = up, !.made = TRUE, !.props = p]
Kin(r, k) == [r EXCEPT !.kin = k]

\* The parts of lists that are made anew.
LEMMA MadeParts ==
  ASSUME NEW r \in Lists, NEW up \in Seq(Class), NEW p \in SUBSET Class
  PROVE  /\ Made(r, up, p) \in Lists /\ Made(r, up, p).up = up /\ Made(r, up, p).props = p
         /\ Made(r, up, p).down = r.down /\ Made(r, up, p).kin = r.kin
BY DEF Lists, Made

\* The parts of lists with another hierarchy.
LEMMA KinParts ==
  ASSUME NEW r \in Lists, NEW k \in SUBSET Class
  PROVE  /\ Kin(r, k) \in Lists /\ Kin(r, k).up = r.up /\ Kin(r, k).props = r.props
         /\ Kin(r, k).down = r.down
BY DEF Lists, Kin

\* The parts of lists with other sub-classes.
LEMMA DownParts ==
  ASSUME NEW r \in Lists, NEW down \in Seq(Class), NEW q, q = [r EXCEPT !.down = down]
  PROVE  q \in Lists /\ q.down = down /\ q.up = r.up /\ q.props = r.props /\ q.kin = r.kin
BY DEF Lists

\* When all super-classes are there, without a circle, the classes of the walk s
\* are made anew and no other.
MadeAnew(cs, sup, l, s, st) ==
    /\ st.ok = TRUE /\ st.lists \in [Class -> Lists]
    /\ \A c \in ToSet(s) : Exact(cs, sup, st.lists, c) /\ PropsOK(st.lists, c)
    /\ \A c \in Class : st.lists[c].down = l[c].down /\ st.lists[c].kin = l[c].kin
    /\ \A c \in Class \ ToSet(s) : st.lists[c] = l[c]

\* A walk over classes that are there makes their lists exact.
LEMMA RefreshParts ==
  ASSUME NEW cs, ClassesOK(cs), NEW sup, SupersOK(cs, sup), ~Circle(Graph(cs, sup)),
         NEW l \in [Class -> Lists], NEW s \in Seq(There(cs))
  PROVE  MadeAnew(cs, sup, l, s, Refresh(cs, sup, l, s))
<1> DEFINE above == Above(cs, sup)
           good == {c \in ToSet(s) : above[c].ok}
           reached == {s[i] : i \in {k \in DOMAIN s : \A j \in 1 .. k - 1 : s[j] \in good}}
           owners(c) == {d \in ToSet(Distinct(above[c].list)) \cup {c} : NameOf(d) \in setup.owner}
           made(c) == [l[c] EXCEPT !.up = Distinct(above[c].list), !.made = TRUE,
                                   !.props = IF c \notin good THEN @ ELSE owners(c)]
           new == [c \in Class |-> IF c \in reached THEN made(c) ELSE l[c]]
           st == Refresh(cs, sup, l, s)
<1>1. st = [ok |-> ToSet(s) \subseteq good, lists |-> new]
  BY DEF Refresh
<1>2. above \in [Class -> Found] /\ \A c \in There(cs) :
         above[c].ok /\ ToSet(above[c].list) = Addresses(cs, Reach(Graph(cs, sup), NameOf(c)))
  BY AboveIsExact
<1>3. ToSet(s) \subseteq There(cs) /\ There(cs) \subseteq Class
  BY ThereParts DEF ToSet
<1> HIDE DEF above
<1>4. good = ToSet(s)
  BY <1>2, <1>3
<1>5. reached = ToSet(s)
  <2>1. \A k \in DOMAIN s : \A j \in 1 .. k - 1 : s[j] \in ToSet(s)
    BY DEF ToSet
  <2>2. {k \in DOMAIN s : \A j \in 1 .. k - 1 : s[j] \in good} = DOMAIN s
    BY <1>4, <2>1
  <2> HIDE DEF good
  <2> QED BY <2>2 DEF ToSet
<1> HIDE DEF st, good, reached
<1>6. ASSUME NEW c \in ToSet(s)
      PROVE  /\ new[c] \in Lists /\ new[c].down = l[c].down /\ new[c].kin = l[c].kin
             /\ IsInjective(new[c].up)
             /\ ToSet(new[c].up) = Addresses(cs, Reach(Graph(cs, sup), NameOf(c)))
             /\ new[c].props \subseteq ToSet(new[c].up) \cup {c}
  <2> DEFINE up == Distinct(above[c].list)
             p == owners(c)
             r == l[c]
  <2>1. c \in Class /\ c \in There(cs) /\ r \in Lists
    BY <1>3
  <2>2. above[c].list \in Seq(Class)
    <3>1. above[c] \in Found
      BY <1>2, <2>1
    <3> QED BY <3>1 DEF Found
  <2>3. up \in Seq(Class) /\ ToSet(up) = ToSet(above[c].list) /\ IsInjective(up)
    BY <2>2, DistinctParts
  <2>4. new[c] = Made(r, up, p)
    BY <1>4, <1>5, <2>1 DEF Made
  <2> HIDE DEF up, r, new
  <2>5. p \in SUBSET Class /\ p \subseteq ToSet(up) \cup {c}
    BY <2>1, <2>3 DEF up, ToSet
  <2> HIDE DEF p
  <2>6. new[c] \in Lists /\ new[c].up = up /\ new[c].props = p /\ new[c].down = r.down /\ new[c].kin = r.kin
    BY <2>1, <2>3, <2>4, <2>5, MadeParts
  <2> QED BY <1>2, <2>1, <2>3, <2>5, <2>6 DEF r
<1>7. \A c \in Class \ ToSet(s) : new[c] = l[c]
  BY <1>5
<1>8. new \in [Class -> Lists]
  <2>1. \A c \in Class : new[c] \in Lists
    BY <1>6, <1>7
  <2>2. new = [c \in Class |-> new[c]]
    OBVIOUS
  <2> HIDE DEF new
  <2> QED BY <2>1, <2>2
<1> HIDE DEF new
<1>9. st.ok = TRUE /\ st.lists = new
  BY <1>1, <1>4
<1>10. \A c \in Class : new[c].down = l[c].down /\ new[c].kin = l[c].kin
  BY <1>6, <1>7
<1>11. MadeAnew(cs, sup, l, s, st)
  BY <1>6, <1>7, <1>8, <1>9, <1>10 DEF MadeAnew, Exact, PropsOK
<1> QED BY <1>11 DEF st

\* create_sub_classes finds the classes with c among their super-classes.
LEMMA SubClassesParts ==
  ASSUME NEW cs, ClassesOK(cs), NEW l \in [Class -> Lists], NEW c
  PROVE  /\ SubClasses(cs, l, c) \in Seq(Class)
         /\ ToSet(SubClasses(cs, l, c)) = {d \in There(cs) : c \in ToSet(l[d].up)}
<1>1. /\ There(cs) \subseteq Class
      /\ \A n \in Known(cs) : n \in Name /\ cs[n] \in There(cs) /\ NameOf(cs[n]) = n
      /\ \A c1 \in There(cs) : NameOf(c1) \in Known(cs) /\ cs[NameOf(c1)] = c1
  BY ThereParts
<1> DEFINE K == {n \in Name : cs[n] # NoClass /\ Contains(l[cs[n]].up, c)}
           u == Only(cs, K)
<1>2. u = SubClasses(cs, l, c)
  BY DEF SubClasses
<1>3. cs \in Seq(Class \cup {NoClass}) /\ DOMAIN cs = Name
  <2>1. Names \in Nat
    BY SchemaAssumption
  <2> QED BY <2>1 DEF ClassesOK, Name
<1>4. K \in SUBSET DOMAIN cs
  BY <1>3
<1>5. \A n \in K : n \in Known(cs) /\ c \in ToSet(l[cs[n]].up)
  BY DEF Known, Contains, ToSet
<1>6. \A d \in There(cs) : c \in ToSet(l[d].up) => NameOf(d) \in K /\ cs[NameOf(d)] = d
  <2> SUFFICES ASSUME NEW d \in There(cs), c \in ToSet(l[d].up) PROVE NameOf(d) \in K /\ cs[NameOf(d)] = d
    OBVIOUS
  <2>1. NameOf(d) \in Name /\ cs[NameOf(d)] = d /\ d # NoClass /\ d \in Class
    BY <1>1 DEF Known, There
  <2>2. l[d].up \in Seq(Class)
    BY <2>1 DEF Lists
  <2>3. Contains(l[d].up, c)
    BY <2>2 DEF Contains, ToSet
  <2> QED BY <2>1, <2>3
<1> HIDE DEF K
<1>7. u \in Seq(Class \cup {NoClass}) /\ ToSet(u) = {cs[n] : n \in K}
  BY <1>3, <1>4, OnlyElements
<1>8. ToSet(u) = {d \in There(cs) : c \in ToSet(l[d].up)}
  BY <1>1, <1>5, <1>6, <1>7
<1> HIDE DEF u
<1>9. u \in Seq(Class)
  <2>1. \A i \in DOMAIN u : u[i] \in Class
    BY <1>1, <1>8 DEF ToSet
  <2> QED BY <1>7, <2>1
<1> QED BY <1>2, <1>8, <1>9

\* create_sub_classes for the classes in D.
Listed(cs, l, D, w) ==
    /\ w \in [Class -> Lists]
    /\ \A c \in Class : w[c].up = l[c].up /\ w[c].props = l[c].props /\ w[c].kin = l[c].kin
    /\ \A c \in D \cap Class : ToSet(w[c].down) = {d \in There(cs) : c \in ToSet(l[d].up)}
    /\ \A c \in Class \ D : w[c] = l[c]

\* create_sub_classes changes the lists of sub-classes and nothing else.
LEMMA WithSubClassesParts ==
  ASSUME NEW cs, ClassesOK(cs), NEW l \in [Class -> Lists], NEW D
  PROVE  Listed(cs, l, D, WithSubClasses(cs, l, D))
<1> DEFINE w == WithSubClasses(cs, l, D)
<1>2. \A c \in Class : SubClasses(cs, l, c) \in Seq(Class)
                       /\ ToSet(SubClasses(cs, l, c)) = {d \in There(cs) : c \in ToSet(l[d].up)}
  BY SubClassesParts
<1>3. \A c \in Class : w[c] = IF c \in D THEN [l[c] EXCEPT !.down = SubClasses(cs, l, c)] ELSE l[c]
  BY DEF WithSubClasses
<1>4. w = [c \in Class |-> w[c]]
  BY DEF WithSubClasses
<1> HIDE DEF w
<1>5. ASSUME NEW c \in Class
      PROVE  /\ w[c] \in Lists /\ w[c].up = l[c].up /\ w[c].props = l[c].props /\ w[c].kin = l[c].kin
             /\ c \in D => w[c].down = SubClasses(cs, l, c)
  <2> DEFINE r == l[c]
             down == SubClasses(cs, l, c)
             q == w[c]
  <2>1. r \in Lists /\ down \in Seq(Class)
    BY <1>2
  <2>2. q = IF c \in D THEN [r EXCEPT !.down = down] ELSE r
    BY <1>3
  <2> HIDE DEF r, down, q
  <2>3. q \in Lists /\ q.up = r.up /\ q.props = r.props /\ q.kin = r.kin /\ (c \in D => q.down = down)
    BY <2>1, <2>2, DownParts
  <2> QED BY <2>3 DEF r, down, q
<1>6. w \in [Class -> Lists]
  BY <1>4, <1>5
<1>7. Listed(cs, l, D, w)
  BY <1>2, <1>3, <1>5, <1>6 DEF Listed
<1> QED BY <1>7 DEF w

\* The lists of each class that is there are right.
Right(cs, sup, l) ==
    /\ l \in [Class -> Lists]
    /\ \A c \in There(cs) : Exact(cs, sup, l, c) /\ DownExact(cs, l, c) /\ PropsOK(l, c)

\* The hierarchies for the test of ids stay what they are, and so does what
\* belongs to classes that are not there.
OthersKept(cs, l, w) ==
    /\ \A c \in Class : w[c].kin = l[c].kin
    /\ \A c \in Class \ There(cs) : w[c] = l[c]

\* Who c inherits from, and that a list has it.
LEMMA InUp ==
  ASSUME NEW cs, ClassesOK(cs), NEW sup, SupersOK(cs, sup), NEW l, NEW c \in There(cs), Exact(cs, sup, l, c)
  PROVE  /\ ToSet(l[c].up) \subseteq There(cs)
         /\ \A d \in There(cs) : d \in ToSet(l[c].up) <=> NameOf(d) \in Reach(Graph(cs, sup), NameOf(c))
<1> DEFINE R == Reach(Graph(cs, sup), NameOf(c))
<1>1. ToSet(l[c].up) = Addresses(cs, R)
  BY DEF Exact
<1>2. /\ \A n \in Known(cs) : n \in Name /\ cs[n] \in There(cs) /\ NameOf(cs[n]) = n
      /\ \A d \in There(cs) : NameOf(d) \in Known(cs) /\ cs[NameOf(d)] = d
  BY ThereParts
<1>3. R \subseteq Known(cs)
  <2> DEFINE D == Graph(cs, sup)
             k == NameOf(c)
  <2>1. k \in Name /\ Known(cs) \in SUBSET Name
    BY <1>2 DEF Known
  <2>2. D[k] \subseteq Known(cs) /\ Closed(D, Known(cs))
    BY <2>1 DEF SupersOK, Closed
  <2> HIDE DEF D, k
  <2>3. Reach(D, k) \subseteq Known(cs)
    BY <2>1, <2>2, ReachIsLeast
  <2> QED BY <2>3 DEF D, k
<1> HIDE DEF R
<1>4. ToSet(l[c].up) \subseteq There(cs)
  BY <1>1, <1>2, <1>3 DEF Addresses
<1>5. \A d \in There(cs) : d \in ToSet(l[c].up) <=> NameOf(d) \in R
  BY <1>1, <1>2, <1>3 DEF Addresses
<1> QED BY <1>4, <1>5 DEF R

\* The lists of classes that have attributes or relationships are right.
Kept(cs, sup, l) == \A c \in There(cs) : l[c].props # {} => Exact(cs, sup, l, c) /\ PropsOK(l, c)
\* All lists are right, and what is not there has the lists it had.
Registrated(cs, sup, l, st) ==
    /\ st.ok = TRUE /\ Right(cs, sup, st.lists)
    /\ "testIds" \notin Careless => \A c \in Class : st.lists[c].kin = l[c].kin
    /\ \A c \in Class \ There(cs) : st.lists[c] = l[c]

\* registrate_all_classes makes all lists right, those it may skip were.
LEMMA RegistrateAllParts ==
  ASSUME NEW cs, ClassesOK(cs), NEW sup, SupersOK(cs, sup), ~Circle(Graph(cs, sup)),
         NEW l \in [Class -> Lists],
         NEW st, \/ st = RegistrateAllClasses(cs, sup, l, FALSE)
                 \/ st = RegistrateAllClasses(cs, sup, l, TRUE) /\ Kept(cs, sup, l)
  PROVE  Registrated(cs, sup, l, st)
<1>0. PICK skip \in BOOLEAN : st = RegistrateAllClasses(cs, sup, l, skip) /\ (skip => Kept(cs, sup, l))
  OBVIOUS
<1> DEFINE walked == {n \in Name : cs[n] # NoClass /\ (skip => l[cs[n]].props = {})}
           s == Only(cs, walked)
           rf == Refresh(cs, sup, l, s)
           sub == WithSubClasses(cs, rf.lists, There(cs))
           w == IF "testIds" \in Careless THEN WithKin(cs, sub) ELSE sub
<1>1. /\ There(cs) \subseteq Class
      /\ \A n \in Known(cs) : n \in Name /\ cs[n] \in There(cs) /\ NameOf(cs[n]) = n
      /\ \A c \in There(cs) : NameOf(c) \in Known(cs) /\ cs[NameOf(c)] = c
  BY ThereParts
<1>2. s \in Seq(There(cs)) /\ \A c \in There(cs) : c \in ToSet(s) \/ (skip /\ l[c].props # {})
  <2>1. cs \in Seq(Class \cup {NoClass}) /\ DOMAIN cs = Name
    <3>1. Names \in Nat
      BY SchemaAssumption
    <3> QED BY <3>1 DEF ClassesOK, Name
  <2>2. walked \in SUBSET DOMAIN cs
    BY <2>1
  <2>3. \A n \in walked : cs[n] \in There(cs)
    BY <1>1 DEF Known
  <2>4. \A c \in There(cs) : NameOf(c) \in Name /\ cs[NameOf(c)] = c /\ c # NoClass
    BY <1>1 DEF Known, There
  <2>5. \A c \in There(cs) : NameOf(c) \in walked \/ (skip /\ l[c].props # {})
    BY <2>4
  <2> HIDE DEF walked
  <2>6. s \in Seq(Class \cup {NoClass}) /\ ToSet(s) = {cs[n] : n \in walked}
    BY <2>1, <2>2, OnlyElements
  <2> HIDE DEF s
  <2>7. \A i \in DOMAIN s : s[i] \in There(cs)
    BY <2>3, <2>6 DEF ToSet
  <2>8. s \in Seq(There(cs))
    BY <2>6, <2>7
  <2> QED BY <2>4, <2>5, <2>6, <2>8
<1> HIDE DEF walked, s
<1>3. MadeAnew(cs, sup, l, s, rf)
  BY <1>2, RefreshParts
<1>4. rf.ok = TRUE /\ rf.lists \in [Class -> Lists]
  BY <1>3 DEF MadeAnew
<1>5. st = [rf EXCEPT !.lists = w]
  BY <1>0, <1>4 DEF RegistrateAllClasses, walked, s
<1>6. \A c \in There(cs) : Exact(cs, sup, rf.lists, c) /\ PropsOK(rf.lists, c)
  <2> TAKE c \in There(cs)
  <2>1. CASE c \in ToSet(s)
    BY <1>3, <2>1 DEF MadeAnew
  <2>2. CASE c \notin ToSet(s)
    <3>1. rf.lists[c] = l[c]
      BY <1>1, <1>3, <2>2 DEF MadeAnew
    <3>2. Exact(cs, sup, l, c) /\ PropsOK(l, c)
      BY <1>0, <1>2, <2>2 DEF Kept
    <3> QED BY <3>1, <3>2 DEF Exact, PropsOK
  <2> QED BY <2>1, <2>2
<1>7. Listed(cs, rf.lists, There(cs), sub)
  BY <1>4, WithSubClassesParts
<1>8. st.ok = TRUE /\ st.lists = w
  <2> DEFINE T == There(cs)
  <2>1. rf = [ok |-> rf.ok, lists |-> rf.lists]
    BY DEF Refresh
  <2> HIDE DEF rf, w
  <2>2. st = [ok |-> rf.ok, lists |-> w]
    BY <1>5, <2>1
  <2> QED BY <1>4, <2>2
<1> HIDE DEF rf, sub
<1>9. /\ w \in [Class -> Lists]
      /\ \A c \in Class : w[c].up = sub[c].up /\ w[c].down = sub[c].down /\ w[c].props = sub[c].props
      /\ "testIds" \notin Careless => w = sub
      /\ \A c \in Class \ There(cs) : w[c] = sub[c]
  <2>1. sub \in [Class -> Lists]
    BY <1>7 DEF Listed
  <2>2. CASE "testIds" \notin Careless
    BY <2>1, <2>2
  <2>3. CASE "testIds" \in Careless
    <3> DEFINE k(c) == Relatives(cs, sub, c)
               u == WithKin(cs, sub)
    <3>1. w = u
      BY <2>3
    <3>2. \A c \in Class : k(c) \in SUBSET Class
      <4> TAKE c \in Class
      <4>1. \A e : ToSet(SubClasses(cs, sub, e)) \subseteq Class
        BY <1>1, <2>1, SubClassesParts
      <4> QED BY <4>1 DEF Relatives
    <3>3. \A c \in Class : u[c] = sub[c] \/ (c \in There(cs) /\ u[c] = Kin(sub[c], k(c)))
      BY DEF WithKin, Kin
    <3>4. u = [c \in Class |-> u[c]]
      BY DEF WithKin
    <3> HIDE DEF u, k, w
    <3>5. \A c \in Class : /\ u[c] \in Lists /\ u[c].up = sub[c].up /\ u[c].down = sub[c].down
                           /\ u[c].props = sub[c].props
      BY <2>1, <3>2, <3>3, KinParts
    <3> QED BY <2>3, <3>1, <3>3, <3>4, <3>5
  <2> QED BY <2>2, <2>3
<1> HIDE DEF w
<1>10. \A c \in Class : w[c].up = rf.lists[c].up /\ w[c].props = rf.lists[c].props
  BY <1>7, <1>9 DEF Listed
<1>11. \A c \in There(cs) : DownExact(cs, w, c)
  <2> TAKE c \in There(cs)
  <2>1. ToSet(w[c].down) = {d \in There(cs) : c \in ToSet(rf.lists[d].up)}
    BY <1>1, <1>7, <1>9 DEF Listed
  <2>2. \A d \in There(cs) : w[d].up = rf.lists[d].up
    BY <1>1, <1>10
  <2> QED BY <2>1, <2>2 DEF DownExact
<1>12. Right(cs, sup, w)
  BY <1>1, <1>6, <1>9, <1>10, <1>11 DEF Right, Exact, PropsOK
<1>13. "testIds" \notin Careless => \A c \in Class : w[c].kin = l[c].kin
  BY <1>3, <1>7, <1>9 DEF Listed, MadeAnew
<1>14. \A c \in Class \ There(cs) : w[c] = l[c]
  <2> TAKE c \in Class \ There(cs)
  <2>1. c \in Class \ ToSet(s)
    BY <1>2 DEF ToSet
  <2> QED BY <1>3, <1>7, <1>9, <2>1 DEF Listed, MadeAnew
<1> QED BY <1>8, <1>12, <1>13, <1>14 DEF Registrated

-----------------------------------------------------------------------------
(* Changes of the hierarchy. *)

\* No circle, all super-classes there, all lists right.
Sound(cs, sup, l) ==
    /\ ClassesOK(cs) /\ SupersOK(cs, sup) /\ ~Circle(Graph(cs, sup)) /\ Right(cs, sup, l)

\* What is right with the lists of one class.
LEMMA RightParts ==
  ASSUME NEW cs, NEW sup, NEW l, Right(cs, sup, l), NEW c \in There(cs)
  PROVE  /\ l \in [Class -> Lists] /\ Exact(cs, sup, l, c) /\ PropsOK(l, c)
         /\ ToSet(l[c].down) = {d \in There(cs) : c \in ToSet(l[d].up)}
BY DEF Right, DownExact

\* The super-classes of c change: registrate_class_change.
LEMMA ClassChangeParts ==
  ASSUME NEW cs, NEW sup, NEW l, Sound(cs, sup, l), NEW c \in There(cs), doomed = {},
         NEW new, SupersOK(cs, new), ~Circle(Graph(cs, new)), \A d \in Class \ {c} : new[d] = sup[d],
         NEW w, w = RegistrateClassChange(cs, new, l, c)
  PROVE  Sound(cs, new, w) /\ OthersKept(cs, l, w)
<1> DEFINE D == Graph(cs, sup)
           E == Graph(cs, new)
           k == NameOf(c)
           s == <<c>> \o l[c].down
           st == Refresh(cs, new, l, s)
           m == st.lists
           T == ((ToSet(l[c].up) \cup ToSet(m[c].up)) \cap There(cs)) \ doomed
<1>1. ClassesOK(cs) /\ SupersOK(cs, sup) /\ ~Circle(D) /\ Right(cs, sup, l) /\ l \in [Class -> Lists]
  BY DEF Sound, Right
<1>2. /\ There(cs) \subseteq Class
      /\ \A n \in Known(cs) : n \in Name /\ cs[n] \in There(cs) /\ NameOf(cs[n]) = n
      /\ \A d \in There(cs) : NameOf(d) \in Known(cs) /\ cs[NameOf(d)] = d /\ NameOf(d) \in Name
  BY <1>1, ThereParts DEF Known
<1>3. IsGraph(D) /\ IsGraph(E)
  BY <1>1, GraphParts
<1>4. \A n \in Name \ {k} : E[n] = D[n]
  <2> TAKE n \in Name \ {k}
  <2>1. CASE cs[n] = NoClass
    BY <2>1 DEF Graph
  <2>2. CASE cs[n] # NoClass
    <3>1. cs[n] \in Class \ {c}
      BY <1>1, <2>2 DEF ClassesOK
    <3>2. new[cs[n]] = sup[cs[n]]
      BY <3>1
    <3> QED BY <2>2, <3>2 DEF Graph
  <2> QED BY <2>1, <2>2
<1>5. s \in Seq(There(cs)) /\ ToSet(s) = {c} \cup {d \in There(cs) : c \in ToSet(l[d].up)}
  <2>1. ToSet(l[c].down) = {d \in There(cs) : c \in ToSet(l[d].up)}
    BY <1>1, RightParts
  <2>2. l[c].down \in Seq(Class)
    BY <1>1, <1>2 DEF Lists
  <2>3. l[c].down \in Seq(There(cs))
    <3> DEFINE t == l[c].down
    <3>1. \A i \in DOMAIN t : t[i] \in There(cs)
      BY <2>1 DEF ToSet
    <3> HIDE DEF t
    <3>2. t \in Seq(Class)
      BY <2>2 DEF t
    <3>3. t \in Seq(There(cs))
      BY <3>1, <3>2
    <3> QED BY <3>3 DEF t
  <2>4. <<c>> \in Seq(There(cs)) /\ ToSet(<<c>>) = {c}
    BY DEF ToSet
  <2> DEFINE t == l[c].down
             a == <<c>>
  <2> HIDE DEF t, a
  <2>5. a \o t \in Seq(There(cs)) /\ ToSet(a \o t) = ToSet(a) \cup ToSet(t)
    <3>1. a \in Seq(There(cs)) /\ t \in Seq(There(cs))
      BY <2>3, <2>4 DEF a, t
    <3> QED BY <3>1, ConcatElements
  <2>6. s = a \o t /\ ToSet(a) = {c} /\ ToSet(t) = {d \in There(cs) : c \in ToSet(l[d].up)}
    BY <2>1, <2>4 DEF a, t
  <2> HIDE DEF s
  <2> QED BY <2>5, <2>6
<1> HIDE DEF s, D, E
<1>6. MadeAnew(cs, new, l, s, st)
  BY <1>1, <1>5, RefreshParts DEF E
<1>7. st.ok = TRUE /\ m \in [Class -> Lists]
  BY <1>6 DEF MadeAnew
<1>8. w = WithSubClasses(cs, m, T)
  BY <1>7 DEF RegistrateClassChange, s
<1> HIDE DEF st, T
<1>9. Listed(cs, m, T, w)
  BY <1>1, <1>7, <1>8, WithSubClassesParts DEF st
<1> DEFINE n(d) == NameOf(d)
<1>10. \A d \in There(cs) : Exact(cs, new, m, d) /\ PropsOK(m, d)
  <2> TAKE d \in There(cs)
  <2>1. CASE d \in ToSet(s)
    BY <1>6, <2>1 DEF MadeAnew
  <2>2. CASE d \notin ToSet(s)
    <3>1. m[d] = l[d]
      BY <1>2, <1>6, <2>2 DEF MadeAnew
    <3>2. d # c /\ c \notin ToSet(l[d].up)
      BY <1>5, <2>2
    <3>3. Exact(cs, sup, l, d) /\ PropsOK(l, d)
      BY <1>1, RightParts
    <3>4. k \notin Reach(D, n(d))
      BY <1>1, <3>2, <3>3, InUp DEF D
    <3>5. n(d) # k /\ n(d) \in Name /\ Reach(D, n(d)) \subseteq Name
      BY <1>2, <3>2 DEF Reach
    <3>6. \A j \in Reach(D, n(d)) \cup {n(d)} : E[j] = D[j]
      BY <1>4, <3>4, <3>5
    <3>7. Reach(E, n(d)) = Reach(D, n(d))
      BY <1>3, <3>5, <3>6, ReachSame
    <3> QED BY <3>1, <3>3, <3>7 DEF Exact, PropsOK, D, E
  <2> QED BY <2>1, <2>2
<1>11. \A d, e \in There(cs) : /\ e \in ToSet(l[d].up) <=> n(e) \in Reach(D, n(d))
                               /\ e \in ToSet(m[d].up) <=> n(e) \in Reach(E, n(d))
  <2> TAKE d, e \in There(cs)
  <2>1. Exact(cs, sup, l, d) /\ Exact(cs, new, m, d)
    BY <1>1, <1>10, RightParts
  <2> QED BY <1>1, <2>1, InUp DEF D, E
<1>12. \A d \in There(cs) : DownExact(cs, w, d)
  <2> TAKE e \in There(cs)
  <2>1. CASE e \in T
    BY <1>2, <1>9, <2>1 DEF Listed, DownExact
  <2>2. CASE e \notin T
    <3>1. w[e] = m[e] /\ m[e].down = l[e].down
      BY <1>2, <1>6, <1>9, <2>2 DEF Listed, MadeAnew
    <3>2. n(e) \notin Reach(D, k) /\ n(e) \notin Reach(E, k)
      BY <1>11, <2>2 DEF T
    <3>3. \A d \in There(cs) : n(e) \in Reach(D, n(d)) <=> n(e) \in Reach(E, n(d))
      <4> TAKE d \in There(cs)
      <4>1. k \in Name /\ n(d) \in Name
        BY <1>2
      <4>2. \A j \in Name \ {k} : D[j] = E[j]
        BY <1>4
      <4>3. Reach(D, n(d)) \subseteq Reach(E, n(d)) \cup Reach(D, k)
        BY <1>3, <1>4, <4>1, ReachKept
      <4>4. Reach(E, n(d)) \subseteq Reach(D, n(d)) \cup Reach(E, k)
        BY <1>3, <4>1, <4>2, ReachKept
      <4> QED BY <3>2, <4>3, <4>4
    <3>4. \A d \in There(cs) : w[d].up = m[d].up
      BY <1>2, <1>9 DEF Listed
    <3>5. ToSet(l[e].down) = {d \in There(cs) : e \in ToSet(l[d].up)}
      BY <1>1, RightParts
    <3> QED BY <1>11, <3>1, <3>3, <3>4, <3>5 DEF DownExact
  <2> QED BY <2>1, <2>2
<1>13. \A d \in There(cs) : Exact(cs, new, w, d) /\ PropsOK(w, d)
  BY <1>2, <1>9, <1>10 DEF Listed, Exact, PropsOK
<1>14. Sound(cs, new, w)
  BY <1>1, <1>9, <1>12, <1>13 DEF Sound, Right, Listed
<1>15. OthersKept(cs, l, w)
  <2>1. \A d \in Class : w[d].kin = l[d].kin
    BY <1>6, <1>9 DEF Listed, MadeAnew
  <2>2. \A d \in Class \ There(cs) : w[d] = l[d]
    <3> TAKE d \in Class \ There(cs)
    <3>1. d \notin T /\ d \notin ToSet(s)
      BY <1>5 DEF T
    <3> QED BY <1>6, <1>9, <3>1 DEF Listed, MadeAnew
  <2> QED BY <2>1, <2>2 DEF OthersKept
<1> QED BY <1>14, <1>15

\* A class goes that nobody names as super-class: ~OksClass.
Destroyed(c, cs, sup, w) ==
    /\ Sound(cs, sup, w) /\ There(cs) = There(classes) \ {c} /\ w[c] = NoLists
    /\ \A d \in Class \ There(classes) : w[d] = lists[d]
    /\ \A d \in Class \ {c} : w[d].kin = lists[d].kin

\* ~OksClass leaves right lists behind and nothing of the class.
LEMMA DestructionParts ==
  ASSUME Sound(classes, supers, lists), doomed = {}, NEW c \in There(classes),
         \A d \in There(classes) : NameOf(c) \notin ToSet(supers[d]),
         NEW cs, cs = [classes EXCEPT ![NameOf(c)] = NoClass],
         NEW sup, sup = [d \in Class |-> IF d \in {c} THEN <<>> ELSE supers[d]],
         NEW w, w = AfterDestruction(cs, c)
  PROVE  Destroyed(c, cs, sup, w)
<1> DEFINE D == Graph(classes, supers)
           E == Graph(cs, sup)
           k == NameOf(c)
           T == ToSet(lists[c].up) \cap (There(cs) \ doomed)
           first == WithSubClasses(cs, lists, T)
           n(d) == NameOf(d)
<1>1. ClassesOK(classes) /\ SupersOK(classes, supers) /\ ~Circle(D) /\ Right(classes, supers, lists)
      /\ lists \in [Class -> Lists] /\ supers \in [Class -> Seq(Name)]
  BY DEF Sound, Right, SupersOK
<1>2. /\ There(classes) \subseteq Class
      /\ \A j \in Known(classes) : j \in Name /\ classes[j] \in There(classes) /\ NameOf(classes[j]) = j
      /\ \A d \in There(classes) : n(d) \in Known(classes) /\ classes[n(d)] = d /\ n(d) \in Name
  BY <1>1, ThereParts DEF Known
<1>3. ClassesOK(cs) /\ \A j \in Name : cs[j] = IF j = k THEN NoClass ELSE classes[j]
  <2>1. classes \in [Name -> Class \cup {NoClass}]
    BY <1>1 DEF ClassesOK
  <2>2. \A j \in Name : cs[j] = IF j = k THEN NoClass ELSE classes[j]
    BY <2>1
  <2>3. cs \in [Name -> Class \cup {NoClass}]
    BY <2>1
  <2> QED BY <1>1, <2>2, <2>3 DEF ClassesOK
<1>4. There(cs) = There(classes) \ {c} /\ Known(cs) = Known(classes) \ {k}
  <2>1. NoClass \notin Class
    BY SchemaAssumption
  <2>2. \A j \in Name : classes[j] = c => j = k
    BY <1>1, <1>2, <2>1 DEF ClassesOK
  <2> QED BY <1>2, <1>3, <2>2 DEF There, Known
<1>5. /\ IsGraph(D) /\ \A d \in There(classes) : D[n(d)] = ToSet(supers[d])
      /\ \A j \in Name : classes[j] = NoClass => D[j] = {}
  BY <1>1, GraphParts
<1>6. \A j \in Name : k \notin D[j]
  <2> TAKE j \in Name
  <2>1. CASE classes[j] = NoClass
    BY <1>5, <2>1
  <2>2. CASE classes[j] # NoClass
    BY <1>2, <1>5, <2>2 DEF Known
  <2> QED BY <2>1, <2>2
<1>7. sup \in [Class -> Seq(Name)] /\ \A d \in Class \ {c} : sup[d] = supers[d]
  BY <1>1
<1>8. E[k] = {} /\ \A j \in Name \ {k} : E[j] = D[j]
  <2>1. E[k] = {}
    <3>1. c \in There(classes) /\ k \in Name
      BY <1>2
    <3>2. cs[k] = NoClass
      BY <1>3, <3>1
    <3> QED BY <3>1, <3>2 DEF Graph
  <2>2. \A j \in Name \ {k} : E[j] = D[j]
    <3> TAKE j \in Name \ {k}
    <3>1. CASE classes[j] = NoClass
      BY <1>3, <3>1 DEF Graph
    <3>2. CASE classes[j] # NoClass
      <4>1. classes[j] \in Class \ {c} /\ cs[j] = classes[j]
        BY <1>1, <1>3, <3>2 DEF ClassesOK
      <4>2. sup[classes[j]] = supers[classes[j]]
        BY <1>7, <4>1
      <4> QED BY <3>2, <4>1, <4>2 DEF Graph
    <3> QED BY <3>1, <3>2
  <2> QED BY <2>1, <2>2
<1>9. SupersOK(cs, sup)
  <2>1. \A j \in Name : D[j] \subseteq Known(classes)
    BY <1>1 DEF SupersOK
  <2>2. \A j \in Name : E[j] \subseteq Known(cs)
    BY <1>4, <1>6, <1>8, <2>1
  <2> QED BY <1>7, <2>2 DEF SupersOK
<1>10. IsGraph(E)
  BY <1>3, <1>9, GraphParts
<1> HIDE DEF D, E
<1>11. ~Circle(E)
  <2>1. \A j \in Name : E[j] \subseteq D[j]
    BY <1>8
  <2> QED BY <1>1, <2>1, NoCircleFewer
<1>12. \A j \in Name : k \notin Reach(D, j)
  <2> TAKE j \in Name
  <2> DEFINE S == Name \ {k}
  <2>1. S \in SUBSET Name /\ D[j] \subseteq S /\ Closed(D, S)
    BY <1>5, <1>6 DEF Closed, IsGraph
  <2> HIDE DEF S
  <2>2. Reach(D, j) \subseteq S
    BY <2>1, ReachIsLeast
  <2> QED BY <2>2 DEF S
<1>13. \A j \in Name \ {k} :
         Reach(E, j) = Reach(D, j) /\ Addresses(cs, Reach(E, j)) = Addresses(classes, Reach(D, j))
  <2> TAKE j \in Name \ {k}
  <2>1. Reach(D, j) \subseteq Name /\ k \notin Reach(D, j)
    BY <1>12 DEF Reach
  <2>2. \A i \in Reach(D, j) \cup {j} : E[i] = D[i]
    BY <1>8, <2>1
  <2>3. Reach(E, j) = Reach(D, j)
    BY <1>5, <1>10, <2>2, ReachSame
  <2>4. \A i \in Reach(D, j) : cs[i] = classes[i]
    BY <1>3, <2>1
  <2> QED BY <2>3, <2>4 DEF Addresses
<1>14. \A d \in There(cs) : Exact(cs, sup, lists, d) /\ PropsOK(lists, d)
  <2> TAKE d \in There(cs)
  <2>1. d \in There(classes) /\ n(d) \in Name \ {k}
    BY <1>2, <1>4
  <2>2. Exact(classes, supers, lists, d) /\ PropsOK(lists, d)
    BY <1>1, <2>1, RightParts
  <2> QED BY <1>13, <2>1, <2>2 DEF Exact, D, E
<1>15. \A d \in There(classes) : c \notin ToSet(lists[d].up)
  <2> TAKE d \in There(classes)
  <2>1. Exact(classes, supers, lists, d)
    BY <1>1, RightParts
  <2> QED BY <1>1, <1>2, <1>12, <2>1, InUp DEF D
<1>16. lists[c].down = <<>>
  <2>1. ToSet(lists[c].down) = {}
    <3>1. ToSet(lists[c].down) = {d \in There(classes) : c \in ToSet(lists[d].up)}
      BY <1>1, RightParts
    <3> QED BY <1>15, <3>1
  <2>2. lists[c].down \in Seq(Class)
    BY <1>1, <1>2 DEF Lists
  <2> DEFINE t == lists[c].down
  <2>3. \A i \in DOMAIN t : FALSE
    BY <2>1 DEF ToSet
  <2> HIDE DEF t
  <2>4. t \in Seq(Class)
    BY <2>2 DEF t
  <2>5. t = <<>>
    <3>1. Len(t) \in Nat /\ DOMAIN t = 1 .. Len(t)
      BY <2>4
    <3>2. Len(t) = 0
      <4> SUFFICES ASSUME Len(t) # 0 PROVE FALSE
        OBVIOUS
      <4>1. 1 \in DOMAIN t
        BY <3>1
      <4> QED BY <2>3, <4>1
    <3> QED BY <2>4, <3>2, EmptySeq
  <2> QED BY <2>5 DEF t
<1>17. w = [first EXCEPT ![c] = NoLists]
  <2> DEFINE there == There(cs) \ doomed
             subs == Only(lists[c].down, {i \in DOMAIN lists[c].down : lists[c].down[i] \in there})
             IsAfter(f) == f = [i \in 0 .. Len(subs) |->
                                  IF i = 0 THEN first
                                  ELSE RegistrateClassChange(cs, supers, f[i - 1], subs[i])]
             after == CHOOSE f : IsAfter(f)
  <2>1. w = [after[Len(subs)] EXCEPT ![c] = NoLists]
    BY DEF AfterDestruction
  <2>2. Len(subs) = 0
    <3> DEFINE t == lists[c].down
               K == {i \in DOMAIN t : t[i] \in there}
    <3>1. t = <<>>
      BY <1>16
    <3> HIDE DEF t
    <3>2. K = {}
      BY <3>1
    <3> HIDE DEF K
    <3>3. t \in Seq(Class) /\ K \in SUBSET DOMAIN t
      BY <3>1, <3>2
    <3>4. Len(Only(t, K)) = Cardinality(K)
      BY <3>3, OnlyParts
    <3>5. Cardinality(K) = 0
      BY <3>2, FS_EmptySet
    <3> QED BY <3>4, <3>5 DEF t, K
  <2> HIDE DEF subs, first
  <2>3. \E f : IsAfter(f)
    <3> DEFINE f == [i \in 0 .. 0 |-> first]
    <3>1. f = [i \in 0 .. Len(subs) |->
                 IF i = 0 THEN first ELSE RegistrateClassChange(cs, supers, f[i - 1], subs[i])]
      BY <2>2
    <3> HIDE DEF f
    <3> QED BY <3>1
  <2>4. IsAfter(after)
    <3> HIDE DEF IsAfter
    <3> QED BY <2>3
  <2>5. after = [i \in 0 .. Len(subs) |->
                   IF i = 0 THEN first ELSE RegistrateClassChange(cs, supers, after[i - 1], subs[i])]
    BY <2>4, Zenon
  <2> HIDE DEF after
  <2>6. after[0] = first
    BY <2>2, <2>5
  <2> QED BY <2>1, <2>2, <2>6
<1> HIDE DEF first
<1>18. Listed(cs, lists, T, first)
  BY <1>1, <1>3, WithSubClassesParts DEF first
<1>19. /\ w \in [Class -> Lists] /\ w[c] = NoLists
       /\ \A d \in Class \ {c} : w[d] = first[d]
  <2>1. NoLists \in Lists
    BY DEF NoLists, Lists
  <2>2. first \in [Class -> Lists] /\ c \in Class
    BY <1>2, <1>18 DEF Listed
  <2> QED BY <1>17, <2>1, <2>2
<1>20. \A d \in There(cs) : Exact(cs, sup, w, d) /\ PropsOK(w, d)
  <2> TAKE d \in There(cs)
  <2>1. d \in Class \ {c}
    BY <1>2, <1>4
  <2>2. w[d].up = lists[d].up /\ w[d].props = lists[d].props
    BY <1>18, <1>19, <2>1 DEF Listed
  <2>3. Exact(cs, sup, lists, d) /\ PropsOK(lists, d)
    BY <1>14
  <2> QED BY <2>2, <2>3 DEF Exact, PropsOK
<1>21. \A e \in There(cs) : DownExact(cs, w, e)
  <2> TAKE e \in There(cs)
  <2>1. e \in Class /\ e # c /\ e \in There(classes)
    BY <1>2, <1>4
  <2>2. \A d \in There(cs) : w[d].up = lists[d].up
    BY <1>2, <1>4, <1>18, <1>19 DEF Listed
  <2>3. CASE e \in T
    <3>1. w[e] = first[e]
      BY <1>19, <2>1
    <3>2. ToSet(first[e].down) = {d \in There(cs) : e \in ToSet(lists[d].up)}
      BY <1>18, <2>1, <2>3 DEF Listed
    <3> QED BY <2>2, <3>1, <3>2 DEF DownExact
  <2>4. CASE e \notin T
    <3>1. w[e] = lists[e]
      BY <1>18, <1>19, <2>1, <2>4 DEF Listed
    <3>2. e \notin ToSet(lists[c].up)
      BY <2>4
    <3>3. ToSet(lists[e].down) = {d \in There(classes) : e \in ToSet(lists[d].up)}
      BY <1>1, <2>1, RightParts
    <3> QED BY <1>4, <2>2, <3>1, <3>2, <3>3 DEF DownExact
  <2> QED BY <2>3, <2>4
<1>22. Sound(cs, sup, w)
  BY <1>3, <1>9, <1>11, <1>19, <1>20, <1>21 DEF Sound, Right, E
<1>23. \A d \in Class \ There(classes) : w[d] = lists[d]
  BY <1>4, <1>18, <1>19 DEF Listed
<1>24. \A d \in Class \ {c} : w[d].kin = lists[d].kin
  BY <1>18, <1>19 DEF Listed
<1> QED BY <1>4, <1>19, <1>22, <1>23, <1>24 DEF Destroyed


\* When classes are added, the lists of the ones that were there stay right.
LEMMA GrownParts ==
  ASSUME NEW cs, NEW sup, NEW l, Sound(cs, sup, l),
         NEW more, ClassesOK(more), NEW new, SupersOK(more, new),
         \A n \in Known(cs) : more[n] = cs[n], \A c \in There(cs) : new[c] = sup[c],
         \A c \in There(more) \ There(cs) : l[c] = NoLists
  PROVE  Kept(more, new, l)
<1> DEFINE D == Graph(cs, sup)
           E == Graph(more, new)
<1>1. ClassesOK(cs) /\ SupersOK(cs, sup) /\ Right(cs, sup, l)
  BY DEF Sound
<1>2. IsGraph(D) /\ IsGraph(E)
  BY <1>1, GraphParts
<1>3. /\ \A n \in Known(cs) : n \in Name /\ cs[n] \in There(cs) /\ NameOf(cs[n]) = n
      /\ \A d \in There(cs) : NameOf(d) \in Known(cs) /\ cs[NameOf(d)] = d
  BY <1>1, ThereParts
<1>4. \A n \in Known(cs) : E[n] = D[n]
  <2> TAKE n \in Known(cs)
  <2>1. n \in Name /\ cs[n] # NoClass /\ more[n] = cs[n] /\ new[cs[n]] = sup[cs[n]]
    BY <1>3 DEF Known
  <2> QED BY <2>1 DEF Graph
<1>5. \A n \in Known(cs) : D[n] \subseteq Known(cs)
  BY <1>1 DEF SupersOK, Known
<1> HIDE DEF D, E
<1> SUFFICES ASSUME NEW c \in There(more), l[c].props # {}
             PROVE  Exact(more, new, l, c) /\ PropsOK(l, c)
  BY DEF Kept
<1>6. c \in There(cs)
  <2>1. NoLists.props = {}
    BY DEF NoLists
  <2> QED BY <2>1
<1> DEFINE k == NameOf(c)
<1>7. k \in Known(cs) /\ k \in Name /\ Known(cs) \in SUBSET Name
  BY <1>3, <1>6 DEF Known
<1> HIDE DEF k
<1>8. Reach(D, k) \subseteq Known(cs)
  <2>1. D[k] \subseteq Known(cs) /\ Closed(D, Known(cs))
    BY <1>5, <1>7 DEF Closed
  <2> QED BY <1>7, <2>1, ReachIsLeast
<1>9. Reach(E, k) = Reach(D, k)
  <2>1. \A j \in Reach(D, k) \cup {k} : E[j] = D[j]
    BY <1>4, <1>7, <1>8
  <2> QED BY <1>2, <1>7, <2>1, ReachSame
<1>10. Addresses(more, Reach(E, k)) = Addresses(cs, Reach(D, k))
  <2>1. \A j \in Reach(D, k) : more[j] = cs[j]
    BY <1>8
  <2> QED BY <1>9, <2>1 DEF Addresses
<1>11. Exact(cs, sup, l, c) /\ PropsOK(l, c)
  BY <1>1, <1>6, RightParts
<1> QED BY <1>10, <1>11 DEF Exact, D, E, k

-----------------------------------------------------------------------------
(* Addresses. *)

\* The uses of a name are counted from 1.
UseClosed(A) == A \subseteq Class /\ \A c \in A : \A u \in 1 .. c[2] : <<c[1], u>> \in A

\* The next use of a name is one it was not used with.
LEMMA NextUseParts ==
  ASSUME UseClosed(Allocated), NEW n \in Name
  PROVE  /\ NextUse(n) \in Nat \ {0} /\ <<n, NextUse(n)>> \notin Allocated
         /\ \A u \in 1 .. NextUse(n) - 1 : <<n, u>> \in Allocated
<1> DEFINE T == {c \in Allocated : NameOf(c) = n}
           U == {c[2] : c \in T}
           m == Cardinality(T)
<1>1. MaxUse \in Nat /\ Allocated \subseteq Class
  BY SchemaAssumption DEF UseClosed
<1>2. \A c \in T : c[2] \in 1 .. MaxUse /\ c = <<n, c[2]>>
  BY <1>1 DEF Class, NameOf
<1>3. IsFiniteSet(U) /\ Cardinality(U) \in Nat /\ Cardinality(U) = m
  <2>1. IsFiniteSet(1 .. MaxUse) /\ U \subseteq 1 .. MaxUse
    BY <1>1, <1>2, FS_Interval
  <2>2. IsFiniteSet(U)
    BY <2>1, FS_Subset
  <2> DEFINE g == [u \in U |-> <<n, u>>]
  <2>3. \A u \in U : <<n, u>> \in T
    BY <1>2
  <2>4. \A c \in T : \E u \in U : <<n, u>> = c
    BY <1>2
  <2> HIDE DEF T, U
  <2>5. g \in [U -> T] /\ (\A u, v \in U : g[u] = g[v] => u = v) /\ \A c \in T : \E u \in U : g[u] = c
    BY <2>3, <2>4
  <2> HIDE DEF g
  <2>6. g \in Bijection(U, T)
    BY <2>5 DEF Bijection, Injection, Surjection, IsInjective
  <2>7. Cardinality(T) = Cardinality(U)
    BY <2>2, <2>6, FS_Bijection DEF ExistsBijection
  <2> QED BY <2>2, <2>7, FS_CardinalityType
<1>4. \A u \in U : u \in Nat \ {0} /\ \A v \in 1 .. u : v \in U
  <2> SUFFICES ASSUME NEW c \in T PROVE c[2] \in Nat \ {0} /\ \A v \in 1 .. c[2] : v \in U
    OBVIOUS
  <2>1. c[2] \in Nat \ {0} /\ c[1] = n
    BY <1>1, <1>2
  <2>2. \A v \in 1 .. c[2] : <<n, v>> \in Allocated
    BY <2>1 DEF UseClosed
  <2>3. \A v \in 1 .. c[2] : <<n, v>> \in T /\ <<n, v>>[2] = v
    BY <2>2 DEF NameOf
  <2> QED BY <2>1, <2>3
<1>5. \A u : u \in U <=> <<n, u>> \in Allocated
  BY <1>2 DEF NameOf
<1>6. NextUse(n) = m + 1
  BY DEF NextUse
<1> HIDE DEF T, U, m
<1>7. m \in Nat
  BY <1>3
<1>8. m + 1 \notin U
  <2> SUFFICES ASSUME m + 1 \in U PROVE FALSE
    OBVIOUS
  <2>1. 1 .. m + 1 \subseteq U
    BY <1>4
  <2>2. Cardinality(1 .. m + 1) = m + 1
    BY <1>7, FS_Interval
  <2>3. Cardinality(1 .. m + 1) <= Cardinality(U)
    BY <1>3, <2>1, FS_Subset
  <2> QED BY <1>3, <1>7, <2>2, <2>3
<1>9. \A u \in 1 .. m : u \in U
  <2> SUFFICES ASSUME NEW u \in 1 .. m, u \notin U PROVE FALSE
    OBVIOUS
  <2>1. \A v \in U : v \in 1 .. u - 1
    <3> TAKE v \in U
    <3>1. v \in Nat \ {0} /\ ~ (u \in 1 .. v)
      BY <1>4
    <3> QED BY <1>7, <3>1
  <2>2. u - 1 \in Nat /\ IsFiniteSet(1 .. u - 1) /\ Cardinality(1 .. u - 1) = u - 1
    BY <1>7, FS_Interval
  <2>3. Cardinality(U) <= Cardinality(1 .. u - 1)
    BY <2>1, <2>2, FS_Subset
  <2> QED BY <1>3, <1>7, <2>2, <2>3
<1> QED BY <1>5, <1>6, <1>7, <1>8, <1>9

\* Classes that get the next use of their names.
LEMMA UsesGrow ==
  ASSUME UseClosed(Allocated), NEW N \in SUBSET Name, NEW A \in SUBSET Class,
         A = {<<n, NextUse(n)>> : n \in N}
  PROVE  UseClosed(Allocated \cup A) /\ A \cap Allocated = {}
<1>1. \A n \in N : /\ NextUse(n) \in Nat \ {0} /\ <<n, NextUse(n)>> \notin Allocated
                   /\ \A u \in 1 .. NextUse(n) - 1 : <<n, u>> \in Allocated
  BY NextUseParts
<1>2. Allocated \subseteq Class /\ \A c \in Allocated : \A u \in 1 .. c[2] : <<c[1], u>> \in Allocated
  BY DEF UseClosed
<1>3. ASSUME NEW n \in N, NEW u \in 1 .. NextUse(n) PROVE <<n, u>> \in Allocated \cup A
  <2>1. CASE u = NextUse(n)
    BY <2>1
  <2>2. CASE u # NextUse(n)
    <3> DEFINE k == NextUse(n)
    <3>1. k \in Nat \ {0} /\ u \in 1 .. k /\ u # k
      BY <1>1, <2>2
    <3> HIDE DEF k
    <3>2. u \in 1 .. k - 1
      BY <3>1
    <3> QED BY <1>1, <3>2 DEF k
  <2> QED BY <2>1, <2>2
<1>4. \A c \in A : \A u \in 1 .. c[2] : <<c[1], u>> \in Allocated \cup A
  BY <1>3
<1> QED BY <1>1, <1>2, <1>4 DEF UseClosed

-----------------------------------------------------------------------------
(* The invariant. *)

\* When no call needed care but for the test of ids: inheritance and all lists
\* are right, what is not there has nothing, and each class is of an open file.
Consistent ==
    /\ Sound(classes, supers, lists)
    /\ \A c \in Class \ Live : supers[c] = <<>> /\ lists[c] = NoLists
    /\ doomed = {} /\ freed \subseteq Class \ Live
    /\ UseClosed(Allocated)
    /\ file \in [Class -> File \cup {NoFile}] /\ \A c \in Live : file[c] \in open
    /\ open \subseteq File /\ active \in open \cup {NoFile}
    /\ "testIds" \notin Careless => \A c \in Class : lists[c].kin = {}
SchemaInv == setup \in Setups /\ (Careless \subseteq {"testIds"} => Consistent)

\* Without classes there is nothing that could be wrong.
LEMMA NothingSound ==
  ASSUME NEW cs, cs = [n \in Name |-> NoClass], NEW sup, sup \in [Class -> Seq(Name)],
         NEW l \in [Class -> Lists]
  PROVE  Sound(cs, sup, l) /\ There(cs) = {}
<1>1. There(cs) = {} /\ Known(cs) = {} /\ ClassesOK(cs)
  BY DEF There, Known, ClassesOK
<1>2. \A n \in Name : Graph(cs, sup)[n] = {}
  BY DEF Graph
<1>3. SupersOK(cs, sup) /\ ~Circle(Graph(cs, sup))
  BY <1>2 DEF SupersOK, Circle
<1> QED BY <1>1, <1>3 DEF Sound, Right

\* The lists of a class that is not there.
LEMMA NoListsType == NoLists \in Lists /\ NoLists.kin = {} /\ NoLists.props = {}
BY DEF NoLists, Lists

\* A kernel without classes is consistent.
LEMMA InitConsistent ==
  ASSUME Init
  PROVE  SchemaInv
<1>1. lists \in [Class -> Lists] /\ supers \in [Class -> Seq(Name)]
  BY NoListsType DEF Init
<1>2. Sound(classes, supers, lists) /\ There(classes) = {}
  <2>1. classes = [n \in Name |-> NoClass]
    BY DEF Init
  <2> QED BY <1>1, <2>1, NothingSound
<1>3. \A c \in Class : supers[c] = <<>> /\ lists[c] = NoLists /\ lists[c].kin = {}
  BY NoListsType DEF Init
<1>4. doomed = {} /\ freed = {} /\ open = {} /\ active = NoFile /\ file \in [Class -> File \cup {NoFile}]
      /\ setup \in Setups
  BY DEF Init
<1>5. UseClosed(Allocated)
  BY <1>2, <1>4 DEF UseClosed, Allocated, Live
<1> QED BY <1>2, <1>3, <1>4, <1>5 DEF SchemaInv, Consistent, Live

-----------------------------------------------------------------------------
(* Changes of super-classes keep the invariant. *)

\* registrate_class_change after a change that closes no circle.
LEMMA SupersChanged ==
  ASSUME Consistent, NEW c \in Live, NEW s, ChangeSupers(c, s),
         SupersOK(classes, supers'), ~Circle(Graph(classes, supers'))
  PROVE  Consistent'
<1>1. Sound(classes, supers, lists) /\ doomed = {} /\ supers \in [Class -> Seq(Name)]
  BY DEF Consistent, Sound, SupersOK
<1>2. /\ supers' = [supers EXCEPT ![c] = s] /\ lists' = RegistrateClassChange(classes, supers', lists, c)
      /\ classes' = classes /\ file' = file /\ doomed' = doomed /\ freed' = freed /\ open' = open
      /\ active' = active /\ setup' = setup
  BY DEF ChangeSupers
<1>3. \A d \in Class \ {c} : supers'[d] = supers[d]
  BY <1>1, <1>2
<1>4. c \in There(classes)
  BY DEF Live
<1>5. Sound(classes, supers', lists') /\ OthersKept(classes, lists, lists')
  BY <1>1, <1>2, <1>3, <1>4, ClassChangeParts
<1>6. \A d \in Class \ Live : supers'[d] = <<>> /\ lists'[d] = NoLists
  BY <1>3, <1>5 DEF OthersKept, Consistent, Live
<1>7. Live' = Live /\ Allocated' = Allocated /\ Careless' = Careless
  BY <1>2 DEF Live, Allocated, Careless
<1>8. "testIds" \notin Careless => \A d \in Class : lists'[d].kin = {}
  BY <1>5 DEF OthersKept, Consistent
<1>9. (Sound(classes, supers, lists))'
  BY <1>2, <1>5
<1>10. UseClosed(Allocated)'
  BY <1>7 DEF Consistent, UseClosed
<1> QED BY <1>2, <1>6, <1>7, <1>8, <1>9, <1>10 DEF Consistent

\* The super-classes of a class that is there, in the graph.
LEMMA GraphChanged ==
  ASSUME Sound(classes, supers, lists), NEW c \in There(classes), NEW new \in [Class -> Seq(Name)],
         \A d \in Class \ {c} : new[d] = supers[d]
  PROVE  /\ NameOf(c) \in Name /\ Graph(classes, new)[NameOf(c)] = ToSet(new[c])
         /\ \A n \in Name \ {NameOf(c)} : Graph(classes, new)[n] = Graph(classes, supers)[n]
<1>1. ClassesOK(classes)
  BY DEF Sound
<1>2. NameOf(c) \in Name /\ classes[NameOf(c)] = c /\ c # NoClass
  BY <1>1, ThereParts DEF Known, There
<1>3. \A n \in Name \ {NameOf(c)} : classes[n] = NoClass \/ classes[n] \in Class \ {c}
  BY <1>1 DEF ClassesOK
<1>4. Graph(classes, new)[NameOf(c)] = ToSet(new[c])
  BY <1>2 DEF Graph
<1>5. \A n \in Name \ {NameOf(c)} : Graph(classes, new)[n] = Graph(classes, supers)[n]
  BY <1>3 DEF Graph
<1> QED BY <1>2, <1>4, <1>5

\* The other super-classes stay: there is no new circle.
LEMMA FewerSupers ==
  ASSUME Sound(classes, supers, lists), NEW c \in There(classes), NEW new \in [Class -> Seq(Name)],
         \A d \in Class \ {c} : new[d] = supers[d], ToSet(new[c]) \subseteq ToSet(supers[c])
  PROVE  SupersOK(classes, new) /\ ~Circle(Graph(classes, new))
<1> DEFINE D == Graph(classes, supers)
           E == Graph(classes, new)
<1>1. ClassesOK(classes) /\ SupersOK(classes, supers) /\ ~Circle(D)
  BY DEF Sound
<1>2. D[NameOf(c)] = ToSet(supers[c])
  BY <1>1, GraphParts
<1>3. NameOf(c) \in Name /\ E[NameOf(c)] = ToSet(new[c]) /\ \A n \in Name \ {NameOf(c)} : E[n] = D[n]
  BY GraphChanged
<1>4. \A n \in Name : D[n] \subseteq Known(classes)
  BY <1>1 DEF SupersOK
<1> HIDE DEF D, E
<1>5. \A n \in Name : E[n] \subseteq D[n]
  BY <1>2, <1>3
<1>6. ~Circle(E)
  BY <1>1, <1>5, NoCircleFewer
<1> QED BY <1>4, <1>5, <1>6 DEF SupersOK, E

\* add_super_class: the list of the new super-class tells that it does not reach c.
LEMMA AddKeeps ==
  ASSUME Consistent, Careless \subseteq {"testIds"}, NEW c \in Live, NEW n \in Name, AddSuperClass(c, n)
  PROVE  Consistent'
<1> DEFINE D == Graph(classes, supers)
           E == Graph(classes, supers')
           k == NameOf(c)
           d == classes[n]
<1>1. Sound(classes, supers, lists) /\ ClassesOK(classes) /\ SupersOK(classes, supers) /\ ~Circle(D)
      /\ Right(classes, supers, lists) /\ supers \in [Class -> Seq(Name)]
  BY DEF Consistent, Sound, SupersOK
<1>2. /\ c \in There(classes) /\ c \in Class /\ k \in Name
      /\ \A m \in Known(classes) : m \in Name /\ classes[m] \in There(classes) /\ NameOf(classes[m]) = m
      /\ \A e \in There(classes) : NameOf(e) \in Known(classes) /\ classes[NameOf(e)] = e
  BY <1>1, ThereParts DEF Live, Known
<1>3. n # k /\ d # NoClass /\ ChangeSupers(c, Append(supers[c], n))
      /\ (\A e \in ToSet(lists[d].up) : NameOf(e) # k)
  BY DEF AddSuperClass, MayInherit
<1>4. n \in Known(classes) /\ d \in There(classes) /\ NameOf(d) = n
  BY <1>2, <1>3 DEF Known
<1>5. supers' \in [Class -> Seq(Name)] /\ supers'[c] = Append(supers[c], n)
      /\ \A e \in Class \ {c} : supers'[e] = supers[e]
  <2>1. supers' = [supers EXCEPT ![c] = Append(supers[c], n)]
    BY <1>3 DEF ChangeSupers
  <2>2. Append(supers[c], n) \in Seq(Name)
    BY <1>1, <1>2
  <2> QED BY <1>1, <1>2, <2>1, <2>2
<1>6. ToSet(supers'[c]) = ToSet(supers[c]) \cup {n}
  <2> DEFINE s == supers[c]
             t == Append(s, n)
  <2>1. s \in Seq(Name)
    BY <1>1, <1>2
  <2> HIDE DEF s
  <2>2. DOMAIN t = 1 .. Len(s) + 1 /\ t[Len(s) + 1] = n /\ (\A i \in 1 .. Len(s) : t[i] = s[i])
        /\ DOMAIN s = 1 .. Len(s) /\ Len(s) \in Nat
    BY <2>1
  <2> HIDE DEF t
  <2>3. \A i \in 1 .. Len(s) + 1 : i \in 1 .. Len(s) \/ i = Len(s) + 1
    BY <2>2
  <2>4. ToSet(t) = ToSet(s) \cup {n}
    BY <2>2, <2>3 DEF ToSet
  <2> QED BY <1>5, <2>4 DEF s, t
<1>7. E[k] = D[k] \cup {n} /\ \A m \in Name \ {k} : E[m] = D[m]
  <2>1. E[k] = ToSet(supers'[c]) /\ \A m \in Name \ {k} : E[m] = D[m]
    BY <1>1, <1>2, <1>5, GraphChanged
  <2>2. D[k] = ToSet(supers[c])
    BY <1>1, <1>2, GraphParts
  <2> QED BY <1>6, <2>1, <2>2
<1>8. k \notin Reach(D, n)
  <2>1. Exact(classes, supers, lists, d)
    BY <1>1, <1>4, RightParts
  <2>2. c \in ToSet(lists[d].up) <=> k \in Reach(D, n)
    BY <1>1, <1>2, <1>4, <2>1, InUp
  <2> QED BY <1>3, <2>2
<1>9. \A m \in Name : D[m] \subseteq Known(classes)
  BY <1>1 DEF SupersOK
<1>10. SupersOK(classes, supers')
  <2>1. \A m \in Name : E[m] \subseteq Known(classes)
    BY <1>4, <1>7, <1>9
  <2> QED BY <1>5, <2>1 DEF SupersOK
<1>11. IsGraph(D) /\ IsGraph(E)
  BY <1>1, <1>10, GraphParts
<1> HIDE DEF D, E, k, d
<1>12. ~Circle(E)
  <2>1. k \in Name /\ n \in Name \ {k} /\ E[k] \subseteq D[k] \cup {n}
    BY <1>2, <1>3, <1>7
  <2> QED BY <1>1, <1>7, <1>8, <1>11, <2>1, NoCircleAdded
<1> QED BY <1>3, <1>10, <1>12, SupersChanged DEF E

\* remove_super_class takes a super-class away.
LEMMA RemoveKeeps ==
  ASSUME Consistent, NEW c \in Live, NEW n \in Name, RemoveSuperClass(c, n)
  PROVE  Consistent'
<1> DEFINE s == supers[c]
           K == {i \in DOMAIN s : s[i] # n}
           t == Only(s, K)
<1>1. Sound(classes, supers, lists) /\ ClassesOK(classes) /\ supers \in [Class -> Seq(Name)]
  BY DEF Consistent, Sound, SupersOK
<1>2. c \in There(classes) /\ c \in Class
  BY <1>1, ThereParts DEF Live
<1>3. ChangeSupers(c, t)
  BY DEF RemoveSuperClass
<1>4. s \in Seq(Name)
  BY <1>1, <1>2
<1>5. t \in Seq(Name) /\ ToSet(t) \subseteq ToSet(s)
  <2> HIDE DEF s
  <2>1. K \in SUBSET DOMAIN s
    OBVIOUS
  <2> HIDE DEF K
  <2>2. t \in Seq(Name) /\ ToSet(t) = {s[i] : i \in K}
    BY <1>4, <2>1, OnlyElements
  <2> QED BY <2>1, <2>2 DEF ToSet
<1> HIDE DEF t
<1>6. supers' \in [Class -> Seq(Name)] /\ supers'[c] = t /\ \A e \in Class \ {c} : supers'[e] = supers[e]
  BY <1>1, <1>2, <1>3, <1>5 DEF ChangeSupers
<1>7. SupersOK(classes, supers') /\ ~Circle(Graph(classes, supers'))
  BY <1>1, <1>2, <1>5, <1>6, FewerSupers
<1> QED BY <1>3, <1>7, SupersChanged

\* swap_super_classes has the same super-classes in another order.
LEMMA SwapKeeps ==
  ASSUME Consistent, NEW c \in Live, NEW i \in DOMAIN supers[c], NEW j \in DOMAIN supers[c],
         SwapSuperClasses(c, i, j)
  PROVE  Consistent'
<1> DEFINE s == supers[c]
           t == [s EXCEPT ![i] = s[j], ![j] = s[i]]
<1>1. Sound(classes, supers, lists) /\ ClassesOK(classes) /\ supers \in [Class -> Seq(Name)]
  BY DEF Consistent, Sound, SupersOK
<1>2. c \in There(classes) /\ c \in Class
  BY <1>1, ThereParts DEF Live
<1>3. ChangeSupers(c, t)
  BY DEF SwapSuperClasses
<1>4. s \in Seq(Name) /\ i \in DOMAIN s /\ j \in DOMAIN s
  BY <1>1, <1>2
<1>5. t \in Seq(Name) /\ ToSet(t) \subseteq ToSet(s)
  <2> HIDE DEF s
  <2>1. DOMAIN t = DOMAIN s /\ \A k \in DOMAIN s : t[k] \in {s[i], s[j], s[k]}
    OBVIOUS
  <2>2. t \in Seq(Name)
    BY <1>4
  <2> HIDE DEF t
  <2> QED BY <1>4, <2>1, <2>2 DEF ToSet
<1> HIDE DEF t
<1>6. supers' \in [Class -> Seq(Name)] /\ supers'[c] = t /\ \A e \in Class \ {c} : supers'[e] = supers[e]
  BY <1>1, <1>2, <1>3, <1>5 DEF ChangeSupers
<1>7. SupersOK(classes, supers') /\ ~Circle(Graph(classes, supers'))
  BY <1>1, <1>2, <1>5, <1>6, FewerSupers
<1> QED BY <1>3, <1>7, SupersChanged


-----------------------------------------------------------------------------
(* Creation, destruction and schema files keep the invariant. *)

\* A new class has a new address and no super-classes.
LEMMA NewClassKeeps ==
  ASSUME SchemaInv, Consistent, NEW n \in Name, NewClass(n)
  PROVE  Consistent'
<1> DEFINE c == <<n, NextUse(n)>>
           D == Graph(classes, supers)
           E == Graph(classes', supers)
           st == RegistrateAllClasses(classes', supers, lists, FALSE)
<1>1. Sound(classes, supers, lists) /\ ClassesOK(classes) /\ SupersOK(classes, supers) /\ ~Circle(D)
      /\ Right(classes, supers, lists) /\ supers \in [Class -> Seq(Name)] /\ lists \in [Class -> Lists]
  BY DEF Consistent, Sound, SupersOK, Right
<1>2. /\ active # NoFile /\ classes[n] = NoClass /\ NextUse(n) <= setup.uses[n]
      /\ classes' = [classes EXCEPT ![n] = c]
      /\ lists' = st.lists /\ file' = [file EXCEPT ![c] = active]
      /\ freed' = IF st.ok THEN freed ELSE freed \cup {c}
      /\ supers' = supers /\ doomed' = doomed /\ open' = open /\ active' = active /\ setup' = setup
  BY DEF NewClass
<1>3. UseClosed(Allocated)
  BY DEF Consistent
<1>4. c \in Class /\ NameOf(c) = n
  <2>1. NextUse(n) \in Nat \ {0}
    BY <1>3, NextUseParts
  <2>2. setup.uses[n] \in 0 .. MaxUse /\ MaxUse \in Nat
    BY SchemaAssumption DEF SchemaInv
  <2> DEFINE k == NextUse(n)
  <2>3. k \in Nat \ {0} /\ k <= setup.uses[n]
    BY <1>2, <2>1
  <2> HIDE DEF k
  <2>4. k \in 1 .. MaxUse
    BY <2>2, <2>3
  <2> QED BY <2>4 DEF k, Class, NameOf
<1>5. UseClosed(Allocated \cup {c}) /\ c \notin Allocated
  <2> DEFINE N == {n}
             A == {<<m, NextUse(m)>> : m \in N}
  <2>1. A = {c} /\ N \in SUBSET Name
    OBVIOUS
  <2>2. A \in SUBSET Class
    BY <1>4, <2>1
  <2>3. A = {<<m, NextUse(m)>> : m \in N}
    OBVIOUS
  <2> HIDE DEF A, N
  <2>4. UseClosed(Allocated \cup A) /\ A \cap Allocated = {}
    BY <1>3, <2>1, <2>2, <2>3, UsesGrow
  <2> QED BY <2>1, <2>4
<1>6. c \notin Live /\ c \notin freed /\ c \in Class \ Live
  BY <1>4, <1>5 DEF Allocated
<1> HIDE DEF c, st
<1>7. ClassesOK(classes') /\ \A m \in Name : classes'[m] = IF m = n THEN c ELSE classes[m]
  <2>1. classes \in [Name -> Class \cup {NoClass}]
    BY <1>1 DEF ClassesOK
  <2>2. classes' \in [Name -> Class \cup {NoClass}]
        /\ \A m \in Name : classes'[m] = IF m = n THEN c ELSE classes[m]
    BY <1>2, <1>4, <2>1
  <2> QED BY <1>1, <1>4, <2>2 DEF ClassesOK
<1>8. There(classes') = There(classes) \cup {c} /\ Known(classes') = Known(classes) \cup {n}
  <2>1. c # NoClass
    BY <1>4, SchemaAssumption
  <2> QED BY <1>2, <1>7, <2>1 DEF There, Known
<1>9. supers[c] = <<>> /\ lists[c] = NoLists
  BY <1>6 DEF Consistent
<1>10. \A m \in Name : E[m] = D[m]
  <2> TAKE m \in Name
  <2>1. CASE m = n
    <3>1. classes'[m] = c /\ classes[m] = NoClass
      BY <1>2, <1>7, <2>1
    <3>2. ToSet(supers[c]) = {}
      BY <1>9 DEF ToSet
    <3> QED BY <3>1, <3>2 DEF Graph
  <2>2. CASE m # n
    <3>1. classes'[m] = classes[m]
      BY <1>7, <2>2
    <3> QED BY <3>1 DEF Graph
  <2> QED BY <2>1, <2>2
<1>11. SupersOK(classes', supers) /\ ~Circle(E)
  <2>1. \A m \in Name : D[m] \subseteq Known(classes)
    BY <1>1 DEF SupersOK
  <2>2. \A m \in Name : E[m] \subseteq Known(classes')
    BY <1>8, <1>10, <2>1
  <2>3. \A m \in Name : E[m] \subseteq D[m]
    BY <1>10
  <2> HIDE DEF D, E
  <2>4. ~Circle(E)
    BY <1>1, <2>3, NoCircleFewer
  <2> QED BY <1>1, <2>2, <2>4 DEF SupersOK, E
<1>12. /\ st.ok = TRUE /\ Right(classes', supers, st.lists)
       /\ "testIds" \notin Careless => \A d \in Class : st.lists[d].kin = lists[d].kin
       /\ \A d \in Class \ There(classes') : st.lists[d] = lists[d]
  <2>1. st = RegistrateAllClasses(classes', supers, lists, FALSE)
    BY DEF st
  <2>2. Registrated(classes', supers, lists, st)
    BY <1>1, <1>7, <1>11, <2>1, RegistrateAllParts
  <2> QED BY <2>2 DEF Registrated
<1>13. Sound(classes, supers, lists)'
  BY <1>2, <1>7, <1>11, <1>12 DEF Sound
<1>14. Live' = Live \cup {c} /\ freed' = freed /\ Allocated' = Allocated \cup {c} /\ Careless' = Careless
  BY <1>2, <1>8, <1>12 DEF Live, Allocated, Careless
<1>15. \A d \in Class \ Live' : supers'[d] = <<>> /\ lists'[d] = NoLists
  BY <1>2, <1>8, <1>12, <1>14 DEF Consistent, Live
<1>16. doomed' = {} /\ freed' \subseteq Class \ Live'
  BY <1>2, <1>6, <1>14 DEF Consistent
<1>17. UseClosed(Allocated')
  BY <1>5, <1>14
<1>18. file' \in [Class -> File \cup {NoFile}] /\ \A d \in Live' : file'[d] \in open'
  <2>1. active \in open /\ active \in File
    BY <1>2 DEF Consistent
  <2>2. file \in [Class -> File \cup {NoFile}] /\ \A d \in Live : file[d] \in open
    BY DEF Consistent
  <2>3. file' \in [Class -> File \cup {NoFile}]
    BY <1>2, <2>1, <2>2
  <2>4. \A d \in Class : file'[d] = IF d = c THEN active ELSE file[d]
    BY <1>2, <2>2
  <2>5. Live' \subseteq Class
    BY <1>7, <1>8, ThereParts DEF Live
  <2> QED BY <1>2, <1>14, <2>1, <2>2, <2>3, <2>4, <2>5
<1>19. open' \subseteq File /\ active' \in open' \cup {NoFile}
  BY <1>2 DEF Consistent
<1>20. "testIds" \notin Careless' => \A d \in Class : lists'[d].kin = {}
  BY <1>2, <1>12, <1>14 DEF Consistent
<1> QED BY <1>13, <1>15, <1>16, <1>17, <1>18, <1>19, <1>20 DEF Consistent, UseClosed

\* A class that nobody inherits from is destroyed.
LEMMA DestroyKeeps ==
  ASSUME Consistent, Careless \subseteq {"testIds"}, NEW c \in Live, Destroy(c)
  PROVE  Consistent'
<1>1. Sound(classes, supers, lists) /\ ClassesOK(classes) /\ supers \in [Class -> Seq(Name)] /\ doomed = {}
  BY DEF Consistent, Sound, SupersOK
<1>2. /\ \A d \in Live : ~Contains(supers[d], NameOf(c))
      /\ classes' = [classes EXCEPT ![NameOf(c)] = NoClass]
      /\ lists' = AfterDestruction(classes', c)
      /\ doomed' = doomed \ {c}
      /\ supers' = [d \in Class |-> IF d \in {c} THEN <<>> ELSE supers[d]]
      /\ file' = [d \in Class |-> IF d \in {c} THEN NoFile ELSE file[d]]
      /\ freed' = freed \cup {c}
      /\ open' = open /\ active' = active /\ setup' = setup
  BY DEF Destroy, Forget
<1>3. c \in There(classes) /\ There(classes) \subseteq Class /\ c \in Class
  BY <1>1, ThereParts DEF Live
<1>4. \A d \in There(classes) : NameOf(c) \notin ToSet(supers[d])
  <2> TAKE d \in There(classes)
  <2>1. supers[d] \in Seq(Name) /\ ~Contains(supers[d], NameOf(c))
    BY <1>1, <1>2, <1>3 DEF Live
  <2> QED BY <2>1 DEF Contains, ToSet
<1>5. /\ Sound(classes', supers', lists') /\ There(classes') = There(classes) \ {c} /\ lists'[c] = NoLists
      /\ \A d \in Class \ There(classes) : lists'[d] = lists[d]
      /\ \A d \in Class \ {c} : lists'[d].kin = lists[d].kin
  <2>1. Destroyed(c, classes', supers', lists')
    BY <1>1, <1>2, <1>3, <1>4, DestructionParts
  <2> QED BY <2>1 DEF Destroyed
<1>6. Live' = Live \ {c} /\ Allocated' = Allocated /\ Careless' = Careless
  BY <1>2, <1>5 DEF Live, Allocated, Careless
<1>7. \A d \in Class \ Live' : supers'[d] = <<>> /\ lists'[d] = NoLists
  <2> TAKE d \in Class \ Live'
  <2>1. CASE d = c
    BY <1>2, <1>5, <2>1
  <2>2. CASE d # c
    <3>1. d \in Class \ Live
      BY <1>6, <2>2
    <3> QED BY <1>2, <1>5, <2>2, <3>1 DEF Consistent, Live
  <2> QED BY <2>1, <2>2
<1>8. doomed' = {} /\ freed' \subseteq Class \ Live'
  BY <1>1, <1>2, <1>3, <1>6 DEF Consistent
<1>9. UseClosed(Allocated')
  BY <1>6 DEF Consistent
<1>10. file' \in [Class -> File \cup {NoFile}] /\ \A d \in Live' : file'[d] \in open'
  <2>1. file \in [Class -> File \cup {NoFile}] /\ \A d \in Live : file[d] \in open
    BY DEF Consistent
  <2>2. Live \subseteq Class
    BY <1>3 DEF Live
  <2> QED BY <1>2, <1>6, <2>1, <2>2
<1>11. open' \subseteq File /\ active' \in open' \cup {NoFile}
  BY <1>2 DEF Consistent
<1>12. "testIds" \notin Careless' => \A d \in Class : lists'[d].kin = {}
  <2>1. NoLists.kin = {}
    BY NoListsType
  <2> QED BY <1>5, <1>6, <2>1 DEF Consistent
<1> QED BY <1>5, <1>7, <1>8, <1>9, <1>10, <1>11, <1>12 DEF Consistent, UseClosed

\* Files that have all classes are closed.
LEMMA CloseKeeps ==
  ASSUME Consistent, NEW F, Close(F), lists' = KeptLists, setup' = setup, \A c \in Live : file[c] \in F
  PROVE  Consistent'
<1> DEFINE D == {c \in Live : file[c] \in F}
<1>1. D = Live
  OBVIOUS
<1>2. /\ classes' = [n \in Name |-> IF classes[n] \in Live THEN NoClass ELSE classes[n]]
      /\ supers' = [c \in Class |-> IF c \in Live THEN <<>> ELSE supers[c]]
      /\ file' = [c \in Class |-> IF c \in Live THEN NoFile ELSE file[c]]
      /\ freed' = freed \cup Live /\ doomed' = Live \ Live
      /\ open' = open \ F /\ active' = IF active \in F THEN NoFile ELSE active
  BY <1>1 DEF Close, Forget
<1>3. classes' = [n \in Name |-> NoClass]
  <2>1. \A n \in Name : classes[n] \in Live \/ classes[n] = NoClass
    BY DEF Live, There
  <2> QED BY <1>2, <2>1
<1>4. Sound(classes, supers, lists) /\ ClassesOK(classes) /\ lists \in [Class -> Lists]
      /\ supers \in [Class -> Seq(Name)]
  BY DEF Consistent, Sound, SupersOK, Right
<1>5. Live \subseteq Class /\ \A c \in Live : NameOf(c) \in Name
  BY <1>4, ThereParts DEF Live, Known
<1>6. \A c \in Class : supers'[c] = <<>> /\ lists'[c] = NoLists
  <2> TAKE c \in Class
  <2>1. CASE c \in Live
    <3>1. classes'[NameOf(c)] = NoClass
      BY <1>3, <1>5, <2>1
    <3> QED BY <1>2, <2>1, <3>1 DEF KeptLists
  <2>2. CASE c \notin Live
    <3>1. supers[c] = <<>> /\ lists[c] = NoLists
      BY <2>2 DEF Consistent
    <3> QED BY <1>2, <2>2, <3>1 DEF KeptLists
  <2> QED BY <2>1, <2>2
<1>7. lists' \in [Class -> Lists] /\ supers' \in [Class -> Seq(Name)]
  <2>1. lists' = [c \in Class |-> lists'[c]]
    BY DEF KeptLists
  <2>2. supers' = [c \in Class |-> supers'[c]]
    BY <1>2
  <2>3. <<>> \in Seq(Name) /\ NoLists \in Lists
    BY NoListsType
  <2> QED BY <1>6, <2>1, <2>2, <2>3
<1>8. Sound(classes', supers', lists') /\ There(classes') = {}
  BY <1>3, <1>7, NothingSound
<1>9. Live' = {} /\ Allocated' = Allocated /\ Careless' = Careless
  BY <1>2, <1>8 DEF Live, Allocated, Careless
<1>10. UseClosed(Allocated')
  BY <1>9 DEF Consistent
<1>11. doomed' = {} /\ freed' \subseteq Class \ Live'
  BY <1>2, <1>5, <1>9 DEF Consistent
<1>12. file' \in [Class -> File \cup {NoFile}]
  BY <1>2 DEF Consistent
<1>13. open' \subseteq File /\ active' \in open' \cup {NoFile}
  BY <1>2 DEF Consistent
<1>14. \A c \in Class : lists'[c].kin = {}
  BY <1>6, NoListsType
<1> QED BY <1>6, <1>8, <1>9, <1>10, <1>11, <1>12, <1>13, <1>14 DEF Consistent, UseClosed

\* What load_schema makes of the classes that are new.
Fresh(f) == {d \in Readable(f).defs : classes[d.name] = NoClass}

\* The new classes of a file that fits: their super-classes are there or are new too.
LEMMA FitsParts ==
  ASSUME SchemaInv, NEW f \in File, Fits(f)
  PROVE  /\ Readable(f).ok
         /\ \A d \in Fresh(f) : d.name \in Name /\ d.supers \in Seq(Name)
         /\ \A d \in Fresh(f) : \A n \in ToSet(d.supers) :
               classes[n] # NoClass \/ \E e \in Fresh(f) : e.name = n
         /\ ~ \E S \in SUBSET {d.name : d \in Fresh(f)} :
               S # {} /\ \A n \in S : \E d \in Fresh(f) : d.name = n /\ ToSet(d.supers) \cap S # {}
<1> DEFINE defs == setup.content[f]
           I == DOMAIN defs
           names == {defs[i].name : i \in I}
<1>1. \A i \in I : defs[i].name \in Name /\ defs[i].supers \in Seq(Name)
  BY SchemaAssumption DEF SchemaInv
<1>2. Readable(f).ok /\ Readable(f).defs = {defs[k] : k \in I}
  <2>1. Readable(f).ok
    BY DEF Fits
  <2> QED BY <2>1 DEF Readable
<1>3. \A i \in I : \A n \in ToSet(defs[i].supers) : n \in names \/ classes[n] # NoClass
  BY DEF Fits
<1>4. ~ \E S \in (SUBSET names) \ {{}} : \A n \in S :
         \E i \in I : defs[i].name = n /\ ToSet(defs[i].supers) \cap S # {}
  BY DEF Fits
<1> HIDE DEF defs, I
<1>5. \A d : d \in Fresh(f) <=> \E i \in I : d = defs[i] /\ classes[d.name] = NoClass
  BY <1>2 DEF Fresh
<1>6. \A d \in Fresh(f) : d.name \in Name /\ d.supers \in Seq(Name)
  BY <1>1, <1>5
<1>7. ASSUME NEW d \in Fresh(f), NEW n \in ToSet(d.supers), classes[n] = NoClass
      PROVE  \E e \in Fresh(f) : e.name = n
  <2>1. PICK i \in I : d = defs[i]
    BY <1>5
  <2>2. n \in names
    BY <1>3, <1>7, <2>1
  <2>3. PICK j \in I : defs[j].name = n
    BY <2>2
  <2> QED BY <1>5, <1>7, <2>3
<1>8. ASSUME NEW S \in SUBSET {d.name : d \in Fresh(f)}, S # {},
             \A n \in S : \E d \in Fresh(f) : d.name = n /\ ToSet(d.supers) \cap S # {}
      PROVE  FALSE
  <2>1. {d.name : d \in Fresh(f)} \subseteq names
    <3> SUFFICES ASSUME NEW d \in Fresh(f) PROVE d.name \in names
      OBVIOUS
    <3>1. PICK i \in I : d = defs[i]
      BY <1>5
    <3> QED BY <3>1
  <2>2. S \in (SUBSET names) \ {{}}
    BY <1>8, <2>1
  <2>3. \A n \in S : \E i \in I : defs[i].name = n /\ ToSet(defs[i].supers) \cap S # {}
    <3> TAKE n \in S
    <3>1. PICK d \in Fresh(f) : d.name = n /\ ToSet(d.supers) \cap S # {}
      BY <1>8
    <3> QED BY <1>5, <3>1
  <2> QED BY <1>4, <2>2, <2>3
<1> QED BY <1>2, <1>6, <1>7, <1>8

\* load_schema of a file that fits.
LEMMA LoadKeeps ==
  ASSUME SchemaInv, Consistent, Careless \subseteq {"testIds"}, NEW f \in File, LoadSchema(f)
  PROVE  Consistent'
<1> DEFINE new == {<<d.name, NextUse(d.name)>> : d \in Fresh(f)}
           N == {d.name : d \in Fresh(f)}
           D == Graph(classes, supers)
           E == Graph(classes', supers')
           st == RegistrateAllClasses(classes', supers', lists, TRUE)
           def(c) == CHOOSE d \in Fresh(f) : d.name = NameOf(c)
<1>1. Sound(classes, supers, lists) /\ ClassesOK(classes) /\ SupersOK(classes, supers) /\ ~Circle(D)
      /\ Right(classes, supers, lists) /\ supers \in [Class -> Seq(Name)] /\ lists \in [Class -> Lists]
  BY DEF Consistent, Sound, SupersOK, Right
<1>2. Fits(f)
  BY DEF LoadSchema
<1>3. /\ Readable(f).ok
      /\ \A d \in Fresh(f) : d.name \in Name /\ d.supers \in Seq(Name)
      /\ \A d \in Fresh(f) : \A n \in ToSet(d.supers) :
            classes[n] # NoClass \/ \E e \in Fresh(f) : e.name = n
      /\ ~ \E S \in SUBSET {d.name : d \in Fresh(f)} :
            S # {} /\ \A n \in S : \E d \in Fresh(f) : d.name = n /\ ToSet(d.supers) \cap S # {}
  BY <1>2, FitsParts
<1>4. /\ \A c \in new : c[2] <= setup.uses[NameOf(c)]
      /\ classes' = [n \in Name |-> IF \E c \in new : NameOf(c) = n THEN <<n, NextUse(n)>> ELSE classes[n]]
      /\ supers' = [c \in Class |-> IF c \in new THEN def(c).supers ELSE supers[c]]
      /\ file' = [c \in Class |-> IF c \in new THEN f ELSE file[c]]
      /\ lists' = st.lists
      /\ open' = open \cup {f} /\ doomed' = doomed /\ freed' = freed /\ active' = active /\ setup' = setup
  BY <1>3 DEF LoadSchema, Fresh
<1>5. N \subseteq Name /\ new = {<<n, NextUse(n)>> : n \in N} /\ \A n \in N : classes[n] = NoClass
  <2>1. N \subseteq Name
    BY <1>3
  <2>2. \A n \in N : classes[n] = NoClass
    BY DEF Fresh
  <2> QED BY <2>1, <2>2
<1>6. UseClosed(Allocated)
  BY DEF Consistent
<1>7. \A n \in N : <<n, NextUse(n)>> \in Class /\ NameOf(<<n, NextUse(n)>>) = n
  <2> TAKE n \in N
  <2> DEFINE k == NextUse(n)
  <2>1. k \in Nat \ {0} /\ n \in Name
    BY <1>5, <1>6, NextUseParts
  <2>2. setup.uses[n] \in 0 .. MaxUse /\ MaxUse \in Nat
    BY <2>1, SchemaAssumption DEF SchemaInv
  <2>3. <<n, k>> \in new /\ NameOf(<<n, k>>) = n /\ <<n, k>>[2] = k
    BY <1>5 DEF NameOf
  <2> HIDE DEF k
  <2>4. k <= setup.uses[n]
    BY <1>4, <2>3
  <2>5. k \in 1 .. MaxUse
    BY <2>1, <2>2, <2>4
  <2>6. <<n, k>> \in Class /\ NameOf(<<n, k>>) = n
    BY <2>1, <2>5 DEF Class, NameOf
  <2> QED BY <2>6 DEF k
<1>8. new \subseteq Class /\ (\A c \in new : NameOf(c) \in N /\ c = <<NameOf(c), NextUse(NameOf(c))>>)
      /\ \A n \in N : <<n, NextUse(n)>> \in new
  BY <1>5, <1>7 DEF NameOf
<1>9. UseClosed(Allocated \cup new) /\ new \cap Allocated = {}
  <2>1. N \in SUBSET Name /\ new \in SUBSET Class /\ new = {<<n, NextUse(n)>> : n \in N}
    BY <1>5, <1>8
  <2> HIDE DEF N, new
  <2> QED BY <1>6, <2>1, UsesGrow
<1>10. \A n \in N : \E d \in Fresh(f) : d.name = n
  OBVIOUS
<1>11. \A c \in new : def(c) \in Fresh(f) /\ def(c).name = NameOf(c)
  BY <1>8, <1>10
<1> HIDE DEF new, N, st
<1>12. \A n \in Name : classes'[n] = IF n \in N THEN <<n, NextUse(n)>> ELSE classes[n]
  <2>1. \A n \in Name : (\E c \in new : NameOf(c) = n) <=> n \in N
    BY <1>7, <1>8
  <2> QED BY <1>4, <2>1
<1>13. ClassesOK(classes')
  <2>1. classes \in [Name -> Class \cup {NoClass}]
    BY <1>1 DEF ClassesOK
  <2>2. \A n \in Name :
          classes'[n] \in Class \cup {NoClass} /\ (classes'[n] # NoClass => NameOf(classes'[n]) = n)
    BY <1>1, <1>7, <1>12, <2>1 DEF ClassesOK
  <2>3. classes' = [n \in Name |-> classes'[n]]
    BY <1>4
  <2> QED BY <2>2, <2>3 DEF ClassesOK
<1>14. /\ There(classes') = There(classes) \cup new /\ Known(classes') = Known(classes) \cup N
       /\ \A n \in Known(classes) : classes'[n] = classes[n]
  <2>1. \A n \in N : <<n, NextUse(n)>> # NoClass
    BY <1>7, SchemaAssumption
  <2>2. Known(classes') = Known(classes) \cup N
    BY <1>5, <1>12, <2>1 DEF Known
  <2>3. \A n \in Known(classes) : classes'[n] = classes[n]
    BY <1>5, <1>12 DEF Known
  <2>4. There(classes') \subseteq There(classes) \cup new
    BY <1>8, <1>12 DEF There
  <2>5. There(classes) \subseteq There(classes')
    BY <2>3 DEF There, Known
  <2>6. new \subseteq There(classes')
    BY <1>5, <1>8, <1>12, <2>1 DEF There
  <2> QED BY <2>2, <2>3, <2>4, <2>5, <2>6
<1>15. There(classes) \subseteq Class /\ new \cap There(classes) = {} /\ new \cap freed = {}
  BY <1>1, <1>9, ThereParts DEF Allocated, Live
<1>16. supers' \in [Class -> Seq(Name)] /\ (\A c \in Class \ new : supers'[c] = supers[c])
       /\ \A c \in new : supers'[c] = def(c).supers
  <2>1. \A c \in new : def(c).supers \in Seq(Name)
    BY <1>3, <1>11
  <2> HIDE DEF def
  <2> QED BY <1>1, <1>4, <1>8, <2>1
<1>17. ASSUME NEW n \in N
       PROVE  \E d \in Fresh(f) : d.name = n /\ E[n] = ToSet(d.supers)
  <2> DEFINE c == <<n, NextUse(n)>>
  <2>1. c \in new /\ NameOf(c) = n /\ c # NoClass /\ n \in Name /\ classes'[n] = c
    BY <1>5, <1>7, <1>8, <1>12, SchemaAssumption
  <2>2. E[n] = ToSet(supers'[c])
    BY <2>1 DEF Graph
  <2> HIDE DEF c, E
  <2>3. def(c) \in Fresh(f) /\ def(c).name = n /\ supers'[c] = def(c).supers
    BY <1>11, <1>16, <2>1
  <2> HIDE DEF def
  <2> QED BY <2>2, <2>3
<1>18. \A n \in Name \ N : E[n] = D[n] /\ E[n] \cap N = {} /\ E[n] \subseteq Known(classes)
  <2> TAKE n \in Name \ N
  <2>1. classes'[n] = classes[n]
    BY <1>12
  <2>2. classes[n] # NoClass => supers'[classes[n]] = supers[classes[n]]
    <3>1. classes[n] # NoClass => classes[n] \in There(classes)
      BY DEF There
    <3> QED BY <1>15, <1>16, <3>1
  <2>3. E[n] = D[n]
    BY <2>1, <2>2 DEF Graph
  <2>4. D[n] \subseteq Known(classes)
    BY <1>1 DEF SupersOK
  <2>5. Known(classes) \cap N = {}
    BY <1>5 DEF Known
  <2> QED BY <2>3, <2>4, <2>5
<1>19. \A n \in N : E[n] \subseteq Known(classes')
  <2> TAKE n \in N
  <2>1. PICK d \in Fresh(f) : d.name = n /\ E[n] = ToSet(d.supers)
    BY <1>17
  <2>2. ASSUME NEW m \in ToSet(d.supers) PROVE m \in Known(classes) \cup N
    <3>1. CASE classes[m] # NoClass
      <4>1. m \in Name
        BY <1>3 DEF ToSet
      <4> QED BY <3>1, <4>1 DEF Known
    <3>2. CASE \E e \in Fresh(f) : e.name = m
      BY <3>2 DEF N
    <3> QED BY <1>3, <3>1, <3>2
  <2> QED BY <1>14, <2>1, <2>2
<1>20. SupersOK(classes', supers')
  <2>1. \A n \in Name : E[n] \subseteq Known(classes')
    BY <1>14, <1>18, <1>19
  <2> QED BY <1>16, <2>1 DEF SupersOK
<1>21. IsGraph(D) /\ IsGraph(E)
  BY <1>1, <1>13, <1>20, GraphParts
<1> HIDE DEF D, E, def
<1>22. ~ \E S \in SUBSET N : S # {} /\ \A n \in S : E[n] \cap S # {}
  <2> SUFFICES ASSUME NEW S \in SUBSET N, S # {}, \A n \in S : E[n] \cap S # {} PROVE FALSE
    OBVIOUS
  <2>1. \A n \in S : \E d \in Fresh(f) : d.name = n /\ ToSet(d.supers) \cap S # {}
    BY <1>17
  <2> QED BY <1>3, <2>1 DEF N
<1>23. ~Circle(E)
  <2>1. N \in SUBSET Name
    BY <1>5
  <2> QED BY <1>1, <1>18, <1>21, <1>22, <2>1, NoCircleJoined
<1>24. \A c \in There(classes') \ There(classes) : lists[c] = NoLists
  BY <1>8, <1>14, <1>15 DEF Consistent, Live
<1>25. Kept(classes', supers', lists)
  <2>1. \A c \in There(classes) : supers'[c] = supers[c]
    BY <1>15, <1>16
  <2> QED BY <1>1, <1>13, <1>14, <1>20, <1>24, <2>1, GrownParts
<1>26. /\ Right(classes', supers', st.lists)
       /\ "testIds" \notin Careless => \A d \in Class : st.lists[d].kin = lists[d].kin
       /\ \A d \in Class \ There(classes') : st.lists[d] = lists[d]
  <2>1. st = RegistrateAllClasses(classes', supers', lists, TRUE)
    BY DEF st
  <2>2. ~Circle(Graph(classes', supers'))
    BY <1>23 DEF E
  <2>3. Registrated(classes', supers', lists, st)
    BY <1>1, <1>13, <1>20, <1>25, <2>1, <2>2, RegistrateAllParts
  <2> QED BY <2>3 DEF Registrated
<1>27. Sound(classes, supers, lists)'
  BY <1>4, <1>13, <1>20, <1>23, <1>26 DEF Sound, E
<1>28. Live' = Live \cup new /\ Allocated' = Allocated \cup new /\ Careless' = Careless
  BY <1>4, <1>14 DEF Live, Allocated, Careless
<1>29. \A d \in Class \ Live' : supers'[d] = <<>> /\ lists'[d] = NoLists
  <2> TAKE d \in Class \ Live'
  <2>1. d \in Class \ Live /\ d \notin new /\ d \notin There(classes')
    BY <1>28 DEF Live
  <2> QED BY <1>4, <1>16, <1>26, <2>1 DEF Consistent
<1>30. doomed' = {} /\ freed' \subseteq Class \ Live'
  BY <1>4, <1>15, <1>28 DEF Consistent
<1>31. file' \in [Class -> File \cup {NoFile}] /\ \A d \in Live' : file'[d] \in open'
  <2>1. file \in [Class -> File \cup {NoFile}] /\ \A d \in Live : file[d] \in open
    BY DEF Consistent
  <2>2. Live \subseteq Class
    BY <1>15 DEF Live
  <2> QED BY <1>4, <1>8, <1>28, <2>1, <2>2
<1>32. open' \subseteq File /\ active' \in open' \cup {NoFile}
  BY <1>4 DEF Consistent
<1>33. "testIds" \notin Careless' => \A d \in Class : lists'[d].kin = {}
  BY <1>4, <1>26, <1>28 DEF Consistent
<1>34. UseClosed(Allocated')
  BY <1>9, <1>28
<1> QED BY <1>27, <1>29, <1>30, <1>31, <1>32, <1>33, <1>34 DEF Consistent, UseClosed

\* new_schema makes all lists anew.
LEMMA NewSchemaKeeps ==
  ASSUME Consistent, NEW f \in File, NewSchema(f)
  PROVE  Consistent'
<1> DEFINE st == RegistrateAllClasses(classes, supers, lists, TRUE)
<1>1. Sound(classes, supers, lists) /\ ClassesOK(classes) /\ SupersOK(classes, supers)
      /\ ~Circle(Graph(classes, supers)) /\ Right(classes, supers, lists) /\ lists \in [Class -> Lists]
  BY DEF Consistent, Sound, Right
<1>2. /\ open' = open \cup {f} /\ active' = f /\ lists' = st.lists
      /\ classes' = classes /\ supers' = supers /\ file' = file /\ doomed' = doomed /\ freed' = freed
      /\ setup' = setup
  BY DEF NewSchema
<1>3. Kept(classes, supers, lists)
  BY <1>1, RightParts DEF Kept
<1>4. /\ Right(classes, supers, st.lists)
      /\ "testIds" \notin Careless => \A d \in Class : st.lists[d].kin = lists[d].kin
      /\ \A d \in Class \ There(classes) : st.lists[d] = lists[d]
  <2>1. st = RegistrateAllClasses(classes, supers, lists, TRUE)
    OBVIOUS
  <2> HIDE DEF st
  <2>2. Registrated(classes, supers, lists, st)
    BY <1>1, <1>3, <2>1, RegistrateAllParts
  <2> QED BY <2>2 DEF Registrated
<1> HIDE DEF st
<1>5. Sound(classes, supers, lists)'
  BY <1>1, <1>2, <1>4 DEF Sound
<1>6. Live' = Live /\ Allocated' = Allocated /\ Careless' = Careless
  BY <1>2 DEF Live, Allocated, Careless
<1>7. \A d \in Class \ Live' : supers'[d] = <<>> /\ lists'[d] = NoLists
  BY <1>2, <1>4, <1>6 DEF Consistent, Live
<1>8. "testIds" \notin Careless' => \A d \in Class : lists'[d].kin = {}
  BY <1>2, <1>4, <1>6 DEF Consistent
<1>9. UseClosed(Allocated')
  BY <1>6 DEF Consistent
<1> QED BY <1>2, <1>5, <1>6, <1>7, <1>8, <1>9 DEF Consistent, UseClosed

\* set_file moves a class to another open file.
LEMMA SetFileKeeps ==
  ASSUME Consistent, NEW c \in Live, NEW f \in open, SetFile(c, f)
  PROVE  Consistent'
<1>1. /\ file' = [file EXCEPT ![c] = f]
      /\ classes' = classes /\ supers' = supers /\ lists' = lists /\ doomed' = doomed /\ freed' = freed
      /\ open' = open /\ active' = active /\ setup' = setup
  BY DEF SetFile
<1>2. Live' = Live /\ Allocated' = Allocated /\ Careless' = Careless
  BY <1>1 DEF Live, Allocated, Careless
<1>3. file' \in [Class -> File \cup {NoFile}] /\ \A d \in Live : file'[d] \in open
  <2>1. file \in [Class -> File \cup {NoFile}] /\ (\A d \in Live : file[d] \in open) /\ f \in File
    BY DEF Consistent
  <2>2. Live \subseteq Class
    BY ThereParts DEF Live, Consistent, Sound
  <2> QED BY <1>1, <2>1, <2>2
<1>4. Sound(classes, supers, lists)'
  BY <1>1 DEF Consistent
<1> QED BY <1>1, <1>2, <1>3, <1>4 DEF Consistent, UseClosed

\* set_active_schema touches no class.
LEMMA SetActiveKeeps ==
  ASSUME Consistent, NEW f \in open \cup {NoFile}, SetActiveSchema(f)
  PROVE  Consistent'
<1>1. /\ active' = f
      /\ classes' = classes /\ supers' = supers /\ lists' = lists /\ doomed' = doomed /\ freed' = freed
      /\ open' = open /\ file' = file /\ setup' = setup
  BY DEF SetActiveSchema
<1>2. Live' = Live /\ Allocated' = Allocated /\ Careless' = Careless
  BY <1>1 DEF Live, Allocated, Careless
<1>4. Sound(classes, supers, lists)'
  BY <1>1 DEF Consistent
<1> QED BY <1>1, <1>2, <1>4 DEF Consistent, UseClosed


-----------------------------------------------------------------------------
(* The theorems. *)

\* Each call keeps the invariant.
LEMMA StepKeeps ==
  ASSUME SchemaInv, Step
  PROVE  SchemaInv'
<1>1. setup' = setup
  BY DEF Step, AddSuperClass, RemoveSuperClass, SwapSuperClasses, ChangeSupers, Destroy, SetFile,
         NewClass, LoadSchema, NewSchema, CloseSchema, CloseAllSchema, CloseDanglingSchema, SetActiveSchema
<1>2. SUFFICES ASSUME Careless \subseteq {"testIds"} PROVE Consistent'
  BY <1>1 DEF SchemaInv, Careless
<1>3. Consistent
  BY <1>2 DEF SchemaInv
<1>4. ASSUME NEW c \in Live, NEW n \in Name, AddSuperClass(c, n) PROVE Consistent'
  BY <1>2, <1>3, <1>4, AddKeeps
<1>5. ASSUME NEW c \in Live, NEW n \in Name, RemoveSuperClass(c, n) PROVE Consistent'
  BY <1>3, <1>5, RemoveKeeps
<1>6. ASSUME NEW c \in Live, NEW i \in DOMAIN supers[c], NEW j \in DOMAIN supers[c], SwapSuperClasses(c, i, j)
      PROVE  Consistent'
  BY <1>3, <1>6, SwapKeeps
<1>7. ASSUME NEW c \in Live, Destroy(c) PROVE Consistent'
  BY <1>2, <1>3, <1>7, DestroyKeeps
<1>8. ASSUME NEW c \in Live, NEW f \in open, SetFile(c, f) PROVE Consistent'
  BY <1>3, <1>8, SetFileKeeps
<1>9. ASSUME NEW n \in Name, NewClass(n) PROVE Consistent'
  BY <1>3, <1>9, NewClassKeeps
<1>10. ASSUME NEW f \in File, LoadSchema(f) PROVE Consistent'
  BY <1>2, <1>3, <1>10, LoadKeeps
<1>11. ASSUME NEW f \in File, NewSchema(f) PROVE Consistent'
  BY <1>3, <1>11, NewSchemaKeeps
<1>12. ASSUME NEW f \in File, CloseSchema(f) PROVE Consistent'
  <2>1. \A c \in Live : file[c] \in {f}
    BY <1>2, <1>12 DEF CloseSchema
  <2>2. Close({f}) /\ lists' = KeptLists
    BY <1>12 DEF CloseSchema
  <2> QED BY <1>1, <1>3, <2>1, <2>2, CloseKeeps
<1>13. ASSUME CloseAllSchema PROVE Consistent'
  <2>1. \A c \in Live : file[c] \in open
    BY <1>3 DEF Consistent
  <2>2. Close(open) /\ lists' = KeptLists
    BY <1>13 DEF CloseAllSchema
  <2> QED BY <1>1, <1>3, <2>1, <2>2, CloseKeeps
<1>14. ASSUME NEW F \in SUBSET open, CloseDanglingSchema(F) PROVE Consistent'
  BY <1>2, <1>14 DEF CloseDanglingSchema
<1>15. ASSUME NEW f \in open \cup {NoFile}, SetActiveSchema(f) PROVE Consistent'
  BY <1>3, <1>15, SetActiveKeeps
<1> QED BY <1>4, <1>5, <1>6, <1>7, <1>8, <1>9, <1>10, <1>11, <1>12, <1>13, <1>14, <1>15 DEF Step

\* So does a step of something else.
LEMMA NothingChanges ==
  ASSUME SchemaInv, UNCHANGED vars
  PROVE  SchemaInv'
BY DEF SchemaInv, Consistent, Sound, Right, Exact, DownExact, PropsOK, vars, Live, Allocated, Careless

\* In every state in which no call needed care (but for the test of ids) the
\* super-classes are there and without a circle, and the computed lists are what
\* they give.
THEOREM SchemaInvariant == Spec => []SchemaInv
<1>1. Init => SchemaInv
  BY InitConsistent
<1>2. SchemaInv /\ [Next]_vars => SchemaInv'
  BY StepKeeps, NothingChanges DEF Next
<1> QED BY <1>1, <1>2, PTL DEF Spec

\* The graph in the terms of the model.
LEMMA GraphIsDirect ==
  /\ \A n \in Name : Direct(n) = Graph(classes, supers)[n]
  /\ Cyclic <=> Circle(Graph(classes, supers))
  /\ \A n \in Name : Inherited(n) = Reach(Graph(classes, supers), n)
<1>1. \A n \in Name : Direct(n) = Graph(classes, supers)[n]
  BY DEF Direct, Graph
<1>2. Cyclic <=> Circle(Graph(classes, supers))
  BY <1>1 DEF Cyclic, Circle
<1>3. ASSUME NEW n \in Name PROVE Inherited(n) = Reach(Graph(classes, supers), n)
  <2>1. \A S \in SUBSET Name : (\A k \in S : Direct(k) \subseteq S) <=> Closed(Graph(classes, supers), S)
    BY <1>1 DEF Closed
  <2> QED BY <1>1, <2>1 DEF Inherited, Reach
<1> QED BY <1>1, <1>2, <1>3

\* No class inherits from itself: what add_super_class finds in a computed list,
\* and what a schema file brings, never closes a circle.
THEOREM NoCircle == Spec => []Acyclic
<1>1. SchemaInv => Acyclic
  BY GraphIsDirect DEF SchemaInv, Consistent, Sound, Acyclic
<1> QED BY <1>1, SchemaInvariant, PTL

\* all_super_classes() has each class that is inherited from, once, by the address
\* it has now.
THEOREM AllSuperClasses == Spec => []SuperClassesComplete
<1>1. SchemaInv => SuperClassesComplete
  <2> SUFFICES ASSUME Consistent, NEW c \in Live
               PROVE  /\ IsInjective(lists[c].up)
                      /\ ToSet(lists[c].up) = {classes[n] : n \in Inherited(NameOf(c))}
    BY DEF SchemaInv, SuperClassesComplete
  <2>1. Exact(classes, supers, lists, c)
    BY RightParts DEF Consistent, Sound, Live
  <2>2. NameOf(c) \in Name
    BY ThereParts DEF Consistent, Sound, Live, Known
  <2> QED BY <2>1, <2>2, GraphIsDirect DEF Exact, Addresses
<1> QED BY <1>1, SchemaInvariant, PTL

\* all_sub_classes() of a class has those that have it in all_super_classes().
THEOREM AllSubClasses == Spec => []SubClassesComplete
<1>1. SchemaInv => SubClassesComplete
  <2> SUFFICES ASSUME Consistent, NEW c \in Live, NEW d \in Live
               PROVE  SubClassesMatch(c, d)
    BY DEF SchemaInv, SubClassesComplete
  <2>1. lists \in [Class -> Lists] /\ c \in Class /\ d \in Class
    BY ThereParts DEF Consistent, Sound, Right, Live
  <2>2. ToSet(lists[d].down) = {e \in There(classes) : d \in ToSet(lists[e].up)}
    BY RightParts DEF Consistent, Sound, Live
  <2>3. lists[d].down \in Seq(Class) /\ lists[c].up \in Seq(Class)
    BY <2>1 DEF Lists
  <2>4. Contains(lists[d].down, c) <=> c \in ToSet(lists[d].down)
    BY <2>3 DEF Contains, ToSet
  <2>5. Contains(lists[c].up, d) <=> d \in ToSet(lists[c].up)
    BY <2>3 DEF Contains, ToSet
  <2> QED BY <2>2, <2>4, <2>5 DEF SubClassesMatch, Live
<1> QED BY <1>1, SchemaInvariant, PTL

\* No list that a class goes through has the address of a deleted class.
THEOREM NothingDangles == Spec => []NoDanglingClass
<1>1. SchemaInv => NoDanglingClass
  <2> SUFFICES ASSUME Consistent, Careless = {} PROVE ~Dangling
    BY DEF SchemaInv, NoDanglingClass
  <2>1. freed \subseteq Class \ Live
    BY DEF Consistent
  <2>2. ASSUME NEW c \in Live PROVE InLists(c) \subseteq Live
    <3>1. Sound(classes, supers, lists) /\ ClassesOK(classes) /\ SupersOK(classes, supers)
          /\ c \in There(classes)
      BY DEF Consistent, Sound, Live
    <3>2. /\ Exact(classes, supers, lists, c) /\ PropsOK(lists, c)
          /\ ToSet(lists[c].down) = {d \in There(classes) : c \in ToSet(lists[d].up)}
      BY <3>1, RightParts DEF Sound
    <3>3. ToSet(lists[c].up) \subseteq There(classes)
      BY <3>1, <3>2, InUp
    <3>4. lists[c].kin = {}
      BY <3>1, ThereParts DEF Consistent
    <3> QED BY <3>1, <3>2, <3>3, <3>4 DEF InLists, PropsOK, Live
  <2> QED BY <2>1, <2>2 DEF Dangling
<1> QED BY <1>1, SchemaInvariant, PTL
=============================================================================
