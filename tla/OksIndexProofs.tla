--------------------------- MODULE OksIndexProofs ---------------------------
(***************************************************************************)
(* Indices for any number of objects, classes and attributes: whatever is  *)
(* created, destroyed or changed, an index holds the objects of its class, *)
(* each once and in order, and its searches have the right answers.        *)
(***************************************************************************)
EXTENDS OksIndex, SequenceTheorems, FiniteSetTheorems, WellFoundedInduction, TLAPS

\* s holds each object of S once.
Lists(s, S) == s \in Seq(Object) /\ IsInjective(s) /\ ToSet(s) = S

\* With the values val no object of s is less by a than one before it.
InOrder(s, a, val) ==
    \A m, n \in DOMAIN s : m < n => ~Less(a, val[s[n]][a], val[s[m]][a])

\* The positions an object with value d of a is inserted before, end() included.
After(s, a, val, d) ==
    {m \in 1 .. Len(s) + 1 : m = Len(s) + 1 \/ Less(a, d, val[s[m]][a])}
NotBefore(s, a, val, d) ==
    {m \in 1 .. Len(s) + 1 : m = Len(s) + 1 \/ ~Less(a, val[s[m]][a], d)}

\* Where object e is between the bounds of its value.
Found(s, a, val, e) ==
    {n \in FirstOf(NotBefore(s, a, val, val[e][a])) .. FirstOf(After(s, a, val, val[e][a])) - 1 : s[n] = e}

Data == [Object -> [Attribute -> Nat]]

-----------------------------------------------------------------------------
(* Sequences and bounds. *)

\* A set of numbers has a least one.
LEMMA LeastNumber ==
  ASSUME NEW P \in SUBSET Nat, P # {}
  PROVE  \E i \in P : \A j \in P : i <= j
<1>1. PICK i \in P : \A j \in P : <<j, i>> \notin OpToRel(<, Nat)
  BY NatLessThanWellFounded, WFMin
<1>2. ASSUME NEW j \in P, j < i PROVE FALSE
  <2>1. i \in Nat /\ j \in Nat
    OBVIOUS
  <2>2. <<j, i>> \in OpToRel(<, Nat)
    BY <1>2, <2>1, Zenon DEF OpToRel
  <2> QED BY <1>1, <2>2
<1>3. i \in Nat /\ \A j \in P : j \in Nat
  OBVIOUS
<1> QED BY <1>2, <1>3

\* FirstOf chooses it.
LEMMA FirstOfParts ==
  ASSUME NEW P \in SUBSET Nat, P # {}
  PROVE  FirstOf(P) \in P /\ \A j \in P : FirstOf(P) <= j
<1>1. \E i \in P : \A j \in P : i <= j
  BY LeastNumber
<1> QED BY <1>1 DEF FirstOf

\* What InsertAt returns.
LEMMA InsertParts ==
  ASSUME NEW S, NEW s \in Seq(S), NEW e \in S, NEW n \in 1 .. Len(s) + 1
  PROVE  LET t == InsertAt(s, n, e)
         IN  /\ t \in Seq(S) /\ Len(t) = Len(s) + 1
             /\ \A i \in 1 .. n - 1 : t[i] = s[i]
             /\ t[n] = e
             /\ \A i \in n + 1 .. Len(s) + 1 : t[i] = s[i - 1]
<1> DEFINE p == SubSeq(s, 1, n - 1)
           q == SubSeq(s, n, Len(s))
           u == <<e>>
           v == p \o u
<1>1. Len(s) \in Nat /\ n \in Nat /\ n >= 1 /\ n <= Len(s) + 1 /\ \A i \in 1 .. Len(s) : s[i] \in S
  BY LenProperties, ElementOfSeq
<1>2. p \in Seq(S) /\ Len(p) = n - 1 /\ \A i \in 1 .. n - 1 : p[i] = s[i]
  <2>1. 1 \in Int /\ n - 1 \in Int /\ (\A i \in 1 .. n - 1 : s[i] \in S)
    BY <1>1
  <2> HIDE DEF p
  <2>2. p \in Seq(S) /\ Len(p) = (IF 1 <= n - 1 THEN n - 1 - 1 + 1 ELSE 0) /\ \A i \in 1 .. n - 1 - 1 + 1 : p[i] = s[1 + i - 1]
    BY <2>1, SubSeqProperties DEF p
  <2> QED BY <2>2, <1>1
<1>3. q \in Seq(S) /\ Len(q) = Len(s) - n + 1 /\ \A i \in 1 .. Len(s) - n + 1 : q[i] = s[n + i - 1]
  <2>1. n \in Int /\ Len(s) \in Int /\ (\A i \in n .. Len(s) : s[i] \in S)
    BY <1>1
  <2> HIDE DEF q
  <2>2. q \in Seq(S) /\ Len(q) = (IF n <= Len(s) THEN Len(s) - n + 1 ELSE 0) /\ \A i \in 1 .. Len(s) - n + 1 : q[i] = s[n + i - 1]
    BY <2>1, SubSeqProperties DEF q
  <2> QED BY <2>2, <1>1
<1>4. u \in Seq(S) /\ Len(u) = 1 /\ u[1] = e
  OBVIOUS
<1>5. InsertAt(s, n, e) = v \o q
  BY DEF InsertAt
<1> HIDE DEF p, q, u
<1>6. v \in Seq(S) /\ Len(v) = n /\ \A i \in 1 .. n : v[i] = IF i <= n - 1 THEN p[i] ELSE u[i - (n - 1)]
  <2>1. v \in Seq(S) /\ Len(v) = Len(p) + Len(u) /\ \A i \in 1 .. Len(p) + Len(u) : v[i] = IF i <= Len(p) THEN p[i] ELSE u[i - Len(p)]
    BY <1>2, <1>4, ConcatProperties
  <2> QED BY <2>1, <1>2, <1>4, <1>1
<1> HIDE DEF v
<1> DEFINE w == v \o q
<1>7. w \in Seq(S) /\ Len(w) = Len(s) + 1 /\ \A i \in 1 .. Len(s) + 1 : w[i] = IF i <= n THEN v[i] ELSE q[i - n]
  <2>1. w \in Seq(S) /\ Len(w) = Len(v) + Len(q) /\ \A i \in 1 .. Len(v) + Len(q) : w[i] = IF i <= Len(v) THEN v[i] ELSE q[i - Len(v)]
    BY <1>6, <1>3, ConcatProperties
  <2> QED BY <2>1, <1>6, <1>3, <1>1
<1> HIDE DEF w
<1>8. \A i \in 1 .. n - 1 : w[i] = s[i]
  BY <1>1, <1>2, <1>6, <1>7
<1>9. w[n] = e
  BY <1>1, <1>4, <1>6, <1>7
<1>10. ASSUME NEW i \in n + 1 .. Len(s) + 1 PROVE w[i] = s[i - 1]
  <2>1. /\ i \in 1 .. Len(s) + 1 /\ ~(i <= n) /\ i - n \in 1 .. Len(s) - n + 1
        /\ n + (i - n) - 1 = i - 1
    BY <1>1
  <2> QED BY <1>3, <1>7, <2>1
<1> QED BY <1>5, <1>7, <1>8, <1>9, <1>10 DEF w

\* What RemoveAt returns.
LEMMA RemoveParts ==
  ASSUME NEW S, NEW s \in Seq(S), NEW k \in 1 .. Len(s)
  PROVE  LET t == RemoveAt(s, k)
         IN  /\ t \in Seq(S) /\ Len(t) = Len(s) - 1
             /\ \A i \in 1 .. k - 1 : t[i] = s[i]
             /\ \A i \in k .. Len(s) - 1 : t[i] = s[i + 1]
<1> DEFINE p == SubSeq(s, 1, k - 1)
           q == SubSeq(s, k + 1, Len(s))
<1>1. Len(s) \in Nat /\ k \in Nat /\ k >= 1 /\ k <= Len(s) /\ \A i \in 1 .. Len(s) : s[i] \in S
  BY LenProperties, ElementOfSeq
<1>2. p \in Seq(S) /\ Len(p) = k - 1 /\ \A i \in 1 .. k - 1 : p[i] = s[i]
  <2>1. 1 \in Int /\ k - 1 \in Int /\ (\A i \in 1 .. k - 1 : s[i] \in S)
    BY <1>1
  <2> HIDE DEF p
  <2>2. p \in Seq(S) /\ Len(p) = (IF 1 <= k - 1 THEN k - 1 - 1 + 1 ELSE 0) /\ \A i \in 1 .. k - 1 - 1 + 1 : p[i] = s[1 + i - 1]
    BY <2>1, SubSeqProperties DEF p
  <2> QED BY <2>2, <1>1
<1>3. q \in Seq(S) /\ Len(q) = Len(s) - k /\ \A i \in 1 .. Len(s) - k : q[i] = s[k + i]
  <2>1. k + 1 \in Int /\ Len(s) \in Int /\ (\A i \in k + 1 .. Len(s) : s[i] \in S)
    BY <1>1
  <2> HIDE DEF q
  <2>2. q \in Seq(S) /\ Len(q) = (IF k + 1 <= Len(s) THEN Len(s) - (k + 1) + 1 ELSE 0) /\ \A i \in 1 .. Len(s) - (k + 1) + 1 : q[i] = s[k + 1 + i - 1]
    BY <2>1, SubSeqProperties DEF q
  <2> QED BY <2>2, <1>1
<1>4. RemoveAt(s, k) = p \o q
  BY DEF RemoveAt
<1> HIDE DEF p, q
<1> DEFINE w == p \o q
<1>5. w \in Seq(S) /\ Len(w) = Len(s) - 1 /\ \A i \in 1 .. Len(s) - 1 : w[i] = IF i <= k - 1 THEN p[i] ELSE q[i - (k - 1)]
  <2>1. w \in Seq(S) /\ Len(w) = Len(p) + Len(q) /\ \A i \in 1 .. Len(p) + Len(q) : w[i] = IF i <= Len(p) THEN p[i] ELSE q[i - Len(p)]
    BY <1>2, <1>3, ConcatProperties
  <2> QED BY <2>1, <1>2, <1>3, <1>1
<1> HIDE DEF w
<1>6. \A i \in 1 .. k - 1 : w[i] = s[i]
  BY <1>1, <1>2, <1>5
<1>7. ASSUME NEW i \in k .. Len(s) - 1 PROVE w[i] = s[i + 1]
  <2>1. /\ i \in 1 .. Len(s) - 1 /\ ~(i <= k - 1) /\ i - (k - 1) \in 1 .. Len(s) - k
        /\ k + (i - (k - 1)) = i + 1
    BY <1>1
  <2> QED BY <1>3, <1>5, <2>1
<1> QED BY <1>4, <1>5, <1>6, <1>7 DEF w

\* A comparison of two values is a strict order, the empty one for lists.
LEMMA LessParts ==
  ASSUME NEW a \in Attribute, NEW u \in Nat, NEW v \in Nat, NEW w \in Nat
  PROVE  /\ ~Less(a, u, u)
         /\ Less(a, u, v) /\ ~Less(a, w, v) => Less(a, u, w)
         /\ ~Less(a, u, v) /\ ~Less(a, v, w) => ~Less(a, u, w)
         /\ Less(a, u, v) => ~Less(a, v, u)
         /\ a \notin Multi => (Less(a, u, v) <=> u < v)
BY DEF Less

\* An object put before the first one that is greater keeps the list exact.
LEMMA InsertKeepsOrder ==
  ASSUME NEW S \in SUBSET Object, NEW s, Lists(s, S), NEW e \in Object \ S,
         NEW a \in Attribute, NEW val \in Data, InOrder(s, a, val)
  PROVE  LET n == FirstOf(After(s, a, val, val[e][a]))
         IN  /\ n \in 1 .. Len(s) + 1
             /\ Lists(InsertAt(s, n, e), S \cup {e})
             /\ InOrder(InsertAt(s, n, e), a, val)
<1> DEFINE n == FirstOf(After(s, a, val, val[e][a]))
           t == InsertAt(s, n, e)
           v(i) == val[s[i]][a]
           d == val[e][a]
<1>1. s \in Seq(Object) /\ Len(s) \in Nat /\ DOMAIN s = 1 .. Len(s) /\ \A i \in 1 .. Len(s) : s[i] \in Object
  <2>1. s \in Seq(Object)
    BY DEF Lists
  <2> QED BY <2>1, LenProperties, ElementOfSeq
<1>2. d \in Nat /\ \A i \in 1 .. Len(s) : v(i) \in Nat
  BY <1>1 DEF Data
<1>3. /\ n \in 1 .. Len(s) + 1
      /\ n = Len(s) + 1 \/ Less(a, d, v(n))
      /\ \A m \in 1 .. Len(s) : Less(a, d, v(m)) => n <= m
  <2> DEFINE A == After(s, a, val, d)
  <2>1. A \in SUBSET Nat /\ Len(s) + 1 \in A
    BY <1>1 DEF After
  <2>2. \A m \in Nat : m \in A <=> m \in 1 .. Len(s) + 1 /\ (m = Len(s) + 1 \/ Less(a, d, v(m)))
    BY <1>1 DEF After
  <2> HIDE DEF A
  <2>3. FirstOf(A) \in A /\ \A j \in A : FirstOf(A) <= j
    BY <2>1, FirstOfParts
  <2>4. n = FirstOf(A)
    BY DEF A
  <2>5. \A m \in 1 .. Len(s) : m \in Nat /\ m \in 1 .. Len(s) + 1
    BY <1>1
  <2> HIDE DEF n
  <2> QED BY <2>1, <2>2, <2>3, <2>4, <2>5
<1> HIDE DEF n
<1>4. /\ t \in Seq(Object) /\ Len(t) = Len(s) + 1
      /\ \A i \in 1 .. n - 1 : t[i] = s[i]
      /\ t[n] = e
      /\ \A i \in n + 1 .. Len(s) + 1 : t[i] = s[i - 1]
  <2>1. e \in Object /\ s \in Seq(Object) /\ n \in 1 .. Len(s) + 1
    BY <1>1, <1>3
  <2> HIDE DEF t
  <2>2. LET r == InsertAt(s, n, e)
        IN  /\ r \in Seq(Object) /\ Len(r) = Len(s) + 1
            /\ \A i \in 1 .. n - 1 : r[i] = s[i]
            /\ r[n] = e
            /\ \A i \in n + 1 .. Len(s) + 1 : r[i] = s[i - 1]
    BY ONLY <2>1, InsertParts
  <2> QED BY <2>2 DEF t
<1> HIDE DEF t
<1>5. DOMAIN t = 1 .. Len(s) + 1
  BY <1>4, LenProperties
<1>6. \A i \in 1 .. Len(s) + 1 : \/ i = n
                                 \/ i < n /\ i \in 1 .. n - 1 /\ i \in 1 .. Len(s)
                                 \/ i > n /\ i \in n + 1 .. Len(s) + 1 /\ i - 1 \in 1 .. Len(s) /\ i - 1 >= n
  BY <1>1, <1>3
<1>7. \A i \in 1 .. Len(s) : s[i] \in S
  BY <1>1 DEF Lists, ToSet
<1>8. \A i, j \in 1 .. Len(s) : s[i] = s[j] => i = j
  BY <1>1 DEF Lists, IsInjective
<1>9. \A i, j \in 1 .. Len(s) : i < j => ~Less(a, v(j), v(i))
  BY <1>1 DEF InOrder
<1>10. \A i \in 1 .. Len(s) + 1 : t[i] \in S \cup {e}
  BY <1>4, <1>6, <1>7
<1>11. ToSet(t) = S \cup {e}
  <2>1. ToSet(t) \subseteq S \cup {e}
    BY <1>5, <1>10 DEF ToSet
  <2>2. ASSUME NEW p \in S PROVE \E i \in 1 .. Len(s) + 1 : t[i] = p
    <3>1. PICK j \in 1 .. Len(s) : s[j] = p
      BY <1>1 DEF Lists, ToSet
    <3>2. CASE j < n
      <4>1. j \in 1 .. n - 1 /\ j \in 1 .. Len(s) + 1
        BY <1>1, <1>3, <3>2
      <4> QED BY <3>1, <4>1, <1>4
    <3>3. CASE ~(j < n)
      <4>1. j + 1 \in n + 1 .. Len(s) + 1 /\ j + 1 \in 1 .. Len(s) + 1 /\ j + 1 - 1 = j
        BY <1>1, <1>3, <3>3
      <4> QED BY <3>1, <4>1, <1>4
    <3> QED BY <3>2, <3>3
  <2>3. \E i \in 1 .. Len(s) + 1 : t[i] = e
    BY <1>3, <1>4
  <2>4. \A i \in 1 .. Len(s) + 1 : t[i] \in ToSet(t)
    BY <1>5 DEF ToSet
  <2>5. S \cup {e} \subseteq ToSet(t)
    BY <2>2, <2>3, <2>4
  <2> QED BY <2>1, <2>5
<1>12. IsInjective(t)
  <2> SUFFICES ASSUME NEW i \in 1 .. Len(s) + 1, NEW j \in 1 .. Len(s) + 1, t[i] = t[j] PROVE i = j
    BY <1>5 DEF IsInjective
  <2>1. \A m \in 1 .. Len(s) + 1 : m # n => t[m] \in S
    BY <1>4, <1>6, <1>7
  <2>2. (i = n) <=> (j = n)
    BY <2>1, <1>4
  <2>3. ASSUME NEW m \in 1 .. Len(s) + 1, m # n
        PROVE  (m < n /\ m \in 1 .. Len(s) /\ t[m] = s[m]) \/ (m > n /\ m - 1 \in 1 .. Len(s) /\ t[m] = s[m - 1])
    BY <2>3, <1>4, <1>6
  <2>4. CASE i # n /\ j # n
    <3> DEFINE k == IF i < n THEN i ELSE i - 1
               l == IF j < n THEN j ELSE j - 1
    <3>1. k \in 1 .. Len(s) /\ t[i] = s[k] /\ l \in 1 .. Len(s) /\ t[j] = s[l]
      <4>1. /\ (i < n /\ i \in 1 .. Len(s) /\ t[i] = s[i]) \/ (i > n /\ i - 1 \in 1 .. Len(s) /\ t[i] = s[i - 1])
            /\ (j < n /\ j \in 1 .. Len(s) /\ t[j] = s[j]) \/ (j > n /\ j - 1 \in 1 .. Len(s) /\ t[j] = s[j - 1])
        BY <2>3, <2>4
      <4> QED BY <4>1, <1>3
    <3>2. k = l
      BY <3>1, <1>8
    <3> QED BY <3>2, <2>4, <1>3, <1>1
  <2> QED BY <2>2, <2>4
<1>13. InOrder(t, a, val)
  <2> SUFFICES ASSUME NEW i \in 1 .. Len(s) + 1, NEW j \in 1 .. Len(s) + 1, i < j
               PROVE  ~Less(a, val[t[j]][a], val[t[i]][a])
    BY <1>5 DEF InOrder
  <2>1. CASE i < n /\ j < n
    <3>1. i \in 1 .. Len(s) /\ t[i] = s[i] /\ j \in 1 .. Len(s) /\ t[j] = s[j]
      BY <2>1, <1>4, <1>6, <1>3
    <3> QED BY <3>1, <1>9
  <2>2. CASE i < n /\ j = n
    <3>1. i \in 1 .. Len(s) /\ t[i] = s[i] /\ ~(n <= i)
      BY <2>2, <1>4, <1>6, <1>3
    <3> QED BY <3>1, <2>2, <1>3, <1>4
  <2>3. CASE i < n /\ j > n
    <3>1. i \in 1 .. Len(s) /\ t[i] = s[i] /\ t[j] = s[j - 1] /\ j - 1 \in 1 .. Len(s) /\ i < j - 1
      BY <2>3, <1>4, <1>6, <1>3
    <3> QED BY <3>1, <1>9
  <2>4. CASE i = n /\ j > n
    <3>1. t[j] = s[j - 1] /\ j - 1 \in 1 .. Len(s) /\ n \in 1 .. Len(s) /\ (n = j - 1 \/ n < j - 1)
      BY <2>4, <1>4, <1>6, <1>3, <1>1
    <3>2. Less(a, d, v(n)) /\ ~Less(a, v(j - 1), v(n)) /\ v(n) \in Nat /\ v(j - 1) \in Nat
      <4>1. Less(a, d, v(n))
        BY <3>1, <1>3, <1>1
      <4>2. v(n) \in Nat /\ v(j - 1) \in Nat
        BY <3>1, <1>2
      <4>3. ~Less(a, v(n), v(n))
        BY <4>2, LessParts
      <4> QED BY <3>1, <4>1, <4>2, <4>3, <1>9
    <3>3. Less(a, d, v(j - 1))
      <4> DEFINE x == v(n)
                 y == v(j - 1)
                 z == val[e][a]
      <4>1. Less(a, z, x) /\ ~Less(a, y, x) /\ x \in Nat /\ y \in Nat /\ z \in Nat
        BY <3>2, <1>2
      <4> HIDE DEF x, y, z
      <4>2. Less(a, z, y)
        BY <4>1, LessParts
      <4> QED BY <4>2 DEF y, z
    <3>4. ~Less(a, v(j - 1), d)
      BY <3>2, <3>3, <1>2, LessParts
    <3> QED BY <3>1, <3>4, <2>4, <1>4
  <2>5. CASE i > n /\ j > n
    <3>1. i \in Nat /\ j \in Nat /\ n \in Nat
      BY <1>3
    <3>2. i - 1 \in 1 .. Len(s) /\ j - 1 \in 1 .. Len(s) /\ i - 1 < j - 1
      BY <3>1, <2>5, <1>6
    <3>3. i \in n + 1 .. Len(s) + 1 /\ j \in n + 1 .. Len(s) + 1
      BY <3>1, <2>5, <1>6
    <3>4. t[i] = s[i - 1] /\ t[j] = s[j - 1]
      BY <3>3, <1>4
    <3> QED BY <3>2, <3>4, <1>9
  <2>6. i \in Nat /\ j \in Nat /\ n \in Nat
    BY <1>3
  <2> QED BY <2>1, <2>2, <2>3, <2>4, <2>5, <2>6
<1> QED BY <1>3, <1>4, <1>11, <1>12, <1>13 DEF Lists, n, t

\* The bounds of a value are positions, end() included.
LEMMA BoundParts ==
  ASSUME NEW s \in Seq(Object), NEW a \in Attribute, NEW val \in Data, NEW d \in Nat
  PROVE  /\ LET n == FirstOf(After(s, a, val, d))
            IN  /\ n \in 1 .. Len(s) + 1
                /\ n = Len(s) + 1 \/ Less(a, d, val[s[n]][a])
                /\ \A m \in 1 .. Len(s) : m < n => ~Less(a, d, val[s[m]][a])
         /\ LET n == FirstOf(NotBefore(s, a, val, d))
            IN  /\ n \in 1 .. Len(s) + 1
                /\ n = Len(s) + 1 \/ ~Less(a, val[s[n]][a], d)
                /\ \A m \in 1 .. Len(s) : m < n => Less(a, val[s[m]][a], d)
<1>1. Len(s) \in Nat
  BY LenProperties
<1> DEFINE A == After(s, a, val, d)
           B == NotBefore(s, a, val, d)
<1>2. A \in SUBSET Nat /\ Len(s) + 1 \in A /\ B \in SUBSET Nat /\ Len(s) + 1 \in B
  BY <1>1 DEF After, NotBefore
<1>3. \A m \in Nat : /\ m \in A <=> m \in 1 .. Len(s) + 1 /\ (m = Len(s) + 1 \/ Less(a, d, val[s[m]][a]))
                     /\ m \in B <=> m \in 1 .. Len(s) + 1 /\ (m = Len(s) + 1 \/ ~Less(a, val[s[m]][a], d))
  BY <1>1 DEF After, NotBefore
<1> HIDE DEF A, B
<1>4. FirstOf(A) \in A /\ \A j \in A : FirstOf(A) <= j
  BY <1>2, FirstOfParts
<1>5. FirstOf(B) \in B /\ \A j \in B : FirstOf(B) <= j
  BY <1>2, FirstOfParts
<1> DEFINE n == FirstOf(A)
           k == FirstOf(B)
<1> HIDE DEF n, k
<1>6. n \in A /\ n \in Nat /\ (\A j \in A : n <= j) /\ k \in B /\ k \in Nat /\ \A j \in B : k <= j
  BY <1>2, <1>4, <1>5 DEF n, k
<1>7. \A m \in 1 .. Len(s) : m \in Nat /\ m \in 1 .. Len(s) + 1 /\ m # Len(s) + 1
  BY <1>1
<1>8. /\ n \in 1 .. Len(s) + 1
      /\ n = Len(s) + 1 \/ Less(a, d, val[s[n]][a])
      /\ \A m \in 1 .. Len(s) : m < n => ~Less(a, d, val[s[m]][a])
  BY <1>3, <1>6, <1>7
<1>9. /\ k \in 1 .. Len(s) + 1
      /\ k = Len(s) + 1 \/ ~Less(a, val[s[k]][a], d)
      /\ \A m \in 1 .. Len(s) : m < k => Less(a, val[s[m]][a], d)
  BY <1>3, <1>6, <1>7
<1> QED BY <1>8, <1>9 DEF n, k, A, B

\* An object on the list is between the bounds of its value, and taking it out
\* there leaves an exact list.
LEMMA RemoveKeepsOrder ==
  ASSUME NEW S \in SUBSET Object, NEW s, Lists(s, S), NEW e \in S,
         NEW a \in Attribute, NEW val \in Data, InOrder(s, a, val)
  PROVE  LET found == Found(s, a, val, e)
         IN  /\ found # {}
             /\ Lists(RemoveAt(s, FirstOf(found)), S \ {e})
             /\ InOrder(RemoveAt(s, FirstOf(found)), a, val)
<1> DEFINE d == val[e][a]
           lo == FirstOf(NotBefore(s, a, val, d))
           up == FirstOf(After(s, a, val, d))
           found == {n \in lo .. up - 1 : s[n] = e}
           k == FirstOf(found)
           t == RemoveAt(s, k)
<1>1. s \in Seq(Object) /\ Len(s) \in Nat /\ DOMAIN s = 1 .. Len(s) /\ \A i \in 1 .. Len(s) : s[i] \in Object
  <2>1. s \in Seq(Object)
    BY DEF Lists
  <2> QED BY <2>1, LenProperties, ElementOfSeq
<1>2. d \in Nat /\ e \in Object /\ \A i \in 1 .. Len(s) : val[s[i]][a] \in Nat
  BY <1>1 DEF Data
<1> HIDE DEF d
<1>3. /\ lo \in 1 .. Len(s) + 1 /\ up \in 1 .. Len(s) + 1
      /\ \A m \in 1 .. Len(s) : m < lo => Less(a, val[s[m]][a], d)
      /\ up = Len(s) + 1 \/ Less(a, d, val[s[up]][a])
  BY <1>1, <1>2, BoundParts
<1> HIDE DEF lo, up
<1>4. \A i \in 1 .. Len(s) : s[i] \in S
  BY <1>1 DEF Lists, ToSet
<1>5. \A i, j \in 1 .. Len(s) : s[i] = s[j] => i = j
  BY <1>1 DEF Lists, IsInjective
<1>6. \A i, j \in 1 .. Len(s) : i < j => ~Less(a, val[s[j]][a], val[s[i]][a])
  BY <1>1 DEF InOrder
<1>7. PICK p \in 1 .. Len(s) : s[p] = e
  BY <1>1 DEF Lists, ToSet
<1>8. p \in found
  <2>1. val[s[p]][a] = d /\ ~Less(a, d, d)
    BY <1>2, <1>7, LessParts DEF d
  <2>2. ~(p < lo)
    BY <1>3, <1>7, <2>1
  <2>3. ~(up < p)
    <3>1. ASSUME up < p PROVE FALSE
      <4>1. up \in 1 .. Len(s) /\ up # Len(s) + 1
        BY <3>1, <1>3, <1>7, <1>1
      <4> QED BY <4>1, <3>1, <1>3, <1>6, <1>7, <2>1
    <3> QED BY <3>1
  <2>4. up # p
    <3>1. ASSUME up = p PROVE FALSE
      <4>1. up # Len(s) + 1
        BY <3>1, <1>1, <1>7
      <4> QED BY <4>1, <3>1, <1>3, <2>1
    <3> QED BY <3>1
  <2> QED BY <2>2, <2>3, <2>4, <1>1, <1>3, <1>7
<1>9. \A n \in found : n = p
  <2>1. \A n \in found : n \in 1 .. Len(s) /\ s[n] = e
    BY <1>1, <1>3
  <2> HIDE DEF found
  <2> QED BY <2>1, <1>5, <1>7
<1> HIDE DEF found
<1>10. k = p
  <2>1. found \in SUBSET Nat /\ found # {}
    BY <1>8, <1>9, <1>1
  <2>2. FirstOf(found) \in found
    BY <2>1, FirstOfParts
  <2> QED BY <2>2, <1>9
<1> HIDE DEF k
<1>11. /\ t \in Seq(Object) /\ Len(t) = Len(s) - 1
       /\ \A i \in 1 .. p - 1 : t[i] = s[i]
       /\ \A i \in p .. Len(s) - 1 : t[i] = s[i + 1]
  <2>1. s \in Seq(Object) /\ p \in 1 .. Len(s)
    BY <1>1
  <2> DEFINE r == RemoveAt(s, p)
  <2> HIDE DEF t
  <2>2. /\ r \in Seq(Object) /\ Len(r) = Len(s) - 1
        /\ \A i \in 1 .. p - 1 : r[i] = s[i]
        /\ \A i \in p .. Len(s) - 1 : r[i] = s[i + 1]
    BY ONLY <2>1, RemoveParts
  <2>3. r = t
    BY <1>10 DEF t
  <2> HIDE DEF r
  <2> QED BY <2>2, <2>3
<1> HIDE DEF t
<1>12. DOMAIN t = 1 .. Len(s) - 1
  BY <1>11, LenProperties
<1>13. ASSUME NEW i \in 1 .. Len(s) - 1
       PROVE  \/ i < p /\ i \in 1 .. Len(s) /\ t[i] = s[i]
              \/ i >= p /\ i + 1 \in 1 .. Len(s) /\ t[i] = s[i + 1]
  <2>1. CASE i < p
    <3>1. i \in 1 .. p - 1 /\ i \in 1 .. Len(s)
      BY <2>1, <1>1
    <3> QED BY <2>1, <3>1, <1>11
  <2>2. CASE ~(i < p)
    <3>1. i >= p /\ i \in p .. Len(s) - 1 /\ i + 1 \in 1 .. Len(s)
      BY <2>2, <1>1
    <3> QED BY <3>1, <1>11
  <2> QED BY <2>1, <2>2
<1>14. \A i \in 1 .. Len(s) - 1 : t[i] \in S \ {e}
  <2> SUFFICES ASSUME NEW i \in 1 .. Len(s) - 1 PROVE t[i] \in S \ {e}
    OBVIOUS
  <2>1. \A j \in 1 .. Len(s) : j # p => s[j] \in S \ {e}
    BY <1>4, <1>5, <1>7
  <2>2. i < p => i # p
    BY <1>1
  <2>3. i >= p => i + 1 # p
    BY <1>1
  <2> QED BY <2>1, <2>2, <2>3, <1>13
<1>15. ToSet(t) = S \ {e}
  <2>1. ToSet(t) \subseteq S \ {e}
    BY <1>12, <1>14 DEF ToSet
  <2>2. ASSUME NEW q \in S \ {e} PROVE \E i \in 1 .. Len(s) - 1 : t[i] = q
    <3>1. PICK j \in 1 .. Len(s) : s[j] = q
      BY <1>1 DEF Lists, ToSet
    <3>2. j # p
      BY <3>1, <1>7
    <3>3. CASE j < p
      <4>1. j \in 1 .. p - 1 /\ j \in 1 .. Len(s) - 1
        BY <1>1, <3>3
      <4> QED BY <3>1, <4>1, <1>11
    <3>4. CASE j > p
      <4>1. j - 1 \in p .. Len(s) - 1 /\ j - 1 \in 1 .. Len(s) - 1 /\ j - 1 + 1 = j
        BY <1>1, <3>4
      <4> QED BY <3>1, <4>1, <1>11
    <3> QED BY <3>2, <3>3, <3>4, <1>1
  <2>3. \A i \in 1 .. Len(s) - 1 : t[i] \in ToSet(t)
    BY <1>12 DEF ToSet
  <2>4. S \ {e} \subseteq ToSet(t)
    BY <2>2, <2>3
  <2> QED BY <2>1, <2>4
<1>16. IsInjective(t)
  <2> SUFFICES ASSUME NEW i \in 1 .. Len(s) - 1, NEW j \in 1 .. Len(s) - 1, t[i] = t[j] PROVE i = j
    BY <1>12 DEF IsInjective
  <2>1. /\ (i < p /\ i \in 1 .. Len(s) /\ t[i] = s[i]) \/ (i >= p /\ i + 1 \in 1 .. Len(s) /\ t[i] = s[i + 1])
        /\ (j < p /\ j \in 1 .. Len(s) /\ t[j] = s[j]) \/ (j >= p /\ j + 1 \in 1 .. Len(s) /\ t[j] = s[j + 1])
    BY <1>13
  <2> DEFINE x == IF i < p THEN i ELSE i + 1
             y == IF j < p THEN j ELSE j + 1
  <2>2. x \in 1 .. Len(s) /\ y \in 1 .. Len(s) /\ t[i] = s[x] /\ t[j] = s[y]
    BY <2>1, <1>1
  <2>3. x = y
    <3> HIDE DEF x, y
    <3> QED BY <2>2, <1>5
  <2> QED BY <2>3, <1>1
<1>17. InOrder(t, a, val)
  <2> SUFFICES ASSUME NEW i \in 1 .. Len(s) - 1, NEW j \in 1 .. Len(s) - 1, i < j
               PROVE  ~Less(a, val[t[j]][a], val[t[i]][a])
    BY <1>12 DEF InOrder
  <2>1. /\ (i < p /\ i \in 1 .. Len(s) /\ t[i] = s[i]) \/ (i >= p /\ i + 1 \in 1 .. Len(s) /\ t[i] = s[i + 1])
        /\ (j < p /\ j \in 1 .. Len(s) /\ t[j] = s[j]) \/ (j >= p /\ j + 1 \in 1 .. Len(s) /\ t[j] = s[j + 1])
    BY <1>13
  <2> DEFINE x == IF i < p THEN i ELSE i + 1
             y == IF j < p THEN j ELSE j + 1
  <2>2. x \in 1 .. Len(s) /\ y \in 1 .. Len(s) /\ t[i] = s[x] /\ t[j] = s[y] /\ x < y
    BY <2>1, <1>1
  <2> HIDE DEF x, y
  <2> QED BY <2>2, <1>6
<1>18. found # {} /\ Lists(t, S \ {e}) /\ InOrder(t, a, val)
  BY <1>8, <1>11, <1>15, <1>16, <1>17 DEF Lists
<1> QED BY <1>18 DEF t, k, found, lo, up, d, Found

\* An arrangement of a finite set has each element once.
LEMMA ArrangementParts ==
  ASSUME NEW S, IsFiniteSet(S), NEW s \in SetToSeqs(S)
  PROVE  s \in Seq(S) /\ IsInjective(s) /\ ToSet(s) = S
<1> DEFINE n == Cardinality(S)
<1>1. n \in Nat
  BY FS_CardinalityType
<1>2. s \in [1 .. n -> S] /\ \A i, j \in 1 .. n : i # j => s[i] # s[j]
  BY DEF SetToSeqs
<1> HIDE DEF n
<1>3. s \in Injection(1 .. n, S)
  BY <1>2 DEF Injection, IsInjective
<1>4. Cardinality(1 .. n) = n
  BY <1>1, FS_Interval
<1>5. s \in Surjection(1 .. n, S)
  <2>1. Cardinality(1 .. n) = Cardinality(S) <=> s \in Surjection(1 .. n, S)
    BY <1>3, FS_Injection
  <2> QED BY <2>1, <1>4 DEF n
<1>6. s \in Seq(S)
  BY <1>1, <1>2, SeqDef
<1> QED BY <1>2, <1>3, <1>5, <1>6 DEF ToSet, Injection, Surjection

\* What is known of the data and their places.
LEMMA DataParts ==
  ASSUME TypeOK
  PROVE  /\ value \in Data /\ Values \subseteq [Attribute -> Nat]
         /\ place \in [DOMAIN place -> Attribute] /\ DOMAIN place \subseteq Nat
         /\ \A a \in Attribute : Offset(a) \in DOMAIN place /\ place[Offset(a)] = a
         /\ \A c \in Class : Instances(c) \in SUBSET Object
         /\ \A x \in Index : index[x] # NoIndex =>
                /\ index[x].class \in Class /\ index[x].attribute \in Attribute
                /\ index[x].offset \in DOMAIN place /\ index[x].objects \in Seq(Object)
<1>1. Values \subseteq [Attribute -> Nat]
  <2>1. \A a \in Attribute : ValuesOf[a] \subseteq Nat
    BY IndexAssumption
  <2> QED BY <2>1 DEF Values
<1>2. value \in Data
  <2>1. NoValues \in [Attribute -> Nat]
    BY DEF NoValues
  <2>2. value \in [Object -> Values \cup {NoValues}]
    BY DEF TypeOK
  <2> HIDE DEF Values, NoValues
  <2> QED BY <1>1, <2>1, <2>2 DEF Data
<1>3. place \in Seq(Attribute) /\ ToSet(place) = Attribute
  BY IndexAssumption, ArrangementParts DEF TypeOK
<1>4. place \in [DOMAIN place -> Attribute] /\ DOMAIN place \subseteq Nat
  BY <1>3, LenProperties
<1>5. ASSUME NEW a \in Attribute PROVE Offset(a) \in DOMAIN place /\ place[Offset(a)] = a
  <2>1. \E n \in DOMAIN place : place[n] = a
    BY <1>3 DEF ToSet
  <2> QED BY <2>1 DEF Offset
<1>6. \A x \in Index : index[x] # NoIndex =>
        /\ index[x].class \in Class /\ index[x].attribute \in Attribute
        /\ index[x].offset \in DOMAIN place /\ index[x].objects \in Seq(Object)
  BY DEF TypeOK
<1>7. \A c \in Class : Instances(c) \in SUBSET Object
  BY DEF Instances
<1> QED BY <1>1, <1>2, <1>4, <1>5, <1>6, <1>7

-----------------------------------------------------------------------------
(* The inductive invariant. *)

\* The members of an OksIndex.
Fields == [class : Class, attribute : Attribute, offset : DOMAIN place, objects : Seq(Object)]

\* The objects of the program have values of their attributes.
ValuesGiven == \A e \in Existing : value[e] \in Values

\* What a class has registered for an attribute is an index of both.
Registered ==
    \A c \in Class, a \in Attribute : indices[c][a] # NoIndex =>
        /\ index[indices[c][a]] # NoIndex
        /\ index[indices[c][a]].class = c /\ index[indices[c][a]].attribute = a

\* Index x is registered, finds its attribute at its offset, and has each
\* object of its class once and in order.
ExactIndex(x) ==
    LET a == index[x].attribute
    IN  /\ indices[index[x].class][a] = x
        /\ place[index[x].offset] = a
        /\ Lists(index[x].objects, Instances(index[x].class))
        /\ InOrder(index[x].objects, a, value)

AllExact ==
    careless \subseteq {"multiValues"} => \A x \in Index : index[x] # NoIndex => ExactIndex(x)

IndexInv == TypeOK /\ ValuesGiven /\ Registered /\ AllExact

\* The bounds an index is searched with are those of its list.
LEMMA BoundsAre ==
  ASSUME NEW x \in Index, NEW d
  PROVE  /\ UpperBound(x, d) = FirstOf(After(index[x].objects, place[index[x].offset], value, d))
         /\ LowerBound(x, d) = FirstOf(NotBefore(index[x].objects, place[index[x].offset], value, d))
BY DEF UpperBound, LowerBound, After, NotBefore, End, At

\* The initial states.
LEMMA InitInv == IndexInit => IndexInv
<1> SUFFICES ASSUME IndexInit PROVE IndexInv
  OBVIOUS
<1>1. TypeOK
  BY DEF IndexInit, TypeOK
<1>2. ValuesGiven
  BY DEF IndexInit, ValuesGiven, Existing
<1>3. Registered
  BY DEF IndexInit, Registered
<1>4. AllExact
  BY DEF IndexInit, AllExact
<1> QED BY <1>1, <1>2, <1>3, <1>4 DEF IndexInv

\* In new the registered indices of class c have the lists of list, and
\* nothing else is changed.
ListsReplaced(c, list, new) ==
    /\ new \in [Index -> {NoIndex} \cup Fields]
    /\ \A x \in Index :
         /\ new[x] # NoIndex <=> index[x] # NoIndex
         /\ index[x] # NoIndex => /\ new[x].class = index[x].class
                                  /\ new[x].attribute = index[x].attribute
                                  /\ new[x].offset = index[x].offset
         /\ (\E a \in Attribute : indices[c][a] = x) =>
                index[x].class = c /\ new[x].objects = list[x]
         /\ ~(\E a \in Attribute : indices[c][a] = x) => new[x] = index[x]

\* Reindexed does just that.
LEMMA ReindexedParts ==
  ASSUME IndexInv, NEW c \in Class, NEW list,
         \A x \in Index : index[x] # NoIndex => list[x] \in Seq(Object),
         NEW new, new = [x \in Index |-> IF \E a \in Attribute : indices[c][a] = x
                                         THEN [index[x] EXCEPT !.objects = list[x]] ELSE index[x]]
  PROVE  ListsReplaced(c, list, new)
<1>1. ASSUME NEW x \in Index
      PROVE  /\ new[x] \in {NoIndex} \cup Fields
             /\ new[x] # NoIndex <=> index[x] # NoIndex
             /\ index[x] # NoIndex => /\ new[x].class = index[x].class
                                      /\ new[x].attribute = index[x].attribute
                                      /\ new[x].offset = index[x].offset
             /\ (\E a \in Attribute : indices[c][a] = x) =>
                    index[x].class = c /\ new[x].objects = list[x]
             /\ ~(\E a \in Attribute : indices[c][a] = x) => new[x] = index[x]
  <2>1. new[x] = IF \E a \in Attribute : indices[c][a] = x
                 THEN [index[x] EXCEPT !.objects = list[x]] ELSE index[x]
    OBVIOUS
  <2>2. index[x] \in {NoIndex} \cup Fields
    BY DEF IndexInv, TypeOK, Fields
  <2>3. CASE \E a \in Attribute : indices[c][a] = x
    <3>1. index[x] # NoIndex /\ index[x].class = c
      BY <2>3, IndexAssumption DEF IndexInv, Registered
    <3>2. list[x] \in Seq(Object)
      BY <3>1
    <3> DEFINE r == index[x]
               l == list[x]
               t == [r EXCEPT !.objects = l]
    <3>3. r \in Fields /\ l \in Seq(Object) /\ new[x] = t
      BY <2>1, <2>2, <2>3, <3>1, <3>2
    <3>4. t \in Fields /\ t.class = r.class /\ t.attribute = r.attribute /\ t.offset = r.offset /\ t.objects = l
      <4> HIDE DEF r, l
      <4> QED BY <3>3 DEF Fields
    <3>5. NoIndex \notin Fields
      <4>1. DOMAIN place \subseteq Nat
        BY DataParts DEF IndexInv
      <4> QED BY <4>1, IndexAssumption DEF Fields
    <3> HIDE DEF t
    <3> QED BY <2>3, <3>1, <3>3, <3>4, <3>5
  <2>4. CASE ~\E a \in Attribute : indices[c][a] = x
    BY <2>1, <2>2, <2>4
  <2> QED BY <2>3, <2>4
<1> QED BY <1>1 DEF ListsReplaced

\* The registered indices stay so when the classes' lists are left alone.
LEMMA RegisteredKept ==
  ASSUME IndexInv, UNCHANGED indices,
         \A x \in Index : index[x] # NoIndex =>
            index'[x] # NoIndex /\ index'[x].class = index[x].class /\ index'[x].attribute = index[x].attribute
  PROVE  Registered'
<1> SUFFICES ASSUME NEW c \in Class, NEW a \in Attribute, indices[c][a] # NoIndex
             PROVE  /\ index'[indices[c][a]] # NoIndex
                    /\ index'[indices[c][a]].class = c /\ index'[indices[c][a]].attribute = a
  BY DEF Registered
<1>1. indices[c][a] \in Index
  BY DEF IndexInv, TypeOK
<1>2. index[indices[c][a]] # NoIndex /\ index[indices[c][a]].class = c /\ index[indices[c][a]].attribute = a
  BY DEF IndexInv, Registered
<1> QED BY <1>1, <1>2

\* Order and bounds depend on the values of the listed objects only.
LEMMA SameValuesSameOrder ==
  ASSUME NEW s \in Seq(Object), NEW a \in Attribute, NEW val, NEW new,
         \A i \in DOMAIN s : new[s[i]][a] = val[s[i]][a]
  PROVE  /\ InOrder(s, a, val) <=> InOrder(s, a, new)
         /\ \A d : After(s, a, val, d) = After(s, a, new, d)
<1>1. Len(s) \in Nat /\ DOMAIN s = 1 .. Len(s)
  BY LenProperties
<1>2. InOrder(s, a, val) <=> InOrder(s, a, new)
  BY DEF InOrder
<1>3. ASSUME NEW d PROVE After(s, a, val, d) = After(s, a, new, d)
  <2>1. ASSUME NEW m \in 1 .. Len(s) + 1
        PROVE  (m = Len(s) + 1 \/ Less(a, d, val[s[m]][a])) <=> (m = Len(s) + 1 \/ Less(a, d, new[s[m]][a]))
    <3>1. m = Len(s) + 1 \/ m \in 1 .. Len(s)
      BY <1>1
    <3> QED BY <3>1, <1>1
  <2> QED BY <2>1 DEF After
<1> QED BY <1>2, <1>3

\* The objects on a list are those it lists.
LEMMA ListedObjects ==
  ASSUME NEW s, NEW S, Lists(s, S)
  PROVE  s \in Seq(Object) /\ \A i \in DOMAIN s : s[i] \in S
BY DEF Lists, ToSet

\* An index is exact after a step that touches neither it, its place, its
\* registration, nor an object of its class.
LEMMA ExactKept ==
  ASSUME NEW x \in Index, ExactIndex(x), index[x].attribute \in Attribute, index'[x] = index[x],
         indices'[index[x].class][index[x].attribute] = x,
         place'[index[x].offset] = index[x].attribute,
         Instances(index[x].class)' = Instances(index[x].class),
         \A p \in Instances(index[x].class) : value'[p][index[x].attribute] = value[p][index[x].attribute]
  PROVE  ExactIndex(x)'
<1> DEFINE r == index[x]
<1>1. Lists(r.objects, Instances(r.class)) /\ InOrder(r.objects, r.attribute, value)
  BY DEF ExactIndex
<1>2. r.objects \in Seq(Object) /\ \A i \in DOMAIN r.objects : r.objects[i] \in Instances(r.class)
  BY <1>1, ListedObjects
<1>3. InOrder(r.objects, r.attribute, value')
  <2>1. \A i \in DOMAIN r.objects : value'[r.objects[i]][r.attribute] = value[r.objects[i]][r.attribute]
    BY <1>2
  <2> HIDE DEF r
  <2>2. r.attribute \in Attribute
    BY DEF r
  <2> QED BY <1>1, <1>2, <2>1, <2>2, SameValuesSameOrder
<1>4. Lists(r.objects, Instances(r.class)')
  BY <1>1
<1> QED BY <1>3, <1>4 DEF ExactIndex

\* A new object.
LEMMA CreateInv ==
  ASSUME IndexInv, NEW e \in Object, NEW c \in Class, NEW v \in Values, Create(e, c, v)
  PROVE  IndexInv'
<1> DEFINE list == [x \in Index |-> Insert(x, e, v[place[index[x].offset]])]
<1>1. /\ class[e] = NoClass /\ class' = [class EXCEPT ![e] = c] /\ value' = [value EXCEPT ![e] = v]
      /\ UNCHANGED <<place, indices, careless>>
  BY DEF Create
<1>2. index' = [x \in Index |-> IF \E a \in Attribute : indices[c][a] = x
                                THEN [index[x] EXCEPT !.objects = list[x]] ELSE index[x]]
  BY DEF Create, Reindexed
<1>3. /\ value \in Data /\ v \in [Attribute -> Nat] /\ place \in [DOMAIN place -> Attribute]
      /\ \A x \in Index : index[x] # NoIndex =>
             /\ index[x].class \in Class /\ index[x].attribute \in Attribute
             /\ index[x].offset \in DOMAIN place /\ index[x].objects \in Seq(Object)
      /\ \A d \in Class : Instances(d) \in SUBSET Object
  BY DataParts DEF IndexInv
<1>4. value' \in Data
  BY <1>1, <1>3 DEF Data
<1>5. /\ Instances(c)' = Instances(c) \cup {e} /\ e \notin Instances(c)
      /\ \A d \in Class : d # c => Instances(d)' = Instances(d) /\ e \notin Instances(d)
  <2>1. class \in [Object -> Class \cup {NoClass}]
    BY DEF IndexInv, TypeOK
  <2>2. \A p \in Object : class'[p] = IF p = e THEN c ELSE class[p]
    BY <1>1, <2>1
  <2> QED BY <1>1, <2>2, IndexAssumption DEF Instances
<1>6. \A p \in Object : p # e => value'[p] = value[p]
  BY <1>1, <1>3 DEF Data
<1>7. value'[e] = v
  BY <1>1, <1>3 DEF Data
<1>8. ASSUME NEW x \in Index, index[x] # NoIndex
      PROVE  list[x] \in Seq(Object)
  <2> DEFINE d == v[place[index[x].offset]]
             s == index[x].objects
  <2>1. s \in Seq(Object) /\ d \in Nat /\ place[index[x].offset] \in Attribute
    BY <1>3, <1>8
  <2>2. UpperBound(x, d) = FirstOf(After(s, place[index[x].offset], value, d))
    BY BoundsAre
  <2> DEFINE n == UpperBound(x, d)
  <2>3. n \in 1 .. Len(s) + 1
    <3> HIDE DEF d, s
    <3> QED BY <2>1, <2>2, <1>3, BoundParts
  <2>4. list[x] = InsertAt(s, n, e)
    BY DEF Insert
  <2> HIDE DEF n, s, list
  <2> QED BY <2>1, <2>3, <2>4, InsertParts
<1> HIDE DEF list
<1>9. ListsReplaced(c, list, index')
  <2> DEFINE new == index'
  <2>1. new = [x \in Index |-> IF \E a \in Attribute : indices[c][a] = x
                               THEN [index[x] EXCEPT !.objects = list[x]] ELSE index[x]]
    BY <1>2
  <2>2. \A x \in Index : index[x] # NoIndex => list[x] \in Seq(Object)
    BY <1>8
  <2> HIDE DEF new
  <2>3. ListsReplaced(c, list, new)
    BY <2>1, <2>2, ReindexedParts
  <2> QED BY <2>3 DEF new
<1>10. TypeOK'
  <2>1. class' \in [Object -> Class \cup {NoClass}] /\ value' \in [Object -> Values \cup {NoValues}]
    BY <1>1 DEF IndexInv, TypeOK
  <2> QED BY <2>1, <1>1, <1>9 DEF IndexInv, TypeOK, Fields, ListsReplaced
<1>11. ValuesGiven'
  <2>1. \A p \in Object : p # e => class'[p] = class[p]
    BY <1>1 DEF IndexInv, TypeOK
  <2> QED BY <2>1, <1>6, <1>7 DEF IndexInv, ValuesGiven, Existing
<1>12. Registered'
  BY <1>1, <1>9, RegisteredKept DEF ListsReplaced
<1>13. AllExact'
  <2> SUFFICES ASSUME careless \subseteq {"multiValues"}, NEW x \in Index, index'[x] # NoIndex
               PROVE  ExactIndex(x)'
    BY <1>1 DEF AllExact
  <2>1. index[x] # NoIndex /\ ExactIndex(x)
    BY <1>9 DEF IndexInv, AllExact, ListsReplaced
  <2> DEFINE a == index[x].attribute
             s == index[x].objects
  <2>2. /\ indices[index[x].class][a] = x /\ place[index[x].offset] = a /\ a \in Attribute
        /\ Lists(s, Instances(index[x].class)) /\ InOrder(s, a, value)
    BY <2>1, <1>3 DEF ExactIndex
  <2>3. CASE \E b \in Attribute : indices[c][b] = x
    <3>1. index[x].class = c /\ index'[x].class = c /\ index'[x].attribute = a /\ index'[x].offset = index[x].offset /\ index'[x].objects = list[x]
      BY <2>1, <2>3, <1>9 DEF ListsReplaced
    <3>2. list[x] = InsertAt(s, FirstOf(After(s, a, value, v[a])), e)
      <4>1. UpperBound(x, v[a]) = FirstOf(After(s, a, value, v[a]))
        BY <2>2, BoundsAre
      <4>2. list[x] = Insert(x, e, v[a])
        BY <2>2 DEF list
      <4> QED BY <4>1, <4>2 DEF Insert
    <3>3. Lists(s, Instances(c)) /\ s \in Seq(Object) /\ \A i \in DOMAIN s : s[i] \in Instances(c)
      BY <2>2, <3>1, ListedObjects
    <3>4. \A i \in DOMAIN s : value'[s[i]][a] = value[s[i]][a]
      BY <3>3, <1>5, <1>6, <1>3
    <3>5. InOrder(s, a, value') /\ After(s, a, value, v[a]) = After(s, a, value', v[a])
      <4> HIDE DEF s, a
      <4> QED BY <2>2, <3>3, <3>4, SameValuesSameOrder
    <3> DEFINE t == InsertAt(s, FirstOf(After(s, a, value', value'[e][a])), e)
    <3>6. Lists(t, Instances(c) \cup {e}) /\ InOrder(t, a, value')
      <4> HIDE DEF s, a
      <4>1. e \in Object \ Instances(c) /\ Instances(c) \in SUBSET Object
        BY <1>3, <1>5
      <4> QED BY <4>1, <2>2, <3>3, <3>5, <1>4, InsertKeepsOrder
    <3>7. list[x] = t
      BY <3>2, <3>5, <1>7
    <3> HIDE DEF t
    <3> QED BY <3>1, <3>6, <3>7, <2>2, <1>1, <1>5 DEF ExactIndex
  <2>4. CASE ~\E b \in Attribute : indices[c][b] = x
    <3>1. index'[x] = index[x] /\ index[x].class # c /\ index[x].class \in Class
      BY <2>1, <2>2, <2>4, <1>3, <1>9 DEF ListsReplaced
    <3>2. Instances(index[x].class)' = Instances(index[x].class) /\ e \notin Instances(index[x].class)
      BY <3>1, <1>5
    <3>3. \A p \in Instances(index[x].class) : value'[p][a] = value[p][a]
      BY <3>1, <3>2, <1>3, <1>6
    <3> QED BY <2>1, <2>2, <3>1, <3>2, <3>3, <1>1, ExactKept
  <2> QED BY <2>3, <2>4
<1> QED BY <1>10, <1>11, <1>12, <1>13 DEF IndexInv

\* Taking an object out of an index: what is left is a list of objects, and
\* exact when the index was.
LEMMA RemoveObjParts ==
  ASSUME IndexInv, NEW x \in Index, index[x] # NoIndex, NEW e \in Object
  PROVE  /\ RemoveObj(x, e) \in Seq(Object)
         /\ ExactIndex(x) /\ e \in Instances(index[x].class) =>
                /\ Lists(RemoveObj(x, e), Instances(index[x].class) \ {e})
                /\ InOrder(RemoveObj(x, e), index[x].attribute, value)
<1> DEFINE s == index[x].objects
           b == place[index[x].offset]
           d == value[e][b]
           lo == FirstOf(NotBefore(s, b, value, d))
           up == FirstOf(After(s, b, value, d))
           found == {n \in lo .. up - 1 : s[n] = e}
<1>1. /\ value \in Data /\ place \in [DOMAIN place -> Attribute]
      /\ index[x].class \in Class /\ index[x].attribute \in Attribute
      /\ index[x].offset \in DOMAIN place /\ s \in Seq(Object)
      /\ Instances(index[x].class) \in SUBSET Object
  BY DataParts DEF IndexInv
<1>2. b \in Attribute /\ d \in Nat
  BY <1>1 DEF Data
<1>3. RemoveObj(x, e) = IF found = {} THEN s ELSE RemoveAt(s, FirstOf(found))
  BY BoundsAre DEF RemoveObj
<1> HIDE DEF d
<1>4. Len(s) \in Nat /\ lo \in 1 .. Len(s) + 1 /\ up \in 1 .. Len(s) + 1
  <2> HIDE DEF s, b
  <2> QED BY <1>1, <1>2, BoundParts, LenProperties
<1> HIDE DEF lo, up
<1>5. RemoveObj(x, e) \in Seq(Object)
  <2>1. CASE found = {}
    BY <2>1, <1>1, <1>3
  <2>2. CASE found # {}
    <3>1. found \in SUBSET Nat /\ \A n \in found : n \in 1 .. Len(s)
      BY <1>4
    <3> DEFINE k == FirstOf(found)
    <3>2. k \in 1 .. Len(s)
      <4> HIDE DEF found
      <4>1. FirstOf(found) \in found
        BY <3>1, <2>2, FirstOfParts
      <4> QED BY <4>1, <3>1
    <3>3. RemoveObj(x, e) = RemoveAt(s, k)
      BY <1>3, <2>2
    <3> HIDE DEF k, s, found
    <3>4. s \in Seq(Object)
      BY <1>1 DEF s
    <3>5. RemoveAt(s, k) \in Seq(Object)
      BY ONLY <3>2, <3>4, RemoveParts
    <3> QED BY <3>3, <3>5
  <2> QED BY <2>1, <2>2
<1>6. ASSUME ExactIndex(x), e \in Instances(index[x].class)
      PROVE  /\ Lists(RemoveObj(x, e), Instances(index[x].class) \ {e})
             /\ InOrder(RemoveObj(x, e), index[x].attribute, value)
  <2> DEFINE S == Instances(index[x].class)
             r == RemoveAt(s, FirstOf(found))
  <2>1. Lists(s, S) /\ InOrder(s, b, value) /\ b = index[x].attribute
    BY <1>6 DEF ExactIndex
  <2>2. found # {} /\ Lists(r, S \ {e}) /\ InOrder(r, b, value)
    <3>1. S \in SUBSET Object /\ e \in S
      BY <1>1, <1>6
    <3>2. value \in Data
      BY <1>1
    <3> HIDE DEF s, b, S
    <3> DEFINE f == Found(s, b, value, e)
    <3>3. f # {} /\ Lists(RemoveAt(s, FirstOf(f)), S \ {e}) /\ InOrder(RemoveAt(s, FirstOf(f)), b, value)
      BY ONLY <2>1, <3>1, <3>2, <1>2, RemoveKeepsOrder
    <3>4. f = found
      BY DEF Found, lo, up, d
    <3> HIDE DEF f
    <3> QED BY <3>3, <3>4
  <2>3. RemoveObj(x, e) = r
    BY <1>3, <2>2
  <2> HIDE DEF r, S, found, s
  <2> QED BY <2>1, <2>2, <2>3 DEF S
<1> QED BY <1>5, <1>6

\* The destruction of an object.
LEMMA DestroyInv ==
  ASSUME IndexInv, NEW e \in Object, Destroy(e)
  PROVE  IndexInv'
<1>0. PICK c \in Class : c = class[e]
  BY DEF IndexInv, TypeOK, Destroy
<1> DEFINE list == [x \in Index |-> RemoveObj(x, e)]
<1>1. /\ class[e] # NoClass /\ class' = [class EXCEPT ![e] = NoClass]
      /\ value' = [value EXCEPT ![e] = NoValues] /\ UNCHANGED <<place, indices, careless>>
  BY DEF Destroy
<1>2. index' = [x \in Index |-> IF \E a \in Attribute : indices[c][a] = x
                                THEN [index[x] EXCEPT !.objects = list[x]] ELSE index[x]]
  BY <1>0 DEF Destroy, Reindexed
<1>3. /\ value \in Data /\ class \in [Object -> Class \cup {NoClass}]
      /\ \A x \in Index : index[x] # NoIndex =>
             /\ index[x].class \in Class /\ index[x].attribute \in Attribute
             /\ index[x].objects \in Seq(Object)
      /\ \A k \in Class : Instances(k) \in SUBSET Object
  BY <1>1, DataParts DEF IndexInv, TypeOK
<1>4. \A p \in Object : p # e => value'[p] = value[p] /\ class'[p] = class[p]
  BY <1>1, <1>3 DEF Data
<1>5. /\ Instances(c)' = Instances(c) \ {e} /\ e \in Instances(c)
      /\ \A k \in Class : k # c => Instances(k)' = Instances(k) /\ e \notin Instances(k)
  <2>1. class'[e] = NoClass
    BY <1>1, <1>3
  <2> QED BY <1>0, <1>3, <1>4, <2>1, IndexAssumption DEF Instances
<1>6. \A x \in Index : index[x] # NoIndex => list[x] \in Seq(Object)
  BY RemoveObjParts
<1>7. ListsReplaced(c, list, index')
  <2> HIDE DEF list
  <2> DEFINE new == index'
  <2>1. new = [x \in Index |-> IF \E a \in Attribute : indices[c][a] = x
                               THEN [index[x] EXCEPT !.objects = list[x]] ELSE index[x]]
    BY <1>2
  <2> HIDE DEF new
  <2>2. ListsReplaced(c, list, new)
    BY <2>1, <1>3, <1>6, ReindexedParts
  <2> QED BY <2>2 DEF new
<1>8. TypeOK'
  <2>1. class' \in [Object -> Class \cup {NoClass}] /\ value' \in [Object -> Values \cup {NoValues}]
    BY <1>1 DEF IndexInv, TypeOK
  <2> QED BY <2>1, <1>1, <1>7 DEF IndexInv, TypeOK, Fields, ListsReplaced
<1>9. ValuesGiven'
  <2>1. class'[e] = NoClass
    BY <1>1, <1>3
  <2> QED BY <2>1, <1>4 DEF IndexInv, ValuesGiven, Existing
<1>10. Registered'
  BY <1>1, <1>7, RegisteredKept DEF ListsReplaced
<1>11. AllExact'
  <2> SUFFICES ASSUME careless \subseteq {"multiValues"}, NEW x \in Index, index'[x] # NoIndex
               PROVE  ExactIndex(x)'
    BY <1>1 DEF AllExact
  <2>1. index[x] # NoIndex /\ ExactIndex(x)
    BY <1>7 DEF IndexInv, AllExact, ListsReplaced
  <2> DEFINE a == index[x].attribute
             s == list[x]
  <2>2. /\ indices[index[x].class][a] = x /\ place[index[x].offset] = a /\ a \in Attribute
    BY <2>1, <1>3 DEF ExactIndex
  <2>3. CASE \E b \in Attribute : indices[c][b] = x
    <3>1. index[x].class = c /\ index'[x].class = c /\ index'[x].attribute = a /\ index'[x].offset = index[x].offset /\ index'[x].objects = s
      BY <2>1, <2>3, <1>7 DEF ListsReplaced
    <3>2. Lists(s, Instances(c) \ {e}) /\ InOrder(s, a, value) /\ s \in Seq(Object)
      BY <2>1, <3>1, <1>5, RemoveObjParts
    <3>3. \A i \in DOMAIN s : s[i] \in Instances(c) \ {e}
      BY <3>2, ListedObjects
    <3>4. \A i \in DOMAIN s : value'[s[i]][a] = value[s[i]][a]
      BY <3>3, <1>3, <1>4
    <3>5. InOrder(s, a, value')
      <4> HIDE DEF s, a
      <4> QED BY <2>2, <3>2, <3>4, SameValuesSameOrder
    <3> HIDE DEF s, list
    <3> QED BY <3>1, <3>2, <3>5, <2>2, <1>1, <1>5 DEF ExactIndex
  <2>4. CASE ~\E b \in Attribute : indices[c][b] = x
    <3>1. index'[x] = index[x] /\ index[x].class # c /\ index[x].class \in Class
      BY <2>1, <2>2, <2>4, <1>3, <1>7 DEF ListsReplaced
    <3>2. Instances(index[x].class)' = Instances(index[x].class) /\ e \notin Instances(index[x].class)
      BY <3>1, <1>5
    <3>3. \A p \in Instances(index[x].class) : value'[p][a] = value[p][a]
      BY <3>1, <3>2, <1>3, <1>4
    <3> QED BY <2>1, <2>2, <3>1, <3>2, <3>3, <1>1, ExactKept
  <2> QED BY <2>3, <2>4
<1> QED BY <1>8, <1>9, <1>10, <1>11 DEF IndexInv

\* An index that is exact has a class with an index.
LEMMA ExactIsIndexed ==
  ASSUME IndexInv, NEW x \in Index, index[x] # NoIndex, ExactIndex(x)
  PROVE  index[x].class \in Class /\ Indexed(index[x].class)
<1>1. index[x].class \in Class /\ index[x].attribute \in Attribute
  BY DataParts DEF IndexInv
<1> QED BY <1>1, IndexAssumption DEF ExactIndex, Indexed

\* Values read again by a reload.
LEMMA RereadInv ==
  ASSUME IndexInv, NEW e \in Object, NEW v \in Values, Reread(e, v)
  PROVE  IndexInv'
<1>1. /\ class[e] # NoClass /\ value' = [value EXCEPT ![e] = v]
      /\ UNCHANGED <<class, place, index, indices, careless>>
      /\ Indexed(class[e]) => "reload" \in careless
  BY DEF Reread
<1>2. value \in Data
  BY DataParts DEF IndexInv
<1>3. value'[e] = v /\ \A p \in Object : p # e => value'[p] = value[p]
  BY <1>1, <1>2 DEF Data
<1>4. TypeOK'
  <2>1. value' \in [Object -> Values \cup {NoValues}]
    BY <1>1 DEF IndexInv, TypeOK
  <2> QED BY <2>1, <1>1 DEF IndexInv, TypeOK
<1>5. ValuesGiven'
  BY <1>1, <1>3 DEF IndexInv, ValuesGiven, Existing
<1>6. Registered'
  BY <1>1 DEF IndexInv, Registered
<1>7. AllExact'
  <2> SUFFICES ASSUME careless \subseteq {"multiValues"}, NEW x \in Index, index[x] # NoIndex
               PROVE  ExactIndex(x)'
    BY <1>1 DEF AllExact
  <2>1. ExactIndex(x)
    BY DEF IndexInv, AllExact
  <2>2. index[x].class # class[e]
    BY <2>1, <1>1, ExactIsIndexed
  <2>3. index[x].attribute \in Attribute /\ index[x].class \in Class
    BY DataParts DEF IndexInv
  <2>4. Instances(index[x].class)' = Instances(index[x].class)
    BY <1>1 DEF Instances
  <2>5. \A p \in Instances(index[x].class) : value'[p][index[x].attribute] = value[p][index[x].attribute]
    BY <2>2, <1>3 DEF Instances
  <2>6. /\ index'[x] = index[x] /\ indices'[index[x].class][index[x].attribute] = x
        /\ place'[index[x].offset] = index[x].attribute
    BY <2>1, <1>1 DEF ExactIndex
  <2> QED BY <2>1, <2>3, <2>4, <2>5, <2>6, ExactKept
<1> QED BY <1>4, <1>5, <1>6, <1>7 DEF IndexInv

\* Two attributes swapped.
LEMMA SwapInv ==
  ASSUME IndexInv, NEW m, NEW n, SwapAttributes(m, n)
  PROVE  IndexInv'
<1>1. /\ m \in DOMAIN place /\ n \in DOMAIN place /\ place' = [place EXCEPT ![m] = place[n], ![n] = place[m]]
      /\ UNCHANGED <<class, value, index, indices, careless>>
      /\ (\E c \in Class : Indexed(c)) => "swap" \in careless
  BY DEF SwapAttributes
<1>2. place' \in SetToSeqs(Attribute) /\ DOMAIN place' = DOMAIN place
  <2> DEFINE D == 1 .. Cardinality(Attribute)
             q == [place EXCEPT ![m] = place[n], ![n] = place[m]]
  <2>1. place \in [D -> Attribute] /\ \A i, j \in D : i # j => place[i] # place[j]
    BY DEF IndexInv, TypeOK, SetToSeqs
  <2> HIDE DEF D
  <2>2. m \in D /\ n \in D
    BY <2>1, <1>1
  <2>3. q \in [D -> Attribute] /\ \A i \in D : q[i] = IF i = n THEN place[m] ELSE IF i = m THEN place[n] ELSE place[i]
    BY <2>1, <2>2
  <2> HIDE DEF q
  <2>4. \A i, j \in D : i # j => q[i] # q[j]
    BY <2>1, <2>2, <2>3
  <2>5. place' = q
    BY <1>1 DEF q
  <2>6. q \in SetToSeqs(Attribute)
    BY <2>3, <2>4 DEF SetToSeqs, D
  <2> QED BY <2>1, <2>3, <2>5, <2>6
<1>3. TypeOK'
  BY <1>1, <1>2 DEF IndexInv, TypeOK
<1>4. ValuesGiven' /\ Registered'
  BY <1>1 DEF IndexInv, ValuesGiven, Existing, Registered
<1>5. AllExact'
  <2> SUFFICES ASSUME careless \subseteq {"multiValues"}, NEW x \in Index, index[x] # NoIndex
               PROVE  FALSE
    BY <1>1 DEF AllExact
  <2>1. ExactIndex(x)
    BY DEF IndexInv, AllExact
  <2> QED BY <2>1, <1>1, ExactIsIndexed
<1> QED BY <1>3, <1>4, <1>5 DEF IndexInv

\* Moving an object in an index to the place of its new value.
LEMMA MovedParts ==
  ASSUME IndexInv, NEW x \in Index, index[x] # NoIndex, NEW e \in Object, NEW v \in Nat
  PROVE  /\ Moved(x, e, v) \in Seq(Object)
         /\ \A new \in Data :
              /\ ExactIndex(x) /\ e \in Instances(index[x].class)
              /\ new[e][index[x].attribute] = v
              /\ \A p \in Object : p # e => new[p] = value[p]
              => /\ Lists(Moved(x, e, v), Instances(index[x].class))
                 /\ InOrder(Moved(x, e, v), index[x].attribute, new)
<1> DEFINE s == RemoveObj(x, e)
           b == place[index[x].offset]
           n == FirstOf(After(s, b, value, v))
<1>1. /\ value \in Data /\ place \in [DOMAIN place -> Attribute]
      /\ index[x].class \in Class /\ index[x].attribute \in Attribute
      /\ index[x].offset \in DOMAIN place
      /\ Instances(index[x].class) \in SUBSET Object
  BY DataParts DEF IndexInv
<1>2. b \in Attribute /\ s \in Seq(Object)
  BY <1>1, RemoveObjParts
<1>3. Moved(x, e, v) = InsertAt(s, n, e)
  BY DEF Moved, After
<1> HIDE DEF s, b
<1>4. n \in 1 .. Len(s) + 1
  BY <1>1, <1>2, BoundParts
<1>5. Moved(x, e, v) \in Seq(Object)
  <2> HIDE DEF n
  <2>1. InsertAt(s, n, e) \in Seq(Object)
    BY <1>2, <1>4, InsertParts
  <2> QED BY <2>1, <1>3
<1>6. ASSUME NEW new \in Data, ExactIndex(x), e \in Instances(index[x].class),
             new[e][index[x].attribute] = v, \A p \in Object : p # e => new[p] = value[p]
      PROVE  /\ Lists(Moved(x, e, v), Instances(index[x].class))
             /\ InOrder(Moved(x, e, v), index[x].attribute, new)
  <2> DEFINE T == Instances(index[x].class)
             S == T \ {e}
             t == InsertAt(s, FirstOf(After(s, b, new, new[e][b])), e)
  <2>1. b = index[x].attribute /\ Lists(s, S) /\ InOrder(s, b, value)
    BY <1>6, RemoveObjParts DEF ExactIndex, b, s
  <2>2. S \in SUBSET Object /\ e \in Object \ S /\ S \cup {e} = T
    BY <1>1, <1>6
  <2> HIDE DEF T, S
  <2>3. \A i \in DOMAIN s : new[s[i]][b] = value[s[i]][b]
    <3>1. \A i \in DOMAIN s : s[i] \in S
      BY <2>1, ListedObjects
    <3> QED BY <3>1, <2>2, <1>6
  <2>4. InOrder(s, b, new) /\ After(s, b, value, v) = After(s, b, new, v)
    <3>1. b \in Attribute /\ s \in Seq(Object) /\ \A i \in DOMAIN s : new[s[i]][b] = value[s[i]][b]
      BY <2>3, <1>2
    <3>2. /\ InOrder(s, b, value) <=> InOrder(s, b, new)
          /\ \A d : After(s, b, value, d) = After(s, b, new, d)
      BY ONLY <3>1, SameValuesSameOrder
    <3> QED BY <2>1, <3>2
  <2>5. Lists(t, S \cup {e}) /\ InOrder(t, b, new)
    BY <2>1, <2>2, <2>4, <1>2, InsertKeepsOrder
  <2>6. t = Moved(x, e, v)
    BY <2>1, <2>4, <1>3, <1>6
  <2> HIDE DEF t
  <2> QED BY <2>1, <2>2, <2>5, <2>6 DEF T
<1> QED BY <1>5, <1>6

\* A new value of an attribute.
LEMMA SetAttributeValueInv ==
  ASSUME IndexInv, NEW e \in Object, NEW a \in Attribute, NEW v \in ValuesOf[a],
         SetAttributeValue(e, a, v)
  PROVE  IndexInv'
<1>1. PICK c \in Class : c = class[e]
  BY DEF IndexInv, TypeOK, SetAttributeValue
<1> DEFINE y == indices[c][a]
<1>2. /\ class[e] # NoClass /\ value' = [value EXCEPT ![e][a] = v]
      /\ index' = IF y = NoIndex THEN index ELSE [index EXCEPT ![y].objects = Moved(y, e, v)]
      /\ UNCHANGED <<class, place, indices, careless>>
  BY <1>1 DEF SetAttributeValue
<1>3. value \in Data /\ v \in Nat /\ index \in [Index -> {NoIndex} \cup Fields]
  BY DataParts, IndexAssumption DEF IndexInv, TypeOK, Fields
<1>4. /\ value' \in Data /\ value'[e][a] = v
      /\ \A p \in Object : p # e => value'[p] = value[p]
      /\ \A p \in Object, b \in Attribute : b # a => value'[p][b] = value[p][b]
  BY <1>2, <1>3 DEF Data
<1>5. value[e] \in Values /\ value'[e] \in Values
  <2>1. value[e] \in Values
    BY <1>2 DEF IndexInv, ValuesGiven, Existing
  <2>2. value'[e] = [value[e] EXCEPT ![a] = v]
    BY <1>2, <1>3 DEF Data
  <2> DEFINE q == value[e]
  <2> HIDE DEF q
  <2>3. [q EXCEPT ![a] = v] \in Values
    <3>1. q \in Values
      BY <2>1 DEF q
    <3>2. q \in [Attribute -> UNION {ValuesOf[b] : b \in Attribute}] /\ \A b \in Attribute : q[b] \in ValuesOf[b]
      BY <3>1 DEF Values
    <3> DEFINE U == UNION {ValuesOf[b] : b \in Attribute}
    <3>3. v \in U
      OBVIOUS
    <3> HIDE DEF U
    <3>4. [q EXCEPT ![a] = v] \in [Attribute -> U] /\ \A b \in Attribute : [q EXCEPT ![a] = v][b] \in ValuesOf[b]
      BY <3>2, <3>3 DEF U
    <3> QED BY <3>4 DEF Values, U
  <2> QED BY <2>1, <2>2, <2>3 DEF q
<1>6. ASSUME y # NoIndex
      PROVE  /\ y \in Index /\ index[y] # NoIndex /\ index[y].class = c /\ index[y].attribute = a
             /\ Moved(y, e, v) \in Seq(Object)
             /\ index' \in [Index -> {NoIndex} \cup Fields]
             /\ index'[y] \in Fields
             /\ index'[y].class = c /\ index'[y].attribute = a /\ index'[y].offset = index[y].offset
             /\ index'[y].objects = Moved(y, e, v)
             /\ \A x \in Index : x # y => index'[x] = index[x]
  <2>1. y \in Index /\ index[y] # NoIndex /\ index[y].class = c /\ index[y].attribute = a
    BY <1>6 DEF IndexInv, TypeOK, Registered
  <2>2. Moved(y, e, v) \in Seq(Object)
    BY <2>1, <1>3, MovedParts
  <2> DEFINE l == Moved(y, e, v)
             r == index[y]
             t == [r EXCEPT !.objects = l]
  <2>3. index' = [index EXCEPT ![y] = t]
    BY <1>2, <1>6
  <2>4. r \in Fields /\ l \in Seq(Object)
    BY <2>1, <2>2, <1>3
  <2>5. t \in Fields /\ t.class = r.class /\ t.attribute = r.attribute /\ t.offset = r.offset /\ t.objects = l
    <3> HIDE DEF r, l
    <3> QED BY <2>4 DEF Fields
  <2> HIDE DEF t, l, y
  <2>6. index' \in [Index -> {NoIndex} \cup Fields] /\ index'[y] = t /\ \A x \in Index : x # y => index'[x] = index[x]
    BY <2>1, <2>3, <2>5, <1>3
  <2> QED BY <2>1, <2>2, <2>5, <2>6 DEF l
<1>7. index' \in [Index -> {NoIndex} \cup Fields]
  BY <1>2, <1>3, <1>6
<1>8. NoIndex \notin Fields
  <2>1. DOMAIN place \subseteq Nat
    BY DataParts DEF IndexInv
  <2> QED BY <2>1, IndexAssumption DEF Fields
<1>9. \A x \in Index :
         /\ index'[x] # NoIndex <=> index[x] # NoIndex
         /\ index[x] # NoIndex => index'[x].class = index[x].class /\ index'[x].attribute = index[x].attribute
  BY <1>2, <1>6, <1>8
<1> HIDE DEF y
<1>10. TypeOK'
  <2>1. value' \in [Object -> Values \cup {NoValues}]
    <3>1. value \in [Object -> Values \cup {NoValues}]
      BY DEF IndexInv, TypeOK
    <3>2. \A p \in Object : value'[p] \in Values \cup {NoValues}
      BY <3>1, <1>4, <1>5
    <3> QED BY <3>2, <1>4 DEF Data
  <2> QED BY <2>1, <1>2, <1>7 DEF IndexInv, TypeOK, Fields
<1>11. ValuesGiven'
  BY <1>2, <1>4, <1>5 DEF IndexInv, ValuesGiven, Existing
<1>12. Registered'
  BY <1>2, <1>9, RegisteredKept
<1>13. AllExact'
  <2> SUFFICES ASSUME careless \subseteq {"multiValues"}, NEW x \in Index, index'[x] # NoIndex
               PROVE  ExactIndex(x)'
    BY <1>2 DEF AllExact
  <2>1. index[x] # NoIndex /\ ExactIndex(x)
    BY <1>9 DEF IndexInv, AllExact
  <2>2. /\ index[x].class \in Class /\ index[x].attribute \in Attribute
        /\ indices[index[x].class][index[x].attribute] = x
        /\ place[index[x].offset] = index[x].attribute
        /\ Instances(index[x].class) \in SUBSET Object
    BY <2>1, DataParts DEF IndexInv, ExactIndex
  <2>3. \A k \in Class : Instances(k)' = Instances(k)
    BY <1>2 DEF Instances
  <2>4. CASE x = y
    <3>1. y # NoIndex
      BY <2>4, IndexAssumption
    <3>2. e \in Instances(c)
      BY <1>1 DEF Instances
    <3>3. Lists(Moved(x, e, v), Instances(c)) /\ InOrder(Moved(x, e, v), a, value')
      <4> DEFINE new == value'
      <4>1. /\ new \in Data /\ new[e][a] = v /\ \A p \in Object : p # e => new[p] = value[p]
        BY <1>4
      <4>2. index[x].class = c /\ index[x].attribute = a /\ v \in Nat
        BY <2>4, <3>1, <1>3, <1>6
      <4> HIDE DEF new
      <4>3. Lists(Moved(x, e, v), Instances(c)) /\ InOrder(Moved(x, e, v), a, new)
        BY <4>1, <4>2, <2>1, <3>2, MovedParts
      <4> QED BY <4>3 DEF new
    <3>4. /\ index'[x].class = c /\ index'[x].attribute = a /\ index'[x].offset = index[x].offset
          /\ index'[x].objects = Moved(x, e, v) /\ index[x].class = c /\ index[x].attribute = a
      BY <2>4, <3>1, <1>6
    <3> QED BY <3>3, <3>4, <2>2, <2>3, <1>2 DEF ExactIndex
  <2>5. CASE x # y
    <3>1. index'[x] = index[x]
      BY <2>5, <1>2, <1>6
    <3>2. ~(index[x].class = c /\ index[x].attribute = a)
      BY <2>2, <2>5 DEF y
    <3>3. \A p \in Instances(index[x].class) : value'[p][index[x].attribute] = value[p][index[x].attribute]
      <4> SUFFICES ASSUME NEW p \in Instances(index[x].class)
                   PROVE  value'[p][index[x].attribute] = value[p][index[x].attribute]
        OBVIOUS
      <4>1. p \in Object /\ (p = e => index[x].class = c)
        BY <1>1 DEF Instances
      <4> QED BY <4>1, <3>2, <2>2, <1>4
    <3> QED BY <2>1, <2>2, <2>3, <3>1, <3>3, <1>2, ExactKept
  <2> QED BY <2>4, <2>5
<1> QED BY <1>10, <1>11, <1>12, <1>13 DEF IndexInv

\* A new index.
LEMMA NewIndexInv ==
  ASSUME IndexInv, NEW x \in Index, NEW c \in Class, NEW a \in Attribute, NewIndex(x, c, a)
  PROVE  IndexInv'
<1>1. index[x] = NoIndex /\ UNCHANGED <<class, value, place, careless>>
  BY DEF NewIndex
<1>2. /\ index \in [Index -> {NoIndex} \cup Fields] /\ Offset(a) \in DOMAIN place /\ place[Offset(a)] = a
      /\ Instances(c) \in SUBSET Object /\ indices \in [Class -> [Attribute -> Index \cup {NoIndex}]]
  BY DataParts DEF IndexInv, TypeOK, Fields
<1>3. PICK s : /\ index' = [index EXCEPT ![x] =
                      [class |-> c, attribute |-> a, offset |-> Offset(a), objects |-> s]]
               /\ \/ /\ indices[c][a] = NoIndex /\ s \in SortedInstances(c, a)
                     /\ indices' = [indices EXCEPT ![c][a] = x]
                  \/ "secondIndex" \in careless /\ s = <<>> /\ UNCHANGED indices
  BY DEF NewIndex
<1>4. s \in SortedInstances(c, a) => Lists(s, Instances(c)) /\ InOrder(s, a, value)
  <2> SUFFICES ASSUME s \in SortedInstances(c, a) PROVE Lists(s, Instances(c)) /\ InOrder(s, a, value)
    OBVIOUS
  <2> DEFINE S == Instances(c)
  <2>1. s \in SetToSeqs(S) /\ \A m, n \in DOMAIN s : m < n => ~Less(a, value[s[n]][a], value[s[m]][a])
    BY DEF SortedInstances
  <2>2. S \subseteq Object /\ IsFiniteSet(S)
    BY <1>2, IndexAssumption, FS_Subset
  <2> HIDE DEF S
  <2>3. s \in Seq(S) /\ IsInjective(s) /\ ToSet(s) = S
    BY <2>1, <2>2, ArrangementParts
  <2>4. s \in Seq(Object)
    BY <2>2, <2>3, SeqMonotonic
  <2> QED BY <2>1, <2>3, <2>4 DEF Lists, InOrder, S
<1> DEFINE r == [class |-> c, attribute |-> a, offset |-> Offset(a), objects |-> s]
<1>5. r \in Fields
  <2>1. s \in Seq(Object)
    BY <1>3, <1>4, EmptySeq DEF Lists
  <2> QED BY <2>1, <1>2 DEF Fields
<1>6. r.class = c /\ r.attribute = a /\ r.offset = Offset(a) /\ r.objects = s
  OBVIOUS
<1> HIDE DEF r
<1>7. /\ index' \in [Index -> {NoIndex} \cup Fields] /\ index'[x] = r
      /\ \A z \in Index : z # x => index'[z] = index[z]
  BY <1>2, <1>3, <1>5 DEF r
<1>8. r # NoIndex
  <2>1. DOMAIN place \subseteq Nat
    BY DataParts DEF IndexInv
  <2> QED BY <2>1, <1>5, IndexAssumption DEF Fields
<1>9. /\ indices' \in [Class -> [Attribute -> Index \cup {NoIndex}]]
      /\ \A k \in Class, b \in Attribute :
             (k = c /\ b = a /\ indices'[k][b] = x) \/ indices'[k][b] = indices[k][b]
      /\ \A k \in Class, b \in Attribute :
             indices[k][b] # NoIndex => indices'[k][b] = indices[k][b]
  <2>1. CASE indices[c][a] = NoIndex /\ indices' = [indices EXCEPT ![c][a] = x]
    BY <2>1, <1>2
  <2>2. CASE UNCHANGED indices
    BY <2>2, <1>2
  <2> QED BY <2>1, <2>2, <1>3
<1>10. TypeOK'
  BY <1>1, <1>7, <1>9 DEF IndexInv, TypeOK, Fields
<1>11. ValuesGiven'
  BY <1>1 DEF IndexInv, ValuesGiven, Existing
<1>12. Registered'
  <2> SUFFICES ASSUME NEW k \in Class, NEW b \in Attribute, indices'[k][b] # NoIndex
               PROVE  /\ index'[indices'[k][b]] # NoIndex
                      /\ index'[indices'[k][b]].class = k /\ index'[indices'[k][b]].attribute = b
    BY DEF Registered
  <2>1. CASE k = c /\ b = a /\ indices'[k][b] = x
    BY <2>1, <1>6, <1>7, <1>8
  <2>2. CASE indices'[k][b] = indices[k][b]
    <3>1. /\ indices[k][b] \in Index /\ index[indices[k][b]] # NoIndex
          /\ index[indices[k][b]].class = k /\ index[indices[k][b]].attribute = b
      BY <2>2, <1>2 DEF IndexInv, Registered
    <3> QED BY <2>2, <3>1, <1>1, <1>7
  <2> QED BY <2>1, <2>2, <1>9
<1>13. AllExact'
  <2> SUFFICES ASSUME careless \subseteq {"multiValues"}, NEW z \in Index, index'[z] # NoIndex
               PROVE  ExactIndex(z)'
    BY <1>1 DEF AllExact
  <2>1. \A k \in Class : Instances(k)' = Instances(k)
    BY <1>1 DEF Instances
  <2>2. CASE z = x
    <3>1. indices'[c][a] = x /\ s \in SortedInstances(c, a)
      BY <1>2, <1>3
    <3> QED BY <2>1, <2>2, <3>1, <1>1, <1>2, <1>4, <1>6, <1>7 DEF ExactIndex
  <2>3. CASE z # x
    <3>1. index'[z] = index[z] /\ index[z] # NoIndex
      BY <2>3, <1>7
    <3>2. ExactIndex(z)
      BY <3>1 DEF IndexInv, AllExact
    <3>3. /\ index[z].class \in Class /\ index[z].attribute \in Attribute
          /\ indices[index[z].class][index[z].attribute] = z /\ place[index[z].offset] = index[z].attribute
      BY <3>1, <3>2, DataParts DEF IndexInv, ExactIndex
    <3>4. indices'[index[z].class][index[z].attribute] = z
      BY <3>3, <1>9, IndexAssumption
    <3> QED BY <2>1, <3>1, <3>2, <3>3, <3>4, <1>1, ExactKept
  <2> QED BY <2>2, <2>3
<1> QED BY <1>10, <1>11, <1>12, <1>13 DEF IndexInv

\* An index deleted.
LEMMA DeleteIndexInv ==
  ASSUME IndexInv, NEW x \in Index, DeleteIndex(x)
  PROVE  IndexInv'
<1>1. index[x] # NoIndex /\ UNCHANGED <<class, value, place, careless>> /\ index' = [index EXCEPT ![x] = NoIndex]
  BY DEF DeleteIndex
<1>2. /\ index \in [Index -> {NoIndex} \cup Fields] /\ indices \in [Class -> [Attribute -> Index \cup {NoIndex}]]
      /\ index[x].class \in Class /\ index[x].attribute \in Attribute
  BY <1>1, DataParts DEF IndexInv, TypeOK, Fields
<1>3. PICK c \in Class : c = index[x].class
  BY <1>2
<1>4. PICK a \in Attribute : a = index[x].attribute
  BY <1>2
<1>5. indices' = [indices EXCEPT ![c][a] = NoIndex]
  BY <1>3, <1>4 DEF DeleteIndex
<1>6. /\ index' \in [Index -> {NoIndex} \cup Fields] /\ index'[x] = NoIndex
      /\ \A z \in Index : z # x => index'[z] = index[z]
  BY <1>1, <1>2
<1>7. /\ indices' \in [Class -> [Attribute -> Index \cup {NoIndex}]] /\ indices'[c][a] = NoIndex
      /\ \A k \in Class, b \in Attribute : ~(k = c /\ b = a) => indices'[k][b] = indices[k][b]
  BY <1>2, <1>5
<1>8. TypeOK'
  BY <1>1, <1>6, <1>7 DEF IndexInv, TypeOK, Fields
<1>9. ValuesGiven'
  BY <1>1 DEF IndexInv, ValuesGiven, Existing
<1>10. Registered'
  <2> SUFFICES ASSUME NEW k \in Class, NEW b \in Attribute, indices'[k][b] # NoIndex
               PROVE  /\ index'[indices'[k][b]] # NoIndex
                      /\ index'[indices'[k][b]].class = k /\ index'[indices'[k][b]].attribute = b
    BY DEF Registered
  <2>1. ~(k = c /\ b = a) /\ indices'[k][b] = indices[k][b]
    BY <1>7
  <2>2. /\ indices[k][b] \in Index /\ index[indices[k][b]] # NoIndex
        /\ index[indices[k][b]].class = k /\ index[indices[k][b]].attribute = b
    BY <2>1, <1>2 DEF IndexInv, Registered
  <2>3. indices[k][b] # x
    BY <2>1, <2>2, <1>3, <1>4
  <2> QED BY <2>1, <2>2, <2>3, <1>6
<1>11. AllExact'
  <2> SUFFICES ASSUME careless \subseteq {"multiValues"}, NEW z \in Index, index'[z] # NoIndex
               PROVE  ExactIndex(z)'
    BY <1>1 DEF AllExact
  <2>1. \A k \in Class : Instances(k)' = Instances(k)
    BY <1>1 DEF Instances
  <2>2. z # x /\ index'[z] = index[z] /\ index[z] # NoIndex
    BY <1>6
  <2>3. ExactIndex(z) /\ ExactIndex(x)
    BY <2>2, <1>1 DEF IndexInv, AllExact
  <2>4. /\ index[z].class \in Class /\ index[z].attribute \in Attribute
        /\ indices[index[z].class][index[z].attribute] = z /\ place[index[z].offset] = index[z].attribute
        /\ indices[c][a] = x
    BY <2>2, <2>3, <1>3, <1>4, DataParts DEF IndexInv, ExactIndex
  <2>5. indices'[index[z].class][index[z].attribute] = z
    BY <2>2, <2>4, <1>7
  <2> QED BY <2>1, <2>2, <2>3, <2>4, <2>5, <1>1, ExactKept
<1> QED BY <1>8, <1>9, <1>10, <1>11 DEF IndexInv

\* Every step.
LEMMA NextInv == IndexInv /\ [IndexNext]_vars => IndexInv'
<1> SUFFICES ASSUME IndexInv, [IndexNext]_vars PROVE IndexInv'
  OBVIOUS
<1>1. CASE \E e \in Object, c \in Class, v \in Values : Create(e, c, v)
  BY <1>1, CreateInv
<1>2. CASE \E e \in Object : Destroy(e)
  BY <1>2, DestroyInv
<1>3. CASE \E e \in Object, a \in Attribute : \E v \in ValuesOf[a] : SetAttributeValue(e, a, v)
  BY <1>3, SetAttributeValueInv
<1>4. CASE \E e \in Object, v \in Values : Reread(e, v)
  BY <1>4, RereadInv
<1>5. CASE \E m, n \in DOMAIN place : m < n /\ SwapAttributes(m, n)
  BY <1>5, SwapInv
<1>6. CASE \E x \in Index, c \in Class, a \in Attribute : NewIndex(x, c, a)
  BY <1>6, NewIndexInv
<1>7. CASE \E x \in Index : DeleteIndex(x)
  BY <1>7, DeleteIndexInv
<1>8. CASE UNCHANGED vars
  <2>1. /\ class' = class /\ value' = value /\ place' = place
        /\ index' = index /\ indices' = indices /\ careless' = careless
    BY <1>8 DEF vars
  <2>2. TypeOK' /\ ValuesGiven' /\ Registered'
    BY <2>1 DEF IndexInv, TypeOK, ValuesGiven, Existing, Registered
  <2>3. AllExact'
    BY <2>1 DEF IndexInv, AllExact, ExactIndex, Instances
  <2> QED BY <2>2, <2>3 DEF IndexInv
<1> QED BY <1>1, <1>2, <1>3, <1>4, <1>5, <1>6, <1>7, <1>8 DEF IndexNext

-----------------------------------------------------------------------------
(* The theorems. *)

\* The inductive invariant holds whatever is created, destroyed or changed.
THEOREM IndexInvariant == IndexSpec => []IndexInv
<1>1. IndexInit => IndexInv
  BY InitInv
<1>2. IndexInv /\ [IndexNext]_vars => IndexInv'
  BY NextInv
<1> QED BY <1>1, <1>2, PTL DEF IndexSpec

\* The variables keep their types.
THEOREM IndexTypeCorrect == IndexSpec => []TypeOK
<1>1. IndexInv => TypeOK
  BY DEF IndexInv
<1> QED BY <1>1, IndexInvariant, PTL

\* An index holds each object of its class once, in the order of its attribute.
THEOREM IndicesAreExact == IndexSpec => []IndexIsExact
<1>1. IndexInv => IndexIsExact
  <2> SUFFICES ASSUME IndexInv, careless \subseteq {"multiValues"}, NEW x \in Index, index[x] # NoIndex
               PROVE  LET a == index[x].attribute
                      IN  /\ indices[index[x].class][a] = x
                          /\ IsInjective(index[x].objects)
                          /\ ToSet(index[x].objects) = Instances(index[x].class)
                          /\ a \notin Multi => \A m, n \in DOMAIN index[x].objects :
                                 m < n => value[index[x].objects[m]][a] <= value[index[x].objects[n]][a]
    BY DEF IndexIsExact
  <2> DEFINE s == index[x].objects
             a == index[x].attribute
  <2>1. ExactIndex(x)
    BY DEF IndexInv, AllExact
  <2>2. /\ indices[index[x].class][a] = x /\ Lists(s, Instances(index[x].class)) /\ InOrder(s, a, value)
        /\ value \in Data /\ a \in Attribute
    BY <2>1, DataParts DEF ExactIndex, IndexInv
  <2>3. ASSUME a \notin Multi, NEW m \in DOMAIN s, NEW n \in DOMAIN s, m < n
        PROVE  value[s[m]][a] <= value[s[n]][a]
    <3>1. s \in Seq(Object)
      BY <2>2 DEF Lists
    <3>2. s[m] \in Object /\ s[n] \in Object
      BY <3>1, LenProperties, ElementOfSeq
    <3>3. value[s[m]][a] \in Nat /\ value[s[n]][a] \in Nat
      BY <2>2, <3>2 DEF Data
    <3>4. ~(value[s[n]][a] < value[s[m]][a])
      BY <2>2, <2>3 DEF InOrder, Less
    <3> QED BY <3>3, <3>4
  <2> QED BY <2>2, <2>3 DEF Lists
<1> QED BY <1>1, IndexInvariant, PTL

-----------------------------------------------------------------------------
(* Searches. *)

\* The values of the listed objects, by position.
Keys(x) == [n \in 1 .. Len(index[x].objects) |-> At(x, n)]

\* Position p is end() or the first one with its value.
Start(K, L, p) == p \in 1 .. L + 1 /\ (p <= L => \A m \in 1 .. L : m < p => K[m] < K[p])

\* An index of values that can be compared, as it is between the calls of a
\* program without careless calls.
Searchable(x) == IndexInv /\ careless \subseteq {"multiValues"} /\ index[x] # NoIndex /\ index[x].attribute \notin Multi

\* Starts are ordered as their values are.
LEMMA StartOrder ==
  ASSUME NEW L \in Nat, NEW K \in [1 .. L -> Nat], NEW p, NEW q, Start(K, L, p), Start(K, L, q), p <= L, q <= L
  PROVE  (K[p] <= K[q] <=> p <= q) /\ (K[p] < K[q] <=> p < q)
<1>1. p \in 1 .. L /\ q \in 1 .. L /\ K[p] \in Nat /\ K[q] \in Nat
  BY DEF Start
<1>2. p < q => K[p] < K[q]
  BY <1>1 DEF Start
<1>3. q < p => K[q] < K[p]
  BY <1>1 DEF Start
<1>4. p < q \/ q < p \/ p = q
  BY <1>1
<1> QED BY <1>1, <1>2, <1>3, <1>4

\* What the bounds and the comparisons of positions are.
LEMMA SearchParts ==
  ASSUME NEW x \in Index, Searchable(x), NEW L, L = Len(index[x].objects), NEW K, K = Keys(x)
  PROVE  /\ L \in Nat /\ End(x) = L + 1 /\ K \in [1 .. L -> Nat]
         /\ \A m, n \in 1 .. L : m <= n => K[m] <= K[n]
         /\ \A m, n \in 1 .. L : (Lesser(x, m, n) <=> K[m] < K[n]) /\ (NotGreater(x, m, n) <=> K[m] <= K[n])
         /\ \A n \in 1 .. L : K[n] = value[index[x].objects[n]][index[x].attribute] /\ At(x, n) = K[n]
         /\ \A d \in Nat : Start(K, L, LowerBound(x, d)) /\ \A n \in 1 .. L : n < LowerBound(x, d) <=> K[n] < d
         /\ \A d \in Nat : Start(K, L, UpperBound(x, d)) /\ \A n \in 1 .. L : n < UpperBound(x, d) <=> K[n] <= d
<1> DEFINE s == index[x].objects
           a == index[x].attribute
<1>1. /\ place[index[x].offset] = a /\ Lists(s, Instances(index[x].class)) /\ InOrder(s, a, value)
      /\ value \in Data /\ a \in Attribute /\ a \notin Multi
  BY DataParts DEF Searchable, IndexInv, AllExact, ExactIndex
<1>2. s \in Seq(Object) /\ L \in Nat /\ DOMAIN s = 1 .. L /\ \A n \in 1 .. L : s[n] \in Object
  BY <1>1, LenProperties, ElementOfSeq DEF Lists
<1>3. \A n \in 1 .. L : K[n] = value[s[n]][a] /\ At(x, n) = K[n] /\ K[n] \in Nat
  BY <1>1, <1>2 DEF Keys, At, Data
<1>4. K \in [1 .. L -> Nat]
  BY <1>3 DEF Keys
<1>5. \A u, v \in Nat : (Less(a, u, v) <=> u < v) /\ (LessOrEqual(a, u, v) <=> u <= v)
  BY <1>1 DEF Less, LessOrEqual
<1>6. \A m, n \in 1 .. L : m <= n => K[m] <= K[n]
  <2> SUFFICES ASSUME NEW m \in 1 .. L, NEW n \in 1 .. L, m <= n PROVE K[m] <= K[n]
    OBVIOUS
  <2>1. CASE m = n
    BY <2>1, <1>3
  <2>2. CASE m < n
    <3>1. ~Less(a, value[s[n]][a], value[s[m]][a])
      BY <2>2, <1>1, <1>2 DEF InOrder
    <3>2. ~Less(a, K[n], K[m]) /\ K[n] \in Nat /\ K[m] \in Nat
      BY <3>1, <1>3
    <3>3. ~(K[n] < K[m])
      BY <3>2, <1>5
    <3> QED BY <3>2, <3>3
  <2> QED BY <2>1, <2>2, <1>2
<1>7. \A m, n \in 1 .. L : (Lesser(x, m, n) <=> K[m] < K[n]) /\ (NotGreater(x, m, n) <=> K[m] <= K[n])
  BY <1>1, <1>3, <1>5 DEF Lesser, NotGreater
<1>8. ASSUME NEW d \in Nat
      PROVE  Start(K, L, LowerBound(x, d)) /\ \A n \in 1 .. L : n < LowerBound(x, d) <=> K[n] < d
  <2> DEFINE p == FirstOf(NotBefore(s, a, value, d))
  <2>1. /\ p \in 1 .. L + 1 /\ (p = L + 1 \/ ~Less(a, value[s[p]][a], d))
        /\ \A m \in 1 .. L : m < p => Less(a, value[s[m]][a], d)
    BY <1>1, <1>2, BoundParts
  <2>2. LowerBound(x, d) = p
    BY <1>1, BoundsAre
  <2> HIDE DEF p
  <2>3. p <= L => p \in 1 .. L /\ K[p] >= d
    BY <2>1, <1>2, <1>3, <1>5
  <2>4. \A m \in 1 .. L : m < p => K[m] < d
    BY <2>1, <1>3, <1>5
  <2>5. Start(K, L, p)
    BY <2>1, <2>3, <2>4, <1>3 DEF Start
  <2>6. ASSUME NEW n \in 1 .. L, ~(n < p) PROVE ~(K[n] < d)
    <3>1. p <= L /\ p <= n
      BY <2>1, <2>6, <1>2
    <3>2. p \in 1 .. L /\ K[p] >= d /\ K[p] <= K[n]
      BY <2>3, <3>1, <1>6
    <3> QED BY <3>2, <1>3
  <2> QED BY <2>2, <2>4, <2>5, <2>6
<1>9. ASSUME NEW d \in Nat
      PROVE  Start(K, L, UpperBound(x, d)) /\ \A n \in 1 .. L : n < UpperBound(x, d) <=> K[n] <= d
  <2> DEFINE p == FirstOf(After(s, a, value, d))
  <2>1. /\ p \in 1 .. L + 1 /\ (p = L + 1 \/ Less(a, d, value[s[p]][a]))
        /\ \A m \in 1 .. L : m < p => ~Less(a, d, value[s[m]][a])
    BY <1>1, <1>2, BoundParts
  <2>2. UpperBound(x, d) = p
    BY <1>1, BoundsAre
  <2> HIDE DEF p
  <2>3. p <= L => p \in 1 .. L /\ K[p] > d
    BY <2>1, <1>2, <1>3, <1>5
  <2>4. \A m \in 1 .. L : m < p => K[m] <= d
    <3> SUFFICES ASSUME NEW m \in 1 .. L, m < p PROVE K[m] <= d
      OBVIOUS
    <3>1. ~(d < K[m]) /\ K[m] \in Nat
      BY <2>1, <1>3, <1>5
    <3> QED BY <3>1
  <2>5. Start(K, L, p)
    BY <2>1, <2>3, <2>4, <1>3 DEF Start
  <2>6. ASSUME NEW n \in 1 .. L, ~(n < p) PROVE ~(K[n] <= d)
    <3>1. p <= L /\ p <= n
      BY <2>1, <2>6, <1>2
    <3>2. p \in 1 .. L /\ K[p] > d /\ K[p] <= K[n]
      BY <2>3, <3>1, <1>6
    <3> QED BY <3>2, <1>3
  <2> QED BY <2>2, <2>4, <2>5, <2>6
<1> QED BY <1>2, <1>3, <1>4, <1>6, <1>7, <1>8, <1>9 DEF End

\* The comparisons find_interval knows.
Comparators == {"=", "<", "<=", ">", ">="}
Satisfies(f, v, d) ==
    \/ f = "=" /\ v = d
    \/ f = "<" /\ v < d
    \/ f = "<=" /\ v <= d
    \/ f = ">" /\ v > d
    \/ f = ">=" /\ v >= d

\* The interval [p, q] holds the positions with "value f d".
IsInterval(K, L, p, q, d, f) ==
    /\ Start(K, L, p) /\ Start(K, L, q) /\ p <= q
    /\ \A n \in 1 .. L : p <= n /\ n < q <=> Satisfies(f, K[n], d)

\* find_interval finds it.
LEMMA FindIntervalParts ==
  ASSUME NEW x \in Index, Searchable(x), NEW L, L = Len(index[x].objects), NEW K, K = Keys(x),
         NEW d \in Nat, NEW f \in Comparators
  PROVE  IsInterval(K, L, FindInterval(x, d, f)[1], FindInterval(x, d, f)[2], d, f)
<1> DEFINE lo == LowerBound(x, d)
           up == UpperBound(x, d)
<1>1. /\ L \in Nat /\ End(x) = L + 1 /\ K \in [1 .. L -> Nat]
      /\ \A m, n \in 1 .. L : m <= n => K[m] <= K[n]
      /\ Start(K, L, lo) /\ Start(K, L, up)
      /\ \A n \in 1 .. L : n < lo <=> K[n] < d
      /\ \A n \in 1 .. L : n < up <=> K[n] <= d
      /\ \A n \in 1 .. L : At(x, n) = K[n]
  BY SearchParts
<1>2. /\ lo \in 1 .. L + 1 /\ up \in 1 .. L + 1
      /\ \A n \in 1 .. L : K[n] \in Nat /\ n \in Nat
  BY <1>1 DEF Start
<1>3. Start(K, L, 1) /\ Start(K, L, L + 1)
  BY <1>1 DEF Start
<1>4. lo <= up
  <2> SUFFICES ASSUME up < lo PROVE FALSE
    BY <1>1, <1>2
  <2>1. up \in 1 .. L
    BY <1>1, <1>2
  <2>2. K[up] < d /\ ~(K[up] <= d)
    BY <2>1, <1>1, <1>2
  <2> QED BY <2>1, <2>2, <1>2
<1> HIDE DEF lo, up
<1>5. CASE L = 0
  <2>1. \A p, q \in 1 .. L + 1 : p = q
    BY <1>5
  <2>2. index[x].objects = <<>>
    <3>1. index[x].objects \in Seq(Object)
      BY DataParts DEF Searchable, IndexInv
    <3> QED BY <3>1, <1>5, EmptySeq
  <2>3. FindInterval(x, d, f) = <<1, 1>>
    <3>1. lo = 1 /\ up = 1 /\ End(x) = 1
      BY <1>1, <1>2, <1>5
    <3>2. f = "=" \/ f = "<" \/ f = "<=" \/ f = ">" \/ f = ">="
      BY DEF Comparators
    <3> QED BY <2>2, <3>1, <3>2 DEF FindInterval, lo, up
  <2>4. \A n \in 1 .. L : FALSE
    BY <1>5
  <2>5. FindInterval(x, d, f)[1] = 1 /\ FindInterval(x, d, f)[2] = 1
    BY <2>3
  <2>6. IsInterval(K, L, 1, 1, d, f)
    BY <1>3, <2>4 DEF IsInterval
  <2> QED BY <2>5, <2>6, Zenon
<1>6. CASE L # 0
  <2>1. index[x].objects # <<>>
    <3>1. Len(<<>>) = 0
      BY EmptySeq
    <3> QED BY <3>1, <1>6
  <2>2. CASE f = "="
    <3>1. CASE lo # L + 1 /\ K[lo] = d
      <4>1. lo \in 1 .. L
        BY <3>1, <1>1, <1>2
      <4>2. FindInterval(x, d, f) = <<lo, up>>
        BY <2>1, <2>2, <3>1, <4>1, <1>1 DEF FindInterval, lo, up
      <4>3. \A n \in 1 .. L : lo <= n /\ n < up <=> K[n] = d
        <5> SUFFICES ASSUME NEW n \in 1 .. L PROVE lo <= n /\ n < up <=> K[n] = d
          OBVIOUS
        <5>1. (n < lo <=> K[n] < d) /\ (n < up <=> K[n] <= d) /\ n \in Nat /\ K[n] \in Nat /\ lo \in Nat
          BY <1>1, <1>2
        <5> QED BY <5>1
      <4> QED BY <2>2, <4>2, <4>3, <1>1, <1>4 DEF IsInterval, Satisfies
    <3>2. CASE ~(lo # L + 1 /\ K[lo] = d)
      <4>1. FindInterval(x, d, f) = <<lo, lo>>
        <5>1. lo # L + 1 => lo \in 1 .. L
          BY <1>1, <1>2
        <5> QED BY <2>1, <2>2, <3>2, <5>1, <1>1 DEF FindInterval, lo
      <4>2. \A n \in 1 .. L : K[n] # d
        <5> SUFFICES ASSUME NEW n \in 1 .. L, K[n] = d PROVE FALSE
          OBVIOUS
        <5>1. ~(n < lo) /\ lo <= L
          BY <1>1, <1>2
        <5>2. lo \in 1 .. L /\ lo <= n /\ lo # L + 1
          BY <5>1, <1>1, <1>2
        <5>3. K[lo] <= K[n] /\ ~(K[lo] < d) /\ K[lo] \in Nat
          BY <5>2, <1>1, <1>2
        <5> QED BY <3>2, <5>2, <5>3
      <4>3. lo <= lo /\ \A n \in 1 .. L : ~(lo <= n /\ n < lo)
        BY <1>2
      <4> QED BY <2>2, <4>1, <4>2, <4>3, <1>1 DEF IsInterval, Satisfies
    <3> QED BY <3>1, <3>2
  <2>3. CASE f = "<"
    <3>1. FindInterval(x, d, f) = <<1, lo>>
      BY <2>1, <2>3 DEF FindInterval, lo
    <3>2. 1 <= lo /\ \A n \in 1 .. L : 1 <= n /\ n < lo <=> K[n] < d
      BY <1>1, <1>2
    <3> QED BY <2>3, <3>1, <3>2, <1>1, <1>3 DEF IsInterval, Satisfies
  <2>4. CASE f = "<="
    <3>1. FindInterval(x, d, f) = <<1, up>>
      BY <2>1, <2>4 DEF FindInterval, up
    <3>2. 1 <= up /\ \A n \in 1 .. L : 1 <= n /\ n < up <=> K[n] <= d
      BY <1>1, <1>2
    <3> QED BY <2>4, <3>1, <3>2, <1>1, <1>3 DEF IsInterval, Satisfies
  <2>5. CASE f = ">"
    <3>1. FindInterval(x, d, f) = <<up, L + 1>>
      BY <2>1, <2>5, <1>1 DEF FindInterval, up
    <3>2. up <= L + 1 /\ \A n \in 1 .. L : up <= n /\ n < L + 1 <=> K[n] > d
      <4>1. \A n \in 1 .. L : n \in Nat /\ n < L + 1 /\ (up <= n <=> ~(n < up)) /\ (K[n] > d <=> ~(K[n] <= d))
        BY <1>1, <1>2
      <4> QED BY <4>1, <1>1, <1>2
    <3> QED BY <2>5, <3>1, <3>2, <1>1, <1>3 DEF IsInterval, Satisfies
  <2>6. CASE f = ">="
    <3>1. FindInterval(x, d, f) = <<lo, L + 1>>
      BY <2>1, <2>6, <1>1 DEF FindInterval, lo
    <3>2. lo <= L + 1 /\ \A n \in 1 .. L : lo <= n /\ n < L + 1 <=> K[n] >= d
      <4>1. \A n \in 1 .. L : n \in Nat /\ n < L + 1 /\ (lo <= n <=> ~(n < lo)) /\ (K[n] >= d <=> ~(K[n] < d))
        BY <1>1, <1>2
      <4> QED BY <4>1, <1>1, <1>2
    <3> QED BY <2>6, <3>1, <3>2, <1>1, <1>3 DEF IsInterval, Satisfies
  <2> QED BY <2>2, <2>3, <2>4, <2>5, <2>6 DEF Comparators
<1> QED BY <1>5, <1>6

\* A slice has the objects at its positions, once.
LEMMA SliceParts ==
  ASSUME NEW s \in Seq(Object), IsInjective(s), NEW p \in 1 .. Len(s) + 1, NEW q \in 1 .. Len(s) + 1
  PROVE  LET t == SubSeq(s, p, q - 1)
         IN  /\ t \in Seq(Object) /\ IsInjective(t)
             /\ ToSet(t) = {s[n] : n \in {m \in 1 .. Len(s) : p <= m /\ m < q}}
<1> DEFINE t == SubSeq(s, p, q - 1)
<1>1. Len(s) \in Nat /\ DOMAIN s = 1 .. Len(s) /\ p \in Nat /\ q \in Nat /\ p >= 1 /\ q <= Len(s) + 1
      /\ \A n \in 1 .. Len(s) : s[n] \in Object
  BY LenProperties, ElementOfSeq
<1>2. p \in Int /\ q - 1 \in Int /\ \A n \in p .. q - 1 : s[n] \in Object
  BY <1>1
<1>3. /\ t \in Seq(Object) /\ Len(t) = (IF p <= q - 1 THEN q - 1 - p + 1 ELSE 0)
      /\ \A i \in 1 .. q - 1 - p + 1 : t[i] = s[p + i - 1]
  <2> HIDE DEF t
  <2> QED BY <1>2, SubSeqProperties DEF t
<1> HIDE DEF t
<1>4. /\ \A i \in DOMAIN t : i \in Nat /\ p + i - 1 \in 1 .. Len(s) /\ p <= p + i - 1 /\ p + i - 1 < q /\ t[i] = s[p + i - 1]
  <2>1. DOMAIN t = 1 .. Len(t)
    BY <1>3, LenProperties
  <2> SUFFICES ASSUME NEW i \in 1 .. Len(t)
               PROVE  i \in Nat /\ p + i - 1 \in 1 .. Len(s) /\ p <= p + i - 1 /\ p + i - 1 < q /\ t[i] = s[p + i - 1]
    BY <2>1
  <2>2. p <= q - 1
    BY <1>1, <1>3
  <2>3. i \in 1 .. q - 1 - p + 1
    BY <2>2, <1>3
  <2> QED BY <2>2, <2>3, <1>1, <1>3
<1>5. IsInjective(t)
  <2> SUFFICES ASSUME NEW i \in DOMAIN t, NEW j \in DOMAIN t, t[i] = t[j] PROVE i = j
    BY DEF IsInjective
  <2>1. p + i - 1 = p + j - 1 /\ i \in Nat /\ j \in Nat
    BY <1>1, <1>4 DEF IsInjective
  <2> QED BY <2>1, <1>1
<1>6. ASSUME NEW m \in 1 .. Len(s), p <= m, m < q
      PROVE  \E i \in DOMAIN t : t[i] = s[m]
  <2>1. m - p + 1 \in 1 .. q - 1 - p + 1 /\ p <= q - 1 /\ p + (m - p + 1) - 1 = m
    BY <1>1, <1>6
  <2>2. DOMAIN t = 1 .. q - 1 - p + 1
    BY <2>1, <1>3, LenProperties
  <2> QED BY <2>1, <2>2, <1>3
<1>7. ToSet(t) = {s[n] : n \in {m \in 1 .. Len(s) : p <= m /\ m < q}}
  <2> DEFINE T == {s[n] : n \in {m \in 1 .. Len(s) : p <= m /\ m < q}}
  <2>1. ASSUME NEW i \in DOMAIN t PROVE t[i] \in T
    <3>1. p + i - 1 \in {m \in 1 .. Len(s) : p <= m /\ m < q} /\ t[i] = s[p + i - 1]
      BY <1>4
    <3> QED BY <3>1
  <2>2. ASSUME NEW u \in T PROVE \E i \in DOMAIN t : t[i] = u
    BY <1>6
  <2> QED BY <2>1, <2>2 DEF ToSet
<1> QED BY <1>3, <1>5, <1>7 DEF t

\* FindAll returns each object with "value f d" once, and nothing else.
LEMMA FindAllParts ==
  ASSUME NEW x \in Index, Searchable(x), NEW d \in Nat, NEW f \in Comparators
  PROVE  /\ IsInjective(FindAll(x, d, f))
         /\ ToSet(FindAll(x, d, f)) =
                {e \in Instances(index[x].class) : Satisfies(f, value[e][index[x].attribute], d)}
<1> DEFINE s == index[x].objects
           L == Len(s)
           K == Keys(x)
           p == FindInterval(x, d, f)[1]
           q == FindInterval(x, d, f)[2]
           t == SubSeq(s, p, q - 1)
           T == {e \in Instances(index[x].class) : Satisfies(f, value[e][index[x].attribute], d)}
<1>1. IsInterval(K, L, p, q, d, f)
  BY FindIntervalParts
<1>2. s \in Seq(Object) /\ IsInjective(s) /\ ToSet(s) = Instances(index[x].class)
  BY DEF Searchable, IndexInv, AllExact, ExactIndex, Lists
<1>3. L \in Nat /\ \A n \in 1 .. L : K[n] = value[s[n]][index[x].attribute]
  BY SearchParts
<1>4. FindAll(x, d, f) = t
  BY DEF FindAll, Slice
<1>5. DOMAIN s = 1 .. L
  BY <1>2, LenProperties
<1> HIDE DEF p, q, s, L, K
<1>6. p \in 1 .. L + 1 /\ q \in 1 .. L + 1 /\ \A n \in 1 .. L : p <= n /\ n < q <=> Satisfies(f, K[n], d)
  BY <1>1 DEF IsInterval, Start
<1>7. IsInjective(t) /\ ToSet(t) = {s[n] : n \in {m \in 1 .. L : p <= m /\ m < q}}
  <2>1. p \in 1 .. Len(s) + 1 /\ q \in 1 .. Len(s) + 1
    BY <1>6 DEF L
  <2> HIDE DEF t
  <2>2. IsInjective(t) /\ ToSet(t) = {s[n] : n \in {m \in 1 .. Len(s) : p <= m /\ m < q}}
    BY <1>2, <2>1, SliceParts DEF t
  <2> QED BY <2>2 DEF L
<1> HIDE DEF t
<1>8. ToSet(t) = T
  <2>1. ASSUME NEW u \in ToSet(t) PROVE u \in T
    <3>1. PICK n \in 1 .. L : u = s[n] /\ p <= n /\ n < q
      BY <1>7
    <3>2. s[n] \in ToSet(s) /\ Satisfies(f, value[s[n]][index[x].attribute], d)
      BY <3>1, <1>3, <1>5, <1>6 DEF ToSet
    <3> QED BY <3>1, <3>2, <1>2
  <2>2. ASSUME NEW u \in T PROVE u \in ToSet(t)
    <3>1. u \in ToSet(s) /\ Satisfies(f, value[u][index[x].attribute], d)
      BY <1>2
    <3>2. PICK n \in 1 .. L : u = s[n]
      BY <3>1, <1>5 DEF ToSet
    <3>3. p <= n /\ n < q
      BY <3>1, <3>2, <1>3, <1>6
    <3> QED BY <3>2, <3>3, <1>7
  <2> QED BY <2>1, <2>2
<1> QED BY <1>4, <1>7, <1>8

\* Lists of different objects joined.
LEMMA JoinParts ==
  ASSUME NEW t \in Seq(Object), NEW u \in Seq(Object), IsInjective(t), IsInjective(u),
         ToSet(t) \cap ToSet(u) = {}
  PROVE  IsInjective(t \o u) /\ ToSet(t \o u) = ToSet(t) \cup ToSet(u)
<1> DEFINE w == t \o u
           k == Len(t)
           l == Len(u)
<1>1. k \in Nat /\ l \in Nat /\ DOMAIN t = 1 .. k /\ DOMAIN u = 1 .. l
  BY LenProperties
<1>2. /\ w \in Seq(Object) /\ Len(w) = k + l
      /\ \A i \in 1 .. k + l : w[i] = IF i <= k THEN t[i] ELSE u[i - k]
  <2> HIDE DEF w
  <2> QED BY ConcatProperties DEF w
<1> HIDE DEF w, k, l
<1>3. DOMAIN w = 1 .. k + l
  BY <1>2, LenProperties
<1>4. \A i \in 1 .. k + l : \/ i <= k /\ i \in 1 .. k /\ w[i] = t[i] /\ w[i] \in ToSet(t)
                            \/ i > k /\ i - k \in 1 .. l /\ w[i] = u[i - k] /\ w[i] \in ToSet(u)
  <2> SUFFICES ASSUME NEW i \in 1 .. k + l
               PROVE  \/ i <= k /\ i \in 1 .. k /\ w[i] = t[i] /\ w[i] \in ToSet(t)
                      \/ i > k /\ i - k \in 1 .. l /\ w[i] = u[i - k] /\ w[i] \in ToSet(u)
    OBVIOUS
  <2>1. CASE i <= k
    <3>1. i \in 1 .. k /\ w[i] = t[i]
      BY <2>1, <1>1, <1>2
    <3> QED BY <2>1, <3>1, <1>1 DEF ToSet
  <2>2. CASE i > k
    <3>1. i - k \in 1 .. l /\ w[i] = u[i - k]
      BY <2>2, <1>1, <1>2
    <3> QED BY <2>2, <3>1, <1>1 DEF ToSet
  <2> QED BY <2>1, <2>2, <1>1
<1>5. IsInjective(w)
  <2> SUFFICES ASSUME NEW i \in 1 .. k + l, NEW j \in 1 .. k + l, w[i] = w[j] PROVE i = j
    BY <1>3 DEF IsInjective
  <2>1. (i <= k /\ j <= k) \/ (i > k /\ j > k)
    BY <1>4
  <2>2. CASE i <= k /\ j <= k
    <3>1. i \in DOMAIN t /\ j \in DOMAIN t /\ t[i] = t[j]
      BY <2>2, <1>1, <1>4
    <3> QED BY <3>1 DEF IsInjective
  <2>3. CASE i > k /\ j > k
    <3>1. i - k \in DOMAIN u /\ j - k \in DOMAIN u /\ u[i - k] = u[j - k]
      BY <2>3, <1>1, <1>4
    <3>2. i - k = j - k
      BY <3>1 DEF IsInjective
    <3> QED BY <3>2, <1>1
  <2> QED BY <2>1, <2>2, <2>3
<1>6. ToSet(w) = ToSet(t) \cup ToSet(u)
  <2>1. ASSUME NEW e \in ToSet(t) PROVE e \in ToSet(w)
    <3>1. PICK i \in 1 .. k : e = t[i]
      BY <1>1 DEF ToSet
    <3>2. i \in 1 .. k + l /\ i <= k
      BY <1>1
    <3> QED BY <3>1, <3>2, <1>2, <1>3 DEF ToSet
  <2>2. ASSUME NEW e \in ToSet(u) PROVE e \in ToSet(w)
    <3>1. PICK i \in 1 .. l : e = u[i]
      BY <1>1 DEF ToSet
    <3> DEFINE j == i + k
    <3>2. j \in 1 .. k + l /\ ~(j <= k) /\ j - k = i
      BY <1>1
    <3> HIDE DEF j
    <3>3. w[j] = e
      BY <3>1, <3>2, <1>2
    <3> QED BY <3>2, <3>3, <1>3 DEF ToSet
  <2>3. ASSUME NEW e \in ToSet(w) PROVE e \in ToSet(t) \cup ToSet(u)
    BY <1>3, <1>4 DEF ToSet
  <2> QED BY <2>1, <2>2, <2>3
<1> QED BY <1>5, <1>6 DEF w

\* The objects at positions M of the list.
Objects(x, M) == {index[x].objects[n] : n \in M}

\* r holds the objects at the positions of x that are in M, each once.
Answers(x, M, r) == IsInjective(r) /\ ToSet(r) = Objects(x, {n \in 1 .. Len(index[x].objects) : n \in M})

\* Two intervals of positions that are not empty, as find_interval returns them.
TwoIntervals(x, a1, b1, a2, b2) ==
    LET L == Len(index[x].objects)
        K == Keys(x)
    IN  /\ Start(K, L, a1) /\ Start(K, L, b1) /\ a1 < b1
        /\ Start(K, L, a2) /\ Start(K, L, b2) /\ a2 < b2

\* Comparing values compares positions, where the search compares them.
LEMMA EndParts ==
  ASSUME NEW x \in Index, Searchable(x), NEW L, L = Len(index[x].objects),
         NEW a1, NEW b1, NEW a2, NEW b2, TwoIntervals(x, a1, b1, a2, b2)
  PROVE  /\ L \in Nat /\ a1 \in 1 .. L /\ a2 \in 1 .. L /\ b1 \in 1 .. L + 1 /\ b2 \in 1 .. L + 1
         /\ NotGreater(x, a2, a1) <=> a2 <= a1
         /\ b2 # End(x) /\ Lesser(x, b2, a1) <=> b2 < a1
         /\ b1 # End(x) /\ Lesser(x, b1, a2) <=> b1 < a2
         /\ InnerEnd(x, b1, b2) = IF b1 <= b2 THEN b1 ELSE b2
         /\ OuterEnd(x, b1, b2) = IF b1 <= b2 THEN b2 ELSE b1
<1> DEFINE K == Keys(x)
<1>1. /\ L \in Nat /\ End(x) = L + 1 /\ K \in [1 .. L -> Nat]
      /\ \A m, n \in 1 .. L : (Lesser(x, m, n) <=> K[m] < K[n]) /\ (NotGreater(x, m, n) <=> K[m] <= K[n])
  BY SearchParts
<1> HIDE DEF K
<1>2. /\ Start(K, L, a1) /\ Start(K, L, b1) /\ a1 < b1
      /\ Start(K, L, a2) /\ Start(K, L, b2) /\ a2 < b2
  BY DEF TwoIntervals, K
<1>3. a1 \in 1 .. L + 1 /\ a2 \in 1 .. L + 1 /\ b1 \in 1 .. L + 1 /\ b2 \in 1 .. L + 1
  BY <1>2 DEF Start
<1>4. a1 \in 1 .. L /\ a2 \in 1 .. L
  BY <1>1, <1>2, <1>3
<1>5. ASSUME NEW p \in 1 .. L, NEW q \in 1 .. L, Start(K, L, p), Start(K, L, q)
      PROVE  (NotGreater(x, p, q) <=> p <= q) /\ (Lesser(x, p, q) <=> p < q)
  <2>1. p <= L /\ q <= L
    BY <1>1
  <2>2. (K[p] <= K[q] <=> p <= q) /\ (K[p] < K[q] <=> p < q)
    BY <2>1, <1>1, <1>5, StartOrder
  <2> QED BY <2>2, <1>1
<1>6. NotGreater(x, a2, a1) <=> a2 <= a1
  BY <1>2, <1>4, <1>5
<1>7. \A p \in 1 .. L + 1 : p # L + 1 => p \in 1 .. L
  BY <1>1
<1>8. b2 # End(x) /\ Lesser(x, b2, a1) <=> b2 < a1
  <2>1. CASE b2 = L + 1
    BY <2>1, <1>1, <1>4
  <2>2. CASE b2 # L + 1
    BY <2>2, <1>1, <1>2, <1>3, <1>4, <1>5, <1>7
  <2> QED BY <2>1, <2>2
<1>9. b1 # End(x) /\ Lesser(x, b1, a2) <=> b1 < a2
  <2>1. CASE b1 = L + 1
    BY <2>1, <1>1, <1>4
  <2>2. CASE b1 # L + 1
    BY <2>2, <1>1, <1>2, <1>3, <1>4, <1>5, <1>7
  <2> QED BY <2>1, <2>2
<1>10. /\ InnerEnd(x, b1, b2) = IF b1 <= b2 THEN b1 ELSE b2
       /\ OuterEnd(x, b1, b2) = IF b1 <= b2 THEN b2 ELSE b1
  <2>1. CASE b1 = L + 1 \/ b2 = L + 1
    <3>1. End(x) \in {b1, b2}
      BY <2>1, <1>1
    <3>2. InnerEnd(x, b1, b2) = (IF b2 # End(x) THEN b2 ELSE b1) /\ OuterEnd(x, b1, b2) = End(x)
      BY <3>1 DEF InnerEnd, OuterEnd
    <3> QED BY <2>1, <3>2, <1>1, <1>3
  <2>2. CASE b1 # L + 1 /\ b2 # L + 1
    <3>1. End(x) \notin {b1, b2}
      BY <2>2, <1>1
    <3>2. b1 \in 1 .. L /\ b2 \in 1 .. L
      BY <2>2, <1>3, <1>7
    <3>3. (NotGreater(x, b2, b1) <=> b2 <= b1) /\ (NotGreater(x, b1, b2) <=> b1 <= b2)
      BY <3>2, <1>2, <1>5
    <3>4. /\ InnerEnd(x, b1, b2) = (IF b2 <= b1 THEN b2 ELSE b1)
          /\ OuterEnd(x, b1, b2) = (IF b1 <= b2 THEN b2 ELSE b1)
      BY <3>1, <3>3 DEF InnerEnd, OuterEnd
    <3> QED BY <3>2, <3>4, <1>1
  <2> QED BY <2>1, <2>2
<1> QED BY <1>1, <1>3, <1>4, <1>6, <1>8, <1>9, <1>10

\* A slice of an index answers for its positions.
LEMMA SliceAnswers ==
  ASSUME NEW x \in Index, Searchable(x), NEW p \in 1 .. Len(index[x].objects) + 1,
         NEW q \in 1 .. Len(index[x].objects) + 1, NEW M,
         \A n \in 1 .. Len(index[x].objects) : n \in M <=> p <= n /\ n < q
  PROVE  Slice(x, p, q) \in Seq(Object) /\ Answers(x, M, Slice(x, p, q))
<1> DEFINE s == index[x].objects
           t == SubSeq(s, p, q - 1)
<1>1. s \in Seq(Object) /\ IsInjective(s)
  BY DEF Searchable, IndexInv, AllExact, ExactIndex, Lists
<1>2. t \in Seq(Object) /\ IsInjective(t) /\ ToSet(t) = {s[n] : n \in {m \in 1 .. Len(s) : p <= m /\ m < q}}
  <2> HIDE DEF s, t
  <2>1. p \in 1 .. Len(s) + 1 /\ q \in 1 .. Len(s) + 1
    BY DEF s
  <2> QED BY <1>1, <2>1, SliceParts DEF t
<1>3. {m \in 1 .. Len(s) : p <= m /\ m < q} = {n \in 1 .. Len(s) : n \in M}
  OBVIOUS
<1>4. Slice(x, p, q) = t
  BY DEF Slice
<1> QED BY <1>2, <1>3, <1>4 DEF Answers, Objects

\* No position, no object.
LEMMA EmptyAnswers ==
  ASSUME NEW x \in Index, NEW M, \A n \in 1 .. Len(index[x].objects) : n \notin M
  PROVE  Answers(x, M, <<>>)
<1>1. IsInjective(<<>>) /\ ToSet(<<>>) = {}
  BY DEF IsInjective, ToSet
<1>2. {n \in 1 .. Len(index[x].objects) : n \in M} = {}
  OBVIOUS
<1> QED BY <1>1, <1>2 DEF Answers, Objects

\* The intersection has the objects in both intervals; its loop runs from a
\* position to one that does not come before it.
LEMMA IntersectionAnswers ==
  ASSUME NEW x \in Index, Searchable(x),
         NEW a1, NEW b1, NEW a2, NEW b2, TwoIntervals(x, a1, b1, a2, b2), NEW M,
         \A n \in 1 .. Len(index[x].objects) : n \in M <=> a1 <= n /\ n < b1 /\ a2 <= n /\ n < b2
  PROVE  Answers(x, M, Intersection(x, a1, b1, a2, b2))
<1> DEFINE L == Len(index[x].objects)
           p == IF a2 <= a1 THEN a1 ELSE a2
           q == IF b1 <= b2 THEN b1 ELSE b2
           disjoint == IF a2 <= a1 THEN b2 < a1 ELSE b1 < a2
<1>1. /\ L \in Nat /\ a1 \in 1 .. L /\ a2 \in 1 .. L /\ b1 \in 1 .. L + 1 /\ b2 \in 1 .. L + 1
      /\ NotGreater(x, a2, a1) <=> a2 <= a1
      /\ b2 # End(x) /\ Lesser(x, b2, a1) <=> b2 < a1
      /\ b1 # End(x) /\ Lesser(x, b1, a2) <=> b1 < a2
      /\ InnerEnd(x, b1, b2) = q
  BY EndParts
<1>2. Intersection(x, a1, b1, a2, b2) = IF disjoint THEN <<>> ELSE Slice(x, p, q)
  <2>1. CASE a2 <= a1
    BY <1>1, <2>1 DEF Intersection
  <2>2. CASE ~(a2 <= a1)
    BY <1>1, <2>2 DEF Intersection
  <2> QED BY <2>1, <2>2
<1>3. CASE disjoint
  <2>1. \A n \in 1 .. L : n \notin M
    BY <1>1, <1>3
  <2> QED BY <2>1, <1>2, <1>3, EmptyAnswers
<1>4. CASE ~disjoint
  <2>1. p \in 1 .. L + 1 /\ q \in 1 .. L + 1 /\ \A n \in 1 .. L : n \in M <=> p <= n /\ n < q
    BY <1>1
  <2> HIDE DEF p, q, disjoint
  <2>2. Answers(x, M, Slice(x, p, q))
    BY <2>1, SliceAnswers
  <2> QED BY <2>2, <1>2, <1>4
<1> QED BY <1>3, <1>4

\* Two slices without a common position, one after the other.
LEMMA SlicesAnswer ==
  ASSUME NEW x \in Index, Searchable(x),
         NEW a \in 1 .. Len(index[x].objects) + 1, NEW b \in 1 .. Len(index[x].objects) + 1,
         NEW c \in 1 .. Len(index[x].objects) + 1, NEW d \in 1 .. Len(index[x].objects) + 1,
         b <= c, NEW M,
         \A n \in 1 .. Len(index[x].objects) : n \in M <=> (a <= n /\ n < b) \/ (c <= n /\ n < d)
  PROVE  Answers(x, M, Slice(x, a, b) \o Slice(x, c, d))
<1> DEFINE s == index[x].objects
           L == Len(s)
           A == {n \in 1 .. L : a <= n /\ n < b}
           C == {n \in 1 .. L : c <= n /\ n < d}
           t == Slice(x, a, b)
           u == Slice(x, c, d)
<1>1. s \in Seq(Object) /\ (\A i, j \in 1 .. L : s[i] = s[j] => i = j)
  <2>1. s \in Seq(Object) /\ IsInjective(s)
    BY DEF Searchable, IndexInv, AllExact, ExactIndex, Lists
  <2> QED BY <2>1, LenProperties DEF IsInjective
<1>2. t \in Seq(Object) /\ Answers(x, A, t)
  BY SliceAnswers
<1>3. u \in Seq(Object) /\ Answers(x, C, u)
  BY SliceAnswers
<1>4. /\ IsInjective(t) /\ ToSet(t) = {s[n] : n \in A}
      /\ IsInjective(u) /\ ToSet(u) = {s[n] : n \in C}
  <2>1. {n \in 1 .. L : n \in A} = A /\ {n \in 1 .. L : n \in C} = C
    OBVIOUS
  <2> HIDE DEF A, C, t, u
  <2> QED BY <2>1, <1>2, <1>3 DEF Answers, Objects
<1> HIDE DEF t, u
<1>5. A \cap C = {}
  <2>1. L \in Nat
    BY <1>1, LenProperties
  <2> QED BY <2>1
<1>6. ToSet(t) \cap ToSet(u) = {}
  <2>1. A \subseteq 1 .. L /\ C \subseteq 1 .. L
    OBVIOUS
  <2> HIDE DEF A, C, L, s
  <2> QED BY <2>1, <1>1, <1>4, <1>5
<1>7. IsInjective(t \o u) /\ ToSet(t \o u) = ToSet(t) \cup ToSet(u)
  BY <1>2, <1>3, <1>4, <1>6, JoinParts
<1>8. {n \in 1 .. L : n \in M} = A \cup C
  OBVIOUS
<1>9. ToSet(t \o u) = {s[n] : n \in {n \in 1 .. L : n \in M}}
  <2> HIDE DEF A, C, L, s
  <2>1. {s[n] : n \in A} \cup {s[n] : n \in C} = {s[n] : n \in A \cup C}
    OBVIOUS
  <2> QED BY <2>1, <1>4, <1>7, <1>8
<1> QED BY <1>7, <1>9 DEF Answers, Objects, t, u

\* The union has the objects in one of the intervals, each once.
LEMMA UnionAnswers ==
  ASSUME NEW x \in Index, Searchable(x),
         NEW a1, NEW b1, NEW a2, NEW b2, TwoIntervals(x, a1, b1, a2, b2), NEW M,
         \A n \in 1 .. Len(index[x].objects) : n \in M <=> (a1 <= n /\ n < b1) \/ (a2 <= n /\ n < b2)
  PROVE  Answers(x, M, Union(x, a1, b1, a2, b2))
<1> DEFINE L == Len(index[x].objects)
           q == IF b1 <= b2 THEN b2 ELSE b1
<1>1. /\ L \in Nat /\ a1 \in 1 .. L /\ a2 \in 1 .. L /\ b1 \in 1 .. L + 1 /\ b2 \in 1 .. L + 1
      /\ NotGreater(x, a2, a1) <=> a2 <= a1
      /\ b2 # End(x) /\ Lesser(x, b2, a1) <=> b2 < a1
      /\ b1 # End(x) /\ Lesser(x, b1, a2) <=> b1 < a2
      /\ OuterEnd(x, b1, b2) = q
  <2>1. L = Len(index[x].objects)
    OBVIOUS
  <2> HIDE DEF L
  <2>2. /\ L \in Nat /\ a1 \in 1 .. L /\ a2 \in 1 .. L /\ b1 \in 1 .. L + 1 /\ b2 \in 1 .. L + 1
        /\ NotGreater(x, a2, a1) <=> a2 <= a1
        /\ b2 # End(x) /\ Lesser(x, b2, a1) <=> b2 < a1
        /\ b1 # End(x) /\ Lesser(x, b1, a2) <=> b1 < a2
        /\ OuterEnd(x, b1, b2) = IF b1 <= b2 THEN b2 ELSE b1
    BY ONLY <2>1, Searchable(x), x \in Index, TwoIntervals(x, a1, b1, a2, b2), EndParts
  <2> QED BY <2>2
<1>2. a1 < b1 /\ a2 < b2
  BY DEF TwoIntervals
<1>3. a1 \in 1 .. L + 1 /\ a2 \in 1 .. L + 1 /\ q \in 1 .. L + 1
  BY <1>1
<1>4. CASE a2 <= a1 /\ b2 < a1
  <2>1. Union(x, a1, b1, a2, b2) = Slice(x, a2, b2) \o Slice(x, a1, b1)
    BY <1>1, <1>4 DEF Union
  <2>2. b2 <= a1 /\ \A n \in 1 .. L : n \in M <=> (a2 <= n /\ n < b2) \/ (a1 <= n /\ n < b1)
    BY <1>1, <1>4
  <2>3. Answers(x, M, Slice(x, a2, b2) \o Slice(x, a1, b1))
    BY <2>2, <1>1, <1>3, SlicesAnswer
  <2> QED BY <2>1, <2>3
<1>5. CASE a2 <= a1 /\ ~(b2 < a1)
  <2>1. Union(x, a1, b1, a2, b2) = Slice(x, a2, q)
    BY <1>1, <1>5 DEF Union
  <2>2. \A n \in 1 .. L : n \in M <=> a2 <= n /\ n < q
    BY <1>1, <1>2, <1>5
  <2> HIDE DEF q
  <2>3. Answers(x, M, Slice(x, a2, q))
    BY <2>2, <1>3, SliceAnswers
  <2> QED BY <2>1, <2>3
<1>6. CASE ~(a2 <= a1) /\ b1 < a2
  <2>1. Union(x, a1, b1, a2, b2) = Slice(x, a1, b1) \o Slice(x, a2, b2)
    BY <1>1, <1>6 DEF Union
  <2>2. b1 <= a2
    BY <1>1, <1>6
  <2>3. Answers(x, M, Slice(x, a1, b1) \o Slice(x, a2, b2))
    BY <2>2, <1>1, <1>3, SlicesAnswer
  <2> QED BY <2>1, <2>3
<1>7. CASE ~(a2 <= a1) /\ ~(b1 < a2)
  <2>1. Union(x, a1, b1, a2, b2) = Slice(x, a1, q)
    BY <1>1, <1>7 DEF Union
  <2>2. \A n \in 1 .. L : n \in M <=> a1 <= n /\ n < q
    BY <1>1, <1>2, <1>7
  <2> HIDE DEF q
  <2>3. Answers(x, M, Slice(x, a1, q))
    BY <2>2, <1>3, SliceAnswers
  <2> QED BY <2>1, <2>3
<1> QED BY <1>4, <1>5, <1>6, <1>7

\* FindAllOfTwo returns each object that satisfies both comparisons, or one of
\* them, once, and nothing else.
LEMMA FindAllOfTwoParts ==
  ASSUME NEW x \in Index, Searchable(x), NEW and \in BOOLEAN,
         NEW d1 \in Nat, NEW f1 \in Comparators, NEW d2 \in Nat, NEW f2 \in Comparators
  PROVE  LET answer == FindAllOfTwo(x, and, d1, f1, d2, f2)
             v(e) == value[e][index[x].attribute]
         IN  /\ IsInjective(answer)
             /\ ToSet(answer) =
                    {e \in Instances(index[x].class) :
                        IF and THEN Satisfies(f1, v(e), d1) /\ Satisfies(f2, v(e), d2)
                               ELSE Satisfies(f1, v(e), d1) \/ Satisfies(f2, v(e), d2)}
<1> DEFINE s == index[x].objects
           L == Len(s)
           K == Keys(x)
           i == FindInterval(x, d1, f1)
           j == FindInterval(x, d2, f2)
           v(e) == value[e][index[x].attribute]
           answer == FindAllOfTwo(x, and, d1, f1, d2, f2)
           Good(u) == IF and THEN Satisfies(f1, u, d1) /\ Satisfies(f2, u, d2)
                             ELSE Satisfies(f1, u, d1) \/ Satisfies(f2, u, d2)
           M == {n \in 1 .. L : Good(K[n])}
<1>1. IsInterval(K, L, i[1], i[2], d1, f1) /\ IsInterval(K, L, j[1], j[2], d2, f2)
  BY FindIntervalParts
<1>2. PICK a1, b1, a2, b2 : a1 = i[1] /\ b1 = i[2] /\ a2 = j[1] /\ b2 = j[2]
  OBVIOUS
<1>3. /\ Start(K, L, a1) /\ Start(K, L, b1) /\ a1 <= b1
      /\ Start(K, L, a2) /\ Start(K, L, b2) /\ a2 <= b2
      /\ \A n \in 1 .. L : a1 <= n /\ n < b1 <=> Satisfies(f1, K[n], d1)
      /\ \A n \in 1 .. L : a2 <= n /\ n < b2 <=> Satisfies(f2, K[n], d2)
  <2>1. IsInterval(K, L, a1, b1, d1, f1) /\ IsInterval(K, L, a2, b2, d2, f2)
    BY <1>1, <1>2, Zenon
  <2> QED BY <2>1 DEF IsInterval
<1>4. /\ a1 \in 1 .. L + 1 /\ b1 \in 1 .. L + 1 /\ a2 \in 1 .. L + 1 /\ b2 \in 1 .. L + 1
  BY <1>3 DEF Start
<1>5. L \in Nat /\ \A n \in 1 .. L : K[n] = v(s[n])
  BY SearchParts
<1>6. s \in Seq(Object) /\ ToSet(s) = Instances(index[x].class) /\ DOMAIN s = 1 .. L
  <2>1. s \in Seq(Object) /\ ToSet(s) = Instances(index[x].class)
    BY DEF Searchable, IndexInv, AllExact, ExactIndex, Lists
  <2> QED BY <2>1, LenProperties
<1>7. \A n \in 1 .. L : n \in M <=> IF and THEN a1 <= n /\ n < b1 /\ a2 <= n /\ n < b2
                                           ELSE (a1 <= n /\ n < b1) \/ (a2 <= n /\ n < b2)
  BY <1>3
<1> HIDE DEF M, K
<1>8. answer = CASE a1 = b1 /\ (and \/ a2 = b2) -> <<>>
                 [] a2 = b2 /\ a1 # b1 -> IF and THEN <<>> ELSE Slice(x, a1, b1)
                 [] a1 = b1 /\ ~and /\ a2 # b2 -> Slice(x, a2, b2)
                 [] OTHER -> IF and THEN Intersection(x, a1, b1, a2, b2) ELSE Union(x, a1, b1, a2, b2)
  BY <1>2 DEF FindAllOfTwo
<1> HIDE DEF answer
<1>9. Answers(x, M, answer)
  <2>1. CASE a1 = b1 /\ (and \/ a2 = b2)
    <3>1. \A n \in 1 .. L : n \notin M
      BY <2>1, <1>4, <1>5, <1>7
    <3>2. answer = <<>>
      BY <2>1, <1>8
    <3> QED BY <3>1, <3>2, EmptyAnswers
  <2>2. CASE a2 = b2 /\ a1 # b1 /\ and
    <3>1. \A n \in 1 .. L : n \notin M
      BY <2>2, <1>4, <1>5, <1>7
    <3>2. answer = <<>>
      BY <2>2, <1>8
    <3> QED BY <3>1, <3>2, EmptyAnswers
  <2>3. CASE a2 = b2 /\ a1 # b1 /\ ~and
    <3>1. \A n \in 1 .. L : n \in M <=> a1 <= n /\ n < b1
      BY <2>3, <1>4, <1>5, <1>7
    <3>2. answer = Slice(x, a1, b1)
      BY <2>3, <1>8
    <3> QED BY <3>1, <3>2, <1>4, SliceAnswers
  <2>4. CASE a1 = b1 /\ a2 # b2 /\ ~and
    <3>1. \A n \in 1 .. L : n \in M <=> a2 <= n /\ n < b2
      BY <2>4, <1>4, <1>5, <1>7
    <3>2. answer = Slice(x, a2, b2)
      BY <2>4, <1>8
    <3> QED BY <3>1, <3>2, <1>4, SliceAnswers
  <2>5. CASE a1 # b1 /\ a2 # b2
    <3>1. a1 < b1 /\ a2 < b2
      BY <2>5, <1>3, <1>4
    <3>2. TwoIntervals(x, a1, b1, a2, b2)
      BY <3>1, <1>3 DEF TwoIntervals, K
    <3>3. answer = IF and THEN Intersection(x, a1, b1, a2, b2) ELSE Union(x, a1, b1, a2, b2)
      BY <2>5, <1>8
    <3>4. CASE and
      BY <3>2, <3>3, <3>4, <1>7, IntersectionAnswers
    <3>5. CASE ~and
      BY <3>2, <3>3, <3>5, <1>7, UnionAnswers
    <3> QED BY <3>4, <3>5
  <2> QED BY <2>1, <2>2, <2>3, <2>4, <2>5
<1>10. {n \in 1 .. L : n \in M} = M
  BY DEF M
<1>11. IsInjective(answer) /\ ToSet(answer) = {s[n] : n \in M}
  BY <1>9, <1>10 DEF Answers, Objects
<1>12. {s[n] : n \in M} = {e \in Instances(index[x].class) : Good(v(e))}
  <2>1. \A n \in 1 .. L : n \in M <=> Good(v(s[n]))
    BY <1>5 DEF M
  <2>2. M \subseteq 1 .. L
    BY DEF M
  <2> HIDE DEF Good, L, s, v
  <2>3. \A e : e \in Instances(index[x].class) <=> \E n \in 1 .. L : e = s[n]
    BY <1>6 DEF ToSet
  <2> QED BY <2>1, <2>2, <2>3
<1> QED BY <1>11, <1>12 DEF answer

\* What a search with one and one with two comparisons must return.
SearchesExact ==
    careless \subseteq {"multiValues"} =>
      \A x \in Index : index[x] # NoIndex /\ index[x].attribute \notin Multi =>
        LET v(e) == value[e][index[x].attribute]
            members == Instances(index[x].class)
        IN  \A d \in Nat, f \in Comparators :
              /\ IsInjective(FindAll(x, d, f))
              /\ ToSet(FindAll(x, d, f)) = {e \in members : Satisfies(f, v(e), d)}
              /\ \A and \in BOOLEAN, k \in Nat, g \in Comparators :
                   /\ IsInjective(FindAllOfTwo(x, and, d, f, k, g))
                   /\ ToSet(FindAllOfTwo(x, and, d, f, k, g)) =
                        {e \in members : IF and THEN Satisfies(f, v(e), d) /\ Satisfies(g, v(e), k)
                                                ELSE Satisfies(f, v(e), d) \/ Satisfies(g, v(e), k)}

\* Whatever was created, destroyed or changed, a search in an index, with one
\* comparison or with two of them in "and" or "or", finds the objects it is
\* about, each once, and no other.
THEOREM SearchesAreExact == IndexSpec => []SearchesExact
<1>1. IndexInv => SearchesExact
  <2> SUFFICES ASSUME IndexInv, careless \subseteq {"multiValues"}, NEW x \in Index,
                      index[x] # NoIndex, index[x].attribute \notin Multi,
                      NEW d \in Nat, NEW f \in Comparators
               PROVE  LET v(e) == value[e][index[x].attribute]
                          members == Instances(index[x].class)
                      IN  /\ IsInjective(FindAll(x, d, f))
                          /\ ToSet(FindAll(x, d, f)) = {e \in members : Satisfies(f, v(e), d)}
                          /\ \A and \in BOOLEAN, k \in Nat, g \in Comparators :
                               /\ IsInjective(FindAllOfTwo(x, and, d, f, k, g))
                               /\ ToSet(FindAllOfTwo(x, and, d, f, k, g)) =
                                    {e \in members : IF and THEN Satisfies(f, v(e), d) /\ Satisfies(g, v(e), k)
                                                            ELSE Satisfies(f, v(e), d) \/ Satisfies(g, v(e), k)}
    BY DEF SearchesExact
  <2>1. Searchable(x)
    BY DEF Searchable
  <2> QED BY <2>1, FindAllParts, FindAllOfTwoParts
<1> QED BY <1>1, IndexInvariant, PTL
=============================================================================
