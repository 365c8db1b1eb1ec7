------------------------- MODULE OksCompositeProofs -------------------------
(***************************************************************************)
(* Objects for any number of objects, files and relationships: the reverse *)
(* composite relationships are the composite pointers, a part has one      *)
(* parent, no pointer dangles and every change marks its file.             *)
(***************************************************************************)
EXTENDS OksComposite, SequenceTheorems, WellFoundedInduction, TLAPS

\* A call of ~OksObject.
Frames == [obj : Object, todo : SUBSET (Object \X Composite)]

\* The types; the calls of ~OksObject are for different objects, which are
\* undefined already.
StateOK ==
    /\ setup \in Setups
    /\ live \subseteq Object /\ file \in [Object -> File \cup {NoFile}]
    /\ \A o \in live : file[o] # NoFile
    /\ value \in [Object -> [Rel -> Seq(Ref)]]
    /\ rcr \subseteq Triple /\ updated \subseteq File /\ pending \subseteq Object
StackOK ==
    /\ stack \in Seq(Frames)
    /\ \A i \in DOMAIN stack : stack[i].obj \notin live
    /\ \A i, j \in DOMAIN stack : stack[i].obj = stack[j].obj => i = j

\* A value has at most one reference when it is not a list, and none twice.
Apart(v) == \A i, j \in DOMAIN v : v[i].obj = v[j].obj => i = j
ValuesOK ==
    \A s \in Object, r \in Rel :
        /\ r \notin Many => Len(value[s][r]) <= 1
        /\ "addAgain" \notin Careless => Apart(value[s][r])

\* While k_close_data goes through its list, every object of the file is on
\* it, and so is every object that still points to one that is.
PendingClosed ==
    /\ \A o \in pending \cap live, p \in live : file[p] = file[o] => p \in pending
    /\ \A s \in live, r \in Rel : Refers(s, r) \cap pending # {} => s \in pending

\* An OksRCR belongs to a composite pointer, or its parent is being destroyed
\* and will remove it, or its owner goes too.
Removing(s, o, r) == \E i \in DOMAIN stack : stack[i].obj = s /\ <<o, r>> \in stack[i].todo
RcrHasPointer ==
    \A o, s \in Object, r \in Rel : <<o, s, r>> \in rcr =>
        /\ r \in Composite
        /\ o \in live \/ \E i \in DOMAIN stack : stack[i].obj = o
        /\ o \in live \ pending => (s \in live /\ o \in Refers(s, r)) \/ Removing(s, o, r)

\* A composite pointer has its OksRCR; it dangles only when its parent goes
\* too.
PointerHasRcr ==
    \A s \in live, r \in Composite : \A o \in Refers(s, r) :
        IF o \in live THEN <<o, s, r>> \in rcr ELSE s \in pending

\* No pointer dangles, unless its owner is to be deleted.
PointersLive ==
    Dependent = {} \/ Composite = Rel =>
        \A s \in live, r \in Rel : Refers(s, r) \subseteq live \/ s \in pending

\* The file of the object destroyed first is marked, or all its objects go.
DestroyMarks ==
    stack # <<>> =>
        \/ file[stack[1].obj] \in updated
        \/ \A o \in live : file[o] = file[stack[1].obj] => o \in pending

\* For a client that makes no delicate call.
CarefulInv ==
    Careless = {} =>
        RcrHasPointer /\ PointerHasRcr /\ OneParent(rcr) /\ PointersLive /\ DestroyMarks

\* The inductive invariant.
CompositeInv == StateOK /\ StackOK /\ ValuesOK /\ PendingClosed /\ CarefulInv

-----------------------------------------------------------------------------
(* Values *)

\* A function on 1 .. n is a sequence.
LEMMA FunctionIsSeq ==
  ASSUME NEW S, NEW n \in Nat, NEW f \in [1 .. n -> S]
  PROVE  f \in Seq(S) /\ Len(f) = n /\ DOMAIN f = 1 .. n
<1>1. f \in Seq(S)
  BY SeqDef
<1>2. DOMAIN f = 1 .. n
  OBVIOUS
<1> QED BY <1>1, <1>2, LenProperties

\* A value points to the objects of its references that are bound.
LEMMA PointersAre ==
  ASSUME NEW v
  PROVE  \A o : o \in Pointers(v) <=> \E i \in DOMAIN v : v[i].bound /\ v[i].obj = o
BY DEF Pointers

\* The references of w are those of v, bound or not.
SameRefs(v, w) == DOMAIN w = DOMAIN v /\ \A i \in DOMAIN v : w[i].obj = v[i].obj

\* A set of numbers has a least one.
LEMMA LeastNumber ==
  ASSUME NEW P \in SUBSET Nat, P # {}
  PROVE  \E i \in P : \A j \in P : i <= j
<1>1. PICK i \in P : \A j \in P : <<j, i>> \notin OpToRel(<, Nat)
  BY NatLessThanWellFounded, WFMin
<1>2. ASSUME NEW j \in P, j < i PROVE FALSE
  <2>1. i \in Nat /\ j \in Nat
    OBVIOUS
  <2>2. <<j, i>> \in OpToRel(<, Nat)
    BY <1>2, <2>1, Zenon DEF OpToRel
  <2> QED BY <1>1, <2>2
<1>3. i \in Nat /\ \A j \in P : j \in Nat
  OBVIOUS
<1> QED BY <1>2, <1>3

\* A value keeps its type and its references when some are bound or unbound.
LEMMA SameRefsValue ==
  ASSUME NEW v \in Seq(Ref), NEW w, w = [i \in DOMAIN v |-> w[i]], SameRefs(v, w),
         \A i \in DOMAIN v : w[i] \in Ref
  PROVE  w \in Seq(Ref) /\ Len(w) = Len(v) /\ (Apart(v) => Apart(w))
<1>1. Len(v) \in Nat /\ DOMAIN v = 1 .. Len(v)
  BY LenProperties
<1>2. w \in [1 .. Len(v) -> Ref]
  BY <1>1
<1>3. w \in Seq(Ref) /\ Len(w) = Len(v)
  BY <1>1, <1>2, FunctionIsSeq
<1>4. Apart(v) => Apart(w)
  BY DEF Apart, SameRefs
<1> QED BY <1>3, <1>4

\* A reference is added at the end of a list.
LEMMA ValueAppend ==
  ASSUME NEW v \in Seq(Ref), NEW e \in Ref
  PROVE  /\ Append(v, e) \in Seq(Ref)
         /\ Apart(v) /\ (\A i \in DOMAIN v : v[i].obj # e.obj) => Apart(Append(v, e))
         /\ \A o : o \in Pointers(Append(v, e)) <=> o \in Pointers(v) \/ (e.bound /\ e.obj = o)
<1> DEFINE w == Append(v, e)
<1>1. /\ w \in Seq(Ref) /\ Len(v) \in Nat /\ Len(w) = Len(v) + 1
      /\ (\A i \in 1 .. Len(v) : w[i] = v[i]) /\ w[Len(v) + 1] = e
  BY AppendProperties
<1>2. DOMAIN v = 1 .. Len(v) /\ DOMAIN w = 1 .. Len(v) + 1
  BY <1>1
<1> HIDE DEF w
<1>3. ASSUME Apart(v), \A i \in DOMAIN v : v[i].obj # e.obj PROVE Apart(w)
  BY <1>1, <1>2, <1>3 DEF Apart
<1>4. ASSUME NEW o PROVE o \in Pointers(w) <=> o \in Pointers(v) \/ (e.bound /\ e.obj = o)
  <2>1. (\E i \in DOMAIN w : w[i].bound /\ w[i].obj = o) <=>
        (\E i \in DOMAIN v : v[i].bound /\ v[i].obj = o) \/ (e.bound /\ e.obj = o)
    BY <1>1, <1>2
  <2> QED BY <2>1, PointersAre
<1> QED BY <1>1, <1>3, <1>4 DEF w

\* A reference is taken from a list.
LEMMA ValueWithout ==
  ASSUME NEW v \in Seq(Ref), NEW c, \E i \in DOMAIN v : v[i].obj = c
  PROVE  /\ Without(v, c) \in Seq(Ref)
         /\ Apart(v) => /\ Apart(Without(v, c))
                        /\ \A p : p \in Pointers(Without(v, c)) <=> p \in Pointers(v) /\ p # c
<1>1. Len(v) \in Nat /\ DOMAIN v = 1 .. Len(v) /\ \A i \in 1 .. Len(v) : v[i] \in Ref
  BY LenProperties, ElementOfSeq
<1> DEFINE k == CHOOSE i \in DOMAIN v : v[i].obj = c /\ \A j \in 1 .. i - 1 : v[j].obj # c
           w == Without(v, c)
<1>2. \E i \in DOMAIN v : v[i].obj = c /\ \A j \in 1 .. i - 1 : v[j].obj # c
  <2> DEFINE P == {i \in 1 .. Len(v) : v[i].obj = c}
  <2>1. P \in SUBSET Nat /\ P # {}
    BY <1>1
  <2>2. PICK i \in P : \A j \in P : i <= j
    BY <2>1, LeastNumber
  <2> QED BY <1>1, <2>2
<1>3. k \in 1 .. Len(v) /\ v[k].obj = c
  BY <1>1, <1>2
<1>4. w = SubSeq(v, 1, k - 1) \o SubSeq(v, k + 1, Len(v))
  BY DEF Without
<1> HIDE DEF k, w
<1>5. /\ SubSeq(v, 1, k - 1) \in Seq(Ref) /\ Len(SubSeq(v, 1, k - 1)) = k - 1
      /\ \A i \in 1 .. k - 1 : SubSeq(v, 1, k - 1)[i] = v[i]
  <2>1. \A i \in 1 .. k - 1 : v[i] \in Ref
    BY <1>1, <1>3
  <2>2. k - 1 - 1 + 1 = k - 1 /\ (1 <= k - 1 \/ k - 1 = 0) /\ 1 \in Int /\ k - 1 \in Int /\ \A i \in 1 .. k - 1 : 1 + i - 1 = i
    BY <1>3
  <2>3. /\ SubSeq(v, 1, k - 1) \in Seq(Ref) /\ Len(SubSeq(v, 1, k - 1)) = (IF 1 <= k - 1 THEN k - 1 - 1 + 1 ELSE 0)
        /\ \A i \in 1 .. k - 1 - 1 + 1 : SubSeq(v, 1, k - 1)[i] = v[1 + i - 1]
    BY <2>1, <2>2, SubSeqProperties
  <2> QED BY <2>2, <2>3
<1>6. /\ SubSeq(v, k + 1, Len(v)) \in Seq(Ref) /\ Len(SubSeq(v, k + 1, Len(v))) = Len(v) - k
      /\ \A i \in 1 .. Len(v) - k : SubSeq(v, k + 1, Len(v))[i] = v[k + i]
  <2>1. \A i \in k + 1 .. Len(v) : v[i] \in Ref
    BY <1>1, <1>3
  <2>0. k \in Nat /\ Len(v) \in Nat /\ k <= Len(v)
    BY <1>1, <1>3
  <2>4. \A i \in Nat : k + 1 + i - 1 = k + i
    BY <2>0
  <2>5. 1 .. Len(v) - k \subseteq Nat
    BY <2>0
  <2>2. Len(v) - (k + 1) + 1 = Len(v) - k /\ (k + 1 <= Len(v) \/ Len(v) - k = 0) /\ k + 1 \in Int /\ Len(v) \in Int
        /\ \A i \in 1 .. Len(v) - k : k + 1 + i - 1 = k + i
    BY <2>0, <2>4, <2>5
  <2>3. /\ SubSeq(v, k + 1, Len(v)) \in Seq(Ref) /\ Len(SubSeq(v, k + 1, Len(v))) = (IF k + 1 <= Len(v) THEN Len(v) - (k + 1) + 1 ELSE 0)
        /\ \A i \in 1 .. Len(v) - (k + 1) + 1 : SubSeq(v, k + 1, Len(v))[i] = v[k + 1 + i - 1]
    BY <2>1, <2>2, SubSeqProperties
  <2> QED BY <2>2, <2>3
<1>7. /\ w \in Seq(Ref) /\ Len(w) = Len(v) - 1
      /\ \A i \in 1 .. Len(v) - 1 : w[i] = IF i < k THEN v[i] ELSE v[i + 1]
  <2> DEFINE a == SubSeq(v, 1, k - 1)
             b == SubSeq(v, k + 1, Len(v))
  <2>1. /\ a \in Seq(Ref) /\ b \in Seq(Ref) /\ Len(a) = k - 1 /\ Len(b) = Len(v) - k /\ w = a \o b
        /\ (\A i \in 1 .. k - 1 : a[i] = v[i]) /\ (\A i \in 1 .. Len(v) - k : b[i] = v[k + i])
    BY <1>4, <1>5, <1>6
  <2> HIDE DEF a, b
  <2>2. /\ w \in Seq(Ref) /\ Len(w) = Len(a) + Len(b)
        /\ \A i \in 1 .. Len(a) + Len(b) : w[i] = IF i <= Len(a) THEN a[i] ELSE b[i - Len(a)]
    BY <2>1, ConcatProperties
  <2>3. Len(a) + Len(b) = Len(v) - 1
    BY <1>1, <1>3, <2>1
  <2>4. ASSUME NEW i \in 1 .. Len(v) - 1 PROVE w[i] = IF i < k THEN v[i] ELSE v[i + 1]
    <3>1. CASE i < k
      <4>1. i <= Len(a) /\ i \in 1 .. k - 1
        BY <1>3, <2>1, <3>1
      <4> QED BY <2>1, <2>2, <2>3, <2>4, <3>1, <4>1
    <3>2. CASE ~(i < k)
      <4>1. ~(i <= Len(a)) /\ i - Len(a) \in 1 .. Len(v) - k /\ k + (i - Len(a)) = i + 1
        BY <1>1, <1>3, <2>1, <3>2
      <4>2. w[i] = b[i - Len(a)]
        BY <2>2, <2>3, <4>1
      <4>3. b[i - Len(a)] = v[k + (i - Len(a))]
        BY <2>1, <4>1
      <4> QED BY <3>2, <4>1, <4>2, <4>3
    <3> QED BY <3>1, <3>2
  <2> QED BY <2>2, <2>3, <2>4
<1>8. DOMAIN w = 1 .. Len(v) - 1
  BY <1>7, LenProperties
<1>9. ASSUME Apart(v) PROVE Apart(w)
  <2> DEFINE m(i) == IF i < k THEN i ELSE i + 1
  <2>1. ASSUME NEW i \in DOMAIN w PROVE i \in Int /\ m(i) \in DOMAIN v /\ w[i] = v[m(i)]
    BY <1>1, <1>3, <1>7, <1>8
  <2>2. ASSUME NEW i \in Int, NEW j \in Int, m(i) = m(j) PROVE i = j
    BY <1>3, <2>2
  <2> HIDE DEF m
  <2> QED BY <1>9, <2>1, <2>2 DEF Apart
<1>10. ASSUME Apart(v), NEW p PROVE p \in Pointers(w) <=> p \in Pointers(v) /\ p # c
  <2>1. ASSUME NEW i \in DOMAIN w, w[i].bound, w[i].obj = p PROVE p # c /\ \E j \in DOMAIN v : v[j].bound /\ v[j].obj = p
    <3>1. PICK j \in 1 .. Len(v) : j # k /\ w[i] = v[j]
      BY <1>1, <1>3, <1>7, <1>8
    <3> QED BY <1>1, <1>3, <1>10, <2>1, <3>1 DEF Apart
  <2>2. ASSUME NEW j \in DOMAIN v, v[j].bound, v[j].obj = p, p # c PROVE \E i \in DOMAIN w : w[i].bound /\ w[i].obj = p
    <3>1. j # k /\ j \in 1 .. Len(v)
      BY <1>1, <1>3, <2>2
    <3>2. CASE j < k
      <4>1. j \in DOMAIN w /\ w[j] = v[j]
        BY <1>1, <1>3, <1>7, <1>8, <3>1, <3>2
      <4> QED BY <2>2, <4>1
    <3>3. CASE ~(j < k)
      <4>1. j - 1 \in DOMAIN w /\ w[j - 1] = v[j]
        BY <1>1, <1>3, <1>7, <1>8, <3>1, <3>3
      <4> QED BY <2>2, <4>1
    <3> QED BY <3>2, <3>3
  <2> QED BY <2>1, <2>2, PointersAre
<1> QED BY <1>7, <1>9, <1>10 DEF w

-----------------------------------------------------------------------------
(* The stack of ~OksObject calls *)

\* The innermost call, and the calls around it.
LEMMA StackParts ==
  ASSUME stack \in Seq(Frames), stack # <<>>
  PROVE  /\ Len(stack) \in Nat /\ Len(stack) >= 1 /\ DOMAIN stack = 1 .. Len(stack)
         /\ Top = stack[Len(stack)] /\ Top \in Frames
         /\ Outer \in Seq(Frames) /\ Len(Outer) = Len(stack) - 1 /\ DOMAIN Outer = 1 .. Len(stack) - 1
         /\ \A i \in 1 .. Len(stack) - 1 : Outer[i] = stack[i]
<1>1. Len(stack) \in Nat \ {0} /\ DOMAIN stack = 1 .. Len(stack) /\ \A i \in 1 .. Len(stack) : stack[i] \in Frames
  BY EmptySeq, LenProperties, ElementOfSeq
<1>2. Top = stack[Len(stack)] /\ Top \in Frames
  BY <1>1 DEF Top
<1> DEFINE n == Len(stack) - 1
<1>3. n \in Nat /\ n + 1 = Len(stack)
  BY <1>1
<1>4. Outer = SubSeq(stack, 1, n)
  BY DEF Outer
<1> HIDE DEF n
<1>5. \A i \in 1 .. n : stack[i] \in Frames
  BY <1>1, <1>3
<1>6. /\ SubSeq(stack, 1, n) \in Seq(Frames) /\ Len(SubSeq(stack, 1, n)) = (IF 1 <= n THEN n - 1 + 1 ELSE 0)
      /\ \A i \in 1 .. n - 1 + 1 : SubSeq(stack, 1, n)[i] = stack[1 + i - 1]
  BY <1>3, <1>5, SubSeqProperties
<1>7. n - 1 + 1 = n /\ (1 <= n \/ n = 0) /\ \A i \in 1 .. n : 1 + i - 1 = i
  BY <1>3
<1>8. Outer \in Seq(Frames) /\ Len(Outer) = n /\ \A i \in 1 .. n : Outer[i] = stack[i]
  BY <1>4, <1>6, <1>7
<1>9. DOMAIN Outer = 1 .. n
  BY <1>8, LenProperties
<1> QED BY <1>1, <1>2, <1>8, <1>9 DEF n

\* A call of ~OksObject starts inside those under way.
LEMMA StackPush ==
  ASSUME NEW q \in Seq(Frames), NEW e \in Frames
  PROVE  /\ Append(q, e) \in Seq(Frames) /\ Len(q) \in Nat /\ DOMAIN q = 1 .. Len(q)
         /\ DOMAIN Append(q, e) = 1 .. Len(q) + 1 /\ Append(q, e)[Len(q) + 1] = e
         /\ \A i \in 1 .. Len(q) : Append(q, e)[i] = q[i]
BY AppendProperties, LenProperties

\* The innermost call has visited t.
Visited(q, t) ==
    /\ q \in Seq(Frames) /\ Len(q) = Len(stack)
    /\ \A i \in DOMAIN stack :
         /\ q[i].obj = stack[i].obj
         /\ q[i].todo = IF i = Len(stack) THEN stack[i].todo \ {t} ELSE stack[i].todo

\* What the stack is after the innermost call has visited a child, and after
\* the child is deleted too.
LEMMA StackVisit ==
  ASSUME stack \in Seq(Frames), stack # <<>>, NEW t, NEW e \in Frames
  PROVE  LET rest == [Top EXCEPT !.todo = @ \ {t}] IN
           /\ Visited(Append(Outer, rest), t)
           /\ Outer \o <<rest, e>> = Append(Append(Outer, rest), e)
<1> DEFINE rest == [Top EXCEPT !.todo = @ \ {t}]
           q == Append(Outer, rest)
<1>0. /\ Len(stack) \in Nat /\ Len(stack) >= 1 /\ DOMAIN stack = 1 .. Len(stack)
      /\ Top = stack[Len(stack)] /\ Top \in Frames
      /\ Outer \in Seq(Frames) /\ Len(Outer) = Len(stack) - 1
      /\ \A i \in 1 .. Len(stack) - 1 : Outer[i] = stack[i]
  BY StackParts
<1>1. rest \in Frames /\ rest.obj = Top.obj /\ rest.todo = Top.todo \ {t}
  BY <1>0 DEF Frames
<1> HIDE DEF rest
<1>2. /\ q \in Seq(Frames) /\ q[Len(Outer) + 1] = rest /\ Len(q) = Len(Outer) + 1
      /\ \A i \in 1 .. Len(Outer) : q[i] = Outer[i]
  <2>1. Outer \in Seq(Frames) /\ rest \in Frames
    BY <1>0, <1>1
  <2> QED BY <2>1, AppendProperties
<1> HIDE DEF q
<1>3. Visited(q, t)
  <2>1. ASSUME NEW i \in DOMAIN stack
        PROVE  /\ q[i].obj = stack[i].obj
               /\ q[i].todo = IF i = Len(stack) THEN stack[i].todo \ {t} ELSE stack[i].todo
    <3>1. CASE i = Len(stack)
      <4>1. q[i] = rest
        BY <1>0, <1>2, <3>1
      <4> QED BY <1>0, <1>1, <3>1, <4>1
    <3>2. CASE i # Len(stack)
      <4>1. i \in 1 .. Len(stack) - 1 /\ i \in 1 .. Len(Outer)
        BY <1>0, <3>2
      <4>2. q[i] = stack[i]
        BY <1>0, <1>2, <4>1
      <4> QED BY <3>2, <4>2
    <3> QED BY <3>1, <3>2
  <2>2. Len(q) = Len(stack)
    BY <1>0, <1>2
  <2> QED BY <1>2, <2>1, <2>2 DEF Visited
<1>4. Outer \o <<rest, e>> = Append(q, e)
  <2> DEFINE a == Outer \o <<rest, e>>
             b == Append(q, e)
  <2>1. <<rest, e>> \in Seq(Frames) /\ Len(<<rest, e>>) = 2 /\ <<rest, e>>[1] = rest /\ <<rest, e>>[2] = e
    BY <1>1
  <2>2. /\ a \in Seq(Frames) /\ Len(a) = Len(Outer) + 2
        /\ \A i \in 1 .. Len(Outer) + 2 : a[i] = IF i <= Len(Outer) THEN Outer[i] ELSE <<rest, e>>[i - Len(Outer)]
    BY <1>0, <2>1, ConcatProperties
  <2>3. b \in Seq(Frames) /\ Len(b) = Len(q) + 1 /\ b[Len(q) + 1] = e /\ \A i \in 1 .. Len(q) : b[i] = q[i]
    BY <1>2, AppendProperties
  <2> HIDE DEF a, b
  <2>4. Len(Outer) \in Nat
    BY <1>0
  <2>5. ASSUME NEW i \in 1 .. Len(a) PROVE a[i] = b[i]
    <3>1. CASE i <= Len(Outer)
      <4>1. i \in 1 .. Len(Outer) + 2 /\ i \in 1 .. Len(Outer) /\ i \in 1 .. Len(q)
        BY <1>2, <2>2, <2>4, <3>1
      <4>2. a[i] = Outer[i]
        BY <2>2, <3>1, <4>1
      <4>3. b[i] = Outer[i]
        BY <1>2, <2>3, <4>1
      <4> QED BY <4>2, <4>3
    <3>2. CASE i = Len(Outer) + 1
      <4>1. a[i] = rest
        BY <2>1, <2>2, <2>4, <3>2
      <4>2. b[i] = rest
        BY <1>2, <2>3, <2>4, <3>2
      <4> QED BY <4>1, <4>2
    <3>3. CASE i = Len(Outer) + 2
      <4>1. a[i] = e
        BY <2>1, <2>2, <2>4, <3>3
      <4>2. b[i] = e
        BY <1>2, <2>3, <2>4, <3>3
      <4> QED BY <4>1, <4>2
    <3> QED BY <2>2, <2>4, <3>1, <3>2, <3>3
  <2>6. Len(a) = Len(b)
    BY <1>2, <2>2, <2>3, <2>4
  <2>7. a = b
    BY <2>2, <2>3, <2>5, <2>6, SeqEqual
  <2> QED BY <2>7 DEF a, b
<1> QED BY <1>3, <1>4 DEF rest, q

-----------------------------------------------------------------------------
(* The setup, the arguments and the effects of the setters *)

\* What the setup gives does not change.
LEMMA SetupSame ==
  setup' = setup => /\ Rel' = Rel /\ Many' = Many /\ Composite' = Composite /\ Exclusive' = Exclusive
                    /\ Dependent' = Dependent /\ Careless' = Careless
BY DEF Rel, Many, Composite, Exclusive, Dependent, Careless

\* The relationships by kind, and the bounds.
LEMMA SetupParts ==
  setup \in Setups => /\ Many \subseteq Rel /\ Composite \subseteq Rel
                      /\ Exclusive \subseteq Composite /\ Dependent \subseteq Composite
                      /\ setup.files \subseteq File /\ NoFile \notin File /\ MaxLen \in Nat
BY CompositeAssumption DEF Rel, Many, Composite, Exclusive, Dependent, MaxLen

\* A reference to an object is a pointer when the object is there.
LEMMA RefToRef ==
  ASSUME NEW c \in Object
  PROVE  RefTo(c) \in Ref /\ RefTo(c).obj = c /\ (RefTo(c).bound <=> c \in live)
<1>1. (c \in live) \in BOOLEAN
  OBVIOUS
<1>2. RefTo(c).obj = c /\ RefTo(c).bound = (c \in live)
  BY DEF RefTo
<1>3. RefTo(c) \in Ref
  BY <1>1 DEF RefTo, Ref
<1> QED BY <1>1, <1>2, <1>3

\* The values a setter may be given.
LEMMA InputParts ==
  ASSUME setup \in Setups, NEW r, NEW v \in Input(r)
  PROVE  /\ r \in Rel /\ v \in Seq(Ref)
         /\ r \notin Many => Len(v) <= 1
         /\ "addAgain" \notin Careless => Apart(v)
         /\ Pointers(v) \subseteq live
<1> DEFINE max == IF r \in Many THEN MaxLen ELSE 1
<1>1. r \in Rel
  BY DEF Input
<1>2. PICK u \in UNION {[1 .. n -> Object] : n \in 0 .. max} :
         ("addAgain" \in Careless \/ Distinct(u)) /\ v = [i \in DOMAIN u |-> RefTo(u[i])]
  BY <1>1 DEF Input
<1>3. max \in Nat
  BY SetupParts
<1>4. PICK n \in 0 .. max : u \in [1 .. n -> Object]
  BY <1>2
<1> HIDE DEF max
<1>5. n \in Nat /\ n <= max /\ DOMAIN u = 1 .. n
  BY <1>3, <1>4
<1>6. DOMAIN v = 1 .. n /\ \A i \in 1 .. n : v[i] = RefTo(u[i]) /\ u[i] \in Object
  BY <1>2, <1>4, <1>5
<1>7. \A i \in 1 .. n : v[i] \in Ref /\ v[i].obj = u[i] /\ (v[i].bound <=> u[i] \in live)
  BY <1>6, RefToRef
<1>8. v \in [1 .. n -> Ref]
  BY <1>2, <1>5, <1>6, <1>7
<1>9. v \in Seq(Ref) /\ Len(v) = n
  BY <1>5, <1>8, FunctionIsSeq
<1>10. r \notin Many => Len(v) <= 1
  BY <1>5, <1>9 DEF max
<1>11. "addAgain" \notin Careless => Apart(v)
  BY <1>2, <1>5, <1>6, <1>7 DEF Distinct, Apart
<1>12. Pointers(v) \subseteq live
  BY <1>6, <1>7, PointersAre
<1> QED BY <1>1, <1>9, <1>10, <1>11, <1>12

\* OksRCRs of objects O to s through r.
LEMMA RcrsAre ==
  ASSUME NEW O, NEW s, NEW r
  PROVE  \A a, b, q : <<a, b, q>> \in RCRs(O, s, r) <=> a \in O /\ b = s /\ q = r /\ r \in Composite
<1> SUFFICES ASSUME NEW a, NEW b, NEW q
             PROVE  <<a, b, q>> \in RCRs(O, s, r) <=> a \in O /\ b = s /\ q = r /\ r \in Composite
  OBVIOUS
<1>1. \A c : <<a, b, q>> = <<c, s, r>> <=> a = c /\ b = s /\ q = r
  OBVIOUS
<1> QED BY <1>1 DEF RCRs

\* The value of one relationship is replaced and the file marked.
LEMMA AssignParts ==
  ASSUME StateOK, NEW s \in Object, NEW r \in Rel, NEW v \in Seq(Ref), Assign(s, r, v)
  PROVE  /\ value' \in [Object -> [Rel -> Seq(Ref)]]
         /\ \A p \in Object, q \in Rel : value'[p][q] = IF p = s /\ q = r THEN v ELSE value[p][q]
         /\ \A p \in Object : p # s => value'[p] = value[p]
         /\ updated' = updated \cup {file[s]}
<1>1. value \in [Object -> [Rel -> Seq(Ref)]]
  BY DEF StateOK
<1>2. value' = [value EXCEPT ![s][r] = v] /\ updated' = updated \cup {file[s]}
  BY DEF Assign
<1> QED BY <1>1, <1>2

-----------------------------------------------------------------------------
(* Between calls *)

\* The OksRCRs are the composite pointers, each object has one parent through
\* one exclusive relationship, and composite pointers do not dangle.
Exact ==
    /\ \A o, s \in Object, r \in Rel :
         <<o, s, r>> \in rcr <=> s \in live /\ r \in Composite /\ o \in Refers(s, r)
    /\ \A s \in live, r \in Composite : Refers(s, r) \subseteq live
    /\ OneParent(rcr)
    /\ Dependent = {} \/ Composite = Rel => \A s \in live, r \in Rel : Refers(s, r) \subseteq live

\* A value points to objects.
LEMMA RefersObjects ==
  ASSUME StateOK, NEW s \in Object, NEW r \in Rel
  PROVE  Refers(s, r) \subseteq Object /\ value[s][r] \in Seq(Ref)
<1>1. value[s][r] \in Seq(Ref)
  BY DEF StateOK
<1>2. \A i \in DOMAIN value[s][r] : value[s][r][i] \in Ref
  BY <1>1, ElementOfSeq, LenProperties
<1>3. \A e \in Ref : e.obj \in Object
  BY DEF Ref
<1>4. \A o : o \in Refers(s, r) => o \in Object
  BY <1>2, <1>3, PointersAre DEF Refers
<1> QED BY <1>1, <1>4

\* The same for a careful client.
CarefulExact == Careless = {} => Exact

\* What the inductive invariant says between calls.
LEMMA IdleParts ==
  ASSUME CompositeInv, Idle, Careless = {}
  PROVE  Exact
<1>1. RcrHasPointer /\ PointerHasRcr /\ OneParent(rcr) /\ PointersLive
  BY DEF CompositeInv, CarefulInv
<1>2. stack = <<>> /\ pending = {}
  BY DEF Idle
<1>3. DOMAIN stack = {}
  BY <1>2
<1>4. live \subseteq Object /\ Composite \subseteq Rel
  BY SetupParts DEF CompositeInv, StateOK
<1>5. \A s \in live, r \in Composite : \A o \in Refers(s, r) : o \in live /\ <<o, s, r>> \in rcr
  BY <1>1, <1>2 DEF PointerHasRcr
<1>6. ASSUME NEW o \in Object, NEW s \in Object, NEW r \in Rel, <<o, s, r>> \in rcr
      PROVE  s \in live /\ r \in Composite /\ o \in Refers(s, r)
  BY <1>1, <1>2, <1>3, <1>6 DEF RcrHasPointer, Removing
<1>7. Dependent = {} \/ Composite = Rel => \A s \in live, r \in Rel : Refers(s, r) \subseteq live
  BY <1>1, <1>2 DEF PointersLive
<1>8. \A o, s \in Object, r \in Rel :
         <<o, s, r>> \in rcr <=> s \in live /\ r \in Composite /\ o \in Refers(s, r)
  BY <1>5, <1>6
<1> QED BY <1>1, <1>5, <1>7, <1>8 DEF Exact

\* Between calls nothing else is to be shown.
LEMMA IdleInv ==
  StateOK /\ ValuesOK /\ Idle /\ CarefulExact => CompositeInv
<1> SUFFICES ASSUME StateOK, ValuesOK, Idle, CarefulExact PROVE CompositeInv
  OBVIOUS
<1>1. stack = <<>> /\ pending = {}
  BY DEF Idle
<1>2. stack \in Seq(Frames) /\ DOMAIN stack = {}
  BY <1>1
<1>3. StackOK
  BY <1>2 DEF StackOK
<1>4. PendingClosed
  BY <1>1 DEF PendingClosed
<1>5. ASSUME Careless = {} PROVE RcrHasPointer /\ PointerHasRcr /\ OneParent(rcr) /\ PointersLive /\ DestroyMarks
  <2>1. Exact
    BY <1>5 DEF CarefulExact
  <2>2. live \subseteq Object /\ Composite \subseteq Rel
    BY SetupParts DEF StateOK
  <2>3. \A s \in live, r \in Composite : \A o \in Refers(s, r) : o \in Object /\ o \in live
    BY <2>1, <2>2 DEF Exact
  <2>4. \A s \in live, r \in Composite : \A o \in Refers(s, r) : s \in Object /\ r \in Rel /\ o \in Object
    BY <2>2, <2>3
  <2>5. RcrHasPointer
    BY <2>1, <2>2 DEF RcrHasPointer, Exact
  <2>6. PointerHasRcr
    BY <2>1, <2>3, <2>4 DEF PointerHasRcr, Exact
  <2>7. PointersLive
    BY <2>1 DEF PointersLive, Exact
  <2> QED BY <1>1, <2>1, <2>5, <2>6, <2>7 DEF DestroyMarks, Exact
<1> QED BY <1>3, <1>4, <1>5 DEF CompositeInv, CarefulInv

\* The same of the next state.
LEMMA IdleInvNext ==
  ASSUME StateOK', ValuesOK', Idle', setup' = setup, Careless = {} => Exact'
  PROVE  CompositeInv'
<1>1. CarefulExact'
  BY SetupSame DEF CarefulExact
<1> QED BY <1>1, IdleInv, PTL

-----------------------------------------------------------------------------
(* The setters *)

\* What a setter does: the value v of one relationship, its OksRCRs, the mark.
SetterDone(s, r, v) ==
    /\ Idle /\ s \in live /\ r \in Rel
    /\ \/ Assign(s, r, v)
       \/ v = value[s][r] /\ UNCHANGED <<value, updated>>
    /\ v \in Seq(Ref)
    /\ r \notin Many => Len(v) <= 1
    /\ "addAgain" \notin Careless => Apart(v)
    /\ rcr' \subseteq Triple
    /\ Careless = {} =>
         /\ Pointers(v) \subseteq Refers(s, r) \cup live
         /\ \A o, p \in Object, q \in Rel :
              <<o, p, q>> \in rcr' <=>
                IF p = s /\ q = r THEN r \in Composite /\ o \in Pointers(v)
                                  ELSE <<o, p, q>> \in rcr
         /\ \A o \in Object : r \in Exclusive /\ o \in Pointers(v) \ Refers(s, r) =>
              \A p \in Object : p # s => <<o, p, r>> \notin rcr
    /\ UNCHANGED <<live, file, stack, pending, setup>>

\* The value of one relationship is replaced.
LEMMA SetterValue ==
  ASSUME StateOK, NEW s, NEW r, NEW v, SetterDone(s, r, v)
  PROVE  /\ value' \in [Object -> [Rel -> Seq(Ref)]]
         /\ \A p \in Object, q \in Rel : value'[p][q] = IF p = s /\ q = r THEN v ELSE value[p][q]
         /\ \A p \in Object : p # s => value'[p] = value[p]
         /\ updated \subseteq updated' /\ updated' \subseteq File
         /\ value'[s] = value[s] \/ file[s] \in updated'
<1>1. value \in [Object -> [Rel -> Seq(Ref)]] /\ s \in Object /\ r \in Rel /\ v \in Seq(Ref)
      /\ updated \subseteq File /\ file[s] \in File
  BY DEF StateOK, SetterDone
<1>2. CASE Assign(s, r, v)
  BY <1>1, <1>2, AssignParts
<1>3. CASE v = value[s][r] /\ UNCHANGED <<value, updated>>
  BY <1>1, <1>3
<1> QED BY <1>2, <1>3 DEF SetterDone

\* A setter keeps the inductive invariant.
LEMMA SetterInv ==
  ASSUME CompositeInv, NEW s, NEW r, NEW v, SetterDone(s, r, v)
  PROVE  CompositeInv'
<1>1. StateOK /\ ValuesOK /\ Idle /\ s \in live /\ r \in Rel /\ s \in Object
  BY DEF CompositeInv, SetterDone, StateOK
<1>2. /\ value' \in [Object -> [Rel -> Seq(Ref)]]
      /\ \A p \in Object, q \in Rel : value'[p][q] = IF p = s /\ q = r THEN v ELSE value[p][q]
      /\ updated' \subseteq File
  BY <1>1, SetterValue
<1>3. UNCHANGED <<live, file, stack, pending, setup>> /\ rcr' \subseteq Triple
  BY DEF SetterDone
<1>4. Rel' = Rel /\ Many' = Many /\ Composite' = Composite /\ Exclusive' = Exclusive
      /\ Dependent' = Dependent /\ Careless' = Careless
  BY <1>3, SetupSame
<1>5. StateOK'
  BY <1>1, <1>2, <1>3, <1>4 DEF StateOK, Triple
<1>6. ValuesOK'
  <2>1. (r \notin Many => Len(v) <= 1) /\ ("addAgain" \notin Careless => Apart(v))
    BY DEF SetterDone
  <2> QED BY <1>1, <1>2, <1>4, <2>1 DEF ValuesOK
<1>7. Idle'
  BY <1>1, <1>3 DEF Idle
<1>8. ASSUME Careless = {} PROVE Exact'
  <2>1. Exact
    BY <1>1, <1>8, IdleParts
  <2>2. /\ Pointers(v) \subseteq Refers(s, r) \cup live
        /\ \A o, p \in Object, q \in Rel :
              <<o, p, q>> \in rcr' <=>
                IF p = s /\ q = r THEN r \in Composite /\ o \in Pointers(v)
                                  ELSE <<o, p, q>> \in rcr
        /\ \A o \in Object : r \in Exclusive /\ o \in Pointers(v) \ Refers(s, r) =>
              \A p \in Object : p # s => <<o, p, r>> \notin rcr
    BY <1>8 DEF SetterDone
  <2>3. \A p \in Object, q \in Rel : Pointers(value'[p][q]) = IF p = s /\ q = r THEN Pointers(v) ELSE Refers(p, q)
    BY <1>2 DEF Refers
  <2>4. \A o, p \in Object, q \in Rel :
          <<o, p, q>> \in rcr' <=> p \in live /\ q \in Composite /\ o \in Pointers(value'[p][q])
    <3> SUFFICES ASSUME NEW o \in Object, NEW p \in Object, NEW q \in Rel
                 PROVE  <<o, p, q>> \in rcr' <=> p \in live /\ q \in Composite /\ o \in Pointers(value'[p][q])
      OBVIOUS
    <3>1. <<o, p, q>> \in rcr <=> p \in live /\ q \in Composite /\ o \in Refers(p, q)
      BY <2>1 DEF Exact
    <3>2. <<o, p, q>> \in rcr' <=>
            IF p = s /\ q = r THEN r \in Composite /\ o \in Pointers(v) ELSE <<o, p, q>> \in rcr
      BY <2>2
    <3> QED BY <1>1, <2>3, <3>1, <3>2
  <2>5. live \subseteq Object /\ Composite \subseteq Rel
    BY <1>1, SetupParts DEF StateOK
  <2>6. \A p \in live, q \in Composite : Pointers(value'[p][q]) \subseteq live
    BY <1>1, <2>1, <2>2, <2>3, <2>5 DEF Exact
  <2>7. Dependent = {} \/ Composite = Rel => \A p \in live, q \in Rel : Pointers(value'[p][q]) \subseteq live
    BY <1>1, <2>1, <2>2, <2>3, <2>5 DEF Exact
  <2>8. OneParent(rcr')
    <3>1. \A t \in rcr' : t \in Object \X Object \X Rel /\ t = <<t[1], t[2], t[3]>>
      BY <1>3 DEF Triple
    <3>2. ASSUME NEW o \in Object, NEW p \in Object, NEW b \in Object, NEW q \in Rel,
                 <<o, p, q>> \in rcr', <<o, b, q>> \in rcr', q \in Exclusive
          PROVE  p = b
      <4>1. \A x \in Object, y \in Object, z \in Rel, w \in Object :
               <<x, y, z>> \in rcr /\ <<x, w, z>> \in rcr /\ z \in Exclusive => y = w
        BY <2>1 DEF Exact, OneParent
      <4>2. CASE q # r
        BY <2>2, <3>2, <4>1, <4>2
      <4>3. ASSUME q = r, NEW x \in Object, x # s, <<o, x, q>> \in rcr', <<o, s, q>> \in rcr' PROVE FALSE
        <5>1. <<o, x, r>> \in rcr /\ o \in Pointers(v) /\ r \in Composite
          BY <1>1, <2>2, <4>3
        <5>2. o \in Refers(s, r)
          BY <2>2, <3>2, <4>3, <5>1
        <5>3. <<o, s, r>> \in rcr
          BY <1>1, <2>1, <5>1, <5>2 DEF Exact
        <5> QED BY <1>1, <3>2, <4>1, <4>3, <5>1, <5>3
      <4>4. CASE q = r /\ p # s /\ b # s
        BY <2>2, <3>2, <4>1, <4>4
      <4> QED BY <3>2, <4>2, <4>3, <4>4
    <3> QED BY <3>1, <3>2 DEF OneParent
  <2>9. \A t, u \in rcr' : t[3] \in Exclusive' /\ t[1] = u[1] /\ t[3] = u[3] => t = u
    BY <1>4, <2>8 DEF OneParent
  <2> QED BY <1>3, <1>4, <2>4, <2>6, <2>7, <2>9 DEF Exact, Refers, OneParent
<1> QED BY <1>3, <1>5, <1>6, <1>7, <1>8, IdleInvNext

\* The value of a relationship before a setter.
LEMMA OldValue ==
  ASSUME CompositeInv, Idle, NEW s \in live, NEW r \in Rel
  PROVE  /\ s \in Object /\ value[s][r] \in Seq(Ref) /\ rcr \subseteq Triple
         /\ Refers(s, r) = Pointers(value[s][r]) /\ Refers(s, r) \subseteq Object
         /\ r \notin Many => Len(value[s][r]) <= 1
         /\ "addAgain" \notin Careless => Apart(value[s][r])
         /\ Careless = {} => \A o, p \in Object, q \in Rel :
              <<o, p, q>> \in rcr <=> p \in live /\ q \in Composite /\ o \in Refers(p, q)
<1>1. StateOK /\ ValuesOK /\ s \in Object
  BY DEF CompositeInv, StateOK
<1>2. value[s][r] \in Seq(Ref) /\ rcr \subseteq Triple /\ Refers(s, r) \subseteq Object
  BY <1>1, RefersObjects DEF StateOK
<1>3. (r \notin Many => Len(value[s][r]) <= 1) /\ ("addAgain" \notin Careless => Apart(value[s][r]))
  BY <1>1 DEF ValuesOK
<1>4. Careless = {} => \A o, p \in Object, q \in Rel :
              <<o, p, q>> \in rcr <=> p \in live /\ q \in Composite /\ o \in Refers(p, q)
  BY IdleParts DEF Exact
<1> QED BY <1>1, <1>2, <1>3, <1>4 DEF Refers

\* OksRCRs are triples.
LEMMA RcrsTriples ==
  ASSUME setup \in Setups, NEW O \in SUBSET Object, NEW s \in Object, NEW r \in Rel
  PROVE  RCRs(O, s, r) \subseteq Triple
BY DEF RCRs, Triple

\* SetRelationshipValue does what a setter does, refused or not.
LEMMA SetIsSetter ==
  ASSUME CompositeInv, NEW s \in Object, NEW r, NEW v \in Input(r), SetRelationshipValue(s, r, v)
  PROVE  \E w : SetterDone(s, r, w)
<1> DEFINE added   == Pointers(v) \ Refers(s, r)
           removed == Refers(s, r) \ Pointers(v)
           left    == rcr \ RCRs(removed, s, r)
           refuse  == {o \in added : ~CanAdd(left, o, s, r)}
<1>1. /\ Idle /\ s \in live
      /\ IF refuse = {}
           THEN Assign(s, r, v) /\ rcr' = left \cup RCRs(added, s, r)
           ELSE /\ \E before \in SUBSET (added \ refuse) :
                     rcr' = (left \ RCRs(before, s, r)) \cup RCRs(removed, s, r)
                /\ UNCHANGED <<value, updated>>
      /\ UNCHANGED <<live, file, stack, pending, setup>>
  BY DEF SetRelationshipValue
<1>2. setup \in Setups /\ live \subseteq Object
  BY DEF CompositeInv, StateOK
<1>3. /\ r \in Rel /\ v \in Seq(Ref) /\ (r \notin Many => Len(v) <= 1)
      /\ ("addAgain" \notin Careless => Apart(v)) /\ Pointers(v) \subseteq live
  BY <1>2, InputParts
<1>4. /\ value[s][r] \in Seq(Ref) /\ rcr \subseteq Triple /\ Refers(s, r) \subseteq Object
      /\ (r \notin Many => Len(value[s][r]) <= 1) /\ ("addAgain" \notin Careless => Apart(value[s][r]))
      /\ Refers(s, r) = Pointers(value[s][r])
  BY <1>1, <1>3, OldValue
<1>5. ASSUME Careless = {}
      PROVE  \A o, p \in Object, q \in Rel :
               <<o, p, q>> \in rcr <=> p \in live /\ q \in Composite /\ o \in Refers(p, q)
  BY <1>1, <1>3, <1>5, OldValue
<1>6. \A O \in {added, removed} : RCRs(O, s, r) \subseteq Triple
  BY <1>2, <1>3, <1>4, RcrsTriples
<1>9. /\ \A x, y, z : <<x, y, z>> \in RCRs(added, s, r) <=> x \in added /\ y = s /\ z = r /\ r \in Composite
      /\ \A x, y, z : <<x, y, z>> \in RCRs(removed, s, r) <=> x \in removed /\ y = s /\ z = r /\ r \in Composite
  <2> HIDE DEF added, removed
  <2> QED BY RcrsAre
<1>7. CASE refuse = {}
  <2>1. Assign(s, r, v) /\ rcr' = left \cup RCRs(added, s, r)
    BY <1>1, <1>7
  <2>2. rcr' \subseteq Triple
    BY <1>4, <1>6, <2>1
  <2>3. \A o, p, q : <<o, p, q>> \in rcr' <=>
           \/ <<o, p, q>> \in rcr /\ ~(o \in removed /\ p = s /\ q = r /\ r \in Composite)
           \/ o \in added /\ p = s /\ q = r /\ r \in Composite
    <3> HIDE DEF added, removed
    <3> QED BY <1>9, <2>1
  <2>4. ASSUME Careless = {}, NEW o \in Object, NEW p \in Object, NEW q \in Rel
        PROVE  <<o, p, q>> \in rcr' <=>
                IF p = s /\ q = r THEN r \in Composite /\ o \in Pointers(v) ELSE <<o, p, q>> \in rcr
    <3>1. <<o, p, q>> \in rcr <=> p \in live /\ q \in Composite /\ o \in Refers(p, q)
      BY <1>5, <2>4
    <3> QED BY <1>1, <2>3, <3>1
  <2>5. ASSUME NEW o \in Object, r \in Exclusive, o \in added, Careless = {}, NEW p \in Object, p # s
        PROVE  <<o, p, r>> \notin rcr
    <3>1. CanAdd(left, o, s, r)
      BY <1>7, <2>5
    <3>2. \A x, y, z : <<x, y, z>> \in left <=> <<x, y, z>> \in rcr /\ ~(x \in removed /\ y = s /\ z = r /\ r \in Composite)
      BY <1>9
    <3>3. <<o, s, r>> \notin rcr
      BY <1>3, <1>5, <2>5
    <3> HIDE DEF left, removed
    <3> QED BY <2>5, <3>1, <3>2, <3>3 DEF CanAdd
  <2> HIDE DEF removed, left, refuse
  <2>6. SetterDone(s, r, v)
    BY <1>1, <1>3, <2>1, <2>2, <2>4, <2>5 DEF SetterDone
  <2> QED BY <2>6
<1>8. CASE refuse # {}
  <2>1. PICK before \in SUBSET (added \ refuse) : rcr' = (left \ RCRs(before, s, r)) \cup RCRs(removed, s, r)
    BY <1>1, <1>8
  <2>2. rcr' \subseteq Triple /\ UNCHANGED <<value, updated>>
    BY <1>1, <1>4, <1>6, <1>8, <2>1
  <2>3. \A o, p, q : <<o, p, q>> \in rcr' <=>
           \/ /\ <<o, p, q>> \in rcr
              /\ ~(o \in removed /\ p = s /\ q = r /\ r \in Composite)
              /\ ~(o \in before /\ p = s /\ q = r /\ r \in Composite)
           \/ o \in removed /\ p = s /\ q = r /\ r \in Composite
    <3>1. \A x, y, z : <<x, y, z>> \in RCRs(before, s, r) <=> x \in before /\ y = s /\ z = r /\ r \in Composite
      BY RcrsAre
    <3> HIDE DEF added, removed
    <3> QED BY <1>9, <2>1, <3>1
  <2>4. ASSUME Careless = {}, NEW o \in Object, NEW p \in Object, NEW q \in Rel
        PROVE  <<o, p, q>> \in rcr' <=>
                IF p = s /\ q = r THEN r \in Composite /\ o \in Refers(s, r) ELSE <<o, p, q>> \in rcr
    <3>1. <<o, p, q>> \in rcr <=> p \in live /\ q \in Composite /\ o \in Refers(p, q)
      BY <1>5, <2>4
    <3>2. p = s /\ q = r => (o \in before => o \notin Refers(s, r)) /\ (o \in removed => o \in Refers(s, r))
      BY <2>1
    <3> HIDE DEF added, removed
    <3> QED BY <1>1, <2>3, <3>1, <3>2
  <2>5. \A o : o \notin Refers(s, r) \ Refers(s, r)
    OBVIOUS
  <2> HIDE DEF removed, left, refuse, added
  <2>6. SetterDone(s, r, value[s][r])
    BY <1>1, <1>3, <1>4, <2>2, <2>4, <2>5 DEF SetterDone
  <2> QED BY <2>6
<1> QED BY <1>7, <1>8

\* AddRelationshipValue of an object, with and without the file lock.
LEMMA AddIsSetter ==
  ASSUME CompositeInv, NEW s \in Object, NEW r, NEW o \in Object, AddRelationshipValue(s, r, o)
  PROVE  \E w : SetterDone(s, r, w)
<1> DEFINE v == Append(value[s][r], RefTo(o))
<1>1. /\ Idle /\ s \in live /\ o \in live /\ r \in Many
      /\ "addAgain" \in Careless \/ \A i \in DOMAIN value[s][r] : value[s][r][i].obj # o
      /\ CanAdd(rcr, o, s, r)
      /\ rcr' = rcr \cup RCRs({o}, s, r)
      /\ \/ Assign(s, r, v)
         \/ "lockFailsInAdd" \in Careless /\ UNCHANGED <<value, updated>>
      /\ UNCHANGED <<live, file, stack, pending, setup>>
  BY DEF AddRelationshipValue
<1>2. setup \in Setups /\ live \subseteq Object /\ r \in Rel
  BY <1>1, SetupParts DEF CompositeInv, StateOK
<1>3. /\ value[s][r] \in Seq(Ref) /\ rcr \subseteq Triple /\ Refers(s, r) \subseteq Object
      /\ ("addAgain" \notin Careless => Apart(value[s][r]))
      /\ Refers(s, r) = Pointers(value[s][r])
  BY <1>1, <1>2, OldValue
<1>4. RefTo(o) \in Ref /\ RefTo(o).obj = o /\ RefTo(o).bound
  BY <1>1, RefToRef
<1>5. /\ v \in Seq(Ref)
      /\ "addAgain" \notin Careless => Apart(v)
      /\ \A c : c \in Pointers(v) <=> c \in Refers(s, r) \/ c = o
  <2>1. /\ v \in Seq(Ref)
        /\ Apart(value[s][r]) /\ (\A i \in DOMAIN value[s][r] : value[s][r][i].obj # RefTo(o).obj) => Apart(v)
        /\ \A c : c \in Pointers(v) <=> c \in Pointers(value[s][r]) \/ (RefTo(o).bound /\ RefTo(o).obj = c)
    BY <1>3, <1>4, ValueAppend
  <2> HIDE DEF v
  <2> QED BY <1>1, <1>3, <1>4, <2>1
<1> HIDE DEF v
<1>6. \A x, p, q : <<x, p, q>> \in rcr' <=>
         <<x, p, q>> \in rcr \/ (x = o /\ p = s /\ q = r /\ r \in Composite)
  <2> DEFINE one == {o}
  <2>1. rcr' = rcr \cup RCRs(one, s, r) /\ \A x : x \in one <=> x = o
    BY <1>1
  <2> HIDE DEF one
  <2>2. \A x, y, z : <<x, y, z>> \in RCRs(one, s, r) <=> x \in one /\ y = s /\ z = r /\ r \in Composite
    BY RcrsAre
  <2>3. ASSUME NEW x, NEW p, NEW q
        PROVE  <<x, p, q>> \in rcr' <=> <<x, p, q>> \in rcr \/ (x = o /\ p = s /\ q = r /\ r \in Composite)
    <3>1. <<x, p, q>> \in RCRs(one, s, r) <=> x = o /\ p = s /\ q = r /\ r \in Composite
      BY <2>1, <2>2
    <3> QED BY <2>1, <3>1
  <2> QED BY <2>3
<1>7. rcr' \subseteq Triple
  BY <1>1, <1>2, <1>3, RcrsTriples
<1>8. CASE Careless = {}
  <2>1. \A x, p \in Object, q \in Rel :
               <<x, p, q>> \in rcr <=> p \in live /\ q \in Composite /\ x \in Refers(p, q)
    BY <1>1, <1>2, <1>8, OldValue
  <2>2. ASSUME NEW x \in Object, NEW p \in Object, NEW q \in Rel
        PROVE  <<x, p, q>> \in rcr' <=>
                IF p = s /\ q = r THEN r \in Composite /\ x \in Pointers(v) ELSE <<x, p, q>> \in rcr
    <3>1. <<x, p, q>> \in rcr <=> p \in live /\ q \in Composite /\ x \in Refers(p, q)
      BY <2>1
    <3>2. <<x, p, q>> \in rcr' <=> <<x, p, q>> \in rcr \/ (x = o /\ p = s /\ q = r /\ r \in Composite)
      BY <1>6
    <3> QED BY <1>1, <1>5, <3>1, <3>2
  <2>3. ASSUME NEW x \in Object, r \in Exclusive, x \in Pointers(v) \ Refers(s, r), NEW p \in Object, p # s
        PROVE  <<x, p, r>> \notin rcr
    <3>1. x = o
      BY <1>5, <2>3
    <3>2. <<o, s, r>> \notin rcr
      BY <1>2, <2>1, <2>3, <3>1
    <3> QED BY <1>1, <2>3, <3>1, <3>2 DEF CanAdd
  <2>4. Pointers(v) \subseteq Refers(s, r) \cup live
    BY <1>1, <1>5
  <2>5. Assign(s, r, v) /\ "addAgain" \notin Careless
    BY <1>1, <1>8
  <2>6. SetterDone(s, r, v)
    BY <1>1, <1>2, <1>5, <1>7, <2>2, <2>3, <2>4, <2>5 DEF SetterDone
  <2> QED BY <2>6
<1>9. CASE Careless # {}
  <2>1. ASSUME Assign(s, r, v) PROVE SetterDone(s, r, v)
    BY <1>1, <1>2, <1>5, <1>7, <1>9, <2>1 DEF SetterDone
  <2>2. ASSUME UNCHANGED <<value, updated>> PROVE SetterDone(s, r, value[s][r])
    BY <1>1, <1>2, <1>3, <1>7, <1>9, <2>2 DEF SetterDone
  <2> QED BY <1>1, <2>1, <2>2
<1> QED BY <1>8, <1>9

\* AddRelationshipValue of a name.
LEMMA NameIsSetter ==
  ASSUME CompositeInv, NEW s \in Object, NEW r, NEW o \in Object, AddName(s, r, o)
  PROVE  \E w : SetterDone(s, r, w)
<1> DEFINE v == Append(value[s][r], RefTo(o))
<1>1. /\ Idle /\ s \in live /\ o \notin live /\ r \in Many
      /\ "addAgain" \in Careless \/ \A i \in DOMAIN value[s][r] : value[s][r][i].obj # o
      /\ Assign(s, r, v)
      /\ UNCHANGED <<live, file, rcr, stack, pending, setup>>
  BY DEF AddName
<1>2. setup \in Setups /\ live \subseteq Object /\ r \in Rel
  BY <1>1, SetupParts DEF CompositeInv, StateOK
<1>3. /\ value[s][r] \in Seq(Ref) /\ rcr \subseteq Triple
      /\ ("addAgain" \notin Careless => Apart(value[s][r]))
      /\ Refers(s, r) = Pointers(value[s][r])
  BY <1>1, <1>2, OldValue
<1>4. RefTo(o) \in Ref /\ RefTo(o).obj = o /\ ~RefTo(o).bound
  BY <1>1, RefToRef
<1>5. /\ v \in Seq(Ref)
      /\ "addAgain" \notin Careless => Apart(v)
      /\ \A c : c \in Pointers(v) <=> c \in Refers(s, r)
  <2>1. /\ v \in Seq(Ref)
        /\ Apart(value[s][r]) /\ (\A i \in DOMAIN value[s][r] : value[s][r][i].obj # RefTo(o).obj) => Apart(v)
        /\ \A c : c \in Pointers(v) <=> c \in Pointers(value[s][r]) \/ (RefTo(o).bound /\ RefTo(o).obj = c)
    BY <1>3, <1>4, ValueAppend
  <2> HIDE DEF v
  <2> QED BY <1>1, <1>3, <1>4, <2>1
<1> HIDE DEF v
<1>6. ASSUME Careless = {}
      PROVE  \A x, p \in Object, q \in Rel :
               <<x, p, q>> \in rcr <=> p \in live /\ q \in Composite /\ x \in Refers(p, q)
  BY <1>1, <1>2, <1>6, OldValue
<1>7. ASSUME Careless = {}, NEW x \in Object, NEW p \in Object, NEW q \in Rel
      PROVE  <<x, p, q>> \in rcr' <=>
                IF p = s /\ q = r THEN r \in Composite /\ x \in Pointers(v) ELSE <<x, p, q>> \in rcr
  <2>1. <<x, p, q>> \in rcr <=> p \in live /\ q \in Composite /\ x \in Refers(p, q)
    BY <1>6, <1>7
  <2> QED BY <1>1, <1>5, <2>1
<1>8. Pointers(v) \subseteq Refers(s, r) \cup live /\ \A x : x \notin Pointers(v) \ Refers(s, r)
  BY <1>5
<1>9. rcr' \subseteq Triple
  BY <1>1, <1>3
<1>10. SetterDone(s, r, v)
  BY <1>1, <1>2, <1>5, <1>7, <1>8, <1>9 DEF SetterDone
<1> QED BY <1>10

\* RemoveRelationshipValue of an object and of a name.
LEMMA RemoveIsSetter ==
  ASSUME CompositeInv, NEW s \in Object, NEW r, NEW o \in Object,
         RemoveRelationshipValue(s, r, o) \/ RemoveName(s, r, o)
  PROVE  \E w : SetterDone(s, r, w)
<1> DEFINE v == Without(value[s][r], o)
<1>1. /\ Idle /\ s \in live /\ r \in Many
      /\ \E i \in DOMAIN value[s][r] : value[s][r][i].obj = o
      /\ Assign(s, r, v)
      /\ UNCHANGED <<live, file, stack, pending, setup>>
      /\ \/ rcr' = rcr \ RCRs({o}, s, r)
         \/ rcr' = rcr /\ ("removeByName" \in Careless \/ o \notin Refers(s, r))
  BY DEF RemoveRelationshipValue, RemoveName
<1>2. setup \in Setups /\ live \subseteq Object /\ r \in Rel
  BY <1>1, SetupParts DEF CompositeInv, StateOK
<1>3. /\ value[s][r] \in Seq(Ref) /\ rcr \subseteq Triple
      /\ ("addAgain" \notin Careless => Apart(value[s][r]))
      /\ Refers(s, r) = Pointers(value[s][r])
  BY <1>1, <1>2, OldValue
<1>4. /\ v \in Seq(Ref)
      /\ "addAgain" \notin Careless => Apart(v) /\ \A c : c \in Pointers(v) <=> c \in Refers(s, r) /\ c # o
  <2>1. /\ v \in Seq(Ref)
        /\ Apart(value[s][r]) => Apart(v) /\ \A c : c \in Pointers(v) <=> c \in Pointers(value[s][r]) /\ c # o
    BY <1>1, <1>3, ValueWithout
  <2> HIDE DEF v
  <2> QED BY <1>3, <2>1
<1> HIDE DEF v
<1>5. rcr' \subseteq Triple
  BY <1>1, <1>3
<1>6. ASSUME Careless = {}, NEW x \in Object, NEW p \in Object, NEW q \in Rel
      PROVE  <<x, p, q>> \in rcr' <=>
                IF p = s /\ q = r THEN r \in Composite /\ x \in Pointers(v) ELSE <<x, p, q>> \in rcr
  <2>1. \A x1, p1 \in Object, q1 \in Rel :
               <<x1, p1, q1>> \in rcr <=> p1 \in live /\ q1 \in Composite /\ x1 \in Refers(p1, q1)
    BY <1>1, <1>2, <1>6, OldValue
  <2>2. <<x, p, q>> \in rcr <=> p \in live /\ q \in Composite /\ x \in Refers(p, q)
    BY <2>1
  <2>3. \A c : c \in Pointers(v) <=> c \in Refers(s, r) /\ c # o
    BY <1>4, <1>6
  <2>4. CASE rcr' = rcr \ RCRs({o}, s, r)
    <3>1. <<x, p, q>> \in rcr' <=> <<x, p, q>> \in rcr /\ ~(x = o /\ p = s /\ q = r /\ r \in Composite)
      BY <2>4, RcrsAre
    <3> QED BY <1>1, <2>2, <2>3, <3>1
  <2>5. CASE rcr' = rcr /\ ("removeByName" \in Careless \/ o \notin Refers(s, r))
    BY <1>1, <1>6, <2>2, <2>3, <2>5
  <2> QED BY <1>1, <2>4, <2>5
<1>7. Careless = {} => Pointers(v) \subseteq Refers(s, r) \cup live /\ \A x : x \notin Pointers(v) \ Refers(s, r)
  BY <1>4
<1>8. SetterDone(s, r, v)
  BY <1>1, <1>2, <1>4, <1>5, <1>6, <1>7 DEF SetterDone
<1> QED BY <1>8

-----------------------------------------------------------------------------
(* The other calls that end at once *)

\* A value of which nothing changes but what is bound.
LEMMA ValuesKept ==
  ASSUME StateOK, ValuesOK, setup' = setup, value' \in [Object -> [Rel -> Seq(Ref)]],
         \A s \in Object, r \in Rel :
            \/ value'[s][r] = value[s][r]
            \/ value'[s][r] = <<>>
            \/ Len(value'[s][r]) = Len(value[s][r]) /\ (Apart(value[s][r]) => Apart(value'[s][r]))
  PROVE  ValuesOK'
<1>1. Rel' = Rel /\ Many' = Many /\ Careless' = Careless
  BY SetupSame
<1>2. Len(<<>>) <= 1 /\ Apart(<<>>)
  BY DEF Apart
<1>3. ASSUME NEW s \in Object, NEW r \in Rel
      PROVE  /\ r \notin Many => Len(value'[s][r]) <= 1
             /\ "addAgain" \notin Careless => Apart(value'[s][r])
  <2>1. (r \notin Many => Len(value[s][r]) <= 1) /\ ("addAgain" \notin Careless => Apart(value[s][r]))
    BY DEF ValuesOK
  <2> QED BY <1>2, <2>1
<1> QED BY <1>1, <1>3 DEF ValuesOK

\* The constructor keeps the inductive invariant.
LEMMA CreateInv ==
  ASSUME CompositeInv, NEW o \in Object, Create(o)
  PROVE  CompositeInv'
<1>1. PICK f \in setup.files : file' = [file EXCEPT ![o] = f] /\ updated' = updated \cup {f}
  BY DEF Create
<1>2. /\ Idle /\ o \notin live /\ (\A s \in live : ~PointsTo(s, o))
      /\ live' = live \cup {o}
      /\ value' = [value EXCEPT ![o] = [r \in Rel |-> <<>>]]
      /\ UNCHANGED <<rcr, stack, pending, setup>>
  BY DEF Create
<1>3. StateOK /\ ValuesOK /\ setup.files \subseteq File /\ NoFile \notin File /\ Composite \subseteq Rel
  BY SetupParts DEF CompositeInv, StateOK
<1>4. Rel' = Rel /\ Many' = Many /\ Composite' = Composite /\ Exclusive' = Exclusive
      /\ Dependent' = Dependent /\ Careless' = Careless
  BY <1>2, SetupSame
<1>5. [r \in Rel |-> <<>>] \in [Rel -> Seq(Ref)]
  BY EmptySeq
<1>6. /\ value' \in [Object -> [Rel -> Seq(Ref)]]
      /\ \A s \in Object, r \in Rel : value'[s][r] = IF s = o THEN <<>> ELSE value[s][r]
  BY <1>2, <1>3, <1>5 DEF StateOK
<1>7. StateOK'
  <2>1. live' \subseteq Object /\ file' \in [Object -> File \cup {NoFile}] /\ updated' \subseteq File
        /\ rcr' \subseteq Triple' /\ pending' \subseteq Object /\ setup' \in Setups
    BY <1>1, <1>2, <1>3, <1>4 DEF StateOK, Triple
  <2>2. \A c \in live' : file'[c] # NoFile
    BY <1>1, <1>2, <1>3 DEF StateOK
  <2> QED BY <1>4, <1>6, <2>1, <2>2 DEF StateOK
<1>8. ValuesOK'
  BY <1>2, <1>3, <1>6, ValuesKept
<1>9. Idle'
  BY <1>2 DEF Idle
<1>10. ASSUME Careless = {} PROVE Exact'
  <2>1. Exact
    BY <1>2, <1>10, IdleParts
  <2>2. live \subseteq Object
    BY <1>3 DEF StateOK
  <2>3. \A c : c \notin Pointers(<<>>)
    BY PointersAre
  <2>4. \A s \in Object, r \in Rel : Pointers(value'[s][r]) = IF s = o THEN Pointers(<<>>) ELSE Refers(s, r)
    BY <1>6 DEF Refers
  <2>5. ASSUME NEW c \in Object, NEW s \in Object, NEW r \in Rel
        PROVE  <<c, s, r>> \in rcr' <=> s \in live' /\ r \in Composite /\ c \in Pointers(value'[s][r])
    <3>1. <<c, s, r>> \in rcr <=> s \in live /\ r \in Composite /\ c \in Refers(s, r)
      BY <2>1 DEF Exact
    <3> QED BY <1>2, <2>3, <2>4, <3>1
  <2>6. \A s \in live', r \in Composite : Pointers(value'[s][r]) \subseteq live'
    BY <1>2, <1>3, <2>1, <2>2, <2>3, <2>4 DEF Exact
  <2>7. Dependent = {} \/ Composite = Rel => \A s \in live', r \in Rel : Pointers(value'[s][r]) \subseteq live'
    BY <1>2, <2>1, <2>2, <2>3, <2>4 DEF Exact
  <2>8. \A t, u \in rcr' : t[3] \in Exclusive' /\ t[1] = u[1] /\ t[3] = u[3] => t = u
    BY <1>2, <1>4, <2>1 DEF Exact, OneParent
  <2> QED BY <1>4, <2>5, <2>6, <2>7, <2>8 DEF Exact, Refers, OneParent
<1> QED BY <1>2, <1>7, <1>8, <1>9, <1>10, IdleInvNext

\* set_file and a save keep it.
LEMMA FilesInv ==
  ASSUME CompositeInv, NEW f \in File,
         SaveData(f) \/ \E o \in Object : SetFile(o, f)
  PROVE  CompositeInv'
<1>1. Idle /\ UNCHANGED <<live, value, rcr, stack, pending, setup>>
  BY DEF SaveData, SetFile
<1>2. StateOK /\ ValuesOK
  BY DEF CompositeInv
<1>3. /\ file' \in [Object -> File \cup {NoFile}] /\ (\A c \in live : file'[c] # NoFile)
      /\ updated' \subseteq File
  <2>1. CASE SaveData(f)
    BY <1>2, <2>1 DEF SaveData, StateOK
  <2>2. ASSUME NEW o \in Object, SetFile(o, f)
        PROVE  /\ file' \in [Object -> File \cup {NoFile}] /\ (\A c \in live : file'[c] # NoFile)
               /\ updated' \subseteq File
    <3>1. /\ o \in live /\ file' = [file EXCEPT ![o] = f] /\ updated' = updated \cup {f, file[o]}
      BY <2>2 DEF SetFile
    <3>2. NoFile \notin File
      BY CompositeAssumption
    <3> QED BY <1>2, <3>1, <3>2 DEF StateOK
  <2> QED BY <2>1, <2>2
<1>4. Rel' = Rel /\ Many' = Many /\ Composite' = Composite /\ Exclusive' = Exclusive
      /\ Dependent' = Dependent /\ Careless' = Careless
  BY <1>1, SetupSame
<1>5. StateOK'
  BY <1>1, <1>2, <1>3, <1>4 DEF StateOK, Triple
<1>6. ValuesOK' /\ Idle'
  BY <1>1, <1>2, <1>4 DEF ValuesOK, Idle
<1>7. ASSUME Careless = {} PROVE Exact'
  <2>1. Exact
    BY <1>1, <1>7, IdleParts
  <2> QED BY <1>1, <1>4, <2>1 DEF Exact, Refers, OneParent
<1> QED BY <1>1, <1>5, <1>6, <1>7, IdleInvNext

\* What binding the names T does to the values.
LEMMA BoundParts ==
  ASSUME StateOK, NEW T
  PROVE  /\ Bound(T) \in [Object -> [Rel -> Seq(Ref)]]
         /\ \A s \in Object, r \in Rel :
              /\ SameRefs(value[s][r], Bound(T)[s][r])
              /\ Len(Bound(T)[s][r]) = Len(value[s][r])
              /\ Apart(value[s][r]) => Apart(Bound(T)[s][r])
              /\ \A c : c \in Pointers(Bound(T)[s][r]) <=>
                   \/ c \in Refers(s, r)
                   \/ <<c, s, r>> \in T /\ \E i \in DOMAIN value[s][r] : value[s][r][i].obj = c
<1> DEFINE e(s, r, i) == IF <<value[s][r][i].obj, s, r>> \in T
                           THEN [value[s][r][i] EXCEPT !.bound = TRUE] ELSE value[s][r][i]
           w(s, r) == [i \in DOMAIN value[s][r] |-> e(s, r, i)]
<1>1. Bound(T) = [s \in Object |-> [r \in Rel |-> w(s, r)]]
  BY DEF Bound
<1>2. ASSUME NEW s \in Object, NEW r \in Rel
      PROVE  /\ w(s, r) \in Seq(Ref)
             /\ SameRefs(value[s][r], w(s, r))
             /\ Len(w(s, r)) = Len(value[s][r])
             /\ Apart(value[s][r]) => Apart(w(s, r))
             /\ \A c : c \in Pointers(w(s, r)) <=>
                   \/ c \in Refers(s, r)
                   \/ <<c, s, r>> \in T /\ \E i \in DOMAIN value[s][r] : value[s][r][i].obj = c
  <2> DEFINE v == value[s][r]
  <2>1. v \in Seq(Ref)
    BY DEF StateOK
  <2>2. \A i \in DOMAIN v : v[i] \in Ref
    BY <2>1, ElementOfSeq, LenProperties
  <2>3. ASSUME NEW i \in DOMAIN v
        PROVE  /\ e(s, r, i) \in Ref /\ e(s, r, i).obj = v[i].obj
               /\ e(s, r, i).bound <=> v[i].bound \/ <<v[i].obj, s, r>> \in T
    BY <2>2 DEF Ref
  <2>4. DOMAIN w(s, r) = DOMAIN v /\ \A i \in DOMAIN v : w(s, r)[i] = e(s, r, i)
    OBVIOUS
  <2>5. w(s, r) = [i \in DOMAIN v |-> w(s, r)[i]]
    OBVIOUS
  <2> HIDE DEF e, w, v
  <2>6. SameRefs(v, w(s, r)) /\ \A i \in DOMAIN v : w(s, r)[i] \in Ref
    BY <2>3, <2>4 DEF SameRefs
  <2>7. w(s, r) \in Seq(Ref) /\ Len(w(s, r)) = Len(v) /\ (Apart(v) => Apart(w(s, r)))
    BY <2>1, <2>5, <2>6, SameRefsValue
  <2>8. ASSUME NEW c
        PROVE  c \in Pointers(w(s, r)) <=>
                   \/ c \in Pointers(v)
                   \/ <<c, s, r>> \in T /\ \E i \in DOMAIN v : v[i].obj = c
    <3> DEFINE u == w(s, r)
    <3>1. /\ c \in Pointers(u) <=> \E i \in DOMAIN u : u[i].bound /\ u[i].obj = c
          /\ c \in Pointers(v) <=> \E i \in DOMAIN v : v[i].bound /\ v[i].obj = c
      BY PointersAre
    <3>2. DOMAIN u = DOMAIN v /\ \A i \in DOMAIN v : u[i].obj = v[i].obj
            /\ (u[i].bound <=> v[i].bound \/ <<v[i].obj, s, r>> \in T)
      BY <2>3, <2>4
    <3> HIDE DEF u
    <3>3. (\E i \in DOMAIN u : u[i].bound /\ u[i].obj = c) <=>
             \/ \E i \in DOMAIN v : v[i].bound /\ v[i].obj = c
             \/ <<c, s, r>> \in T /\ \E i \in DOMAIN v : v[i].obj = c
      BY <3>2
    <3> QED BY <3>1, <3>3 DEF u
  <2> QED BY <2>6, <2>7, <2>8 DEF v, Refers
<1>3. \A s \in Object, r \in Rel : Bound(T)[s][r] = w(s, r)
  BY <1>1
<1>4. Bound(T) \in [Object -> [Rel -> Seq(Ref)]]
  <2> HIDE DEF w
  <2> QED BY <1>1, <1>2
<1> HIDE DEF w
<1> QED BY <1>2, <1>3, <1>4

\* k_bind_objects keeps it.
LEMMA BindInv ==
  ASSUME CompositeInv, BindObjects
  PROVE  CompositeInv'
<1>1. Idle /\ UNCHANGED <<live, file, updated, stack, pending, setup>>
  BY DEF BindObjects
<1>2. StateOK /\ ValuesOK /\ live \subseteq Object /\ Composite \subseteq Rel
  BY SetupParts DEF CompositeInv, StateOK
<1>3. Rel' = Rel /\ Many' = Many /\ Composite' = Composite /\ Exclusive' = Exclusive
      /\ Dependent' = Dependent /\ Careless' = Careless
  BY <1>1, SetupSame
<1>4. PICK T : value' = Bound(T) /\ T \subseteq Resolvable
  BY DEF BindObjects
<1>5. Resolvable \subseteq Triple
  BY DEF Resolvable
<1>6. /\ value' \in [Object -> [Rel -> Seq(Ref)]]
      /\ \A s \in Object, r \in Rel :
           Len(value'[s][r]) = Len(value[s][r]) /\ (Apart(value[s][r]) => Apart(value'[s][r]))
  BY <1>2, <1>4, BoundParts
<1>7. rcr' \subseteq Triple
  BY <1>2, <1>5 DEF BindObjects, InComposite, StateOK
<1>8. StateOK'
  BY <1>1, <1>2, <1>3, <1>6, <1>7 DEF StateOK, Triple
<1>9. ValuesOK'
  BY <1>1, <1>2, <1>6, ValuesKept
<1>10. Idle'
  BY <1>1 DEF Idle
<1>11. ASSUME Careless = {} PROVE Exact'
  <2>1. Exact
    BY <1>1, <1>11, IdleParts
  <2>2. /\ OneParent(rcr \cup InComposite(Resolvable))
        /\ value' = Bound(Resolvable)
        /\ rcr' = rcr \cup InComposite(Resolvable)
    BY <1>11 DEF BindObjects
  <2>3. ASSUME NEW s \in Object, NEW r \in Rel, NEW c
        PROVE  c \in Pointers(value'[s][r]) <=> c \in Refers(s, r) \/ <<c, s, r>> \in Resolvable
    <3>1. c \in Pointers(value'[s][r]) <=>
             \/ c \in Refers(s, r)
             \/ <<c, s, r>> \in Resolvable /\ \E i \in DOMAIN value[s][r] : value[s][r][i].obj = c
      BY <1>2, <2>2, BoundParts
    <3>2. <<c, s, r>> \in Resolvable => \E i \in DOMAIN value[s][r] : value[s][r][i].obj = c
      BY DEF Resolvable
    <3> QED BY <3>1, <3>2
  <2>4. \A c, s, r : <<c, s, r>> \in Resolvable => c \in live /\ s \in live /\ r \in Rel
    BY <1>5 DEF Resolvable, Triple
  <2>5. ASSUME NEW c \in Object, NEW s \in Object, NEW r \in Rel
        PROVE  <<c, s, r>> \in rcr' <=> s \in live /\ r \in Composite /\ c \in Pointers(value'[s][r])
    <3>1. <<c, s, r>> \in rcr <=> s \in live /\ r \in Composite /\ c \in Refers(s, r)
      BY <2>1 DEF Exact
    <3>2. <<c, s, r>> \in InComposite(Resolvable) <=> <<c, s, r>> \in Resolvable /\ r \in Composite
      BY DEF InComposite
    <3> QED BY <2>2, <2>3, <2>4, <3>1, <3>2
  <2>6. \A s \in live, r \in Composite : Pointers(value'[s][r]) \subseteq live
    <3> SUFFICES ASSUME NEW s \in live, NEW r \in Composite, NEW c \in Pointers(value'[s][r]) PROVE c \in live
      OBVIOUS
    <3>1. c \in Refers(s, r) \/ <<c, s, r>> \in Resolvable
      BY <1>2, <2>3
    <3> QED BY <2>1, <2>4, <3>1 DEF Exact
  <2>7. Dependent = {} \/ Composite = Rel => \A s \in live, r \in Rel : Pointers(value'[s][r]) \subseteq live
    <3> SUFFICES ASSUME Dependent = {} \/ Composite = Rel, NEW s \in live, NEW r \in Rel,
                        NEW c \in Pointers(value'[s][r])
                 PROVE  c \in live
      OBVIOUS
    <3>1. c \in Refers(s, r) \/ <<c, s, r>> \in Resolvable
      BY <1>2, <2>3
    <3> QED BY <2>1, <2>4, <3>1 DEF Exact
  <2>8. \A t, u \in rcr' : t[3] \in Exclusive' /\ t[1] = u[1] /\ t[3] = u[3] => t = u
    BY <1>3, <2>2 DEF OneParent
  <2> QED BY <1>1, <1>3, <2>5, <2>6, <2>7, <2>8 DEF Exact, Refers, OneParent
<1> QED BY <1>1, <1>8, <1>9, <1>10, <1>11, IdleInvNext

-----------------------------------------------------------------------------
(* Destruction *)

\* A call of ~OksObject starts with the composite pointers to visit.
LEMMA FrameParts ==
  ASSUME NEW o \in Object
  PROVE  /\ Frame(o) \in Frames /\ Frame(o).obj = o
         /\ \A c \in Object, r \in Composite : <<c, r>> \in Frame(o).todo <=> c \in Refers(o, r)
<1>1. Frame(o).obj = o /\ Frame(o).todo = {t \in Object \X Composite : t[1] \in Refers(o, t[2])}
  BY DEF Frame
<1>2. Frame(o).todo \in SUBSET (Object \X Composite)
  BY <1>1
<1>3. Frame(o) \in Frames
  BY <1>2 DEF Frame, Frames
<1> QED BY <1>1, <1>3

\* The first ~OksObject starts.
DeleteFirst(o) ==
    /\ stack = <<>> /\ o \in live /\ Delete(o)
    /\ pending' = pending \ {o}
    /\ updated \subseteq updated' /\ updated' \subseteq File
    /\ Careless = {} =>
         \/ o \in pending
         \/ pending = {} /\ file[o] \in updated' /\ \A s \in live : ~PointsTo(s, o)
    /\ UNCHANGED <<file, value, rcr, setup>>

\* The start of the first ~OksObject keeps it.
LEMMA DeleteInv ==
  ASSUME CompositeInv, NEW o \in Object, DeleteFirst(o)
  PROVE  CompositeInv'
<1> DEFINE e == Frame(o)
<1>1. /\ stack = <<>> /\ o \in live /\ live' = live \ {o} /\ stack' = Append(stack, e)
      /\ pending' = pending \ {o} /\ updated' \subseteq File
      /\ UNCHANGED <<file, value, rcr, setup>>
  BY DEF DeleteFirst, Delete
<1>2. StateOK /\ ValuesOK /\ PendingClosed /\ live \subseteq Object /\ Composite \subseteq Rel
  BY SetupParts DEF CompositeInv, StateOK
<1>3. Rel' = Rel /\ Many' = Many /\ Composite' = Composite /\ Exclusive' = Exclusive
      /\ Dependent' = Dependent /\ Careless' = Careless
  BY <1>1, SetupSame
<1>4. /\ e \in Frames /\ e.obj = o
      /\ \A c \in Object, r \in Composite : <<c, r>> \in e.todo <=> c \in Refers(o, r)
  BY FrameParts
<1> HIDE DEF e
<1>5. stack' \in Seq(Frames) /\ DOMAIN stack' = {1} /\ stack'[1] = e /\ stack' # <<>>
  <2>1. stack' = <<e>>
    BY <1>1
  <2> QED BY <1>4, <2>1
<1>6. Frames' = Frames
  BY <1>3 DEF Frames
<1>7. StateOK'
  BY <1>1, <1>2, <1>3 DEF StateOK, Triple
<1>8. StackOK'
  BY <1>1, <1>4, <1>5, <1>6 DEF StackOK
<1>9. ValuesOK'
  BY <1>1, <1>2, <1>3 DEF ValuesOK
<1>10. PendingClosed'
  <2>1. \A c \in pending' \cap live', p \in live' : file'[p] = file'[c] => p \in pending'
    BY <1>1, <1>2 DEF PendingClosed
  <2>2. \A s \in live', r \in Rel' : Pointers(value'[s][r]) \cap pending' # {} => s \in pending'
    BY <1>1, <1>2, <1>3 DEF PendingClosed, Refers
  <2> QED BY <2>1, <2>2 DEF PendingClosed, Refers
<1>11. ASSUME Careless = {}
       PROVE  (RcrHasPointer /\ PointerHasRcr /\ OneParent(rcr) /\ PointersLive /\ DestroyMarks)'
  <2>1. RcrHasPointer /\ PointerHasRcr /\ OneParent(rcr) /\ PointersLive
    BY <1>11 DEF CompositeInv, CarefulInv
  <2>2. \/ o \in pending
        \/ pending = {} /\ file[o] \in updated' /\ \A s \in live : ~PointsTo(s, o)
    BY <1>11 DEF DeleteFirst
  <2>3. \A s \in live, r \in Rel : o \in Refers(s, r) => s \in pending
    BY <1>2, <2>2 DEF PendingClosed, PointsTo
  <2>4. \A c \in Object, s \in Object, r \in Rel : <<c, s, r>> \in rcr =>
          /\ r \in Composite /\ c \in live
          /\ c \notin pending => s \in live /\ c \in Refers(s, r)
    <3>1. DOMAIN stack = {}
      BY <1>1
    <3> QED BY <2>1, <3>1 DEF RcrHasPointer, Removing
  <2>5. ASSUME NEW c \in Object, NEW s \in Object, NEW r \in Rel, <<c, s, r>> \in rcr
        PROVE  /\ r \in Composite
               /\ c \in live' \/ \E i \in DOMAIN stack' : stack'[i].obj = c
               /\ c \in live' \ pending' =>
                    \/ s \in live' /\ c \in Pointers(value'[s][r])
                    \/ \E i \in DOMAIN stack' : stack'[i].obj = s /\ <<c, r>> \in stack'[i].todo
    <3>1. Pointers(value'[s][r]) = Refers(s, r)
      BY <1>1 DEF Refers
    <3> QED BY <1>1, <1>4, <1>5, <2>4, <2>5, <3>1
  <2>6. RcrHasPointer'
    <3>1. SUFFICES ASSUME NEW c \in Object, NEW s \in Object, NEW r \in Rel', <<c, s, r>> \in rcr'
          PROVE  /\ r \in Composite'
                 /\ c \in live' \/ \E i \in DOMAIN stack' : stack'[i].obj = c
                 /\ c \in live' \ pending' =>
                    \/ s \in live' /\ c \in Pointers(value'[s][r])
                    \/ \E i \in DOMAIN stack' : stack'[i].obj = s /\ <<c, r>> \in stack'[i].todo
      BY DEF RcrHasPointer, Removing, Refers
    <3>2. r \in Rel /\ <<c, s, r>> \in rcr
      BY <1>1, <1>3, <3>1
    <3> QED BY <1>3, <2>5, <3>2
  <2>7. \A s \in live', r \in Composite : \A c \in Refers(s, r) :
          IF c \in live' THEN <<c, s, r>> \in rcr ELSE s \in pending'
    <3> SUFFICES ASSUME NEW s \in live', NEW r \in Composite, NEW c \in Refers(s, r)
                 PROVE  IF c \in live' THEN <<c, s, r>> \in rcr ELSE s \in pending'
      OBVIOUS
    <3>1. s \in live /\ s # o /\ r \in Rel
      BY <1>1, <1>2
    <3>2. IF c \in live THEN <<c, s, r>> \in rcr ELSE s \in pending
      BY <2>1, <3>1 DEF PointerHasRcr
    <3>3. c = o => s \in pending
      BY <2>3, <3>1
    <3> QED BY <1>1, <3>1, <3>2, <3>3
  <2>8. PointerHasRcr'
    BY <1>1, <1>3, <2>7 DEF PointerHasRcr, Refers
  <2>9. Dependent = {} \/ Composite = Rel =>
          \A s \in live', r \in Rel : Refers(s, r) \subseteq live' \/ s \in pending'
    BY <1>1, <2>1, <2>3 DEF PointersLive
  <2>10. PointersLive'
    BY <1>1, <1>3, <2>9 DEF PointersLive, Refers
  <2>11. DestroyMarks'
    <3>1. \/ file[o] \in updated'
          \/ \A c \in live : file[c] = file[o] => c \in pending
      BY <1>1, <1>2, <2>2 DEF PendingClosed
    <3> QED BY <1>1, <1>4, <1>5, <3>1 DEF DestroyMarks
  <2>12. OneParent(rcr)'
    BY <1>1, <1>3, <2>1 DEF OneParent
  <2> QED BY <2>6, <2>8, <2>10, <2>11, <2>12
<1> QED BY <1>3, <1>7, <1>8, <1>9, <1>10, <1>11 DEF CompositeInv, CarefulInv

\* So does destroy.
LEMMA DestroyInv ==
  ASSUME CompositeInv, NEW o \in Object, NEW fast \in BOOLEAN, Destroy(o, fast)
  PROVE  CompositeInv'
<1>1. StateOK /\ file[o] \in File
  BY DEF CompositeInv, StateOK, Destroy
<1>2. updated \subseteq updated' /\ updated' \subseteq File
  BY <1>1 DEF Destroy, StateOK
<1>3. pending = {} /\ pending' = pending \ {o} /\ stack = <<>>
  BY DEF Destroy, Idle
<1>4. DeleteFirst(o)
  BY <1>2, <1>3 DEF Destroy, DeleteFirst
<1> QED BY <1>4, DeleteInv

\* So does the next object of k_close_data.
LEMMA DeleteNextInv ==
  ASSUME CompositeInv, DeleteNext
  PROVE  CompositeInv'
<1>1. PICK o \in pending :
         /\ stack = <<>> /\ pending' = pending \ {o}
         /\ IF o \in live THEN Delete(o) ELSE UNCHANGED <<live, stack>>
         /\ UNCHANGED <<file, value, rcr, updated, setup>>
  BY DEF DeleteNext
<1>2. StateOK /\ o \in Object
  BY DEF CompositeInv, StateOK
<1>3. CASE o \in live
  <2>1. updated \subseteq File
    BY <1>2 DEF StateOK
  <2>2. DeleteFirst(o)
    BY <1>1, <1>3, <2>1 DEF DeleteFirst
  <2> QED BY <1>2, <2>2, DeleteInv
<1>4. CASE o \notin live
  <2>1. /\ stack = <<>> /\ pending' = pending \ {o}
        /\ UNCHANGED <<live, stack, file, value, rcr, updated, setup>>
    BY <1>1, <1>4
  <2>2. Rel' = Rel /\ Many' = Many /\ Composite' = Composite /\ Exclusive' = Exclusive
      /\ Dependent' = Dependent /\ Careless' = Careless
    BY <2>1, SetupSame
  <2>3. StateOK' /\ StackOK' /\ ValuesOK'
    BY <2>1, <2>2 DEF CompositeInv, StateOK, StackOK, ValuesOK, Triple, Frames
  <2>4. PendingClosed'
    <3>1. PendingClosed
      BY DEF CompositeInv
    <3>2. \A c \in pending' \cap live', p \in live' : file'[p] = file'[c] => p \in pending'
      BY <1>4, <2>1, <3>1 DEF PendingClosed
    <3>3. \A s \in live', r \in Rel' : Pointers(value'[s][r]) \cap pending' # {} => s \in pending'
      BY <1>4, <2>1, <2>2, <3>1 DEF PendingClosed, Refers
    <3> QED BY <3>2, <3>3 DEF PendingClosed, Refers
  <2>5. ASSUME Careless = {}
        PROVE  (RcrHasPointer /\ PointerHasRcr /\ OneParent(rcr) /\ PointersLive /\ DestroyMarks)'
    <3>1. RcrHasPointer /\ PointerHasRcr /\ OneParent(rcr) /\ PointersLive
      BY <2>5 DEF CompositeInv, CarefulInv
    <3>2. live \ pending' = live \ pending /\ \A s \in live : s \in pending' <=> s \in pending
      BY <1>4, <2>1
    <3>3. RcrHasPointer'
      BY <2>1, <2>2, <3>1, <3>2 DEF RcrHasPointer, Removing, Refers
    <3>4. PointerHasRcr'
      BY <2>1, <2>2, <3>1, <3>2 DEF PointerHasRcr, Refers
    <3>5. PointersLive'
      BY <2>1, <2>2, <3>1, <3>2 DEF PointersLive, Refers
    <3>6. DestroyMarks' /\ OneParent(rcr)'
      BY <2>1, <2>2, <3>1 DEF DestroyMarks, OneParent
    <3> QED BY <3>3, <3>4, <3>5, <3>6
  <2> QED BY <2>2, <2>3, <2>4, <2>5 DEF CompositeInv, CarefulInv
<1> QED BY <1>3, <1>4

\* A change of the stack of ~OksObject calls: those under way stay, the
\* innermost has visited t, and perhaps a call e starts.
StackGrows(q, t, e) ==
    /\ q \in Seq(Frames)
    /\ DOMAIN stack \subseteq DOMAIN q
    /\ \A i \in DOMAIN stack :
         /\ q[i].obj = stack[i].obj
         /\ q[i].todo = IF i = Len(stack) THEN stack[i].todo \ {t} ELSE stack[i].todo
    /\ \/ DOMAIN q = DOMAIN stack
       \/ \E k \in DOMAIN q : q[k] = e /\ DOMAIN q = DOMAIN stack \cup {k} /\ k \notin DOMAIN stack

\* The visit of a child keeps it: the OksRCR that goes is that of the pointer
\* of the object that is destroyed, and a child that dies had no other.
LEMMA VisitInv ==
  ASSUME CompositeInv, VisitChild
  PROVE  CompositeInv'
<1> DEFINE t == Top.obj
<1>1. PICK c \in Object, r \in Composite :
        /\ <<c, r>> \in Top.todo
        /\ IF c \notin live
             THEN stack' = Append(Outer, [Top EXCEPT !.todo = @ \ {<<c, r>>}]) /\ UNCHANGED <<live, rcr>>
             ELSE /\ rcr' = rcr \ {<<c, t, r>>}
                  /\ IF r \in Dependent /\ \A u \in rcr \ {<<c, t, r>>} : u[1] # c
                       THEN /\ stack' = Outer \o <<[Top EXCEPT !.todo = @ \ {<<c, r>>}], Frame(c)>>
                            /\ live' = live \ {c}
                       ELSE /\ stack' = Append(Outer, [Top EXCEPT !.todo = @ \ {<<c, r>>}])
                            /\ UNCHANGED live
  BY DEF VisitChild
<1>2. stack # <<>> /\ UNCHANGED <<file, value, updated, pending, setup>>
  BY DEF VisitChild
<1>3. StateOK /\ StackOK /\ ValuesOK /\ PendingClosed /\ live \subseteq Object /\ Composite \subseteq Rel
      /\ stack \in Seq(Frames)
  BY SetupParts DEF CompositeInv, StateOK, StackOK
<1>4. Rel' = Rel /\ Many' = Many /\ Composite' = Composite /\ Exclusive' = Exclusive
      /\ Dependent' = Dependent /\ Careless' = Careless
  BY <1>2, SetupSame
<1>5. /\ Len(stack) \in Nat /\ Len(stack) >= 1 /\ DOMAIN stack = 1 .. Len(stack)
      /\ Top = stack[Len(stack)] /\ Top \in Frames
  BY <1>2, <1>3, StackParts
<1>6. Len(stack) \in DOMAIN stack /\ t = stack[Len(stack)].obj /\ t \in Object /\ t \notin live
  <2>1. Len(stack) \in DOMAIN stack /\ t = stack[Len(stack)].obj /\ t \in Object
    BY <1>5 DEF Frames
  <2> QED BY <1>3, <2>1 DEF StackOK
<1>7. /\ Frame(c) \in Frames /\ Frame(c).obj = c
      /\ \A x \in Object, q \in Composite : <<x, q>> \in Frame(c).todo <=> x \in Refers(c, q)
  BY FrameParts
<1> DEFINE e == Frame(c)
           rest == [Top EXCEPT !.todo = @ \ {<<c, r>>}]
           dies == c \in live /\ r \in Dependent /\ \A u \in rcr \ {<<c, t, r>>} : u[1] # c
<1>8. Visited(Append(Outer, rest), <<c, r>>) /\ Outer \o <<rest, e>> = Append(Append(Outer, rest), e)
  BY <1>2, <1>3, <1>7, StackVisit
<1> HIDE DEF e
<1>9. /\ StackGrows(stack', <<c, r>>, e)
      /\ ~dies => DOMAIN stack' = DOMAIN stack
      /\ dies => \E k \in DOMAIN stack' : stack'[k] = e /\ DOMAIN stack' = DOMAIN stack \cup {k} /\ k \notin DOMAIN stack
  <2> DEFINE q == Append(Outer, rest)
  <2>0. e \in Frames
    BY <1>7 DEF e
  <2>1. Visited(q, <<c, r>>) /\ Outer \o <<rest, e>> = Append(q, e)
    BY <1>8
  <2>2. /\ ~dies => stack' = q
        /\ dies => stack' = Append(q, e)
    BY <1>1, <2>1 DEF e
  <2> HIDE DEF q, dies
  <2>3. /\ q \in Seq(Frames) /\ Len(q) = Len(stack) /\ DOMAIN q = DOMAIN stack
        /\ \A i \in DOMAIN stack :
             /\ q[i].obj = stack[i].obj
             /\ q[i].todo = IF i = Len(stack) THEN stack[i].todo \ {<<c, r>>} ELSE stack[i].todo
    BY <1>5, <2>1, LenProperties DEF Visited
  <2>4. CASE ~dies
    BY <2>2, <2>3, <2>4 DEF StackGrows
  <2>5. CASE dies
    <3>1. /\ Append(q, e) \in Seq(Frames) /\ DOMAIN Append(q, e) = 1 .. Len(q) + 1 /\ Append(q, e)[Len(q) + 1] = e
          /\ \A i \in 1 .. Len(q) : Append(q, e)[i] = q[i]
      BY <2>0, <2>3, StackPush
    <3>2. stack' = Append(q, e)
      BY <2>2, <2>5
    <3>3. stack' \in Seq(Frames) /\ DOMAIN stack' = 1 .. Len(stack) + 1 /\ stack'[Len(stack) + 1] = e
          /\ \A i \in DOMAIN stack : stack'[i] = q[i]
      BY <1>5, <2>3, <3>1, <3>2
    <3>4. Len(stack) + 1 \in DOMAIN stack' /\ DOMAIN stack' = DOMAIN stack \cup {Len(stack) + 1}
          /\ Len(stack) + 1 \notin DOMAIN stack
      BY <1>5, <3>3
    <3> QED BY <2>3, <2>5, <3>3, <3>4 DEF StackGrows
  <2> QED BY <2>4, <2>5
<1>10. /\ dies => live' = live \ {c}
       /\ ~dies => live' = live
       /\ rcr' = IF c \in live THEN rcr \ {<<c, t, r>>} ELSE rcr
  BY <1>1
<1>11. e.obj = c /\ \A x \in Object, q \in Composite : <<x, q>> \in e.todo <=> x \in Refers(c, q)
  BY <1>7 DEF e
<1>12. dies => c \in live /\ r \in Dependent /\ \A x \in Object, p \in Object, q \in Rel :
                  <<x, p, q>> \in rcr /\ <<x, p, q>> # <<c, t, r>> => x # c
  OBVIOUS
<1> HIDE DEF t, rest
<1>13. dies => c \in live
  BY <1>12
<1> HIDE DEF dies
<1>14. live' \subseteq live /\ rcr' \subseteq rcr
  BY <1>10
<1>15. StateOK'
  BY <1>2, <1>3, <1>4, <1>14 DEF StateOK, Triple
<1>16. StackOK'
  <2>1. Frames' = Frames
    BY <1>4 DEF Frames
  <2>2. (\A i \in DOMAIN stack : stack[i].obj \notin live) /\ \A i, j \in DOMAIN stack : stack[i].obj = stack[j].obj => i = j
    BY <1>3 DEF StackOK
  <2>3. CASE ~dies
    BY <1>9, <1>10, <2>1, <2>2, <2>3 DEF StackGrows, StackOK
  <2>4. CASE dies
    <3>1. PICK k \in DOMAIN stack' : stack'[k] = e /\ DOMAIN stack' = DOMAIN stack \cup {k} /\ k \notin DOMAIN stack
      BY <1>9, <2>4
    <3>2. \A i \in DOMAIN stack : stack'[i].obj = stack[i].obj /\ stack'[i].obj # c
      BY <1>9, <1>13, <2>2, <2>4 DEF StackGrows
    <3>3. stack' \in Seq(Frames)
      BY <1>9 DEF StackGrows
    <3> QED BY <1>10, <1>11, <2>1, <2>2, <2>4, <3>1, <3>2, <3>3 DEF StackOK
  <2> QED BY <2>3, <2>4
<1>17. ValuesOK'
  BY <1>2, <1>3, <1>4 DEF ValuesOK
<1>18. PendingClosed'
  <2>1. \A x \in pending' \cap live', p \in live' : file'[p] = file'[x] => p \in pending'
    BY <1>2, <1>3, <1>14 DEF PendingClosed
  <2>2. \A s \in live', q \in Rel' : Pointers(value'[s][q]) \cap pending' # {} => s \in pending'
    BY <1>2, <1>3, <1>4, <1>14 DEF PendingClosed, Refers
  <2> QED BY <2>1, <2>2 DEF PendingClosed, Refers
<1>19. ASSUME Careless = {}
       PROVE  (RcrHasPointer /\ PointerHasRcr /\ OneParent(rcr) /\ PointersLive /\ DestroyMarks)'
  <2>1. RcrHasPointer /\ PointerHasRcr /\ OneParent(rcr) /\ PointersLive /\ DestroyMarks
    BY <1>19 DEF CompositeInv, CarefulInv
  <2>2. \A s \in Object, q \in Rel : Pointers(value'[s][q]) = Refers(s, q)
    BY <1>2 DEF Refers
  <2>3. RcrHasPointer'
    <3>1. SUFFICES ASSUME NEW x \in Object, NEW s \in Object, NEW q \in Rel', <<x, s, q>> \in rcr'
          PROVE  /\ q \in Composite'
                 /\ x \in live' \/ \E i \in DOMAIN stack' : stack'[i].obj = x
                 /\ x \in live' \ pending' =>
                    \/ s \in live' /\ x \in Pointers(value'[s][q])
                    \/ \E i \in DOMAIN stack' : stack'[i].obj = s /\ <<x, q>> \in stack'[i].todo
      BY DEF RcrHasPointer, Removing, Refers
    <3>2. q \in Rel /\ <<x, s, q>> \in rcr /\ (c \in live => <<x, s, q>> # <<c, t, r>>)
      BY <1>4, <1>10, <1>14, <3>1
    <3>3. /\ q \in Composite
          /\ x \in live \/ \E i \in DOMAIN stack : stack[i].obj = x
          /\ x \in live \ pending =>
               \/ s \in live /\ x \in Refers(s, q)
               \/ \E i \in DOMAIN stack : stack[i].obj = s /\ <<x, q>> \in stack[i].todo
      BY <2>1, <3>2 DEF RcrHasPointer, Removing
    <3>4. x \in live' \/ \E i \in DOMAIN stack' : stack'[i].obj = x
      <4>1. CASE x \in live /\ x \notin live'
        <5>1. dies /\ x = c
          BY <1>10, <4>1
        <5> QED BY <1>9, <1>11, <5>1
      <4>2. CASE x \notin live
        <5>1. PICK i \in DOMAIN stack : stack[i].obj = x
          BY <3>3, <4>2
        <5>2. i \in DOMAIN stack' /\ stack'[i].obj = x
          BY <1>9, <5>1 DEF StackGrows
        <5> QED BY <5>2
      <4> QED BY <4>1, <4>2
    <3>5. ASSUME x \in live' \ pending'
          PROVE  \/ s \in live' /\ x \in Pointers(value'[s][q])
                 \/ \E i \in DOMAIN stack' : stack'[i].obj = s /\ <<x, q>> \in stack'[i].todo
      <4>0. x \in live \ pending
        BY <1>2, <1>14, <3>5
      <4>1. CASE s \in live /\ x \in Refers(s, q)
        <5>1. CASE s \in live'
          BY <2>2, <3>2, <4>1, <5>1
        <5>2. CASE s \notin live'
          <6>1. dies /\ s = c
            BY <1>10, <4>1, <5>2
          <6>2. <<x, q>> \in e.todo /\ e.obj = s
            BY <1>11, <3>3, <4>1, <6>1
          <6> QED BY <1>9, <6>1, <6>2
        <5> QED BY <5>1, <5>2
      <4>2. ASSUME NEW i \in DOMAIN stack, stack[i].obj = s, <<x, q>> \in stack[i].todo
            PROVE  i \in DOMAIN stack' /\ stack'[i].obj = s /\ <<x, q>> \in stack'[i].todo
        <5>1. i \in DOMAIN stack' /\ stack'[i].obj = s
              /\ stack'[i].todo = IF i = Len(stack) THEN stack[i].todo \ {<<c, r>>} ELSE stack[i].todo
          BY <1>9, <4>2 DEF StackGrows
        <5>2. i = Len(stack) => <<x, q>> # <<c, r>>
          BY <1>6, <3>2, <4>0, <4>2
        <5> QED BY <4>2, <5>1, <5>2
      <4> QED BY <3>3, <4>0, <4>1, <4>2
    <3> QED BY <1>4, <3>3, <3>4, <3>5
  <2>4. PointerHasRcr'
    <3>1. SUFFICES ASSUME NEW s \in live', NEW q \in Composite', NEW x \in Pointers(value'[s][q])
                   PROVE  IF x \in live' THEN <<x, s, q>> \in rcr' ELSE s \in pending'
      BY DEF PointerHasRcr, Refers
    <3>2. s \in live /\ s \in Object /\ q \in Composite /\ q \in Rel /\ s # t
      BY <1>3, <1>4, <1>6, <1>14
    <3>3. x \in Refers(s, q) /\ x \in Object
      BY <1>3, <2>2, <3>2, RefersObjects
    <3>4. IF x \in live THEN <<x, s, q>> \in rcr ELSE s \in pending
      BY <2>1, <3>2, <3>3 DEF PointerHasRcr
    <3>5. <<x, s, q>> # <<c, t, r>>
      BY <3>2
    <3>6. x \in live => <<x, s, q>> \in rcr' /\ x \in live'
      BY <1>10, <1>12, <3>2, <3>3, <3>4, <3>5
    <3> QED BY <1>2, <1>14, <3>4, <3>6
  <2>5. PointersLive'
    <3>1. SUFFICES ASSUME Dependent = {} \/ Composite = Rel, NEW s \in live', NEW q \in Rel, s \notin pending'
                   PROVE  Pointers(value'[s][q]) \subseteq live'
      BY <1>4 DEF PointersLive, Refers
    <3>2. s \in live /\ s \in Object /\ s \notin pending /\ s # t
      BY <1>2, <1>3, <1>6, <1>14, <3>1
    <3>3. Refers(s, q) \subseteq live /\ Pointers(value'[s][q]) = Refers(s, q)
      BY <2>1, <2>2, <3>1, <3>2 DEF PointersLive
    <3>4. CASE ~dies
      BY <1>10, <3>3, <3>4
    <3>5. CASE dies
      <4>1. Composite = Rel /\ c \in live
        BY <1>12, <3>1, <3>5
      <4>2. c \notin Refers(s, q)
        <5>1. c \in Refers(s, q) => <<c, s, q>> \in rcr
          BY <2>1, <3>2, <4>1 DEF PointerHasRcr
        <5>2. <<c, s, q>> # <<c, t, r>>
          BY <3>2
        <5> QED BY <1>12, <3>2, <3>5, <5>1, <5>2
      <4> QED BY <1>10, <3>3, <3>5, <4>2
    <3> QED BY <3>4, <3>5
  <2>6. DestroyMarks'
    <3>1. 1 \in DOMAIN stack
      BY <1>5
    <3>2. stack'[1].obj = stack[1].obj
      BY <1>9, <3>1 DEF StackGrows
    <3> QED BY <1>2, <1>14, <2>1, <3>2 DEF DestroyMarks
  <2>7. OneParent(rcr)'
    <3>1. \A u, w \in rcr' : u[3] \in Exclusive /\ u[1] = w[1] /\ u[3] = w[3] => u = w
      BY <1>14, <2>1 DEF OneParent
    <3> QED BY <1>4, <3>1 DEF OneParent
  <2> QED BY <2>3, <2>4, <2>5, <2>6, <2>7
<1> QED BY <1>4, <1>15, <1>16, <1>17, <1>18, <1>19 DEF CompositeInv, CarefulInv

\* The end of a destructor keeps it.
LEMMA EndInv ==
  ASSUME CompositeInv, EndDelete
  PROVE  CompositeInv'
<1> DEFINE t == Top.obj
<1>1. /\ stack # <<>> /\ Top.todo = {}
      /\ value' = [value EXCEPT ![t] = [r \in Rel |-> <<>>]]
      /\ rcr' = {x \in rcr : x[1] # t}
      /\ file' = [file EXCEPT ![t] = NoFile]
      /\ stack' = Outer
      /\ UNCHANGED <<live, updated, pending, setup>>
  BY DEF EndDelete
<1>2. StateOK /\ StackOK /\ ValuesOK /\ PendingClosed /\ live \subseteq Object /\ Composite \subseteq Rel
      /\ stack \in Seq(Frames)
  BY SetupParts DEF CompositeInv, StateOK, StackOK
<1>3. Rel' = Rel /\ Many' = Many /\ Composite' = Composite /\ Exclusive' = Exclusive
      /\ Dependent' = Dependent /\ Careless' = Careless
  BY <1>1, SetupSame
<1>4. /\ Len(stack) \in Nat /\ Len(stack) >= 1 /\ DOMAIN stack = 1 .. Len(stack)
      /\ Top = stack[Len(stack)] /\ Top \in Frames
      /\ stack' \in Seq(Frames) /\ DOMAIN stack' = 1 .. Len(stack) - 1
      /\ \A i \in 1 .. Len(stack) - 1 : stack'[i] = stack[i]
  BY <1>1, <1>2, StackParts
<1>5. Len(stack) \in DOMAIN stack /\ t = stack[Len(stack)].obj /\ stack[Len(stack)].todo = {} /\ t \in Object
  BY <1>1, <1>4 DEF Frames
<1>6. t \notin live
  BY <1>2, <1>5 DEF StackOK
<1>7. \A i \in DOMAIN stack : (i \in DOMAIN stack' /\ stack'[i] = stack[i]) \/ i = Len(stack)
  BY <1>4
<1>8. \A i \in DOMAIN stack' : i \in DOMAIN stack /\ i # Len(stack) /\ stack'[i] = stack[i]
  BY <1>4
<1> HIDE DEF t
<1>9. [r \in Rel |-> <<>>] \in [Rel -> Seq(Ref)]
  BY EmptySeq
<1>10. /\ value' \in [Object -> [Rel -> Seq(Ref)]]
       /\ \A s \in Object, r \in Rel : value'[s][r] = IF s = t THEN <<>> ELSE value[s][r]
  BY <1>1, <1>2, <1>9 DEF StateOK
<1>11. /\ file' \in [Object -> File \cup {NoFile}]
       /\ \A c \in live : file'[c] = file[c]
  BY <1>1, <1>2, <1>6 DEF StateOK
<1>12. rcr' \subseteq rcr
  BY <1>1
<1>13. StateOK'
  BY <1>1, <1>2, <1>3, <1>10, <1>11, <1>12 DEF StateOK, Triple
<1>14. StackOK'
  <2>1. Frames' = Frames
    BY <1>3 DEF Frames
  <2> QED BY <1>1, <1>2, <1>4, <1>8, <2>1 DEF StackOK
<1>15. ValuesOK'
  BY <1>1, <1>2, <1>10, ValuesKept
<1>16. \A s \in live, r \in Rel : Pointers(value'[s][r]) = Refers(s, r)
  BY <1>2, <1>6, <1>10 DEF Refers
<1>17. PendingClosed'
  <2>1. \A x \in pending' \cap live', p \in live' : file'[p] = file'[x] => p \in pending'
    BY <1>1, <1>2, <1>11 DEF PendingClosed
  <2>2. \A s \in live', q \in Rel' : Pointers(value'[s][q]) \cap pending' # {} => s \in pending'
    BY <1>1, <1>2, <1>3, <1>16 DEF PendingClosed
  <2> QED BY <2>1, <2>2 DEF PendingClosed, Refers
<1>18. ASSUME Careless = {}
       PROVE  (RcrHasPointer /\ PointerHasRcr /\ OneParent(rcr) /\ PointersLive /\ DestroyMarks)'
  <2>1. RcrHasPointer /\ PointerHasRcr /\ OneParent(rcr) /\ PointersLive /\ DestroyMarks
    BY <1>18 DEF CompositeInv, CarefulInv
  <2>2. RcrHasPointer'
    <3>1. SUFFICES ASSUME NEW x \in Object, NEW s \in Object, NEW q \in Rel', <<x, s, q>> \in rcr'
          PROVE  /\ q \in Composite'
                 /\ x \in live' \/ \E i \in DOMAIN stack' : stack'[i].obj = x
                 /\ x \in live' \ pending' =>
                    \/ s \in live' /\ x \in Pointers(value'[s][q])
                    \/ \E i \in DOMAIN stack' : stack'[i].obj = s /\ <<x, q>> \in stack'[i].todo
      BY DEF RcrHasPointer, Removing, Refers
    <3>2. q \in Rel /\ <<x, s, q>> \in rcr /\ x # t
      BY <1>1, <1>3, <3>1
    <3>3. /\ q \in Composite
          /\ x \in live \/ \E i \in DOMAIN stack : stack[i].obj = x
          /\ x \in live \ pending =>
               \/ s \in live /\ x \in Refers(s, q)
               \/ \E i \in DOMAIN stack : stack[i].obj = s /\ <<x, q>> \in stack[i].todo
      BY <2>1, <3>2 DEF RcrHasPointer, Removing
    <3>4. x \in live \/ \E i \in DOMAIN stack' : stack'[i].obj = x
      BY <1>5, <1>7, <3>2, <3>3
    <3>5. x \in live \ pending =>
             \/ s \in live /\ x \in Pointers(value'[s][q])
             \/ \E i \in DOMAIN stack' : stack'[i].obj = s /\ <<x, q>> \in stack'[i].todo
      BY <1>5, <1>7, <1>16, <3>2, <3>3
    <3> QED BY <1>1, <1>3, <3>3, <3>4, <3>5
  <2>3. PointerHasRcr'
    <3>1. SUFFICES ASSUME NEW s \in live', NEW q \in Composite', NEW x \in Pointers(value'[s][q])
                   PROVE  IF x \in live' THEN <<x, s, q>> \in rcr' ELSE s \in pending'
      BY DEF PointerHasRcr, Refers
    <3>2. s \in live /\ q \in Composite /\ q \in Rel
      BY <1>1, <1>2, <1>3
    <3>3. x \in Refers(s, q)
      BY <1>16, <3>2
    <3>4. IF x \in live THEN <<x, s, q>> \in rcr ELSE s \in pending
      BY <2>1, <3>2, <3>3 DEF PointerHasRcr
    <3> QED BY <1>1, <1>6, <3>4
  <2>4. PointersLive'
    BY <1>1, <1>3, <1>16, <2>1 DEF PointersLive, Refers
  <2>5. DestroyMarks'
    <3>1. ASSUME stack' # <<>> PROVE 1 \in DOMAIN stack' /\ stack'[1] = stack[1] /\ stack[1].obj # t
      <4>1. Len(stack') \in Nat /\ DOMAIN stack' = 1 .. Len(stack') /\ Len(stack') # 0
        BY <1>4, <3>1, LenProperties, EmptySeq
      <4>2. 1 \in DOMAIN stack'
        BY <4>1
      <4>3. stack'[1] = stack[1] /\ 1 \in DOMAIN stack /\ 1 # Len(stack)
        BY <1>8, <4>2
      <4> QED BY <1>2, <1>5, <4>2, <4>3 DEF StackOK
    <3>2. ASSUME stack' # <<>> PROVE file'[stack'[1].obj] = file[stack[1].obj]
      <4>1. stack[1].obj \in Object
        <5>1. 1 \in DOMAIN stack'
          BY <3>1, <3>2
        <5>2. stack[1] \in Frames
          BY <1>2, <1>8, <5>1, ElementOfSeq, LenProperties
        <5> QED BY <5>2 DEF Frames
      <4> QED BY <1>1, <1>2, <3>1, <3>2, <4>1 DEF StateOK
    <3>3. stack' # <<>> =>
            file'[stack'[1].obj] \in updated' \/ \A c \in live' : file'[c] = file'[stack'[1].obj] => c \in pending'
      BY <1>1, <1>11, <2>1, <3>2 DEF DestroyMarks
    <3> QED BY <3>3 DEF DestroyMarks
  <2>6. OneParent(rcr)'
    <3>1. \A u, w \in rcr' : u[3] \in Exclusive /\ u[1] = w[1] /\ u[3] = w[3] => u = w
      BY <1>12, <2>1 DEF OneParent
    <3> QED BY <1>3, <3>1 DEF OneParent
  <2> QED BY <2>2, <2>3, <2>4, <2>5, <2>6
<1> QED BY <1>3, <1>13, <1>14, <1>15, <1>17, <1>18 DEF CompositeInv, CarefulInv

\* What unbinding the pointers of s to objects of f does to its values.
LEMMA UnboundParts ==
  ASSUME StateOK, NEW s \in Object, NEW f
  PROVE  /\ Unbound(s, f) \in [Rel -> Seq(Ref)]
         /\ \A r \in Rel :
              /\ SameRefs(value[s][r], Unbound(s, f)[r])
              /\ Len(Unbound(s, f)[r]) = Len(value[s][r])
              /\ Apart(value[s][r]) => Apart(Unbound(s, f)[r])
              /\ \A c : c \in Pointers(Unbound(s, f)[r]) <=> c \in Refers(s, r) /\ file[c] # f
<1> DEFINE e(r, i) == IF file[value[s][r][i].obj] = f
                        THEN [value[s][r][i] EXCEPT !.bound = FALSE] ELSE value[s][r][i]
           w(r) == [i \in DOMAIN value[s][r] |-> e(r, i)]
<1>1. Unbound(s, f) = [r \in Rel |-> w(r)]
  BY DEF Unbound
<1>2. ASSUME NEW r \in Rel
      PROVE  /\ w(r) \in Seq(Ref)
             /\ SameRefs(value[s][r], w(r))
             /\ Len(w(r)) = Len(value[s][r])
             /\ Apart(value[s][r]) => Apart(w(r))
             /\ \A c : c \in Pointers(w(r)) <=> c \in Refers(s, r) /\ file[c] # f
  <2> DEFINE v == value[s][r]
  <2>1. v \in Seq(Ref)
    BY DEF StateOK
  <2>2. \A i \in DOMAIN v : v[i] \in Ref
    BY <2>1, ElementOfSeq, LenProperties
  <2>3. ASSUME NEW i \in DOMAIN v
        PROVE  /\ e(r, i) \in Ref /\ e(r, i).obj = v[i].obj
               /\ e(r, i).bound <=> v[i].bound /\ file[v[i].obj] # f
    BY <2>2 DEF Ref
  <2>4. DOMAIN w(r) = DOMAIN v /\ \A i \in DOMAIN v : w(r)[i] = e(r, i)
    OBVIOUS
  <2>5. w(r) = [i \in DOMAIN v |-> w(r)[i]]
    OBVIOUS
  <2> HIDE DEF e, w, v
  <2>6. SameRefs(v, w(r)) /\ \A i \in DOMAIN v : w(r)[i] \in Ref
    BY <2>3, <2>4 DEF SameRefs
  <2>7. w(r) \in Seq(Ref) /\ Len(w(r)) = Len(v) /\ (Apart(v) => Apart(w(r)))
    BY <2>1, <2>5, <2>6, SameRefsValue
  <2>8. ASSUME NEW c PROVE c \in Pointers(w(r)) <=> c \in Pointers(v) /\ file[c] # f
    <3> DEFINE u == w(r)
    <3>1. /\ c \in Pointers(u) <=> \E i \in DOMAIN u : u[i].bound /\ u[i].obj = c
          /\ c \in Pointers(v) <=> \E i \in DOMAIN v : v[i].bound /\ v[i].obj = c
      BY PointersAre
    <3>2. DOMAIN u = DOMAIN v /\ \A i \in DOMAIN v : u[i].obj = v[i].obj
            /\ (u[i].bound <=> v[i].bound /\ file[v[i].obj] # f)
      BY <2>3, <2>4
    <3> HIDE DEF u
    <3>3. (\E i \in DOMAIN u : u[i].bound /\ u[i].obj = c) <=>
             (\E i \in DOMAIN v : v[i].bound /\ v[i].obj = c) /\ file[c] # f
      BY <3>2
    <3> QED BY <3>1, <3>3 DEF u
  <2> QED BY <2>6, <2>7, <2>8 DEF v, Refers
<1>3. \A r \in Rel : Unbound(s, f)[r] = w(r)
  BY <1>1
<1>4. Unbound(s, f) \in [Rel -> Seq(Ref)]
  <2> HIDE DEF w
  <2> QED BY <1>1, <1>2
<1> HIDE DEF w
<1> QED BY <1>2, <1>3, <1>4

\* The start of k_close_data keeps it: what pointed into the file has names
\* or is in the file.
LEMMA CloseInv ==
  ASSUME CompositeInv, NEW f \in File, CloseData(f)
  PROVE  CompositeInv'
<1>1. /\ Idle
      /\ pending' = {c \in live : file[c] = f}
      /\ value' = [s \in Object |-> IF s \in live /\ file[s] # f THEN Unbound(s, f) ELSE value[s]]
      /\ updated' = updated \ {f}
      /\ UNCHANGED <<live, file, rcr, stack, setup>>
  BY DEF CloseData
<1>2. StateOK /\ ValuesOK /\ live \subseteq Object /\ Composite \subseteq Rel
  BY SetupParts DEF CompositeInv, StateOK
<1>3. Rel' = Rel /\ Many' = Many /\ Composite' = Composite /\ Exclusive' = Exclusive
      /\ Dependent' = Dependent /\ Careless' = Careless
  BY <1>1, SetupSame
<1>4. stack = <<>> /\ stack' = <<>> /\ DOMAIN stack = {} /\ DOMAIN stack' = {} /\ pending = {}
  BY <1>1 DEF Idle
<1>5. ASSUME NEW s \in Object
      PROVE  /\ value'[s] \in [Rel -> Seq(Ref)]
             /\ \A r \in Rel :
                  /\ Len(value'[s][r]) = Len(value[s][r]) /\ (Apart(value[s][r]) => Apart(value'[s][r]))
                  /\ s \in live => \A c : c \in Pointers(value'[s][r]) <=>
                       c \in Refers(s, r) /\ (file[c] = f => file[s] = f)
  <2>1. CASE s \in live /\ file[s] # f
    <3>1. value'[s] = Unbound(s, f)
      BY <1>1, <2>1
    <3> QED BY <1>2, <2>1, <3>1, UnboundParts
  <2>2. CASE ~(s \in live /\ file[s] # f)
    <3>1. value'[s] = value[s]
      BY <1>1, <2>2
    <3> QED BY <1>2, <2>2, <3>1 DEF StateOK, Refers
  <2> QED BY <2>1, <2>2
<1>6. value' \in [Object -> [Rel -> Seq(Ref)]]
  <2>1. value' = [s \in Object |-> value'[s]]
    BY <1>1
  <2> QED BY <1>5, <2>1
<1>7. StateOK'
  BY <1>1, <1>2, <1>3, <1>6 DEF StateOK, Triple
<1>8. StackOK'
  BY <1>4, EmptySeq DEF StackOK
<1>9. ValuesOK'
  BY <1>1, <1>2, <1>5, <1>6, ValuesKept
<1>10. PendingClosed'
  <2>1. \A x \in pending' \cap live', p \in live' : file'[p] = file'[x] => p \in pending'
    BY <1>1
  <2>2. ASSUME NEW s \in live', NEW q \in Rel', Pointers(value'[s][q]) \cap pending' # {} PROVE s \in pending'
    <3>1. PICK c : c \in Pointers(value'[s][q]) /\ c \in pending'
      BY <2>2
    <3>2. s \in live /\ s \in Object /\ q \in Rel /\ file[c] = f
      BY <1>1, <1>2, <1>3, <3>1
    <3>3. file[s] = f
      BY <1>5, <3>1, <3>2
    <3> QED BY <1>1, <3>2, <3>3
  <2> QED BY <2>1, <2>2 DEF PendingClosed, Refers
<1>11. ASSUME Careless = {}
       PROVE  (RcrHasPointer /\ PointerHasRcr /\ OneParent(rcr) /\ PointersLive /\ DestroyMarks)'
  <2>1. Exact
    BY <1>1, <1>11, IdleParts
  <2>2. RcrHasPointer'
    <3>1. SUFFICES ASSUME NEW x \in Object, NEW s \in Object, NEW q \in Rel', <<x, s, q>> \in rcr'
          PROVE  /\ q \in Composite'
                 /\ x \in live'
                 /\ x \in live' \ pending' => s \in live' /\ x \in Pointers(value'[s][q])
      BY DEF RcrHasPointer, Removing, Refers
    <3>2. q \in Rel /\ <<x, s, q>> \in rcr
      BY <1>1, <1>3, <3>1
    <3>3. s \in live /\ q \in Composite /\ x \in Refers(s, q)
      BY <2>1, <3>2 DEF Exact
    <3>4. x \in live
      BY <2>1, <3>3 DEF Exact
    <3>5. x \notin pending' => x \in Pointers(value'[s][q])
      <4>1. x \in Pointers(value'[s][q]) <=> x \in Refers(s, q) /\ (file[x] = f => file[s] = f)
        BY <1>5, <3>2, <3>3
      <4> QED BY <1>1, <3>3, <3>4, <4>1
    <3> QED BY <1>1, <1>3, <3>3, <3>4, <3>5
  <2>3. PointerHasRcr'
    <3>1. SUFFICES ASSUME NEW s \in live', NEW q \in Composite', NEW x \in Pointers(value'[s][q])
                   PROVE  IF x \in live' THEN <<x, s, q>> \in rcr' ELSE s \in pending'
      BY DEF PointerHasRcr, Refers
    <3>2. s \in live /\ s \in Object /\ q \in Composite /\ q \in Rel
      BY <1>1, <1>2, <1>3
    <3>3. x \in Refers(s, q) /\ x \in Object
      BY <1>2, <1>5, <3>2, RefersObjects
    <3>4. x \in live /\ <<x, s, q>> \in rcr
      BY <2>1, <3>2, <3>3 DEF Exact
    <3> QED BY <1>1, <3>4
  <2>4. PointersLive'
    <3>1. SUFFICES ASSUME Dependent = {} \/ Composite = Rel, NEW s \in live', NEW q \in Rel, NEW x \in Pointers(value'[s][q])
                   PROVE  x \in live'
      BY <1>3 DEF PointersLive, Refers
    <3>2. s \in live /\ s \in Object
      BY <1>1, <1>2
    <3>3. x \in Refers(s, q)
      BY <1>5, <3>2
    <3> QED BY <1>1, <2>1, <3>1, <3>2, <3>3 DEF Exact
  <2>5. DestroyMarks'
    BY <1>4 DEF DestroyMarks
  <2>6. OneParent(rcr)'
    BY <1>1, <1>3, <2>1 DEF OneParent, Exact
  <2> QED BY <2>2, <2>3, <2>4, <2>5, <2>6
<1> QED BY <1>3, <1>7, <1>8, <1>9, <1>10, <1>11 DEF CompositeInv, CarefulInv

-----------------------------------------------------------------------------
(* The theorems *)

\* Without objects the inductive invariant holds.
LEMMA InitComposite == Init => CompositeInv
<1> SUFFICES ASSUME Init PROVE CompositeInv
  OBVIOUS
<1>1. /\ setup \in Setups /\ live = {} /\ file = [o \in Object |-> NoFile]
      /\ value = [o \in Object |-> [r \in Rel |-> <<>>]]
      /\ rcr = {} /\ updated = {} /\ stack = <<>> /\ pending = {}
  BY DEF Init
<1>2. [r \in Rel |-> <<>>] \in [Rel -> Seq(Ref)]
  BY EmptySeq
<1>3. StateOK
  BY <1>1, <1>2 DEF StateOK
<1>4. Len(<<>>) <= 1 /\ Apart(<<>>)
  BY DEF Apart
<1>5. \A s \in Object, r \in Rel : value[s][r] = <<>>
  BY <1>1
<1>6. ValuesOK
  BY <1>4, <1>5 DEF ValuesOK
<1>7. Idle
  BY <1>1 DEF Idle
<1>8. Exact
  <2>1. \A s : s \notin live
    BY <1>1
  <2>2. \A t : t \notin rcr
    BY <1>1
  <2> QED BY <2>1, <2>2 DEF Exact, OneParent
<1> QED BY <1>3, <1>6, <1>7, <1>8, IdleInv DEF CarefulExact

\* Every step keeps the inductive invariant.
LEMMA NextComposite == CompositeInv /\ [Next]_vars => CompositeInv'
<1> SUFFICES ASSUME CompositeInv, [Next]_vars PROVE CompositeInv'
  OBVIOUS
<1>1. ASSUME NEW s \in Object, NEW r \in RelName, NEW v \in Input(r), SetRelationshipValue(s, r, v) PROVE CompositeInv'
  <2>1. PICK w : SetterDone(s, r, w)
    BY <1>1, SetIsSetter
  <2> QED BY <2>1, SetterInv
<1>2. ASSUME NEW s \in Object, NEW r \in RelName, NEW o \in Object, AddRelationshipValue(s, r, o) PROVE CompositeInv'
  <2>1. PICK w : SetterDone(s, r, w)
    BY <1>2, AddIsSetter
  <2> QED BY <2>1, SetterInv
<1>3. ASSUME NEW s \in Object, NEW r \in RelName, NEW o \in Object, AddName(s, r, o) PROVE CompositeInv'
  <2>1. PICK w : SetterDone(s, r, w)
    BY <1>3, NameIsSetter
  <2> QED BY <2>1, SetterInv
<1>4. ASSUME NEW s \in Object, NEW r \in RelName, NEW o \in Object, RemoveRelationshipValue(s, r, o) PROVE CompositeInv'
  <2>1. PICK w : SetterDone(s, r, w)
    BY <1>4, RemoveIsSetter
  <2> QED BY <2>1, SetterInv
<1>5. ASSUME NEW s \in Object, NEW r \in RelName, NEW o \in Object, RemoveName(s, r, o) PROVE CompositeInv'
  <2>1. PICK w : SetterDone(s, r, w)
    BY <1>5, RemoveIsSetter
  <2> QED BY <2>1, SetterInv
<1>6. ASSUME NEW o \in Object, Create(o) PROVE CompositeInv'
  BY <1>6, CreateInv
<1>7. ASSUME NEW o \in Object, NEW fast \in BOOLEAN, Destroy(o, fast) PROVE CompositeInv'
  BY <1>7, DestroyInv
<1>8. ASSUME NEW o \in Object, NEW f \in File, SetFile(o, f) PROVE CompositeInv'
  BY <1>8, FilesInv
<1>9. ASSUME BindObjects PROVE CompositeInv'
  BY <1>9, BindInv
<1>10. ASSUME VisitChild PROVE CompositeInv'
  BY <1>10, VisitInv
<1>11. ASSUME EndDelete PROVE CompositeInv'
  BY <1>11, EndInv
<1>12. ASSUME DeleteNext PROVE CompositeInv'
  BY <1>12, DeleteNextInv
<1>13. ASSUME NEW f \in File, CloseData(f) PROVE CompositeInv'
  BY <1>13, CloseInv
<1>14. ASSUME NEW f \in File, SaveData(f) PROVE CompositeInv'
  BY <1>14, FilesInv
<1>15. CASE UNCHANGED vars
  <2>1. UNCHANGED <<live, file, value, rcr, updated, stack, pending, setup>>
    BY <1>15 DEF vars
  <2>2. Rel' = Rel /\ Many' = Many /\ Composite' = Composite /\ Exclusive' = Exclusive
        /\ Dependent' = Dependent /\ Careless' = Careless
    BY <2>1, SetupSame
  <2>3. StateOK' /\ StackOK' /\ ValuesOK' /\ PendingClosed'
    BY <2>1, <2>2 DEF CompositeInv, StateOK, StackOK, ValuesOK, PendingClosed, Triple, Frames, Refers
  <2>4. CarefulInv'
    BY <2>1, <2>2 DEF CompositeInv, CarefulInv, RcrHasPointer, PointerHasRcr, OneParent, PointersLive,
                      DestroyMarks, Removing, Refers
  <2> QED BY <2>3, <2>4 DEF CompositeInv
<1> QED
  BY <1>1, <1>2, <1>3, <1>4, <1>5, <1>6, <1>7, <1>8, <1>9, <1>10, <1>11, <1>12, <1>13, <1>14, <1>15 DEF Next

\* The inductive invariant holds in every state.
THEOREM CompositeInvariant == Spec => []CompositeInv
BY InitComposite, NextComposite, PTL DEF Spec

\* Every variable keeps its type, and every object is in a file.
THEOREM CompositeTypeCorrect == Spec => []TypeOK
<1>1. CompositeInv => TypeOK
  <2> SUFFICES ASSUME CompositeInv PROVE TypeOK
    OBVIOUS
  <2>1. StateOK /\ ValuesOK /\ stack \in Seq(Frames)
    BY DEF CompositeInv, StackOK
  <2>2. \A i \in DOMAIN stack : stack[i].obj \in Object /\ stack[i].todo \subseteq Object \X Composite
    <3>1. \A i \in DOMAIN stack : stack[i] \in Frames
      BY <2>1, ElementOfSeq, LenProperties
    <3> QED BY <3>1 DEF Frames
  <2>3. \A s \in Object, r \in Rel : value[s][r] \in Seq(Ref) /\ (r \notin Many => Len(value[s][r]) <= 1)
    BY <2>1, RefersObjects DEF ValuesOK
  <2> QED BY <2>1, <2>2, <2>3 DEF TypeOK, StateOK
<1> QED BY <1>1, CompositeInvariant, PTL

\* Between calls the reverse composite relationships are exactly the
\* composite pointers of the objects that are there.
THEOREM RcrsMatchValues == Spec => []RcrMatchesValues
<1>1. CompositeInv => RcrMatchesValues
  <2> SUFFICES ASSUME CompositeInv, Idle, Careless = {}
               PROVE  rcr = {t \in Triple :
                        t[2] \in live /\ t[3] \in Composite /\ t[1] \in Refers(t[2], t[3])}
    BY DEF RcrMatchesValues
  <2>1. Exact /\ rcr \subseteq Triple
    BY IdleParts DEF CompositeInv, StateOK
  <2>2. \A t \in Triple : t[1] \in Object /\ t[2] \in Object /\ t[3] \in Rel /\ t = <<t[1], t[2], t[3]>>
    BY DEF Triple
  <2>3. \A t \in Triple : t \in rcr <=> t[2] \in live /\ t[3] \in Composite /\ t[1] \in Refers(t[2], t[3])
    BY <2>1, <2>2 DEF Exact
  <2> QED BY <2>1, <2>3
<1> QED BY <1>1, CompositeInvariant, PTL

\* Between calls no value points to an object that was deleted, when no
\* dependent object has a reference that is not composite.
THEOREM PointersDoNotDangle == Spec => []NoDanglingPointer
<1>1. CompositeInv => NoDanglingPointer
  BY IdleParts DEF NoDanglingPointer, Exact
<1> QED BY <1>1, CompositeInvariant, PTL

\* An object is the component of at most one parent through one exclusive
\* relationship, during the calls too.
THEOREM PartsHaveOneParent == Spec => []OneParentPerRelationship
<1>1. CompositeInv => OneParentPerRelationship
  <2> SUFFICES ASSUME CompositeInv, Careless = {}, NEW r \in Exclusive, NEW s \in live, NEW p \in live,
                      NEW c \in Refers(s, r) \cap Refers(p, r) \cap live
               PROVE  s = p
    BY DEF OneParentPerRelationship
  <2>1. PointerHasRcr /\ OneParent(rcr) /\ r \in Composite
    BY SetupParts DEF CompositeInv, CarefulInv, StateOK
  <2>2. <<c, s, r>> \in rcr /\ <<c, p, r>> \in rcr
    BY <2>1 DEF PointerHasRcr
  <2>3. <<c, s, r>> = <<c, p, r>>
    BY <2>1, <2>2 DEF OneParent
  <2> QED BY <2>3
<1> QED BY <1>1, CompositeInvariant, PTL

\* What is saved of a value does not change when references are bound or
\* unbound.
LEMMA SavedSame ==
  ASSUME NEW v, NEW w, \A r \in Rel : SameRefs(v[r], w[r])
  PROVE  Saved(w) = Saved(v)
<1>1. \A r \in Rel : [i \in DOMAIN w[r] |-> w[r][i].obj] = [i \in DOMAIN v[r] |-> v[r][i].obj]
  BY DEF SameRefs
<1> QED BY <1>1 DEF Saved

\* A changed object stays with what is saved of it, goes with an object of
\* another file, or has its file marked.
ChangesMarked ==
    \A c \in live :
      \/ c \in live' /\ (value'[c] = value[c] \/ Saved(value'[c]) = Saved(value[c]))
      \/ stack # <<>> /\ file[c] # file[stack[1].obj]
      \/ file[c] \in updated'

\* A setter marks the file of the object it changes.
LEMMA SetterMarks ==
  ASSUME StateOK, NEW s, NEW r, NEW w, SetterDone(s, r, w)
  PROVE  ChangesMarked
<1>1. live' = live /\ live \subseteq Object
  BY DEF SetterDone, StateOK
<1>2. (\A p \in Object : p # s => value'[p] = value[p]) /\ (value'[s] = value[s] \/ file[s] \in updated')
  BY SetterValue
<1> QED BY <1>1, <1>2 DEF ChangesMarked

\* Every step marks what it changes.
LEMMA NextMarks ==
  ASSUME CompositeInv, [Next]_vars, Careless = {}, pending = {}, pending' = {}
  PROVE  ChangesMarked
<1>0. StateOK /\ StackOK /\ DestroyMarks /\ live \subseteq Object /\ stack \in Seq(Frames)
      /\ pending = {} /\ pending' = {} /\ Careless = {}
  BY DEF CompositeInv, CarefulInv, StateOK, StackOK
<1>1. ASSUME NEW s \in Object, NEW r \in RelName, NEW v \in Input(r), SetRelationshipValue(s, r, v) PROVE ChangesMarked
  <2>1. PICK w : SetterDone(s, r, w)
    BY <1>1, SetIsSetter
  <2> QED BY <1>0, <2>1, SetterMarks
<1>2. ASSUME NEW s \in Object, NEW r \in RelName, NEW o \in Object, AddRelationshipValue(s, r, o) PROVE ChangesMarked
  <2>1. PICK w : SetterDone(s, r, w)
    BY <1>2, AddIsSetter
  <2> QED BY <1>0, <2>1, SetterMarks
<1>3. ASSUME NEW s \in Object, NEW r \in RelName, NEW o \in Object, AddName(s, r, o) PROVE ChangesMarked
  <2>1. PICK w : SetterDone(s, r, w)
    BY <1>3, NameIsSetter
  <2> QED BY <1>0, <2>1, SetterMarks
<1>4. ASSUME NEW s \in Object, NEW r \in RelName, NEW o \in Object, RemoveRelationshipValue(s, r, o) PROVE ChangesMarked
  <2>1. PICK w : SetterDone(s, r, w)
    BY <1>4, RemoveIsSetter
  <2> QED BY <1>0, <2>1, SetterMarks
<1>5. ASSUME NEW s \in Object, NEW r \in RelName, NEW o \in Object, RemoveName(s, r, o) PROVE ChangesMarked
  <2>1. PICK w : SetterDone(s, r, w)
    BY <1>5, RemoveIsSetter
  <2> QED BY <1>0, <2>1, SetterMarks
<1>6. ASSUME NEW o \in Object, Create(o) PROVE ChangesMarked
  <2>1. live' = live \cup {o} /\ value' = [value EXCEPT ![o] = [r \in Rel |-> <<>>]] /\ o \notin live
    BY <1>6 DEF Create
  <2>2. \A c \in live : c \in live' /\ value'[c] = value[c]
    BY <1>0, <2>1 DEF StateOK
  <2> QED BY <2>2 DEF ChangesMarked
<1>7. ASSUME NEW o \in Object, NEW fast \in BOOLEAN, Destroy(o, fast) PROVE ChangesMarked
  <2>1. live' = live \ {o} /\ value' = value /\ updated' = updated \cup {file[o]}
    BY <1>7, <1>0 DEF Destroy, Delete
  <2> QED BY <2>1 DEF ChangesMarked
<1>8. ASSUME NEW o \in Object, NEW f \in File, SetFile(o, f) PROVE ChangesMarked
  BY <1>8 DEF SetFile, ChangesMarked
<1>9. ASSUME BindObjects PROVE ChangesMarked
  <2>1. live' = live
    BY <1>9 DEF BindObjects
  <2>2. PICK T : value' = Bound(T)
    BY <1>9 DEF BindObjects
  <2>3. \A c \in live : Saved(value'[c]) = Saved(value[c])
    BY <1>0, <2>2, BoundParts, SavedSame
  <2> QED BY <2>1, <2>3 DEF ChangesMarked
<1>10. ASSUME VisitChild PROVE ChangesMarked
  <2>1. stack # <<>> /\ value' = value /\ updated' = updated /\ file' = file
    BY <1>10 DEF VisitChild
  <2>2. \/ file[stack[1].obj] \in updated
        \/ \A c \in live : file[c] = file[stack[1].obj] => c \in pending
    BY <1>0, <2>1 DEF DestroyMarks
  <2> QED BY <1>0, <2>1, <2>2 DEF ChangesMarked
<1>11. ASSUME EndDelete PROVE ChangesMarked
  <2>1. live' = live /\ value' = [value EXCEPT ![Top.obj] = [r \in Rel |-> <<>>]] /\ stack # <<>>
    BY <1>11 DEF EndDelete
  <2>2. Top.obj \notin live
    BY <1>0, <2>1, StackParts DEF StackOK
  <2>3. \A c \in live : value'[c] = value[c]
    BY <1>0, <2>1, <2>2 DEF StateOK
  <2> QED BY <2>1, <2>3 DEF ChangesMarked
<1>12. ASSUME DeleteNext PROVE ChangesMarked
  BY <1>12, <1>0 DEF DeleteNext, ChangesMarked
<1>13. ASSUME NEW f \in File, CloseData(f) PROVE ChangesMarked
  <2>1. /\ live' = live /\ \A c \in live : file[c] # f
        /\ value' = [s \in Object |-> IF s \in live /\ file[s] # f THEN Unbound(s, f) ELSE value[s]]
    BY <1>13, <1>0 DEF CloseData
  <2>2. \A c \in live : value'[c] = Unbound(c, f)
    BY <1>0, <2>1
  <2>3. \A c \in live : Saved(value'[c]) = Saved(value[c])
    BY <1>0, <2>2, UnboundParts, SavedSame
  <2> QED BY <2>1, <2>3 DEF ChangesMarked
<1>14. ASSUME NEW f \in File, SaveData(f) PROVE ChangesMarked
  BY <1>14 DEF SaveData, ChangesMarked
<1>15. CASE UNCHANGED vars
  BY <1>15 DEF vars, ChangesMarked
<1> QED
  BY <1>1, <1>2, <1>3, <1>4, <1>5, <1>6, <1>7, <1>8, <1>9, <1>10, <1>11, <1>12, <1>13, <1>14, <1>15 DEF Next

\* A setter or destroy marks the file of each object it changes, so that
\* saving the marked files saves every change.
THEOREM ChangesMarkFiles == Spec => ChangeMarksFile
<1>1. CompositeInv /\ [Next]_vars =>
        [Careless = {} /\ pending = {} /\ pending' = {} =>
         \A o \in live :
           \/ o \in live' /\ (value'[o] = value[o] \/ Saved(value'[o]) = Saved(value[o]))
           \/ stack # <<>> /\ file[o] # file[stack[1].obj]
           \/ file[o] \in updated']_vars
  BY NextMarks DEF ChangesMarked
<1> QED BY <1>1, CompositeInvariant, PTL DEF Spec, ChangeMarksFile
=============================================================================
