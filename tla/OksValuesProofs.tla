--------------------------- MODULE OksValuesProofs ---------------------------
(***************************************************************************)
(* The values of an attribute for any types, ranges, initial values and    *)
(* objects: whatever is set, changed, saved and loaded, they are of the    *)
(* attribute's type, and those of an enumeration among its values.         *)
(*                                                                         *)
(* The second half is about the places of the values, OksLayout: whatever  *)
(* is added, removed, swapped, renamed and retyped in a class and its base *)
(* class, each place has the value of its attribute.                       *)
(***************************************************************************)
EXTENDS OksValues, OksLayout, SequenceTheorems, FiniteSetTheorems, WellFoundedInduction, TLAPS

IsSequence(s) == s \in Seq(Range(s))
IsData(d) == d = [list |-> d.list, items |-> d.items] /\ IsSequence(d.items)
IsAttribute(a) ==
    /\ a = [type |-> a.type, multi |-> a.multi, range |-> a.range, init |-> a.init,
            format |-> a.format, limits |-> a.limits, enums |-> a.enums]
    /\ a.type \in Type /\ a.multi \in BOOLEAN

\* The values of an enumeration include the one that stands for none.
Enumerated(a) == a.type = "enum" => IsSequence(a.enums) /\ a.enums # <<>>

\* A value in range is one of the enumeration.
Limited(a) ==
    /\ a.limits # {}
    /\ \A l \in a.limits : l # "nothing" /\ l[1] = l[2] /\ l[1][1] = "enum" => l[1][2] \in Range(a.enums)

\* Data of an attribute.
Fitting(d, a) ==
    /\ IsData(d) /\ d.list = a.multi
    /\ ~a.multi => Len(d.items) = 1
    /\ \A i \in Range(d.items) : i[1] = a.type /\ (i[1] = "enum" => i[2] \in Range(a.enums))

\* What an enumeration keeps of its range and initial value.
EnumKept(a) ==
    a.type = "enum" =>
        /\ a.range # <<>> /\ a.enums = Enumerators(a.range)
        /\ Limited(a) /\ Accepts(a.init, a)

\* An element of the data file has as many texts as it says.
IsElement(e) == e.list \in BOOLEAN /\ IsSequence(e.texts) /\ (~e.list => Len(e.texts) = 1)

AttributeOK == IsAttribute(attr) /\ attr.type \in setup.types /\ attr.range \in setup.ranges
Careful == careless \subseteq {"hexadecimal"}

\* The inductive invariant.
ValuesInv ==
    /\ setup \in Setups /\ AttributeOK
    /\ Careful =>
        /\ EnumKept(attr)
        /\ \A o \in There : Fitting(data[o], attr)
        /\ \A o \in DOMAIN file : file[o] # <<>> => IsElement(Head(file[o]))

-----------------------------------------------------------------------------
(* Sequences *)

\* A sequence of as many elements as another.
LEMMA Mapped ==
    ASSUME NEW s, IsSequence(s), NEW t, t = [i \in DOMAIN s |-> t[i]]
    PROVE  /\ IsSequence(t) /\ Len(t) = Len(s) /\ DOMAIN t = 1 .. Len(t)
           /\ DOMAIN s = 1 .. Len(s) /\ Len(s) \in Nat
<1> DEFINE R == Range(t)
<1>1. Len(s) \in Nat /\ DOMAIN s = 1 .. Len(s)
  BY LenProperties DEF IsSequence
<1>2. DOMAIN t = 1 .. Len(s)
  BY <1>1
<1>3. \A i \in 1 .. Len(s) : t[i] \in R
  BY <1>2 DEF Range
<1>4. t = [i \in 1 .. Len(s) |-> t[i]]
  BY <1>1
<1> HIDE DEF R
<1>5. t \in Seq(R) /\ Len(t) = Len(s)
  BY <1>1, <1>3, <1>4
<1> QED BY <1>1, <1>2, <1>5 DEF R, IsSequence

\* One item is a sequence.
LEMMA One ==
    ASSUME NEW x
    PROVE  IsSequence(<<x>>) /\ Len(<<x>>) = 1 /\ Range(<<x>>) = {x}
BY DEF IsSequence, Range

\* The elements of a sequence.
LEMMA Elements ==
    ASSUME NEW s, IsSequence(s)
    PROVE  /\ Len(s) \in Nat /\ DOMAIN s = 1 .. Len(s)
           /\ s # <<>> => 1 \in DOMAIN s /\ s[1] \in Range(s) /\ Head(s) = s[1]
           /\ s = [i \in DOMAIN s |-> s[i]]
           /\ \A i \in DOMAIN s : s[i] \in Range(s)
<1>1. Len(s) \in Nat /\ DOMAIN s = 1 .. Len(s) /\ s = [i \in DOMAIN s |-> s[i]]
  BY LenProperties DEF IsSequence
<1>2. \A i \in DOMAIN s : s[i] \in Range(s)
  BY DEF Range
<1>3. s # <<>> => 1 \in DOMAIN s /\ Head(s) = s[1]
  BY <1>1 DEF IsSequence
<1> QED BY <1>1, <1>2, <1>3

\* The empty sequence.
LEMMA NoneOf == IsSequence(<<>>) /\ Len(<<>>) = 0 /\ Range(<<>>) = {}
BY DEF IsSequence, Range

-----------------------------------------------------------------------------
(* Values, conversion and initial data *)

\* The value of an accepted text is one of the enumeration.
LEMMA ItemFits ==
    ASSUME NEW a, Enumerated(a), NEW x, Accepts(x, a)
    PROVE  Item(x, a)[1] = a.type /\ (Item(x, a)[1] = "enum" => Item(x, a)[2] \in Range(a.enums))
<1>1. Item(x, a)[1] = a.type /\ Item(x, a)[2] = Value(x, a)
  BY DEF Item
<1>2. ASSUME a.type = "enum"
      PROVE  Value(x, a) \in Range(a.enums)
  <2>1. a.type \notin Integer /\ a.type # "bool" /\ a.type # "string" /\ ~IsNumber(a.type)
    BY <1>2 DEF Integer, Bytes, IsNumber
  <2>2. CASE x = Empty
    <3>1. Value(x, a) = Null(a)
      BY <2>1, <2>2 DEF Value
    <3>2. Null(a) = a.enums[1]
      BY <1>2, <2>1 DEF Null, Enumerated
    <3> QED BY <1>2, <3>1, <3>2, Elements DEF Enumerated
  <2>3. CASE x # Empty
    <3>1. Value(x, a) = x
      BY <2>1, <2>3 DEF Value
    <3> QED BY <1>2, <2>3, <3>1 DEF Accepts
  <2> QED BY <2>2, <2>3
<1> QED BY <1>1, <1>2

\* cvt makes data of the attribute.
LEMMA CvtFits ==
    ASSUME NEW d, IsSequence(d.items), NEW a, Enumerated(a), a.multi \in BOOLEAN, Converts(d, a)
    PROVE  Fitting(Cvt(d, a), a)
<1> DEFINE p == [i \in DOMAIN d.items |-> Str(d.items[i])]
           s == Texts(d, a)
           q == [i \in DOMAIN s |-> Item(s[i], a)]
<1>1. IsSequence(p)
  <2>1. p = [i \in DOMAIN d.items |-> p[i]]
    OBVIOUS
  <2> HIDE DEF p
  <2> QED BY <2>1, Mapped
<1>2. IsSequence(s) /\ (~a.multi => Len(s) = 1)
  BY <1>1, One DEF Texts
<1>3. \A x \in Range(s) : Accepts(x, a)
  BY DEF Converts
<1>4. Cvt(d, a) = [list |-> a.multi, items |-> q]
  BY DEF Cvt
<1> HIDE DEF p, s
<1>5. q = [i \in DOMAIN s |-> q[i]] /\ DOMAIN q = DOMAIN s
  OBVIOUS
<1>6. \A i \in Range(q) : i[1] = a.type /\ (i[1] = "enum" => i[2] \in Range(a.enums))
  <2>1. \A i \in DOMAIN s : q[i] = Item(s[i], a) /\ s[i] \in Range(s)
    BY DEF Range
  <2>2. \A i \in DOMAIN s : q[i][1] = a.type /\ (q[i][1] = "enum" => q[i][2] \in Range(a.enums))
    BY <1>3, <2>1, ItemFits
  <2> HIDE DEF q
  <2> QED BY <1>5, <2>2 DEF Range
<1> HIDE DEF q
<1>7. IsSequence(q) /\ Len(q) = Len(s)
  BY <1>2, <1>5, Mapped
<1>8. ~a.multi => Len(q) = 1
  BY <1>2, <1>7
<1>9. Fitting([list |-> a.multi, items |-> q], a)
  BY <1>6, <1>7, <1>8 DEF Fitting, IsData
<1> QED BY <1>4, <1>9, Zenon

\* The initial data are of the attribute when its initial value is accepted.
LEMMA InitFits ==
    ASSUME NEW a, Enumerated(a), a.multi \in BOOLEAN, Accepts(a.init, a)
    PROVE  Fitting(InitData(a), a)
<1>1. CASE a.multi /\ a.init = Empty
  BY <1>1, NoneOf DEF InitData, List, Fitting, IsData
<1>2. CASE ~(a.multi /\ a.init = Empty)
  <2>1. InitData(a) = [list |-> a.multi, items |-> <<Item(a.init, a)>>]
    BY <1>2 DEF InitData
  <2> DEFINE x == Item(a.init, a)
  <2>2. x[1] = a.type /\ (x[1] = "enum" => x[2] \in Range(a.enums))
    BY ItemFits
  <2> HIDE DEF x
  <2>3. InitData(a) = [list |-> a.multi, items |-> <<x>>]
    BY <2>1 DEF x
  <2> QED BY <2>2, <2>3, One DEF Fitting, IsData
<1> QED BY <1>1, <1>2

\* Read gives data of the attribute from what was written for any type.
LEMMA ReadFits ==
    ASSUME NEW s, NEW a, Enumerated(a), a.multi \in BOOLEAN, Accepts(a.init, a),
           s # <<>> => IsElement(Head(s)), Read(s, a) # <<>>
    PROVE  Fitting(Head(Read(s, a)), a)
<1>1. CASE s = <<>>
  <2>1. Read(s, a) = <<InitData(a)>>
    BY <1>1 DEF Read
  <2> QED BY <2>1, InitFits
<1>2. CASE s # <<>>
  <2> DEFINE e == Head(s)
             own == e.type = a.type /\ e.list = a.multi
             t == IF ~own /\ e.type = "enum" THEN "string" ELSE e.type
             d == AsWritten(e, t)
             q == [i \in DOMAIN e.texts |-> ReadItem(e.texts[i], t)]
  <2>1. \/ own /\ (\A x \in Range(e.texts) : t = "enum" => x \in Range(a.enums)) /\ Head(Read(s, a)) = d
        \/ Converts(d, a) /\ Head(Read(s, a)) = Cvt(d, a)
    <3>1. Read(s, a) # <<>> /\ s # <<>>
      BY <1>2
    <3> QED BY <3>1 DEF Read, Loads
  <2>2. d = [list |-> e.list, items |-> q]
    BY DEF AsWritten
  <2>3. \A i \in DOMAIN e.texts : q[i][1] = t /\ (t = "enum" => q[i][2] = e.texts[i])
    BY DEF ReadItem, Integer, Bytes
  <2>4. q = [i \in DOMAIN e.texts |-> q[i]] /\ DOMAIN q = DOMAIN e.texts
    OBVIOUS
  <2>5. IsElement(e)
    BY <1>2
  <2> HIDE DEF q, e
  <2>6. IsSequence(q) /\ Len(q) = Len(e.texts)
    BY <2>4, <2>5, Mapped DEF IsElement
  <2>7. IsSequence(d.items)
    BY <2>2, <2>6
  <2>8. ASSUME own, \A x \in Range(e.texts) : t = "enum" => x \in Range(a.enums)
        PROVE  Fitting(d, a)
    <3>1. t = a.type /\ e.list = a.multi
      BY <2>8
    <3>2. \A i \in DOMAIN e.texts : e.texts[i] \in Range(e.texts)
      BY DEF Range
    <3>3. \A i \in DOMAIN q : q[i][1] = a.type /\ (q[i][1] = "enum" => q[i][2] \in Range(a.enums))
      BY <2>3, <2>4, <2>8, <3>1, <3>2
    <3>4. \A i \in Range(q) : i[1] = a.type /\ (i[1] = "enum" => i[2] \in Range(a.enums))
      BY <3>3 DEF Range
    <3> HIDE DEF t, d
    <3> QED BY <2>2, <2>5, <2>6, <3>1, <3>4 DEF Fitting, IsData, IsElement
  <2> HIDE DEF d, t
  <2> QED BY <2>1, <2>7, <2>8, CvtFits
<1> QED BY <1>1, <1>2

-----------------------------------------------------------------------------
(* Ranges and attributes *)

\* The texts of a range are its enumerators.
LEMMA EnumeratorsParts ==
    ASSUME NEW u \in Setups, NEW r \in u.ranges
    PROVE  /\ r # <<>> => IsSequence(Enumerators(r)) /\ Enumerators(r) # <<>>
           /\ Gone \notin Range(Enumerators(r))
           /\ \A t \in Range(r) : t[1] \in Range(Enumerators(r))
           /\ "enum" \in u.types => \A t \in Range(r) : t[1] # Star
<1> DEFINE e == Enumerators(r)
<1>1. IsSequence(r) /\ (\A t \in Range(r) : t[1] # Gone)
      /\ ("enum" \in u.types => \A t \in Range(r) : t[1] # Star)
  BY ValuesAssumption DEF IsSequence
<1>2. e = [i \in DOMAIN r |-> e[i]] /\ \A i \in DOMAIN r : e[i] = r[i][1]
  BY DEF Enumerators
<1>3. \A i \in DOMAIN r : r[i] \in Range(r)
  BY DEF Range
<1> HIDE DEF e
<1>4. IsSequence(e) /\ Len(e) = Len(r) /\ DOMAIN e = DOMAIN r
  BY <1>1, <1>2, Mapped
<1>5. r # <<>> => e # <<>>
  BY <1>1, <1>2, <1>4, Elements, NoneOf
<1>6. Gone \notin Range(e) /\ \A t \in Range(r) : t[1] \in Range(e)
  BY <1>1, <1>2, <1>3, <1>4 DEF Range
<1> QED BY <1>1, <1>4, <1>5, <1>6 DEF e

\* Without an open interval the limits of an enumeration are its values.
LEMMA LimitsParts ==
    ASSUME NEW u \in Setups, "enum" \in u.types, NEW a, a.type = "enum",
           a.range \in u.ranges, a.range # <<>>, a.enums = Enumerators(a.range)
    PROVE  /\ Limits(a) # {}
           /\ \A l \in Limits(a) : l[1] = l[2] /\ l[1][1] = "enum" => l[1][2] \in Range(a.enums)
<1> DEFINE bound(x) == IF x = Star THEN Star ELSE Item(x, a)
           r == a.range
<1>1. /\ IsSequence(a.enums) /\ a.enums # <<>>
      /\ \A t \in Range(r) : t[1] \in Range(a.enums) /\ t[1] # Star
  BY EnumeratorsParts
<1>2. IsSequence(r) /\ r # <<>>
  BY ValuesAssumption DEF IsSequence
<1>3. r[1] \in Range(r)
  BY <1>2, Elements
<1>4. Limits(a) = {<<bound(t[1]), bound(t[2])>> : t \in Range(r)}
  BY <1>1 DEF Limits
<1>5. Limits(a) # {}
  BY <1>3, <1>4
<1>6. ASSUME NEW l \in Limits(a), l[1] = l[2], l[1][1] = "enum"
      PROVE  l[1][2] \in Range(a.enums)
  <2>1. PICK t \in Range(r) : l = <<bound(t[1]), bound(t[2])>>
    BY <1>4
  <2>2. l[1] = Item(t[1], a)
    BY <1>1, <2>1
  <2>3. Accepts(t[1], a) /\ Enumerated(a)
    BY <1>1 DEF Accepts, Enumerated
  <2>4. Item(t[1], a)[1] = "enum" => Item(t[1], a)[2] \in Range(a.enums)
    BY <2>3, ItemFits
  <2> QED BY <1>6, <2>2, <2>4
<1> QED BY <1>5, <1>6

\* init_enum and init_range compute enumerators and limits only.
LEMMA InitialisedParts ==
    ASSUME NEW a, IsAttribute(a)
    PROVE  LET b == Initialised(a)
           IN  /\ IsAttribute(b)
               /\ b.type = a.type /\ b.multi = a.multi /\ b.range = a.range /\ b.init = a.init
               /\ a.type = "enum" => b.enums = Enumerators(a.range)
<1> DEFINE b == [a EXCEPT !.enums = IF a.type = "enum" THEN Enumerators(a.range) ELSE @]
           L == Limits(b)
<1>1. Initialised(a) = [b EXCEPT !.limits = L]
  BY DEF Initialised
<1> HIDE DEF L
<1> QED BY <1>1 DEF IsAttribute

\* An enumeration that has values and accepts its initial one.
LEMMA EnumMade ==
    ASSUME NEW u \in Setups, NEW a, IsAttribute(a), a.type \in u.types, a.range \in u.ranges,
           a.type = "enum" => a.range # <<>> /\ Accepts(a.init, Initialised(a))
    PROVE  EnumKept(Initialised(a))
<1> DEFINE b == [a EXCEPT !.enums = IF a.type = "enum" THEN Enumerators(a.range) ELSE @]
           i == Initialised(a)
<1> SUFFICES ASSUME a.type = "enum"
             PROVE  EnumKept(i)
  BY InitialisedParts DEF EnumKept
<1>1. i.limits = Limits(b) /\ i.enums = b.enums
  BY DEF Initialised, IsAttribute
<1>2. b.type = "enum" /\ b.range = a.range /\ b.enums = Enumerators(a.range)
  BY DEF IsAttribute
<1>3. i.type = "enum" /\ i.range = a.range /\ i.init = a.init /\ i.enums = Enumerators(i.range)
  BY InitialisedParts
<1> HIDE DEF b, i
<1>4. /\ Limits(b) # {}
      /\ \A l \in Limits(b) : l[1] = l[2] /\ l[1][1] = "enum" => l[1][2] \in Range(b.enums)
  BY <1>2, LimitsParts
<1>5. Limited(i)
  BY <1>1, <1>4 DEF Limited
<1> QED BY <1>3, <1>5 DEF EnumKept, i

\* What the invariant says of the enumerators.
LEMMA EnumKnown ==
    ASSUME NEW u \in Setups, NEW a, a.range \in u.ranges, EnumKept(a)
    PROVE  Enumerated(a) /\ (a.type = "enum" => Gone \notin Range(a.enums)) /\ Accepts(a.init, a)
<1>1. a.type # "enum" => Accepts(a.init, a)
  BY DEF Accepts
<1> QED BY <1>1, EnumeratorsParts DEF EnumKept, Enumerated

\* A change of init, multi or format leaves an enumeration as it is.
LEMMA EnumSame ==
    ASSUME NEW a, NEW b, EnumKept(a), b.type = a.type, b.range = a.range, b.enums = a.enums,
           b.limits = a.limits, Accepts(b.init, b)
    PROVE  EnumKept(b)
BY DEF EnumKept, Limited

\* Data that fit an attribute fit one of the same type and enumerators.
LEMMA FittingSame ==
    ASSUME NEW d, NEW a, NEW b, Fitting(d, a), b.type = a.type, b.multi = a.multi,
           a.type = "enum" => b.enums = a.enums
    PROVE  Fitting(d, b)
BY DEF Fitting

-----------------------------------------------------------------------------
(* The inductive invariant *)

\* At first there are no objects and the attribute is no enumeration.
LEMMA InitInv == Init => ValuesInv
<1> SUFFICES ASSUME Init PROVE ValuesInv
  OBVIOUS
<1>1. PICK t \in setup.types \ {"enum"}, m \in setup.multi : attr = Attribute(t, m)
  BY DEF Init
<1> DEFINE a == [type |-> t, multi |-> m, range |-> <<>>, init |-> Empty, format |-> "dec",
                 limits |-> {}, enums |-> <<>>]
<1>2. setup \in Setups /\ t \in Type /\ m \in BOOLEAN /\ <<>> \in setup.ranges
  BY ValuesAssumption DEF Init
<1>3. IsAttribute(a) /\ a.type = t /\ a.range = <<>>
  BY <1>2 DEF IsAttribute
<1>4. attr = Initialised(a)
  BY <1>1 DEF Attribute
<1> HIDE DEF a
<1>5. IsAttribute(attr) /\ attr.type = t /\ attr.range = <<>>
  BY <1>3, <1>4, InitialisedParts
<1>6. There = {} /\ DOMAIN file = {}
  BY DEF Init, There
<1> QED BY <1>2, <1>5, <1>6 DEF ValuesInv, AttributeOK, EnumKept

\* What each step has to show.
LEMMA Preserved ==
    ASSUME ValuesInv, setup' = setup, AttributeOK',
           Careful => /\ EnumKept(attr)'
                      /\ \A o \in There' : Fitting(data'[o], attr')
                      /\ \A o \in DOMAIN file' : file'[o] # <<>> => IsElement(Head(file'[o]))
    PROVE  ValuesInv'
<1>1. Careful' <=> Careful
  BY DEF Careful, careless
<1>2. There' = DOMAIN data'
  BY DEF There
<1> QED BY <1>1, <1>2 DEF ValuesInv

\* What the invariant gives each step.
LEMMA Given ==
    ASSUME ValuesInv
    PROVE  /\ setup \in Setups /\ IsAttribute(attr) /\ attr.type \in setup.types
           /\ attr.range \in setup.ranges /\ attr.multi \in BOOLEAN /\ attr.type \in Type
           /\ Careful => /\ Enumerated(attr) /\ Accepts(attr.init, attr)
                         /\ attr.type = "enum" => Gone \notin Range(attr.enums)
<1>1. setup \in Setups /\ IsAttribute(attr) /\ attr.type \in setup.types
      /\ attr.range \in setup.ranges /\ attr.multi \in BOOLEAN /\ attr.type \in Type
  BY DEF ValuesInv, AttributeOK, IsAttribute
<1>2. Careful => EnumKept(attr)
  BY DEF ValuesInv
<1> QED BY <1>1, <1>2, EnumKnown
\* The values of an enumeration that is given a new range stay what they are
\* only if they are among the new values.
LEMMA MovedFits ==
    ASSUME NEW d, NEW a, Fitting(d, a), a.type = "enum", Gone \notin Range(a.enums),
           NEW new, NEW room \in BOOLEAN, MoveEnums(d, a.enums, new, room) = d
    PROVE  \A i \in Range(d.items) : i[2] \in Range(new)
<1> DEFINE it == d.items
           moved(i) == IF it[i][1] = "enum" THEN <<"enum", Overwritten(it[i][2], a.enums, new, room)>>
                       ELSE it[i]
<1>1. d = [list |-> d.list, items |-> it]
  BY DEF Fitting, IsData
<1>2. MoveEnums(d, a.enums, new, room) = [list |-> d.list, items |-> [i \in DOMAIN it |-> moved(i)]]
  BY <1>1 DEF MoveEnums
<1>3. it = [i \in DOMAIN it |-> moved(i)]
  <2> HIDE DEF it, moved
  <2> QED BY <1>1, <1>2
<1>4. SUFFICES ASSUME NEW i \in DOMAIN it
               PROVE  it[i][2] \in Range(new)
  BY DEF Range
<1>5. it[i] \in Range(it)
  BY DEF Range
<1>6. it[i][1] = "enum" /\ it[i][2] \in Range(a.enums)
  BY <1>5 DEF Fitting
<1> DEFINE x == it[i][2]
<1>7. x = Overwritten(x, a.enums, new, room)
  <2>1. it[i] = moved(i)
    BY <1>3
  <2> QED BY <1>6, <2>1
<1> HIDE DEF it
<1>8. x # Gone
  BY <1>6
<1> HIDE DEF x
<1>9. Place(x, a.enums) \in DOMAIN new /\ x = new[Place(x, a.enums)]
  BY <1>7, <1>8 DEF Overwritten
<1> QED BY <1>9 DEF Range, x

LEMMA SetRangeInv ==
    ASSUME ValuesInv, NEW r \in setup.ranges, SetRange(r)
    PROVE  ValuesInv'
<1> DEFINE b == [attr EXCEPT !.range = r]
           a == Initialised(b)
           refused == (a.type = "enum" /\ r = <<>>) \/ ~InitValid(a)
           moved(d, room) ==
               IF attr.type # "enum" THEN d
               ELSE IF ~refused THEN MoveEnums(d, attr.enums, a.enums, room)
               ELSE IF Len(a.enums) > Len(attr.enums) /\ ~room
                 THEN MoveEnums(d, attr.enums, a.enums, room) ELSE d
<1>1. setup' = setup /\ file' = file
  BY DEF SetRange
<1>2. /\ setup \in Setups /\ IsAttribute(attr) /\ attr.type \in setup.types
      /\ attr.range \in setup.ranges /\ attr.multi \in BOOLEAN
      /\ Careful => Accepts(attr.init, attr) /\ (attr.type = "enum" => Gone \notin Range(attr.enums))
  BY Given
<1>3. Careful => EnumKept(attr) /\ (\A o \in There : Fitting(data[o], attr))
      /\ \A o \in DOMAIN file : file[o] # <<>> => IsElement(Head(file[o]))
  BY DEF ValuesInv
<1>4. IsAttribute(b) /\ b.type = attr.type /\ b.multi = attr.multi /\ b.range = r /\ b.init = attr.init
  BY <1>2 DEF IsAttribute
<1>5. IsAttribute(a) /\ a.type = attr.type /\ a.multi = attr.multi /\ a.range = r /\ a.init = attr.init
      /\ (a.type = "enum" => a.enums = Enumerators(r))
  <2> HIDE DEF b
  <2> QED BY <1>4, InitialisedParts
<1>6. CASE attr.type = "bool" /\ r # <<>>
  <2>1. attr' = [attr EXCEPT !.range = <<>>] /\ data' = data
    BY <1>6 DEF SetRange
  <2>2. /\ IsAttribute(attr') /\ attr'.type = attr.type /\ attr'.multi = attr.multi
        /\ attr'.range = <<>> /\ attr'.type # "enum"
    BY <1>2, <1>6, <2>1 DEF IsAttribute
  <2>3. <<>> \in setup.ranges
    BY <1>2, ValuesAssumption
  <2>4. AttributeOK'
    BY <1>1, <1>2, <2>2, <2>3 DEF AttributeOK
  <2>5. EnumKept(attr)'
    BY <2>2 DEF EnumKept
  <2>6. Careful => \A o \in There' : Fitting(data'[o], attr')
    BY <1>3, <2>1, <2>2, FittingSame DEF There
  <2> QED BY <1>1, <1>3, <2>4, <2>5, <2>6, Preserved
<1>7. CASE ~(attr.type = "bool" /\ r # <<>>)
  <2>1. PICK room \in BOOLEAN :
            /\ attr' = IF refused THEN Initialised(attr) ELSE a
            /\ data' = [o \in There |-> moved(data[o], room)]
            /\ "enumerators" \in careless \/ data' = data
    BY <1>7 DEF SetRange
  <2>2. /\ IsAttribute(attr') /\ attr'.type = attr.type /\ attr'.multi = attr.multi
        /\ attr'.range \in setup.ranges
    <3> HIDE DEF a, refused
    <3> QED BY <1>2, <1>5, <2>1, InitialisedParts
  <2>3. AttributeOK'
    BY <1>1, <1>2, <2>2 DEF AttributeOK
  <2>4. ASSUME Careful
        PROVE  EnumKept(attr')
    <3>1. CASE refused
      <4>1. attr' = Initialised(attr) /\ EnumKept(attr) /\ Accepts(attr.init, attr)
        BY <1>2, <1>3, <2>1, <2>4, <3>1
      <4>2. attr.type = "enum" => attr.range # <<>> /\ Accepts(attr.init, Initialised(attr))
        <5>1. attr.type = "enum" => Initialised(attr).enums = attr.enums
                  /\ Initialised(attr).type = attr.type /\ attr.range # <<>>
          BY <1>2, <4>1, InitialisedParts DEF EnumKept
        <5> QED BY <4>1, <5>1 DEF Accepts
      <4> QED BY <1>2, <4>1, <4>2, EnumMade
    <3>2. CASE ~refused
      <4>1. attr' = Initialised(b)
        BY <2>1, <3>2
      <4>2. b.type = "enum" => b.range # <<>> /\ Accepts(b.init, Initialised(b))
        <5>1. b.type = "enum" => r # <<>> /\ InitValid(a)
          BY <1>4, <1>5, <3>2
        <5> HIDE DEF b
        <5> QED BY <1>4, <1>5, <5>1 DEF InitValid
      <4> HIDE DEF b, a, refused
      <4> QED BY <1>2, <1>4, <4>1, <4>2, EnumMade
    <3> QED BY <3>1, <3>2
  <2>5. ASSUME Careful
        PROVE  \A o \in There' : Fitting(data'[o], attr')
    <3>1. data' = data /\ There' = There
      BY <2>1, <2>5 DEF Careful, There
    <3>2. SUFFICES ASSUME NEW o \in There
                   PROVE  Fitting(data[o], attr')
      BY <3>1
    <3>3. Fitting(data[o], attr)
      BY <1>3, <2>5
    <3>4. CASE attr.type # "enum"
      <4> HIDE DEF a, refused
      <4> QED BY <2>2, <3>3, <3>4, FittingSame
    <3>5. CASE attr.type = "enum" /\ refused
      <4>1. attr'.enums = attr.enums
        <5>1. attr.enums = Enumerators(attr.range)
          BY <1>3, <2>5, <3>5 DEF EnumKept
        <5>2. attr' = Initialised(attr)
          BY <2>1, <3>5
        <5> QED BY <1>2, <3>5, <5>1, <5>2, InitialisedParts
      <4> HIDE DEF a, refused
      <4> QED BY <2>2, <3>3, <4>1, FittingSame
    <3>6. CASE attr.type = "enum" /\ ~refused
      <4>1. attr' = a
        BY <2>1, <3>6
      <4>2. data[o] = moved(data[o], room)
        <5> HIDE DEF moved
        <5> QED BY <2>1, <3>1
      <4>3. MoveEnums(data[o], attr.enums, a.enums, room) = data[o]
        BY <3>6, <4>2
      <4> HIDE DEF a, refused
      <4>4. \A i \in Range(data[o].items) : i[2] \in Range(a.enums)
        BY <1>2, <2>5, <3>3, <3>6, <4>3, MovedFits
      <4> QED BY <2>2, <3>3, <4>1, <4>4 DEF Fitting
    <3> QED BY <3>4, <3>5, <3>6
  <2> HIDE DEF a, refused, moved
  <2> QED BY <1>1, <1>3, <2>3, <2>4, <2>5, Preserved
<1> QED BY <1>6, <1>7

\* A change that does not stop half way converts every value.
LEMMA Converted ==
    ASSUME NEW a, Enumerated(a), a.multi \in BOOLEAN, ConvertValues(a),
           "noConversion" \notin careless, \A o \in There : IsSequence(data[o].items)
    PROVE  \A o \in There' : Fitting(data'[o], a)
<1> DEFINE failing == {o \in There : ~Converts(data[o], a)}
<1>1. PICK left \in IF failing = {} THEN {{}} ELSE {S \in SUBSET There : S \cap failing # {}} :
          /\ left = {} \/ "noConversion" \in careless
          /\ \A o \in There \ left : o \notin failing
          /\ data' = [o \in There |-> IF o \in left THEN data[o] ELSE Cvt(data[o], a)]
  BY DEF ConvertValues
<1>2. \A o \in There : Converts(data[o], a) /\ data'[o] = Cvt(data[o], a)
  BY <1>1
<1>3. There' = There
  BY <1>1 DEF There
<1> QED BY <1>2, <1>3, CvtFits

LEMMA SetTypeInv ==
    ASSUME ValuesInv, NEW t \in setup.types, SetType(t)
    PROVE  ValuesInv'
<1> DEFINE b == [attr EXCEPT !.type = t]
           a == Initialised(b)
           refused == t = "enum" /\ attr.range = <<>>
<1>1. setup' = setup /\ file' = file
  BY DEF SetType
<1>2. /\ setup \in Setups /\ IsAttribute(attr) /\ attr.range \in setup.ranges /\ attr.multi \in BOOLEAN
  BY Given
<1>3. Careful => (\A o \in There : Fitting(data[o], attr))
      /\ \A o \in DOMAIN file : file[o] # <<>> => IsElement(Head(file[o]))
  BY DEF ValuesInv
<1>4. t \in Type
  BY <1>2, ValuesAssumption
<1>5. IsAttribute(b) /\ b.type = t /\ b.multi = attr.multi /\ b.range = attr.range /\ b.init = attr.init
  BY <1>2, <1>4 DEF IsAttribute
<1>6. CASE refused
  <2>1. attr' = [attr EXCEPT !.type = t, !.enums = <<>>] /\ "noConversion" \in careless
    BY <1>6 DEF SetType
  <2>2. IsAttribute(attr') /\ attr'.type = t /\ attr'.range = attr.range
    BY <1>2, <1>4, <2>1 DEF IsAttribute
  <2> QED BY <1>1, <1>2, <2>1, <2>2, Preserved DEF AttributeOK, Careful
<1>7. CASE ~refused
  <2>1. attr' = a /\ ConvertValues(a) /\ ("narrow" \in careless \/ Fits(a))
    BY <1>7 DEF SetType
  <2>2. IsAttribute(a) /\ a.type = t /\ a.multi = attr.multi /\ a.range = attr.range /\ a.init = attr.init
    <3> HIDE DEF b
    <3> QED BY <1>5, InitialisedParts
  <2>3. AttributeOK'
    <3> HIDE DEF a
    <3> QED BY <1>1, <1>2, <2>1, <2>2 DEF AttributeOK
  <2>4. ASSUME Careful
        PROVE  EnumKept(a) /\ Enumerated(a)
    <3>1. InitValid(a)
      BY <2>1, <2>4 DEF Fits, Careful
    <3>2. b.type = "enum" => b.range # <<>> /\ Accepts(b.init, a)
      <4> HIDE DEF a, b
      <4> QED BY <1>5, <1>7, <2>2, <3>1 DEF InitValid
    <3> HIDE DEF b
    <3>3. EnumKept(a)
      BY <1>2, <1>5, <3>2, EnumMade
    <3> HIDE DEF a
    <3> QED BY <1>2, <2>2, <3>3, EnumKnown
  <2>5. ASSUME Careful
        PROVE  \A o \in There' : Fitting(data'[o], a)
    <3>1. "noConversion" \notin careless /\ \A o \in There : IsSequence(data[o].items)
      BY <1>3, <2>5 DEF Careful, Fitting, IsData
    <3> HIDE DEF a
    <3> QED BY <1>2, <2>1, <2>2, <2>4, <2>5, <3>1, Converted
  <2> HIDE DEF a, refused
  <2> QED BY <1>1, <1>3, <2>1, <2>3, <2>4, <2>5, Preserved
<1> QED BY <1>6, <1>7

LEMMA SetIsMultiValuesInv ==
    ASSUME ValuesInv, NEW m \in setup.multi, SetIsMultiValues(m)
    PROVE  ValuesInv'
<1> DEFINE a == [attr EXCEPT !.multi = m]
<1>1. setup' = setup /\ file' = file /\ attr' = a /\ ConvertValues(a)
  BY DEF SetIsMultiValues
<1>2. /\ setup \in Setups /\ IsAttribute(attr) /\ attr.type \in setup.types /\ attr.range \in setup.ranges
      /\ Careful => Enumerated(attr) /\ Accepts(attr.init, attr)
  BY Given
<1>3. Careful => EnumKept(attr) /\ (\A o \in There : Fitting(data[o], attr))
      /\ \A o \in DOMAIN file : file[o] # <<>> => IsElement(Head(file[o]))
  BY DEF ValuesInv
<1>4. m \in BOOLEAN
  BY <1>2, ValuesAssumption
<1>5. /\ IsAttribute(a) /\ a.type = attr.type /\ a.multi \in BOOLEAN /\ a.range = attr.range
      /\ a.init = attr.init /\ a.enums = attr.enums /\ a.limits = attr.limits
  BY <1>2, <1>4 DEF IsAttribute
<1> HIDE DEF a
<1>6. AttributeOK'
  BY <1>1, <1>2, <1>5 DEF AttributeOK
<1>7. ASSUME Careful
      PROVE  EnumKept(a) /\ Enumerated(a)
  <2>1. Accepts(a.init, a) /\ Enumerated(a)
    BY <1>2, <1>5, <1>7 DEF Accepts, Enumerated
  <2> QED BY <1>3, <1>5, <1>7, <2>1, EnumSame
<1>8. ASSUME Careful
      PROVE  \A o \in There' : Fitting(data'[o], a)
  <2>1. "noConversion" \notin careless /\ \A o \in There : IsSequence(data[o].items)
    BY <1>3, <1>8 DEF Careful, Fitting, IsData
  <2> QED BY <1>1, <1>5, <1>7, <1>8, <2>1, Converted
<1> QED BY <1>1, <1>3, <1>6, <1>7, <1>8, Preserved
LEMMA SetInitValueInv ==
    ASSUME ValuesInv, NEW x \in setup.inits, SetInitValue(x)
    PROVE  ValuesInv'
<1> DEFINE a == [attr EXCEPT !.init = x]
<1>1. setup' = setup /\ file' = file /\ data' = data /\ attr' = a /\ InitValid(a)
  BY DEF SetInitValue
<1>2. /\ setup \in Setups /\ IsAttribute(attr) /\ attr.type \in setup.types /\ attr.range \in setup.ranges
  BY Given
<1>3. Careful => EnumKept(attr) /\ (\A o \in There : Fitting(data[o], attr))
      /\ \A o \in DOMAIN file : file[o] # <<>> => IsElement(Head(file[o]))
  BY DEF ValuesInv
<1>4. /\ IsAttribute(a) /\ a.type = attr.type /\ a.multi = attr.multi /\ a.range = attr.range
      /\ a.enums = attr.enums /\ a.limits = attr.limits
  BY <1>2 DEF IsAttribute
<1> HIDE DEF a
<1>5. AttributeOK'
  BY <1>1, <1>2, <1>4 DEF AttributeOK
<1>6. Careful => EnumKept(a)
  <2>1. ASSUME Careful, a.type = "enum"
        PROVE  Accepts(a.init, a)
    BY <1>1, <1>3, <1>4, <2>1 DEF InitValid, EnumKept
  <2>2. a.type # "enum" => EnumKept(a)
    BY DEF EnumKept
  <2> QED BY <1>3, <1>4, <2>1, <2>2, EnumSame
<1>7. Careful => \A o \in There' : Fitting(data'[o], attr')
  BY <1>1, <1>3, <1>4, FittingSame DEF There
<1> QED BY <1>1, <1>3, <1>5, <1>6, <1>7, Preserved

LEMMA SetFormatInv ==
    ASSUME ValuesInv, NEW f \in setup.formats, SetFormat(f)
    PROVE  ValuesInv'
<1> DEFINE a == [attr EXCEPT !.format = f]
<1>1. setup' = setup /\ file' = file /\ data' = data /\ attr' = a
  BY DEF SetFormat
<1>2. /\ setup \in Setups /\ IsAttribute(attr) /\ attr.type \in setup.types /\ attr.range \in setup.ranges
      /\ Careful => Accepts(attr.init, attr)
  BY Given
<1>3. Careful => EnumKept(attr) /\ (\A o \in There : Fitting(data[o], attr))
      /\ \A o \in DOMAIN file : file[o] # <<>> => IsElement(Head(file[o]))
  BY DEF ValuesInv
<1>4. /\ IsAttribute(a) /\ a.type = attr.type /\ a.multi = attr.multi /\ a.range = attr.range
      /\ a.init = attr.init /\ a.enums = attr.enums /\ a.limits = attr.limits
  BY <1>2 DEF IsAttribute
<1> HIDE DEF a
<1>5. AttributeOK'
  BY <1>1, <1>2, <1>4 DEF AttributeOK
<1>6. Careful => EnumKept(a)
  <2>1. Careful => Accepts(a.init, a)
    BY <1>2, <1>4 DEF Accepts
  <2> QED BY <1>3, <1>4, <2>1, EnumSame
<1>7. Careful => \A o \in There' : Fitting(data'[o], attr')
  BY <1>1, <1>3, <1>4, FittingSame DEF There
<1> QED BY <1>1, <1>3, <1>5, <1>6, <1>7, Preserved

LEMMA CreateInv ==
    ASSUME ValuesInv, NEW o \in setup.objects, Create(o)
    PROVE  ValuesInv'
<1>1. /\ setup' = setup /\ file' = file /\ attr' = attr /\ ("stale" \in careless \/ Current)
      /\ data' = [p \in There \cup {o} |-> IF p = o THEN initData ELSE data[p]]
  BY DEF Create
<1>2. /\ attr.multi \in BOOLEAN
      /\ Careful => Enumerated(attr) /\ Accepts(attr.init, attr)
  BY Given
<1>3. Careful => EnumKept(attr) /\ (\A p \in There : Fitting(data[p], attr))
      /\ \A p \in DOMAIN file : file[p] # <<>> => IsElement(Head(file[p]))
  BY DEF ValuesInv
<1>4. Careful => Fitting(initData, attr)
  <2>1. ASSUME Careful
        PROVE  Fitting(initData, attr)
    <3>1. initData = InitData(attr)
      BY <1>1, <2>1 DEF Careful, Current
    <3> QED BY <1>2, <2>1, <3>1, InitFits
  <2> QED BY <2>1
<1>5. There' = There \cup {o} /\ \A p \in There' : data'[p] \in {initData} \cup {data[q] : q \in There}
  BY <1>1 DEF There
<1>6. Careful => \A p \in There' : Fitting(data'[p], attr')
  BY <1>1, <1>3, <1>4, <1>5
<1>7. AttributeOK'
  BY <1>1 DEF AttributeOK, ValuesInv
<1> QED BY <1>1, <1>3, <1>6, <1>7, Preserved

\* A value in the range of an enumeration is one of its values.
LEMMA InRangeFits ==
    ASSUME NEW a, Limited(a), NEW d, InRange(d, a), NEW i \in Range(d.items), i[1] = "enum"
    PROVE  i[2] \in Range(a.enums)
<1>1. PICK l \in a.limits : Within(i, l)
  BY DEF InRange, Limited
<1>2. l # "nothing" /\ l[1] = l[2] /\ i = l[1]
  BY <1>1 DEF Within, IsNumber, Integer, Bytes
<1> QED BY <1>2 DEF Limited

LEMMA SetAttributeValueInv ==
    ASSUME ValuesInv, NEW o \in There, NEW d \in Inputs, SetAttributeValue(o, d)
    PROVE  ValuesInv'
<1> DEFINE typeOf(x) == IF x.list THEN "list" ELSE x.items[1][1]
           convert == typeOf(d) # typeOf(data[o])
           new == IF convert THEN Cvt(d, attr) ELSE d
<1>1. /\ setup' = setup /\ file' = file /\ attr' = attr
      /\ d.list => \A i \in Range(d.items) : i[1] = attr.type
      /\ convert => Converts(d, attr)
      /\ InRange(new, attr)
      /\ data' = [data EXCEPT ![o] = new]
  BY DEF SetAttributeValue
<1>2. /\ attr.multi \in BOOLEAN /\ attr.type \in Type /\ setup \in Setups
      /\ Careful => Enumerated(attr)
  BY Given
<1>3. Careful => EnumKept(attr) /\ (\A p \in There : Fitting(data[p], attr))
      /\ \A p \in DOMAIN file : file[p] # <<>> => IsElement(Head(file[p]))
  BY DEF ValuesInv
<1>4. /\ d = [list |-> d.list, items |-> d.items] /\ IsSequence(d.items) /\ d.list \in BOOLEAN
      /\ ~d.list => Len(d.items) = 1 /\ Range(d.items) = {d.items[1]} /\ d.items[1][1] \in Type
  <2>1. CASE d \in {Single(i) : i \in setup.inputs}
    <3>1. PICK i \in setup.inputs : d = [list |-> FALSE, items |-> <<i>>]
      BY <2>1 DEF Single
    <3>2. i[1] \in Type
      BY <1>2, ValuesAssumption
    <3> QED BY <3>1, <3>2, One
  <2>2. CASE d \in {List(<<i, j>>) : i, j \in setup.inputs}
    <3>1. PICK i \in setup.inputs, j \in setup.inputs : d = [list |-> TRUE, items |-> <<i, j>>]
      BY <2>2 DEF List
    <3>2. IsSequence(<<i, j>>)
      BY DEF IsSequence, Range
    <3> QED BY <3>1, <3>2
  <2> QED BY <2>1, <2>2 DEF Inputs
<1>5. ASSUME Careful
      PROVE  Fitting(new, attr)
  <2>1. CASE convert
    BY <1>1, <1>2, <1>4, <1>5, <2>1, CvtFits
  <2>2. CASE ~convert
    <3>1. typeOf(data[o]) = IF attr.multi THEN "list" ELSE attr.type
      <4>1. Fitting(data[o], attr)
        BY <1>3, <1>5
      <4>2. ~attr.multi => data[o].items[1] \in Range(data[o].items)
        BY <4>1, Elements DEF Fitting, IsData
      <4> QED BY <4>1, <4>2 DEF Fitting
    <3>2. "list" \notin Type
      BY DEF Type, Integer, Bytes
    <3>3. d.list = attr.multi /\ \A i \in Range(d.items) : i[1] = attr.type
      <4>1. typeOf(d) = IF attr.multi THEN "list" ELSE attr.type
        BY <2>2, <3>1
      <4>2. CASE d.list
        BY <1>1, <1>2, <3>2, <4>1, <4>2
      <4>3. CASE ~d.list
        BY <1>2, <1>4, <3>2, <4>1, <4>3
      <4> QED BY <1>4, <4>2, <4>3
    <3>4. new = d
      BY <2>2
    <3>5. \A i \in Range(d.items) : i[1] = "enum" => i[2] \in Range(attr.enums)
      <4>1. ASSUME NEW i \in Range(d.items), i[1] = "enum"
            PROVE  i[2] \in Range(attr.enums)
        <5>1. Limited(attr)
          BY <1>3, <1>5, <3>3, <4>1 DEF EnumKept
        <5> QED BY <1>1, <3>4, <4>1, <5>1, InRangeFits
      <4> QED BY <4>1
    <3>6. IsData(d)
      BY <1>4 DEF IsData
    <3> HIDE DEF new
    <3> QED BY <1>4, <3>3, <3>4, <3>5, <3>6 DEF Fitting
  <2> QED BY <2>1, <2>2
<1> HIDE DEF new
<1>6. There' = There /\ \A p \in There : data'[p] = IF p = o THEN new ELSE data[p]
  BY <1>1 DEF There
<1>7. Careful => \A p \in There' : Fitting(data'[p], attr')
  BY <1>1, <1>3, <1>5, <1>6
<1>8. AttributeOK'
  BY <1>1 DEF AttributeOK, ValuesInv
<1> QED BY <1>1, <1>3, <1>7, <1>8, Preserved

LEMMA SaveInv ==
    ASSUME ValuesInv, NEW force \in BOOLEAN, Save(force)
    PROVE  ValuesInv'
<1>1. /\ setup' = setup /\ attr' = attr /\ data' = data
      /\ file' = [o \in There |-> Put(data[o], force, attr, initData)]
  BY DEF Save
<1>2. attr.multi \in BOOLEAN
  BY Given
<1>3. Careful => EnumKept(attr) /\ (\A p \in There : Fitting(data[p], attr))
  BY DEF ValuesInv
<1>4. ASSUME NEW d, Fitting(d, attr)
      PROVE  IsElement(Element(d, attr))
  <2> DEFINE t == [i \in DOMAIN d.items |-> Written(d.items[i], attr)]
  <2>1. Element(d, attr) = [type |-> attr.type, list |-> d.list, texts |-> t]
    BY DEF Element
  <2>2. t = [i \in DOMAIN d.items |-> t[i]]
    OBVIOUS
  <2> HIDE DEF t
  <2>3. IsSequence(t) /\ Len(t) = Len(d.items)
    BY <1>4, <2>2, Mapped DEF Fitting, IsData
  <2> QED BY <1>2, <1>4, <2>1, <2>3 DEF IsElement, Fitting
<1>5. \A o \in DOMAIN file' : file'[o] # <<>> => Head(file'[o]) = Element(data[o], attr)
  BY <1>1 DEF Put
<1>6. DOMAIN file' = There /\ There' = There
  BY <1>1 DEF There
<1>7. Careful => \A o \in DOMAIN file' : file'[o] # <<>> => IsElement(Head(file'[o]))
  BY <1>3, <1>4, <1>5, <1>6
<1>8. AttributeOK'
  BY <1>1 DEF AttributeOK, ValuesInv
<1> QED BY <1>1, <1>3, <1>6, <1>7, <1>8, Preserved

LEMMA RestartInv ==
    ASSUME ValuesInv, Restart
    PROVE  ValuesInv'
<1> DEFINE a == Initialised(attr)
<1>1. /\ setup' = setup /\ file' = file /\ attr' = a
      /\ InitValid(attr) /\ ~(attr.type = "enum" /\ attr.range = <<>>)
      /\ \A o \in DOMAIN file : Read(file[o], a) # <<>>
      /\ data' = [o \in DOMAIN file |-> Head(Read(file[o], a))]
  BY DEF Restart
<1>2. /\ setup \in Setups /\ IsAttribute(attr) /\ attr.type \in setup.types
      /\ attr.range \in setup.ranges /\ attr.multi \in BOOLEAN
  BY Given
<1>3. Careful => EnumKept(attr) /\ \A o \in DOMAIN file : file[o] # <<>> => IsElement(Head(file[o]))
  BY DEF ValuesInv
<1>4. /\ IsAttribute(a) /\ a.type = attr.type /\ a.multi = attr.multi /\ a.range = attr.range
      /\ a.init = attr.init /\ (a.type = "enum" => a.enums = Enumerators(attr.range))
  BY <1>2, InitialisedParts
<1>5. ASSUME Careful
      PROVE  EnumKept(a)
  <2>1. attr.type = "enum" => attr.range # <<>> /\ Accepts(attr.init, a)
    <3> HIDE DEF a
    <3> QED BY <1>3, <1>4, <1>5 DEF EnumKept, Accepts
  <2> QED BY <1>2, <2>1, EnumMade
<1> HIDE DEF a
<1>6. AttributeOK'
  BY <1>1, <1>2, <1>4 DEF AttributeOK
<1>7. ASSUME Careful
      PROVE  \A o \in There' : Fitting(data'[o], a)
  <2>1. Enumerated(a) /\ Accepts(a.init, a)
    BY <1>2, <1>4, <1>5, <1>7, EnumKnown
  <2>2. There' = DOMAIN file
    BY <1>1 DEF There
  <2>3. ASSUME NEW o \in DOMAIN file
        PROVE  Fitting(Head(Read(file[o], a)), a)
    <3>1. Read(file[o], a) # <<>> /\ (file[o] # <<>> => IsElement(Head(file[o])))
      BY <1>1, <1>3, <1>7
    <3> QED BY <1>2, <1>4, <2>1, <3>1, ReadFits
  <2> QED BY <1>1, <2>2, <2>3
<1> QED BY <1>1, <1>3, <1>5, <1>6, <1>7, Preserved

\* Every step keeps the invariant.
LEMMA NextInv == ValuesInv /\ [Next]_vars => ValuesInv'
<1> SUFFICES ASSUME ValuesInv, [Next]_vars PROVE ValuesInv'
  OBVIOUS
<1>1. CASE UNCHANGED vars
  BY <1>1 DEF vars, ValuesInv, AttributeOK, Careful, careless, There
<1>2. ASSUME NEW r \in setup.ranges, SetRange(r) PROVE ValuesInv'
  BY <1>2, SetRangeInv
<1>3. ASSUME NEW t \in setup.types, SetType(t) PROVE ValuesInv'
  BY <1>3, SetTypeInv
<1>4. ASSUME NEW m \in setup.multi, SetIsMultiValues(m) PROVE ValuesInv'
  BY <1>4, SetIsMultiValuesInv
<1>5. ASSUME NEW x \in setup.inits, SetInitValue(x) PROVE ValuesInv'
  BY <1>5, SetInitValueInv
<1>6. ASSUME NEW f \in setup.formats, SetFormat(f) PROVE ValuesInv'
  BY <1>6, SetFormatInv
<1>7. CASE CreateAttributes
  BY <1>7 DEF CreateAttributes, ValuesInv, AttributeOK, Careful, careless, There
<1>8. ASSUME NEW o \in setup.objects, Create(o) PROVE ValuesInv'
  BY <1>8, CreateInv
<1>9. ASSUME NEW o \in There, NEW d \in Inputs, SetAttributeValue(o, d) PROVE ValuesInv'
  BY <1>9, SetAttributeValueInv
<1>10. ASSUME NEW force \in BOOLEAN, Save(force) PROVE ValuesInv'
  BY <1>10, SaveInv
<1>11. CASE Restart
  BY <1>11, RestartInv
<1> QED BY <1>1, <1>2, <1>3, <1>4, <1>5, <1>6, <1>7, <1>8, <1>9, <1>10, <1>11 DEF Next

-----------------------------------------------------------------------------
(* The theorems. *)

\* The inductive invariant holds in whatever order an attribute is changed,
\* values are set and the files saved and loaded.
THEOREM ValuesInvariant == Spec => []ValuesInv
BY InitInv, NextInv, PTL DEF Spec

\* Every value is of its attribute's type, a list where the attribute has
\* lists, and an enumeration's is one of its values.
THEOREM ValuesAlwaysFit == Spec => []ValuesFitAttribute
<1>1. ValuesInv => ValuesFitAttribute
  BY DEF ValuesInv, Careful, Fitting, ValuesFitAttribute
<1> QED BY <1>1, ValuesInvariant, PTL

-----------------------------------------------------------------------------
(* The places of the values: OksLayout. *)

\* A set of numbers has a least one.
LEMMA LeastNumber ==
  ASSUME NEW P \in SUBSET Nat, P # {}
  PROVE  \E i \in P : \A j \in P : i <= j
<1>1. PICK i \in P : \A j \in P : <<j, i>> \notin OpToRel(<, Nat)
  BY NatLessThanWellFounded, WFMin
<1>2. ASSUME NEW j \in P, j < i PROVE FALSE
  <2>1. i \in Nat /\ j \in Nat
    OBVIOUS
  <2>2. <<j, i>> \in OpToRel(<, Nat)
    BY <1>2, <2>1, Zenon DEF OpToRel
  <2> QED BY <1>1, <2>2
<1>3. i \in Nat /\ \A j \in P : j \in Nat
  OBVIOUS
<1> QED BY <1>2, <1>3

\* No name is there twice.
Unique(s) == \A i, j \in DOMAIN s : s[i].name = s[j].name => i = j

\* Place finds an item of the name, and the only one when names are unique.
LEMMA PlaceParts ==
  ASSUME NEW S, NEW s \in Seq(S), NEW i \in DOMAIN s
  PROVE  /\ PlaceOf(s, s[i].name) \in DOMAIN s /\ s[PlaceOf(s, s[i].name)].name = s[i].name
         /\ Unique(s) => PlaceOf(s, s[i].name) = i
<1> DEFINE I == {k \in 1 .. Len(s) : s[k].name = s[i].name}
<1>1. DOMAIN s = 1 .. Len(s) /\ Len(s) \in Nat
  OBVIOUS
<1>2. I \in SUBSET Nat /\ i \in I
  BY <1>1
<1>3. PICK m \in I : \A j \in I : m <= j
  BY <1>2, LeastNumber
<1>4. PlaceOf(s, s[i].name) = Min(I)
  BY <1>2 DEF PlaceOf, SelectInSeq
<1>5. Min(I) \in I
  BY <1>3 DEF Min
<1> QED BY <1>1, <1>4, <1>5 DEF Unique

-----------------------------------------------------------------------------
(* Parts of a list. *)

\* A function on 1 .. n is a sequence.
LEMMA IsSeq ==
  ASSUME NEW S, NEW n \in Nat, NEW f, f = [i \in 1 .. n |-> f[i]], \A i \in 1 .. n : f[i] \in S
  PROVE  f \in Seq(S)
OBVIOUS

\* How many of K there are up to k, and the place in K of that rank.
Rank(K, k) == Cardinality({j \in K : j <= k})
Nth(K, i) == CHOOSE k \in K : Rank(K, k) = i

\* Only(s, K) in terms of Nth.
LEMMA OnlyIs ==
  ASSUME NEW s, NEW K
  PROVE  /\ Only(s, K) = [i \in 1 .. Cardinality(K) |-> s[Nth(K, i)]]
         /\ DOMAIN Only(s, K) = 1 .. Cardinality(K)
         /\ \A i \in 1 .. Cardinality(K) : Only(s, K)[i] = s[Nth(K, i)]
<1>1. Only(s, K) = [i \in 1 .. Cardinality(K) |-> s[Nth(K, i)]]
  BY DEF Only, Rank, Nth
<1>2. Cardinality(K) = Cardinality(K)
  OBVIOUS
<1> QED BY <1>1, <1>2

\* Only(s, K) has each place of K once.
LEMMA OnlyParts ==
  ASSUME NEW S, NEW s \in Seq(S), NEW K \in SUBSET DOMAIN s
  PROVE  /\ Only(s, K) \in Seq(S) /\ Len(Only(s, K)) = Cardinality(K) /\ Cardinality(K) \in Nat
         /\ \E g \in [1 .. Cardinality(K) -> K] :
               /\ \A i \in 1 .. Cardinality(K) :
                     Only(s, K)[i] = s[g[i]] /\ g[i] = Nth(K, i)
               /\ \A i, j \in 1 .. Cardinality(K) : g[i] = g[j] => i = j
               /\ \A k \in K : \E i \in 1 .. Cardinality(K) : g[i] = k
<1> DEFINE n == Cardinality(K)
           r == [k \in K |-> Rank(K, k)]
<1>1. IsFiniteSet(DOMAIN s) /\ DOMAIN s = 1 .. Len(s) /\ Len(s) \in Nat
  BY FS_Interval
<1>2. IsFiniteSet(K) /\ n \in Nat /\ \A k \in K : k \in Nat
  BY <1>1, FS_Subset, FS_CardinalityType
<1>3. ASSUME NEW k \in K PROVE Rank(K, k) \in 1 .. n
  <2> DEFINE T == {j \in K : j <= k}
  <2>1. IsFiniteSet(T) /\ Cardinality(T) \in Nat /\ Cardinality(T) <= n
    BY <1>2, FS_Subset, FS_CardinalityType
  <2>2. k \in T
    BY <1>2
  <2>3. Cardinality(T) # 0
    BY <2>1, <2>2, FS_EmptySet
  <2> QED BY <2>1, <2>3 DEF Rank
<1>4. ASSUME NEW k \in K, NEW l \in K, k < l PROVE Rank(K, k) < Rank(K, l)
  <2> DEFINE T == {j \in K : j <= k}
             U == {j \in K : j <= l}
  <2>1. T \subseteq U /\ l \in U /\ l \notin T
    BY <1>2, <1>4
  <2>2. IsFiniteSet(U)
    BY <1>2, FS_Subset
  <2>3. T # U
    BY <2>1
  <2> HIDE DEF T, U
  <2>4. Cardinality(T) <= Cardinality(U) /\ Cardinality(T) # Cardinality(U) /\ Cardinality(T) \in Nat
        /\ Cardinality(U) \in Nat
    BY <2>1, <2>2, <2>3, FS_Subset, FS_CardinalityType
  <2> QED BY <2>4 DEF Rank, T, U
<1>5. \A k, l \in K : Rank(K, k) = Rank(K, l) => k = l
  <2> SUFFICES ASSUME NEW k \in K, NEW l \in K, Rank(K, k) = Rank(K, l), k # l PROVE FALSE
    OBVIOUS
  <2>1. k < l \/ l < k
    BY <1>2
  <2>2. Rank(K, k) \in Nat /\ Rank(K, l) \in Nat
    BY <1>2, <1>3
  <2> QED BY <1>4, <2>1, <2>2
<1>6. \A i \in 1 .. n : \E k \in K : Rank(K, k) = i
  <2>1. r \in Injection(K, 1 .. n)
    BY <1>3, <1>5 DEF Injection, IsInjective
  <2>2. IsFiniteSet(1 .. n) /\ Cardinality(1 .. n) = n
    BY <1>2, FS_Interval
  <2>3. r \in Surjection(K, 1 .. n)
    BY <1>2, <2>1, <2>2, FS_Injection
  <2> QED BY <2>3 DEF Surjection
<1> DEFINE g == [i \in 1 .. n |-> Nth(K, i)]
<1>7. \A i \in 1 .. n : g[i] \in K /\ Rank(K, g[i]) = i /\ Only(s, K)[i] = s[g[i]]
  <2>1. \A i \in 1 .. n : g[i] \in K /\ Rank(K, g[i]) = i
    BY <1>6 DEF Nth
  <2> QED BY <2>1, OnlyIs
<1>8. \A k \in K : g[Rank(K, k)] = k
  BY <1>3, <1>5, <1>7
<1>9. Only(s, K) = [i \in 1 .. n |-> s[g[i]]]
  BY <1>7, OnlyIs
<1>10. \A i \in 1 .. n : s[g[i]] \in S
  BY <1>7
<1>11. g \in [1 .. n -> K]
  BY <1>7
<1>12. \A i \in 1 .. n : g[i] = Nth(K, i)
  OBVIOUS
<1> HIDE DEF g, r
<1>13. Only(s, K) \in Seq(S) /\ Len(Only(s, K)) = n
  BY <1>2, <1>9, <1>10
<1>14. \A i, j \in 1 .. n : g[i] = g[j] => i = j
  BY <1>7
<1>15. \A k \in K : \E i \in 1 .. n : g[i] = k
  BY <1>3, <1>8
<1> QED BY <1>2, <1>7, <1>11, <1>12, <1>13, <1>14, <1>15

\* There is a place of each rank.
LEMMA NthParts ==
  ASSUME NEW S, NEW s \in Seq(S), NEW K \in SUBSET DOMAIN s
  PROVE  \A i \in 1 .. Cardinality(K) : Nth(K, i) \in K
<1>1. PICK g \in [1 .. Cardinality(K) -> K] :
         /\ \A i \in 1 .. Cardinality(K) :
               Only(s, K)[i] = s[g[i]] /\ g[i] = Nth(K, i)
         /\ \A i, j \in 1 .. Cardinality(K) : g[i] = g[j] => i = j
         /\ \A k \in K : \E i \in 1 .. Cardinality(K) : g[i] = k
  BY OnlyParts
<1>2. \A i \in 1 .. Cardinality(K) : g[i] = Nth(K, i)
  BY <1>1, Zenon DEF Nth
<1>3. \A i \in 1 .. Cardinality(K) : g[i] \in K
  BY <1>1, Zenon
<1> QED BY <1>2, <1>3, Zenon

\* When K are the first places of s, Only(s, K) has at each of them what s has:
\* what registrate_instances relies on.
LEMMA OnlyPrefix ==
  ASSUME NEW S, NEW s \in Seq(S), NEW K \in SUBSET DOMAIN s,
         \A i, j \in DOMAIN s : i < j /\ j \in K => i \in K
  PROVE  /\ DOMAIN Only(s, K) = K
         /\ \A i \in K : Only(s, K)[i] = s[i]
<1> DEFINE T == {i \in Nat : i > 0 /\ i \notin K}
<1>1. DOMAIN s = 1 .. Len(s) /\ Len(s) \in Nat
  OBVIOUS
<1>2. Len(s) + 1 \in T /\ T \in SUBSET Nat
  BY <1>1
<1>3. PICK e \in T : \A j \in T : e <= j
  <2> HIDE DEF T
  <2> QED BY <1>2, LeastNumber
<1> DEFINE m == e - 1
<1>4. m \in Nat /\ e \in Nat /\ e <= Len(s) + 1
  BY <1>1, <1>2, <1>3
<1>5. K = 1 .. m
  <2>1. ASSUME NEW i \in 1 .. m PROVE i \in K
    BY <1>3, <1>4
  <2>2. ASSUME NEW i \in K PROVE i \in 1 .. m
    <3>1. i \in 1 .. Len(s) /\ e \notin K /\ e > 0
      BY <1>1, <1>3
    <3>2. i > e => e \in K
      BY <1>1, <1>4, <3>1
    <3> QED BY <1>4, <3>1, <3>2
  <2> QED BY <2>1, <2>2
<1> HIDE DEF m
<1>6. \A k \in K : Rank(K, k) = k
  <2> TAKE k \in K
  <2>1. {j \in K : j <= k} = 1 .. k /\ k \in Nat
    BY <1>4, <1>5
  <2>2. Rank(K, k) = Cardinality(1 .. k)
    BY <2>1, Zenon DEF Rank
  <2>3. Cardinality(1 .. k) = k
    BY <2>1, FS_Interval
  <2> QED BY <2>2, <2>3
<1>7. Cardinality(K) = m
  BY <1>4, <1>5, FS_Interval
<1>8. \A i \in K : Nth(K, i) = i
  BY <1>6 DEF Nth
<1>9. PICK g \in [1 .. Cardinality(K) -> K] : \A i \in 1 .. Cardinality(K) :
          Only(s, K)[i] = s[g[i]] /\ g[i] = Nth(K, i)
  BY OnlyParts
<1>10. DOMAIN Only(s, K) = 1 .. Cardinality(K)
  BY OnlyIs
<1>11. 1 .. Cardinality(K) = K
  BY <1>5, <1>7
<1>12. \A i \in K : Only(s, K)[i] = s[g[i]] /\ g[i] = i
  BY <1>8, <1>9, <1>11, Zenon
<1>13. \A i \in K : Only(s, K)[i] = s[i]
  BY <1>12, Zenon
<1> QED BY <1>10, <1>11, <1>13

ItemsOf(s) == {s[i] : i \in DOMAIN s}

\* Named(s, N) has the items of s with a name in N, each once.
LEMMA NamedParts ==
  ASSUME NEW S, NEW s \in Seq(S), NEW N
  PROVE  /\ Named(s, N) \in Seq(S)
         /\ ItemsOf(Named(s, N)) = {x \in ItemsOf(s) : x.name \in N}
         /\ Unique(s) => Unique(Named(s, N))
<1> DEFINE K == {i \in DOMAIN s : s[i].name \in N}
           u == Only(s, K)
<1>1. K \in SUBSET DOMAIN s
  OBVIOUS
<1> HIDE DEF K
<1>2. u \in Seq(S) /\ Len(u) = Cardinality(K)
  BY <1>1, OnlyParts
<1>3. PICK g \in [1 .. Cardinality(K) -> K] :
         /\ \A i \in 1 .. Cardinality(K) : u[i] = s[g[i]] /\ g[i] = Nth(K, i)
         /\ \A i, j \in 1 .. Cardinality(K) : g[i] = g[j] => i = j
         /\ \A k \in K : \E i \in 1 .. Cardinality(K) : g[i] = k
  BY <1>1, OnlyParts
<1>4. DOMAIN u = 1 .. Cardinality(K)
  BY OnlyIs
<1> HIDE DEF u
<1>5. ItemsOf(u) = {x \in ItemsOf(s) : x.name \in N}
  <2>1. ASSUME NEW i \in DOMAIN u PROVE u[i] \in ItemsOf(s) /\ u[i].name \in N
    BY <1>1, <1>3, <1>4 DEF ItemsOf, K
  <2>2. ASSUME NEW k \in DOMAIN s, s[k].name \in N PROVE \E i \in DOMAIN u : u[i] = s[k]
    <3>1. k \in K
      BY <2>2 DEF K
    <3> QED BY <3>1, <1>3, <1>4
  <2> QED BY <2>1, <2>2 DEF ItemsOf
<1>6. Unique(s) => Unique(u)
  BY <1>1, <1>3, <1>4 DEF Unique
<1>7. Named(s, N) = u
  BY DEF Named, u, K
<1> QED BY <1>2, <1>5, <1>6, <1>7

\* The same for two lists one after the other.
LEMMA ConcatParts ==
  ASSUME NEW S, NEW s \in Seq(S), NEW t \in Seq(S)
  PROVE  /\ s \o t \in Seq(S) /\ ItemsOf(s \o t) = ItemsOf(s) \cup ItemsOf(t)
         /\ Unique(s) /\ Unique(t) /\ (\A x \in ItemsOf(s), y \in ItemsOf(t) : x.name # y.name)
               => Unique(s \o t)
<1> DEFINE u == s \o t
<1>1. /\ u \in Seq(S) /\ Len(u) = Len(s) + Len(t) /\ Len(s) \in Nat /\ Len(t) \in Nat
      /\ \A i \in 1 .. Len(s) : u[i] = s[i]
      /\ \A i \in 1 .. Len(t) : u[Len(s) + i] = t[i]
      /\ DOMAIN s = 1 .. Len(s) /\ DOMAIN t = 1 .. Len(t) /\ DOMAIN u = 1 .. Len(u)
  OBVIOUS
<1> HIDE DEF u
<1>2. \A i \in DOMAIN u : \/ i \in DOMAIN s /\ u[i] = s[i]
                          \/ i - Len(s) \in DOMAIN t /\ i \in Nat /\ u[i] = t[i - Len(s)]
  <2> TAKE i \in DOMAIN u
  <2>1. CASE i <= Len(s)
    BY <1>1, <2>1
  <2>2. CASE i > Len(s)
    <3>1. i - Len(s) \in 1 .. Len(t) /\ Len(s) + (i - Len(s)) = i
      BY <1>1, <2>2
    <3> QED BY <1>1, <3>1
  <2> QED BY <1>1, <2>1, <2>2
<1>3. (\A i \in DOMAIN s : i \in DOMAIN u /\ u[i] = s[i])
      /\ \A i \in DOMAIN t : Len(s) + i \in DOMAIN u /\ u[Len(s) + i] = t[i]
  BY <1>1
<1>4. ItemsOf(u) = ItemsOf(s) \cup ItemsOf(t)
  BY <1>2, <1>3 DEF ItemsOf
<1>5. ASSUME Unique(s), Unique(t), \A x \in ItemsOf(s), y \in ItemsOf(t) : x.name # y.name
      PROVE  Unique(u)
  <2>1. \A i \in DOMAIN s, j \in DOMAIN t : s[i].name # t[j].name
    BY <1>5 DEF ItemsOf
  <2> SUFFICES ASSUME NEW i \in DOMAIN u, NEW j \in DOMAIN u, u[i].name = u[j].name PROVE i = j
    BY DEF Unique
  <2>2. CASE i \in DOMAIN s /\ u[i] = s[i] /\ j \in DOMAIN s /\ u[j] = s[j]
    BY <1>5, <2>2 DEF Unique
  <2>3. CASE i - Len(s) \in DOMAIN t /\ i \in Nat /\ u[i] = t[i - Len(s)]
             /\ j - Len(s) \in DOMAIN t /\ j \in Nat /\ u[j] = t[j - Len(s)]
    <3>1. i - Len(s) = j - Len(s)
      BY <1>5, <2>3 DEF Unique
    <3> QED BY <1>1, <2>3, <3>1
  <2>4. ~(i \in DOMAIN s /\ u[i] = s[i] /\ j - Len(s) \in DOMAIN t /\ u[j] = t[j - Len(s)])
    BY <2>1
  <2>5. ~(j \in DOMAIN s /\ u[j] = s[j] /\ i - Len(s) \in DOMAIN t /\ u[i] = t[i - Len(s)])
    BY <2>1
  <2> QED BY <1>2, <2>2, <2>3, <2>4, <2>5, Zenon
<1> QED BY <1>1, <1>4, <1>5 DEF u

-----------------------------------------------------------------------------
(* All items of a class. *)

\* The lists of a class as they may be.
Kind == ItemType \cup {"one", "many"}
DirectItem == [name : ItemName, type : Kind, init : Kind]
ListedItem == [owner : Class, name : ItemName, type : Kind, init : Kind]
Apart == AttributeName \cap RelationshipName = {}
DirectOK(d) == Apart /\ d \in [Class -> Seq(DirectItem)] /\ \A k \in Class : Unique(d[k])

\* The direct items of a class with their owner.
LEMMA OwnedParts ==
  ASSUME NEW d, DirectOK(d), NEW k \in Class
  PROVE  /\ Owned(d, k) \in Seq(ListedItem) /\ Unique(Owned(d, k)) /\ DOMAIN Owned(d, k) = DOMAIN d[k]
         /\ \A i \in DOMAIN d[k] : Owned(d, k)[i].owner = k /\ Owned(d, k)[i].name = d[k][i].name
         /\ \A x \in ItemsOf(Owned(d, k)) :
              /\ x.owner = k /\ x.name \in Names(d[k])
              /\ \E i \in DOMAIN d[k] : d[k][i].name = x.name /\ d[k][i].type = x.type /\ d[k][i].init = x.init
         /\ Names(Owned(d, k)) = Names(d[k])
<1> DEFINE s == Owned(d, k)
<1>1. d[k] \in Seq(DirectItem) /\ Unique(d[k])
  BY DEF DirectOK
<1>2. DOMAIN d[k] = 1 .. Len(d[k]) /\ Len(d[k]) \in Nat /\ \A i \in DOMAIN d[k] : d[k][i] \in DirectItem
  BY <1>1
<1>3. \A i \in DOMAIN d[k] : s[i] = [owner |-> k, name |-> d[k][i].name, type |-> d[k][i].type, init |-> d[k][i].init]
  BY DEF Owned
<1>4. DOMAIN s = DOMAIN d[k]
  BY DEF Owned
<1>5. \A i \in DOMAIN d[k] : /\ s[i].owner = k /\ s[i].name = d[k][i].name
                             /\ s[i].type = d[k][i].type /\ s[i].init = d[k][i].init
  <2> TAKE i \in DOMAIN d[k]
  <2> DEFINE x == d[k][i]
             y == s[i]
  <2>1. y = [owner |-> k, name |-> x.name, type |-> x.type, init |-> x.init]
    BY <1>3
  <2> HIDE DEF y
  <2>2. y.owner = k /\ y.name = x.name /\ y.type = x.type /\ y.init = x.init
    BY <2>1
  <2> QED BY <2>2 DEF y
<1>10. \A i \in DOMAIN d[k] : s[i] \in ListedItem
  <2> TAKE i \in DOMAIN d[k]
  <2> DEFINE x == d[k][i]
  <2>1. x.name \in ItemName /\ x.type \in Kind /\ x.init \in Kind
    BY <1>2 DEF DirectItem
  <2>2. s[i] = [owner |-> k, name |-> x.name, type |-> x.type, init |-> x.init]
    BY <1>3
  <2> HIDE DEF x, s
  <2> QED BY <2>1, <2>2 DEF ListedItem
<1>6. s \in Seq(ListedItem)
  <2>1. s = [i \in 1 .. Len(d[k]) |-> s[i]]
    BY <1>2 DEF Owned
  <2> HIDE DEF s
  <2> QED BY <1>2, <1>10, <2>1, IsSeq
<1> HIDE DEF s
<1>7. Unique(s)
  BY <1>1, <1>4, <1>5 DEF Unique
<1>8. \A x \in ItemsOf(s) :
         /\ x.owner = k /\ x.name \in Names(d[k])
         /\ \E i \in DOMAIN d[k] : d[k][i].name = x.name /\ d[k][i].type = x.type /\ d[k][i].init = x.init
  BY <1>4, <1>5 DEF ItemsOf, Names
<1>9. Names(s) = Names(d[k])
  BY <1>4, <1>5 DEF Names
<1> QED BY <1>4, <1>5, <1>6, <1>7, <1>8, <1>9 DEF s

\* The items of a class: its own, and those of the base class that it does not
\* override, each once.
LEMMA AllItemsParts ==
  ASSUME NEW d, DirectOK(d), NEW c \in Class
  PROVE  /\ AllItems(d, c) \in Seq(ListedItem) /\ Unique(AllItems(d, c))
         /\ ItemsOf(AllItems(d, c)) =
               {x \in ItemsOf(Owned(d, "base")) : c = "base" \/ x.name \notin Names(d[c])}
               \cup ItemsOf(Owned(d, c))
<1>1. CASE c = "base"
  <2>1. AllItems(d, c) = Owned(d, c)
    BY <1>1 DEF AllItems
  <2> QED BY <1>1, <2>1, OwnedParts
<1>2. CASE c # "base"
  <2> DEFINE b == Owned(d, "base")
             o == Owned(d, c)
             kept == Named(b, ItemName \ Names(d[c]))
             A == Attributes(kept)
             B == Attributes(o)
             C == Relationships(kept)
             D == Relationships(o)
  <2>1. AllItems(d, c) = ((A \o B) \o C) \o D
    BY <1>2 DEF AllItems
  <2>2. "base" \in Class
    BY DEF Class
  <2>3. b \in Seq(ListedItem) /\ o \in Seq(ListedItem) /\ Unique(b) /\ Unique(o) /\ Names(o) = Names(d[c])
    BY <2>2, OwnedParts
  <2> HIDE DEF b, o
  <2>4. /\ kept \in Seq(ListedItem) /\ Unique(kept)
        /\ ItemsOf(kept) = {x \in ItemsOf(b) : x.name \in ItemName \ Names(d[c])}
    BY <2>3, NamedParts
  <2> HIDE DEF kept
  <2>5. /\ A \in Seq(ListedItem) /\ Unique(A) /\ ItemsOf(A) = {x \in ItemsOf(kept) : x.name \in AttributeName}
        /\ B \in Seq(ListedItem) /\ Unique(B) /\ ItemsOf(B) = {x \in ItemsOf(o) : x.name \in AttributeName}
        /\ C \in Seq(ListedItem) /\ Unique(C) /\ ItemsOf(C) = {x \in ItemsOf(kept) : x.name \in RelationshipName}
        /\ D \in Seq(ListedItem) /\ Unique(D) /\ ItemsOf(D) = {x \in ItemsOf(o) : x.name \in RelationshipName}
    BY <2>3, <2>4, NamedParts DEF Attributes, Relationships
  <2>6. /\ \A x \in ItemsOf(o) : x.name \in Names(d[c]) /\ x.name \in ItemName
        /\ \A x \in ItemsOf(b) : x.name \in ItemName
    <3>1. (\A x \in ItemsOf(o) : x \in ListedItem /\ x.name \in Names(o)) /\ \A x \in ItemsOf(b) : x \in ListedItem
      BY <2>3 DEF ItemsOf, Names
    <3>2. \A x \in ListedItem : x.name \in ItemName
      BY DEF ListedItem
    <3> QED BY <2>3, <3>1, <3>2
  <2>7. AttributeName \cap RelationshipName = {} /\ ItemName = AttributeName \cup RelationshipName
    BY DEF ItemName, DirectOK, Apart
  <2> HIDE DEF A, B, C, D
  <2> DEFINE E == A \o B
             F == E \o C
  <2>8. E \in Seq(ListedItem) /\ Unique(E) /\ ItemsOf(E) = ItemsOf(A) \cup ItemsOf(B)
    <3>1. \A x \in ItemsOf(A), y \in ItemsOf(B) : x.name # y.name
      BY <2>4, <2>5, <2>6
    <3> QED BY <2>5, <3>1, ConcatParts
  <2> HIDE DEF E
  <2>9. F \in Seq(ListedItem) /\ Unique(F) /\ ItemsOf(F) = ItemsOf(E) \cup ItemsOf(C)
    <3>1. \A x \in ItemsOf(E), y \in ItemsOf(C) : x.name # y.name
      BY <2>5, <2>7, <2>8
    <3> QED BY <2>5, <2>8, <3>1, ConcatParts
  <2> HIDE DEF F
  <2>10. /\ F \o D \in Seq(ListedItem) /\ Unique(F \o D)
         /\ ItemsOf(F \o D) = ItemsOf(F) \cup ItemsOf(D)
    <3>1. \A x \in ItemsOf(F), y \in ItemsOf(D) : x.name # y.name
      BY <2>4, <2>5, <2>6, <2>7, <2>8, <2>9
    <3> QED BY <2>5, <2>9, <3>1, ConcatParts
  <2>11. ItemsOf(F \o D) = ItemsOf(kept) \cup ItemsOf(o)
    BY <2>4, <2>5, <2>6, <2>7, <2>8, <2>9, <2>10
  <2>12. ItemsOf(kept) = {x \in ItemsOf(b) : x.name \notin Names(d[c])}
    BY <2>4, <2>6
  <2> QED BY <1>2, <2>1, <2>10, <2>11, <2>12 DEF b, o, E, F
<1> QED BY <1>1, <1>2

\* What is said of one item of a class.
LEMMA ItemParts ==
  ASSUME NEW d, DirectOK(d), NEW c \in Class, NEW i \in DOMAIN AllItems(d, c)
  PROVE  LET x == AllItems(d, c)[i]
         IN  /\ x \in ListedItem /\ x.owner \in {"base", c} /\ x.name \in Names(d[x.owner])
             /\ x.owner # c => x.name \notin Names(d[c])
             /\ x.type = TypeIn(d[x.owner], x.name)
             /\ \E j \in DOMAIN d[x.owner] :
                   d[x.owner][j].name = x.name /\ d[x.owner][j].type = x.type /\ d[x.owner][j].init = x.init
             /\ PlaceOf(AllItems(d, c), x.name) = i
<1> DEFINE a == AllItems(d, c)
           x == a[i]
<1>1. a \in Seq(ListedItem) /\ Unique(a) /\ x \in ItemsOf(a) /\ x \in ListedItem
  BY AllItemsParts DEF ItemsOf
<1>2. \/ x \in ItemsOf(Owned(d, "base")) /\ (c = "base" \/ x.name \notin Names(d[c]))
      \/ x \in ItemsOf(Owned(d, c))
  BY <1>1, AllItemsParts
<1>3. PlaceOf(a, x.name) = i
  BY <1>1, PlaceParts
<1> HIDE DEF x, a
<1>4. ASSUME NEW k \in Class, x \in ItemsOf(Owned(d, k))
      PROVE  /\ x.owner = k /\ x.name \in Names(d[k]) /\ x.type = TypeIn(d[k], x.name)
             /\ \E j \in DOMAIN d[k] : d[k][j].name = x.name /\ d[k][j].type = x.type /\ d[k][j].init = x.init
  <2>1. PICK j \in DOMAIN d[k] : d[k][j].name = x.name /\ d[k][j].type = x.type /\ d[k][j].init = x.init
    BY <1>4, OwnedParts
  <2>2. d[k] \in Seq(DirectItem) /\ Unique(d[k])
    BY DEF DirectOK
  <2>3. PlaceOf(d[k], x.name) = j
    BY <2>1, <2>2, PlaceParts
  <2>4. x.owner = k /\ x.name \in Names(d[k])
    BY <1>4, OwnedParts
  <2> QED BY <2>1, <2>3, <2>4 DEF TypeIn
<1>5. "base" \in Class
  BY DEF Class
<1> QED BY <1>1, <1>2, <1>3, <1>4, <1>5 DEF x, a

\* The names of the items.
LEMMA NamesOfAll ==
  ASSUME NEW d, DirectOK(d), NEW c \in Class
  PROVE  Names(AllItems(d, c)) = Names(d["base"]) \cup Names(d[c])
<1> DEFINE a == AllItems(d, c)
           b == Owned(d, "base")
           o == Owned(d, c)
<1>1. "base" \in Class
  BY DEF Class
<1>2. Names(b) = Names(d["base"]) /\ Names(o) = Names(d[c])
  BY <1>1, OwnedParts
<1>3. ItemsOf(a) = {x \in ItemsOf(b) : c = "base" \/ x.name \notin Names(d[c])} \cup ItemsOf(o)
  BY AllItemsParts
<1> HIDE DEF a, b, o
<1>4. \A t : Names(t) = {x.name : x \in ItemsOf(t)}
  BY DEF Names, ItemsOf
<1>5. Names(a) \subseteq Names(b) \cup Names(o)
  BY <1>3, <1>4
<1>6. Names(o) \subseteq Names(a)
  BY <1>3, <1>4
<1>7. ASSUME NEW n \in Names(b), n \notin Names(o) PROVE n \in Names(a)
  <2>1. PICK x \in ItemsOf(b) : x.name = n
    BY <1>4, <1>7
  <2>2. x \in ItemsOf(a)
    BY <1>2, <1>3, <1>7, <2>1
  <2> QED BY <1>4, <2>1, <2>2
<1>8. Names(a) = Names(b) \cup Names(o)
  BY <1>5, <1>6, <1>7
<1> QED BY <1>2, <1>8 DEF a

\* Lists with the same names and owners at the same places.
Agree(s, t) ==
    DOMAIN s = DOMAIN t /\ \A i \in DOMAIN s : s[i].name = t[i].name /\ s[i].owner = t[i].owner

\* Such lists stay so when items are taken by their names.
LEMMA AgreeNamed ==
  ASSUME NEW S, NEW s \in Seq(S), NEW t \in Seq(S), Agree(s, t), NEW N
  PROVE  Agree(Named(s, N), Named(t, N))
<1> DEFINE K == {i \in DOMAIN s : s[i].name \in N}
<1>1. K \in SUBSET DOMAIN s /\ K \in SUBSET DOMAIN t /\ K = {i \in DOMAIN t : t[i].name \in N}
  BY DEF Agree
<1>2. Named(s, N) = Only(s, K) /\ Named(t, N) = Only(t, K)
  BY <1>1 DEF Named
<1> HIDE DEF K
<1>3. /\ DOMAIN Only(s, K) = 1 .. Cardinality(K) /\ DOMAIN Only(t, K) = 1 .. Cardinality(K)
      /\ \A i \in 1 .. Cardinality(K) : Only(s, K)[i] = s[Nth(K, i)] /\ Only(t, K)[i] = t[Nth(K, i)]
  BY OnlyIs
<1>4. \A i \in 1 .. Cardinality(K) : Nth(K, i) \in DOMAIN s
  BY <1>1, NthParts
<1> QED BY <1>2, <1>3, <1>4 DEF Agree

\* And when lists are put one behind the other.
LEMMA AgreeConcat ==
  ASSUME NEW S, NEW s \in Seq(S), NEW t \in Seq(S), NEW u \in Seq(S), NEW v \in Seq(S), Agree(s, t), Agree(u, v)
  PROVE  Agree(s \o u, t \o v) /\ s \o u \in Seq(S) /\ t \o v \in Seq(S)
<1>1. Len(s) = Len(t) /\ Len(u) = Len(v) /\ Len(s) \in Nat /\ Len(u) \in Nat
  BY DEF Agree
<1>2. /\ DOMAIN (s \o u) = 1 .. (Len(s) + Len(u)) /\ DOMAIN (t \o v) = 1 .. (Len(s) + Len(u))
      /\ DOMAIN s = 1 .. Len(s) /\ DOMAIN u = 1 .. Len(u)
  <2>1. DOMAIN (s \o u) = 1 .. (Len(s) + Len(u)) /\ DOMAIN s = 1 .. Len(s) /\ DOMAIN u = 1 .. Len(u)
    OBVIOUS
  <2>2. DOMAIN (t \o v) = 1 .. (Len(t) + Len(v))
    OBVIOUS
  <2> QED BY <1>1, <2>1, <2>2
<1>3. ASSUME NEW i \in 1 .. (Len(s) + Len(u))
      PROVE  (s \o u)[i].name = (t \o v)[i].name /\ (s \o u)[i].owner = (t \o v)[i].owner
  <2>1. CASE i <= Len(s)
    <3>1. (s \o u)[i] = s[i] /\ (t \o v)[i] = t[i] /\ i \in DOMAIN s
      BY <1>1, <1>2, <2>1
    <3> QED BY <3>1 DEF Agree
  <2>2. CASE i > Len(s)
    <3>1. i - Len(s) \in 1 .. Len(u) /\ i \in Nat
      BY <1>1, <2>2
    <3>2. (s \o u)[i] = u[i - Len(s)]
      BY <1>1, <2>2, <3>1
    <3>3. (t \o v)[i] = v[i - Len(s)]
      BY <1>1, <2>2, <3>1
    <3>4. i - Len(s) \in DOMAIN u
      BY <1>2, <3>1
    <3> QED BY <3>2, <3>3, <3>4 DEF Agree
  <2> QED BY <1>1, <2>1, <2>2
<1>4. s \o u \in Seq(S) /\ t \o v \in Seq(S)
  OBVIOUS
<1> QED BY <1>2, <1>3, <1>4 DEF Agree

\* The data info depends on the names of the items only.
LEMMA SameInfo ==
  ASSUME NEW d, NEW e, DirectOK(d), DirectOK(e), NEW c \in Class,
         \A k \in {"base", c} : DOMAIN d[k] = DOMAIN e[k] /\ \A i \in DOMAIN d[k] : d[k][i].name = e[k][i].name
  PROVE  DataInfo(AllItems(d, c)) = DataInfo(AllItems(e, c))
<1>1. "base" \in Class
  BY DEF Class
<1>2. ASSUME NEW k \in {"base", c}
      PROVE  /\ Agree(Owned(d, k), Owned(e, k)) /\ Owned(d, k) \in Seq(ListedItem)
             /\ Owned(e, k) \in Seq(ListedItem) /\ Names(d[k]) = Names(e[k])
  <2>1. k \in Class /\ DOMAIN d[k] = DOMAIN e[k] /\ \A i \in DOMAIN d[k] : d[k][i].name = e[k][i].name
    BY <1>1
  <2>2. Names(d[k]) = Names(e[k])
    BY <2>1 DEF Names
  <2> QED BY <2>1, <2>2, OwnedParts DEF Agree
<1>3. Agree(AllItems(d, c), AllItems(e, c))
  <2>1. CASE c = "base"
    BY <1>2, <2>1 DEF AllItems
  <2>2. CASE c # "base"
    <3> DEFINE kept(x) == Named(Owned(x, "base"), ItemName \ Names(x[c]))
               b == kept(d)
               bb == kept(e)
               o == Owned(d, c)
               oo == Owned(e, c)
    <3>1. /\ Agree(b, bb) /\ b \in Seq(ListedItem) /\ bb \in Seq(ListedItem)
          /\ Agree(o, oo) /\ o \in Seq(ListedItem) /\ oo \in Seq(ListedItem)
      BY <1>2, AgreeNamed, NamedParts
    <3>2. /\ AllItems(d, c) = Attributes(b) \o Attributes(o) \o Relationships(b) \o Relationships(o)
          /\ AllItems(e, c) = Attributes(bb) \o Attributes(oo) \o Relationships(bb) \o Relationships(oo)
      BY <2>2 DEF AllItems
    <3> HIDE DEF b, bb, o, oo
    <3>3. /\ Agree(Attributes(b), Attributes(bb)) /\ Attributes(b) \in Seq(ListedItem) /\ Attributes(bb) \in Seq(ListedItem)
          /\ Agree(Attributes(o), Attributes(oo)) /\ Attributes(o) \in Seq(ListedItem) /\ Attributes(oo) \in Seq(ListedItem)
      BY <3>1, AgreeNamed, NamedParts DEF Attributes
    <3>4. /\ Agree(Relationships(b), Relationships(bb))
          /\ Relationships(b) \in Seq(ListedItem) /\ Relationships(bb) \in Seq(ListedItem)
          /\ Agree(Relationships(o), Relationships(oo))
          /\ Relationships(o) \in Seq(ListedItem) /\ Relationships(oo) \in Seq(ListedItem)
      BY <3>1, AgreeNamed, NamedParts DEF Relationships
    <3> DEFINE p == Attributes(b) \o Attributes(o)
               pp == Attributes(bb) \o Attributes(oo)
               q == p \o Relationships(b)
               qq == pp \o Relationships(bb)
    <3>5. Agree(p, pp) /\ p \in Seq(ListedItem) /\ pp \in Seq(ListedItem)
      BY <3>3, AgreeConcat
    <3> HIDE DEF p, pp
    <3>6. Agree(q, qq) /\ q \in Seq(ListedItem) /\ qq \in Seq(ListedItem)
      BY <3>4, <3>5, AgreeConcat
    <3> HIDE DEF q, qq
    <3>7. Agree(q \o Relationships(o), qq \o Relationships(oo))
      BY <3>4, <3>6, AgreeConcat
    <3> QED BY <3>2, <3>7 DEF p, pp, q, qq
  <2> QED BY <2>1, <2>2
<1> QED BY <1>3 DEF Agree, DataInfo

-----------------------------------------------------------------------------
(* The move of an object's values. *)

InfoItem == [name : ItemName, owner : Class]
IsValue(v) == v = [of |-> v.of, type |-> v.type]

\* The items with a name in N come first.
First(s, N) == \A i, j \in DOMAIN s : i < j /\ s[j].name \in N => s[i].name \in N

\* registrate_instances: with the items that were there before the new ones,
\* each place gets the value the item had, converted if it changed, or none.
LEMMA MovedParts ==
  ASSUME NEW old \in Seq(InfoItem), Unique(old), NEW new \in Seq(ListedItem), NEW v, NEW luck,
         First(new, Names(old)),
         DOMAIN old \subseteq DOMAIN v, NEW i \in DOMAIN new
  PROVE  LET w == Moved(v, old, new, luck)
             p == PlaceOf(old, new[i].name)
         IN  /\ i \in DOMAIN w
             /\ IF new[i].name \in Names(old)
                THEN /\ p \in DOMAIN old /\ old[p].name = new[i].name
                     /\ \/ w[i] = v[p] /\ Equal(old[p], new[i], luck)
                        \/ w[i] = Convert(v[p], new[i].type)
                ELSE w[i] = Unset
<1> DEFINE w == Moved(v, old, new, luck)
           n == new[i].name
           p == PlaceOf(old, n)
           K == {k \in DOMAIN new : new[k].name \in Names(old)}
           kept == Only(new, K)
<1>1. n \in Names(old) => p \in DOMAIN old /\ old[p].name = n
  <2> SUFFICES ASSUME n \in Names(old) PROVE p \in DOMAIN old /\ old[p].name = n
    OBVIOUS
  <2>1. PICK k \in DOMAIN old : old[k].name = n
    BY DEF Names
  <2> QED BY <2>1, PlaceParts
<1>2. CASE ~Changed(old, new, luck)
  <2>1. w = v /\ i \in DOMAIN old /\ old[i].name = n /\ Equal(old[i], new[i], luck)
    BY <1>2 DEF Moved, Changed
  <2>2. p = i /\ n \in Names(old)
    BY <2>1, PlaceParts DEF Names
  <2> QED BY <1>1, <2>1, <2>2
<1>3. CASE Changed(old, new, luck)
  <2>1. K \in SUBSET DOMAIN new /\ \A k, j \in DOMAIN new : k < j /\ j \in K => k \in K
    BY DEF First
  <2>2. Named(new, Names(old)) = kept
    BY DEF Named
  <2> HIDE DEF K
  <2>3. DOMAIN kept = K /\ \A k \in K : kept[k] = new[k]
    BY <2>1, OnlyPrefix
  <2> HIDE DEF kept
  <2>4. w = [k \in DOMAIN new |-> IF k \in DOMAIN kept
                THEN LET q == PlaceOf(old, kept[k].name)
                     IN  IF Equal(old[q], kept[k], luck) THEN v[q] ELSE Convert(v[q], kept[k].type)
                ELSE Unset]
    BY <1>3, <2>2 DEF Moved, Move
  <2> HIDE DEF w
  <2>5. i \in K <=> n \in Names(old)
    BY DEF K
  <2>6. CASE i \in K
    <3>1. kept[i] = new[i] /\ i \in DOMAIN kept
      BY <2>3, <2>6
    <3>2. w[i] = IF Equal(old[p], new[i], luck) THEN v[p] ELSE Convert(v[p], new[i].type)
      BY <2>4, <3>1
    <3>3. DOMAIN w = DOMAIN new
      BY <2>4
    <3> QED BY <1>1, <2>5, <2>6, <3>2, <3>3 DEF w
  <2>7. CASE i \notin K
    BY <2>3, <2>4, <2>5, <2>7 DEF w
  <2> QED BY <2>6, <2>7
<1> QED BY <1>2, <1>3

-----------------------------------------------------------------------------
(* The invariant. *)

\* What the data info of the classes is to be for the lists d.
Info(d) == [c \in Class |-> DataInfo(AllItems(d, c))]

\* The data info has the names and owners of the items, at their places.
LEMMA InfoParts ==
  ASSUME NEW d, DirectOK(d), NEW c \in Class
  PROVE  LET a == AllItems(d, c)
             b == DataInfo(a)
         IN  /\ b \in Seq(InfoItem) /\ Unique(b) /\ Names(b) = Names(a) /\ DOMAIN b = DOMAIN a
             /\ \A i \in DOMAIN a : b[i].name = a[i].name /\ b[i].owner = a[i].owner /\ PlaceOf(b, a[i].name) = i
<1> DEFINE a == AllItems(d, c)
           b == DataInfo(a)
<1>1. a \in Seq(ListedItem) /\ Unique(a)
  BY AllItemsParts
<1> HIDE DEF a
<1>2. DOMAIN b = DOMAIN a /\ DOMAIN a = 1 .. Len(a) /\ Len(a) \in Nat
  BY <1>1 DEF DataInfo
<1>3. ASSUME NEW i \in DOMAIN a PROVE b[i].name = a[i].name /\ b[i].owner = a[i].owner /\ b[i] \in InfoItem
  <2> DEFINE x == a[i]
             y == b[i]
  <2>1. y = [name |-> x.name, owner |-> x.owner]
    BY DEF DataInfo
  <2>2. x \in ListedItem
    BY <1>1
  <2> HIDE DEF x, y
  <2>3. y.name = x.name /\ y.owner = x.owner /\ y \in InfoItem
    BY <2>1, <2>2 DEF ListedItem, InfoItem
  <2> QED BY <2>3 DEF x, y
<1>4. b = [i \in 1 .. Len(a) |-> b[i]]
  BY <1>2 DEF DataInfo
<1> HIDE DEF b
<1>5. b \in Seq(InfoItem)
  BY <1>2, <1>3, <1>4, IsSeq
<1>6. Unique(b)
  BY <1>1, <1>2, <1>3 DEF Unique
<1>7. Names(b) = Names(a)
  BY <1>2, <1>3 DEF Names
<1>8. \A i \in DOMAIN a : PlaceOf(b, a[i].name) = i
  <2> TAKE i \in DOMAIN a
  <2>1. PlaceOf(b, b[i].name) = i
    BY <1>2, <1>5, <1>6, PlaceParts
  <2> QED BY <1>3, <2>1
<1> QED BY <1>2, <1>3, <1>5, <1>6, <1>7, <1>8 DEF a, b

\* Items that are the same but for their initial data.
SameItems(d, e, K) ==
    \A k \in K : /\ DOMAIN d[k] = DOMAIN e[k]
                 /\ \A i \in DOMAIN d[k] : d[k][i].name = e[k][i].name /\ d[k][i].type = e[k][i].type

\* They give the same data info and types.
LEMMA SameTypes ==
  ASSUME NEW d, NEW e, DirectOK(d), DirectOK(e), NEW c \in Class, SameItems(d, e, {"base", c})
  PROVE  /\ DataInfo(AllItems(d, c)) = DataInfo(AllItems(e, c))
         /\ DOMAIN AllItems(d, c) = DOMAIN AllItems(e, c)
         /\ \A i \in DOMAIN AllItems(d, c) :
               AllItems(d, c)[i].name = AllItems(e, c)[i].name /\ AllItems(d, c)[i].type = AllItems(e, c)[i].type
<1> DEFINE a == AllItems(d, c)
           b == AllItems(e, c)
<1>1. DataInfo(a) = DataInfo(b)
  BY SameInfo DEF SameItems
<1>2. DOMAIN a = DOMAIN b /\ \A i \in DOMAIN a : a[i].name = b[i].name /\ a[i].owner = b[i].owner
  <2>1. /\ DOMAIN DataInfo(a) = DOMAIN a /\ DOMAIN DataInfo(b) = DOMAIN b
        /\ \A i \in DOMAIN a : DataInfo(a)[i].name = a[i].name /\ DataInfo(a)[i].owner = a[i].owner
        /\ \A i \in DOMAIN b : DataInfo(b)[i].name = b[i].name /\ DataInfo(b)[i].owner = b[i].owner
    BY InfoParts
  <2> HIDE DEF a, b
  <2> QED BY <1>1, <2>1
<1>3. ASSUME NEW i \in DOMAIN a PROVE a[i].type = b[i].type
  <2> DEFINE x == a[i]
             y == b[i]
             k == x.owner
  <2>1. i \in DOMAIN b /\ x.name = y.name /\ x.owner = y.owner
    BY <1>2, <1>3
  <2>2. /\ k \in {"base", c}
        /\ \E j \in DOMAIN d[k] : d[k][j].name = x.name /\ d[k][j].type = x.type /\ d[k][j].init = x.init
    BY <1>3, ItemParts
  <2>3. \E j \in DOMAIN e[k] : e[k][j].name = y.name /\ e[k][j].type = y.type /\ e[k][j].init = y.init
    BY <2>1, ItemParts
  <2>4. k \in Class
    BY <2>2 DEF Class
  <2> HIDE DEF x, y, k
  <2>5. Unique(d[k])
    BY <2>4 DEF DirectOK
  <2>6. DOMAIN d[k] = DOMAIN e[k] /\ \A j \in DOMAIN d[k] : d[k][j].name = e[k][j].name /\ d[k][j].type = e[k][j].type
    BY <2>2 DEF SameItems
  <2>7. x.type = y.type
    BY <2>1, <2>2, <2>3, <2>5, <2>6 DEF Unique
  <2> QED BY <2>7 DEF x, y
<1> QED BY <1>1, <1>2, <1>3

\* What an object may have at the place of item x: a value of x in its type or
\* the null value of it, or no value.
Holds(v, x) == v = Unset \/ (v.of \in {x.name, "nothing"} /\ v.type = x.type)

\* An object has a value for each item; when no delicate change (K) is made, the
\* item's own.
HasValues(v, items, K) ==
    \A i \in DOMAIN items : i \in DOMAIN v /\ IsValue(v[i]) /\ (K = {} => Holds(v[i], items[i]))

\* A conversion gives the type asked for and no value to another item.
LEMMA ConvertParts ==
  ASSUME NEW v, IsValue(v), NEW t
  PROVE  /\ IsValue(Convert(v, t)) /\ (Convert(v, t) = Unset \/ Convert(v, t).type = t)
         /\ Convert(v, t).of \in {v.of, "nothing"} /\ (v.of # "nothing" => Convert(v, t).of = v.of)
<1>1. [v EXCEPT !.type = t] = [of |-> v.of, type |-> t]
  BY DEF IsValue
<1>2. Convert(v, t) = Unset \/ Convert(v, t) = [of |-> v.of, type |-> t]
  BY <1>1 DEF Convert
<1>3. v.of # "nothing" => Convert(v, t) = [of |-> v.of, type |-> t]
  BY <1>1 DEF Convert
<1>4. Unset.of = "nothing" /\ IsValue(Unset)
  BY DEF Unset, IsValue
<1> DEFINE w == Convert(v, t)
<1> HIDE DEF w
<1>5. ASSUME w = [of |-> v.of, type |-> t] PROVE w.of = v.of /\ w.type = t /\ w = [of |-> w.of, type |-> w.type]
  BY <1>5
<1> QED BY <1>2, <1>3, <1>4, <1>5 DEF w, IsValue

\* Attributes and relationships that stay have the type they had.
SameKept(d) ==
    \A k \in Class : \A i \in DOMAIN direct[k] : \A j \in DOMAIN d[k] :
        direct[k][i].name = d[k][j].name => direct[k][i].type = d[k][j].type

\* The values that are moved are those of the new items, and none is lost.
LEMMA MovedValues ==
  ASSUME DirectOK(direct), NEW d, DirectOK(d), NEW c \in Class, NEW v, NEW luck, NEW K,
         First(AllItems(d, c), Names(AllItems(direct, c))), HasValues(v, AllItems(direct, c), K),
         K = {} => luck = "compared" /\ SameKept(d)
  PROVE  LET old == DataInfo(AllItems(direct, c))
             new == AllItems(d, c)
             w == Moved(v, old, new, luck)
         IN  /\ HasValues(w, new, K)
             /\ \A i \in DOMAIN new :
                   new[i].name \in Names(old) /\ v[PlaceOf(old, new[i].name)].of # "nothing" => w[i].of # "nothing"
<1> DEFINE a == AllItems(direct, c)
           old == DataInfo(a)
           new == AllItems(d, c)
           w == Moved(v, old, new, luck)
<1>1. /\ old \in Seq(InfoItem) /\ Unique(old) /\ Names(old) = Names(a) /\ DOMAIN old = DOMAIN a
      /\ \A i \in DOMAIN a : old[i].name = a[i].name /\ old[i].owner = a[i].owner /\ PlaceOf(old, a[i].name) = i
  BY InfoParts
<1>2. new \in Seq(ListedItem)
  BY AllItemsParts
<1>3. DOMAIN old \subseteq DOMAIN v
  BY <1>1 DEF HasValues
<1>4. First(new, Names(old))
  BY <1>1
<1> HIDE DEF old
<1> SUFFICES ASSUME NEW i \in DOMAIN new
             PROVE  /\ i \in DOMAIN w /\ IsValue(w[i]) /\ (K = {} => Holds(w[i], new[i]))
                    /\ new[i].name \in Names(old) /\ v[PlaceOf(old, new[i].name)].of # "nothing" => w[i].of # "nothing"
  BY DEF HasValues, old
<1> DEFINE y == new[i]
           n == y.name
           p == PlaceOf(old, n)
<1>5. /\ i \in DOMAIN w
      /\ IF n \in Names(old)
         THEN /\ p \in DOMAIN old /\ old[p].name = n
              /\ (w[i] = v[p] /\ Equal(old[p], y, luck)) \/ w[i] = Convert(v[p], y.type)
         ELSE w[i] = Unset
  <2> HIDE DEF new
  <2>1. old \in Seq(InfoItem) /\ Unique(old)
    BY <1>1
  <2> QED BY <2>1, <1>2, <1>3, <1>4, MovedParts
<1> HIDE DEF w
<1>6. CASE n \notin Names(old)
  <2>1. w[i] = Unset
    BY <1>5, <1>6
  <2>2. IsValue(Unset) /\ Holds(Unset, y)
    BY DEF IsValue, Unset, Holds
  <2> QED BY <1>5, <1>6, <2>1, <2>2
<1>7. CASE n \in Names(old)
  <2> DEFINE x == a[p]
  <2>1. /\ p \in DOMAIN a /\ x.name = n /\ old[p].owner = x.owner /\ old[p].name = n
        /\ (w[i] = v[p] /\ Equal(old[p], y, luck)) \/ w[i] = Convert(v[p], y.type)
    BY <1>1, <1>5, <1>7
  <2>2. IsValue(v[p]) /\ (K = {} => Holds(v[p], x))
    BY <2>1 DEF HasValues
  <2>3. /\ x.owner \in {"base", c} /\ x.type = TypeIn(direct[x.owner], x.name)
        /\ \E j \in DOMAIN direct[x.owner] : /\ direct[x.owner][j].name = x.name /\ direct[x.owner][j].type = x.type
                                             /\ direct[x.owner][j].init = x.init
    BY <2>1, ItemParts
  <2>4. \E j \in DOMAIN d[y.owner] : d[y.owner][j].name = y.name /\ d[y.owner][j].type = y.type /\ d[y.owner][j].init = y.init
    BY ItemParts
  <2>5. x.owner \in Class
    BY <2>3 DEF Class
  <2> HIDE DEF a, new, y, n, p, x
  <2>6. ASSUME K = {}, Equal(old[p], y, luck) PROVE x.type = y.type
    <3>1. luck = "compared" /\ SameKept(d)
      BY <2>6
    <3>2. CASE x.owner = y.owner
      BY <2>1, <2>3, <2>4, <2>5, <3>1, <3>2 DEF SameKept, n
    <3>3. CASE x.owner # y.owner
      BY <2>1, <2>3, <2>6, <3>1, <3>3 DEF Equal
    <3> QED BY <3>2, <3>3
  <2>7. CASE w[i] = v[p] /\ Equal(old[p], y, luck)
    <3>1. K = {} => Holds(w[i], y)
      BY <2>1, <2>2, <2>6, <2>7 DEF Holds, n
    <3> QED BY <1>5, <2>2, <2>7, <3>1 DEF y, n, p
  <2>8. CASE w[i] = Convert(v[p], y.type)
    <3>1. /\ IsValue(w[i]) /\ (w[i] = Unset \/ w[i].type = y.type)
          /\ w[i].of \in {v[p].of, "nothing"} /\ (v[p].of # "nothing" => w[i].of = v[p].of)
      BY <2>2, <2>8, ConvertParts
    <3>2. K = {} => v[p].of \in {n, "nothing"}
      BY <2>1, <2>2 DEF Holds, Unset
    <3>3. K = {} => Holds(w[i], y)
      BY <3>1, <3>2 DEF Holds, n
    <3> QED BY <1>5, <3>1, <3>3 DEF y, n, p
  <2> QED BY <2>1, <2>7, <2>8 DEF p, n, y, x
<1> QED BY <1>6, <1>7

-----------------------------------------------------------------------------
(* What a registration of changed lists keeps. *)

\* An override may be removed and an overridden attribute be retyped.
Sane == delicate \subseteq {"removeOverride", "retypeOverridden"}

SaneState ==
    /\ DirectOK(direct) /\ info = Info(direct) /\ Alive \subseteq Object
    /\ \A o \in Alive : HasValues(values[o], AllItems(direct, ClassOf(o)), delicate)

\* The inductive invariant: what is sound as long as no change other than those
\* two delicate ones is made.
LayoutInv == layout \in LayoutSetups /\ (Sane => SaneState)

\* The action property ValuesKept, of one step.
NoneLost ==
    \A o \in Alive \cap Alive' :
       \A n \in Names(info[ClassOf(o)]) \cap Names(info'[ClassOf(o)]) :
          ValueAt(o, n).of # "nothing" => ValueAt(o, n)'.of # "nothing"

\* Initial data made anew change no name and no type.
LEMMA RefreshedParts ==
  ASSUME NEW c, NEW d, DirectOK(d)
  PROVE  DirectOK(Refreshed(c, d)) /\ SameItems(d, Refreshed(c, d), Class)
<1> DEFINE e == Refreshed(c, d)
<1>1. ASSUME NEW k \in Class
      PROVE  /\ e[k] \in Seq(DirectItem) /\ DOMAIN d[k] = DOMAIN e[k] /\ Unique(e[k])
             /\ \A i \in DOMAIN d[k] : d[k][i].name = e[k][i].name /\ d[k][i].type = e[k][i].type
  <2> DEFINE s == d[k]
             u == [i \in DOMAIN s |-> [s[i] EXCEPT !.init = s[i].type]]
  <2>1. e[k] = u \/ e[k] = s
    BY DEF Refreshed
  <2>2. s \in Seq(DirectItem) /\ Unique(s)
    BY DEF DirectOK
  <2> HIDE DEF e, s
  <2>3. DOMAIN s = 1 .. Len(s) /\ Len(s) \in Nat
    BY <2>2
  <2>4. ASSUME NEW i \in DOMAIN s PROVE u[i] \in DirectItem /\ u[i].name = s[i].name /\ u[i].type = s[i].type
    <3> DEFINE x == s[i]
               y == u[i]
    <3>1. x \in DirectItem /\ y = [x EXCEPT !.init = x.type]
      BY <2>2, <2>3, <2>4
    <3> HIDE DEF x, y
    <3>2. y \in DirectItem /\ y.name = x.name /\ y.type = x.type
      BY <3>1 DEF DirectItem
    <3> QED BY <3>2 DEF x, y
  <2>5. u = [i \in 1 .. Len(s) |-> u[i]] /\ DOMAIN u = DOMAIN s
    BY <2>3
  <2> HIDE DEF u
  <2>6. u \in Seq(DirectItem)
    BY <2>3, <2>4, <2>5, IsSeq
  <2>7. Unique(u)
    BY <2>2, <2>4, <2>5 DEF Unique
  <2> QED BY <2>1, <2>2, <2>4, <2>5, <2>6, <2>7 DEF s
<1>2. e = [k \in Class |-> e[k]]
  BY DEF Refreshed
<1> HIDE DEF e
<1> QED BY <1>1, <1>2 DEF DirectOK, SameItems, e

\* Having values depends on the names and types of the items only.
LEMMA HasSame ==
  ASSUME NEW v, NEW s, NEW t, NEW K, HasValues(v, s, K), DOMAIN s = DOMAIN t,
         \A i \in DOMAIN s : s[i].name = t[i].name /\ s[i].type = t[i].type
  PROVE  HasValues(v, t, K)
BY DEF HasValues, Holds

\* The items of the base class depend on its own list only.
LEMMA BaseItems ==
  ASSUME NEW d, NEW e, d["base"] = e["base"]
  PROVE  AllItems(d, "base") = AllItems(e, "base")
BY DEF AllItems, Owned

\* registrate_class_change after direct became d keeps the invariant.
LEMMA RegisterStep ==
  ASSUME SaneState, NEW c \in Class, NEW d, DirectOK(d), c = "derived" => d["base"] = direct["base"],
         NEW luck, AtEnd(c, d), Register(c, d, luck), delicate = {} => luck = "compared" /\ SameKept(d)
  PROVE  SaneState' /\ NoneLost
<1>1. DirectOK(direct') /\ SameItems(d, direct', Class)
  BY RefreshedParts DEF Register
<1>2. DirectOK(direct) /\ info = Info(direct) /\ Alive \subseteq Object
  BY DEF SaneState
<1>3. \A k \in Class : k \notin Visited(c) => k = "base" /\ AllItems(d, k) = AllItems(direct, k)
  BY BaseItems DEF Visited, Class
<1>4. info' = Info(d)
  <2>1. info' = [k \in Class |-> IF k \in Visited(c) THEN DataInfo(AllItems(d, k)) ELSE info[k]]
    BY DEF Register
  <2>2. \A k \in Class : info[k] = DataInfo(AllItems(direct, k))
    BY <1>2 DEF Info
  <2> QED BY <1>3, <2>1, <2>2 DEF Info
<1>5. ASSUME NEW k \in Class
      PROVE  /\ DataInfo(AllItems(d, k)) = DataInfo(AllItems(direct', k))
             /\ DOMAIN AllItems(d, k) = DOMAIN AllItems(direct', k)
             /\ \A i \in DOMAIN AllItems(d, k) : /\ AllItems(d, k)[i].name = AllItems(direct', k)[i].name
                                                /\ AllItems(d, k)[i].type = AllItems(direct', k)[i].type
  <2>1. {"base", k} \subseteq Class
    BY DEF Class
  <2>2. SameItems(d, direct', {"base", k})
    BY <1>1, <2>1 DEF SameItems
  <2> QED BY <1>1, <2>2, SameTypes
<1>6. info' = Info(direct')
  BY <1>4, <1>5 DEF Info
<1>7. Alive' = Alive /\ Object' = Object /\ delicate' = delicate
  BY DEF Register, Alive, Object, delicate
<1>8. ASSUME NEW o \in Alive
      PROVE  /\ HasValues(values'[o], AllItems(direct', ClassOf(o)), delicate)
             /\ \A n \in Names(info[ClassOf(o)]) \cap Names(info'[ClassOf(o)]) :
                    ValueAt(o, n).of # "nothing" => ValueAt(o, n)'.of # "nothing"
  <2> DEFINE k == ClassOf(o)
             w == values'[o]
  <2>1. k \in Class
    BY DEF ClassOf, Class
  <2>2. HasValues(values[o], AllItems(direct, k), delicate)
    BY DEF SaneState
  <2>3. info[k] = DataInfo(AllItems(direct, k)) /\ info'[k] = DataInfo(AllItems(d, k))
    BY <1>2, <1>4, <2>1 DEF Info
  <2>4. CASE k \in Visited(c)
    <3> DEFINE old == DataInfo(AllItems(direct, k))
               new == AllItems(d, k)
    <3>1. w = Moved(values[o], old, new, luck)
      BY <2>3, <2>4 DEF Register
    <3>2. Names(old) = Names(AllItems(direct, k))
      BY <1>2, <2>1, InfoParts
    <3>3. First(AllItems(d, k), Names(AllItems(direct, k)))
      BY <2>3, <2>4, <3>2 DEF AtEnd, First
    <3>4. /\ HasValues(w, new, delicate)
          /\ \A i \in DOMAIN new :
               new[i].name \in Names(old) /\ values[o][PlaceOf(old, new[i].name)].of # "nothing" => w[i].of # "nothing"
      <4> HIDE DEF w, k
      <4> QED BY <1>2, <2>1, <2>2, <3>1, <3>3, MovedValues
    <3>5. HasValues(w, AllItems(direct', k), delicate)
      <4> HIDE DEF w, k
      <4> QED BY <1>5, <2>1, <3>4, HasSame
    <3>6. ASSUME NEW n \in Names(info[k]) \cap Names(info'[k]), ValueAt(o, n).of # "nothing"
          PROVE  ValueAt(o, n)'.of # "nothing"
      <4>1. DataInfo(new) = info'[k] /\ old = info[k]
        BY <2>3
      <4>2. /\ Names(DataInfo(new)) = Names(new)
            /\ \A i \in DOMAIN new : PlaceOf(DataInfo(new), new[i].name) = i
        BY <2>1, InfoParts
      <4>3. PICK i \in DOMAIN new : new[i].name = n
        BY <3>6, <4>1, <4>2 DEF Names
      <4>4. PlaceOf(info'[k], n) = i /\ n \in Names(old)
        BY <3>6, <4>1, <4>2, <4>3
      <4>5. values[o][PlaceOf(old, n)].of # "nothing"
        BY <3>6, <4>1 DEF ValueAt
      <4>6. w[i].of # "nothing"
        BY <3>4, <4>3, <4>4, <4>5
      <4>7. ValueAt(o, n)' = w[i]
        BY <4>4 DEF ValueAt
      <4> QED BY <4>6, <4>7
    <3> QED BY <3>5, <3>6
  <2>5. CASE k \notin Visited(c)
    <3>1. w = values[o] /\ AllItems(d, k) = AllItems(direct, k)
      BY <1>3, <2>1, <2>5 DEF Register
    <3>2. info'[k] = info[k]
      BY <2>3, <3>1
    <3>3. HasValues(w, AllItems(direct', k), delicate)
      <4> HIDE DEF w, k
      <4> QED BY <1>5, <2>1, <2>2, <3>1, HasSame
    <3>4. \A n : ValueAt(o, n)' = ValueAt(o, n)
      BY <3>1, <3>2 DEF ValueAt
    <3> QED BY <3>3, <3>4
  <2> QED BY <2>4, <2>5
<1>9. SaneState'
  BY <1>1, <1>2, <1>6, <1>7, <1>8 DEF SaneState
<1>10. NoneLost
  BY <1>7, <1>8 DEF NoneLost
<1> QED BY <1>9, <1>10

\* When the lists get no other item under an old name the types are kept.
LEMMA KeptParts ==
  ASSUME DirectOK(direct), NEW d,
         \A k \in Class : \A y \in ItemsOf(d[k]) : y.name \in Names(direct[k]) => y \in ItemsOf(direct[k])
  PROVE  SameKept(d)
<1> SUFFICES ASSUME NEW k \in Class, NEW i \in DOMAIN direct[k], NEW j \in DOMAIN d[k],
                    direct[k][i].name = d[k][j].name
             PROVE  direct[k][i].type = d[k][j].type
  BY DEF SameKept
<1>1. d[k][j] \in ItemsOf(direct[k])
  BY DEF ItemsOf, Names
<1>2. PICK m \in DOMAIN direct[k] : direct[k][m] = d[k][j]
  BY <1>1 DEF ItemsOf
<1>3. m = i
  BY <1>2 DEF DirectOK, Unique
<1> QED BY <1>2, <1>3

\* Replacing the direct list of one class.
LEMMA ListParts ==
  ASSUME DirectOK(direct), NEW c \in Class, NEW s \in Seq(DirectItem), Unique(s)
  PROVE  LET d == [direct EXCEPT ![c] = s]
         IN  /\ DirectOK(d) /\ (c = "derived" => d["base"] = direct["base"])
             /\ d[c] = s /\ \A k \in Class \ {c} : d[k] = direct[k]
             /\ (\A y \in ItemsOf(s) : y.name \in Names(direct[c]) => y \in ItemsOf(direct[c])) => SameKept(d)
<1> DEFINE d == [direct EXCEPT ![c] = s]
<1>1. direct \in [Class -> Seq(DirectItem)] /\ \A k \in Class : Unique(direct[k])
  BY DEF DirectOK
<1>2. d \in [Class -> Seq(DirectItem)] /\ d[c] = s /\ \A k \in Class \ {c} : d[k] = direct[k]
  BY <1>1
<1> HIDE DEF d
<1>3. DirectOK(d)
  BY <1>1, <1>2 DEF DirectOK
<1>4. c = "derived" => d["base"] = direct["base"]
  BY <1>2 DEF Class
<1>5. ASSUME \A y \in ItemsOf(s) : y.name \in Names(direct[c]) => y \in ItemsOf(direct[c])
      PROVE  SameKept(d)
  <2>1. \A k \in Class : \A y \in ItemsOf(d[k]) : y.name \in Names(direct[k]) => y \in ItemsOf(direct[k])
    BY <1>2, <1>5
  <2> QED BY <2>1, KeptParts
<1> QED BY <1>2, <1>3, <1>4, <1>5 DEF d

\* add puts one item in the list.
LEMMA WithItemParts ==
  ASSUME Apart, NEW s \in Seq(DirectItem), Unique(s), NEW x \in DirectItem, x.name \notin Names(s)
  PROVE  /\ WithItem(s, x) \in Seq(DirectItem) /\ Unique(WithItem(s, x))
         /\ ItemsOf(WithItem(s, x)) = ItemsOf(s) \cup {x}
<1> DEFINE A == Attributes(s)
           R == Relationships(s)
           u == <<x>>
<1>1. /\ A \in Seq(DirectItem) /\ Unique(A) /\ ItemsOf(A) = {y \in ItemsOf(s) : y.name \in AttributeName}
      /\ R \in Seq(DirectItem) /\ Unique(R) /\ ItemsOf(R) = {y \in ItemsOf(s) : y.name \in RelationshipName}
  BY NamedParts DEF Attributes, Relationships
<1>2. u \in Seq(DirectItem) /\ Unique(u) /\ ItemsOf(u) = {x}
  BY DEF Unique, ItemsOf
<1>3. \A y \in ItemsOf(s) : y.name # x.name /\ y.name \in ItemName
  <2>1. \A y \in ItemsOf(s) : y \in DirectItem /\ y.name \in Names(s)
    BY DEF ItemsOf, Names
  <2>2. \A y \in DirectItem : y.name \in ItemName
    BY DEF DirectItem
  <2> QED BY <2>1, <2>2
<1>4. AttributeName \cap RelationshipName = {} /\ ItemName = AttributeName \cup RelationshipName
  BY DEF ItemName, Apart
<1> HIDE DEF A, R, u
<1>5. CASE x.name \in AttributeName
  <2> DEFINE v == A \o u
  <2>1. v \in Seq(DirectItem) /\ Unique(v) /\ ItemsOf(v) = ItemsOf(A) \cup {x}
    <3>1. \A y \in ItemsOf(A), z \in ItemsOf(u) : y.name # z.name
      BY <1>1, <1>2, <1>3
    <3> QED BY <1>1, <1>2, <3>1, ConcatParts
  <2> HIDE DEF v
  <2>2. v \o R \in Seq(DirectItem) /\ Unique(v \o R) /\ ItemsOf(v \o R) = ItemsOf(v) \cup ItemsOf(R)
    <3>1. \A y \in ItemsOf(v), z \in ItemsOf(R) : y.name # z.name
      BY <1>1, <1>4, <1>5, <2>1
    <3> QED BY <1>1, <2>1, <3>1, ConcatParts
  <2>3. ItemsOf(v \o R) = ItemsOf(s) \cup {x}
    BY <1>1, <1>3, <1>4, <2>1, <2>2
  <2>4. WithItem(s, x) = v \o R
    BY <1>5 DEF WithItem, v, A, R, u
  <2> QED BY <2>2, <2>3, <2>4
<1>6. CASE x.name \notin AttributeName
  <2>1. s \o u \in Seq(DirectItem) /\ Unique(s \o u) /\ ItemsOf(s \o u) = ItemsOf(s) \cup {x}
    <3>1. \A y \in ItemsOf(s), z \in ItemsOf(u) : y.name # z.name
      BY <1>2, <1>3
    <3> QED BY <1>2, <3>1, ConcatParts
  <2>2. Append(s, x) = s \o u
    BY DEF u
  <2>3. WithItem(s, x) = Append(s, x)
    BY <1>6 DEF WithItem
  <2> QED BY <2>1, <2>2, <2>3
<1> QED BY <1>5, <1>6

\* add keeps the invariant.
LEMMA AddStep ==
  ASSUME Sane, SaneState, NEW c \in Class, NEW n \in ItemName, NEW t \in TypesOf(n), Add(c, n, t)
  PROVE  SaneState' /\ NoneLost
<1> DEFINE x == NewItem(n, t)
           s == WithItem(direct[c], x)
           d == [direct EXCEPT ![c] = s]
<1>1. DirectOK(direct)
  BY DEF SaneState
<1>2. direct[c] \in Seq(DirectItem) /\ Unique(direct[c]) /\ n \notin Names(direct[c])
  BY <1>1 DEF DirectOK, Add
<1>3. x \in DirectItem /\ x.name = n
  <2>1. t \in Kind
    BY DEF TypesOf, Kind
  <2> QED BY <2>1 DEF NewItem, DirectItem
<1>4. d = [direct EXCEPT ![c] = WithItem(@, NewItem(n, t))]
  OBVIOUS
<1>5. AtEnd(c, d) /\ Register(c, d, "compared")
  BY <1>4 DEF Add, Sane
<1> HIDE DEF x
<1>6. s \in Seq(DirectItem) /\ Unique(s) /\ ItemsOf(s) = ItemsOf(direct[c]) \cup {x}
  BY <1>1, <1>2, <1>3, WithItemParts DEF DirectOK
<1>7. \A y \in ItemsOf(s) : y.name \in Names(direct[c]) => y \in ItemsOf(direct[c])
  BY <1>2, <1>3, <1>6
<1> HIDE DEF s
<1>8. DirectOK(d) /\ (c = "derived" => d["base"] = direct["base"]) /\ SameKept(d)
  BY <1>1, <1>6, <1>7, ListParts
<1> HIDE DEF d
<1> QED BY <1>5, <1>8, RegisterStep

\* remove keeps it.
LEMMA RemoveItemStep ==
  ASSUME Sane, SaneState, NEW c \in Class, NEW n \in ItemName, RemoveItem(c, n)
  PROVE  SaneState' /\ NoneLost
<1> DEFINE s == Named(direct[c], ItemName \ {n})
           d == [direct EXCEPT ![c] = s]
<1>1. DirectOK(direct)
  BY DEF SaneState
<1>2. direct[c] \in Seq(DirectItem) /\ Unique(direct[c])
  BY <1>1 DEF DirectOK
<1>3. d = [direct EXCEPT ![c] = Named(@, ItemName \ {n})]
  OBVIOUS
<1>4. PICK luck : /\ AtEnd(c, d) /\ Register(c, d, luck)
                  /\ delicate = {} => luck = "compared"
  <2> HIDE DEF s, d
  <2> QED BY <1>3 DEF RemoveItem, Sane
<1>5. s \in Seq(DirectItem) /\ Unique(s) /\ ItemsOf(s) \subseteq ItemsOf(direct[c])
  BY <1>2, NamedParts
<1>6. \A y \in ItemsOf(s) : y.name \in Names(direct[c]) => y \in ItemsOf(direct[c])
  BY <1>5
<1> HIDE DEF s
<1>7. DirectOK(d) /\ (c = "derived" => d["base"] = direct["base"]) /\ SameKept(d)
  BY <1>1, <1>5, <1>6, ListParts
<1> HIDE DEF d
<1> QED BY <1>4, <1>7, RegisterStep

\* swap keeps it: no name is new, so all items come first.
LEMMA SwapStep ==
  ASSUME Sane, SaneState, NEW c \in Class, NEW i \in DOMAIN direct[c], NEW j \in DOMAIN direct[c], Swap(c, i, j)
  PROVE  SaneState' /\ NoneLost
<1> DEFINE r == direct[c]
           s == [r EXCEPT ![i] = r[j], ![j] = r[i]]
           d == [direct EXCEPT ![c] = s]
<1>1. DirectOK(direct) /\ info = Info(direct)
  BY DEF SaneState
<1>2. r \in Seq(DirectItem) /\ Unique(r) /\ direct \in [Class -> Seq(DirectItem)]
  BY <1>1 DEF DirectOK
<1>3. d = [direct EXCEPT ![c][i] = direct[c][j], ![c][j] = direct[c][i]]
  BY <1>2
<1>4. Register(c, d, "compared")
  <2> HIDE DEF d
  <2> QED BY <1>3 DEF Swap
<1> HIDE DEF r
<1>5. /\ s \in Seq(DirectItem) /\ DOMAIN s = DOMAIN r
      /\ \A k \in DOMAIN r : s[k] = IF k = j THEN r[i] ELSE IF k = i THEN r[j] ELSE r[k]
  BY <1>2 DEF r
<1> HIDE DEF s
<1>6. i \in DOMAIN r /\ j \in DOMAIN r
  BY DEF r
<1>7. Unique(s)
  BY <1>2, <1>5, <1>6 DEF Unique
<1>8. ItemsOf(s) = ItemsOf(r)
  <2>1. ItemsOf(s) \subseteq ItemsOf(r)
    BY <1>5, <1>6 DEF ItemsOf
  <2>2. ASSUME NEW k \in DOMAIN r PROVE \E m \in DOMAIN s : s[m] = r[k]
    BY <1>5, <1>6
  <2> QED BY <2>1, <2>2 DEF ItemsOf
<1>9. \A y \in ItemsOf(s) : y.name \in Names(direct[c]) => y \in ItemsOf(direct[c])
  BY <1>8 DEF r
<1>10. /\ DirectOK(d) /\ (c = "derived" => d["base"] = direct["base"]) /\ SameKept(d)
       /\ d[c] = s /\ \A k \in Class \ {c} : d[k] = direct[k]
  BY <1>1, <1>5, <1>7, <1>9, ListParts
<1> HIDE DEF d
<1>11. \A k \in Class : Names(d[k]) = Names(direct[k])
  <2>1. \A u : Names(u) = {y.name : y \in ItemsOf(u)}
    BY DEF Names, ItemsOf
  <2>2. Names(d[c]) = Names(direct[c])
    BY <1>8, <1>10, <2>1 DEF r
  <2> QED BY <1>10, <2>2
<1>12. AtEnd(c, d)
  <2>1. ASSUME NEW o \in Alive, NEW m \in DOMAIN AllItems(d, ClassOf(o))
        PROVE  AllItems(d, ClassOf(o))[m].name \in Names(info[ClassOf(o)])
    <3> DEFINE k == ClassOf(o)
    <3>1. k \in Class /\ "base" \in Class
      BY DEF ClassOf, Class
    <3> HIDE DEF k
    <3>2. info[k] = DataInfo(AllItems(direct, k))
      BY <1>1, <3>1 DEF Info
    <3>3. Names(info[k]) = Names(AllItems(direct, k))
      BY <1>1, <3>1, <3>2, InfoParts
    <3>4. Names(AllItems(direct, k)) = Names(direct["base"]) \cup Names(direct[k])
      BY <1>1, <3>1, NamesOfAll
    <3>5. Names(AllItems(d, k)) = Names(d["base"]) \cup Names(d[k])
      BY <1>10, <3>1, NamesOfAll
    <3>6. Names(AllItems(d, k)) = Names(info[k])
      BY <1>11, <3>1, <3>3, <3>4, <3>5
    <3>7. AllItems(d, k)[m].name \in Names(AllItems(d, k))
      BY DEF Names, k
    <3> QED BY <3>6, <3>7 DEF k
  <2> QED BY <2>1 DEF AtEnd
<1> QED BY <1>4, <1>10, <1>12, RegisterStep

\* set_name keeps it: the new name stands behind the others.
LEMMA SetNameStep ==
  ASSUME Sane, SaneState, NEW c \in Class, NEW i \in DOMAIN direct[c], NEW n \in ItemName, SetName(c, i, n)
  PROVE  SaneState' /\ NoneLost
<1> DEFINE r == direct[c]
           x == [r[i] EXCEPT !.name = n]
           s == [r EXCEPT ![i] = x]
           d == [direct EXCEPT ![c] = s]
<1>1. DirectOK(direct)
  BY DEF SaneState
<1>2. r \in Seq(DirectItem) /\ Unique(r) /\ direct \in [Class -> Seq(DirectItem)] /\ n \notin Names(r)
  BY <1>1 DEF DirectOK, SetName
<1>3. d = [direct EXCEPT ![c][i].name = n]
  BY <1>2
<1>4. AtEnd(c, d) /\ Register(c, d, "compared")
  <2> HIDE DEF d
  <2> QED BY <1>3 DEF SetName, Sane
<1>5. i \in DOMAIN r /\ r[i] \in DirectItem
  BY <1>2
<1> HIDE DEF r
<1>6. x \in DirectItem /\ x.name = n
  BY <1>5 DEF DirectItem
<1> HIDE DEF x
<1>7. /\ s \in Seq(DirectItem) /\ DOMAIN s = DOMAIN r
      /\ \A k \in DOMAIN r : s[k] = IF k = i THEN x ELSE r[k]
  BY <1>2, <1>5, <1>6
<1> HIDE DEF s
<1>8. \A k \in DOMAIN r : r[k].name # n
  BY <1>2 DEF Names
<1>9. Unique(s)
  BY <1>2, <1>5, <1>6, <1>7, <1>8 DEF Unique
<1>10. \A y \in ItemsOf(s) : y.name \in Names(r) => y \in ItemsOf(r)
  BY <1>2, <1>6, <1>7 DEF ItemsOf
<1>11. DirectOK(d) /\ (c = "derived" => d["base"] = direct["base"]) /\ SameKept(d)
  BY <1>1, <1>7, <1>9, <1>10, ListParts DEF r
<1> HIDE DEF d
<1> QED BY <1>4, <1>11, RegisterStep

\* set_type keeps it: the value at the place of the name is converted.
LEMMA SetTypeStep ==
  ASSUME Sane, SaneState, NEW c \in Class, NEW i \in DOMAIN direct[c], NEW t \in TypesOf(direct[c][i].name),
         SetItemType(c, i, t)
  PROVE  SaneState' /\ NoneLost
<1> DEFINE r == direct[c]
           n == r[i].name
           x == direct'[c][i]
           s == [r EXCEPT ![i] = x]
           d == [direct EXCEPT ![c] = s]
<1>1. DirectOK(direct) /\ info = Info(direct) /\ Alive \subseteq Object
  BY DEF SaneState
<1>2. r \in Seq(DirectItem) /\ Unique(r) /\ direct \in [Class -> Seq(DirectItem)] /\ i \in DOMAIN r /\ r[i] \in DirectItem
  BY <1>1 DEF DirectOK
<1>3. direct' = d /\ x \in DirectItem /\ x.name = n /\ x.type = t
  <2>1. t \in Kind /\ n \in ItemName
    BY <1>2 DEF TypesOf, Kind, DirectItem
  <2>2. CASE n \in AttributeName
    <3> DEFINE y == [r[i] EXCEPT !.type = t]
    <3>1. direct' = [direct EXCEPT ![c][i].type = t]
      BY <2>2 DEF SetItemType
    <3>2. direct' = [direct EXCEPT ![c] = [r EXCEPT ![i] = y]]
      BY <1>2, <3>1
    <3>3. y \in DirectItem /\ y.name = n /\ y.type = t
      <4> DEFINE q == r[i]
      <4>1. q \in DirectItem
        BY <1>2
      <4> HIDE DEF q
      <4>2. [q EXCEPT !.type = t] \in DirectItem /\ [q EXCEPT !.type = t].name = q.name /\ [q EXCEPT !.type = t].type = t
        BY <2>1, <4>1 DEF DirectItem
      <4> QED BY <4>2 DEF q
    <3> HIDE DEF y
    <3>4. x = y
      BY <1>2, <3>2
    <3> QED BY <3>2, <3>3, <3>4
  <2>3. CASE n \notin AttributeName
    <3> DEFINE y == NewItem(n, t)
    <3>1. direct' = [direct EXCEPT ![c][i] = y]
      BY <2>3 DEF SetItemType
    <3>2. y \in DirectItem /\ y.name = n /\ y.type = t
      BY <2>1 DEF NewItem, DirectItem
    <3> HIDE DEF y
    <3>3. direct' = [direct EXCEPT ![c] = [r EXCEPT ![i] = y]]
      BY <1>2, <3>1
    <3>4. x = y
      BY <1>2, <3>3
    <3> QED BY <3>2, <3>3, <3>4
  <2> QED BY <2>2, <2>3
<1> HIDE DEF r, x, n
<1>4. /\ s \in Seq(DirectItem) /\ DOMAIN s = DOMAIN r
      /\ \A k \in DOMAIN r : s[k] = IF k = i THEN x ELSE r[k]
  BY <1>2, <1>3
<1> HIDE DEF s
<1>5. Unique(s)
  BY <1>2, <1>3, <1>4 DEF Unique, n
<1>6. DirectOK(d) /\ d[c] = s /\ \A k \in Class \ {c} : d[k] = direct[k]
  BY <1>1, <1>4, <1>5, ListParts
<1> HIDE DEF d
<1>7. \A k \in Class : DOMAIN direct[k] = DOMAIN d[k] /\ \A m \in DOMAIN direct[k] : direct[k][m].name = d[k][m].name
  BY <1>3, <1>4, <1>6 DEF r, n
<1>8. \A k \in Class : \A m \in DOMAIN direct[k] : d[k][m].type = IF k = c /\ m = i THEN t ELSE direct[k][m].type
  BY <1>3, <1>4, <1>6 DEF r
<1>9. \A k \in Class : DataInfo(AllItems(direct, k)) = DataInfo(AllItems(d, k))
  <2> TAKE k \in Class
  <2>1. {"base", k} \subseteq Class
    BY DEF Class
  <2> QED BY <1>1, <1>6, <1>7, <2>1, SameInfo
<1>10. info' = info /\ layout' = layout /\ Alive' = Alive
  BY DEF SetItemType, ConvertEach, Alive
<1>11. info' = Info(direct')
  BY <1>1, <1>3, <1>9, <1>10 DEF Info
<1>12. n \in Names(direct[c]) /\ (delicate = {} => ~ (c = "base" /\ n \in Names(direct["derived"])))
  BY DEF SetItemType, Names, n, r
<1>13. \A k \in Class : Names(direct[k]) = Names(d[k])
  BY <1>7 DEF Names
<1>14. values' = [o \in Alive |-> IF ClassOf(o) \in Visited(c)
                                THEN [values[o] EXCEPT ![PlaceOf(info[ClassOf(o)], n)] = Convert(@, t)]
                                ELSE values[o]]
  BY DEF SetItemType, ConvertEach, n, r
<1>15. delicate' = delicate /\ Object' = Object
  BY <1>10 DEF delicate, Object
<1>16. ASSUME NEW o \in Alive
       PROVE  /\ HasValues(values'[o], AllItems(d, ClassOf(o)), delicate)
              /\ \A q \in Names(info[ClassOf(o)]) :
                     ValueAt(o, q).of # "nothing" => ValueAt(o, q)'.of # "nothing"
  <2> DEFINE k == ClassOf(o)
             a == AllItems(direct, k)
             b == AllItems(d, k)
             v == values[o]
             w == values'[o]
             p == PlaceOf(info[k], n)
  <2>1. k \in Class /\ "base" \in Class
    BY DEF ClassOf, Class
  <2>2. HasValues(v, a, delicate)
    BY DEF SaneState
  <2>3. w = IF k \in Visited(c) THEN [v EXCEPT ![p] = Convert(@, t)] ELSE v
    BY <1>14
  <2> HIDE DEF k, v, w
  <2>4. /\ info[k] = DataInfo(a) /\ Names(info[k]) = Names(a)
        /\ \A m \in DOMAIN a : PlaceOf(info[k], a[m].name) = m
    BY <1>1, <2>1, InfoParts DEF Info
  <2>5. DOMAIN a = DOMAIN b /\ \A m \in DOMAIN a : a[m].name = b[m].name /\ a[m].owner = b[m].owner
    <3>1. DataInfo(a) = DataInfo(b)
      BY <1>9, <2>1
    <3>2. /\ DOMAIN DataInfo(a) = DOMAIN a /\ DOMAIN DataInfo(b) = DOMAIN b
          /\ \A m \in DOMAIN a : DataInfo(a)[m].name = a[m].name /\ DataInfo(a)[m].owner = a[m].owner
          /\ \A m \in DOMAIN b : DataInfo(b)[m].name = b[m].name /\ DataInfo(b)[m].owner = b[m].owner
      BY <1>1, <1>6, <2>1, InfoParts
    <3> HIDE DEF a, b
    <3> QED BY <3>1, <3>2
  <2>6. ASSUME NEW m \in DOMAIN a
        PROVE  b[m].type = IF a[m].name = n /\ a[m].owner = c THEN t ELSE a[m].type
    <3> DEFINE y == a[m]
               z == b[m]
               l == y.owner
    <3>1. y.name = z.name /\ y.owner = z.owner /\ m \in DOMAIN b
      BY <2>5, <2>6
    <3>2. /\ l \in {"base", k}
          /\ \E j \in DOMAIN direct[l] : direct[l][j].name = y.name /\ direct[l][j].type = y.type /\ direct[l][j].init = y.init
      BY <1>1, <2>1, <2>6, ItemParts
    <3>3. \E j \in DOMAIN d[z.owner] : /\ d[z.owner][j].name = z.name /\ d[z.owner][j].type = z.type
                                       /\ d[z.owner][j].init = z.init
      BY <1>6, <2>1, <3>1, ItemParts
    <3> HIDE DEF a, b, y, z, l
    <3>4. l \in Class
      BY <2>1, <3>2
    <3>5. PICK j \in DOMAIN direct[l] : direct[l][j].name = y.name /\ direct[l][j].type = y.type
      BY <3>2
    <3>6. PICK jj \in DOMAIN d[l] : d[l][jj].name = z.name /\ d[l][jj].type = z.type
      BY <3>1, <3>3 DEF l
    <3>7. Unique(direct[l]) /\ DOMAIN direct[l] = DOMAIN d[l]
          /\ \A h \in DOMAIN direct[l] : direct[l][h].name = d[l][h].name
      BY <1>1, <1>7, <3>4 DEF DirectOK
    <3>8. j = jj
      BY <3>1, <3>5, <3>6, <3>7 DEF Unique
    <3>9. z.type = IF l = c /\ j = i THEN t ELSE y.type
      BY <1>8, <3>4, <3>5, <3>6, <3>8
    <3>10. l = c => (j = i <=> y.name = n)
      BY <3>5, <3>7 DEF Unique, n, r
    <3> QED BY <3>9, <3>10 DEF l, y, z
  <2>7. CASE k \in Visited(c)
    <3>1. k = c \/ (c = "base" /\ k = "derived")
      BY <2>1, <2>7 DEF Visited, Class
    <3>2. n \in Names(a)
      <4>1. Names(a) = Names(direct["base"]) \cup Names(direct[k])
        BY <1>1, <2>1, NamesOfAll
      <4> HIDE DEF a
      <4> QED BY <1>12, <3>1, <4>1
    <3>3. PICK m \in DOMAIN a : a[m].name = n
      BY <3>2 DEF Names
    <3>4. p = m
      BY <2>4, <3>3
    <3>5. delicate = {} => a[m].owner = c
      <4>1. /\ a[m].owner \in {"base", k} /\ a[m].name \in Names(direct[a[m].owner])
            /\ a[m].owner # k => a[m].name \notin Names(direct[k])
        BY <1>1, <2>1, <3>3, ItemParts
      <4> HIDE DEF a
      <4> QED BY <1>12, <3>1, <3>3, <4>1
    <3> HIDE DEF a, b, p
    <3>6. m \in DOMAIN v /\ IsValue(v[m]) /\ (delicate = {} => Holds(v[m], a[m]))
      BY <2>2, <3>3 DEF HasValues
    <3> DEFINE z == Convert(v[m], t)
    <3>7. /\ IsValue(z) /\ (z = Unset \/ z.type = t)
          /\ z.of \in {v[m].of, "nothing"} /\ (v[m].of # "nothing" => z.of = v[m].of)
      BY <3>6, ConvertParts
    <3> HIDE DEF z
    <3>8. DOMAIN w = DOMAIN v /\ \A h \in DOMAIN v : w[h] = IF h = m THEN z ELSE v[h]
      BY <2>3, <2>7, <3>4, <3>6 DEF z
    <3>9. HasValues(w, b, delicate)
      <4> SUFFICES ASSUME NEW h \in DOMAIN b
                   PROVE  h \in DOMAIN w /\ IsValue(w[h]) /\ (delicate = {} => Holds(w[h], b[h]))
        BY DEF HasValues
      <4>1. h \in DOMAIN a /\ h \in DOMAIN v /\ IsValue(v[h]) /\ (delicate = {} => Holds(v[h], a[h]))
        BY <2>2, <2>5 DEF HasValues
      <4>2. CASE h = m
        <5>1. delicate = {} => v[m].of \in {n, "nothing"}
          BY <3>3, <3>6 DEF Holds, Unset
        <5>2. delicate = {} => b[h].type = t
          BY <2>6, <3>3, <3>5, <4>2
        <5>3. b[h].name = n
          BY <2>5, <3>3, <4>2
        <5> QED BY <3>7, <3>8, <4>1, <4>2, <5>1, <5>2, <5>3 DEF Holds
      <4>3. CASE h # m
        <5>1. a[h].name # n
          BY <2>4, <3>3, <4>1, <4>3
        <5>2. b[h].type = a[h].type /\ b[h].name = a[h].name
          BY <2>5, <2>6, <4>1, <5>1
        <5> QED BY <3>8, <4>1, <4>3, <5>2 DEF Holds
      <4> QED BY <4>2, <4>3
    <3>10. ASSUME NEW q \in Names(info[k]), ValueAt(o, q).of # "nothing" PROVE ValueAt(o, q)'.of # "nothing"
      <4>1. PICK h \in DOMAIN a : a[h].name = q
        BY <2>4, <3>10 DEF Names
      <4>2. PlaceOf(info[k], q) = h /\ h \in DOMAIN v
        BY <2>2, <2>4, <4>1 DEF HasValues
      <4>3. ValueAt(o, q) = v[h] /\ ValueAt(o, q)' = w[h]
        BY <1>10, <4>2 DEF ValueAt, k, v, w
      <4> QED BY <3>7, <3>8, <3>10, <4>2, <4>3
    <3> QED BY <3>9, <3>10 DEF k, b, w
  <2>8. CASE k \notin Visited(c)
    <3>1. k = "base" /\ c = "derived"
      BY <2>1, <2>8 DEF Visited, Class
    <3>2. w = v
      BY <2>3, <2>8
    <3>3. d["base"] = direct["base"]
      BY <1>6, <2>1, <3>1
    <3>4. a = b
      BY <3>1, <3>3, BaseItems
    <3>5. HasValues(w, b, delicate)
      BY <2>2, <3>2, <3>4
    <3>6. \A q : ValueAt(o, q)' = ValueAt(o, q)
      BY <1>10, <3>2 DEF ValueAt, w, v
    <3> QED BY <3>5, <3>6 DEF k, w
  <2> QED BY <2>7, <2>8
<1>17. SaneState'
  BY <1>1, <1>3, <1>6, <1>10, <1>11, <1>15, <1>16 DEF SaneState
<1>18. NoneLost
  BY <1>10, <1>16 DEF NoneLost
<1> QED BY <1>17, <1>18

\* A new object has the initial data.
LEMMA CreateStep ==
  ASSUME Sane, SaneState, NEW o \in Object, CreateObject(o)
  PROVE  SaneState' /\ NoneLost
<1> DEFINE a == AllItems(direct, ClassOf(o))
<1>1. direct' = direct /\ info' = info /\ delicate' = delicate /\ Object' = Object
  BY DEF CreateObject, delicate, Object
<1>2. /\ Alive' = Alive \cup {o} /\ o \notin Alive
      /\ \A x \in Alive : values'[x] = values[x]
      /\ values'[o] = [i \in DOMAIN a |-> [of |-> a[i].name, type |-> a[i].init]]
      /\ \A i \in DOMAIN a : a[i].init = a[i].type
  BY DEF CreateObject, Alive, Sane
<1>3. HasValues(values'[o], a, delicate)
  <2> DEFINE w == values'[o]
  <2> HIDE DEF a
  <2> SUFFICES ASSUME NEW i \in DOMAIN a PROVE i \in DOMAIN w /\ IsValue(w[i]) /\ Holds(w[i], a[i])
    BY DEF HasValues
  <2>1. DOMAIN w = DOMAIN a /\ w[i] = [of |-> a[i].name, type |-> a[i].type]
    BY <1>2
  <2> DEFINE z == w[i]
  <2> HIDE DEF z
  <2>2. z = [of |-> a[i].name, type |-> a[i].type]
    BY <2>1 DEF z
  <2>3. z.of = a[i].name /\ z.type = a[i].type
    BY <2>2
  <2>4. IsValue(z) /\ Holds(z, a[i])
    BY <2>2, <2>3 DEF IsValue, Holds
  <2> QED BY <2>1, <2>4 DEF z
<1>4. SaneState'
  <2> HIDE DEF a
  <2>1. \A x \in Alive' : HasValues(values'[x], AllItems(direct, ClassOf(x)), delicate)
    BY <1>2, <1>3 DEF SaneState, a
  <2> QED BY <1>1, <1>2, <2>1 DEF SaneState
<1>5. NoneLost
  <2>1. \A x \in Alive : \A n : ValueAt(x, n)' = ValueAt(x, n)
    BY <1>1, <1>2 DEF ValueAt
  <2> QED BY <2>1 DEF NoneLost
<1> QED BY <1>4, <1>5

\* Objects that go.
LEMMA DestroyObjectStep ==
  ASSUME Sane, SaneState, NEW o \in Object, DestroyObject(o)
  PROVE  SaneState' /\ NoneLost
<1>1. direct' = direct /\ info' = info /\ delicate' = delicate /\ Object' = Object
  BY DEF DestroyObject, delicate, Object
<1>2. Alive' = Alive \ {o} /\ \A x \in Alive' : values'[x] = values[x]
  BY DEF DestroyObject, Alive
<1>3. \A x \in Alive' : \A n : ValueAt(x, n)' = ValueAt(x, n)
  BY <1>1, <1>2 DEF ValueAt
<1> QED BY <1>1, <1>2, <1>3 DEF SaneState, NoneLost

-----------------------------------------------------------------------------
(* The theorems. *)

\* No attributes and no objects.
LEMMA LayoutInvInit ==
  ASSUME Apart, LayoutInit
  PROVE  LayoutInv
<1>1. /\ layout \in LayoutSetups /\ direct = [c \in Class |-> <<>>] /\ info = [c \in Class |-> <<>>]
      /\ Alive = {}
  BY DEF LayoutInit, Alive
<1>2. DirectOK(direct)
  BY <1>1 DEF DirectOK, Unique
<1>3. ASSUME NEW c \in Class PROVE DataInfo(AllItems(direct, c)) = <<>>
  <2> DEFINE b == DataInfo(AllItems(direct, c))
  <2>1. "base" \in Class
    BY DEF Class
  <2>2. Names(AllItems(direct, c)) = Names(direct["base"]) \cup Names(direct[c])
    BY <1>2, <2>1, NamesOfAll
  <2>3. direct["base"] = <<>> /\ direct[c] = <<>>
    BY <1>1, <2>1
  <2>4. Names(<<>>) = {}
    BY DEF Names
  <2>5. b \in Seq(InfoItem) /\ Names(b) = {}
    BY <1>2, <2>2, <2>3, <2>4, InfoParts
  <2> HIDE DEF b
  <2>6. DOMAIN b = {}
    BY <2>5 DEF Names
  <2>7. b = <<>>
    BY <2>5, <2>6
  <2> QED BY <2>7 DEF b
<1>4. info = Info(direct)
  BY <1>1, <1>3 DEF Info
<1> QED BY <1>1, <1>2, <1>4 DEF LayoutInv, SaneState

\* Every action keeps the invariant and loses no value.
LEMMA SaneStep ==
  ASSUME Sane, SaneState, LayoutNext
  PROVE  SaneState' /\ NoneLost
<1>1. CASE \E c \in Class, n \in ItemName : \E t \in TypesOf(n) : Add(c, n, t)
  BY <1>1, AddStep
<1>2. CASE \E n \in AttributeName, t \in ItemType, k \in Object : AddFails(n, t, k)
  BY <1>2 DEF AddFails, Sane
<1>3. CASE \E c \in Class, n \in ItemName : RemoveItem(c, n)
  BY <1>3, RemoveItemStep
<1>4. ASSUME NEW c \in Class, NEW i \in DOMAIN direct[c], NEW j \in DOMAIN direct[c], Swap(c, i, j)
      PROVE  SaneState' /\ NoneLost
  BY <1>4, SwapStep
<1>5. ASSUME NEW c \in Class, NEW i \in DOMAIN direct[c], NEW n \in ItemName, SetName(c, i, n)
      PROVE  SaneState' /\ NoneLost
  BY <1>5, SetNameStep
<1>6. ASSUME NEW c \in Class, NEW i \in DOMAIN direct[c], NEW t \in TypesOf(direct[c][i].name), SetItemType(c, i, t)
      PROVE  SaneState' /\ NoneLost
  BY <1>6, SetTypeStep
<1>7. ASSUME NEW c \in Class, NEW i \in DOMAIN direct[c], NEW t \in ItemType, NEW k \in Object, SetTypeFails(c, i, t, k)
      PROVE  FALSE
  BY <1>7 DEF SetTypeFails, Sane
<1>8. CASE \E o \in Object : CreateObject(o) \/ DestroyObject(o)
  BY <1>8, CreateStep, DestroyObjectStep
<1> QED BY <1>1, <1>2, <1>3, <1>4, <1>5, <1>6, <1>7, <1>8 DEF LayoutNext

\* So does every step, and layout stays.
LEMMA LayoutStep ==
  ASSUME LayoutInv, [LayoutNext]_layoutVars
  PROVE  LayoutInv' /\ (Sane => NoneLost)
<1>1. layout' = layout
  <2>1. CASE LayoutNext
    <3>1. \A c, n, t : Add(c, n, t) => layout' = layout
      BY DEF Add, Register
    <3>2. \A n, t, k : AddFails(n, t, k) => layout' = layout
      BY DEF AddFails
    <3>3. \A c, n : RemoveItem(c, n) => layout' = layout
      BY DEF RemoveItem, Register
    <3>4. \A c, i, j : Swap(c, i, j) => layout' = layout
      BY DEF Swap, Register
    <3>5. \A c, i, n : SetName(c, i, n) => layout' = layout
      BY DEF SetName, Register
    <3>6. \A c, i, t : SetItemType(c, i, t) => layout' = layout
      BY DEF SetItemType
    <3>7. \A c, i, t, k : SetTypeFails(c, i, t, k) => layout' = layout
      BY DEF SetTypeFails
    <3>8. \A o : CreateObject(o) \/ DestroyObject(o) => layout' = layout
      BY DEF CreateObject, DestroyObject
    <3> QED BY <2>1, <3>1, <3>2, <3>3, <3>4, <3>5, <3>6, <3>7, <3>8 DEF LayoutNext
  <2> QED BY <2>1 DEF layoutVars
<1>2. layout' \in LayoutSetups /\ (Sane' <=> Sane)
  BY <1>1 DEF LayoutInv, Sane, delicate
<1>3. CASE LayoutNext
  BY <1>2, <1>3, SaneStep DEF LayoutInv
<1>4. CASE UNCHANGED layoutVars
  <2>1. LayoutInv' <=> LayoutInv
    BY <1>4 DEF LayoutInv, Sane, SaneState, Alive, Object, delicate, layoutVars
  <2>2. Alive' = Alive /\ \A o : \A n : ValueAt(o, n)' = ValueAt(o, n)
    BY <1>4 DEF Alive, ValueAt, layoutVars
  <2> QED BY <2>1, <2>2 DEF NoneLost
<1> QED BY <1>3, <1>4

\* The data info is always the one of the class's lists, and every object has a
\* value at each place, after any number of changes of the two classes in any
\* order (registrate_class_change, src/src/class.cpp:2008).
THEOREM LayoutInvariant == LayoutSpec => []LayoutInv
<1>1. LayoutInit => LayoutInv
  BY LayoutAssumption, LayoutInvInit DEF Apart
<1>2. LayoutInv /\ [LayoutNext]_layoutVars => LayoutInv'
  BY LayoutStep
<1> QED BY <1>1, <1>2, PTL DEF LayoutSpec

\* With no delicate change, GetAttributeValue finds at the offset of an attribute
\* or relationship its own value in its own type, or none, for any number of
\* names, types and objects.
THEOREM ValuesAreOwn == LayoutSpec => []OwnValues
<1>1. LayoutInv => OwnValues
  <2> SUFFICES ASSUME LayoutInv, delicate = {}, NEW o \in Alive, NEW n \in Names(info[ClassOf(o)])
               PROVE  OwnValue(o, n)
    BY DEF OwnValues
  <2> DEFINE k == ClassOf(o)
             a == AllItems(direct, k)
  <2>1. /\ DirectOK(direct) /\ info = Info(direct) /\ HasValues(values[o], a, {}) /\ k \in Class
    BY DEF LayoutInv, Sane, SaneState, ClassOf, Class
  <2>2. /\ info[k] = DataInfo(a) /\ Names(info[k]) = Names(a)
        /\ \A m \in DOMAIN a : PlaceOf(info[k], a[m].name) = m
    BY <2>1, InfoParts DEF Info
  <2>3. PICK m \in DOMAIN a : a[m].name = n
    BY <2>2 DEF Names
  <2>4. PlaceOf(a, n) = m
    BY <2>1, <2>3, ItemParts
  <2> HIDE DEF k, a
  <2>5. ValueAt(o, n) = values[o][m]
    BY <2>2, <2>3 DEF ValueAt, k
  <2> DEFINE v == values[o][m]
  <2>6. IsValue(v) /\ Holds(v, a[m])
    BY <2>1, <2>3 DEF HasValues
  <2> HIDE DEF v
  <2>7. v \in {Unset} \cup [of : {n, "nothing"}, type : {a[m].type}]
    BY <2>3, <2>6 DEF IsValue, Holds
  <2>8. TypeIn(a, n) = a[m].type
    BY <2>4 DEF TypeIn
  <2> QED BY <2>5, <2>7, <2>8 DEF OwnValue, k, a, v
<1> QED BY LayoutInvariant, <1>1, PTL

\* No change of a class makes an object lose the value of an attribute or
\* relationship that is there before and after it, even when an attribute is
\* overridden, or no longer is (registrate_instances, src/src/class.cpp:1866).
THEOREM NoValueIsLost == LayoutSpec => ValuesKept
<1>1. LayoutInv /\ [LayoutNext]_layoutVars => [Sane => NoneLost]_layoutVars
  BY LayoutStep
<1> QED BY LayoutInvariant, <1>1, PTL DEF LayoutSpec, ValuesKept, Sane, NoneLost
=============================================================================
