------------------------------ MODULE OksIndex ------------------------------
(***************************************************************************)
(* Indices of a class by an attribute (src/src/index.cpp) and what keeps   *)
(* them up to date: creation, destruction and attribute changes of objects *)
(* (init3, ~OksObject and SetAttributeValue of src/src/object.cpp).        *)
(*                                                                         *)
(* An index is a multiset of objects ordered by the value at a place of    *)
(* their data, which is fixed when the index is built.  Its iteration      *)
(* order is a sequence; a position is a number, the one after the last     *)
(* element is end().                                                       *)
(***************************************************************************)
EXTENDS Integers, FiniteSets, SequencesExt

CONSTANTS
    Object, Class, Index, Attribute, \* Index: OksIndex objects of the program
    Multi,                           \* the attributes with multiple values
    ValuesOf,                        \* the values of each attribute looked at
    NoClass, NoIndex,
    Careless                         \* the values of careless to look at

\* Calls that need care while a class has an index: two attributes are
\* swapped; objects are read again from their file; the index is for an
\* attribute with multiple values; there is one for the attribute already.
Delicate == {"swap", "reload", "multiValues", "secondIndex"}

ASSUME IndexAssumption ==
    /\ IsFiniteSet(Object) /\ IsFiniteSet(Attribute)
    /\ ValuesOf \in [Attribute -> SUBSET Nat] /\ Multi \subseteq Attribute
    /\ NoClass \notin Class /\ NoIndex \notin Index
    /\ NoIndex \notin [class : Class, attribute : Attribute, offset : Nat, objects : Seq(Object)]
    /\ Careless \subseteq SUBSET Delicate

VARIABLES
    class,    \* the class of an object that exists
    value,    \* its attribute values
    place,    \* the attribute at each offset of an object's data
    index,    \* the OksIndex objects: class, attribute, offset and elements
    indices,  \* OksClass::p_indices
    careless  \* the delicate things that happen in this behaviour

vars == <<class, value, place, index, indices, careless>>

Values == {v \in [Attribute -> UNION {ValuesOf[a] : a \in Attribute}] :
              \A a \in Attribute : v[a] \in ValuesOf[a]}
Existing == {o \in Object : class[o] # NoClass}
Instances(c) == {o \in Object : class[o] = c}
Indexed(c) == \E a \in Attribute : indices[c][a] # NoIndex
Offset(a) == CHOOSE n \in DOMAIN place : place[n] = a

\* OksData::operator<: lists cannot be compared.
Less(a, v, w) == a \notin Multi /\ v < w
LessOrEqual(a, v, w) == a \notin Multi /\ v <= w

-----------------------------------------------------------------------------
(* The ordered multiset. *)

\* (*pos)->data[offset] at position n of index x
At(x, n) == value[index[x].objects[n]][place[index[x].offset]]
End(x) == Len(index[x].objects) + 1
FirstOf(S) == CHOOSE n \in S : \A m \in S : n <= m

LowerBound(x, d) ==
    FirstOf({n \in 1..End(x) : n = End(x) \/ ~Less(place[index[x].offset], At(x, n), d)})

UpperBound(x, d) ==
    FirstOf({n \in 1..End(x) : n = End(x) \/ Less(place[index[x].offset], d, At(x, n))})

\* What index x holds after insert(o) of an object with value d at the offset.
Insert(x, o, d) == InsertAt(index[x].objects, UpperBound(x, d), o)

\* What it holds after remove_obj(o): o is looked for among the equal ones.
RemoveObj(x, o) ==
    LET d == value[o][place[index[x].offset]]
        found == {n \in LowerBound(x, d)..UpperBound(x, d) - 1 : index[x].objects[n] = o}
    IN  IF found = {} THEN index[x].objects ELSE RemoveAt(index[x].objects, FirstOf(found))

-----------------------------------------------------------------------------
(* Searches in the index. *)

\* The interval of positions of the elements e with "e f d".
FindInterval(x, d, f) ==
    CASE index[x].objects = <<>> -> <<End(x), End(x)>>
      [] f = "=" -> LET first == LowerBound(x, d)
                    IN  IF first # End(x) /\ At(x, first) = d
                        THEN <<first, UpperBound(x, d)>>
                        ELSE <<first, first>>
      [] f = "<" -> <<1, LowerBound(x, d)>>
      [] f = "<=" -> <<1, UpperBound(x, d)>>
      [] f = ">" -> <<UpperBound(x, d), End(x)>>
      [] f = ">=" -> <<LowerBound(x, d), End(x)>>
      [] OTHER -> <<End(x), End(x)>>

Slice(x, from, to) == SubSeq(index[x].objects, from, to - 1)

FindAll(x, d, f) == LET i == FindInterval(x, d, f) IN Slice(x, i[1], i[2])

Lesser(x, n, m) == Less(place[index[x].offset], At(x, n), At(x, m))
NotGreater(x, n, m) == LessOrEqual(place[index[x].offset], At(x, n), At(x, m))

\* The end that comes first, the end that comes last
InnerEnd(x, n, m) ==
    IF End(x) \in {n, m} THEN (IF m # End(x) THEN m ELSE n)
    ELSE IF NotGreater(x, m, n) THEN m ELSE n
OuterEnd(x, n, m) ==
    IF End(x) \in {n, m} THEN End(x) ELSE IF NotGreater(x, n, m) THEN m ELSE n

\* The intersection up to the later of the two ends
BuggyIntersection(x, a1, b1, a2, b2) ==
    Slice(x, IF NotGreater(x, a2, a1) THEN a1 ELSE a2, OuterEnd(x, b1, b2))

\* Intersection of [a1, b1] and [a2, b2], both not empty
Intersection(x, a1, b1, a2, b2) ==
    LET first == IF NotGreater(x, a2, a1) THEN a1 ELSE a2
        disjoint == IF NotGreater(x, a2, a1) THEN b2 # End(x) /\ Lesser(x, b2, a1)
                                             ELSE b1 # End(x) /\ Lesser(x, b1, a2)
    IN  IF disjoint THEN <<>> ELSE Slice(x, first, InnerEnd(x, b1, b2))

\* Union of [a1, b1] and [a2, b2], both not empty
Union(x, a1, b1, a2, b2) ==
    IF NotGreater(x, a2, a1)
    THEN IF b2 # End(x) /\ Lesser(x, b2, a1)
         THEN Slice(x, a2, b2) \o Slice(x, a1, b1)
         ELSE Slice(x, a2, OuterEnd(x, b1, b2))
    ELSE IF b1 # End(x) /\ Lesser(x, b1, a2)
         THEN Slice(x, a1, b1) \o Slice(x, a2, b2)
         ELSE Slice(x, a1, OuterEnd(x, b1, b2))

FindAllOfTwo(x, and, d1, f1, d2, f2) ==
    LET i == FindInterval(x, d1, f1)
        j == FindInterval(x, d2, f2)
    IN  CASE i[1] = i[2] /\ (and \/ j[1] = j[2]) -> <<>>
          [] j[1] = j[2] /\ i[1] # i[2] -> IF and THEN <<>> ELSE Slice(x, i[1], i[2])
          [] i[1] = i[2] /\ ~and /\ j[1] # j[2] -> Slice(x, j[1], j[2])
          [] OTHER -> IF and THEN Intersection(x, i[1], i[2], j[1], j[2])
                             ELSE Union(x, i[1], i[2], j[1], j[2])

-----------------------------------------------------------------------------
(* The operations. *)

NoValues == [a \in Attribute |-> 0]

IndexInit ==
    /\ class = [o \in Object |-> NoClass]
    /\ value = [o \in Object |-> NoValues]
    /\ place \in SetToSeqs(Attribute)
    /\ index = [x \in Index |-> NoIndex]
    /\ indices = [c \in Class |-> [a \in Attribute |-> NoIndex]]
    /\ careless \in Careless

\* The registered indices of class c with the elements New(x)
Reindexed(c, New(_)) ==
    [x \in Index |-> IF \E a \in Attribute : indices[c][a] = x
                     THEN [index[x] EXCEPT !.objects = New(x)] ELSE index[x]]

Create(o, c, v) ==
    /\ class[o] = NoClass
    /\ class' = [class EXCEPT ![o] = c]
    /\ value' = [value EXCEPT ![o] = v]
    /\ index' = Reindexed(c, LAMBDA x : Insert(x, o, v[place[index[x].offset]]))
    /\ UNCHANGED <<place, indices, careless>>

Destroy(o) ==
    /\ class[o] # NoClass
    /\ index' = Reindexed(class[o], LAMBDA x : RemoveObj(x, o))
    /\ class' = [class EXCEPT ![o] = NoClass]
    /\ value' = [value EXCEPT ![o] = NoValues]
    /\ UNCHANGED <<place, indices, careless>>

\* The value changes before the object is taken out of the index.
LateMoved(x, o, d) == IF Len(index[x].objects) = 1 THEN index[x].objects
                      ELSE InsertAt(index[x].objects, UpperBound(x, d), o)

\* The value is replaced between the removal and the insertion.
Moved(x, o, d) ==
    LET rest == RemoveObj(x, o)
        a == place[index[x].offset]
        n == FirstOf({m \in 1..Len(rest) + 1 :
                 m = Len(rest) + 1 \/ Less(a, d, value[rest[m]][a])})
    IN  InsertAt(rest, n, o)

SetAttributeValue(o, a, v) ==
    /\ class[o] # NoClass
    /\ value' = [value EXCEPT ![o][a] = v]
    /\ LET x == indices[class[o]][a]
       IN  index' = IF x = NoIndex THEN index
                    ELSE [index EXCEPT ![x].objects = Moved(x, o, v)]
    /\ UNCHANGED <<class, place, indices, careless>>

\* read_body of a reload stores the values without a look at the indices.
Reread(o, v) ==
    /\ class[o] # NoClass
    /\ Indexed(class[o]) => "reload" \in careless
    /\ value' = [value EXCEPT ![o] = v]
    /\ UNCHANGED <<class, place, index, indices, careless>>

\* Swapping two attributes of a class moves the values of its objects.
SwapAttributes(m, n) ==
    /\ m # n /\ {m, n} \subseteq DOMAIN place
    /\ (\E c \in Class : Indexed(c)) => "swap" \in careless
    /\ place' = [place EXCEPT ![m] = place[n], ![n] = place[m]]
    /\ UNCHANGED <<class, value, index, indices, careless>>

\* The objects of class c sorted by a, equal ones in the order of p_objects
SortedInstances(c, a) ==
    {s \in SetToSeqs(Instances(c)) :
        \A m, n \in DOMAIN s : m < n => ~Less(a, value[s[n]][a], value[s[m]][a])}

\* The constructor; when the class has an index for the attribute the new
\* one stays empty and unknown to the class.
NewIndex(x, c, a) ==
    /\ index[x] = NoIndex
    /\ a \in Multi => "multiValues" \in careless
    /\ IF indices[c][a] = NoIndex
       THEN /\ \E s \in SortedInstances(c, a) :
                   index' = [index EXCEPT ![x] =
                       [class |-> c, attribute |-> a, offset |-> Offset(a), objects |-> s]]
            /\ indices' = [indices EXCEPT ![c][a] = x]
       ELSE /\ "secondIndex" \in careless
            /\ index' = [index EXCEPT ![x] =
                   [class |-> c, attribute |-> a, offset |-> Offset(a), objects |-> <<>>]]
            /\ UNCHANGED indices
    /\ UNCHANGED <<class, value, place, careless>>

\* The destructor takes whatever index of the attribute the class knows off
\* its list.  (Without any it uses a null p_indices.)
DeleteIndex(x) ==
    /\ index[x] # NoIndex
    /\ Indexed(index[x].class)
    /\ indices' = [indices EXCEPT ![index[x].class][index[x].attribute] = NoIndex]
    /\ index' = [index EXCEPT ![x] = NoIndex]
    /\ UNCHANGED <<class, value, place, careless>>

IndexNext ==
    \/ \E o \in Object, c \in Class, v \in Values : Create(o, c, v)
    \/ \E o \in Object : Destroy(o)
    \/ \E o \in Object, a \in Attribute : \E v \in ValuesOf[a] : SetAttributeValue(o, a, v)
    \/ \E o \in Object, v \in Values : Reread(o, v)
    \/ \E m, n \in DOMAIN place : m < n /\ SwapAttributes(m, n)
    \/ \E x \in Index, c \in Class, a \in Attribute : NewIndex(x, c, a)
    \/ \E x \in Index : DeleteIndex(x)

\* Queries read this state and change none of it.
IndexSpec == IndexInit /\ [][IndexNext]_vars

-----------------------------------------------------------------------------
(* Properties. *)

\* The type invariant.
TypeOK ==
    /\ class \in [Object -> Class \cup {NoClass}]
    /\ value \in [Object -> Values \cup {NoValues}]
    /\ place \in SetToSeqs(Attribute)
    /\ indices \in [Class -> [Attribute -> Index \cup {NoIndex}]]
    /\ index \in [Index -> {NoIndex} \cup [class : Class, attribute : Attribute,
                                          offset : DOMAIN place, objects : Seq(Object)]]

\* An index of the program holds each object of its class once and the class
\* knows it, whatever was created, destroyed or changed since; it is in the
\* order of its attribute, unless the values cannot be compared.
IndexIsExact ==
    careless \subseteq {"multiValues"} => \A x \in Index : index[x] # NoIndex =>
        LET a == index[x].attribute
        IN  /\ indices[index[x].class][a] = x
            /\ IsInjective(index[x].objects)
            /\ ToSet(index[x].objects) = Instances(index[x].class)
            /\ a \notin Multi => \A m, n \in DOMAIN index[x].objects :
                   m < n => value[index[x].objects[m]][a] <= value[index[x].objects[n]][a]
=============================================================================
