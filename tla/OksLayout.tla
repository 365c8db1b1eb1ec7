------------------------------ MODULE OksLayout ------------------------------
(***************************************************************************)
(* Where an object keeps the values of its attributes and relationships,   *)
(* and what becomes of them when the class is changed: add, remove and     *)
(* swap of attributes and relationships, set_name, set_type and the        *)
(* cardinalities (src/src/class.cpp, src/src/attribute.cpp,                *)
(* src/src/relationship.cpp).                                              *)
(*                                                                         *)
(* There is a class and one derived from it, with their objects.  A value  *)
(* is what it is the value of and its type: a data type of an attribute,   *)
(* "one" or "many" of a relationship.  Attributes and relationships have   *)
(* different names, and an attribute is equal to another one when name and *)
(* type are.                                                               *)
(***************************************************************************)
EXTENDS Naturals, SequencesExt

CONSTANTS
    AttributeName, RelationshipName,
    ItemType,      \* data types of attributes, with their multi-value flag
    LayoutSetups   \* what is looked at: the objects (the first is of the base
                   \* class), a bound on the attributes and relationships of
                   \* both classes, and the delicate changes made

\* Changes that need care when there are objects: an attribute or relationship
\* gets its place before others; one is renamed; one that overrides an
\* inherited one is removed; one is retyped that is overridden; a value cannot
\* be converted; an object is made when an attribute was retyped.
DelicateChange == {"insert", "rename", "removeOverride", "retypeOverridden",
                   "noConversion", "retyped"}

ASSUME LayoutAssumption ==
    /\ AttributeName \cap RelationshipName = {}
    /\ LayoutSetups \subseteq [objects : SUBSET Nat, max : Nat, careless : SUBSET DelicateChange]

Class == {"base", "derived"}
ClassOf(o) == IF o = 1 THEN "base" ELSE "derived"
ItemName == AttributeName \cup RelationshipName
TypesOf(n) == IF n \in AttributeName THEN ItemType ELSE {"one", "many"}

\* A value that is of no type: an OksData as it is constructed.
Unset == [of |-> "nothing", type |-> "unknown"]

VARIABLES
    direct,  \* p_attributes, then p_relationships: name, type, and the type of
             \* the initial data (p_init_data)
    info,    \* p_data_info in the order of the offsets: the name of each
             \* attribute and relationship, and the class that defines it
    values,  \* OksObject::data of the objects there are
    layout   \* which of LayoutSetups is looked at

layoutVars == <<direct, info, values, layout>>

Object == layout.objects
delicate == layout.careless

NewItem(n, t) == [name |-> n, type |-> t, init |-> t]
Names(s) == {s[i].name : i \in DOMAIN s}

\* The elements of s at the places K, in their order.
Only(s, K) == [i \in 1 .. Cardinality(K) |-> s[CHOOSE k \in K : Cardinality({j \in K : j <= k}) = i]]
Named(s, N) == Only(s, {i \in DOMAIN s : s[i].name \in N})
Attributes(s) == Named(s, AttributeName)
Relationships(s) == Named(s, RelationshipName)
PlaceOf(s, n) == SelectInSeq(s, LAMBDA x : x.name = n)
TypeIn(s, n) == s[PlaceOf(s, n)].type

Alive == DOMAIN values
Room == Len(direct["base"]) + Len(direct["derived"]) < layout.max
LayoutInit ==
    /\ layout \in LayoutSetups
    /\ direct = [c \in Class |-> <<>>]
    /\ info = [c \in Class |-> <<>>]
    /\ values = [o \in {} |-> <<>>]

-----------------------------------------------------------------------------
(* Registration *)

\* create_attributes and create_relationships: those of the base class that are
\* not overridden, then the direct ones; attributes before relationships.
Owned(d, k) == [i \in DOMAIN d[k] |-> [owner |-> k, name |-> d[k][i].name,
                                      type |-> d[k][i].type, init |-> d[k][i].init]]
AllItems(d, c) ==
    LET kept == Named(Owned(d, "base"), ItemName \ Names(d[c]))
    IN  IF c = "base" THEN Owned(d, c)
        ELSE Attributes(kept) \o Attributes(Owned(d, c))
             \o Relationships(kept) \o Relationships(Owned(d, c))

DataInfo(items) == [i \in DOMAIN items |-> [name |-> items[i].name, owner |-> items[i].owner]]

\* The old attribute x of the data info and the new one y are equal.  When x was
\* deleted, the comparison reads freed memory and the outcome is given by luck.
Equal(x, y, luck) ==
    \/ x.owner = y.owner
    \/ luck = "equal"
    \/ luck = "compared" /\ TypeIn(direct[x.owner], x.name) = y.type

\* OksData::cvt and OksData::ConvertTo: what is not the value of anything becomes
\* the null value of type t, or no reference, which has no type.
Convert(v, t) == IF v.of = "nothing" /\ t = "one" THEN Unset ELSE [v EXCEPT !.type = t]

\* Mutant: the values stay where they are.
BuggyMove(v, old, new, luck) ==
    [i \in DOMAIN new |-> IF i \in DOMAIN v THEN v[i] ELSE Unset]

\* Mutant: a value of an attribute that is overridden from now on is not taken.
ForgetfulMove(v, old, new, luck) ==
    [i \in DOMAIN new |->
       IF new[i].name \in Names(old) /\ old[PlaceOf(old, new[i].name)].owner = new[i].owner
         THEN v[PlaceOf(old, new[i].name)] ELSE Unset]

\* registrate_instances, for the values v of an object: the attributes that were
\* there already take the first places, one after the other; the others get no
\* value.
Move(v, old, new, luck) ==
    LET kept == Named(new, Names(old))
        moved(y) == LET p == PlaceOf(old, y.name)
                    IN  IF Equal(old[p], y, luck) THEN v[p] ELSE Convert(v[p], y.type)
    IN  [i \in DOMAIN new |-> IF i \in DOMAIN kept THEN moved(kept[i]) ELSE Unset]

\* thereAreChanges: an attribute is new, at another offset, or not equal.
Changed(old, new, luck) ==
    \E i \in DOMAIN new :
       ~ (i \in DOMAIN old /\ old[i].name = new[i].name /\ Equal(old[i], new[i], luck))

Moved(v, old, new, luck) == IF Changed(old, new, luck) THEN Move(v, old, new, luck) ELSE v

\* The classes registrate_class_change of c visits.
Visited(c) == IF c = "base" THEN Class ELSE {c}

\* The direct attributes of the visited classes get initial data anew when the
\* list of attributes changes (create_attributes).
Refreshed(c, d) ==
    [k \in Class |->
       IF k \in Visited(c) /\ Attributes(d[c]) # Attributes(direct[c])
         THEN [i \in DOMAIN d[k] |-> [d[k][i] EXCEPT !.init = d[k][i].type]] ELSE d[k]]

\* registrate_class_change after the direct lists became d.
Register(c, d, luck) ==
    /\ direct' = Refreshed(c, d)
    /\ info' = [k \in Class |-> IF k \in Visited(c) THEN DataInfo(AllItems(d, k)) ELSE info[k]]
    /\ values' = [o \in Alive |->
                  IF ClassOf(o) \in Visited(c)
                    THEN Moved(values[o], info[ClassOf(o)], AllItems(d, ClassOf(o)), luck)
                    ELSE values[o]]
    /\ UNCHANGED layout

\* The new items of each class with objects are behind those it had.
AtEnd(c, d) ==
    \A o \in Alive : ClassOf(o) \in Visited(c) =>
        LET new == AllItems(d, ClassOf(o))
            old == Names(info[ClassOf(o)])
        IN  \A i, j \in DOMAIN new : i < j /\ new[j].name \in old => new[i].name \in old

-----------------------------------------------------------------------------
(* Changes of a class *)

WithItem(s, x) ==
    IF x.name \in AttributeName THEN Attributes(s) \o <<x>> \o Relationships(s) ELSE Append(s, x)

\* add of an attribute or a relationship.
Add(c, n, t) ==
    LET d == [direct EXCEPT ![c] = WithItem(@, NewItem(n, t))]
    IN  /\ Room /\ n \notin Names(direct[c])
        /\ "insert" \in delicate \/ AtEnd(c, d)
        /\ Register(c, d, "compared")

\* add of an attribute that overrides an inherited one of another type, when
\* the value of object k cannot be converted: the objects before it have been
\* moved, k has lost the values before that one, and the places of values are
\* still the old ones.
AddFails(n, t, k) ==
    LET d   == [direct EXCEPT !["derived"] = WithItem(@, NewItem(n, t))]
        old == info["derived"]
        new == AllItems(d, "derived")
        lost == Names(SubSeq(new, 1, PlaceOf(new, n) - 1))
    IN  /\ Room /\ "noConversion" \in delicate
        /\ n \notin Names(direct["derived"])
        /\ k \in Alive /\ ClassOf(k) = "derived"
        /\ n \in Names(direct["base"]) /\ TypeIn(direct["base"], n) # t
        /\ values[k][PlaceOf(old, n)] # Unset
        /\ direct' = Refreshed("derived", d)
        /\ values' = [o \in Alive |->
              IF ClassOf(o) = "base" \/ o > k THEN values[o]
              ELSE IF o < k THEN Moved(values[o], old, new, "compared")
              ELSE [i \in DOMAIN values[o] |-> IF i \in DOMAIN old /\ old[i].name \in lost
                                               THEN Unset ELSE values[o][i]]]
        /\ UNCHANGED <<info, layout>>

\* The direct item is deleted before the lists are made anew: when an inherited
\* one of its name appears, it is compared with the deleted one, which may turn
\* out equal or not.
RemoveItem(c, n) ==
    /\ n \in Names(direct[c])
    /\ LET d == [direct EXCEPT ![c] = Named(@, ItemName \ {n})]
           override == c = "derived" /\ n \in Names(direct["base"])
       IN  /\ "removeOverride" \in delicate \/ ~override
           /\ "insert" \in delicate \/ AtEnd(c, d)
           /\ \E luck \in IF override THEN {"equal", "different"} ELSE {"compared"} :
                Register(c, d, luck)

\* swap.
Swap(c, i, j) ==
    /\ i < j
    /\ \/ {direct[c][i].name, direct[c][j].name} \subseteq AttributeName
       \/ {direct[c][i].name, direct[c][j].name} \subseteq RelationshipName
    /\ Register(c, [direct EXCEPT ![c][i] = direct[c][j], ![c][j] = direct[c][i]], "compared")

\* set_name: for registrate_instances the new name is another attribute.
SetName(c, i, n) ==
    /\ n \notin Names(direct[c])
    /\ (n \in AttributeName) = (direct[c][i].name \in AttributeName)
    /\ LET d == [direct EXCEPT ![c][i].name = n]
       IN  /\ "rename" \in delicate \/ AtEnd(c, d)
           /\ Register(c, d, "compared")

\* registrate_attribute_change and registrate_relationship_change for the
\* objects in O: the value with the name is converted, also where another
\* attribute overrides this one.
ConvertEach(c, n, t, O) ==
    values' = [o \in Alive |->
               IF o \in O /\ ClassOf(o) \in Visited(c)
                 THEN [values[o] EXCEPT ![PlaceOf(info[ClassOf(o)], n)] = Convert(@, t)]
                 ELSE values[o]]

\* set_type, set_is_multi_values, and the cardinalities of a relationship.  The
\* initial data of an attribute stay what they are.
SetItemType(c, i, t) ==
    LET n == direct[c][i].name
    IN  /\ t # direct[c][i].type
        /\ "retypeOverridden" \in delicate
             \/ ~ (c = "base" /\ n \in Names(direct["derived"]))
        /\ direct' = IF n \in AttributeName THEN [direct EXCEPT ![c][i].type = t]
                                          ELSE [direct EXCEPT ![c][i] = NewItem(n, t)]
        /\ ConvertEach(c, n, t, Alive)
        /\ UNCHANGED <<info, layout>>

\* The value of object k cannot be converted: the attribute keeps the new type.
SetTypeFails(c, i, t, k) ==
    LET n == direct[c][i].name
    IN  /\ "noConversion" \in delicate
        /\ n \in AttributeName /\ t # direct[c][i].type
        /\ k \in Alive /\ ClassOf(k) \in Visited(c)
        /\ values[k][PlaceOf(info[ClassOf(k)], n)] # Unset
        /\ direct' = [direct EXCEPT ![c][i].type = t]
        /\ ConvertEach(c, n, t, {o \in Alive : o < k})
        /\ UNCHANGED <<info, layout>>

-----------------------------------------------------------------------------
(* Objects *)

\* A new object has the initial data, of the type they have.
CreateObject(o) ==
    LET items == AllItems(direct, ClassOf(o))
    IN  /\ o \notin Alive
        /\ "retyped" \in delicate \/ \A i \in DOMAIN items : items[i].init = items[i].type
        /\ values' = [x \in Alive \cup {o} |->
             IF x = o THEN [i \in DOMAIN items |-> [of |-> items[i].name, type |-> items[i].init]]
                      ELSE values[x]]
        /\ UNCHANGED <<direct, info, layout>>

DestroyObject(o) ==
    /\ o \in Alive
    /\ values' = [x \in Alive \ {o} |-> values[x]]
    /\ UNCHANGED <<direct, info, layout>>

LayoutNext ==
    \/ \E c \in Class, n \in ItemName : \E t \in TypesOf(n) : Add(c, n, t)
    \/ \E n \in AttributeName, t \in ItemType, k \in Object : AddFails(n, t, k)
    \/ \E c \in Class, n \in ItemName : RemoveItem(c, n)
    \/ \E c \in Class : \E i \in DOMAIN direct[c] :
         \/ \E j \in DOMAIN direct[c] : Swap(c, i, j)
         \/ \E n \in ItemName : SetName(c, i, n)
         \/ \E t \in TypesOf(direct[c][i].name) : SetItemType(c, i, t)
         \/ \E t \in ItemType, k \in Object : SetTypeFails(c, i, t, k)
    \/ \E o \in Object : CreateObject(o) \/ DestroyObject(o)

LayoutSpec == LayoutInit /\ [][LayoutNext]_layoutVars

-----------------------------------------------------------------------------
(* Properties *)

\* Each variable has its type, and each object has a value at each offset.
TypeOK ==
    /\ direct \in [Class -> Seq([name : ItemName, type : ItemType \cup {"one", "many"},
                               init : ItemType \cup {"one", "many"}])]
    /\ \A c \in Class : \A s \in {direct[c], info[c]} :
         \A i, j \in DOMAIN s : s[i].name = s[j].name => i = j
    /\ Alive \subseteq Object
    /\ \A o \in Alive : Len(info[ClassOf(o)]) <= Len(values[o])

ValueAt(o, n) == values[o][PlaceOf(info[ClassOf(o)], n)]

\* GetAttributeValue "returns pointer on OksData value for given attribute"
\* (src/include/oks/object.hpp:1326): at the offset of an attribute or
\* relationship there is its value, of its type, or no value at all; after any
\* number of changes, that are not delicate ones, of the class and of the one it
\* is derived from.
OwnValue(o, n) ==
    ValueAt(o, n) \in {Unset} \cup [of : {n, "nothing"},
                                 type : {TypeIn(AllItems(direct, ClassOf(o)), n)}]
OwnValues ==
    delicate = {} => \A o \in Alive : \A n \in Names(info[ClassOf(o)]) : OwnValue(o, n)

\* No change of a class loses a value of an attribute or relationship that is
\* there before and after it, be it another one by then.
ValuesKept ==
    [][delicate \subseteq {"removeOverride", "retypeOverridden"} =>
         \A o \in Alive \cap Alive' :
            \A n \in Names(info[ClassOf(o)]) \cap Names(info'[ClassOf(o)]) :
               ValueAt(o, n).of # "nothing" => ValueAt(o, n)'.of # "nothing"]_layoutVars
=============================================================================
