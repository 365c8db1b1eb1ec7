------------------------------ MODULE OksValues ------------------------------
(***************************************************************************)
(* The values of an attribute: from text and to text, their conversion and *)
(* range check (OksData, src/src/data.cpp), the setters of the attribute   *)
(* (src/src/attribute.cpp), and what put and read_body of                  *)
(* src/src/object.cpp write to a data file and read from it.               *)
(*                                                                         *)
(* There is one attribute of one class, its objects and their data file.   *)
(* A text is empty, a number or a word.  Floating point numbers, dates and *)
(* classes are left out.  Schema and data are read by a new process.       *)
(***************************************************************************)
EXTENDS Integers, SequencesExt

CONSTANTS
    Byte,      \* the bits of a byte
    Setups     \* the values of setup to look at

Empty == <<"empty">>
Number(n) == <<"number", n>>
Word(w) == <<"word", w>>
\* What a pointer to freed memory reads.
Gone == <<"gone">>
Star == <<"star">>     \* no bound

Bytes == [s8 |-> 1, s16 |-> 2, s32 |-> 4, s64 |-> 8, u8 |-> 1, u16 |-> 2, u32 |-> 4, u64 |-> 8]
Integer == DOMAIN Bytes
Signed == {"s8", "s16", "s32", "s64"}
Type == Integer \cup {"bool", "string", "enum"}
IsNumber(t) == t \in Integer \cup {"bool"}

\* Changes that need care: an object is made, or the data saved, when the
\* attribute was changed since its initial data were computed; a change leaves
\* values out of range; it touches the enumerators that values point to; a
\* value cannot be converted; a negative s64 is written hexadecimal.
Delicate == {"stale", "narrow", "enumerators", "noConversion", "hexadecimal"}

\* A setup: the objects; the types, ranges, initial values, formats and
\* multi-value flags the attribute may get (it starts with one of types); the
\* values set, each with its type; the delicate changes made.  Where there are
\* enumerations a range lists values: an interval "*" would let any value pass.
ASSUME ValuesAssumption ==
    /\ Byte \in Nat \ {0, 1}
    /\ \A u \in Setups :
         /\ u.types \subseteq Type /\ u.multi \subseteq BOOLEAN /\ u.formats \subseteq {"dec", "hex"}
         /\ <<>> \in u.ranges /\ Empty \in u.inits
         /\ \A r \in u.ranges : r \in Seq(Range(r)) /\ \A t \in Range(r) : t[1] # Gone
         /\ "enum" \in u.types => \A r \in u.ranges : \A t \in Range(r) : t[1] # Star
         /\ \A i \in u.inputs : i[1] \in Type
         /\ u.careless \subseteq Delicate

VARIABLES
    setup,
    attr,      \* OksAttribute: its type, multi-value flag, range, initial value
               \* and format; limits is p_range_obj, enums p_enumerators
    initData,  \* p_init_data
    data,      \* the attribute's value in each object there is
    file       \* per object of the data file, the attribute's element or none

vars == <<setup, attr, initData, data, file>>

There == DOMAIN data
careless == setup.careless

\* OksData: a list or a single item; an item is a type and its value.
Single(x) == [list |-> FALSE, items |-> <<x>>]
List(s) == [list |-> TRUE, items |-> s]

-----------------------------------------------------------------------------
(* Numbers *)

Bits(t) == Bytes[t] * Byte
Long == Bits("s64")

Truncate(n, bits) == n % 2^bits
\* static_cast to an integer type.
Cast(n, t) ==
    IF t \in Signed THEN Truncate(n + 2^(Bits(t) - 1), Bits(t)) - 2^(Bits(t) - 1)
                    ELSE Truncate(n, Bits(t))

\* strtol or strtoul sets ERANGE.
Overflows(n, t) ==
    IF t \in Signed THEN n \notin -(2^(Long - 1)) .. 2^(Long - 1) - 1
                    ELSE n \notin -(2^Long - 1) .. 2^Long - 1
\* What strtol or strtoul returns, before the cast.
Parsed(n, t) ==
    IF ~Overflows(n, t) THEN n
    ELSE IF t \notin Signed THEN 2^Long - 1
    ELSE IF n < 0 THEN -(2^(Long - 1)) ELSE 2^(Long - 1) - 1

-----------------------------------------------------------------------------
(* Texts and values *)

\* The number at the start of a text.
Leading(x) == IF x[1] = "number" THEN x[2] ELSE 0

\* SetNullValue.
Null(a) ==
    CASE IsNumber(a.type)   -> 0
      [] a.type = "string"  -> Empty
      [] a.type = "enum"    -> IF a.enums = <<>> THEN Gone ELSE a.enums[1]

\* An enumeration has the text among its values; other types take any text.
Accepts(x, a) == a.type = "enum" /\ x # Empty => x \in Range(a.enums)

\* SetValue, and get_enum_value where it does not fail.
Value(x, a) ==
    CASE x = Empty          -> Null(a)
      [] a.type \in Integer -> Cast(Parsed(Leading(x), a.type), a.type)
      [] a.type = "bool"    -> IF x \in {Word("true"), Number(1)} THEN 1 ELSE 0
      [] OTHER              -> x
Item(x, a) == <<a.type, Value(x, a)>>

\* str.
Str(i) ==
    CASE i[1] \in Integer -> Number(i[2])
      [] i[1] = "bool"    -> Word(IF i[2] = 1 THEN "true" ELSE "false")
      [] OTHER            -> i[2]

\* The texts cvt passes to the items of the new data.
Texts(d, a) ==
    LET s == [i \in DOMAIN d.items |-> Str(d.items[i])]
    IN  IF a.multi THEN s ELSE IF s = <<>> THEN <<Empty>> ELSE <<Head(s)>>

\* Mutant: a list is not cut to its first item.
BuggyCvt(d, a) ==
    LET s == [i \in DOMAIN d.items |-> Str(d.items[i])]
    IN  [list |-> a.multi, items |-> [i \in DOMAIN s |-> Item(s[i], a)]]

\* cvt.
Cvt(d, a) ==
    LET s == Texts(d, a)
    IN  [list |-> a.multi, items |-> [i \in DOMAIN s |-> Item(s[i], a)]]

Converts(d, a) == \A x \in Range(Texts(d, a)) : Accepts(x, a)

\* set_init_value.
InitData(a) ==
    IF a.multi /\ a.init = Empty THEN List(<<>>)
    ELSE [list |-> a.multi, items |-> <<Item(a.init, a)>>]

-----------------------------------------------------------------------------
(* Ranges.  A range is a sequence of intervals of texts. *)

\* init_enum: the names of the values.
Enumerators(range) == [i \in DOMAIN range |-> range[i][1]]

\* OksRange::reset: no limit, or those given by the tokens.  The range of a
\* string is a regular expression; that of one word matches the word.
Limits(a) ==
    LET bound(x) == IF x = Star THEN Star ELSE Item(x, a)
        open(t) == t[1] = Star /\ t[2] = Star
    IN  IF a.type = "string"
          THEN IF a.range = <<>> THEN {}
               ELSE IF Len(a.range) = 1 /\ a.range[1][1] = a.range[1][2]
                 THEN {<<bound(a.range[1][1]), bound(a.range[1][2])>>}
               ELSE {"nothing"}
        ELSE IF \E t \in Range(a.range) : open(t) THEN {}
        ELSE {<<bound(t[1]), bound(t[2])>> : t \in Range(a.range)}

\* Values of different types are not comparable.
Within(i, l) ==
    /\ l # "nothing" /\ \A k \in {1, 2} : l[k] # Star => l[k][1] = i[1]
    /\ \/ l[1] = l[2] /\ i = l[1]
       \/ /\ IsNumber(i[1])
          /\ l[1] # Star => l[1][2] <= i[2]
          /\ l[2] # Star => i[2] <= l[2][2]

\* check_range.
InRange(d, a) ==
    a.limits # {} => \A i \in Range(d.items) : \E l \in a.limits : Within(i, l)

\* validate_init2range.
InitValid(a) ==
    a.range # <<>> => Accepts(a.init, a) /\ InRange(InitData(a), a)

-----------------------------------------------------------------------------
(* The data file *)

\* WriteTo: a negative number in hexadecimal is its bits; those of s8 are
\* written as s16.
Written(i, a) ==
    CASE i[1] \in Integer ->
           Number(IF a.type \in Integer /\ a.format = "hex"
                    THEN Truncate(i[2], IF i[1] = "s8" THEN Bits("s16") ELSE Bits(i[1]))
                    ELSE i[2])
      [] i[1] = "bool" -> Number(i[2])
      [] OTHER -> i[2]

Element(d, a) ==
    [type |-> a.type, list |-> d.list,
     texts |-> [i \in DOMAIN d.items |-> Written(d.items[i], a)]]

\* Mutant: null values are not written, whatever the initial value.
BuggyOmits(d, force, a, ini) == ~force /\ d = Single(<<a.type, Null(a)>>)

\* put writes no element for a value that is the initial one when a reader
\* finds it without: there is no initial value, or it is the number 0.
Omits(d, force, a, ini) ==
    /\ ~force /\ d = ini
    /\ a.init = Empty \/ (~a.multi /\ IsNumber(a.type) /\ a.init = Number(0))

Put(d, force, a, ini) == IF Omits(d, force, a, ini) THEN <<>> ELSE <<Element(d, a)>>

\* OksData::read of one text with type t; it may fail.
Readable(x, t) == IsNumber(t) => x[1] \in {"number", "empty"} /\ ~Overflows(Leading(x), IF t = "bool" THEN "s64" ELSE t)
ReadItem(x, t) ==
    CASE t \in Integer -> <<t, Cast(Leading(x), t)>>
      [] t = "bool"    -> <<t, IF Leading(x) = 0 THEN 0 ELSE 1>>
      [] OTHER         -> <<t, x>>

\* The data read_body reads before it converts them.
AsWritten(e, t) == [list |-> e.list, items |-> [i \in DOMAIN e.texts |-> ReadItem(e.texts[i], t)]]
Loads(d, a) == IF InRange(d, a) THEN <<d>> ELSE <<>>

\* Mutant: an element of another type is read with the type of the attribute.
BuggyRead(s, a) ==
    IF s = <<>> THEN <<InitData(a)>>
    ELSE LET e == Head(s)
         IN  IF \E x \in Range(e.texts) : ~Readable(x, a.type) \/ ~Accepts(x, a) THEN <<>>
             ELSE IF e.list = a.multi THEN Loads(AsWritten(e, a.type), a)
             ELSE LET d == AsWritten(e, IF a.type = "enum" THEN "string" ELSE a.type)
                  IN  IF Converts(d, a) THEN Loads(Cvt(d, a), a) ELSE <<>>

\* read_body: the data read from what the file has, if it can be read.  When
\* type or list is not the attribute's, an enumeration is read as a string, and
\* the data are converted.
Read(s, a) ==
    IF s = <<>> THEN <<InitData(a)>>
    ELSE LET e == Head(s)
             own == e.type = a.type /\ e.list = a.multi
             t == IF ~own /\ e.type = "enum" THEN "string" ELSE e.type
             d == AsWritten(e, t)
         IN  IF \E x \in Range(e.texts) : ~Readable(x, t) THEN <<>>
             ELSE IF own THEN IF \A x \in Range(e.texts) : t = "enum" => x \in Range(a.enums)
                                THEN Loads(d, a) ELSE <<>>
             ELSE IF Converts(d, a) THEN Loads(Cvt(d, a), a) ELSE <<>>

-----------------------------------------------------------------------------
(* The attribute *)

\* init_enum and init_range.
Initialised(a) ==
    LET b == [a EXCEPT !.enums = IF a.type = "enum" THEN Enumerators(a.range) ELSE @]
    IN  [b EXCEPT !.limits = Limits(b)]

Attribute(t, m) ==
    Initialised([type |-> t, multi |-> m, range |-> <<>>, init |-> Empty, format |-> "dec",
                 limits |-> {}, enums |-> <<>>])

Init ==
    /\ setup \in Setups
    /\ \E t \in setup.types \ {"enum"}, m \in setup.multi : attr = Attribute(t, m)
    /\ initData = InitData(attr)
    /\ data = [o \in {} |-> List(<<>>)]
    /\ file = [o \in {} |-> <<>>]

\* The value where a value x of the enumerators old is, after they were made anew
\* in the same memory, if there is room for them, and else in other memory.
Place(x, old) == CHOOSE i \in DOMAIN old : old[i] = x
Overwritten(x, old, new, room) ==
    IF x \notin Range(old) \/ (Len(new) > Len(old) /\ ~room) THEN Gone
    ELSE IF Place(x, old) \in DOMAIN new THEN new[Place(x, old)] ELSE Gone
MoveEnums(d, old, new, room) ==
    [d EXCEPT !.items = [i \in DOMAIN @ |->
        IF @[i][1] = "enum" THEN <<"enum", Overwritten(@[i][2], old, new, room)>> ELSE @[i]]]

\* set_range: the values of the objects stay what they are, but those of an
\* enumeration point to its enumerators.  A refused range is taken back; while
\* it was looked at the enumerators were those of the refused one.
SetRange(r) ==
    LET a == Initialised([attr EXCEPT !.range = r])
        refused == (a.type = "enum" /\ r = <<>>) \/ ~InitValid(a)
        new == IF refused /\ Len(a.enums) <= Len(attr.enums) THEN attr.enums ELSE a.enums
        moved(d, room) ==
            IF attr.type # "enum" THEN d
            ELSE IF ~refused THEN MoveEnums(d, attr.enums, a.enums, room)
            ELSE IF Len(a.enums) > Len(attr.enums) /\ ~room
              THEN MoveEnums(d, attr.enums, a.enums, room) ELSE d
    IN  /\ r # attr.range
        /\ IF attr.type = "bool" /\ r # <<>>
             THEN attr' = [attr EXCEPT !.range = <<>>] /\ UNCHANGED <<initData, data>>
             ELSE \E room \in BOOLEAN :
                    /\ attr' = IF refused THEN Initialised(attr) ELSE a
                    /\ initData' = moved(initData, room)
                    /\ data' = [o \in There |-> moved(data[o], room)]
                    /\ "enumerators" \in careless \/ data' = data
        /\ "narrow" \in careless \/ \A o \in There : InRange(data[o], attr')
        /\ UNCHANGED <<setup, file>>

\* registrate_attribute_change: the objects of which the value cannot be
\* converted, and any others that come after them, keep their values.
ConvertValues(a) ==
    LET failing == {o \in There : ~Converts(data[o], a)}
    IN  \E left \in IF failing = {} THEN {{}} ELSE {S \in SUBSET There : S \cap failing # {}} :
          /\ left = {} \/ "noConversion" \in careless
          /\ \A o \in There \ left : o \notin failing
          /\ data' = [o \in There |-> IF o \in left THEN data[o] ELSE Cvt(data[o], a)]

\* Neither the values nor the initial value of the attribute are out of range.
Fits(a) == InitValid(a) /\ \A o \in There : InRange(data'[o], a)

\* set_type: an enumeration without values is refused, when the type is set.
SetType(t) ==
    LET a == Initialised([attr EXCEPT !.type = t])
    IN  /\ t # attr.type
        /\ IF t = "enum" /\ attr.range = <<>>
             THEN /\ "noConversion" \in careless
                  /\ attr' = [attr EXCEPT !.type = t, !.enums = <<>>]
                  /\ UNCHANGED data
             ELSE /\ attr' = a
                  /\ ConvertValues(a)
                  /\ "narrow" \in careless \/ Fits(a)
        /\ UNCHANGED <<setup, initData, file>>

\* set_is_multi_values.
SetIsMultiValues(m) ==
    LET a == [attr EXCEPT !.multi = m]
    IN  /\ m # attr.multi
        /\ attr' = a
        /\ ConvertValues(a)
        /\ "narrow" \in careless \/ Fits(a)
        /\ UNCHANGED <<setup, initData, file>>

\* set_init_value: refused unless in range.
SetInitValue(x) ==
    /\ x # attr.init /\ InitValid([attr EXCEPT !.init = x])
    /\ attr' = [attr EXCEPT !.init = x]
    /\ UNCHANGED <<setup, initData, data, file>>

SetFormat(f) ==
    /\ f # attr.format
    /\ attr' = [attr EXCEPT !.format = f]
    /\ UNCHANGED <<setup, initData, data, file>>

\* create_attributes, when the list of the class's attributes changes.
CreateAttributes ==
    /\ Accepts(attr.init, attr)
    /\ initData' = InitData(attr)
    /\ UNCHANGED <<setup, attr, data, file>>

-----------------------------------------------------------------------------
(* The objects *)

\* The initial data are those of the attribute as it is.
Current == initData = InitData(attr)

\* init2 of a new object.
Create(o) ==
    /\ o \in setup.objects \ There
    /\ "stale" \in careless \/ Current
    /\ data' = [p \in There \cup {o} |-> IF p = o THEN initData ELSE data[p]]
    /\ UNCHANGED <<setup, attr, initData, file>>

\* SetAttributeValue: data of another type than the old ones are converted; the
\* types of the items of a list are not looked at.
SetAttributeValue(o, d) ==
    LET typeOf(x) == IF x.list THEN "list" ELSE x.items[1][1]
        convert == typeOf(d) # typeOf(data[o])
        new == IF convert THEN Cvt(d, attr) ELSE d
    IN  /\ d.list => d.items # <<>> /\ \A i \in Range(d.items) : i[1] = attr.type
        /\ convert => Converts(d, attr)
        /\ InRange(new, attr)
        /\ data' = [data EXCEPT ![o] = new]
        /\ UNCHANGED <<setup, attr, initData, file>>

\* The data file is saved: put of each object.
Save(force) ==
    /\ "stale" \in careless \/ Current
    /\ "hexadecimal" \in careless
         \/ ~ \E o \in There : attr.format = "hex"
                /\ \E i \in Range(data[o].items) : i[1] = "s64" /\ i[2] < 0
    /\ file' = [o \in There |-> Put(data[o], force, attr, initData)]
    /\ UNCHANGED <<setup, attr, initData, data>>

\* The schema is saved and the process ends; a new one loads schema and data.
Restart ==
    LET a == Initialised(attr)
    IN  /\ InitValid(attr) /\ ~(attr.type = "enum" /\ attr.range = <<>>)
        /\ \A o \in DOMAIN file : Read(file[o], a) # <<>>
        /\ attr' = a
        /\ initData' = InitData(a)
        /\ data' = [o \in DOMAIN file |-> Head(Read(file[o], a))]
        /\ UNCHANGED <<setup, file>>

Inputs == {Single(i) : i \in setup.inputs} \cup {List(<<i, j>>) : i, j \in setup.inputs}
Next ==
    \/ \E r \in setup.ranges : SetRange(r)
    \/ \E t \in setup.types : SetType(t)
    \/ \E m \in setup.multi : SetIsMultiValues(m)
    \/ \E x \in setup.inits : SetInitValue(x)
    \/ \E f \in setup.formats : SetFormat(f)
    \/ CreateAttributes
    \/ \E o \in setup.objects : Create(o)
    \/ \E o \in There, d \in Inputs : SetAttributeValue(o, d)
    \/ \E force \in BOOLEAN : Save(force)
    \/ Restart

Spec == Init /\ [][Next]_vars

-----------------------------------------------------------------------------
(* Properties *)

\* Every object's value is a list or a single value as the attribute says and
\* of its type, and an enumeration's is one of its values ("updates the values
\* of the instances of the class", src/src/class.cpp:1801), whatever the changes
\* of the attribute, loads, conversions and refusals before it.
ValuesFitAttribute ==
    careless \subseteq {"hexadecimal"} => \A o \in There :
        /\ data[o].list = attr.multi
        /\ ~attr.multi => Len(data[o].items) = 1
        /\ \A i \in Range(data[o].items) :
              /\ i[1] = attr.type
              /\ i[1] = "enum" => i[2] \in Range(attr.enums)

\* What a process loads from the file another one saved is what that one had:
\* whatever is omitted, however numbers are written ("store all attributes with
\* value != initial", src/src/object.cpp:1752).
SavedIsLoaded ==
    [][\A force \in BOOLEAN : Save(force) =>
         \A o \in There : Read(file'[o], Initialised(attr)) = <<data[o]>>]_vars

\* Objects in memory and objects in files evolve alike: a value converted when
\* the attribute is changed is the one that is loaded from a file with all
\* values, saved before the change ("schema evolution, data migration",
\* src/docs/README.md:7).
MigrationAgrees ==
    [][(\E t \in setup.types : SetType(t)) \/ (\E m \in setup.multi : SetIsMultiValues(m)) =>
         \A o \in There :
            Read(<<Element(data[o], [attr EXCEPT !.format = "dec"])>>, attr') = <<data'[o]>>]_vars

=============================================================================
