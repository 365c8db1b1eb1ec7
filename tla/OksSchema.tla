------------------------------ MODULE OksSchema ------------------------------
(***************************************************************************)
(* The classes of a kernel and their inheritance: created, loaded and      *)
(* destroyed classes, direct super-classes by name, and the lists of all   *)
(* super- and sub-classes by pointer that are computed from them           *)
(* (src/src/class.cpp; k_add, k_load_schema, k_close_schema and            *)
(* registrate_all_classes of src/src/kernel.cpp).                          *)
(*                                                                         *)
(* A class is the address of an OksClass: a name and the number of times   *)
(* the name was used.  An address is not used again.  Names are numbers    *)
(* in the order of p_classes, which is strcmp's.  Of attributes and        *)
(* relationships there is which classes have one, and of which classes     *)
(* p_data_info and the other lists have some.  Locks, notifications and    *)
(* objects are left out.                                                   *)
(*                                                                         *)
(* A behaviour is not followed further when a list has the address of a    *)
(* deleted class, or inheritance a cycle, on which the program recurses    *)
(* until its stack is used up.                                             *)
(***************************************************************************)
EXTENDS Naturals, SequencesExt

CONSTANTS
    Names,     \* number of class names
    MaxUse,    \* bound: classes of one name in a behaviour; see also setup
    MaxSupers, \* bound: direct super-classes of a class
    File,
    NoFile,
    NoClass,   \* the null pointer
    Setups     \* the values of setup to look at

\* Calls that need care: add_super_class of a class that is not there; a class
\* that others name as super-class is destroyed; one of several schema files
\* is closed; a schema file is loaded that has a circle or does not go with what
\* is there; the kernel tests ids within inheritance hierarchies.
Delicate == {"unknownSuper", "destroySuper", "closeSome", "loadUnfit",
             "testIds"}

Name == 1 .. Names
Class == Name \X (1 .. MaxUse)
NameOf(c) == c[1]

ASSUME SchemaAssumption ==
    /\ Names \in Nat /\ MaxUse \in Nat /\ MaxSupers \in Nat
    /\ NoFile \notin File /\ NoClass \notin Class
    /\ \A u \in Setups :
         /\ \A f \in File : \A i \in DOMAIN u.content[f] :
              /\ u.content[f][i].name \in Name
              /\ u.content[f][i].supers \in Seq(Name)
         /\ u.owner \subseteq Name /\ u.abstract \subseteq Name
         /\ u.uses \in [Name -> 0 .. MaxUse]
         /\ u.careless \subseteq Delicate

VARIABLES
    classes, \* OksKernel::p_classes
    supers,  \* OksClass::p_super_classes
    file,    \* OksClass::p_file
    lists,   \* what is computed from supers: see Lists
    doomed,  \* classes with p_to_be_deleted set
    freed,   \* deleted classes
    open,    \* p_schema_files
    active,  \* p_active_schema
    setup    \* contents of files, names of classes that own attributes and of
             \* abstract ones, and delicate calls of this behaviour

vars == <<classes, supers, file, lists, doomed, freed, open, active, setup>>

Careless == setup.careless

\* p_all_super_classes and p_all_sub_classes; the classes whose attributes and
\* relationships are in p_data_info; p_inheritance_hierarchy; and if there are
\* lists at all.
Lists == [up : Seq(Class), down : Seq(Class), props : SUBSET Class,
          kin : SUBSET Class, made : BOOLEAN]
NoLists == [up |-> <<>>, down |-> <<>>, props |-> {}, kin |-> {}, made |-> FALSE]

\* The classes there are.
There(cs) == {cs[n] : n \in Name} \ {NoClass}
Live == There(classes)
Allocated == Live \cup freed

Init ==
    /\ setup \in Setups
    /\ classes = [n \in Name |-> NoClass]
    /\ supers = [c \in Class |-> <<>>]
    /\ file = [c \in Class |-> NoFile]
    /\ lists = [c \in Class |-> NoLists]
    /\ doomed = {} /\ freed = {} /\ open = {} /\ active = NoFile

-----------------------------------------------------------------------------
(* The lists of a class *)

\* The elements of s at the places K, in their order.
Only(s, K) == [i \in 1 .. Cardinality(K) |-> s[CHOOSE k \in K : Cardinality({j \in K : j <= k}) = i]]

\* OksClass::add_super_classes of c, when below is what it gives one level
\* further for each class: the super-classes in the order they are found, and if
\* none was missing.
AddSuperClasses(cs, sup, below, c) ==
    LET visit[i \in 0 .. Len(sup[c])] ==
          IF i = 0 THEN [list |-> <<>>, ok |-> TRUE]
          ELSE LET v == visit[i - 1]
                   d == cs[sup[c][i]]
               IN  IF ~v.ok \/ d = NoClass THEN [list |-> v.list, ok |-> FALSE]
                   ELSE [list |-> v.list \o below[d].list \o
                                  (IF below[d].ok THEN <<d>> ELSE <<>>),
                         ok |-> below[d].ok]
    IN  visit[Len(sup[c])]

\* As many levels as there are names.
Above(cs, sup) ==
    LET above[k \in 0 .. Names] ==
          IF k = 0 THEN [c \in Class |-> [list |-> <<>>, ok |-> FALSE]]
          ELSE [c \in Class |-> AddSuperClasses(cs, sup, above[k - 1], c)]
    IN  above[Names]

\* The list without what add_if_not_found finds.
Distinct(s) == Only(s, {i \in DOMAIN s : \A j \in 1 .. i - 1 : s[j] # s[i]})

\* create_super_classes, create_attributes, create_relationships and
\* registrate_instances of the classes of s, one after the other.  A missing
\* super-class is an exception after the list of super-classes was made anew, and
\* ends the calls that follow.
Refresh(cs, sup, l, s) ==
    LET above   == Above(cs, sup)
        good    == {c \in ToSet(s) : above[c].ok}
        reached == {s[i] : i \in {k \in DOMAIN s : \A j \in 1 .. k - 1 : s[j] \in good}}
        made(c, up) ==
            [l[c] EXCEPT !.up = up, !.made = TRUE,
                         !.props = IF c \notin good THEN @
                                   ELSE {d \in ToSet(up) \cup {c} : NameOf(d) \in setup.owner}]
    IN  [ok |-> ToSet(s) \subseteq good,
         lists |-> [c \in Class |-> IF c \in reached THEN made(c, Distinct(above[c].list)) ELSE l[c]]]

\* OksClass::create_sub_classes, in the order of p_classes.
SubClasses(cs, l, d) == Only(cs, {n \in Name : cs[n] # NoClass /\ Contains(l[cs[n]].up, d)})

WithSubClasses(cs, l, D) ==
    [c \in Class |-> IF c \in D THEN [l[c] EXCEPT !.down = SubClasses(cs, l, c)] ELSE l[c]]

\* What test of ids compares c with: the classes that share a super-class.
Relatives(cs, l, c) ==
    {d \in UNION {ToSet(SubClasses(cs, l, e)) : e \in ToSet(l[c].up)} \ {c} :
       NameOf(d) \notin setup.abstract}

\* The inheritance hierarchies are not cleared when they become empty.
WithKin(cs, l) ==
    [c \in Class |->
       IF c \in There(cs) /\ NameOf(c) \notin setup.abstract /\ Relatives(cs, l, c) # {}
         THEN [l[c] EXCEPT !.kin = Relatives(cs, l, c)]
         ELSE l[c]]

\* OksKernel::registrate_all_classes.
RegistrateAllClasses(cs, sup, l, skip) ==
    LET walked == {n \in Name : cs[n] # NoClass /\ (skip => l[cs[n]].props = {})}
        st  == Refresh(cs, sup, l, Only(cs, walked))
        sub == WithSubClasses(cs, st.lists, There(cs))
    IN  IF ~st.ok THEN st
        ELSE [st EXCEPT !.lists = IF "testIds" \in Careless THEN WithKin(cs, sub) ELSE sub]

\* Mutant: only the new super-classes learn of the change.
BuggyRegistrateClassChange(cs, sup, l, c) ==
    LET st == Refresh(cs, sup, l, <<c>> \o l[c].down)
    IN  IF ~st.ok THEN st.lists
        ELSE WithSubClasses(cs, st.lists, (ToSet(st.lists[c].up) \cap There(cs)) \ doomed)

\* Mutant: the sub-classes are not made anew.
BuggyNoSubClasses(cs, sup, l, c) ==
    LET st == Refresh(cs, sup, l, <<c>>)
        above == ToSet(l[c].up) \cup ToSet(st.lists[c].up)
    IN  IF ~st.ok THEN st.lists
        ELSE WithSubClasses(cs, st.lists, (above \cap There(cs)) \ doomed)

\* OksClass::registrate_class_change of the list of super-classes: c and its
\* sub-classes are made anew, then the lists of sub-classes of the super-classes
\* c had and has, but for those about to be deleted.
RegistrateClassChange(cs, sup, l, c) ==
    LET st == Refresh(cs, sup, l, <<c>> \o l[c].down)
        above == ToSet(l[c].up) \cup ToSet(st.lists[c].up)
    IN  IF ~st.ok THEN st.lists
        ELSE WithSubClasses(cs, st.lists, (above \cap There(cs)) \ doomed)

-----------------------------------------------------------------------------
(* Hazards of a state *)

Direct(n) == IF classes[n] = NoClass THEN {} ELSE ToSet(supers[classes[n]])

\* The names n inherits from, by the definition of inheritance: those in every
\* set that has n's super-classes and, with a class, its super-classes.
Inherited(n) ==
    {m \in Name : \A S \in SUBSET Name :
       (Direct(n) \subseteq S /\ \A k \in S : Direct(k) \subseteq S) => m \in S}

Cyclic == \E S \in SUBSET Name : S # {} /\ \A n \in S : Direct(n) \cap S # {}

InLists(c) == ToSet(lists[c].up) \cup ToSet(lists[c].down) \cup lists[c].props \cup lists[c].kin
Dangling == \/ Live \cap freed # {}
            \/ \E c \in Live \ freed : InLists(c) \cap freed # {}

CanGoOn == ~Cyclic /\ ~Dangling

-----------------------------------------------------------------------------
(* Changes of super-classes *)

ChangeSupers(c, s) ==
    /\ supers' = [supers EXCEPT ![c] = s]
    /\ lists' = RegistrateClassChange(classes, supers', lists, c)
    /\ UNCHANGED <<classes, file, doomed, freed, open, active, setup>>

\* Mutant: a super-class of a super-class is not looked for.
BuggyMayInherit(c, n) ==
    /\ n # NameOf(c)
    /\ ~Contains(supers[c], n)
    /\ classes[n] # NoClass => ~Contains(supers[classes[n]], NameOf(c))

\* add_super_class accepts n.
MayInherit(c, n) ==
    /\ n # NameOf(c)
    /\ ~Contains(supers[c], n)
    /\ classes[n] # NoClass =>
         /\ ~Contains(supers[classes[n]], NameOf(c))
         /\ \A d \in ToSet(lists[classes[n]].up) : NameOf(d) # NameOf(c)

AddSuperClass(c, n) ==
    /\ lists[c].made
    /\ Len(supers[c]) < MaxSupers
    /\ MayInherit(c, n)
    /\ classes[n] # NoClass \/ "unknownSuper" \in Careless
    /\ ChangeSupers(c, Append(supers[c], n))

RemoveSuperClass(c, n) ==
    /\ lists[c].made
    /\ Contains(supers[c], n)
    /\ ChangeSupers(c, Only(supers[c], {i \in DOMAIN supers[c] : supers[c][i] # n}))

SwapSuperClasses(c, i, j) ==
    /\ lists[c].made
    /\ i < j
    /\ ChangeSupers(c, [supers[c] EXCEPT ![i] = supers[c][j], ![j] = supers[c][i]])

-----------------------------------------------------------------------------
(* Creation and destruction *)

NextUse(n) == Cardinality({c \in Allocated : NameOf(c) = n}) + 1

\* The constructor and k_add.  When registrate_all_classes throws, the memory
\* of the class is freed and p_classes keeps the address.
NewClass(n) ==
    /\ active # NoFile /\ classes[n] = NoClass /\ NextUse(n) <= setup.uses[n]
    /\ LET c  == <<n, NextUse(n)>>
           cs == [classes EXCEPT ![n] = c]
           st == RegistrateAllClasses(cs, supers, lists, FALSE)
       IN  /\ classes' = cs
           /\ lists' = st.lists
           /\ file' = [file EXCEPT ![c] = active]
           /\ freed' = IF st.ok THEN freed ELSE freed \cup {c}
    /\ UNCHANGED <<supers, doomed, open, active, setup>>

\* Without what belongs to the classes in D.
Forget(D) ==
    /\ supers' = [c \in Class |-> IF c \in D THEN <<>> ELSE supers[c]]
    /\ file' = [c \in Class |-> IF c \in D THEN NoFile ELSE file[c]]
    /\ freed' = freed \cup D

\* Mutant: the super-classes are not told.
BuggyAfterDestruction(cs, c) ==
    LET there == There(cs) \ doomed
        subs  == Only(lists[c].down, {i \in DOMAIN lists[c].down : lists[c].down[i] \in there})
        after[i \in 0 .. Len(subs)] ==
            IF i = 0 THEN lists
            ELSE RegistrateClassChange(cs, supers, after[i - 1], subs[i])
    IN  [after[Len(subs)] EXCEPT ![c] = NoLists]

\* ~OksClass: the super-classes get a new list of sub-classes, the sub-classes
\* are made anew, one after the other; an exception there is only printed.
AfterDestruction(cs, c) ==
    LET there == There(cs) \ doomed
        subs  == Only(lists[c].down, {i \in DOMAIN lists[c].down : lists[c].down[i] \in there})
        after[i \in 0 .. Len(subs)] ==
            IF i = 0 THEN WithSubClasses(cs, lists, ToSet(lists[c].up) \cap there)
            ELSE RegistrateClassChange(cs, supers, after[i - 1], subs[i])
    IN  [after[Len(subs)] EXCEPT ![c] = NoLists]

\* OksClass::destroy.
Destroy(c) ==
    /\ \/ "destroySuper" \in Careless
       \/ \A d \in Live : ~Contains(supers[d], NameOf(c))
    /\ LET cs == [classes EXCEPT ![NameOf(c)] = NoClass]
       IN  /\ classes' = cs
           /\ lists' = AfterDestruction(cs, c)
    /\ doomed' = doomed \ {c}
    /\ Forget({c})
    /\ UNCHANGED <<open, active, setup>>

\* OksClass::set_file.
SetFile(c, f) ==
    /\ f # file[c]
    /\ file' = [file EXCEPT ![c] = f]
    /\ UNCHANGED <<classes, supers, lists, doomed, freed, open, active, setup>>

-----------------------------------------------------------------------------
(* Schema files *)

\* The classes k_load_schema reads from f: up to the first one that is there
\* already and differs; those that are there and are equal are skipped.
Readable(f) ==
    LET defs  == setup.content[f]
        differs(d) == classes[d.name] # NoClass /\ supers[classes[d.name]] # d.supers
        read  == {k \in DOMAIN defs : \A j \in 1 .. k : ~differs(defs[j])}
    IN  [defs |-> {defs[k] : k \in read}, ok |-> read = DOMAIN defs]

\* The classes of f may be used with those that are there, and do not inherit in
\* a circle.
Fits(f) ==
    LET defs  == setup.content[f]
        names == {defs[i].name : i \in DOMAIN defs}
    IN  /\ Readable(f).ok
        /\ \A i \in DOMAIN defs : \A n \in ToSet(defs[i].supers) :
             n \in names \/ classes[n] # NoClass
        /\ ~ \E S \in (SUBSET names) \ {{}} : \A n \in S :
             \E i \in DOMAIN defs : defs[i].name = n /\ ToSet(defs[i].supers) \cap S # {}

\* load_schema, of a file without includes.
LoadSchema(f) ==
    /\ f \notin open /\ setup.content[f] # <<>>
    /\ Fits(f) \/ "loadUnfit" \in Careless
    /\ LET r     == Readable(f)
           fresh == {d \in r.defs : classes[d.name] = NoClass}
           new   == {<<d.name, NextUse(d.name)>> : d \in fresh}
           cs    == [n \in Name |-> IF \E c \in new : NameOf(c) = n
                                      THEN <<n, NextUse(n)>> ELSE classes[n]]
       IN  /\ \A c \in new : c[2] <= setup.uses[NameOf(c)]
           /\ classes' = cs
           /\ supers' = [c \in Class |->
                 IF c \in new THEN (CHOOSE d \in fresh : d.name = NameOf(c)).supers
                              ELSE supers[c]]
           /\ file' = [c \in Class |-> IF c \in new THEN f ELSE file[c]]
           /\ lists' = IF r.ok THEN RegistrateAllClasses(cs, supers', lists, TRUE).lists ELSE lists
    /\ open' = open \cup {f}
    /\ UNCHANGED <<doomed, freed, active, setup>>

\* new_schema: the file becomes the active one.
NewSchema(f) ==
    /\ f \notin open /\ setup.content[f] = <<>>
    /\ open' = open \cup {f} /\ active' = f
    /\ lists' = RegistrateAllClasses(classes, supers, lists, TRUE).lists
    /\ UNCHANGED <<classes, supers, file, doomed, freed, setup>>

SetActiveSchema(f) ==
    /\ f \in open \cup {NoFile} /\ f # active
    /\ active' = f
    /\ UNCHANGED <<classes, supers, file, lists, doomed, freed, open, setup>>

\* k_close_schema of the files F: every class of the kernel is marked, so that
\* no list of another class is updated when those of the files are deleted.
Close(F) ==
    LET D == {c \in Live : file[c] \in F}
    IN  /\ classes' = [n \in Name |-> IF classes[n] \in D THEN NoClass ELSE classes[n]]
        /\ Forget(D)
        /\ doomed' = Live \ D
        /\ open' = open \ F
        /\ active' = IF active \in F THEN NoFile ELSE active

KeptLists == [c \in Class |-> IF c \in Live /\ classes'[NameOf(c)] = NoClass
                                THEN NoLists ELSE lists[c]]

\* close_schema.
CloseSchema(f) ==
    /\ f \in open
    /\ "closeSome" \in Careless \/ \A c \in Live : file[c] = f
    /\ Close({f})
    /\ lists' = KeptLists
    /\ UNCHANGED setup

\* close_all_schema.
CloseAllSchema ==
    /\ open # {}
    /\ Close(open)
    /\ lists' = KeptLists
    /\ UNCHANGED setup

\* k_close_dangling_includes for schema files F nothing includes any more.
CloseDanglingSchema(F) ==
    /\ F # {} /\ F \subseteq open
    /\ "closeSome" \in Careless
    /\ Close(F)
    /\ lists' = RegistrateAllClasses(classes', supers', KeptLists, FALSE).lists
    /\ UNCHANGED setup

Step ==
    \/ \E c \in Live : \/ \E n \in Name : AddSuperClass(c, n) \/ RemoveSuperClass(c, n)
                       \/ \E i, j \in DOMAIN supers[c] : SwapSuperClasses(c, i, j)
                       \/ Destroy(c)
                       \/ \E f \in open : SetFile(c, f)
    \/ \E n \in Name : NewClass(n)
    \/ \E f \in File : LoadSchema(f) \/ NewSchema(f) \/ CloseSchema(f)
    \/ \E f \in open \cup {NoFile} : SetActiveSchema(f)
    \/ CloseAllSchema
    \/ \E F \in SUBSET open : CloseDanglingSchema(F)

Next == CanGoOn /\ Step

Spec == Init /\ [][Next]_vars

-----------------------------------------------------------------------------
(* Properties *)

\* Each variable has its type; a class that is there has a schema file that is
\* open and no super-class twice.
TypeOK ==
    /\ \A n \in Name : classes[n] # NoClass => classes[n] \in Class /\ NameOf(classes[n]) = n
    /\ lists \in [Class -> [up : Seq(Class), down : Seq(Class), props : SUBSET Class,
                            kin : SUBSET Class, made : BOOLEAN]]
    /\ open \subseteq File /\ active \in open \cup {NoFile}
    /\ \A c \in Live : file[c] \in open /\ IsInjective(supers[c])
    /\ doomed \subseteq Live /\ freed \subseteq Class

\* No class inherits from itself, over however many others and whatever the
\* order of the calls: add_super_class refuses what would close a cycle by
\* looking into the list of all super-classes of the other class, a list that
\* is computed.  Not when super-classes may be missing: that list is then cut.
Acyclic == Careless \subseteq {"testIds"} => ~Cyclic

\* all_super_classes() is what the direct super-classes give, each once, by the
\* addresses of the classes that are there now: for the class that was changed
\* and for those below it.
SuperClassesComplete ==
    Careless \subseteq {"testIds"} => \A c \in Live :
        /\ IsInjective(lists[c].up)
        /\ ToSet(lists[c].up) = {classes[n] : n \in Inherited(NameOf(c))}

\* all_sub_classes() of a class has those classes that have it among all their
\* super-classes, which are computed at other places and times.
SubClassesMatch(c, d) == Contains(lists[d].down, c) <=> Contains(lists[c].up, d)
SubClassesComplete ==
    Careless \subseteq {"testIds"} => \A c, d \in Live : SubClassesMatch(c, d)

\* No class that is there has the address of a deleted class in a list it goes
\* through: super- or sub-classes, attributes, inheritance hierarchy.
NoDanglingClass == Careless = {} => ~Dangling
=============================================================================
