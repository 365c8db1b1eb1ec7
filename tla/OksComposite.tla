---------------------------- MODULE OksComposite ----------------------------
(***************************************************************************)
(* Objects, their relationships and the reverse composite relationships    *)
(* (RCR) the kernel keeps beside them (src/src/object.cpp, k_close_data    *)
(* and k_bind_objects of src/src/kernel.cpp).                              *)
(*                                                                         *)
(* A value refers to an object by pointer (bound) or by its class and id   *)
(* (not bound); an OksRCR is the composite parent's address kept by the    *)
(* child.  Objects have one class; attributes and the class-type and       *)
(* cardinality checks, which only refuse a call, are left out.  An address *)
(* is not reused while anything still points to it.                        *)
(*                                                                         *)
(* The relationships of the class, and which delicate calls the client     *)
(* makes, are a constant of each behaviour: setup.                         *)
(***************************************************************************)
EXTENDS Naturals, Sequences, FiniteSets

CONSTANTS
    Object, File,
    NoFile,     \* the file of an object that is not there
    Setups      \* the values of setup to look at

\* Calls of the interface that need care, by what they do.
Delicate == {"lockFailsInAdd", "addAgain", "removeByName",
             "namesClashInBind", "destroyFast"}

\* The files, those that are saved; the relationships of the class, those with high cardinality constraint Many
\* and the bound on their length, those that are composite, exclusive and
\* dependent; the delicate calls.
ASSUME CompositeAssumption ==
    /\ NoFile \notin File
    /\ \A u \in Setups :
         /\ u.saved \subseteq u.files /\ u.files \subseteq File /\ u.many \subseteq u.rel
         /\ u.composite \subseteq u.rel
         /\ u.exclusive \subseteq u.composite /\ u.dependent \subseteq u.composite
         /\ u.max \in Nat /\ u.careless \subseteq Delicate

VARIABLES
    live,     \* OksKernel::p_objects
    file,     \* OksObject::file
    value,    \* relationship values: sequences, of length <= 1 if not Many
    rcr,      \* <<o, s, r>>: o has an OksRCR with parent s and relationship r
    updated,  \* files with p_is_updated set
    stack,    \* the nested ~OksObject calls, outermost first
    pending,  \* objects k_close_data has yet to delete
    setup

vars == <<live, file, value, rcr, updated, stack, pending, setup>>

RelName == UNION {u.rel : u \in Setups}
Rel == setup.rel
Many == setup.many
Composite == setup.composite
Exclusive == setup.exclusive
Dependent == setup.dependent
MaxLen == setup.max
Careless == setup.careless

Ref == [obj : Object, bound : BOOLEAN]
Triple == Object \X Object \X Rel

Pointers(v) == {v[i].obj : i \in {j \in DOMAIN v : v[j].bound}}
Refers(s, r) == Pointers(value[s][r])
PointsTo(s, o) == \E r \in Rel : o \in Refers(s, r)

Idle == stack = <<>> /\ pending = {}

Init ==
    /\ setup \in Setups
    /\ live = {}
    /\ file = [o \in Object |-> NoFile]
    /\ value = [o \in Object |-> [r \in Rel |-> <<>>]]
    /\ rcr = {} /\ updated = {}
    /\ stack = <<>> /\ pending = {}

\* The values a call may pass: objects that are there by pointer, others by
\* class and id.
RefTo(o) == [obj |-> o, bound |-> o \in live]
Distinct(v) == \A i, j \in DOMAIN v : v[i] = v[j] => i = j
Input(r) ==
    LET max == IF r \in Many THEN MaxLen ELSE 1
    IN  IF r \notin Rel THEN {} ELSE {[i \in DOMAIN v |-> RefTo(v[i])] : v \in
            {u \in UNION {[1 .. n -> Object] : n \in 0 .. max} :
               "addAgain" \in Careless \/ Distinct(u)}}

-----------------------------------------------------------------------------
(* Reverse composite relationships *)

\* Mutant: the test of the exclusive flag is inverted.
BuggyCanAdd(R, o, s, r) ==
    \/ r \in Exclusive
    \/ \A p \in Object : <<o, p, r>> \notin R

\* OksObject::add_RCR succeeds: nothing to do, already there, or the
\* relationship is not an exclusive one another parent uses.
CanAdd(R, o, s, r) ==
    \/ r \notin Exclusive
    \/ <<o, s, r>> \in R
    \/ \A p \in Object : <<o, p, r>> \notin R

\* The OksRCRs of the objects O to s, none when r is not composite.
RCRs(O, s, r) == {<<o, s, r>> : o \in IF r \in Composite THEN O ELSE {}}

-----------------------------------------------------------------------------
(* Setters: check_file_lock, the RCRs, the value, notify *)

\* Mutant: the file is not marked.
BuggyAssign(s, r, v) ==
    /\ value' = [value EXCEPT ![s][r] = v]
    /\ UNCHANGED updated

Assign(s, r, v) ==
    /\ value' = [value EXCEPT ![s][r] = v]
    /\ updated' = updated \cup {file[s]}

\* Mutant: after a refusal the OksRCRs of the old value are not put back.
BuggySetRelationshipValue(s, r, v) ==
    LET added   == Pointers(v) \ Refers(s, r)
        left    == rcr \ RCRs(Refers(s, r) \ Pointers(v), s, r)
    IN  /\ Idle /\ s \in live
        /\ IF \A o \in added : CanAdd(left, o, s, r)
             THEN Assign(s, r, v) /\ rcr' = left \cup RCRs(added, s, r)
             ELSE rcr' = left /\ UNCHANGED <<value, updated>>
        /\ UNCHANGED <<live, file, stack, pending, setup>>

\* SetRelationshipValue, of an object, a list or a name.  An object that is
\* in the old and in the new value keeps its OksRCR.  When one of the new
\* objects refuses, the OksRCRs added before it are removed again, those of
\* the old value are put back, and the value stays.
SetRelationshipValue(s, r, v) ==
    LET added   == Pointers(v) \ Refers(s, r)
        removed == Refers(s, r) \ Pointers(v)
        left    == rcr \ RCRs(removed, s, r)
        refuse  == {o \in added : ~CanAdd(left, o, s, r)}
    IN  /\ Idle /\ s \in live
        /\ IF refuse = {}
             THEN Assign(s, r, v) /\ rcr' = left \cup RCRs(added, s, r)
             ELSE /\ \E before \in SUBSET (added \ refuse) :
                       rcr' = (left \ RCRs(before, s, r)) \cup RCRs(removed, s, r)
                  /\ UNCHANGED <<value, updated>>
        /\ UNCHANGED <<live, file, stack, pending, setup>>

\* AddRelationshipValue of an object: add_RCR first, then the file lock.
AddRelationshipValue(s, r, o) ==
    /\ Idle /\ {s, o} \subseteq live /\ r \in Many
    /\ Len(value[s][r]) < MaxLen
    /\ "addAgain" \in Careless \/ \A i \in DOMAIN value[s][r] : value[s][r][i].obj # o
    /\ CanAdd(rcr, o, s, r)
    /\ rcr' = rcr \cup RCRs({o}, s, r)
    /\ \/ Assign(s, r, Append(value[s][r], RefTo(o)))
       \/ "lockFailsInAdd" \in Careless /\ UNCHANGED <<value, updated>>
    /\ UNCHANGED <<live, file, stack, pending, setup>>

\* AddRelationshipValue of a name, when there is no such object.
AddName(s, r, o) ==
    /\ Idle /\ s \in live /\ r \in Many /\ o \notin live
    /\ Len(value[s][r]) < MaxLen
    /\ "addAgain" \in Careless \/ \A i \in DOMAIN value[s][r] : value[s][r][i].obj # o
    /\ Assign(s, r, Append(value[s][r], RefTo(o)))
    /\ UNCHANGED <<live, file, rcr, stack, pending, setup>>

\* The list v without its first reference to c, by pointer or by name
\* (cmp_data).
Without(v, c) ==
    LET first == CHOOSE i \in DOMAIN v :
                   v[i].obj = c /\ \A j \in 1 .. i - 1 : v[j].obj # c
    IN  SubSeq(v, 1, first - 1) \o SubSeq(v, first + 1, Len(v))

\* RemoveRelationshipValue of an object.
RemoveRelationshipValue(s, r, o) ==
    /\ Idle /\ {s, o} \subseteq live /\ r \in Many
    /\ \E i \in DOMAIN value[s][r] : value[s][r][i].obj = o
    /\ rcr' = rcr \ RCRs({o}, s, r)
    /\ Assign(s, r, Without(value[s][r], o))
    /\ UNCHANGED <<live, file, stack, pending, setup>>

\* RemoveRelationshipValue of a name.
RemoveName(s, r, o) ==
    /\ Idle /\ s \in live /\ r \in Many
    /\ \E i \in DOMAIN value[s][r] : value[s][r][i].obj = o
    /\ "removeByName" \in Careless \/ o \notin Refers(s, r)
    /\ Assign(s, r, Without(value[s][r], o))
    /\ UNCHANGED <<live, file, rcr, stack, pending, setup>>

-----------------------------------------------------------------------------
(* Construction, binding *)

\* The constructor: empty values, the file is marked as updated.
Create(o) ==
    /\ Idle /\ o \notin live
    /\ \A s \in live : ~PointsTo(s, o)
    /\ \A t \in rcr : t[2] # o
    /\ live' = live \cup {o}
    /\ value' = [value EXCEPT ![o] = [r \in Rel |-> <<>>]]
    /\ \E f \in setup.files : file' = [file EXCEPT ![o] = f] /\ updated' = updated \cup {f}
    /\ UNCHANGED <<rcr, stack, pending, setup>>

\* The names in the values of live objects that bind would replace by
\* pointers, with the OksRCRs that go with them.
Resolvable == {t \in Triple :
                 /\ {t[1], t[2]} \subseteq live
                 /\ \E i \in DOMAIN value[t[2]][t[3]] :
                      value[t[2]][t[3]][i] = [obj |-> t[1], bound |-> FALSE]}

Bound(T) ==
    [s \in Object |-> [r \in Rel |->
        [i \in DOMAIN value[s][r] |->
            IF <<value[s][r][i].obj, s, r>> \in T
              THEN [value[s][r][i] EXCEPT !.bound = TRUE] ELSE value[s][r][i]]]]

InComposite(T) == {t \in T : t[3] \in Composite}

OneParent(R) ==
    \A t, u \in R : t[3] \in Exclusive /\ t[1] = u[1] /\ t[3] = u[3] => t = u

\* k_bind_objects.  bind() sets the pointer before add_RCR, and the first
\* refusal ends the loop.
BindObjects ==
    /\ Idle /\ Resolvable # {}
    /\ \/ /\ OneParent(rcr \cup InComposite(Resolvable))
          /\ value' = Bound(Resolvable)
          /\ rcr' = rcr \cup InComposite(Resolvable)
       \/ /\ "namesClashInBind" \in Careless
          /\ \E T \in SUBSET Resolvable : \E t \in Resolvable \ T :
               /\ OneParent(rcr \cup InComposite(T))
               /\ ~CanAdd(rcr \cup InComposite(T), t[1], t[2], t[3])
               /\ value' = Bound(T \cup {t})
               /\ rcr' = rcr \cup InComposite(T)
    /\ UNCHANGED <<live, file, updated, stack, pending, setup>>

-----------------------------------------------------------------------------
(* Destruction *)

\* ~OksObject starts: the object is undefined in the kernel, its composite
\* children are to be visited.
Frame(o) == [obj |-> o, todo |-> {t \in Object \X Composite : t[1] \in Refers(o, t[2])}]

Delete(o) ==
    /\ live' = live \ {o}
    /\ stack' = Append(stack, Frame(o))

\* OksObject::destroy: refused while any object, this one included, has a
\* pointer to it, then the file is locked and marked.  With fast, nothing of
\* this is done.
Destroy(o, fast) ==
    /\ Idle /\ o \in live
    /\ IF fast
         THEN "destroyFast" \in Careless /\ UNCHANGED updated
         ELSE (\A s \in live : ~PointsTo(s, o)) /\ updated' = updated \cup {file[o]}
    /\ Delete(o)
    /\ UNCHANGED <<file, value, rcr, pending, setup>>

Top == stack[Len(stack)]
Outer == SubSeq(stack, 1, Len(stack) - 1)

\* The destructor on top of the stack visits a child: it removes its OksRCR
\* and deletes a dependent child that has no other.  A child that is
\* undefined already is left alone.
VisitChild ==
    /\ stack # <<>>
    /\ \E c \in Object, r \in Composite :
         LET rest == [Top EXCEPT !.todo = @ \ {<<c, r>>}]
             left == rcr \ {<<c, Top.obj, r>>}
             dies == r \in Dependent /\ \A t \in left : t[1] # c
         IN  /\ <<c, r>> \in Top.todo
             /\ IF c \notin live
                  THEN stack' = Append(Outer, rest) /\ UNCHANGED <<live, rcr>>
                  ELSE /\ rcr' = left
                       /\ IF dies
                            THEN stack' = Outer \o <<rest, Frame(c)>> /\ live' = live \ {c}
                            ELSE stack' = Append(Outer, rest) /\ UNCHANGED live
    /\ UNCHANGED <<file, value, updated, pending, setup>>

\* The destructor ends: values and OksRCRs of the object are freed.
EndDelete ==
    /\ stack # <<>> /\ Top.todo = {}
    /\ value' = [value EXCEPT ![Top.obj] = [r \in Rel |-> <<>>]]
    /\ rcr' = {t \in rcr : t[1] # Top.obj}
    /\ file' = [file EXCEPT ![Top.obj] = NoFile]
    /\ stack' = Outer
    /\ UNCHANGED <<live, updated, pending, setup>>

\* Mutant: nothing is unbound.
BuggyUnbound(s, f) == value[s]

\* unbind_file: pointers of s to objects of f become names.
Unbound(s, f) ==
    [r \in Rel |-> [i \in DOMAIN value[s][r] |->
        IF file[value[s][r][i].obj] = f
          THEN [value[s][r][i] EXCEPT !.bound = FALSE] ELSE value[s][r][i]]]

\* k_close_data starts.
CloseData(f) ==
    /\ Idle
    /\ pending' = {o \in live : file[o] = f}
    /\ value' = [s \in Object |->
                   IF s \in live /\ file[s] # f THEN Unbound(s, f) ELSE value[s]]
    /\ updated' = updated \ {f}
    /\ UNCHANGED <<live, file, rcr, stack, setup>>

\* k_close_data goes to the next object of its list, which may be gone.
DeleteNext ==
    /\ stack = <<>>
    /\ \E o \in pending :
         /\ pending' = pending \ {o}
         /\ IF o \in live THEN Delete(o) ELSE UNCHANGED <<live, stack>>
    /\ UNCHANGED <<file, value, rcr, updated, setup>>

-----------------------------------------------------------------------------
\* OksObject::set_file, both files marked.
SetFile(o, f) ==
    /\ Idle /\ o \in live /\ f \in setup.files \ {file[o]}
    /\ file' = [file EXCEPT ![o] = f]
    /\ updated' = updated \cup {f, file[o]}
    /\ UNCHANGED <<live, value, rcr, stack, pending, setup>>

\* k_save_data succeeds (OksFileSession has its steps).
SaveData(f) ==
    /\ Idle /\ f \in updated \cap setup.saved
    /\ updated' = updated \ {f}
    /\ UNCHANGED <<live, file, value, rcr, stack, pending, setup>>

Next ==
    \/ \E s \in Object, r \in RelName :
         \/ \E v \in Input(r) : SetRelationshipValue(s, r, v)
         \/ \E o \in Object :
              \/ AddRelationshipValue(s, r, o) \/ AddName(s, r, o)
              \/ RemoveRelationshipValue(s, r, o) \/ RemoveName(s, r, o)
    \/ \E o \in Object : Create(o)
    \/ \E o \in Object, fast \in BOOLEAN : Destroy(o, fast)
    \/ \E o \in Object, f \in File : SetFile(o, f)
    \/ BindObjects \/ VisitChild \/ EndDelete \/ DeleteNext
    \/ \E f \in File : CloseData(f) \/ SaveData(f)

Spec == Init /\ [][Next]_vars

-----------------------------------------------------------------------------
(* Properties *)

\* Every variable keeps its type, and every object is in a file.
TypeOK ==
    /\ live \subseteq Object /\ file \in [Object -> File \cup {NoFile}]
    /\ \A o \in live : file[o] # NoFile
    /\ \A s \in Object, r \in Rel :
         /\ value[s][r] \in Seq(Ref)
         /\ r \notin Many => Len(value[s][r]) <= 1
    /\ rcr \subseteq Triple /\ updated \subseteq File /\ pending \subseteq Object
    /\ \A i \in DOMAIN stack :
         stack[i].obj \in Object /\ stack[i].todo \subseteq Object \X Composite

\* Between calls the reverse composite relationships of the objects are
\* exactly the composite pointers: every setter, refused call, destructor,
\* close and bind keeps the two in step.
RcrMatchesValues ==
    Idle /\ Careless = {} =>
        rcr = {t \in Triple :
                 t[2] \in live /\ t[3] \in Composite /\ t[1] \in Refers(t[2], t[3])}

\* Between calls no value points to an object that was deleted, when no
\* dependent object has a reference that is not composite: by destroy, as a
\* dependent child or with its file, an object is not deleted before the pointers
\* to it are gone.
NoDanglingPointer ==
    Careless = {} /\ (Dependent = {} \/ Composite = Rel) =>
        (Idle => \A s \in live, r \in Rel : Refers(s, r) \subseteq live)

\* An object is the component of at most one parent through one exclusive
\* relationship, however its parents were set, replaced, bound or destroyed.
OneParentPerRelationship ==
    Careless = {} =>
        \A r \in Exclusive : \A s, p \in live :
            s # p => Refers(s, r) \cap Refers(p, r) \cap live = {}

\* What is written of a value: the references without the pointers.
Saved(v) == [r \in Rel |-> [i \in DOMAIN v[r] |-> v[r][i].obj]]

\* A setter or destroy marks the file of each object it changes, so that saving
\* the marked files saves every change.  Dependent children that are deleted
\* with a parent of another file are the exception.
ChangeMarksFile ==
    [][Careless = {} /\ pending = {} /\ pending' = {} =>
         \A o \in live :
           \/ o \in live' /\ (value'[o] = value[o] \/ Saved(value'[o]) = Saved(value[o]))
           \/ stack # <<>> /\ file[o] # file[stack[1].obj]
           \/ file[o] \in updated']_vars
=============================================================================
