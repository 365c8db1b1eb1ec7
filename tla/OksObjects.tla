----------------------------- MODULE OksObjects -----------------------------
(***************************************************************************)
(* Objects come from data files: a load reads the files with one job per   *)
(* file and the threads of the pool (OksLoadObjectsJob, k_load_data), a    *)
(* reload reads modified files again one after the other and updates,      *)
(* creates and removes objects (reload_data); both with OksObject::read of *)
(* src/src/object.cpp.                                                     *)
(*                                                                         *)
(* An attribute is left out: its value changes nothing but itself.  A      *)
(* relationship is a list.  An object is known by its address; an address  *)
(* is not used again while anything still holds it.  What a reload does to *)
(* the list of files is in OksIncludes.                                    *)
(***************************************************************************)
EXTENDS Naturals, Sequences, FiniteSets

CONSTANTS
    Address,   \* bound: objects that are there at once
    Setups     \* the values of setup to look at

None == <<>>
IsSequence(s) == s \in Seq({s[i] : i \in DOMAIN s})
PlainName(u) == u = <<u[1], u[2], 0>>   \* the name of an object in a file

\* A setup: the files in the order their jobs are added; the contents a file
\* may have, now or after an edit; the relationships in the order they are
\* written, those that are composite, exclusive, dependent; the threads of
\* the pool; the modes of the kernel; the bounds on edits and reloads.
\*
\* An object in a file: its class and id, its relationships, and whether its
\* text can be read to the end.
ASSUME ObjectsAssumption ==
    /\ Address \subseteq Nat \ {0} /\ IsFiniteSet(Address)
    /\ \A u \in Setups :
         /\ DOMAIN u.content = {u.files[i] : i \in DOMAIN u.files} /\ DOMAIN u.content # {}
         /\ IsSequence(u.files) /\ IsSequence(u.rels)
         /\ \A f \in DOMAIN u.content : \A c \in u.content[f] :
              /\ IsSequence(c)
              /\ \A i \in DOMAIN c :
                   /\ PlainName(c[i].uid)
                   /\ c[i].value = [r \in {u.rels[n] : n \in DOMAIN u.rels} |-> c[i].value[r]]
                   /\ \A r \in {u.rels[n] : n \in DOMAIN u.rels} : IsSequence(c[i].value[r])
         /\ \A m, n \in DOMAIN u.rels : u.rels[m] = u.rels[n] => m = n
         /\ u.composite \subseteq {u.rels[n] : n \in DOMAIN u.rels}
         /\ u.exclusive \subseteq u.composite /\ u.dependent \subseteq u.composite
         /\ u.threads \in Nat \ {0} /\ {u.notify, u.test, u.allow} \subseteq BOOLEAN
         /\ {u.edits, u.reloads} \subseteq Nat

VARIABLES
    setup,
    disk,       \* what is in the files
    live,       \* OksKernel::p_objects and, by class, OksClass::p_objects
    uid,        \* OksObject::uid: class, id, and the number of a duplicate
    file,       \* OksObject::file
    value,      \* relationship values
    rcr,        \* OksObject::p_rcr: parents and relationships
    pc,
    reader,     \* per file, the job or the loop that reads it
    pool,       \* ReloadObjects::data
    doomed,     \* objects the reload has yet to delete
    created,    \* ReloadObjects::created
    reported,   \* objects the create or change callback was called for
    deleted,    \* names of the objects the delete callback was called for
    test,       \* p_test_duplicated_objects_via_inheritance
    seen,       \* per file, its content when it was read with success
    before,     \* the objects that the callbacks started from
    edits, reloads  \* how many there were

objectVars == <<live, uid, file, value, rcr>>
reloadVars == <<pool, doomed, created, reported, deleted, before, reloads>>
vars == <<setup, disk, objectVars, pc, reader, reloadVars, test, seen, edits>>

File == DOMAIN setup.content
Rel == {setup.rels[i] : i \in DOMAIN setup.rels}
Null == 0
Unknown == "unknown"    \* what memory has of the file is not what is in it

NoValue == [r \in Rel |-> <<>>]
NoReader == [pc |-> "wait", at |-> 1, obj |-> Null, rels |-> <<>>, acc |-> <<>>,
             fresh |-> FALSE, update |-> FALSE]

\* A reference by pointer or, when obj is null, by class and id.
Ref(u, o) == [uid |-> u, obj |-> o]
Pointers(v) == {v[i].obj : i \in DOMAIN v} \ {Null}
Names(v) == [r \in Rel |-> [i \in DOMAIN v[r] |-> v[r][i].uid]]
Described(o) == <<uid[o], Names(value[o])>>

Idle == pc = "idle"
Loading == pc = "load"

Init ==
    /\ setup \in Setups
    /\ disk \in {d \in [File -> UNION {setup.content[f] : f \in File}] :
                   \A f \in File : d[f] \in setup.content[f]}
    /\ live = {} /\ uid = [a \in Address |-> None] /\ file = [a \in Address |-> None]
    /\ value = [a \in Address |-> NoValue] /\ rcr = [a \in Address |-> {}]
    /\ pc = "new" /\ reader = [f \in File |-> NoReader]
    /\ pool = {} /\ doomed = {} /\ created = {} /\ reported = {} /\ deleted = {} /\ before = {}
    /\ test = setup.test /\ seen = [f \in File |-> Unknown]
    /\ edits = 0 /\ reloads = 0

\* OksClass::get_object.
GetObject(u) ==
    IF \E o \in live : uid[o] = u THEN CHOOSE o \in live : uid[o] = u ELSE Null

-----------------------------------------------------------------------------
(* Reading one object *)

Reading(f) == reader[f].pc \in {"header", "body", "add"}
Entry(f) == disk[f][reader[f].at]
Owner(f) == reader[f].obj
Rereads(f) == Owner(f) \in live

\* A job that fails reports it to p_load_errors and reads no further, the
\* other jobs go on.  A reload that fails is over; only the exception of a
\* creation that is refused passes through the handler that restores the
\* mode.  The object that was being created is freed, and nothing else.
Fail(f, refused) ==
    /\ IF Loading
         THEN /\ reader' = [reader EXCEPT ![f] = [NoReader EXCEPT !.pc = "failed"]]
              /\ UNCHANGED <<pc, test, pool>>
         ELSE /\ reader' = [g \in File |-> NoReader]
              /\ pc' = "idle" /\ pool' = {}
              /\ test' = IF refused THEN setup.test ELSE test
    /\ UNCHANGED <<doomed, created, reported, deleted, before, reloads>>

\* OksObject::check_ids: an object of this id in another class of the
\* hierarchy, which is all classes here.
SameId(u) == \E o \in live : uid[o][1] # u[1] /\ uid[o][2] = u[2] /\ uid[o][3] = u[3]

\* init1 does not create an object that is already there.
Refused(u) == ~setup.allow /\ ((test /\ SameId(u)) \/ GetObject(u) # Null)

\* set_unique_id: the id with the first free number.
UniqueId(u) ==
    LET free == {n \in 1 .. Cardinality(Address) : GetObject(<<u[1], u[2], n>>) = Null}
    IN  <<u[1], u[2], CHOOSE n \in free : \A m \in free : n <= m>>

InUse(a) ==
    \/ a \in live \/ \E f \in File : Owner(f) = a
    \/ \E o \in live : (\E r \in Rel : a \in Pointers(value[o][r])) \/ \E p \in rcr[o] : p[1] = a

Body(f, o) ==
    [reader EXCEPT ![f].pc = "body", ![f].obj = o, ![f].rels = setup.rels,
                   ![f].acc = <<>>, ![f].update = FALSE]

\* Mutant: the object stays in the file it was in.
BuggySetFile(f, o) == file' = [file EXCEPT ![o] = IF o \in live THEN @ ELSE f]

\* read_body begins: the object is in the file it is read from.
SetFile(f, o) == file' = [file EXCEPT ![o] = f]

\* The header of the next object is read.  A reload takes the object of this
\* name out of the pool to read it again, without a callback on changes from
\* a clean state; otherwise the object is created by init1.
ReadHeader(f) ==
    LET u == Entry(f).uid
        again == {o \in pool : uid[o] = u}
    IN  /\ reader[f].pc = "header" /\ reader[f].at <= Len(disk[f])
        /\ \/ /\ again # {}
              /\ \E o \in again :
                   /\ pool' = pool \ {o}
                   /\ SetFile(f, o)
                   /\ value' = IF setup.notify THEN value ELSE [value EXCEPT ![o] = NoValue]
                   /\ reader' = Body(f, o)
              /\ UNCHANGED <<live, uid, rcr, pc, test, doomed, created, reported, deleted, before, reloads>>
           \/ again = {} /\ Refused(u) /\ Fail(f, TRUE) /\ UNCHANGED objectVars
           \/ /\ again = {} /\ ~Refused(u)
              /\ \E a \in Address :
                   /\ ~InUse(a) /\ \A b \in Address : b < a => InUse(b)
                   /\ uid' = [uid EXCEPT ![a] = IF GetObject(u) # Null THEN UniqueId(u) ELSE u]
                   /\ SetFile(f, a)
                   /\ value' = [value EXCEPT ![a] = NoValue]
                   /\ rcr' = [rcr EXCEPT ![a] = {}]
                   /\ reader' = Body(f, a)
              /\ UNCHANGED <<live, pc, test, reloadVars>>
        /\ UNCHANGED <<setup, disk, seen, edits>>

\* The relationship that is being read, and its references in the file.
Current(f) == Head(reader[f].rels)
InFile(f) == Entry(f).value[Current(f)]
InRelationship(f) ==
    reader[f].pc = "body" /\ reader[f].rels # <<>> /\ Len(reader[f].acc) < Len(InFile(f))
NextName(f) == InFile(f)[Len(reader[f].acc) + 1]

\* Mutant: the test of the exclusive flag is inverted.
BuggyCanAdd(list, p, r) == r \in setup.exclusive \/ \A q \in list : q[2] = r => q[1] = p

\* OksObject::add_RCR: an exclusive part has one parent.
CanAdd(list, p, r) == r \notin setup.exclusive \/ \A q \in list : q[2] = r => q[1] = p

\* A value that is read in place keeps what was read of it before a failure.
Partial(f) ==
    value' = [value EXCEPT ![Owner(f)][Current(f)] =
                IF setup.notify /\ Rereads(f) THEN @ ELSE reader[f].acc]

Accept(f, ref) == [reader EXCEPT ![f].pc = "body", ![f].acc = Append(@, ref)]

\* OksData::read of a reference: a pointer if there is such an object, then
\* add_RCR looks at the object's list, without a lock.
ReadReference(f) ==
    /\ InRelationship(f)
    /\ LET u == NextName(f)  o == GetObject(u)  r == Current(f)  me == <<Owner(f), r>>
           part == o # Null /\ r \in setup.composite
           known == IF part THEN me \in rcr[o] ELSE TRUE
           accepts == IF part THEN CanAdd(rcr[o], Owner(f), r) ELSE TRUE
       IN  \/ /\ known
              /\ reader' = Accept(f, Ref(u, o))
              /\ UNCHANGED <<value, pc, test, reloadVars>>
           \/ ~accepts /\ Partial(f) /\ Fail(f, FALSE)
           \/ /\ ~known /\ accepts
              /\ reader' = [reader EXCEPT ![f].pc = "add", ![f].fresh = rcr[o] = {}]
              /\ UNCHANGED <<value, pc, test, reloadVars>>
    /\ UNCHANGED <<live, uid, file, rcr, setup, disk, seen, edits>>

\* add_RCR adds to the list, or makes one when it saw none: if another job
\* made one in between, what that one holds may be lost.
AddRcr(f) ==
    /\ reader[f].pc = "add"
    /\ LET u == NextName(f)  o == GetObject(u)  me == <<Owner(f), Current(f)>>
       IN  /\ reader' = Accept(f, Ref(u, o))
           /\ \/ rcr' = [rcr EXCEPT ![o] = @ \cup {me}]
              \/ reader[f].fresh /\ rcr' = [rcr EXCEPT ![o] = {me}]
    /\ UNCHANGED <<live, uid, file, value, pc, test, reloadVars, setup, disk, seen, edits>>

\* The relationship is complete: it replaces the value, and with a callback
\* on changes read_body compares the two first.
EndRelationship(f) ==
    /\ reader[f].pc = "body" /\ reader[f].rels # <<>> /\ Len(reader[f].acc) = Len(InFile(f))
    /\ value' = [value EXCEPT ![Owner(f)][Current(f)] = reader[f].acc]
    /\ reader' = [reader EXCEPT ![f].rels = Tail(@), ![f].acc = <<>>,
                    ![f].update = @ \/ (Rereads(f) /\ value' # value)]
    /\ UNCHANGED <<live, uid, file, rcr, pc, test, reloadVars, setup, disk, seen, edits>>

Next1(f) == [reader EXCEPT ![f].pc = "header", ![f].at = @ + 1, ![f].obj = Null]

\* Mutant: the change of an object that is read again is not notified.
BuggyChangeNotify(f) == UNCHANGED reported

\* read_body ends with change_notify.
ChangeNotify(f) ==
    reported' = IF setup.notify /\ reader[f].update THEN reported \cup {Owner(f)} ELSE reported

\* The end of the object.  One that is new is put into its class by init3,
\* which refuses a second one of the same name, and into the kernel; a reload
\* notes it and calls create_notify.
EndObject(f) ==
    /\ reader[f].pc = "body" /\ reader[f].rels = <<>>
    /\ \/ /\ ~Entry(f).readable \/ (~Rereads(f) /\ GetObject(uid[Owner(f)]) # Null)
          /\ Fail(f, FALSE) /\ UNCHANGED live
       \/ /\ Entry(f).readable /\ Rereads(f)
          /\ reader' = Next1(f) /\ ChangeNotify(f)
          /\ UNCHANGED <<live, pc, test, pool, doomed, created, deleted, before, reloads>>
       \/ /\ Entry(f).readable /\ ~Rereads(f) /\ GetObject(uid[Owner(f)]) = Null
          /\ live' = live \cup {Owner(f)} /\ reader' = Next1(f)
          /\ IF Loading THEN UNCHANGED <<created, reported>>
             ELSE created' = created \cup {Owner(f)} /\ reported' = reported \cup {Owner(f)}
          /\ UNCHANGED <<pc, test, pool, doomed, deleted, before, reloads>>
    /\ UNCHANGED <<uid, file, value, rcr, setup, disk, seen, edits>>

\* The end of the file.
EndFile(f) ==
    /\ reader[f].pc = "header" /\ reader[f].at > Len(disk[f])
    /\ reader' = [reader EXCEPT ![f].pc = "done"]
    /\ UNCHANGED <<objectVars, pc, test, reloadVars, setup, disk, seen, edits>>

ReadObject(f) ==
    ReadHeader(f) \/ ReadReference(f) \/ AddRcr(f) \/ EndRelationship(f) \/ EndObject(f) \/ EndFile(f)

-----------------------------------------------------------------------------
(* Binding *)

Triple == Address \X Address \X Rel

\* Names in values of objects that are there for objects that are there.
Resolvable ==
    {t \in Triple : {t[1], t[2]} \subseteq live /\ uid[t[1]] # None
       /\ \E i \in DOMAIN value[t[2]][t[3]] : value[t[2]][t[3]][i] = Ref(uid[t[1]], Null)}

Bound(T) ==
    [s \in Address |-> [r \in Rel |-> [i \in DOMAIN value[s][r] |->
        LET ref == value[s][r][i]
            to  == {t \in T : t[2] = s /\ t[3] = r /\ ref = Ref(uid[t[1]], Null)}
        IN  IF to = {} THEN ref ELSE Ref(ref.uid, (CHOOSE t \in to : TRUE)[1])]]]

\* The lists with the parents that T adds.
WithParents(T) ==
    [o \in Address |-> rcr[o] \cup
        {<<t[2], t[3]>> : t \in {u \in T : u[1] = o /\ u[3] \in setup.composite}}]

\* The parents that are new in the lists are accepted.
AllAccept(lists) == \A o \in live : \A p \in lists[o] \ rcr[o] : CanAdd(lists[o], p[1], p[2])

\* bind_objects of one object after the other: the first part that refuses a
\* parent ends it, with the pointer set.
Bind(succeeds) ==
    IF succeeds
      THEN /\ AllAccept(WithParents(Resolvable))
           /\ value' = Bound(Resolvable) /\ rcr' = WithParents(Resolvable)
      ELSE \E T \in SUBSET Resolvable : \E t \in Resolvable \ T :
             /\ AllAccept(WithParents(T)) /\ ~AllAccept(WithParents(T \cup {t}))
             /\ value' = Bound(T \cup {t}) /\ rcr' = WithParents(T)

AllSeen == \A f \in File : seen[f] # Unknown

\* The files F were read: what memory has of them is known, or not.
Seen(F, known) == seen' = [f \in File |-> IF f \notin F THEN seen[f]
                                          ELSE IF known THEN disk[f] ELSE Unknown]

-----------------------------------------------------------------------------
(* Load *)

\* load_data of a file that includes the others: a job for each of them.
LoadData ==
    /\ pc = "new" /\ pc' = "load"
    /\ UNCHANGED <<objectVars, reader, test, reloadVars, setup, disk, seen, edits>>

\* A thread of the pool takes the first job.
StartJob(f) ==
    /\ Loading /\ reader[f].pc = "wait"
    /\ \E i \in DOMAIN setup.files :
         setup.files[i] = f /\ \A j \in 1 .. i - 1 : reader[setup.files[j]].pc # "wait"
    /\ Cardinality({g \in File : Reading(g)}) < setup.threads
    /\ reader' = [reader EXCEPT ![f].pc = "header"]
    /\ UNCHANGED <<objectVars, pc, test, reloadVars, setup, disk, seen, edits>>

\* The pipeline is gone: an error of any job fails the load, without one the
\* objects are bound.
EndLoad(succeeds) ==
    /\ Loading /\ \A f \in File : reader[f].pc \in {"done", "failed"}
    /\ IF \E f \in File : reader[f].pc = "failed"
         THEN ~succeeds /\ UNCHANGED <<value, rcr>>
         ELSE Bind(succeeds)
    /\ pc' = "idle" /\ reader' = [f \in File |-> NoReader] /\ Seen(File, succeeds)
    /\ before' = {<<o, Described(o)>> : o \in live}
    /\ UNCHANGED <<live, uid, file, test, pool, doomed, created, reported, deleted, reloads,
                   setup, disk, edits>>

-----------------------------------------------------------------------------
(* Reload *)

\* Somebody changes a file.
Edit(f) ==
    /\ Idle /\ edits < setup.edits /\ edits' = edits + 1
    /\ \E c \in setup.content[f] : c # disk[f] /\ disk' = [disk EXCEPT ![f] = c]
    /\ UNCHANGED <<setup, objectVars, pc, reader, reloadVars, test, seen>>

\* Mutant: the parts keep their parents while they are read again.
BuggyWithoutExclusive(P) == rcr

\* The parts of the objects P lose them as parents by exclusive relationships.
WithoutExclusive(P) ==
    [o \in Address |->
        {p \in rcr[o] : ~(o \in live /\ p[1] \in P /\ p[2] \in setup.exclusive
                            /\ o \in Pointers(value[p[1]][p[2]]))}]

\* reload_data begins: the objects of the files F go to the pool, and equal
\* ids in a hierarchy are allowed while objects come and go.
ReloadData(F) ==
    LET P == {o \in live : file[o] \in F}
    IN  /\ Idle /\ reloads < setup.reloads /\ reloads' = reloads + 1
        /\ pc' = "reload" /\ pool' = P
        /\ rcr' = WithoutExclusive(P)
        /\ test' = FALSE
        /\ reader' = [f \in File |->
                        IF f \in F THEN [NoReader EXCEPT !.pc = "header"] ELSE NoReader]
        /\ created' = {} /\ doomed' = {}
        /\ IF AllSeen
             THEN reported' = {} /\ deleted' = {} /\ before' = {<<o, Described(o)>> : o \in live}
             ELSE UNCHANGED <<reported, deleted, before>>
        /\ Seen(F, FALSE)
        /\ UNCHANGED <<live, uid, file, value, setup, disk, edits>>

\* The files are read one after the other.
ReloadFile(f) ==
    /\ pc = "reload" /\ \A g \in File \ {f} : ~Reading(g) \/ reader[g] = [NoReader EXCEPT !.pc = "header"]
    /\ ReadObject(f)

\* Mutant: pointers to the removed objects are left.
BuggyUnbound(P) == value

\* unbind_all_rels: pointers to the objects P become names.
Unbound(P) ==
    [s \in Address |-> [r \in Rel |-> [i \in DOMAIN value[s][r] |->
        LET ref == value[s][r][i] IN IF s \in live /\ ref.obj \in P THEN Ref(ref.uid, Null) ELSE ref]]]

\* Mutant: the mode is not switched on again.
BuggyRemoveOthers ==
    /\ pc = "reload" /\ \A f \in File : reader[f].pc \in {"done", "wait"}
    /\ pc' = "remove" /\ doomed' = pool
    /\ value' = Unbound(pool)
    /\ reported' = IF setup.notify THEN reported \cup {s \in live : value'[s] # value[s]} ELSE reported
    /\ UNCHANGED <<live, uid, file, rcr, test, reader, pool, created, deleted, before, reloads,
                   setup, disk, seen, edits>>

\* All files are read: the mode is restored, the objects left in the pool are
\* unbound, and those that referred to them are reported.
RemoveOthers ==
    /\ pc = "reload" /\ \A f \in File : reader[f].pc \in {"done", "wait"}
    /\ pc' = "remove" /\ test' = setup.test /\ doomed' = pool
    /\ value' = Unbound(pool)
    /\ reported' = IF setup.notify THEN reported \cup {s \in live : value'[s] # value[s]} ELSE reported
    /\ UNCHANGED <<live, uid, file, rcr, reader, pool, created, deleted, before, reloads,
                   setup, disk, seen, edits>>

\* ~OksObject: the parts lose the parent, and a dependent one that has no
\* other is deleted too.
DeleteObject(o) ==
    LET parts(r) == (Pointers(value[o][r]) \cap live) \ {o}
        lists == [c \in Address |-> rcr[c] \ {<<o, r>> : r \in {q \in setup.composite : c \in parts(q)}}]
        orphans == UNION {{c \in parts(r) : lists[c] = {}} : r \in setup.dependent}
    IN  /\ pc = "remove" /\ o \in doomed
        /\ live' = live \ {o}
        /\ doomed' = (doomed \cup orphans) \ {o}
        /\ deleted' = deleted \cup {uid[o]}
        /\ rcr' = [lists EXCEPT ![o] = {}]
        /\ value' = [value EXCEPT ![o] = NoValue]
        /\ uid' = [uid EXCEPT ![o] = None] /\ file' = [file EXCEPT ![o] = None]
        /\ UNCHANGED <<pc, reader, pool, created, reported, before, reloads, test, setup, disk, seen, edits>>

\* The objects are bound; then the new ones must not have the id of another
\* one of their hierarchy.  Objects of all files are bound, so nothing is known
\* of any after a failure.
EndReload(succeeds) ==
    LET F == {f \in File : reader[f].pc = "done"}
    IN  /\ pc = "remove" /\ doomed = {}
        /\ \/ Bind(succeeds) /\ (succeeds => ~(test /\ \E o \in created \cap live : SameId(uid[o])))
           \/ ~succeeds /\ Bind(TRUE) /\ test /\ \E o \in created \cap live : SameId(uid[o])
        /\ pc' = "idle" /\ pool' = {} /\ reader' = [f \in File |-> NoReader]
        /\ Seen(IF succeeds THEN F ELSE File, succeeds)
        /\ UNCHANGED <<live, uid, file, doomed, created, reported, deleted, before, reloads, test,
                       setup, disk, edits>>

AllFile == UNION {DOMAIN u.content : u \in Setups}

Next ==
    \/ LoadData \/ RemoveOthers
    \/ \E f \in File : StartJob(f) \/ (Loading /\ ReadObject(f)) \/ ReloadFile(f) \/ Edit(f)
    \/ \E F \in (SUBSET File) \ {{}} : ReloadData(F)
    \/ \E o \in Address : DeleteObject(o)
    \/ \E succeeds \in BOOLEAN : EndLoad(succeeds) \/ EndReload(succeeds)

Spec == Init /\ [][Next]_vars

-----------------------------------------------------------------------------
(* Properties *)

\* Between calls memory holds what the files hold: of each file that was read
\* with success, one object per object in it, with its references, whatever
\* the jobs or the order of the files, and whatever a failed call left behind.
MemoryIsFiles ==
    Idle => \A f \in File : seen[f] # Unknown =>
        LET here == {o \in live : file[o] = f}
            text == {<<seen[f][i].uid, seen[f][i].value>> : i \in DOMAIN seen[f]}
        IN  /\ Cardinality(here) = Len(seen[f])
            /\ ~setup.allow => text = {Described(o) : o \in here}
            /\ \A o, p \in here : uid[o] = uid[p] => o = p

\* When all is read with success a reference is a pointer exactly if the object
\* is there, in whatever order the two were read: none is left as a name, and
\* none points to an object that a reload removed.
ReferencesAreBound ==
    Idle /\ AllSeen =>
        \A o \in live, r \in Rel : \A i \in DOMAIN value[o][r] :
            value[o][r][i].obj = GetObject(value[o][r][i].uid)

\* When all is read with success the parents that parts know are exactly the
\* objects with a composite pointer to them, after parallel reading as after
\* exclusive parts were taken from their parents for a reload.
ParentsMatchValues ==
    Idle /\ AllSeen =>
        \A o \in live :
            rcr[o] = {p \in live \X Rel : p[2] \in setup.composite /\ o \in Pointers(value[p[1]][p[2]])}

\* "the child object can only be referenced by single parent via given
\* relationship": two files that give an exclusive part two parents are not
\* loaded or reloaded with success.
OneParentOfPart ==
    Idle /\ AllSeen =>
        \A r \in setup.exclusive, o, p \in live :
            o # p => Pointers(value[o][r]) \cap Pointers(value[p][r]) = {}

\* With the test switched on, what is loaded and reloaded with success has no
\* two objects of one id in an inheritance hierarchy, and the test stays on
\* after a reload that swaps such objects or is refused.
IdsUniqueInHierarchy ==
    Idle /\ setup.test =>
        /\ test
        /\ AllSeen /\ ~setup.allow => \A o, p \in live : uid[o][2] = uid[p][2] => o = p

\* After a reload with success the callbacks have told of every object that is
\* new, gone or refers to others than after the last success, the reloads that
\* were refused in between included.
ChangesNotified ==
    Idle /\ reloads > 0 /\ AllSeen /\ setup.notify =>
        /\ \A o \in live :
             \/ o \in reported
             \/ <<o, Described(o)>> \in before
        /\ \A b \in before : (b[1] \in live /\ uid[b[1]] = b[2][1]) \/ b[2][1] \in deleted
=============================================================================
