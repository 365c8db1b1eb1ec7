-------------------------- MODULE OksObjectsProofs --------------------------
(***************************************************************************)
(* Loads and reloads of any number of files with any threads: memory is    *)
(* what the files say, and references are bound to the objects they name.  *)
(* With one thread the parts know their parents, and exclusive ones have   *)
(* one; after a load ids are unique in a hierarchy. The callbacks tell of  *)
(* every change.                                                           *)
(***************************************************************************)
EXTENDS OksObjects, SequenceTheorems, FiniteSetTheorems, TLAPS

\* A reload deletes no object but those that are not in the files any more:
\* the dependent parts of such an object go with it, though their files still
\* say that they are there.
NoPartsDeleted == setup.dependent = {} \/ setup.reloads = 0

\* A list of references whose pointers are to objects in L of that name, with
\* the names U.
Sound(v, L, U) ==
    /\ IsSequence(v)
    /\ \A i \in DOMAIN v :
         /\ v[i] = Ref(v[i].uid, v[i].obj)
         /\ v[i].obj # Null => v[i].obj \in L /\ U[v[i].obj] = v[i].uid
SoundValue(v, R, L, U) == v = [r \in R |-> v[r]] /\ \A r \in R : Sound(v[r], L, U)
NamesIn(v) == [i \in DOMAIN v |-> v[i].uid]

StateOK ==
    /\ setup \in Setups
    /\ DOMAIN disk = File /\ \A f \in File : disk[f] \in setup.content[f]
    /\ live \subseteq Address /\ reloads \in Nat
    /\ DOMAIN uid = Address /\ DOMAIN file = Address /\ DOMAIN value = Address
    /\ DOMAIN reader = File /\ DOMAIN seen = File
    /\ \A f \in File : seen[f] # Unknown => seen[f] \in setup.content[f]
    /\ pc \in {"new", "load", "idle", "reload", "remove"}

UniqueNames ==
    /\ \A o \in live : uid[o] # None
    /\ \A o, p \in live : uid[o] = uid[p] => o = p

\* Objects that are there or being read have sound values.
Held(a) == a \in live \/ \E f \in File : Owner(f) = a
ValuesSound == \A a \in Address : Held(a) => SoundValue(value[a], Rel, live, uid)

\* Reader x is inside the text e of an object with value v: the relationships
\* that are not still to be read have the names that are in the file, and so
\* has what was read of the current one.
InText(x, v, e, R, allow, L, U) ==
    /\ U[x.obj] # None /\ (~allow => U[x.obj] = e.uid)
    /\ x.rels \in Seq(R) /\ Sound(x.acc, L, U)
    /\ \A r \in R : (\E i \in DOMAIN x.rels : x.rels[i] = r) \/ NamesIn(v[r]) = e.value[r]
    /\ x.rels # <<>> =>
         /\ Len(x.acc) <= Len(e.value[Head(x.rels)])
         /\ \A i \in DOMAIN x.acc : x.acc[i].uid = e.value[Head(x.rels)][i]
    /\ x.pc = "add" => x.rels # <<>> /\ Len(x.acc) < Len(e.value[Head(x.rels)])

IsReader(x) ==
    /\ x = [pc |-> x.pc, at |-> x.at, obj |-> x.obj, rels |-> x.rels, acc |-> x.acc,
            fresh |-> x.fresh, update |-> x.update]
    /\ x.pc \in {"wait", "header", "body", "add", "done", "failed"}
InBody(f) == reader[f].pc \in {"body", "add"}
InObject(f) ==
    /\ reader[f].at \in 1 .. Len(disk[f])
    /\ Owner(f) \in Address \ pool /\ file[Owner(f)] = f
    /\ InText(reader[f], value[Owner(f)], Entry(f), Rel, setup.allow, live, uid)
ReaderOK(f) ==
    /\ IsReader(reader[f])
    /\ IF InBody(f) THEN InObject(f) ELSE Owner(f) = Null
    /\ reader[f].pc = "wait" => reader[f] = NoReader
    /\ reader[f].pc = "header" => reader[f].at \in 1 .. Len(disk[f]) + 1
    /\ reader[f].pc = "done" => reader[f].at = Len(disk[f]) + 1
ReadersOK ==
    /\ \A f \in File : ReaderOK(f)
    /\ \A f, g \in File : Owner(f) = Owner(g) /\ Owner(f) # Null => f = g

\* The objects of a file that are read completely, and what they say.
Here(f) == {o \in live : file[o] = f /\ o \notin pool /\ \A g \in File : Owner(g) # o}
Texts(f) == {Described(o) : o \in Here(f)}

\* The objects O with the texts D are those of the first n entries of c.
Entries(c, n) == {<<c[i].uid, c[i].value>> : i \in 1 .. n}
Matches(O, D, c, n, allow) == Cardinality(O) = n /\ (~allow => D = Entries(c, n))

\* What was read of each file is here, and nothing else.
FileRead(f) ==
    /\ reader[f].pc \in {"header", "body", "add", "done"} =>
         Matches(Here(f), Texts(f), disk[f], reader[f].at - 1, setup.allow)
    /\ reader[f].pc = "wait" /\ pc \in {"new", "load"} => Here(f) = {}
    /\ reader[f].pc = "wait" /\ seen[f] # Unknown =>
         Matches(Here(f), Texts(f), seen[f], Len(seen[f]), setup.allow)
FilesRead == \A f \in File : FileRead(f)

\* What each phase of a load and a reload has settled.
NoneToDoomed == \A o \in live, r \in Rel : \A i \in DOMAIN value[o][r] : value[o][r][i].obj \notin doomed
PhaseOK ==
    /\ pc \in {"new", "load"} => \A f \in File : seen[f] = Unknown
    /\ pc # "load" => \A f \in File : reader[f].pc # "failed"
    /\ pc \in {"new", "load", "idle"} => pool = {}
    /\ pc \in {"new", "idle"} => \A f \in File : reader[f].pc = "wait"
    /\ pc \in {"reload", "remove"} =>
         setup.reloads # 0 /\ \A f \in File : reader[f].pc # "wait" => seen[f] = Unknown
    /\ pc = "reload" => \A o \in pool : o \in live /\ file[o] \in File /\ reader[file[o]].pc # "wait"
    /\ pc = "remove" =>
         /\ \A f \in File : reader[f].pc \in {"done", "wait"}
         /\ doomed = pool \cap live /\ NoneToDoomed

\* The invariants of the runs that are proved here, without their condition.
AllBound ==
    \A o \in live, r \in Rel : \A i \in DOMAIN value[o][r] :
        value[o][r][i].obj = GetObject(value[o][r][i].uid)
Bindings == Idle /\ AllSeen => AllBound

\* The inductive invariant.
ReadInv ==
    StateOK /\ UniqueNames /\ ValuesSound /\ ReadersOK /\ FilesRead /\ PhaseOK /\ Bindings
ObjectsInv == setup \in Setups /\ (NoPartsDeleted => ReadInv)

-----------------------------------------------------------------------------
(* Sequences, setups and names *)

\* What a sequence is.
LEMMA SeqParts ==
    ASSUME NEW s, IsSequence(s)
    PROVE  Len(s) \in Nat /\ DOMAIN s = 1 .. Len(s) /\ s = [i \in 1 .. Len(s) |-> s[i]]
BY LenProperties DEF IsSequence

\* A sequence is one of its own elements.
LEMMA SeqOfElements ==
    ASSUME NEW S, NEW t \in Seq(S)
    PROVE  IsSequence(t)
<1> DEFINE T == {t[i] : i \in DOMAIN t}
<1>1. Len(t) \in Nat /\ DOMAIN t = 1 .. Len(t) /\ t = [i \in 1 .. Len(t) |-> t[i]]
  BY LenProperties
<1>2. \A i \in 1 .. Len(t) : t[i] \in T
  BY <1>1
<1> HIDE DEF T
<1>3. t \in Seq(T)
  BY <1>1, <1>2, IsASeq
<1> QED BY <1>3 DEF IsSequence, T

\* One more element.
LEMMA AppendParts ==
    ASSUME NEW s, IsSequence(s), NEW x
    PROVE  LET t == Append(s, x)
           IN  /\ IsSequence(t) /\ Len(t) = Len(s) + 1
               /\ \A i \in 1 .. Len(s) : t[i] = s[i]
               /\ t[Len(s) + 1] = x
<1> DEFINE S == {s[i] : i \in DOMAIN s} \cup {x}
           t == Append(s, x)
<1>1. s \in Seq(S) /\ x \in S
  BY SeqMonotonic DEF IsSequence
<1> HIDE DEF S
<1>2. /\ t \in Seq(S) /\ Len(t) = Len(s) + 1 /\ DOMAIN t = 1 .. Len(t) /\ Len(s) \in Nat
      /\ \A i \in 1 .. Len(s) : t[i] = s[i]
      /\ t[Len(s) + 1] = x
  BY <1>1
<1> HIDE DEF t
<1>3. IsSequence(t)
  BY <1>2, SeqOfElements
<1> QED BY <1>2, <1>3 DEF t

\* What the assumption says of a setup.
LEMMA SetupParts ==
    ASSUME setup \in Setups
    PROVE  /\ File # {} /\ setup.rels \in Seq(Rel) /\ setup.reloads \in Nat
           /\ setup.allow \in BOOLEAN /\ setup.notify \in BOOLEAN
           /\ \A r \in Rel : \E i \in DOMAIN setup.rels : setup.rels[i] = r
           /\ \A f \in File : \A c \in setup.content[f] :
                /\ Len(c) \in Nat /\ DOMAIN c = 1 .. Len(c)
                /\ \A i \in 1 .. Len(c) :
                     /\ c[i].uid # None
                     /\ c[i].value = [r \in Rel |-> c[i].value[r]]
                     /\ \A r \in Rel : IsSequence(c[i].value[r])
<1>1. /\ File # {} /\ IsSequence(setup.rels) /\ setup.reloads \in Nat
      /\ setup.allow \in BOOLEAN /\ setup.notify \in BOOLEAN
  BY ObjectsAssumption DEF File
<1>2. \A f \in File : \A c \in setup.content[f] :
                /\ IsSequence(c)
                /\ \A i \in DOMAIN c :
                     /\ c[i].value = [r \in Rel |-> c[i].value[r]]
                     /\ \A r \in Rel : IsSequence(c[i].value[r])
  BY ObjectsAssumption DEF File, Rel
<1>3. setup.rels \in Seq(Rel) /\ \A r \in Rel : \E i \in DOMAIN setup.rels : setup.rels[i] = r
  BY <1>1 DEF IsSequence, Rel
<1>4. \A f \in File : \A c \in setup.content[f] : Len(c) \in Nat /\ DOMAIN c = 1 .. Len(c)
  <2> TAKE f \in File
  <2> TAKE c \in setup.content[f]
  <2>1. IsSequence(c)
    BY <1>2
  <2> QED BY <2>1, SeqParts
<1>5. ASSUME NEW f \in File, NEW c \in setup.content[f], NEW i \in DOMAIN c PROVE c[i].uid # None
  <2> DEFINE u == c[i].uid
  <2>1. u = <<u[1], u[2], 0>>
    <3>1. \A v \in Setups : \A g \in DOMAIN v.content : \A d \in v.content[g] : \A k \in DOMAIN d :
              PlainName(d[k].uid)
      BY ObjectsAssumption
    <3> QED BY <3>1 DEF File, PlainName
  <2> HIDE DEF u
  <2>2. \A x, y : <<x, y, 0>> # <<>>
    OBVIOUS
  <2>3. u # <<>>
    BY <2>1, <2>2, Zenon
  <2> QED BY <2>3 DEF None, u
<1> QED BY <1>1, <1>2, <1>3, <1>4, <1>5

\* A setup stays what it is.
LEMMA SetupSame ==
    ASSUME setup' = setup
    PROVE  File' = File /\ Rel' = Rel /\ (NoPartsDeleted' <=> NoPartsDeleted)
BY DEF File, Rel, NoPartsDeleted

\* An object that is there is found by its name, and no other.
LEMMA GetObjectParts ==
    ASSUME StateOK, UniqueNames, NEW u
    PROVE  /\ GetObject(u) # Null => GetObject(u) \in live /\ uid[GetObject(u)] = u
           /\ \A o \in live : uid[o] = u => GetObject(u) = o
           /\ Null \notin Address
<1>1. Null \notin Address
  BY ObjectsAssumption DEF Null
<1> QED BY <1>1 DEF GetObject, StateOK, UniqueNames

\* Pointers stay sound while objects come and keep their names.
LEMMA SoundStays ==
    ASSUME NEW v, NEW L, NEW U, NEW M, NEW W, Sound(v, L, U),
           L \subseteq M, \A x \in L : W[x] = U[x]
    PROVE  Sound(v, M, W)
BY DEF Sound

\* No references are sound, and one more is.
LEMMA SoundEmpty == ASSUME NEW L, NEW U PROVE Sound(<<>>, L, U)
BY DEF Sound, IsSequence
LEMMA SoundAppend ==
    ASSUME StateOK, UniqueNames, NEW v, Sound(v, live, uid), NEW u
    PROVE  LET t == Append(v, Ref(u, GetObject(u)))
           IN  Sound(t, live, uid) /\ Len(t) = Len(v) + 1 /\ Len(v) \in Nat /\ DOMAIN v = 1 .. Len(v)
                 /\ DOMAIN t = 1 .. Len(t)
                 /\ (\A i \in 1 .. Len(v) : t[i] = v[i]) /\ t[Len(v) + 1].uid = u
<1> DEFINE x == Ref(u, GetObject(u))
           t == Append(v, x)
<1>1. x = Ref(x.uid, x.obj) /\ x.uid = u /\ (x.obj # Null => x.obj \in live /\ uid[x.obj] = x.uid)
  BY GetObjectParts DEF Ref
<1> HIDE DEF x
<1>2. IsSequence(v) /\ Len(v) \in Nat /\ DOMAIN v = 1 .. Len(v)
  BY SeqParts DEF Sound
<1>3. /\ IsSequence(t) /\ Len(t) = Len(v) + 1
      /\ \A i \in 1 .. Len(v) : t[i] = v[i]
      /\ t[Len(v) + 1] = x
  BY <1>2, AppendParts
<1> HIDE DEF t
<1>4. DOMAIN t = 1 .. Len(v) + 1
  BY <1>3, SeqParts
<1>5. Sound(t, live, uid)
  BY <1>1, <1>2, <1>3, <1>4 DEF Sound
<1> QED BY <1>1, <1>2, <1>3, <1>4, <1>5 DEF t, x

\* The value of a new object.
LEMMA SoundNoValue == ASSUME NEW L, NEW U PROVE SoundValue(NoValue, Rel, L, U)
BY SoundEmpty DEF SoundValue, NoValue

\* The completely read objects of a file stay the same.
LEMMA HereSame ==
    ASSUME NEW g, \A o : o \in Here(g)' <=> o \in Here(g),
           \A o \in Here(g) : Described(o)' = Described(o)
    PROVE  Here(g)' = Here(g) /\ Texts(g)' = Texts(g)
BY DEF Texts

\* The description of an object depends on its name and its value's names.
LEMMA DescribedSame ==
    ASSUME setup' = setup, NEW o, uid'[o] = uid[o], value'[o] = value[o]
    PROVE  Described(o)' = Described(o)
BY SetupSame DEF Described, Names

\* A reader stays inside its text while objects come and keep their names.
LEMMA InTextStays ==
    ASSUME NEW x, NEW v, NEW e, NEW R, NEW allow, NEW L, NEW U, NEW M, NEW W,
           InText(x, v, e, R, allow, L, U),
           L \subseteq M, \A y \in L : W[y] = U[y], W[x.obj] = U[x.obj]
    PROVE  InText(x, v, e, R, allow, M, W)
<1>1. Sound(x.acc, M, W)
  BY SoundStays DEF InText
<1> QED BY <1>1 DEF InText
LEMMA SoundValueStays ==
    ASSUME NEW v, NEW R, NEW L, NEW U, NEW M, NEW W, SoundValue(v, R, L, U),
           L \subseteq M, \A x \in L : W[x] = U[x]
    PROVE  SoundValue(v, R, M, W)
<1>1. ASSUME NEW r \in R PROVE Sound(v[r], M, W)
  BY SoundStays DEF SoundValue
<1> QED BY <1>1 DEF SoundValue

-----------------------------------------------------------------------------
(* Readers *)

\* What a reader is made of, and what it becomes.
LEMMA ReaderParts ==
    ASSUME NEW a \in {"wait", "header", "body", "add", "done", "failed"},
           NEW b, NEW c, NEW d, NEW e, NEW g, NEW h
    PROVE  LET x == [pc |-> a, at |-> b, obj |-> c, rels |-> d, acc |-> e, fresh |-> g, update |-> h]
           IN  /\ IsReader(x)
               /\ x.pc = a /\ x.at = b /\ x.obj = c /\ x.rels = d /\ x.acc = e
<1> DEFINE x == [pc |-> a, at |-> b, obj |-> c, rels |-> d, acc |-> e, fresh |-> g, update |-> h]
<1>1. x.pc = a /\ x.at = b /\ x.obj = c /\ x.rels = d /\ x.acc = e
  OBVIOUS
<1>2. x.fresh = g /\ x.update = h
  BY Zenon
<1>3. x = [pc |-> x.pc, at |-> x.at, obj |-> x.obj, rels |-> x.rels, acc |-> x.acc,
            fresh |-> x.fresh, update |-> x.update]
  BY <1>1, <1>2, Zenon
<1> QED BY <1>1, <1>3, Zenon DEF IsReader

LEMMA WaitingReader == IsReader(NoReader) /\ IsReader([NoReader EXCEPT !.pc = "failed"])
<1>1. IsReader(NoReader)
  BY ReaderParts DEF NoReader
<1>2. [NoReader EXCEPT !.pc = "failed"] =
        [pc |-> "failed", at |-> NoReader.at, obj |-> NoReader.obj, rels |-> NoReader.rels, acc |-> NoReader.acc,
         fresh |-> NoReader.fresh, update |-> NoReader.update]
  <2> DEFINE x == NoReader
  <2>1. IsReader(x)
    BY <1>1
  <2> HIDE DEF x
  <2> QED BY <2>1 DEF IsReader, x
<1> QED BY <1>1, <1>2, ReaderParts

\* Among the readers R one becomes x.
Becomes(Q, R, f, x) == DOMAIN Q = DOMAIN R /\ Q[f] = x /\ \A g \in DOMAIN R \ {f} : Q[g] = R[g]
LEMMA ReaderBecomes ==
    ASSUME NEW R, NEW f \in DOMAIN R, IsReader(R[f]), NEW a, NEW b, NEW c, NEW d, NEW e
    PROVE  LET x == R[f]
           IN  /\ Becomes([R EXCEPT ![f].pc = a, ![f].obj = b, ![f].rels = c, ![f].acc = d, ![f].update = e], R, f,
                          [pc |-> a, at |-> x.at, obj |-> b, rels |-> c, acc |-> d, fresh |-> x.fresh, update |-> e])
               /\ Becomes([R EXCEPT ![f].pc = a, ![f].acc = d], R, f,
                          [pc |-> a, at |-> x.at, obj |-> x.obj, rels |-> x.rels, acc |-> d, fresh |-> x.fresh, update |-> x.update])
               /\ Becomes([R EXCEPT ![f].pc = a, ![f].fresh = b], R, f,
                          [pc |-> a, at |-> x.at, obj |-> x.obj, rels |-> x.rels, acc |-> x.acc, fresh |-> b, update |-> x.update])
               /\ Becomes([R EXCEPT ![f].rels = c, ![f].acc = d, ![f].update = e], R, f,
                          [pc |-> x.pc, at |-> x.at, obj |-> x.obj, rels |-> c, acc |-> d, fresh |-> x.fresh, update |-> e])
               /\ Becomes([R EXCEPT ![f].pc = a, ![f].at = c, ![f].obj = b], R, f,
                          [pc |-> a, at |-> c, obj |-> b, rels |-> x.rels, acc |-> x.acc, fresh |-> x.fresh, update |-> x.update])
               /\ Becomes([R EXCEPT ![f].pc = a], R, f,
                          [pc |-> a, at |-> x.at, obj |-> x.obj, rels |-> x.rels, acc |-> x.acc, fresh |-> x.fresh, update |-> x.update])
<1> DEFINE x == R[f]
<1>1. x = R[f] /\ IsReader(x)
  OBVIOUS
<1> HIDE DEF x
<1> USE <1>1 DEF IsReader, Becomes
<1>2. Becomes([R EXCEPT ![f].pc = a, ![f].obj = b, ![f].rels = c, ![f].acc = d, ![f].update = e], R, f,
              [pc |-> a, at |-> x.at, obj |-> b, rels |-> c, acc |-> d, fresh |-> x.fresh, update |-> e])
  OBVIOUS
<1>3. Becomes([R EXCEPT ![f].pc = a, ![f].acc = d], R, f,
              [pc |-> a, at |-> x.at, obj |-> x.obj, rels |-> x.rels, acc |-> d, fresh |-> x.fresh, update |-> x.update])
  OBVIOUS
<1>4. Becomes([R EXCEPT ![f].pc = a, ![f].fresh = b], R, f,
              [pc |-> a, at |-> x.at, obj |-> x.obj, rels |-> x.rels, acc |-> x.acc, fresh |-> b, update |-> x.update])
  OBVIOUS
<1>5. Becomes([R EXCEPT ![f].rels = c, ![f].acc = d, ![f].update = e], R, f,
              [pc |-> x.pc, at |-> x.at, obj |-> x.obj, rels |-> c, acc |-> d, fresh |-> x.fresh, update |-> e])
  OBVIOUS
<1>6. Becomes([R EXCEPT ![f].pc = a, ![f].at = c, ![f].obj = b], R, f,
              [pc |-> a, at |-> c, obj |-> b, rels |-> x.rels, acc |-> x.acc, fresh |-> x.fresh, update |-> x.update])
  OBVIOUS
<1>7. Becomes([R EXCEPT ![f].pc = a], R, f,
              [pc |-> a, at |-> x.at, obj |-> x.obj, rels |-> x.rels, acc |-> x.acc, fresh |-> x.fresh, update |-> x.update])
  OBVIOUS
<1> HIDE DEF IsReader, Becomes
<1> QED BY <1>2, <1>3, <1>4, <1>5, <1>6, <1>7 DEF x

-----------------------------------------------------------------------------
(* Reading goes on *)

\* Reader f becomes x and goes on with the object x.obj: only that object may
\* leave the pool, and get another name, file and value.
Going(f, x) ==
    /\ UNCHANGED <<setup, disk, live, seen, pc, reloads>> /\ pc \in {"load", "reload"}
    /\ reader[f].pc \in {"header", "body", "add"} /\ Becomes(reader', reader, f, x)
    /\ IsReader(x) /\ x.pc \in {"header", "body", "add", "done"} /\ x.at = reader[f].at
    /\ Owner(f) \in {Null, x.obj} /\ \A g \in File \ {f} : Owner(g) = x.obj => x.obj = Null
    /\ DOMAIN uid' = Address /\ DOMAIN file' = Address /\ DOMAIN value' = Address
    /\ pool' \subseteq pool /\ pool \subseteq pool' \cup {x.obj} /\ x.obj \notin pool'
    /\ \A g \in File : x.obj \notin Here(g)
    /\ x.obj # Null => SoundValue(value'[x.obj], Rel, live, uid')
    /\ x.obj \in live => uid'[x.obj] = uid[x.obj]
    /\ \A a \in Address \ {x.obj} : uid'[a] = uid[a] /\ file'[a] = file[a] /\ value'[a] = value[a]

LEMMA GoingOn ==
    ASSUME ReadInv, NEW f \in File, NEW x, Going(f, x), ReaderOK(f)'
    PROVE  ReadInv'
<1>s. /\ setup' = setup /\ File' = File /\ Rel' = Rel /\ disk' = disk /\ live' = live /\ seen' = seen
      /\ pc' = pc /\ reloads' = reloads /\ pc \in {"load", "reload"}
  BY SetupSame DEF Going
<1>r. /\ DOMAIN reader = File /\ reader'[f] = x /\ \A g \in File \ {f} : reader'[g] = reader[g]
      /\ DOMAIN reader' = File
  BY DEF ReadInv, StateOK, Going, Becomes
<1>n. Null \notin Address /\ live \subseteq Address
  BY GetObjectParts DEF ReadInv, StateOK
<1>u. \A o \in live : uid'[o] = uid[o]
  BY <1>n DEF Going
<1>1. StateOK'
  BY <1>s, <1>r DEF ReadInv, StateOK, Going
<1>2. UniqueNames'
  BY <1>s, <1>u DEF ReadInv, UniqueNames
<1>3. ValuesSound'
  <2> SUFFICES ASSUME NEW a \in Address, Held(a)' PROVE SoundValue(value'[a], Rel, live, uid')
    BY <1>s DEF ValuesSound
  <2>1. CASE a = x.obj
    BY <2>1, <1>n DEF Going
  <2>2. CASE a # x.obj
    <3>1. Held(a)
      BY <2>2, <1>s, <1>r DEF Held, Owner
    <3>2. SoundValue(value[a], Rel, live, uid) /\ value'[a] = value[a]
      BY <2>2, <3>1 DEF ReadInv, ValuesSound, Going
    <3> QED BY <3>2, <1>u, SoundValueStays
  <2> QED BY <2>1, <2>2
<1>4. ReadersOK'
  <2>1. ASSUME NEW g \in File, g # f PROVE ReaderOK(g)'
    <3>1. ReaderOK(g) /\ reader'[g] = reader[g]
      BY <2>1, <1>r DEF ReadInv, ReadersOK
    <3>2. ASSUME InObject(g), InBody(g) PROVE InObject(g)'
      <4>1. Owner(g) \in Address \ {x.obj}
        BY <2>1, <3>2, <1>n DEF InObject, Going
      <4>2. /\ uid'[Owner(g)] = uid[Owner(g)] /\ file'[Owner(g)] = file[Owner(g)] /\ value'[Owner(g)] = value[Owner(g)]
            /\ pool' \subseteq pool /\ Owner(g)' = Owner(g) /\ Entry(g)' = Entry(g)
        BY <4>1, <3>1, <1>s DEF Going, Owner, Entry
      <4>3. InText(reader[g], value[Owner(g)], Entry(g), Rel, setup.allow, live, uid)
        BY <3>2 DEF InObject
      <4>4. InText(reader[g], value[Owner(g)], Entry(g), Rel, setup.allow, live, uid')
        BY <4>2, <4>3, <1>u, InTextStays DEF Owner
      <4> QED BY <3>1, <3>2, <4>2, <4>4, <1>s DEF InObject
    <3> QED BY <3>1, <3>2, <1>s DEF ReaderOK, InBody, Owner
  <2>2. ASSUME NEW g \in File, NEW h \in File, Owner(g)' = Owner(h)', Owner(g)' # Null PROVE g = h
    BY <2>2, <1>r DEF ReadInv, ReadersOK, Owner, Going
  <2> QED BY <2>1, <2>2, <1>s DEF ReadersOK
<1>5. FilesRead'
  <2>1. ASSUME NEW g \in File PROVE Here(g)' = Here(g) /\ Texts(g)' = Texts(g)
    <3>1. \A o : o \in Here(g)' <=> o \in Here(g)
      <4> TAKE o
      <4>1. CASE o = x.obj
        <5>1. o \notin Here(g)'
          BY <4>1, <1>r, <1>s DEF Here, Owner
        <5> QED BY <5>1, <4>1 DEF Going
      <4>2. CASE o # x.obj
        <5>1. o \in pool' <=> o \in pool
          BY <4>2 DEF Going
        <5>2. o # Null => ((\A h \in File : Owner(h)' # o) <=> (\A h \in File : Owner(h) # o))
          BY <4>2, <1>r DEF Owner, Going
        <5> QED BY <4>2, <5>1, <5>2, <1>s, <1>n DEF Here, Going
      <4> QED BY <4>1, <4>2
    <3>2. ASSUME NEW o \in Here(g) PROVE Described(o)' = Described(o)
      <4>1. o \in Address \ {x.obj}
        BY <1>n DEF Here, Going
      <4> QED BY <4>1, <1>s, DescribedSame DEF Going
    <3> QED BY <3>1, <3>2, HereSame
  <2>2. ASSUME NEW g \in File PROVE FileRead(g)'
    <3>1. FileRead(g)
      BY DEF ReadInv, FilesRead
    <3>2. CASE g = f
      BY <2>1, <3>1, <3>2, <1>r, <1>s DEF FileRead, Going
    <3>3. CASE g # f
      BY <2>1, <3>1, <3>3, <1>r, <1>s DEF FileRead
    <3> QED BY <3>2, <3>3
  <2> QED BY <2>2, <1>s DEF FilesRead
<1>6. PhaseOK'
  <2>1. \A o \in pool' : o \in pool /\ (o \in Address => file'[o] = file[o])
    BY DEF Going
  <2> QED BY <2>1, <1>r, <1>s, <1>n DEF ReadInv, PhaseOK, Going
<1>7. Bindings'
  BY <1>s DEF Bindings, Idle
<1> QED BY <1>1, <1>2, <1>3, <1>4, <1>5, <1>6, <1>7 DEF ReadInv

-----------------------------------------------------------------------------
(* Reading fails *)

\* Reader f fails, possibly in the middle of the value of its object.
Failing(f) ==
    /\ UNCHANGED <<setup, disk, live, uid, file, seen>> /\ pc \in {"load", "reload"}
    /\ reader[f].pc \in {"header", "body", "add"} /\ \E refused \in BOOLEAN : Fail(f, refused)
    /\ DOMAIN value' = Address /\ \A a \in Address \ {Owner(f)} : value'[a] = value[a]
    /\ Owner(f) # Null => SoundValue(value'[Owner(f)], Rel, live, uid)

LEMMA FailureLeaves ==
    ASSUME ReadInv, NEW f \in File, Failing(f)
    PROVE  ReadInv'
<1>s. /\ setup' = setup /\ File' = File /\ Rel' = Rel /\ disk' = disk /\ live' = live /\ seen' = seen
      /\ uid' = uid /\ file' = file /\ pc \in {"load", "reload"} /\ reloads' = reloads
  BY SetupSame DEF Failing, Fail
<1>n. Null \notin Address /\ live \subseteq Address /\ DOMAIN reader = File
  BY GetObjectParts DEF ReadInv, StateOK
<1>l. ASSUME pc = "load"
      PROVE  /\ pc' = pc /\ pool' = pool /\ DOMAIN reader' = File
             /\ reader'[f] = [NoReader EXCEPT !.pc = "failed"]
             /\ \A g \in File \ {f} : reader'[g] = reader[g]
  BY <1>l, <1>n DEF Failing, Fail, Loading
<1>r. ASSUME pc = "reload"
      PROVE  /\ pc' = "idle" /\ pool' = {} /\ DOMAIN reader' = File
             /\ \A g \in File : reader'[g] = NoReader
  BY <1>r, <1>n DEF Failing, Fail, Loading
<1>o. /\ NoReader.obj = Null /\ [NoReader EXCEPT !.pc = "failed"].obj = Null
      /\ NoReader.pc = "wait" /\ [NoReader EXCEPT !.pc = "failed"].pc = "failed"
  BY DEF NoReader
<1>w. \A g \in File : Owner(g)' = Null \/ (Owner(g)' = Owner(g) /\ g # f /\ pc = "load")
  BY <1>l, <1>r, <1>s, <1>o DEF Owner
<1>f. \A g \in File : Owner(g) # Null => Owner(g) \in Address /\ file[Owner(g)] = g
  BY DEF ReadInv, ReadersOK, ReaderOK, InObject
<1>1. StateOK'
  BY <1>s, <1>l, <1>r DEF ReadInv, StateOK, Failing
<1>2. UniqueNames'
  BY <1>s DEF ReadInv, UniqueNames
<1>3. ValuesSound'
  <2> SUFFICES ASSUME NEW a \in Address, Held(a)' PROVE SoundValue(value'[a], Rel, live, uid)
    BY <1>s DEF ValuesSound
  <2>1. Held(a)
    BY <1>s, <1>w, <1>n DEF Held
  <2>2. CASE a = Owner(f)
    BY <2>2, <1>n DEF Failing
  <2>3. CASE a # Owner(f)
    BY <2>1, <2>3 DEF ReadInv, ValuesSound, Failing
  <2> QED BY <2>2, <2>3
<1>4. ReadersOK'
  <2>1. ASSUME NEW g \in File, reader'[g] = NoReader \/ reader'[g] = [NoReader EXCEPT !.pc = "failed"]
        PROVE  ReaderOK(g)'
    BY <2>1, <1>o, WaitingReader DEF ReaderOK, InBody, Owner
  <2>2. ASSUME NEW g \in File, g # f, pc = "load" PROVE ReaderOK(g)'
    <3>1. ReaderOK(g) /\ reader'[g] = reader[g] /\ pool' = pool
      BY <2>2, <1>l DEF ReadInv, ReadersOK
    <3>2. ASSUME InObject(g), InBody(g) PROVE InObject(g)'
      <4>1. Owner(g) \in Address /\ file[Owner(g)] = g
        BY <3>2 DEF InObject
      <4>2. Owner(g) # Owner(f)
        BY <4>1, <2>2, <1>f, <1>n
      <4>3. value'[Owner(g)] = value[Owner(g)] /\ Owner(g)' = Owner(g) /\ Entry(g)' = Entry(g)
        BY <3>1, <4>1, <4>2, <1>s DEF Failing, Owner, Entry
      <4> QED BY <3>1, <3>2, <4>3, <1>s DEF InObject
    <3> QED BY <3>1, <3>2, <1>s DEF ReaderOK, InBody, Owner
  <2>3. ASSUME NEW g \in File, NEW h \in File, Owner(g)' = Owner(h)', Owner(g)' # Null PROVE g = h
    BY <2>3, <1>w DEF ReadInv, ReadersOK
  <2> QED BY <2>1, <2>2, <2>3, <1>s, <1>l, <1>r DEF ReadersOK
<1>h. ASSUME NEW g \in File, g # f, pc = "reload" => reader[g].pc = "wait" PROVE Here(g)' = Here(g) /\ Texts(g)' = Texts(g)
  <2>1. \A o : o \in Here(g)' <=> o \in Here(g)
    <3> SUFFICES ASSUME NEW o \in live, file[o] = g
                 PROVE  (o \notin pool' /\ (\A h \in File : Owner(h)' # o)) <=> (o \notin pool /\ (\A h \in File : Owner(h) # o))
      BY <1>s DEF Here
    <3>1. o \notin pool' <=> o \notin pool
      BY <1>h, <1>l, <1>r, <1>s DEF ReadInv, PhaseOK
    <3>2. \A h \in File : Owner(h) = o => h = g
      BY <1>f, <1>n
    <3>3. Owner(g)' = Owner(g)
      <4>1. CASE pc = "load"
        BY <4>1, <1>h, <1>l DEF Owner
      <4>2. CASE pc = "reload"
        <5>1. reader[g] = NoReader
          BY <4>2, <1>h DEF ReadInv, ReadersOK, ReaderOK
        <5> QED BY <4>2, <5>1, <1>r, <1>o DEF Owner
      <4> QED BY <4>1, <4>2, <1>s
    <3> QED BY <3>1, <3>2, <3>3, <1>w, <1>n
  <2>2. ASSUME NEW o \in Here(g) PROVE Described(o)' = Described(o)
    <3>1. o \in Address /\ o # Owner(f)
      BY <1>n DEF Here
    <3> QED BY <3>1, <1>s, DescribedSame DEF Failing
  <2> QED BY <2>1, <2>2, HereSame
<1>5. FilesRead'
  <2> SUFFICES ASSUME NEW g \in File PROVE FileRead(g)'
    BY <1>s DEF FilesRead
  <2>1. FileRead(g)
    BY DEF ReadInv, FilesRead
  <2>2. CASE pc = "load"
    <3>1. CASE g = f
      BY <2>2, <3>1, <1>l, <1>o DEF FileRead
    <3>2. CASE g # f
      BY <2>1, <2>2, <3>2, <1>h, <1>l, <1>s DEF FileRead
    <3> QED BY <3>1, <3>2
  <2>3. CASE pc = "reload"
    <3>1. pc' = "idle" /\ reader'[g].pc = "wait"
      BY <2>3, <1>r, <1>o
    <3>2. CASE seen[g] = Unknown
      BY <3>1, <3>2, <1>s DEF FileRead, Unknown
    <3>3. CASE seen[g] # Unknown
      <4>1. reader[g].pc = "wait" /\ g # f
        BY <2>3, <3>3 DEF ReadInv, PhaseOK, Failing
      <4> QED BY <2>1, <2>3, <3>1, <4>1, <1>h, <1>s DEF FileRead
    <3> QED BY <3>2, <3>3
  <2> QED BY <2>2, <2>3, <1>s
<1>6. PhaseOK'
  <2>1. CASE pc = "load"
    BY <2>1, <1>l, <1>s DEF ReadInv, PhaseOK
  <2>2. CASE pc = "reload"
    BY <2>2, <1>r, <1>s, <1>o DEF ReadInv, PhaseOK
  <2> QED BY <2>1, <2>2, <1>s
<1>7. Bindings'
  <2>1. CASE pc = "load"
    BY <2>1, <1>l DEF Bindings, Idle
  <2>2. CASE pc = "reload"
    BY <2>2, <1>s DEF ReadInv, PhaseOK, Bindings, AllSeen, Failing
  <2> QED BY <2>1, <2>2, <1>s
<1> QED BY <1>1, <1>2, <1>3, <1>4, <1>5, <1>6, <1>7 DEF ReadInv

-----------------------------------------------------------------------------
(* The steps of a reader *)

\* The pool has objects that are there.
LEMMA PoolIsLive ==
    ASSUME ReadInv, pc \in {"load", "reload"}
    PROVE  pool \subseteq live
BY DEF ReadInv, PhaseOK

\* The text of an object that is read next.
LEMMA EntryParts ==
    ASSUME StateOK, NEW f \in File, reader[f].at \in 1 .. Len(disk[f])
    PROVE  LET e == Entry(f)
           IN  /\ e.uid # None /\ e.value = [r \in Rel |-> e.value[r]]
               /\ \A r \in Rel : IsSequence(e.value[r])
<1> DEFINE c == disk[f]
           n == reader[f].at
<1>1. c \in setup.content[f] /\ setup \in Setups /\ n \in 1 .. Len(c)
  BY DEF StateOK
<1> HIDE DEF c, n
<1>2. /\ c[n].uid # None /\ c[n].value = [r \in Rel |-> c[n].value[r]]
      /\ \A r \in Rel : IsSequence(c[n].value[r])
  BY <1>1, SetupParts
<1>3. Entry(f) = c[n]
  BY DEF Entry, c, n
<1> QED BY <1>2, <1>3

\* Reader f begins with the object o.
LEMMA BodyBegins ==
    ASSUME ReadInv, NEW f \in File, NEW o \in Address, reader[f].at \in 1 .. Len(disk[f]),
           UNCHANGED <<setup, disk>>, reader' = Body(f, o), file'[o] = f, o \notin pool',
           uid'[o] # None, ~setup.allow => uid'[o] = Entry(f).uid
    PROVE  \E x : Becomes(reader', reader, f, x) /\ IsReader(x) /\ x.pc = "body" /\ x.at = reader[f].at /\ x.obj = o
                  /\ ReaderOK(f)'
<1> DEFINE x == [pc |-> "body", at |-> reader[f].at, obj |-> o, rels |-> setup.rels, acc |-> <<>>,
                 fresh |-> reader[f].fresh, update |-> FALSE]
<1>1. DOMAIN reader = File /\ IsReader(reader[f])
  BY DEF ReadInv, StateOK, ReadersOK, ReaderOK
<1>2. Becomes(reader', reader, f, x)
  BY <1>1, ReaderBecomes DEF Body
<1>3. IsReader(x) /\ x.pc = "body" /\ x.at = reader[f].at /\ x.obj = o /\ x.rels = setup.rels /\ x.acc = <<>>
  BY ReaderParts
<1> HIDE DEF x
<1>4. reader'[f] = x /\ File' = File /\ Rel' = Rel /\ setup' = setup /\ disk' = disk
  BY <1>2, SetupSame DEF Becomes
<1>5. Entry(f)' = Entry(f) /\ Owner(f)' = o /\ reader'[f].at \in 1 .. Len(disk'[f])
  BY <1>3, <1>4 DEF Entry, Owner
<1>6. InText(x, value'[o], Entry(f), Rel, setup.allow, live', uid')
  <2> DEFINE e == Entry(f)
  <2>1. \A r \in Rel : IsSequence(e.value[r])
    BY EntryParts DEF ReadInv
  <2> HIDE DEF e
  <2>2. /\ setup.rels \in Seq(Rel) /\ (\A r \in Rel : \E i \in DOMAIN setup.rels : setup.rels[i] = r)
        /\ (setup.rels # <<>> => Head(setup.rels) \in Rel)
    BY SetupParts DEF ReadInv, StateOK
  <2>3. setup.rels # <<>> => Len(e.value[Head(setup.rels)]) \in Nat
    BY <2>1, <2>2, SeqParts
  <2>4. Sound(x.acc, live', uid') /\ Len(x.acc) = 0 /\ DOMAIN x.acc = {}
    BY <1>3, SoundEmpty
  <2> QED BY <1>3, <2>2, <2>3, <2>4 DEF InText, e
<1>7. InObject(f)'
  BY <1>4, <1>5, <1>6 DEF InObject
<1>8. ReaderOK(f)'
  BY <1>3, <1>4, <1>7 DEF ReaderOK, InBody
<1> QED BY <1>2, <1>3, <1>8

\* The header of an object is read.
LEMMA HeaderStep ==
    ASSUME ReadInv, NEW f \in File, pc \in {"load", "reload"}, ReadHeader(f)
    PROVE  ReadInv'
<1> DEFINE u == Entry(f).uid
           again == {o \in pool : uid[o] = u}
<1>1. reader[f].pc = "header" /\ reader[f].at \in 1 .. Len(disk[f]) /\ UNCHANGED <<setup, disk, seen>>
  BY DEF ReadHeader, ReadInv, ReadersOK, ReaderOK
<1>2. Owner(f) = Null /\ u # None
  BY <1>1, EntryParts DEF ReadInv, ReadersOK, ReaderOK, InBody
<1>3. Null \notin Address /\ live \subseteq Address /\ pool \subseteq live
  BY GetObjectParts, PoolIsLive DEF ReadInv, StateOK
<1>4. DOMAIN uid = Address /\ DOMAIN file = Address /\ DOMAIN value = Address
  BY DEF ReadInv, StateOK
<1>5. ASSUME NEW o \in again, pool' = pool \ {o}, SetFile(f, o), reader' = Body(f, o),
             value' = IF setup.notify THEN value ELSE [value EXCEPT ![o] = NoValue],
             UNCHANGED <<live, uid, pc, reloads>>
      PROVE  ReadInv'
  <2>1. o \in pool /\ o \in live /\ o \in Address /\ uid[o] = u /\ o # Null
    BY <1>3
  <2>2. file' = [file EXCEPT ![o] = f] /\ file'[o] = f /\ o \notin pool' /\ uid' = uid /\ live' = live
    BY <1>4, <1>5, <2>1 DEF SetFile
  <2>3. PICK x : /\ Becomes(reader', reader, f, x) /\ IsReader(x) /\ x.pc = "body" /\ x.at = reader[f].at /\ x.obj = o
                 /\ ReaderOK(f)'
    BY <1>1, <1>2, <1>5, <2>1, <2>2, BodyBegins
  <2>4. \A g \in File : Owner(g) # o
    BY <2>1, <1>3 DEF ReadInv, ReadersOK, ReaderOK, InObject
  <2>5. SoundValue(value'[o], Rel, live, uid')
    <3>1. SoundValue(value[o], Rel, live, uid)
      BY <2>1 DEF ReadInv, ValuesSound, Held
    <3>2. value'[o] = value[o] \/ value'[o] = NoValue
      BY <1>4, <1>5, <2>1
    <3> QED BY <2>2, <3>1, <3>2, SoundNoValue
  <2>6. DOMAIN value' = Address /\ \A a \in Address \ {o} : value'[a] = value[a] /\ file'[a] = file[a]
    BY <1>4, <1>5, <2>2
  <2>7. \A g \in File : o \notin Here(g)
    BY <2>1 DEF Here
  <2>8. pool' \subseteq pool /\ pool \subseteq pool' \cup {o}
    BY <1>5
  <2>9. DOMAIN file' = Address
    BY <1>4, <2>2
  <2>10. Going(f, x)
    BY <1>1, <1>2, <1>4, <1>5, <2>2, <2>3, <2>4, <2>5, <2>6, <2>7, <2>8, <2>9 DEF Going
  <2> QED BY <2>3, <2>10, GoingOn
<1>6. ASSUME Refused(u), Fail(f, TRUE), UNCHANGED objectVars
      PROVE  ReadInv'
  <2>1. Failing(f)
    BY <1>1, <1>2, <1>4, <1>6 DEF Failing, objectVars
  <2> QED BY <2>1, FailureLeaves
<1>7. ASSUME ~Refused(u), NEW a \in Address, ~InUse(a), SetFile(f, a), reader' = Body(f, a),
             uid' = [uid EXCEPT ![a] = IF GetObject(u) # Null THEN UniqueId(u) ELSE u],
             value' = [value EXCEPT ![a] = NoValue], UNCHANGED <<live, pc, pool, reloads>>
      PROVE  ReadInv'
  <2>1. a \notin live /\ a \notin pool /\ a # Null /\ (\A g \in File : Owner(g) # a)
    BY <1>3, <1>7 DEF InUse
  <2>2. file' = [file EXCEPT ![a] = f] /\ file'[a] = f /\ a \notin pool'
    BY <1>4, <1>7, <2>1 DEF SetFile
  <2>3. uid'[a] = IF GetObject(u) # Null THEN UniqueId(u) ELSE u
    BY <1>4, <1>7
  <2>4. uid'[a] # None
    <3>1. UniqueId(u) # None
      BY DEF UniqueId, None
    <3> QED BY <2>3, <3>1, <1>2
  <2>5. ~setup.allow => uid'[a] = u
    BY <2>3, <1>7 DEF Refused
  <2>6. PICK x : /\ Becomes(reader', reader, f, x) /\ IsReader(x) /\ x.pc = "body" /\ x.at = reader[f].at /\ x.obj = a
                 /\ ReaderOK(f)'
    BY <1>1, <1>7, <2>2, <2>4, <2>5, BodyBegins
  <2>7. \A b \in Address \ {a} : uid'[b] = uid[b] /\ file'[b] = file[b] /\ value'[b] = value[b]
    BY <1>4, <1>7, <2>2
  <2>8. SoundValue(value'[a], Rel, live, uid')
    BY <1>4, <1>7, SoundNoValue
  <2>9. \A g \in File : a \notin Here(g)
    BY <2>1 DEF Here
  <2>10. DOMAIN uid' = Address /\ DOMAIN file' = Address /\ DOMAIN value' = Address
    BY <1>4, <1>7, <2>2
  <2>11. Going(f, x)
    BY <1>1, <1>2, <1>7, <2>1, <2>6, <2>7, <2>8, <2>9, <2>10 DEF Going
  <2> QED BY <2>6, <2>11, GoingOn
<1> QED BY <1>5, <1>6, <1>7 DEF ReadHeader, reloadVars

\* Inside an object a reader stays inside its text.
LEMMA BodyGoesOn ==
    ASSUME ReadInv, NEW f \in File, pc \in {"load", "reload"}, InBody(f),
           NEW x, Becomes(reader', reader, f, x), IsReader(x), x.pc \in {"body", "add"},
           x.at = reader[f].at, x.obj = Owner(f),
           UNCHANGED <<setup, disk, live, seen, pc, reloads, uid, file, pool>>,
           DOMAIN value' = Address, \A a \in Address \ {Owner(f)} : value'[a] = value[a],
           SoundValue(value'[Owner(f)], Rel, live, uid),
           InText(x, value'[Owner(f)], Entry(f), Rel, setup.allow, live, uid)
    PROVE  ReadInv'
<1>1. InObject(f)
  BY DEF ReadInv, ReadersOK, ReaderOK
<1>2. /\ reader'[f] = x /\ File' = File /\ Rel' = Rel /\ setup' = setup /\ disk' = disk
      /\ DOMAIN uid = Address /\ DOMAIN file = Address
  BY SetupSame DEF Becomes, ReadInv, StateOK
<1>3. Entry(f)' = Entry(f) /\ Owner(f)' = Owner(f)
  BY <1>2 DEF Entry, Owner
<1>4. InObject(f)'
  BY <1>1, <1>2, <1>3 DEF InObject
<1>5. ReaderOK(f)'
  BY <1>2, <1>4 DEF ReaderOK, InBody
<1>6. /\ \A g \in File \ {f} : Owner(g) # Owner(f)
      /\ \A g \in File : Owner(f) \notin Here(g)
      /\ Owner(f) \notin pool
  BY <1>1, GetObjectParts DEF ReadInv, ReadersOK, InObject, Here
<1>7. Going(f, x)
  BY <1>2, <1>6 DEF Going, InBody
<1> QED BY <1>5, <1>7, GoingOn

\* What is known of a reader inside an object.
LEMMA BodyParts ==
    ASSUME ReadInv, NEW f \in File, InBody(f)
    PROVE  /\ InText(reader[f], value[Owner(f)], Entry(f), Rel, setup.allow, live, uid)
           /\ SoundValue(value[Owner(f)], Rel, live, uid)
           /\ Owner(f) \in Address /\ Owner(f) # Null /\ file[Owner(f)] = f /\ Owner(f) \notin pool
           /\ reader[f].at \in 1 .. Len(disk[f])
           /\ IsReader(reader[f]) /\ DOMAIN reader = File /\ DOMAIN value = Address
           /\ Entry(f).uid # None /\ Entry(f).value = [r \in Rel |-> Entry(f).value[r]]
           /\ \A r \in Rel : IsSequence(Entry(f).value[r])
<1>1. InObject(f) /\ IsReader(reader[f]) /\ DOMAIN reader = File /\ DOMAIN value = Address
  BY DEF ReadInv, StateOK, ReadersOK, ReaderOK
<1>2. Owner(f) \in Address /\ Owner(f) # Null
  BY <1>1, GetObjectParts DEF ReadInv, InObject
<1>3. SoundValue(value[Owner(f)], Rel, live, uid)
  BY <1>2 DEF ReadInv, ValuesSound, Held
<1>4. /\ Entry(f).uid # None /\ Entry(f).value = [r \in Rel |-> Entry(f).value[r]]
      /\ \A r \in Rel : IsSequence(Entry(f).value[r])
  BY <1>1, EntryParts DEF ReadInv, InObject
<1> QED BY <1>1, <1>2, <1>3, <1>4 DEF InObject

\* A reader has more of the relationship, or no reference to add to it.
LEMMA InTextGrows ==
    ASSUME NEW x, NEW v, NEW e, NEW R, NEW allow, NEW L, NEW U, InText(x, v, e, R, allow, L, U),
           NEW y, y.obj = x.obj, y.rels = x.rels, y.pc # "add", Sound(y.acc, L, U),
           Len(y.acc) <= Len(e.value[Head(x.rels)]),
           \A i \in DOMAIN y.acc : y.acc[i].uid = e.value[Head(x.rels)][i]
    PROVE  InText(y, v, e, R, allow, L, U)
<1>1. U[y.obj] # None /\ (~allow => U[y.obj] = e.uid) /\ y.rels \in Seq(R)
  BY DEF InText
<1>2. \A r \in R : (\E i \in DOMAIN y.rels : y.rels[i] = r) \/ NamesIn(v[r]) = e.value[r]
  BY DEF InText
<1> QED BY <1>1, <1>2 DEF InText

\* A reference is read.
LEMMA AcceptStep ==
    ASSUME ReadInv, NEW f \in File, pc \in {"load", "reload"}, InBody(f),
           reader[f].rels # <<>>, Len(reader[f].acc) < Len(InFile(f)),
           reader' = Accept(f, Ref(NextName(f), GetObject(NextName(f)))),
           UNCHANGED <<setup, disk, live, seen, pc, reloads, uid, file, pool, value>>
    PROVE  ReadInv'
<1> DEFINE u == NextName(f)
           old == reader[f]
           acc == Append(old.acc, Ref(u, GetObject(u)))
           e == Entry(f)
           names == e.value[Head(old.rels)]
           x == [pc |-> "body", at |-> old.at, obj |-> old.obj, rels |-> old.rels, acc |-> acc,
                 fresh |-> old.fresh, update |-> old.update]
<1>1. InText(old, value[Owner(f)], e, Rel, setup.allow, live, uid) /\ SoundValue(value[Owner(f)], Rel, live, uid)
  BY BodyParts
<1>2. Sound(old.acc, live, uid) /\ old.rels \in Seq(Rel) /\ Head(old.rels) \in Rel
  BY <1>1 DEF InText
<1>3. Becomes(reader', reader, f, x)
  <2>1. f \in DOMAIN reader /\ IsReader(reader[f])
    BY BodyParts
  <2>2. reader' = [reader EXCEPT ![f].pc = "body", ![f].acc = acc]
    BY DEF Accept
  <2> HIDE DEF acc
  <2>3. Becomes([reader EXCEPT ![f].pc = "body", ![f].acc = acc], reader, f, x)
    BY <2>1, ReaderBecomes
  <2> QED BY <2>2, <2>3
<1>4. IsReader(x) /\ x.pc = "body" /\ x.at = old.at /\ x.obj = old.obj /\ x.rels = old.rels /\ x.acc = acc
  BY ReaderParts
<1>5. u = names[Len(old.acc) + 1] /\ Len(old.acc) < Len(names) /\ names = InFile(f)
  BY DEF NextName, InFile, Current
<1>6. Len(names) \in Nat
  BY <1>2, BodyParts, SeqParts
<1> HIDE DEF u
<1>7. /\ Sound(acc, live, uid) /\ Len(acc) = Len(old.acc) + 1 /\ Len(old.acc) \in Nat /\ DOMAIN old.acc = 1 .. Len(old.acc)
      /\ DOMAIN acc = 1 .. Len(acc)
      /\ \A i \in 1 .. Len(old.acc) : acc[i] = old.acc[i]
      /\ acc[Len(old.acc) + 1].uid = u
  BY <1>2, SoundAppend DEF ReadInv
<1> HIDE DEF acc, x, names
<1>8. Len(acc) <= Len(names) /\ \A i \in DOMAIN acc : acc[i].uid = names[i]
  <2>1. Len(acc) <= Len(names)
    BY <1>5, <1>6, <1>7
  <2>2. \A i \in 1 .. Len(old.acc) : old.acc[i].uid = names[i]
    BY <1>1, <1>7 DEF InText, names
  <2>3. ASSUME NEW i \in DOMAIN acc PROVE acc[i].uid = names[i]
    <3>1. i \in 1 .. Len(old.acc) \/ i = Len(old.acc) + 1
      BY <1>7
    <3> QED BY <3>1, <2>2, <1>5, <1>7
  <2> QED BY <2>1, <2>3
<1>9. InText(x, value[Owner(f)], e, Rel, setup.allow, live, uid)
  <2>1. Len(acc) <= Len(e.value[Head(old.rels)]) /\ \A i \in DOMAIN acc : acc[i].uid = e.value[Head(old.rels)][i]
    BY <1>8 DEF names
  <2> HIDE DEF e, old
  <2> QED BY <2>1, <1>1, <1>4, <1>7, InTextGrows
<1> QED BY <1>1, <1>3, <1>4, <1>9, BodyParts, BodyGoesOn DEF Owner

\* A part of a value that is replaced by sound references.
LEMMA SoundUpdate ==
    ASSUME NEW v, NEW R, NEW L, NEW U, SoundValue(v, R, L, U), NEW r \in R, NEW a, Sound(a, L, U)
    PROVE  SoundValue([v EXCEPT ![r] = a], R, L, U)
<1> DEFINE w == [v EXCEPT ![r] = a]
<1>1. w = [s \in R |-> w[s]] /\ w[r] = a /\ \A s \in R \ {r} : w[s] = v[s]
  BY DEF SoundValue
<1> HIDE DEF w
<1>2. \A s \in R : Sound(w[s], L, U)
  BY <1>1 DEF SoundValue
<1> QED BY <1>1, <1>2 DEF SoundValue, w

LEMMA ReferenceStep ==
    ASSUME ReadInv, NEW f \in File, pc \in {"load", "reload"}, ReadReference(f)
    PROVE  ReadInv'
<1> DEFINE u == NextName(f)
           o == GetObject(u)
<1>1. /\ reader[f].pc = "body" /\ InBody(f) /\ reader[f].rels # <<>> /\ Len(reader[f].acc) < Len(InFile(f))
      /\ UNCHANGED <<live, uid, file, setup, disk, seen>>
  BY DEF ReadReference, InRelationship, InBody
<1>2. CASE reader' = Accept(f, Ref(u, o)) /\ UNCHANGED <<value, pc, reloadVars>>
  BY <1>1, <1>2, AcceptStep DEF reloadVars
<1>3. CASE Partial(f) /\ Fail(f, FALSE)
  <2> DEFINE v == value[Owner(f)]
             r == Current(f)
  <2>1. SoundValue(v, Rel, live, uid) /\ Owner(f) \in Address /\ DOMAIN value = Address
    BY <1>1, BodyParts
  <2>2. r \in Rel /\ Sound(reader[f].acc, live, uid)
    <3>1. InText(reader[f], v, Entry(f), Rel, setup.allow, live, uid)
      BY <1>1, BodyParts
    <3>2. reader[f].rels \in Seq(Rel) /\ Sound(reader[f].acc, live, uid)
      BY <3>1 DEF InText
    <3> QED BY <3>2, <1>1 DEF Current
  <2> DEFINE kept == IF setup.notify /\ Rereads(f) THEN v[r] ELSE reader[f].acc
  <2>3. Sound(kept, live, uid)
    BY <2>1, <2>2 DEF SoundValue
  <2>4. value' = [value EXCEPT ![Owner(f)] = [v EXCEPT ![r] = kept]]
    BY <1>3 DEF Partial
  <2> HIDE DEF kept, v, r
  <2>5. SoundValue([v EXCEPT ![r] = kept], Rel, live, uid)
    BY <2>1, <2>2, <2>3, SoundUpdate
  <2>6. /\ DOMAIN value' = Address /\ \A a \in Address \ {Owner(f)} : value'[a] = value[a]
        /\ SoundValue(value'[Owner(f)], Rel, live, uid)
    BY <2>1, <2>4, <2>5
  <2>7. Failing(f)
    BY <1>1, <1>3, <2>6 DEF Failing
  <2> QED BY <2>7, FailureLeaves
<1>4. ASSUME NEW b, reader' = [reader EXCEPT ![f].pc = "add", ![f].fresh = b], UNCHANGED <<value, pc, reloadVars>>
      PROVE  ReadInv'
  <2> DEFINE x == [pc |-> "add", at |-> reader[f].at, obj |-> reader[f].obj, rels |-> reader[f].rels,
                   acc |-> reader[f].acc, fresh |-> b, update |-> reader[f].update]
  <2>1. Becomes(reader', reader, f, x)
    BY <1>1, <1>4, BodyParts, ReaderBecomes
  <2>2. /\ IsReader(x) /\ x.pc = "add" /\ x.at = reader[f].at /\ x.obj = reader[f].obj /\ x.rels = reader[f].rels
        /\ x.acc = reader[f].acc
    BY ReaderParts
  <2> HIDE DEF x
  <2>3. InText(x, value[Owner(f)], Entry(f), Rel, setup.allow, live, uid)
    <3>1. InText(reader[f], value[Owner(f)], Entry(f), Rel, setup.allow, live, uid)
      BY <1>1, BodyParts
    <3>2. Len(reader[f].acc) < Len(Entry(f).value[Head(reader[f].rels)])
      BY <1>1 DEF InFile, Current
    <3> QED BY <1>1, <2>2, <3>1, <3>2 DEF InText
  <2> QED BY <1>1, <1>4, <2>1, <2>2, <2>3, BodyParts, BodyGoesOn DEF Owner, reloadVars
<1>5. ReadReference(f) =>
        \/ reader' = Accept(f, Ref(u, o)) /\ UNCHANGED <<value, pc, reloadVars>>
        \/ Partial(f) /\ Fail(f, FALSE)
        \/ /\ reader' = [reader EXCEPT ![f].pc = "add", ![f].fresh = rcr[o] = {}]
           /\ UNCHANGED <<value, pc, reloadVars>>
  BY DEF ReadReference
<1> HIDE DEF o, u
<1> QED BY <1>2, <1>3, <1>4, <1>5

\* The object's list gets the parent, or is replaced.
LEMMA AddStep ==
    ASSUME ReadInv, NEW f \in File, pc \in {"load", "reload"}, AddRcr(f)
    PROVE  ReadInv'
<1>1. InBody(f) /\ reader[f].pc = "add"
  BY DEF AddRcr, InBody
<1>2. reader[f].rels # <<>> /\ Len(reader[f].acc) < Len(InFile(f))
  BY <1>1, BodyParts DEF InText, InFile, Current
<1> QED BY <1>1, <1>2, AcceptStep DEF AddRcr, reloadVars

\* A relationship is complete.
LEMMA RelationshipStep ==
    ASSUME ReadInv, NEW f \in File, pc \in {"load", "reload"}, EndRelationship(f)
    PROVE  ReadInv'
<1> DEFINE old == reader[f]
           r == Current(f)
           v == value[Owner(f)]
           e == Entry(f)
           w == [v EXCEPT ![r] = old.acc]
<1>1. /\ InBody(f) /\ old.pc = "body" /\ old.rels # <<>> /\ Len(old.acc) = Len(e.value[r])
      /\ UNCHANGED <<live, uid, file, pc, reloadVars, setup, disk, seen>>
  BY DEF EndRelationship, InBody, InFile
<1>2. PICK b : reader' = [reader EXCEPT ![f].rels = Tail(@), ![f].acc = <<>>, ![f].update = b]
  BY DEF EndRelationship
<1> DEFINE x == [pc |-> old.pc, at |-> old.at, obj |-> old.obj, rels |-> Tail(old.rels), acc |-> <<>>,
                 fresh |-> old.fresh, update |-> b]
<1>3. InText(old, v, e, Rel, setup.allow, live, uid) /\ SoundValue(v, Rel, live, uid) /\ Owner(f) \in Address
  BY <1>1, BodyParts
<1>4. Becomes(reader', reader, f, x)
  <2>1. f \in DOMAIN reader /\ IsReader(reader[f])
    BY <1>1, BodyParts
  <2>2. reader' = [reader EXCEPT ![f].rels = Tail(old.rels), ![f].acc = <<>>, ![f].update = b]
    BY <1>2
  <2> QED BY <2>1, <2>2, ReaderBecomes
<1>5. IsReader(x) /\ x.pc = "body" /\ x.at = old.at /\ x.obj = old.obj /\ x.rels = Tail(old.rels) /\ x.acc = <<>>
  BY <1>1, ReaderParts
<1>6. /\ old.rels \in Seq(Rel) /\ r = old.rels[1] /\ r \in Rel /\ Tail(old.rels) \in Seq(Rel)
      /\ r = Head(old.rels)
      /\ \A i \in DOMAIN old.rels : i = 1 \/ (i - 1 \in DOMAIN Tail(old.rels) /\ Tail(old.rels)[i - 1] = old.rels[i])
  <2>1. old.rels \in Seq(Rel) /\ r = Head(old.rels)
    BY <1>3 DEF InText, Current
  <2> QED BY <1>1, <2>1
<1>7. value' = [value EXCEPT ![Owner(f)] = w]
  BY DEF EndRelationship
<1>8. w[r] = old.acc /\ \A s \in Rel \ {r} : w[s] = v[s]
  BY <1>3, <1>6 DEF SoundValue
<1>9. Sound(old.acc, live, uid)
  BY <1>3 DEF InText
<1>10. SoundValue(w, Rel, live, uid)
  <2> HIDE DEF old, v, r, x, e
  <2> QED BY <1>3, <1>6, <1>9, SoundUpdate
<1>11. NamesIn(old.acc) = e.value[r]
  <2> DEFINE names == e.value[r]
  <2>1. IsSequence(names) /\ IsSequence(old.acc)
    BY <1>1, <1>6, <1>9, BodyParts DEF Sound
  <2>2. \A i \in DOMAIN old.acc : old.acc[i].uid = names[i]
    BY <1>1, <1>3, <1>6 DEF InText
  <2>3. names = [i \in 1 .. Len(names) |-> names[i]] /\ DOMAIN old.acc = 1 .. Len(names)
    BY <1>1, <2>1, SeqParts
  <2> HIDE DEF names, old
  <2>4. NamesIn(old.acc) = [i \in 1 .. Len(names) |-> names[i]]
    BY <2>2, <2>3 DEF NamesIn
  <2> QED BY <2>3, <2>4 DEF names
<1> HIDE DEF w, x
<1>12. InText(x, w, e, Rel, setup.allow, live, uid)
  <2>1. \A s \in Rel : (\E i \in DOMAIN x.rels : x.rels[i] = s) \/ NamesIn(w[s]) = e.value[s]
    <3> TAKE s \in Rel
    <3>1. CASE s = r
      BY <3>1, <1>8, <1>11
    <3>2. CASE s # r
      <4>1. w[s] = v[s]
        BY <3>2, <1>8
      <4>2. (\E i \in DOMAIN old.rels : old.rels[i] = s) \/ NamesIn(v[s]) = e.value[s]
        BY <1>3 DEF InText
      <4>3. ASSUME NEW i \in DOMAIN old.rels, old.rels[i] = s PROVE \E k \in DOMAIN x.rels : x.rels[k] = s
        BY <4>3, <3>2, <1>5, <1>6
      <4> QED BY <4>1, <4>2, <4>3
    <3> QED BY <3>1, <3>2
  <2>2. Sound(x.acc, live, uid) /\ Len(x.acc) = 0 /\ DOMAIN x.acc = {}
    BY <1>5, SoundEmpty
  <2>3. x.rels # <<>> => Len(e.value[Head(x.rels)]) \in Nat
    <3>1. x.rels # <<>> => Head(x.rels) \in Rel
      BY <1>5, <1>6
    <3>2. \A s \in Rel : IsSequence(e.value[s])
      BY <1>1, BodyParts
    <3> QED BY <3>1, <3>2, SeqParts
  <2>4. x.obj = old.obj /\ x.pc # "add" /\ x.rels \in Seq(Rel)
    BY <1>5, <1>6
  <2>5. uid[old.obj] # None /\ (~setup.allow => uid[old.obj] = e.uid)
    BY <1>3 DEF InText
  <2>6. x.rels # <<>> =>
          /\ Len(x.acc) <= Len(e.value[Head(x.rels)])
          /\ \A i \in DOMAIN x.acc : x.acc[i].uid = e.value[Head(x.rels)][i]
    BY <2>2, <2>3
  <2> HIDE DEF old, e
  <2> QED BY <2>1, <2>2, <2>4, <2>5, <2>6 DEF InText
<1>13. /\ DOMAIN value' = Address /\ \A a \in Address \ {Owner(f)} : value'[a] = value[a]
       /\ value'[Owner(f)] = w
  BY <1>1, <1>3, <1>7, BodyParts
<1> QED BY <1>1, <1>4, <1>5, <1>10, <1>12, <1>13, BodyGoesOn DEF Owner, reloadVars

\* The end of a file.
LEMMA EndFileStep ==
    ASSUME ReadInv, NEW f \in File, pc \in {"load", "reload"}, EndFile(f)
    PROVE  ReadInv'
<1> DEFINE x == [pc |-> "done", at |-> reader[f].at, obj |-> reader[f].obj, rels |-> reader[f].rels,
                 acc |-> reader[f].acc, fresh |-> reader[f].fresh, update |-> reader[f].update]
<1>1. /\ IsReader(reader[f]) /\ DOMAIN reader = File /\ Owner(f) = Null /\ reader[f].pc = "header"
      /\ reader[f].at \in 1 .. Len(disk[f]) + 1 /\ reader[f].at > Len(disk[f])
      /\ DOMAIN uid = Address /\ DOMAIN file = Address /\ DOMAIN value = Address
  BY DEF ReadInv, StateOK, ReadersOK, ReaderOK, InBody, EndFile
<1>2. reader' = [reader EXCEPT ![f].pc = "done"] /\ UNCHANGED <<objectVars, pc, test, reloadVars, setup, disk, seen, edits>>
  BY DEF EndFile
<1>3. Becomes(reader', reader, f, x)
  BY <1>1, <1>2, ReaderBecomes
<1>4. IsReader(x) /\ x.pc = "done" /\ x.at = reader[f].at /\ x.obj = Null
  BY <1>1, ReaderParts DEF Owner
<1> HIDE DEF x
<1>5. reader'[f] = x /\ disk' = disk /\ File' = File
  BY <1>2, <1>3, SetupSame DEF Becomes
<1>6. disk[f] \in setup.content[f] /\ Len(disk[f]) \in Nat
  BY SetupParts DEF ReadInv, StateOK
<1>7. ReaderOK(f)'
  BY <1>1, <1>4, <1>5, <1>6 DEF ReaderOK, InBody, Owner
<1>8. Null \notin Address /\ live \subseteq Address /\ pool \subseteq live
  BY GetObjectParts, PoolIsLive DEF ReadInv, StateOK
<1>9. Going(f, x)
  BY <1>1, <1>2, <1>3, <1>4, <1>8 DEF Going, objectVars, reloadVars, Here
<1> QED BY <1>7, <1>9, GoingOn

\* One more object, that says what the next entry says.
LEMMA OneMoreMatches ==
    ASSUME NEW O, IsFiniteSet(O), NEW a, a \notin O, NEW D, NEW c, NEW n \in Nat, NEW allow, Matches(O, D, c, n, allow),
           NEW d, ~allow => d = <<c[n + 1].uid, c[n + 1].value>>
    PROVE  Matches(O \cup {a}, D \cup {d}, c, n + 1, allow)
<1>1. Cardinality(O \cup {a}) = n + 1
  BY FS_AddElement DEF Matches
<1>2. Entries(c, n + 1) = Entries(c, n) \cup {<<c[n + 1].uid, c[n + 1].value>>}
  <2>1. 1 .. n + 1 = (1 .. n) \cup {n + 1}
    OBVIOUS
  <2> QED BY <2>1 DEF Entries
<1> QED BY <1>1, <1>2 DEF Matches

\* An object that was read completely says what its text says.
LEMMA ReadIsText ==
    ASSUME ReadInv, NEW f \in File, InBody(f), reader[f].rels = <<>>, ~setup.allow
    PROVE  Described(Owner(f)) = <<Entry(f).uid, Entry(f).value>>
<1> DEFINE e == Entry(f)
           v == value[Owner(f)]
<1>1. InText(reader[f], v, e, Rel, setup.allow, live, uid)
  BY BodyParts
<1>2. uid[Owner(f)] = e.uid /\ \A r \in Rel : NamesIn(v[r]) = e.value[r]
  BY <1>1 DEF InText, Owner
<1>3. e.value = [r \in Rel |-> e.value[r]]
  BY BodyParts
<1> HIDE DEF e, v
<1>4. [r \in Rel |-> NamesIn(v[r])] = e.value
  BY <1>2, <1>3
<1>5. Names(v) = [r \in Rel |-> NamesIn(v[r])]
  BY DEF Names, NamesIn
<1> QED BY <1>2, <1>4, <1>5 DEF Described, v, e

\* An object is read to its end: it is there.
LEMMA ObjectEnds ==
    ASSUME ReadInv, NEW f \in File, pc \in {"load", "reload"}, InBody(f), reader[f].rels = <<>>,
           live' = live \cup {Owner(f)}, reader' = Next1(f),
           \A o \in live : uid[o] = uid[Owner(f)] => o = Owner(f),
           UNCHANGED <<setup, disk, seen, uid, file, value, pc, pool, reloads>>
    PROVE  ReadInv'
<1> DEFINE a == Owner(f)
           n == reader[f].at
           x == [pc |-> "header", at |-> n + 1, obj |-> Null, rels |-> reader[f].rels,
                 acc |-> reader[f].acc, fresh |-> reader[f].fresh, update |-> reader[f].update]
<1>1. /\ a \in Address /\ a # Null /\ file[a] = f /\ a \notin pool /\ n \in 1 .. Len(disk[f])
      /\ IsReader(reader[f]) /\ DOMAIN reader = File /\ uid[a] # None
      /\ InText(reader[f], value[a], Entry(f), Rel, setup.allow, live, uid)
  <2>1. InText(reader[f], value[a], Entry(f), Rel, setup.allow, live, uid)
    BY BodyParts
  <2>2. uid[a] # None
    BY <2>1 DEF InText, Owner
  <2> QED BY <2>1, <2>2, BodyParts
<1>2. Becomes(reader', reader, f, x)
  BY <1>1, ReaderBecomes DEF Next1
<1>3. IsReader(x) /\ x.pc = "header" /\ x.at = n + 1 /\ x.obj = Null
  BY ReaderParts
<1> HIDE DEF x
<1>4. reader'[f] = x /\ (\A g \in File \ {f} : reader'[g] = reader[g]) /\ DOMAIN reader' = File
  BY <1>1, <1>2 DEF Becomes
<1>5. /\ setup' = setup /\ File' = File /\ Rel' = Rel /\ disk' = disk /\ seen' = seen /\ pc' = pc /\ pool' = pool
      /\ uid' = uid /\ value' = value /\ file' = file /\ reloads' = reloads
  BY SetupSame
<1>6. Null \notin Address /\ live \subseteq Address /\ live \subseteq live' /\ Len(disk[f]) \in Nat
  BY GetObjectParts, SetupParts DEF ReadInv, StateOK
<1>7. /\ \A g \in File \ {f} : Owner(g)' = Owner(g) /\ Owner(g) # a
      /\ Owner(f)' = Null
  BY <1>1, <1>3, <1>4 DEF ReadInv, ReadersOK, Owner
<1>8. StateOK'
  BY <1>1, <1>4, <1>5 DEF ReadInv, StateOK
<1>9. UniqueNames'
  BY <1>1, <1>5 DEF ReadInv, UniqueNames
<1>10. ValuesSound'
  <2> SUFFICES ASSUME NEW o \in Address, Held(o)' PROVE SoundValue(value[o], Rel, live', uid)
    BY <1>5 DEF ValuesSound
  <2>1. Held(o)
    BY <1>5, <1>6, <1>7 DEF Held
  <2>2. SoundValue(value[o], Rel, live, uid)
    BY <2>1 DEF ReadInv, ValuesSound
  <2> QED BY <2>2, <1>6, SoundValueStays
<1>11. ReadersOK'
  <2>1. ReaderOK(f)'
    BY <1>1, <1>3, <1>4, <1>5, <1>6, <1>7 DEF ReaderOK, InBody
  <2>2. ASSUME NEW g \in File, g # f PROVE ReaderOK(g)'
    <3>1. ReaderOK(g) /\ reader'[g] = reader[g]
      BY <2>2, <1>4 DEF ReadInv, ReadersOK
    <3>2. ASSUME InObject(g) PROVE InObject(g)'
      <4>1. InText(reader[g], value[Owner(g)], Entry(g), Rel, setup.allow, live, uid)
        BY <3>2 DEF InObject
      <4>2. InText(reader[g], value[Owner(g)], Entry(g), Rel, setup.allow, live', uid)
        BY <4>1, <1>6, InTextStays
      <4>3. Entry(g)' = Entry(g) /\ Owner(g)' = Owner(g)
        BY <3>1, <1>5 DEF Entry, Owner
      <4> QED BY <3>1, <3>2, <4>2, <4>3, <1>5 DEF InObject
    <3> QED BY <3>1, <3>2, <1>5 DEF ReaderOK, InBody, Owner
  <2>3. ASSUME NEW g \in File, NEW h \in File, Owner(g)' = Owner(h)', Owner(g)' # Null PROVE g = h
    BY <2>3, <1>7 DEF ReadInv, ReadersOK
  <2> QED BY <2>1, <2>2, <2>3, <1>5 DEF ReadersOK
<1>12. FilesRead'
  <2>1. ASSUME NEW g \in File, g # f PROVE FileRead(g)'
    <3>1. \A o : o \in Here(g)' <=> o \in Here(g)
      <4>1. \A o : o \in Here(g) => o # a
        BY DEF Here
      <4>2. \A o : o \in Here(g)' => o # a
        BY <2>1, <1>1, <1>5 DEF Here
      <4>3. ASSUME NEW o, o # a, o # Null PROVE (\A h \in File : Owner(h)' # o) <=> (\A h \in File : Owner(h) # o)
        BY <4>3, <1>7
      <4>4. ASSUME NEW o, o # a PROVE o \in Here(g)' <=> o \in Here(g)
        <5>1. o \in live' <=> o \in live
          BY <4>4
        <5>2. o \in live => o # Null
          BY <1>6
        <5> QED BY <5>1, <5>2, <4>3, <4>4, <1>5 DEF Here
      <4> QED BY <4>1, <4>2, <4>4
    <3>2. \A o \in Here(g) : Described(o)' = Described(o)
      BY <1>5, DescribedSame
    <3>3. Here(g)' = Here(g) /\ Texts(g)' = Texts(g)
      BY <3>1, <3>2, HereSame
    <3> QED BY <2>1, <3>3, <1>4, <1>5 DEF ReadInv, FilesRead, FileRead
  <2>2. FileRead(f)'
    <3>1. Matches(Here(f), Texts(f), disk[f], n - 1, setup.allow)
      BY DEF ReadInv, FilesRead, FileRead, InBody
    <3>2. IsFiniteSet(Here(f)) /\ a \notin Here(f)
      <4>1. Here(f) \subseteq Address /\ IsFiniteSet(Address)
        BY <1>6, ObjectsAssumption DEF Here
      <4> QED BY <4>1, FS_Subset DEF Here
    <3>3. Here(f)' = Here(f) \cup {a}
      <4>1. a \in Here(f)'
        BY <1>1, <1>5, <1>7 DEF Here
      <4>2. ASSUME NEW o, o # a, o # Null PROVE (\A h \in File : Owner(h)' # o) <=> (\A h \in File : Owner(h) # o)
        BY <4>2, <1>7
      <4>3. ASSUME NEW o, o # a PROVE o \in Here(f)' <=> o \in Here(f)
        <5>1. o \in live' <=> o \in live
          BY <4>3
        <5> HIDE DEF a
        <5> QED BY <5>1, <4>2, <4>3, <1>5, <1>6 DEF Here
      <4> HIDE DEF a
      <4> QED BY <4>1, <4>3
    <3>4. \A o : Described(o)' = Described(o)
      BY <1>5, DescribedSame
    <3>5. Texts(f)' = Texts(f) \cup {Described(a)}
      BY <3>3, <3>4 DEF Texts
    <3>6. ~setup.allow => Described(a) = <<disk[f][n].uid, disk[f][n].value>>
      BY ReadIsText DEF Entry
    <3>7. n - 1 \in Nat /\ n = (n - 1) + 1
      BY <1>1, <1>6
    <3> HIDE DEF a, n
    <3>8. Matches(Here(f) \cup {a}, Texts(f) \cup {Described(a)}, disk[f], n, setup.allow)
      <4> DEFINE m == n - 1
      <4>1. m \in Nat /\ n = m + 1
        BY <3>7
      <4> HIDE DEF m
      <4>2. Matches(Here(f), Texts(f), disk[f], m, setup.allow)
        BY <3>1 DEF m
      <4> QED BY <3>2, <3>6, <4>1, <4>2, OneMoreMatches
    <3>9. reader'[f].pc = "header" /\ reader'[f].at - 1 = n
      BY <1>3, <1>4, <3>7
    <3> QED BY <3>3, <3>5, <3>8, <3>9, <1>5 DEF FileRead
  <2> QED BY <2>1, <2>2, <1>5 DEF FilesRead
<1>13. PhaseOK'
  BY <1>3, <1>4, <1>5, <1>6 DEF ReadInv, PhaseOK, InBody
<1>14. Bindings'
  BY <1>5 DEF Bindings, Idle
<1> QED BY <1>8, <1>9, <1>10, <1>11, <1>12, <1>13, <1>14 DEF ReadInv

\* The end of an object.
LEMMA EndObjectStep ==
    ASSUME ReadInv, NEW f \in File, pc \in {"load", "reload"}, EndObject(f)
    PROVE  ReadInv'
<1>1. reader[f].pc = "body" /\ InBody(f) /\ reader[f].rels = <<>> /\ UNCHANGED <<uid, file, value, rcr, setup, disk, seen, edits>>
  BY DEF EndObject, InBody
<1>2. /\ SoundValue(value[Owner(f)], Rel, live, uid) /\ DOMAIN value = Address
      /\ Owner(f) \in Address
  BY <1>1, BodyParts
<1>3. CASE Fail(f, FALSE) /\ UNCHANGED live
  <2>1. Failing(f)
    BY <1>1, <1>2, <1>3 DEF Failing
  <2> QED BY <2>1, FailureLeaves
<1>4. CASE reader' = Next1(f) /\ Rereads(f) /\ UNCHANGED <<live, pc, pool, reloads>>
  <2>1. live' = live \cup {Owner(f)} /\ \A o \in live : uid[o] = uid[Owner(f)] => o = Owner(f)
    BY <1>4 DEF Rereads, ReadInv, UniqueNames
  <2> QED BY <1>1, <1>4, <2>1, ObjectEnds
<1>5. CASE /\ reader' = Next1(f) /\ GetObject(uid[Owner(f)]) = Null /\ live' = live \cup {Owner(f)}
           /\ UNCHANGED <<pc, pool, reloads>>
  <2>1. \A o \in live : uid[o] = uid[Owner(f)] => o = Owner(f)
    <3> DEFINE w == uid[Owner(f)]
    <3>1. \A o \in live : uid[o] = w => GetObject(w) = o
      BY GetObjectParts DEF ReadInv
    <3>2. Null \notin live
      BY GetObjectParts DEF ReadInv, StateOK
    <3> QED BY <1>5, <3>1, <3>2
  <2> QED BY <1>1, <1>5, <2>1, ObjectEnds
<1>6. \/ Fail(f, FALSE) /\ UNCHANGED live
      \/ reader' = Next1(f) /\ Rereads(f) /\ UNCHANGED <<live, pc, pool, reloads>>
      \/ /\ reader' = Next1(f) /\ GetObject(uid[Owner(f)]) = Null /\ live' = live \cup {Owner(f)}
         /\ UNCHANGED <<pc, pool, reloads>>
  BY DEF EndObject
<1> QED BY <1>3, <1>4, <1>5, <1>6

-----------------------------------------------------------------------------
(* Binding *)

LEMMA SeqMade ==
    ASSUME NEW n \in Nat, NEW w, w = [i \in 1 .. n |-> w[i]]
    PROVE  IsSequence(w)
<1> DEFINE S == {w[i] : i \in 1 .. n}
<1>1. \A i \in 1 .. n : w[i] \in S
  OBVIOUS
<1>2. DOMAIN w = 1 .. n
  OBVIOUS
<1> HIDE DEF S
<1>3. w \in Seq(S)
  BY <1>1, IsASeq
<1> QED BY <1>2, <1>3 DEF IsSequence, S

\* The references v with other pointers.
LEMMA Retargeted ==
    ASSUME NEW v, NEW L, NEW U, Sound(v, L, U), NEW w, w = [i \in DOMAIN v |-> w[i]], NEW M, NEW W,
           \A i \in DOMAIN v : /\ w[i] = Ref(v[i].uid, w[i].obj)
                               /\ w[i].obj # Null => w[i].obj \in M /\ W[w[i].obj] = v[i].uid
    PROVE  Sound(w, M, W) /\ NamesIn(w) = NamesIn(v)
<1>1. Len(v) \in Nat /\ DOMAIN v = 1 .. Len(v)
  BY SeqParts DEF Sound
<1>2. IsSequence(w) /\ DOMAIN w = DOMAIN v
  BY <1>1, SeqMade
<1>3. \A i \in DOMAIN w : w[i].uid = v[i].uid
  BY <1>2 DEF Ref
<1>4. NamesIn(w) = NamesIn(v)
  BY <1>2, <1>3 DEF NamesIn
<1>5. Sound(w, M, W)
  BY <1>2, <1>3 DEF Sound
<1> QED BY <1>4, <1>5

\* What a value says is the names in it.
LEMMA SameNames ==
    ASSUME setup' = setup, NEW o, uid'[o] = uid[o], \A r \in Rel : NamesIn(value'[o][r]) = NamesIn(value[o][r])
    PROVE  Described(o)' = Described(o)
<1>1. Rel' = Rel
  BY SetupSame
<1> DEFINE d(R, u, v) == <<u, [r \in R |-> NamesIn(v[r])]>>
<1>2. Described(o)' = d(Rel', uid'[o], value'[o])
  BY DEF Described, Names, NamesIn
<1>3. Described(o) = d(Rel, uid[o], value[o])
  BY DEF Described, Names, NamesIn
<1>4. d(Rel, uid[o], value'[o]) = d(Rel, uid[o], value[o])
  OBVIOUS
<1> HIDE DEF d
<1> QED BY <1>1, <1>2, <1>3, <1>4

\* One reference is bound, or stays.
LEMMA BoundReference ==
    ASSUME ReadInv, NEW T, T \subseteq Resolvable, NEW o \in live, NEW r \in Rel, NEW i \in DOMAIN value[o][r]
    PROVE  LET ref == value[o][r][i]
               new == Bound(T)[o][r][i]
           IN  /\ new = Ref(ref.uid, new.obj)
               /\ new.obj # Null => new.obj \in live /\ uid[new.obj] = ref.uid
               /\ ref.obj # Null => new = ref
               /\ T = Resolvable /\ (\E x \in live : uid[x] = ref.uid) => new.obj # Null
<1> DEFINE ref == value[o][r][i]
           new == Bound(T)[o][r][i]
           to  == {t \in T : t[2] = o /\ t[3] = r /\ ref = Ref(uid[t[1]], Null)}
           first == CHOOSE t \in to : TRUE
<1>1. o \in Address /\ Null \notin Address /\ live \subseteq Address
  BY GetObjectParts DEF ReadInv, StateOK
<1>2. new = IF to = {} THEN ref ELSE Ref(ref.uid, first[1])
  BY <1>1 DEF Bound
<1>3. ref = Ref(ref.uid, ref.obj) /\ (ref.obj # Null => ref.obj \in live /\ uid[ref.obj] = ref.uid)
  <2>1. SoundValue(value[o], Rel, live, uid)
    BY <1>1 DEF ReadInv, ValuesSound, Held
  <2>2. Sound(value[o][r], live, uid)
    BY <2>1 DEF SoundValue
  <2> QED BY <2>2 DEF Sound
<1>4. \A t \in to : t[1] \in live /\ ref = Ref(uid[t[1]], Null)
  BY DEF Resolvable
<1>5. \A t \in to : uid[t[1]] = ref.uid /\ ref.obj = Null
  BY <1>4 DEF Ref
<1>6. ASSUME to # {} PROVE first \in to
  BY <1>6
<1>7. ASSUME T = Resolvable, NEW x \in live, uid[x] = ref.uid PROVE new.obj # Null
  <2>1. CASE ref.obj # Null
    <3>1. to = {}
      BY <2>1, <1>5
    <3> QED BY <2>1, <3>1, <1>2
  <2>2. CASE ref.obj = Null
    <3>1. ref = Ref(uid[x], Null)
      BY <2>2, <1>3, <1>7
    <3>2. <<x, o, r>> \in Resolvable
      <4>1. <<x, o, r>> \in Triple
        BY <1>1 DEF Triple
      <4>2. uid[x] # None
        BY DEF ReadInv, UniqueNames
      <4> QED BY <3>1, <4>1, <4>2 DEF Resolvable
    <3>3. <<x, o, r>> \in to
      BY <3>1, <3>2, <1>7
    <3>4. first \in to /\ to # {}
      BY <3>3
    <3>5. new = Ref(ref.uid, first[1]) /\ first[1] \in live
      BY <3>4, <1>2, <1>4
    <3> QED BY <3>5, <1>1 DEF Ref
  <2> QED BY <2>1, <2>2
<1> HIDE DEF new, to, first, ref
<1>8. CASE to = {}
  BY <1>2, <1>3, <1>7, <1>8 DEF new, ref
<1>9. CASE to # {}
  <2>1. first \in to /\ new = Ref(ref.uid, first[1]) /\ first[1] \in live /\ uid[first[1]] = ref.uid /\ ref.obj = Null
    BY <1>2, <1>4, <1>5, <1>6, <1>9
  <2>2. new.obj = first[1]
    BY <2>1 DEF Ref
  <2> QED BY <2>1, <2>2, <1>7 DEF new, ref
<1> QED BY <1>8, <1>9

\* Binding changes pointers only.
LEMMA BoundParts ==
    ASSUME ReadInv, NEW T, T \subseteq Resolvable, value' = Bound(T), UNCHANGED <<setup, live, uid>>
    PROVE  /\ DOMAIN value' = Address
           /\ \A o \in live : SoundValue(value'[o], Rel, live, uid) /\ Described(o)' = Described(o)
<1>1. live \subseteq Address
  BY DEF ReadInv, StateOK
<1>2. ASSUME NEW o \in live PROVE SoundValue(value'[o], Rel, live, uid) /\ Described(o)' = Described(o)
  <2>1. SoundValue(value[o], Rel, live, uid)
    BY <1>1 DEF ReadInv, ValuesSound, Held
  <2>2. ASSUME NEW r \in Rel
        PROVE  Sound(value'[o][r], live, uid) /\ NamesIn(value'[o][r]) = NamesIn(value[o][r])
    <3> DEFINE v == value[o][r]
               w == value'[o][r]
    <3>1. Sound(v, live, uid)
      BY <2>1 DEF SoundValue
    <3>2. w = [i \in DOMAIN v |-> w[i]]
      <4> DEFINE g(s, q, i) ==
            LET ref == value[s][q][i]
                to  == {t \in T : t[2] = s /\ t[3] = q /\ ref = Ref(uid[t[1]], Null)}
            IN  IF to = {} THEN ref ELSE Ref(ref.uid, (CHOOSE t \in to : TRUE)[1])
      <4>1. value' = [s \in Address |-> [q \in Rel |-> [i \in DOMAIN value[s][q] |-> g(s, q, i)]]]
        BY DEF Bound
      <4> HIDE DEF g
      <4>2. w = [i \in DOMAIN v |-> g(o, r, i)]
        BY <4>1, <1>1
      <4> HIDE DEF v, w
      <4>3. \A i \in DOMAIN v : w[i] = g(o, r, i)
        BY <4>2
      <4> QED BY <4>2, <4>3
    <3>3. \A i \in DOMAIN v : w[i] = Ref(v[i].uid, w[i].obj) /\ (w[i].obj # Null => w[i].obj \in live /\ uid[w[i].obj] = v[i].uid)
      BY BoundReference
    <3> HIDE DEF v, w
    <3>4. Sound(w, live, uid) /\ NamesIn(w) = NamesIn(v)
      BY <3>1, <3>2, <3>3, Retargeted
    <3> QED BY <3>4 DEF v, w
  <2>3. value'[o] = [r \in Rel |-> value'[o][r]]
    BY <1>1 DEF Bound
  <2> QED BY <2>2, <2>3, SameNames DEF SoundValue
<1>3. DOMAIN value' = Address
  BY DEF Bound
<1> QED BY <1>2, <1>3

\* When all is bound, every reference has the object of its name, if any.
LEMMA BindParts ==
    ASSUME ReadInv, NEW succeeds \in BOOLEAN, Bind(succeeds), UNCHANGED <<setup, live, uid>>
    PROVE  /\ DOMAIN value' = Address
           /\ \A o \in live : SoundValue(value'[o], Rel, live, uid) /\ Described(o)' = Described(o)
           /\ succeeds => AllBound'
<1>1. PICK T : T \subseteq Resolvable /\ value' = Bound(T) /\ (succeeds => T = Resolvable)
  <2>1. CASE succeeds
    BY <2>1 DEF Bind
  <2>2. CASE ~succeeds
    BY <2>2 DEF Bind
  <2> QED BY <2>1, <2>2
<1>2. /\ DOMAIN value' = Address
      /\ \A o \in live : SoundValue(value'[o], Rel, live, uid) /\ Described(o)' = Described(o)
  BY <1>1, BoundParts
<1>3. ASSUME succeeds PROVE AllBound'
  <2> SUFFICES ASSUME NEW o \in live, NEW r \in Rel, NEW i \in DOMAIN value'[o][r]
               PROVE  value'[o][r][i].obj = GetObject(value'[o][r][i].uid)
    <3>1. \A u : GetObject(u)' = GetObject(u)
      BY DEF GetObject
    <3>2. Rel' = Rel
      BY SetupSame
    <3> QED BY <3>1, <3>2 DEF AllBound
  <2> DEFINE new == value'[o][r][i]
             ref == value[o][r][i]
  <2>1. T = Resolvable
    BY <1>1, <1>3
  <2>2. i \in DOMAIN value[o][r]
    BY <1>1 DEF Bound, ReadInv, StateOK
  <2>3. /\ new = Ref(ref.uid, new.obj)
        /\ new.obj # Null => new.obj \in live /\ uid[new.obj] = ref.uid
        /\ (\E x \in live : uid[x] = ref.uid) => new.obj # Null
    BY <1>1, <2>1, <2>2, BoundReference
  <2> HIDE DEF new, ref
  <2>4. new.uid = ref.uid
    BY <2>3 DEF Ref
  <2>5. CASE new.obj # Null
    BY <2>3, <2>4, <2>5, GetObjectParts DEF ReadInv, new
  <2>6. CASE new.obj = Null
    <3>1. GetObject(ref.uid) = Null
      BY <2>3, <2>6, GetObjectParts DEF ReadInv
    <3> QED BY <2>4, <2>6, <3>1 DEF new
  <2> QED BY <2>5, <2>6
<1> QED BY <1>2, <1>3

\* A load or a reload is over: of the files that are known to be what memory
\* has, some were read by this call and the others by an earlier one.
LEMMA CallEnds ==
    ASSUME ReadInv, \A f \in File : Owner(f) = Null, UNCHANGED <<setup, disk, live, uid, file, reloads>>,
           DOMAIN value' = Address,
           \A o \in live : SoundValue(value'[o], Rel, live, uid) /\ Described(o)' = Described(o),
           pc' = "idle", pool' = {}, live \cap pool = {}, reader' = [f \in File |-> NoReader],
           DOMAIN seen' = File,
           \A f \in File : \/ seen'[f] = Unknown
                           \/ reader[f].pc = "done" /\ seen'[f] = disk[f]
                           \/ reader[f].pc = "wait" /\ seen'[f] = seen[f],
           AllSeen' => AllBound'
    PROVE  ReadInv'
<1>1. /\ setup' = setup /\ File' = File /\ Rel' = Rel /\ disk' = disk /\ live' = live
      /\ uid' = uid /\ file' = file /\ pc' = "idle"
  BY SetupSame
<1>2. Null \notin Address /\ live \subseteq Address
  BY GetObjectParts DEF ReadInv, StateOK
<1>3. /\ NoReader.obj = Null /\ NoReader.pc = "wait" /\ DOMAIN reader' = File
      /\ \A f \in File : reader'[f] = NoReader /\ Owner(f)' = Null
  BY DEF NoReader, Owner
<1>4. StateOK'
  BY <1>1, <1>3 DEF ReadInv, StateOK
<1>5. UniqueNames'
  BY <1>1 DEF ReadInv, UniqueNames
<1>6. ValuesSound'
  BY <1>1, <1>2, <1>3 DEF ValuesSound, Held
<1>7. ReadersOK'
  BY <1>1, <1>3, WaitingReader DEF ReadersOK, ReaderOK, InBody
<1>8. FilesRead'
  <2> SUFFICES ASSUME NEW f \in File, seen'[f] # Unknown
               PROVE  Matches(Here(f)', Texts(f)', seen'[f], Len(seen'[f]), setup.allow)
    BY <1>1, <1>3 DEF FilesRead, FileRead, Unknown
  <2>1. Here(f)' = Here(f) /\ Texts(f)' = Texts(f)
    <3>1. \A o : o \in Here(f)' <=> o \in Here(f)
      BY <1>1, <1>2, <1>3 DEF Here
    <3>2. \A o \in Here(f) : Described(o)' = Described(o)
      BY DEF Here
    <3> QED BY <3>1, <3>2, HereSame
  <2>2. FileRead(f)
    BY DEF ReadInv, FilesRead
  <2>3. CASE reader[f].pc = "done" /\ seen'[f] = disk[f]
    <3>1. reader[f].at = Len(disk[f]) + 1 /\ Len(disk[f]) \in Nat
      BY <2>3, SetupParts DEF ReadInv, StateOK, ReadersOK, ReaderOK
    <3>2. reader[f].at - 1 = Len(disk[f])
      BY <3>1
    <3> QED BY <2>1, <2>2, <2>3, <3>2 DEF FileRead
  <2>4. CASE reader[f].pc = "wait" /\ seen'[f] = seen[f]
    BY <2>1, <2>2, <2>4 DEF FileRead
  <2> QED BY <2>3, <2>4
<1>9. PhaseOK'
  BY <1>1, <1>3 DEF PhaseOK
<1>10. Bindings'
  BY DEF Bindings
<1> QED BY <1>4, <1>5, <1>6, <1>7, <1>8, <1>9, <1>10 DEF ReadInv

\* No reader is inside an object when all are done, wait or failed.
LEMMA NoOwners ==
    ASSUME ReadInv, NEW f \in File, reader[f].pc \in {"done", "wait", "failed"}
    PROVE  Owner(f) = Null
BY DEF ReadInv, ReadersOK, ReaderOK, InBody

\* Values that nobody touches.
LEMMA ValuesKept ==
    ASSUME ReadInv, UNCHANGED <<setup, live, uid, value>>
    PROVE  /\ DOMAIN value' = Address
           /\ \A o \in live : SoundValue(value'[o], Rel, live, uid) /\ Described(o)' = Described(o)
BY DescribedSame DEF ReadInv, StateOK, ValuesSound, Held

LEMMA EndLoadStep ==
    ASSUME ReadInv, NEW succeeds \in BOOLEAN, EndLoad(succeeds)
    PROVE  ReadInv'
<1>1. /\ pc = "load" /\ pool = {} /\ pool' = {} /\ pc' = "idle" /\ reader' = [f \in File |-> NoReader]
      /\ UNCHANGED <<setup, disk, live, uid, file, reloads>>
      /\ \A f \in File : reader[f].pc \in {"done", "failed"}
  BY DEF EndLoad, Loading, ReadInv, PhaseOK
<1>2. \A f \in File : Owner(f) = Null
  BY <1>1, NoOwners
<1>3. /\ DOMAIN value' = Address
      /\ \A o \in live : SoundValue(value'[o], Rel, live, uid) /\ Described(o)' = Described(o)
      /\ succeeds => AllBound' /\ \A f \in File : reader[f].pc = "done"
  <2>1. CASE \E f \in File : reader[f].pc = "failed"
    BY <1>1, <2>1, ValuesKept DEF EndLoad
  <2>2. CASE ~\E f \in File : reader[f].pc = "failed"
    BY <1>1, <2>2, BindParts DEF EndLoad
  <2> QED BY <2>1, <2>2
<1>4. /\ DOMAIN seen' = File
      /\ \A f \in File : IF succeeds THEN seen'[f] = disk[f] ELSE seen'[f] = Unknown
  BY DEF EndLoad, Seen
<1>5. ASSUME AllSeen' PROVE AllBound'
  <2>1. succeeds
    <3>1. File' = File /\ File # {}
      BY <1>1, SetupSame, SetupParts DEF ReadInv, StateOK
    <3> QED BY <1>4, <1>5, <3>1 DEF AllSeen
  <2> QED BY <1>3, <2>1
<1>6. \A f \in File : seen'[f] = Unknown \/ (reader[f].pc = "done" /\ seen'[f] = disk[f])
  BY <1>3, <1>4
<1> QED BY <1>1, <1>2, <1>3, <1>4, <1>5, <1>6, CallEnds

LEMMA EndReloadStep ==
    ASSUME ReadInv, NEW succeeds \in BOOLEAN, EndReload(succeeds)
    PROVE  ReadInv'
<1>1. /\ pc = "remove" /\ pool \cap live = {} /\ pool' = {} /\ pc' = "idle" /\ reader' = [f \in File |-> NoReader]
      /\ UNCHANGED <<setup, disk, live, uid, file, reloads>>
      /\ \A f \in File : reader[f].pc \in {"done", "wait"}
  BY DEF EndReload, ReadInv, PhaseOK
<1>2. \A f \in File : Owner(f) = Null
  BY <1>1, NoOwners
<1>3. PICK binds \in BOOLEAN : Bind(binds) /\ (succeeds => binds)
  <2>1. Bind(succeeds) \/ (~succeeds /\ Bind(TRUE))
    BY DEF EndReload
  <2>2. succeeds => succeeds /\ TRUE \in BOOLEAN
    OBVIOUS
  <2>3. CASE Bind(succeeds)
    BY <2>3, Zenon
  <2>4. CASE ~succeeds /\ Bind(TRUE)
    BY <2>2, <2>4, Zenon
  <2> QED BY <2>1, <2>3, <2>4
<1>4. /\ DOMAIN value' = Address
      /\ \A o \in live : SoundValue(value'[o], Rel, live, uid) /\ Described(o)' = Described(o)
      /\ succeeds => AllBound'
  BY <1>1, <1>3, BindParts
<1>5. /\ DOMAIN seen' = File
      /\ ~succeeds => \A f \in File : seen'[f] = Unknown
      /\ succeeds => \A f \in File : /\ reader[f].pc = "done" => seen'[f] = disk[f]
                                     /\ reader[f].pc # "done" => seen'[f] = seen[f]
  BY DEF EndReload, Seen
<1>6. ASSUME AllSeen' PROVE AllBound'
  <2>1. succeeds
    <3>1. File' = File /\ File # {}
      BY <1>1, SetupSame, SetupParts DEF ReadInv, StateOK
    <3> QED BY <1>5, <1>6, <3>1 DEF AllSeen
  <2> QED BY <1>4, <2>1
<1>7. \A f \in File : \/ seen'[f] = Unknown
                      \/ reader[f].pc = "done" /\ seen'[f] = disk[f]
                      \/ reader[f].pc = "wait" /\ seen'[f] = seen[f]
  <2> TAKE f \in File
  <2>1. CASE ~succeeds
    BY <1>5, <2>1
  <2>2. CASE succeeds /\ reader[f].pc = "done"
    BY <1>5, <2>2
  <2>3. CASE succeeds /\ reader[f].pc # "done"
    <3>1. reader[f].pc = "wait"
      BY <1>1, <2>3
    <3> QED BY <1>5, <2>3, <3>1
  <2> QED BY <2>1, <2>2, <2>3
<1> QED BY <1>1, <1>2, <1>4, <1>5, <1>6, <1>7, CallEnds

-----------------------------------------------------------------------------
(* Load and reload *)

\* At first memory has nothing.
LEMMA InitStep == Init => ReadInv
<1> SUFFICES ASSUME Init PROVE ReadInv
  OBVIOUS
<1>1. /\ setup \in Setups /\ DOMAIN disk = File /\ (\A f \in File : disk[f] \in setup.content[f])
      /\ live = {} /\ pool = {} /\ pc = "new" /\ DOMAIN reader = File /\ (\A f \in File : reader[f] = NoReader)
      /\ \A f \in File : seen[f] = Unknown
  BY DEF Init
<1>2. NoReader.obj = Null /\ NoReader.pc = "wait" /\ \A f \in File : Owner(f) = Null
  BY <1>1 DEF NoReader, Owner
<1>3. StateOK /\ UniqueNames
  BY <1>1 DEF Init, StateOK, UniqueNames
<1>4. ValuesSound
  BY <1>1, <1>2, <1>3, GetObjectParts DEF ValuesSound, Held
<1>5. ReadersOK
  BY <1>1, <1>2, WaitingReader DEF ReadersOK, ReaderOK, InBody
<1>6. FilesRead
  BY <1>1, <1>2 DEF FilesRead, FileRead, Here
<1>7. PhaseOK /\ Bindings
  BY <1>1, <1>2 DEF PhaseOK, Bindings, Idle
<1> QED BY <1>3, <1>4, <1>5, <1>6, <1>7 DEF ReadInv

\* A load begins, or one of its jobs.
LEMMA LoadDataStep ==
    ASSUME ReadInv, LoadData
    PROVE  ReadInv'
<1>1. /\ UNCHANGED <<setup, disk, live, uid, file, value, reader, pool, seen, reloads>> /\ pc = "new" /\ pc' = "load"
      /\ File' = File /\ Rel' = Rel
  BY SetupSame DEF LoadData, objectVars, reloadVars
<1>2. \A f \in File : Here(f)' = Here(f) /\ Texts(f)' = Texts(f)
  <2> TAKE f \in File
  <2>1. \A o : (o \in Here(f)' <=> o \in Here(f)) /\ Described(o)' = Described(o)
    BY <1>1, DescribedSame DEF Here, Owner
  <2> QED BY <2>1, HereSame
<1>3. StateOK' /\ UniqueNames' /\ ValuesSound'
  BY <1>1 DEF ReadInv, StateOK, UniqueNames, ValuesSound, Held, Owner
<1>4. ReadersOK'
  BY <1>1 DEF ReadInv, ReadersOK, ReaderOK, InBody, InObject, Owner, Entry
<1>5. FilesRead'
  BY <1>1, <1>2 DEF ReadInv, FilesRead, FileRead
<1>6. PhaseOK' /\ Bindings'
  BY <1>1 DEF ReadInv, PhaseOK, Bindings, Idle
<1> QED BY <1>3, <1>4, <1>5, <1>6 DEF ReadInv

LEMMA StartJobStep ==
    ASSUME ReadInv, NEW f \in File, StartJob(f)
    PROVE  ReadInv'
<1> DEFINE x == [pc |-> "header", at |-> reader[f].at, obj |-> reader[f].obj, rels |-> reader[f].rels,
                 acc |-> reader[f].acc, fresh |-> reader[f].fresh, update |-> reader[f].update]
<1>1. /\ UNCHANGED <<setup, disk, live, uid, file, value, pc, pool, seen, reloads>> /\ pc = "load"
      /\ File' = File /\ Rel' = Rel /\ pool = {}
      /\ reader[f].pc = "wait" /\ reader' = [reader EXCEPT ![f].pc = "header"]
  BY SetupSame DEF StartJob, Loading, objectVars, reloadVars, ReadInv, PhaseOK
<1>2. IsReader(reader[f]) /\ DOMAIN reader = File /\ reader[f] = NoReader
  BY <1>1 DEF ReadInv, StateOK, ReadersOK, ReaderOK
<1>3. Becomes(reader', reader, f, x)
  BY <1>1, <1>2, ReaderBecomes
<1>4. IsReader(x) /\ x.pc = "header" /\ x.at = 1 /\ x.obj = Null
  BY <1>2, ReaderParts DEF NoReader
<1> HIDE DEF x
<1>5. reader'[f] = x /\ (\A g \in File \ {f} : reader'[g] = reader[g]) /\ DOMAIN reader' = File
  BY <1>2, <1>3 DEF Becomes
<1>6. \A g \in File : Owner(g)' = Owner(g)
  BY <1>2, <1>4, <1>5 DEF Owner, NoReader
<1>7. \A g \in File : Here(g)' = Here(g) /\ Texts(g)' = Texts(g)
  <2> TAKE g \in File
  <2>1. \A o : (o \in Here(g)' <=> o \in Here(g)) /\ Described(o)' = Described(o)
    BY <1>1, <1>6, DescribedSame DEF Here
  <2> QED BY <2>1, HereSame
<1>8. StateOK' /\ UniqueNames' /\ ValuesSound'
  BY <1>1, <1>5, <1>6 DEF ReadInv, StateOK, UniqueNames, ValuesSound, Held
<1>9. disk[f] \in setup.content[f] /\ Len(disk[f]) \in Nat
  BY SetupParts DEF ReadInv, StateOK
<1>10. ReadersOK'
  <2>1. ReaderOK(f)'
    <3>1. disk' = disk /\ reader'[f].at \in 1 .. Len(disk[f]) + 1
      <4> DEFINE n == Len(disk[f])
      <4>1. n \in Nat
        BY <1>9
      <4> HIDE DEF n
      <4>2. 1 \in 1 .. n + 1
        BY <4>1
      <4>3. reader'[f].at = 1
        BY <1>4, <1>5
      <4> QED BY <1>1, <4>2, <4>3 DEF n
    <3>2. IsReader(reader'[f]) /\ reader'[f].pc = "header" /\ reader'[f].obj = Null
      BY <1>4, <1>5
    <3> QED BY <3>1, <3>2 DEF ReaderOK, InBody, Owner
  <2>2. ASSUME NEW g \in File, g # f PROVE ReaderOK(g)'
    <3>1. ReaderOK(g) /\ reader'[g] = reader[g]
      BY <2>2, <1>5 DEF ReadInv, ReadersOK
    <3>2. InObject(g) => InObject(g)'
      BY <3>1, <1>1 DEF InObject, Owner, Entry
    <3> QED BY <3>1, <3>2, <1>1 DEF ReaderOK, InBody, Owner
  <2> QED BY <2>1, <2>2, <1>1, <1>6 DEF ReadInv, ReadersOK
<1>11. FilesRead'
  <2>1. ASSUME NEW g \in File, g # f PROVE FileRead(g)'
    BY <2>1, <1>1, <1>5, <1>7 DEF ReadInv, FilesRead, FileRead
  <2>2. Here(f) = {} /\ Texts(f) = {}
    BY <1>1 DEF ReadInv, FilesRead, FileRead, Texts
  <2>3. Matches({}, {}, disk[f], 0, setup.allow)
    BY FS_EmptySet DEF Matches, Entries
  <2>4. FileRead(f)'
    <3>1. reader'[f].at - 1 = 0
      BY <1>4, <1>5
    <3> QED BY <2>2, <2>3, <3>1, <1>1, <1>4, <1>5, <1>7 DEF FileRead
  <2> QED BY <2>1, <2>4, <1>1 DEF FilesRead
<1>12. PhaseOK' /\ Bindings'
  BY <1>1, <1>4, <1>5 DEF ReadInv, PhaseOK, Bindings, Idle
<1> QED BY <1>8, <1>10, <1>11, <1>12 DEF ReadInv

\* A file is changed between two calls.
LEMMA EditStep ==
    ASSUME ReadInv, NEW f \in File, Edit(f)
    PROVE  ReadInv'
<1>1. PICK c \in setup.content[f] : disk' = [disk EXCEPT ![f] = c]
  BY DEF Edit
<1>2. /\ UNCHANGED <<setup, live, uid, file, value, reader, pool, seen, pc, reloads>> /\ pc = "idle"
      /\ File' = File /\ Rel' = Rel
  BY SetupSame DEF Edit, Idle, objectVars, reloadVars
<1>3. DOMAIN disk' = File /\ \A g \in File : disk'[g] \in setup.content[g]
  BY <1>1 DEF ReadInv, StateOK
<1>4. \A g \in File : reader[g].pc = "wait" /\ Owner(g) = Null
  BY <1>2, NoOwners DEF ReadInv, PhaseOK
<1>5. \A g \in File : Here(g)' = Here(g) /\ Texts(g)' = Texts(g)
  <2> TAKE g \in File
  <2>1. \A o : (o \in Here(g)' <=> o \in Here(g)) /\ Described(o)' = Described(o)
    BY <1>2, DescribedSame DEF Here, Owner
  <2> QED BY <2>1, HereSame
<1>6. StateOK' /\ UniqueNames' /\ ValuesSound'
  BY <1>2, <1>3 DEF ReadInv, StateOK, UniqueNames, ValuesSound, Held, Owner
<1>7. ReadersOK'
  BY <1>2, <1>4 DEF ReadInv, ReadersOK, ReaderOK, InBody, Owner
<1>8. FilesRead'
  BY <1>2, <1>4, <1>5 DEF ReadInv, FilesRead, FileRead
<1>9. PhaseOK'
  BY <1>2 DEF ReadInv, PhaseOK
<1>10. Bindings'
  <2>1. (AllSeen' <=> AllSeen) /\ \A u : GetObject(u)' = GetObject(u)
    BY <1>2 DEF AllSeen, GetObject
  <2> QED BY <2>1, <1>2 DEF ReadInv, Bindings, AllBound, Idle
<1> QED BY <1>6, <1>7, <1>8, <1>9, <1>10 DEF ReadInv

\* A reload begins: the objects of its files go to the pool, so that nothing of
\* these files has been read.
LEMMA ReloadDataStep ==
    ASSUME ReadInv, NEW F \in SUBSET File, ReloadData(F)
    PROVE  ReadInv'
<1> DEFINE header == [NoReader EXCEPT !.pc = "header"]
<1>1. /\ UNCHANGED <<setup, disk, live, uid, file, value>> /\ pc = "idle" /\ pc' = "reload"
      /\ File' = File /\ Rel' = Rel /\ pool' = {o \in live : file[o] \in F}
      /\ reloads < setup.reloads /\ reloads' = reloads + 1
      /\ reader' = [f \in File |-> IF f \in F THEN header ELSE NoReader]
      /\ seen' = [f \in File |-> IF f \in F THEN Unknown ELSE seen[f]]
  BY SetupSame DEF ReloadData, Idle, Seen
<1>2. \A f \in File : reader[f].pc = "wait" /\ Owner(f) = Null
  BY <1>1, NoOwners DEF ReadInv, PhaseOK
<1>3. IsReader(header) /\ header.pc = "header" /\ header.at = 1 /\ header.obj = Null
  <2>1. header = [pc |-> "header", at |-> NoReader.at, obj |-> NoReader.obj, rels |-> NoReader.rels, acc |-> NoReader.acc,
                  fresh |-> NoReader.fresh, update |-> NoReader.update]
    <3> DEFINE x == NoReader
    <3>1. IsReader(x)
      BY WaitingReader
    <3> HIDE DEF x
    <3> QED BY <3>1 DEF IsReader, x
  <2>2. NoReader.at = 1 /\ NoReader.obj = Null
    BY DEF NoReader
  <2> QED BY <2>1, <2>2, ReaderParts
<1> HIDE DEF header
<1>4. /\ \A f \in F : reader'[f] = header /\ seen'[f] = Unknown
      /\ \A f \in File \ F : reader'[f] = NoReader /\ seen'[f] = seen[f]
      /\ DOMAIN reader' = File /\ DOMAIN seen' = File
  BY <1>1
<1>5. NoReader.pc = "wait" /\ NoReader.obj = Null /\ \A f \in File : Owner(f)' = Null
  BY <1>3, <1>4 DEF NoReader, Owner
<1>6. pool = {} /\ Null \notin Address /\ live \subseteq Address
  BY <1>1, GetObjectParts DEF ReadInv, PhaseOK, StateOK
<1>7. StateOK' /\ UniqueNames' /\ ValuesSound'
  <2>1. reloads' \in Nat
    BY <1>1 DEF ReadInv, StateOK
  <2>2. \A a \in Address : Held(a)' => Held(a)
    BY <1>1, <1>5, <1>6 DEF Held
  <2> QED BY <1>1, <1>4, <2>1, <2>2 DEF ReadInv, StateOK, UniqueNames, ValuesSound
<1>8. ReadersOK'
  <2>1. ASSUME NEW f \in File PROVE ReaderOK(f)'
    <3>1. CASE f \in F
      <4>1. Len(disk[f]) \in Nat
        BY SetupParts DEF ReadInv, StateOK
      <4>2. disk' = disk /\ 1 \in 1 .. Len(disk[f]) + 1
        BY <1>1, <4>1
      <4> QED BY <3>1, <4>2, <1>3, <1>4 DEF ReaderOK, InBody, Owner
    <3>2. CASE f \notin F
      BY <3>2, <1>4, <1>5, WaitingReader DEF ReaderOK, InBody, Owner
    <3> QED BY <3>1, <3>2
  <2> QED BY <2>1, <1>1, <1>5 DEF ReadersOK
<1>9. FilesRead'
  <2>1. ASSUME NEW f \in F PROVE FileRead(f)'
    <3>1. Here(f)' = {} /\ Texts(f)' = {}
      <4>1. Here(f)' = {}
        BY <1>1 DEF Here
      <4> QED BY <4>1 DEF Texts
    <3>2. Matches({}, {}, disk[f], 0, setup.allow)
      BY FS_EmptySet DEF Matches, Entries
    <3>3. reader'[f].at - 1 = 0 /\ reader'[f].pc = "header" /\ disk' = disk /\ setup' = setup
      BY <1>1, <1>3, <1>4
    <3> QED BY <3>1, <3>2, <3>3 DEF FileRead
  <2>2. ASSUME NEW f \in File, f \notin F PROVE FileRead(f)'
    <3>1. Here(f)' = Here(f) /\ Texts(f)' = Texts(f)
      <4>1. \A o : o \in Here(f)' <=> o \in Here(f)
        BY <2>2, <1>1, <1>2, <1>5, <1>6 DEF Here
      <4>2. \A o : Described(o)' = Described(o)
        BY <1>1, DescribedSame
      <4> QED BY <4>1, <4>2, HereSame
    <3>2. reader'[f].pc = "wait" /\ reader[f].pc = "wait" /\ seen'[f] = seen[f] /\ setup' = setup /\ pc' = "reload"
      BY <2>2, <1>1, <1>2, <1>4, <1>5
    <3>3. FileRead(f)
      BY DEF ReadInv, FilesRead
    <3> QED BY <3>1, <3>2, <3>3 DEF FileRead
  <2> QED BY <2>1, <2>2, <1>1 DEF FilesRead
<1>10. PhaseOK'
  <2>1. setup.reloads # 0
    BY <1>1, SetupParts DEF ReadInv, StateOK
  <2>2. \A f \in File : reader'[f].pc # "failed" /\ (reader'[f].pc # "wait" => f \in F)
    BY <1>3, <1>4, <1>5
  <2>3. \A o \in pool' : o \in live /\ file[o] \in File /\ reader'[file[o]].pc # "wait"
    BY <1>1, <1>3, <1>4
  <2> QED BY <2>1, <2>2, <2>3, <1>1, <1>4 DEF PhaseOK
<1>11. Bindings'
  BY <1>1 DEF Bindings, Idle
<1> QED BY <1>7, <1>8, <1>9, <1>10, <1>11 DEF ReadInv

\* All files are read: pointers to what is left in the pool become names.
LEMMA RemoveOthersStep ==
    ASSUME ReadInv, RemoveOthers
    PROVE  ReadInv'
<1>1. /\ UNCHANGED <<setup, disk, live, uid, file, reader, pool, seen, reloads>> /\ pc = "reload" /\ pc' = "remove"
      /\ File' = File /\ Rel' = Rel /\ doomed' = pool /\ value' = Unbound(pool)
      /\ \A f \in File : reader[f].pc \in {"done", "wait"}
  BY SetupSame DEF RemoveOthers
<1>2. /\ \A f \in File : Owner(f) = Null /\ Owner(f)' = Null
      /\ Null \notin Address /\ live \subseteq Address /\ pool \subseteq live
  BY <1>1, NoOwners, GetObjectParts, PoolIsLive DEF ReadInv, StateOK, Owner
<1>3. ASSUME NEW o \in live
      PROVE  /\ SoundValue(value'[o], Rel, live, uid) /\ Described(o)' = Described(o)
             /\ \A r \in Rel : \A i \in DOMAIN value'[o][r] : value'[o][r][i].obj \notin pool
  <2>1. SoundValue(value[o], Rel, live, uid)
    BY <1>2 DEF ReadInv, ValuesSound, Held
  <2>2. ASSUME NEW r \in Rel
        PROVE  /\ Sound(value'[o][r], live, uid) /\ NamesIn(value'[o][r]) = NamesIn(value[o][r])
               /\ \A i \in DOMAIN value'[o][r] : value'[o][r][i].obj \notin pool
    <3> DEFINE v == value[o][r]
               w == value'[o][r]
    <3>1. Sound(v, live, uid)
      BY <2>1 DEF SoundValue
    <3>2. w = [i \in DOMAIN v |-> IF v[i].obj \in pool THEN Ref(v[i].uid, Null) ELSE v[i]]
      BY <1>1, <1>2 DEF Unbound
    <3> HIDE DEF v, w
    <3>3. \A i \in DOMAIN v : /\ w[i] = Ref(v[i].uid, w[i].obj)
                              /\ w[i].obj # Null => w[i].obj \in live /\ uid[w[i].obj] = v[i].uid
                              /\ w[i].obj \notin pool
      <4> TAKE i \in DOMAIN v
      <4>1. CASE v[i].obj \in pool
        BY <4>1, <3>2, <1>2 DEF Ref
      <4>2. CASE v[i].obj \notin pool
        BY <4>2, <3>1, <3>2 DEF Sound
      <4> QED BY <4>1, <4>2
    <3>4. w = [i \in DOMAIN v |-> w[i]] /\ DOMAIN w = DOMAIN v
      BY <3>2
    <3>5. Sound(w, live, uid) /\ NamesIn(w) = NamesIn(v)
      BY <3>1, <3>3, <3>4, Retargeted
    <3> QED BY <3>3, <3>4, <3>5 DEF v, w
  <2>3. value'[o] = [r \in Rel |-> value'[o][r]]
    BY <1>1, <1>2 DEF Unbound
  <2> QED BY <2>2, <2>3, <1>1, SameNames DEF SoundValue
<1>4. StateOK' /\ UniqueNames'
  BY <1>1 DEF ReadInv, StateOK, UniqueNames, Unbound
<1>5. ValuesSound'
  BY <1>1, <1>2, <1>3 DEF ValuesSound, Held
<1>6. ReadersOK'
  BY <1>1, <1>2 DEF ReadInv, ReadersOK, ReaderOK, InBody, Owner
<1>7. FilesRead'
  <2>1. ASSUME NEW f \in File PROVE Here(f)' = Here(f) /\ Texts(f)' = Texts(f)
    <3>1. \A o : o \in Here(f)' <=> o \in Here(f)
      BY <1>1, <1>2 DEF Here
    <3>2. \A o \in Here(f) : Described(o)' = Described(o)
      BY <1>3 DEF Here
    <3> QED BY <3>1, <3>2, HereSame
  <2> QED BY <2>1, <1>1 DEF ReadInv, FilesRead, FileRead
<1>8. PhaseOK'
  <2>1. NoneToDoomed'
    BY <1>1, <1>3 DEF NoneToDoomed
  <2>2. doomed' = pool' \cap live'
    BY <1>1, <1>2
  <2> QED BY <2>1, <2>2, <1>1 DEF ReadInv, PhaseOK
<1>9. Bindings'
  BY <1>1 DEF Bindings, Idle
<1> QED BY <1>4, <1>5, <1>6, <1>7, <1>8, <1>9 DEF ReadInv

\* An object that is in no file any more is deleted: nobody points to it.
LEMMA DeleteObjectStep ==
    ASSUME ReadInv, NoPartsDeleted, NEW o \in Address, DeleteObject(o)
    PROVE  ReadInv'
<1>1. /\ UNCHANGED <<setup, disk, pc, reader, pool, seen, reloads>> /\ pc = "remove" /\ o \in doomed
      /\ File' = File /\ Rel' = Rel /\ live' = live \ {o}
      /\ value' = [value EXCEPT ![o] = NoValue] /\ uid' = [uid EXCEPT ![o] = None] /\ file' = [file EXCEPT ![o] = None]
  BY SetupSame DEF DeleteObject
<1>2. /\ setup.dependent = {} /\ doomed = pool \cap live /\ NoneToDoomed
      /\ \A f \in File : reader[f].pc \in {"done", "wait"}
  BY <1>1 DEF ReadInv, PhaseOK, NoPartsDeleted
<1>3. doomed' = doomed \ {o}
  BY <1>2 DEF DeleteObject
<1>4. /\ \A f \in File : Owner(f) = Null /\ Owner(f)' = Null
      /\ Null \notin Address /\ live \subseteq Address
      /\ DOMAIN uid = Address /\ DOMAIN file = Address /\ DOMAIN value = Address
  BY <1>1, <1>2, NoOwners, GetObjectParts DEF ReadInv, StateOK, Owner
<1>5. \A a \in Address \ {o} : uid'[a] = uid[a] /\ file'[a] = file[a] /\ value'[a] = value[a]
  BY <1>1, <1>4
<1>6. DOMAIN uid' = Address /\ DOMAIN file' = Address /\ DOMAIN value' = Address
  BY <1>1, <1>4
<1>7. StateOK'
  BY <1>1, <1>4, <1>6 DEF ReadInv, StateOK
<1>8. UniqueNames'
  BY <1>1, <1>4, <1>5 DEF ReadInv, UniqueNames
<1>9. ASSUME NEW a \in live' PROVE SoundValue(value'[a], Rel, live', uid')
  <2>1. a \in live /\ a \in Address \ {o} /\ value'[a] = value[a]
    BY <1>1, <1>4, <1>5, <1>9
  <2>2. SoundValue(value[a], Rel, live, uid)
    BY <2>1 DEF ReadInv, ValuesSound, Held
  <2>3. ASSUME NEW r \in Rel PROVE Sound(value[a][r], live', uid')
    <3> DEFINE v == value[a][r]
    <3>1. Sound(v, live, uid) /\ \A i \in DOMAIN v : v[i].obj # o
      BY <2>1, <2>2, <1>1, <1>2 DEF SoundValue, NoneToDoomed
    <3> HIDE DEF v
    <3>2. \A x \in live' : x \in live /\ uid'[x] = uid[x]
      BY <1>1, <1>4, <1>5
    <3>3. \A i \in DOMAIN v : v[i].obj # Null => v[i].obj \in live' /\ uid'[v[i].obj] = v[i].uid
      BY <3>1, <3>2, <1>1 DEF Sound
    <3>4. Sound(v, live', uid')
      BY <3>1, <3>3 DEF Sound
    <3> QED BY <3>4 DEF v
  <2> QED BY <2>1, <2>2, <2>3 DEF SoundValue
<1>10. ValuesSound'
  BY <1>1, <1>4, <1>9 DEF ValuesSound, Held
<1>11. ReadersOK'
  BY <1>1, <1>2, <1>4 DEF ReadInv, ReadersOK, ReaderOK, InBody, Owner
<1>12. FilesRead'
  <2>1. ASSUME NEW f \in File PROVE Here(f)' = Here(f) /\ Texts(f)' = Texts(f)
    <3>1. \A a : a \in Here(f)' <=> a \in Here(f)
      <4> TAKE a
      <4>1. CASE a = o
        BY <4>1, <1>1, <1>2 DEF Here
      <4>2. CASE a # o
        BY <4>2, <1>1, <1>4, <1>5 DEF Here
      <4> QED BY <4>1, <4>2
    <3>2. ASSUME NEW a \in Here(f) PROVE Described(a)' = Described(a)
      <4>1. a \in Address \ {o}
        BY <1>1, <1>2, <1>4 DEF Here
      <4> QED BY <4>1, <1>1, <1>5, DescribedSame
    <3> QED BY <3>1, <3>2, HereSame
  <2> QED BY <2>1, <1>1 DEF ReadInv, FilesRead, FileRead
<1>13. PhaseOK'
  <2>1. doomed' = pool' \cap live'
    BY <1>1, <1>2, <1>3
  <2>2. NoneToDoomed'
    BY <1>1, <1>2, <1>3, <1>4, <1>5 DEF NoneToDoomed
  <2> QED BY <2>1, <2>2, <1>1 DEF ReadInv, PhaseOK
<1>14. Bindings'
  BY <1>1 DEF Bindings, Idle
<1> QED BY <1>7, <1>8, <1>10, <1>11, <1>12, <1>13, <1>14 DEF ReadInv

-----------------------------------------------------------------------------
(* The parents of parts, when one thread reads *)

\* With more threads two jobs may look at one object's list of parents and then
\* both change it.
OneThread == setup.threads = 1

\* The objects that the pointers v lead to have <<p, r>> in their lists L.
HasParent(L, v, p, r) == \A i \in DOMAIN v : v[i].obj # Null => <<p, r>> \in L[v[i].obj]

\* A part knows one parent per exclusive relationship.
OneParent(L) ==
    \A c \in Address : \A q, s \in L[c] : q[2] = s[2] /\ q[2] \in setup.exclusive => q[1] = s[1]

\* The objects whose values are not about to be read again.
Settled(o) ==
    /\ o \in live \ pool /\ \A g \in File : Owner(g) # o
    /\ seen[file[o]] # Unknown \/ reader[file[o]].pc \notin {"wait", "failed"}
SettledKnown ==
    \A o \in Address : Settled(o) => \A r \in setup.composite : HasParent(rcr, value[o][r], o, r)

\* What was read of an object so far is known to the parts, and the part that
\* add_RCR is about to change is as it was when add_RCR looked at it.
Left(f, r) == \E i \in DOMAIN reader[f].rels : reader[f].rels[i] = r
ReaderKnown(f) ==
    /\ \A r \in setup.composite : Left(f, r) \/ HasParent(rcr, value[Owner(f)][r], Owner(f), r)
    /\ reader[f].rels # <<>> /\ Current(f) \in setup.composite =>
         HasParent(rcr, reader[f].acc, Owner(f), Current(f))
    /\ reader[f].pc = "add" =>
         LET c == GetObject(NextName(f))
         IN  /\ c # Null /\ CanAdd(rcr[c], Owner(f), Current(f))
             /\ reader[f].fresh => rcr[c] = {}

OneAtWork ==
    /\ \A f, g \in File : InBody(f) /\ InBody(g) => f = g
    /\ Loading => \A f, g \in File : Reading(f) /\ Reading(g) => f = g

PartsInv ==
    /\ DOMAIN rcr = Address /\ \A o \in live : file[o] \in File
    /\ OneAtWork /\ OneParent(rcr) /\ SettledKnown
    /\ \A f \in File : InBody(f) => ReaderKnown(f)

\* The relationships of a setup, and its files.
LEMMA SetupSets ==
    ASSUME setup \in Setups
    PROVE  setup.composite \subseteq Rel /\ setup.exclusive \subseteq setup.composite /\ IsFiniteSet(File)
<1>1. setup.composite \subseteq Rel /\ setup.exclusive \subseteq setup.composite /\ IsSequence(setup.files)
  BY ObjectsAssumption DEF Rel
<1>2. File = {setup.files[i] : i \in DOMAIN setup.files}
  BY ObjectsAssumption DEF File
<1> DEFINE s == setup.files
<1>3. Len(s) \in Nat /\ DOMAIN s = 1 .. Len(s) /\ s = [i \in 1 .. Len(s) |-> s[i]]
  BY <1>1, SeqParts
<1>4. s \in Surjection(1 .. Len(s), File)
  <2> HIDE DEF s
  <2>1. File = {s[i] : i \in 1 .. Len(s)}
    BY <1>2, <1>3 DEF s
  <2>2. s \in [1 .. Len(s) -> File]
    BY <1>3, <2>1
  <2> QED BY <2>1, <2>2 DEF Surjection
<1>5. IsFiniteSet(1 .. Len(s))
  BY <1>3, FS_Interval
<1>6. IsFiniteSet(File)
  <2> HIDE DEF s
  <2> QED BY <1>4, <1>5, FS_Surjection
<1> QED BY <1>1, <1>6

\* Pointers lead to objects that are there.
LEMMA PointerIsLive ==
    ASSUME ReadInv, NEW a \in Address, Held(a), NEW r \in setup.composite, NEW i \in DOMAIN value[a][r],
           value[a][r][i].obj # Null
    PROVE  value[a][r][i].obj \in live /\ value[a][r][i].obj \in Address
<1>1. r \in Rel /\ live \subseteq Address
  BY SetupSets DEF ReadInv, StateOK
<1>2. SoundValue(value[a], Rel, live, uid)
  BY DEF ReadInv, ValuesSound
<1>3. Sound(value[a][r], live, uid)
  BY <1>1, <1>2 DEF SoundValue
<1> QED BY <1>1, <1>3 DEF Sound

\* A step between calls, or at the ends of files, changes nothing of this.
LEMMA PartsQuiet ==
    ASSUME ReadInv, PartsInv, UNCHANGED <<setup, live, uid, file, value, rcr>>,
           \A o \in Address : Settled(o)' => Settled(o),
           \A f \in File : InBody(f)' => reader'[f] = reader[f] /\ disk' = disk,
           OneAtWork'
    PROVE  PartsInv'
<1>1. File' = File
  BY SetupSame
<1>2. DOMAIN rcr' = Address /\ (\A o \in live' : file'[o] \in File') /\ OneParent(rcr)'
  BY <1>1 DEF PartsInv, OneParent
<1>3. SettledKnown'
  BY DEF PartsInv, SettledKnown
<1>4. ASSUME NEW f \in File, InBody(f)' PROVE ReaderKnown(f)'
  <2>1. reader'[f] = reader[f] /\ disk' = disk
    BY <1>4
  <2>2. Owner(f)' = Owner(f) /\ Current(f)' = Current(f) /\ NextName(f)' = NextName(f)
    BY <2>1 DEF Owner, Current, NextName, InFile, Entry
  <2>3. \A r : Left(f, r)' <=> Left(f, r)
    BY <2>1 DEF Left
  <2>4. \A u : GetObject(u)' = GetObject(u)
    BY DEF GetObject
  <2>5. ReaderKnown(f)
    BY <1>4, <2>1 DEF PartsInv, InBody
  <2>6. \A L, p, r : CanAdd(L, p, r)' <=> CanAdd(L, p, r)
    BY DEF CanAdd
  <2> QED BY <2>1, <2>2, <2>3, <2>4, <2>5, <2>6 DEF ReaderKnown
<1> QED BY <1>1, <1>2, <1>3, <1>4 DEF PartsInv

\* Reader f goes on inside its object.
LEMMA PartsBody ==
    ASSUME ReadInv, PartsInv, NEW f \in File, InBody(f), InBody(f)', Owner(f)' = Owner(f),
           UNCHANGED <<setup, disk, live, uid, file, pool, seen, pc>>,
           \A g \in File \ {f} : reader'[g] = reader[g],
           \A o \in Address \ {Owner(f)} : value'[o] = value[o],
           DOMAIN rcr' = Address, OneParent(rcr'), \A c \in Address : rcr[c] \subseteq rcr'[c],
           ReaderKnown(f)'
    PROVE  PartsInv'
<1>1. File' = File /\ live \subseteq Address
  BY SetupSame DEF ReadInv, StateOK
<1>2. \A g \in File : /\ InBody(g)' <=> InBody(g)
                      /\ Reading(g)' <=> Reading(g)
                      /\ Owner(g)' = Owner(g)
                      /\ reader'[g].pc \in {"wait", "failed"} <=> reader[g].pc \in {"wait", "failed"}
  <2> TAKE g \in File
  <2>1. CASE g = f
    BY <2>1 DEF InBody, Reading
  <2>2. CASE g # f
    BY <2>2 DEF InBody, Reading, Owner
  <2> QED BY <2>1, <2>2
<1>3. (\A o \in live' : file'[o] \in File') /\ OneParent(rcr)'
  BY <1>1 DEF PartsInv, OneParent
<1>4. OneAtWork'
  BY <1>1, <1>2 DEF PartsInv, OneAtWork, Loading
<1>5. SettledKnown'
  <2> SUFFICES ASSUME NEW o \in Address, Settled(o)', NEW r \in setup.composite
               PROVE  HasParent(rcr', value'[o][r], o, r)
    BY DEF SettledKnown
  <2>1. Settled(o)
    BY <1>1, <1>2 DEF Settled, PartsInv
  <2>2. HasParent(rcr, value[o][r], o, r) /\ Held(o) /\ o # Owner(f)
    BY <2>1 DEF PartsInv, SettledKnown, Settled, Held
  <2>3. value'[o] = value[o]
    BY <2>2
  <2>4. \A i \in DOMAIN value[o][r] : value[o][r][i].obj # Null => value[o][r][i].obj \in Address
    BY <2>2, PointerIsLive
  <2> QED BY <2>2, <2>3, <2>4 DEF HasParent
<1>6. ASSUME NEW g \in File, InBody(g)' PROVE g = f
  BY <1>2, <1>6 DEF PartsInv, OneAtWork
<1> QED BY <1>1, <1>3, <1>4, <1>5, <1>6 DEF PartsInv

\* A reader takes a reference, or goes to add the parent to a list.
LEMMA ReaderAccepts ==
    ASSUME ReadInv, NEW f \in File, InBody(f), NEW ref, reader' = Accept(f, ref)
    PROVE  /\ InBody(f)' /\ reader'[f].pc = "body" /\ reader'[f].obj = reader[f].obj
           /\ reader'[f].rels = reader[f].rels /\ reader'[f].acc = Append(reader[f].acc, ref)
           /\ \A g \in File \ {f} : reader'[g] = reader[g]
<1> DEFINE old == reader[f]
           acc == Append(old.acc, ref)
           x == [pc |-> "body", at |-> old.at, obj |-> old.obj, rels |-> old.rels, acc |-> acc,
                 fresh |-> old.fresh, update |-> old.update]
<1>1. f \in DOMAIN reader /\ IsReader(reader[f]) /\ DOMAIN reader = File
  BY BodyParts
<1>2. reader' = [reader EXCEPT ![f].pc = "body", ![f].acc = acc]
  BY DEF Accept
<1> HIDE DEF acc
<1>3. Becomes(reader', reader, f, x)
  <2>1. Becomes([reader EXCEPT ![f].pc = "body", ![f].acc = acc], reader, f, x)
    BY <1>1, ReaderBecomes
  <2> QED BY <1>2, <2>1
<1>4. x.pc = "body" /\ x.obj = old.obj /\ x.rels = old.rels /\ x.acc = acc
  OBVIOUS
<1> HIDE DEF x
<1> QED BY <1>1, <1>3, <1>4 DEF Becomes, InBody, acc

\* A reference more that is known to the object it leads to.
LEMMA MoreParents ==
    ASSUME NEW L, NEW M, NEW v, IsSequence(v), NEW p, NEW r, HasParent(L, v, p, r),
           \A i \in DOMAIN v : v[i].obj # Null => L[v[i].obj] \subseteq M[v[i].obj],
           NEW u, NEW o, o # Null => <<p, r>> \in M[o]
    PROVE  HasParent(M, Append(v, Ref(u, o)), p, r)
<1> DEFINE w == Append(v, Ref(u, o))
<1>1. IsSequence(w) /\ Len(w) = Len(v) + 1 /\ (\A i \in 1 .. Len(v) : w[i] = v[i]) /\ w[Len(v) + 1] = Ref(u, o)
  BY AppendParts
<1>2. DOMAIN w = 1 .. Len(v) + 1 /\ DOMAIN v = 1 .. Len(v) /\ Len(v) \in Nat
  BY <1>1, SeqParts
<1> HIDE DEF w
<1>3. ASSUME NEW i \in DOMAIN w, w[i].obj # Null PROVE <<p, r>> \in M[w[i].obj]
  <2>1. CASE i \in 1 .. Len(v)
    BY <2>1, <1>1, <1>2, <1>3 DEF HasParent
  <2>2. CASE i = Len(v) + 1
    BY <2>2, <1>1, <1>3 DEF Ref
  <2> QED BY <2>1, <2>2, <1>2
<1> QED BY <1>3 DEF HasParent, w

\* What a reader has read of its object stays known when it takes a reference to
\* an object that knows the parent.
LEMMA AcceptKnown ==
    ASSUME ReadInv, PartsInv, NEW f \in File, InBody(f), reader[f].rels # <<>>,
           NEW u, NEW o, reader' = Accept(f, Ref(u, o)),
           UNCHANGED <<setup, value>>,
           \A c \in Address : rcr[c] \subseteq rcr'[c],
           Current(f) \in setup.composite /\ o # Null => <<Owner(f), Current(f)>> \in rcr'[o]
    PROVE  ReaderKnown(f)'
<1> DEFINE r == Current(f)
           p == Owner(f)
<1>1. /\ InBody(f)' /\ reader'[f].pc = "body" /\ reader'[f].obj = reader[f].obj
      /\ reader'[f].rels = reader[f].rels /\ reader'[f].acc = Append(reader[f].acc, Ref(u, o))
  BY ReaderAccepts
<1>2. Owner(f)' = p /\ Current(f)' = r /\ \A s : Left(f, s)' <=> Left(f, s)
  BY <1>1 DEF Owner, Current, Left
<1>3. ReaderKnown(f)
  BY DEF PartsInv
<1>4. p \in Address /\ Held(p) /\ InText(reader[f], value[p], Entry(f), Rel, setup.allow, live, uid)
  BY BodyParts DEF Held
<1>5. Sound(reader[f].acc, live, uid) /\ live \subseteq Address
  BY <1>4 DEF InText, ReadInv, StateOK
<1>6. ASSUME NEW s \in setup.composite, ~Left(f, s) PROVE HasParent(rcr', value[p][s], p, s)
  <2>1. HasParent(rcr, value[p][s], p, s)
    BY <1>3, <1>6 DEF ReaderKnown
  <2>2. \A i \in DOMAIN value[p][s] : value[p][s][i].obj # Null => value[p][s][i].obj \in Address
    BY <1>4, PointerIsLive
  <2> QED BY <2>1, <2>2 DEF HasParent
<1>7. ASSUME r \in setup.composite PROVE HasParent(rcr', reader'[f].acc, p, r)
  <2> DEFINE v == reader[f].acc
  <2>1. HasParent(rcr, v, p, r)
    BY <1>3, <1>7 DEF ReaderKnown
  <2>2. IsSequence(v) /\ \A i \in DOMAIN v : v[i].obj # Null => rcr[v[i].obj] \subseteq rcr'[v[i].obj]
    BY <1>5 DEF Sound
  <2>3. o # Null => <<p, r>> \in rcr'[o]
    BY <1>7
  <2> HIDE DEF v, p, r
  <2>4. HasParent(rcr', Append(v, Ref(u, o)), p, r)
    BY <2>1, <2>2, <2>3, MoreParents
  <2> QED BY <2>4, <1>1 DEF v
<1> HIDE DEF p, r
<1>8. /\ \A s \in setup.composite : Left(f, s)' \/ HasParent(rcr', value'[Owner(f)'][s], Owner(f)', s)
      /\ setup' = setup /\ reader'[f].pc # "add"
  BY <1>1, <1>2, <1>6
<1>9. Current(f)' \in setup.composite => HasParent(rcr', reader'[f].acc, Owner(f)', Current(f)')
  BY <1>2, <1>7
<1> QED BY <1>8, <1>9 DEF ReaderKnown

\* Reader f fails: of its file nothing is settled any more.
LEMMA PartsFailing ==
    ASSUME ReadInv, PartsInv, NEW f \in File, \A g \in File \ {f} : ~InBody(g), Failing(f), rcr' = rcr
    PROVE  PartsInv'
<1>1. /\ setup' = setup /\ File' = File /\ live' = live /\ seen' = seen /\ uid' = uid /\ file' = file
      /\ pc \in {"load", "reload"} /\ DOMAIN reader = File /\ live \subseteq Address /\ Null \notin Address
  BY SetupSame, GetObjectParts DEF Failing, ReadInv, StateOK
<1>2. /\ DOMAIN rcr' = Address /\ (\A o \in live' : file'[o] \in File') /\ OneParent(rcr)'
  BY <1>1 DEF PartsInv, OneParent
<1>3. /\ NoReader.obj = Null /\ [NoReader EXCEPT !.pc = "failed"].obj = Null
      /\ NoReader.pc = "wait" /\ [NoReader EXCEPT !.pc = "failed"].pc = "failed"
  BY DEF NoReader
<1>4. CASE pc = "load"
  <2>1. /\ pc' = pc /\ pool' = pool /\ reader'[f].pc = "failed"
        /\ \A g \in File \ {f} : reader'[g] = reader[g]
    BY <1>1, <1>3, <1>4 DEF Failing, Fail, Loading
  <2>2. \A g \in File : ~InBody(g)'
    BY <2>1 DEF InBody
  <2>3. OneAtWork'
    <3>1. \A g \in File : Reading(g)' => Reading(g)
      BY <2>1 DEF Reading
    <3> QED BY <3>1, <2>1, <2>2, <1>1 DEF PartsInv, OneAtWork, Loading
  <2>4. SettledKnown'
    <3> SUFFICES ASSUME NEW o \in Address, Settled(o)' PROVE Settled(o) /\ value'[o] = value[o]
      BY <1>1 DEF PartsInv, SettledKnown
    <3>1. o \in live \ pool /\ file[o] \in File \ {f}
      <4>1. o \in live \ pool /\ file[o] \in File /\ (seen[file[o]] # Unknown \/ reader'[file[o]].pc # "failed")
        BY <1>1, <2>1 DEF Settled, PartsInv
      <4>2. seen[file[o]] = Unknown
        BY <4>1, <1>4 DEF ReadInv, PhaseOK
      <4> QED BY <4>1, <4>2, <2>1
    <3>2. o # Owner(f) /\ \A g \in File \ {f} : Owner(g)' = Owner(g)
      <4>1. Owner(f) # Null => file[Owner(f)] = f
        BY BodyParts DEF ReadInv, ReadersOK, ReaderOK
      <4>2. o # Null
        BY <1>1, <3>1
      <4> QED BY <2>1, <3>1, <4>1, <4>2 DEF Owner
    <3> QED BY <1>1, <2>1, <3>1, <3>2 DEF Settled, Failing
  <2> QED BY <1>1, <1>2, <2>2, <2>3, <2>4 DEF PartsInv
<1>5. CASE pc = "reload"
  <2>1. pc' = "idle" /\ pool' = {} /\ \A g \in File : reader'[g] = NoReader
    BY <1>1, <1>5 DEF Failing, Fail, Loading
  <2>2. \A g \in File : ~InBody(g)'
    BY <1>3, <2>1 DEF InBody
  <2>3. OneAtWork'
    BY <1>1, <2>1, <2>2 DEF OneAtWork, Loading
  <2>4. SettledKnown'
    <3> SUFFICES ASSUME NEW o \in Address, Settled(o)' PROVE Settled(o) /\ value'[o] = value[o]
      BY <1>1 DEF PartsInv, SettledKnown
    <3>1. o \in live /\ o # Null /\ file[o] \in File /\ seen[file[o]] # Unknown
      BY <1>1, <1>3, <2>1 DEF Settled, PartsInv
    <3>2. reader[file[o]].pc = "wait" /\ o \notin pool
      BY <3>1, <1>5 DEF ReadInv, PhaseOK
    <3>3. ASSUME NEW g \in File PROVE Owner(g) # o
      <4>1. InBody(g) => file[Owner(g)] = g
        BY BodyParts
      <4>2. ~InBody(g) => Owner(g) = Null
        BY DEF ReadInv, ReadersOK, ReaderOK
      <4> QED BY <3>1, <3>2, <4>1, <4>2 DEF InBody
    <3> QED BY <3>1, <3>2, <3>3 DEF Settled, Failing
  <2> QED BY <1>1, <1>2, <2>2, <2>3, <2>4 DEF PartsInv
<1> QED BY <1>1, <1>4, <1>5

\* A reference is read: the object knows the parent, refuses it, or is about to
\* be told.
LEMMA PartsReference ==
    ASSUME ReadInv, PartsInv, NEW f \in File, \A g \in File \ {f} : ~InBody(g), pc \in {"load", "reload"},
           ReadReference(f)
    PROVE  PartsInv'
<1> DEFINE u == NextName(f)
           o == GetObject(u)
           r == Current(f)
           me == <<Owner(f), r>>
           part == o # Null /\ r \in setup.composite
<1>1. /\ reader[f].pc = "body" /\ InBody(f) /\ reader[f].rels # <<>>
      /\ UNCHANGED <<live, uid, file, rcr, setup, disk, seen>>
  BY DEF ReadReference, InRelationship, InBody
<1>2. ASSUME part => me \in rcr[o], reader' = Accept(f, Ref(u, o)), UNCHANGED <<value, pc, pool>>
      PROVE  PartsInv'
  <2>1. ReaderKnown(f)'
    BY <1>1, <1>2, AcceptKnown
  <2>2. InBody(f)' /\ Owner(f)' = Owner(f) /\ \A g \in File \ {f} : reader'[g] = reader[g]
    BY <1>1, <1>2, ReaderAccepts DEF Owner
  <2>3. DOMAIN rcr' = Address /\ OneParent(rcr')
    BY <1>1 DEF PartsInv
  <2> HIDE DEF u, o, r, me, part
  <2> QED BY <1>1, <1>2, <2>1, <2>2, <2>3, PartsBody
<1>3. ASSUME Partial(f), Fail(f, FALSE)
      PROVE  PartsInv'
  <2>1. Failing(f)
    <3> DEFINE kept == IF setup.notify /\ Rereads(f) THEN value[Owner(f)][r] ELSE reader[f].acc
               w == [value[Owner(f)] EXCEPT ![r] = kept]
    <3>1. /\ InText(reader[f], value[Owner(f)], Entry(f), Rel, setup.allow, live, uid)
          /\ SoundValue(value[Owner(f)], Rel, live, uid) /\ Owner(f) \in Address /\ DOMAIN value = Address
      BY <1>1, BodyParts
    <3>2. r \in Rel /\ Sound(reader[f].acc, live, uid)
      <4>1. reader[f].rels \in Seq(Rel) /\ Sound(reader[f].acc, live, uid)
        BY <3>1 DEF InText
      <4> QED BY <4>1, <1>1 DEF Current
    <3>3. Sound(kept, live, uid)
      BY <3>1, <3>2 DEF SoundValue
    <3>4. value' = [value EXCEPT ![Owner(f)] = w]
      BY <1>3 DEF Partial
    <3>5. SoundValue(w, Rel, live, uid)
      <4> HIDE DEF kept, r
      <4> QED BY <3>1, <3>2, <3>3, SoundUpdate
    <3> HIDE DEF w
    <3>6. /\ DOMAIN value' = Address /\ \A a \in Address \ {Owner(f)} : value'[a] = value[a]
          /\ SoundValue(value'[Owner(f)], Rel, live, uid)
      BY <3>1, <3>4, <3>5
    <3> QED BY <1>1, <1>3, <3>6 DEF Failing
  <2> QED BY <1>1, <2>1, PartsFailing
<1>4. ASSUME part, me \notin rcr[o], CanAdd(rcr[o], Owner(f), r),
             reader' = [reader EXCEPT ![f].pc = "add", ![f].fresh = rcr[o] = {}], UNCHANGED <<value, pc, pool>>
      PROVE  PartsInv'
  <2> DEFINE fresh == rcr[o] = {}
             old == reader[f]
             x == [pc |-> "add", at |-> old.at, obj |-> old.obj, rels |-> old.rels,
                   acc |-> old.acc, fresh |-> fresh, update |-> old.update]
  <2>1. f \in DOMAIN reader /\ IsReader(reader[f]) /\ DOMAIN reader = File
    BY <1>1, BodyParts
  <2>2. Becomes(reader', reader, f, x)
    <3>1. reader' = [reader EXCEPT ![f].pc = "add", ![f].fresh = fresh]
      BY <1>4
    <3> HIDE DEF fresh
    <3> QED BY <2>1, <3>1, ReaderBecomes
  <2>3. x.pc = "add" /\ x.obj = old.obj /\ x.rels = old.rels /\ x.acc = old.acc
    OBVIOUS
  <2>4. x.fresh => fresh
    BY Zenon
  <2> HIDE DEF x
  <2>5. /\ reader'[f].pc = "add" /\ reader'[f].obj = old.obj /\ reader'[f].rels = old.rels /\ reader'[f].acc = old.acc
        /\ reader'[f].fresh => fresh
        /\ \A g \in File \ {f} : reader'[g] = reader[g]
        /\ reader'[f].at = old.at
    <3>1. x.at = old.at
      BY DEF x
    <3> QED BY <2>1, <2>2, <2>3, <2>4, <3>1 DEF Becomes
  <2>6. /\ Owner(f)' = Owner(f) /\ InBody(f)' /\ Current(f)' = Current(f) /\ NextName(f)' = NextName(f)
        /\ \A s : Left(f, s)' <=> Left(f, s)
    BY <1>1, <2>5 DEF Owner, InBody, Current, NextName, InFile, Entry, Left
  <2>7. \A w : GetObject(w)' = GetObject(w)
    BY <1>1 DEF GetObject
  <2>8. \A L, p, q : CanAdd(L, p, q)' <=> CanAdd(L, p, q)
    BY <1>1 DEF CanAdd
  <2>9. ReaderKnown(f)'
    <3>1. ReaderKnown(f)
      BY <1>1 DEF PartsInv
    <3>2. PICK c : c = o
      OBVIOUS
    <3>3. GetObject(NextName(f))' = c
      BY <3>2, <2>6, <2>7
    <3>4. CanAdd(rcr[c], Owner(f), Current(f))' /\ c # Null /\ (reader'[f].fresh => rcr'[c] = {})
      BY <3>2, <1>1, <1>4, <2>5, <2>6, <2>8
    <3> HIDE DEF o, u, r, me, part, fresh
    <3>5. \A s \in setup.composite : Left(f, s)' \/ HasParent(rcr', value'[Owner(f)'][s], Owner(f)', s)
      BY <3>1, <1>1, <1>4, <2>6 DEF ReaderKnown
    <3>6. reader'[f].rels # <<>> /\ Current(f)' \in setup.composite => HasParent(rcr', reader'[f].acc, Owner(f)', Current(f)')
      BY <3>1, <1>1, <2>5, <2>6 DEF ReaderKnown
    <3> QED BY <3>3, <3>4, <3>5, <3>6, <1>1 DEF ReaderKnown
  <2>10. DOMAIN rcr' = Address /\ OneParent(rcr') /\ \A c \in Address : rcr[c] \subseteq rcr'[c]
    BY <1>1 DEF PartsInv
  <2> HIDE DEF o, u, r, me, part, fresh
  <2> QED BY <1>1, <1>4, <2>5, <2>6, <2>9, <2>10, PartsBody
<1>5. \/ (part => me \in rcr[o]) /\ reader' = Accept(f, Ref(u, o)) /\ UNCHANGED <<value, pc, pool>>
      \/ Partial(f) /\ Fail(f, FALSE)
      \/ /\ part /\ me \notin rcr[o] /\ CanAdd(rcr[o], Owner(f), r)
         /\ reader' = [reader EXCEPT ![f].pc = "add", ![f].fresh = rcr[o] = {}] /\ UNCHANGED <<value, pc, pool>>
  BY DEF ReadReference, reloadVars
<1> HIDE DEF o, u, r, me, part
<1> QED BY <1>2, <1>3, <1>4, <1>5

\* The object's list gets the parent that it had accepted.
LEMMA PartsAdd ==
    ASSUME ReadInv, PartsInv, NEW f \in File, \A g \in File \ {f} : ~InBody(g), AddRcr(f)
    PROVE  PartsInv'
<1> DEFINE u == NextName(f)
           o == GetObject(u)
           r == Current(f)
           p == Owner(f)
           me == <<p, r>>
<1>1. /\ reader[f].pc = "add" /\ InBody(f) /\ reader' = Accept(f, Ref(u, o))
      /\ UNCHANGED <<live, uid, file, value, pc, pool, setup, disk, seen>>
  BY DEF AddRcr, InBody, reloadVars
<1>2. reader[f].rels # <<>>
  BY <1>1, BodyParts DEF InText
<1>3. o # Null /\ CanAdd(rcr[o], p, r) /\ (reader[f].fresh => rcr[o] = {})
  BY <1>1 DEF PartsInv, ReaderKnown
<1>4. o \in Address /\ DOMAIN rcr = Address
  BY <1>3, GetObjectParts DEF ReadInv, StateOK, PartsInv
<1>5. rcr' = [rcr EXCEPT ![o] = @ \cup {me}]
  <2>1. rcr' = [rcr EXCEPT ![o] = @ \cup {me}] \/ (reader[f].fresh /\ rcr' = [rcr EXCEPT ![o] = {me}])
    BY DEF AddRcr
  <2>2. reader[f].fresh => rcr[o] \cup {me} = {me}
    BY <1>3
  <2> HIDE DEF o, me
  <2> QED BY <2>1, <2>2
<1> HIDE DEF u, o, r, me
<1>6. rcr'[o] = rcr[o] \cup {me} /\ (\A c \in Address \ {o} : rcr'[c] = rcr[c]) /\ DOMAIN rcr' = Address
  BY <1>4, <1>5
<1>7. OneParent(rcr')
  <2> SUFFICES ASSUME NEW c \in Address, NEW q \in rcr'[c], NEW s \in rcr'[c],
                      q[2] = s[2], q[2] \in setup.exclusive
               PROVE  q[1] = s[1]
    BY DEF OneParent
  <2>1. CASE q \in rcr[c] /\ s \in rcr[c]
    BY <2>1 DEF PartsInv, OneParent
  <2>2. CASE ~(q \in rcr[c] /\ s \in rcr[c])
    <3>1. c = o /\ (q = me \/ q \in rcr[o]) /\ (s = me \/ s \in rcr[o]) /\ (q = me \/ s = me)
      BY <2>2, <1>6
    <3>2. me[1] = p /\ me[2] = r
      BY DEF me
    <3>3. r \in setup.exclusive => \A x \in rcr[o] : x[2] = r => x[1] = p
      BY <1>3 DEF CanAdd
    <3> QED BY <3>1, <3>2, <3>3
  <2> QED BY <2>1, <2>2
<1>8. \A c \in Address : rcr[c] \subseteq rcr'[c]
  BY <1>6
<1>9. ReaderKnown(f)'
  <2>1. me \in rcr'[o] /\ me = <<Owner(f), Current(f)>>
    BY <1>6 DEF me, r
  <2> HIDE DEF p
  <2> QED BY <2>1, <1>1, <1>2, <1>8, AcceptKnown
<1>10. InBody(f)' /\ Owner(f)' = Owner(f) /\ \A g \in File \ {f} : reader'[g] = reader[g]
  BY <1>1, ReaderAccepts DEF Owner
<1> QED BY <1>1, <1>6, <1>7, <1>8, <1>9, <1>10, PartsBody

\* A relationship is complete: it is known to the objects in it.
LEMMA PartsRelationship ==
    ASSUME ReadInv, PartsInv, NEW f \in File, \A g \in File \ {f} : ~InBody(g), EndRelationship(f)
    PROVE  PartsInv'
<1> DEFINE old == reader[f]
           r == Current(f)
           p == Owner(f)
           w == [value[p] EXCEPT ![r] = old.acc]
<1>1. /\ InBody(f) /\ old.pc = "body" /\ old.rels # <<>>
      /\ UNCHANGED <<live, uid, file, rcr, pc, pool, setup, disk, seen>>
  BY DEF EndRelationship, InBody, reloadVars
<1>2. PICK b : reader' = [reader EXCEPT ![f].rels = Tail(@), ![f].acc = <<>>, ![f].update = b]
  BY DEF EndRelationship
<1> DEFINE x == [pc |-> old.pc, at |-> old.at, obj |-> old.obj, rels |-> Tail(old.rels), acc |-> <<>>,
                 fresh |-> old.fresh, update |-> b]
<1>3. /\ InText(old, value[p], Entry(f), Rel, setup.allow, live, uid) /\ SoundValue(value[p], Rel, live, uid)
      /\ p \in Address /\ DOMAIN value = Address /\ DOMAIN reader = File /\ IsReader(old)
  BY <1>1, BodyParts
<1>4. Becomes(reader', reader, f, x)
  <2>1. reader' = [reader EXCEPT ![f].rels = Tail(old.rels), ![f].acc = <<>>, ![f].update = b]
    BY <1>2
  <2> QED BY <1>3, <2>1, ReaderBecomes
<1>5. x.pc = "body" /\ x.obj = old.obj /\ x.rels = Tail(old.rels) /\ x.acc = <<>>
  BY <1>1
<1> HIDE DEF x
<1>6. /\ reader'[f] = x /\ (\A g \in File \ {f} : reader'[g] = reader[g]) /\ InBody(f)' /\ Owner(f)' = p
  BY <1>3, <1>4, <1>5 DEF Becomes, InBody, Owner
<1>7. /\ r \in Rel
      /\ \A i \in DOMAIN old.rels : old.rels[i] = r \/ \E k \in DOMAIN x.rels : x.rels[k] = old.rels[i]
  <2> DEFINE s == old.rels
  <2>1. s \in Seq(Rel) /\ r = Head(s) /\ s # <<>>
    BY <1>1, <1>3 DEF InText, Current
  <2> HIDE DEF s, r
  <2>2. /\ r = s[1] /\ r \in Rel
        /\ \A i \in DOMAIN s : i = 1 \/ (i - 1 \in DOMAIN Tail(s) /\ Tail(s)[i - 1] = s[i])
    BY <2>1
  <2> QED BY <2>2, <1>5 DEF s
<1>8. DOMAIN value' = Address /\ value'[p] = w /\ \A o \in Address \ {p} : value'[o] = value[o]
  <2>1. value' = [value EXCEPT ![p] = w]
    BY DEF EndRelationship
  <2> HIDE DEF w, p
  <2> QED BY <1>3, <2>1
<1>9. w[r] = old.acc /\ \A s \in Rel \ {r} : w[s] = value[p][s]
  BY <1>3, <1>7 DEF SoundValue
<1>10. ReaderKnown(f)'
  <2>1. ReaderKnown(f)
    BY <1>1 DEF PartsInv
  <2>2. ASSUME NEW s \in setup.composite PROVE Left(f, s)' \/ HasParent(rcr', value'[p][s], p, s)
    <3>1. CASE s = r
      <4>1. HasParent(rcr, old.acc, p, s)
        BY <2>1, <2>2, <3>1, <1>1 DEF ReaderKnown
      <4> QED BY <4>1, <3>1, <1>1, <1>8, <1>9
    <3>2. CASE s # r
      <4>1. s \in Rel
        BY SetupSets DEF ReadInv, StateOK
      <4>2. value'[p][s] = value[p][s] /\ rcr' = rcr
        BY <4>1, <3>2, <1>1, <1>8, <1>9
      <4>3. Left(f, s) \/ HasParent(rcr, value[p][s], p, s)
        BY <2>1 DEF ReaderKnown
      <4>4. Left(f, s) => Left(f, s)'
        BY <3>2, <1>6, <1>7 DEF Left
      <4> QED BY <4>2, <4>3, <4>4
    <3> QED BY <3>1, <3>2
  <2>3. reader'[f].acc = <<>> /\ reader'[f].pc = "body"
    BY <1>5, <1>6
  <2>4. \A q, s : HasParent(rcr', <<>>, q, s)
    BY DEF HasParent
  <2> HIDE DEF p
  <2> QED BY <2>2, <2>3, <2>4, <1>1, <1>6 DEF ReaderKnown
<1>11. DOMAIN rcr' = Address /\ OneParent(rcr') /\ \A c \in Address : rcr[c] \subseteq rcr'[c]
  BY <1>1 DEF PartsInv
<1> HIDE DEF old, r, w
<1> QED BY <1>1, <1>6, <1>8, <1>10, <1>11, PartsBody

\* Reader f begins with the object o, whose parts have to be read.
LEMMA PartsBegin ==
    ASSUME ReadInv, PartsInv, NEW f \in File, \A g \in File \ {f} : ~InBody(g), reader[f].pc = "header",
           NEW o \in Address, reader' = Body(f, o), UNCHANGED <<setup, live, seen, pc>>,
           file'[o] = f, \A a \in Address \ {o} : file'[a] = file[a] /\ value'[a] = value[a],
           pool \subseteq pool' \cup {o},
           DOMAIN rcr' = Address, OneParent(rcr'),
           \A a \in live \ {o}, r \in setup.composite :
               HasParent(rcr, value[a][r], a, r) => HasParent(rcr', value'[a][r], a, r)
    PROVE  PartsInv'
<1> DEFINE old == reader[f]
           x == [pc |-> "body", at |-> old.at, obj |-> o, rels |-> setup.rels, acc |-> <<>>,
                 fresh |-> old.fresh, update |-> FALSE]
<1>1. DOMAIN reader = File /\ IsReader(reader[f]) /\ File' = File /\ live \subseteq Address
  BY SetupSame DEF ReadInv, StateOK, ReadersOK, ReaderOK
<1>2. Becomes(reader', reader, f, x)
  BY <1>1, ReaderBecomes DEF Body
<1>3. x.pc = "body" /\ x.obj = o /\ x.rels = setup.rels /\ x.acc = <<>>
  OBVIOUS
<1> HIDE DEF x
<1>4. reader'[f] = x /\ Owner(f)' = o /\ \A g \in File \ {f} : reader'[g] = reader[g]
  BY <1>1, <1>2, <1>3 DEF Becomes, Owner
<1>5. \A g \in File : InBody(g)' => g = f
  BY <1>4 DEF InBody
<1>6. OneAtWork'
  <2>1. \A g \in File : Reading(g)' <=> Reading(g)
    <3> TAKE g \in File
    <3>1. CASE g = f
      BY <3>1, <1>3, <1>4 DEF Reading
    <3>2. CASE g # f
      BY <3>2, <1>4 DEF Reading
    <3> QED BY <3>1, <3>2
  <2> QED BY <2>1, <1>1, <1>5 DEF PartsInv, OneAtWork, Loading
<1>7. SettledKnown'
  <2> SUFFICES ASSUME NEW a \in Address, Settled(a)', NEW r \in setup.composite
               PROVE  HasParent(rcr', value'[a][r], a, r)
    BY DEF SettledKnown
  <2>1. a \in live /\ a # o /\ file'[a] = file[a] /\ file[a] \in File
    BY <1>1, <1>4 DEF Settled, PartsInv
  <2>2. Settled(a)
    <3>1. a \notin pool
      BY <2>1 DEF Settled
    <3>2. \A g \in File : Owner(g) # a
      <4>1. Owner(f) # a
        BY <2>1, GetObjectParts DEF ReadInv, StateOK, ReadersOK, ReaderOK, InBody
      <4>2. \A g \in File \ {f} : Owner(g) # a
        BY <1>1, <1>4 DEF Settled, Owner
      <4> QED BY <4>1, <4>2
    <3>3. seen[file[a]] # Unknown \/ reader[file[a]].pc \notin {"wait", "failed"}
      BY <2>1, <1>4 DEF Settled
    <3> QED BY <2>1, <3>1, <3>2, <3>3 DEF Settled
  <2> QED BY <2>1, <2>2 DEF PartsInv, SettledKnown
<1>8. ReaderKnown(f)'
  <2>1. \A r \in setup.composite : Left(f, r)'
    BY <1>3, <1>4, SetupSets, SetupParts DEF Left, ReadInv, StateOK
  <2>2. \A L, q, s : HasParent(L, <<>>, q, s)
    BY DEF HasParent
  <2> QED BY <2>1, <2>2, <1>3, <1>4 DEF ReaderKnown
<1>9. (\A a \in live' : file'[a] \in File') /\ OneParent(rcr)'
  BY <1>1 DEF PartsInv, OneParent
<1> QED BY <1>1, <1>5, <1>6, <1>7, <1>8, <1>9 DEF PartsInv

LEMMA PartsHeader ==
    ASSUME ReadInv, PartsInv, NEW f \in File, \A g \in File \ {f} : ~InBody(g), pc \in {"load", "reload"},
           ReadHeader(f)
    PROVE  PartsInv'
<1> DEFINE u == Entry(f).uid
           again == {o \in pool : uid[o] = u}
<1>1. reader[f].pc = "header" /\ UNCHANGED <<setup, disk, seen>> /\ Owner(f) = Null
  BY DEF ReadHeader, ReadInv, ReadersOK, ReaderOK, InBody
<1>2. /\ Null \notin Address /\ live \subseteq Address /\ pool \subseteq live
      /\ DOMAIN file = Address /\ DOMAIN value = Address /\ DOMAIN rcr = Address /\ OneParent(rcr)
  BY GetObjectParts, PoolIsLive DEF ReadInv, StateOK, PartsInv
<1>3. ASSUME NEW o \in again, pool' = pool \ {o}, SetFile(f, o), reader' = Body(f, o),
             value' = IF setup.notify THEN value ELSE [value EXCEPT ![o] = NoValue],
             UNCHANGED <<live, uid, pc, rcr>>
      PROVE  PartsInv'
  <2>1. o \in Address /\ pool \subseteq pool' \cup {o}
    BY <1>2, <1>3
  <2>2. file'[o] = f /\ \A a \in Address \ {o} : file'[a] = file[a] /\ value'[a] = value[a]
    BY <1>2, <1>3, <2>1 DEF SetFile
  <2>3. \A a \in live \ {o} : value'[a] = value[a]
    BY <1>2, <2>2
  <2> HIDE DEF again, u
  <2> QED BY <1>1, <1>2, <1>3, <2>1, <2>2, <2>3, PartsBegin
<1>4. ASSUME Fail(f, TRUE), UNCHANGED objectVars
      PROVE  PartsInv'
  <2>1. Failing(f) /\ rcr' = rcr
    BY <1>1, <1>2, <1>4 DEF Failing, objectVars
  <2> QED BY <2>1, PartsFailing
<1>5. ASSUME NEW a \in Address, ~InUse(a), SetFile(f, a), reader' = Body(f, a),
             value' = [value EXCEPT ![a] = NoValue], rcr' = [rcr EXCEPT ![a] = {}],
             UNCHANGED <<live, pc, pool>>
      PROVE  PartsInv'
  <2>1. file'[a] = f /\ \A b \in Address \ {a} : file'[b] = file[b] /\ value'[b] = value[b]
    BY <1>2, <1>5 DEF SetFile
  <2>2. rcr'[a] = {} /\ (\A b \in Address \ {a} : rcr'[b] = rcr[b]) /\ DOMAIN rcr' = Address
    BY <1>2, <1>5
  <2>3. OneParent(rcr')
    BY <1>2, <2>2 DEF OneParent
  <2>4. ASSUME NEW b \in live \ {a}, NEW r \in setup.composite, HasParent(rcr, value[b][r], b, r)
        PROVE  HasParent(rcr', value'[b][r], b, r)
    <3>1. b \in Address /\ Held(b) /\ value'[b] = value[b] /\ r \in Rel
      BY <1>2, <2>1, SetupSets DEF Held, ReadInv, StateOK
    <3>2. \A i \in DOMAIN value[b][r] : value[b][r][i].obj # a
      <4>1. a \notin Pointers(value[b][r])
        BY <1>5, <3>1 DEF InUse
      <4>2. a # Null
        BY <1>2
      <4> QED BY <4>1, <4>2 DEF Pointers
    <3>3. \A i \in DOMAIN value[b][r] : value[b][r][i].obj # Null => value[b][r][i].obj \in Address
      BY <3>1, PointerIsLive
    <3> QED BY <3>1, <3>2, <3>3, <2>2, <2>4 DEF HasParent
  <2> QED BY <1>1, <1>5, <2>1, <2>2, <2>3, <2>4, PartsBegin
<1> QED BY <1>3, <1>4, <1>5 DEF ReadHeader, reloadVars

\* An object is read to its end.
LEMMA PartsObject ==
    ASSUME ReadInv, PartsInv, NEW f \in File, \A g \in File \ {f} : ~InBody(g), pc \in {"load", "reload"},
           EndObject(f)
    PROVE  PartsInv'
<1>1. /\ reader[f].pc = "body" /\ InBody(f) /\ reader[f].rels = <<>>
      /\ UNCHANGED <<uid, file, value, rcr, setup, disk, seen>>
  BY DEF EndObject, InBody
<1>2. /\ SoundValue(value[Owner(f)], Rel, live, uid) /\ DOMAIN value = Address /\ DOMAIN reader = File
      /\ Owner(f) \in Address /\ file[Owner(f)] = f /\ IsReader(reader[f])
  BY <1>1, BodyParts
<1>3. CASE Fail(f, FALSE) /\ UNCHANGED live
  <2>1. Failing(f)
    BY <1>1, <1>2, <1>3 DEF Failing
  <2> QED BY <1>1, <2>1, PartsFailing
<1>4. CASE reader' = Next1(f) /\ live' \subseteq live \cup {Owner(f)} /\ UNCHANGED <<pc, pool>>
  <2> DEFINE old == reader[f]
             x == [pc |-> "header", at |-> old.at + 1, obj |-> Null, rels |-> old.rels,
                   acc |-> old.acc, fresh |-> old.fresh, update |-> old.update]
  <2>1. Becomes(reader', reader, f, x)
    BY <1>2, <1>4, ReaderBecomes DEF Next1
  <2>2. x.pc = "header"
    OBVIOUS
  <2> HIDE DEF x
  <2>3. reader'[f].pc = "header" /\ (\A g \in File \ {f} : reader'[g] = reader[g]) /\ File' = File /\ setup' = setup
    BY <1>1, <1>2, <2>1, <2>2, SetupSame DEF Becomes
  <2>4. \A g \in File : ~InBody(g)'
    BY <2>3 DEF InBody
  <2>5. OneAtWork'
    <3>1. \A g \in File : Reading(g)' => Reading(g)
      BY <1>1, <2>3 DEF Reading
    <3> QED BY <3>1, <1>4, <2>3, <2>4 DEF PartsInv, OneAtWork, Loading
  <2>6. (\A o \in live' : file'[o] \in File') /\ OneParent(rcr)' /\ DOMAIN rcr' = Address
    BY <1>1, <1>2, <1>4, <2>3 DEF PartsInv, OneParent
  <2>7. SettledKnown'
    <3> SUFFICES ASSUME NEW o \in Address, Settled(o)', NEW r \in setup.composite
                 PROVE  HasParent(rcr, value[o][r], o, r)
      BY <1>1 DEF SettledKnown
    <3>1. CASE o = Owner(f)
      <4>1. ~Left(f, r)
        BY <1>1 DEF Left
      <4> QED BY <3>1, <4>1, <1>1 DEF PartsInv, ReaderKnown
    <3>2. CASE o # Owner(f)
      <4>1. o \in live \ pool /\ file[o] \in File
        BY <3>2, <1>4 DEF Settled, PartsInv
      <4>2. \A g \in File : Owner(g) # o
        BY <3>2, <2>3 DEF Settled, Owner
      <4>3. seen[file[o]] # Unknown \/ reader[file[o]].pc \notin {"wait", "failed"}
        BY <4>1, <1>1, <2>3 DEF Settled
      <4> QED BY <4>1, <4>2, <4>3 DEF Settled, PartsInv, SettledKnown
    <3> QED BY <3>1, <3>2
  <2> QED BY <2>3, <2>4, <2>5, <2>6, <2>7 DEF PartsInv
<1>5. \/ Fail(f, FALSE) /\ UNCHANGED live
      \/ reader' = Next1(f) /\ live' \subseteq live \cup {Owner(f)} /\ UNCHANGED <<pc, pool>>
  BY DEF EndObject
<1> QED BY <1>3, <1>4, <1>5

\* The end of a file, and what happens between files.
LEMMA PartsEndFile ==
    ASSUME ReadInv, PartsInv, NEW f \in File, EndFile(f)
    PROVE  PartsInv'
<1> DEFINE old == reader[f]
           x == [pc |-> "done", at |-> old.at, obj |-> old.obj, rels |-> old.rels, acc |-> old.acc,
                 fresh |-> old.fresh, update |-> old.update]
<1>1. /\ old.pc = "header" /\ reader' = [reader EXCEPT ![f].pc = "done"] /\ IsReader(old) /\ DOMAIN reader = File
      /\ UNCHANGED <<setup, disk, live, uid, file, value, rcr, pool, seen, pc>>
  BY DEF EndFile, objectVars, reloadVars, ReadInv, StateOK, ReadersOK, ReaderOK
<1>2. Becomes(reader', reader, f, x)
  BY <1>1, ReaderBecomes
<1>3. x.pc = "done" /\ x.obj = old.obj
  OBVIOUS
<1> HIDE DEF x
<1>4. /\ reader'[f].pc = "done" /\ (\A g \in File \ {f} : reader'[g] = reader[g]) /\ File' = File
      /\ \A g \in File : Owner(g)' = Owner(g)
  BY <1>1, <1>2, <1>3, SetupSame DEF Becomes, Owner
<1>5. \A g \in File : (InBody(g)' => InBody(g) /\ reader'[g] = reader[g]) /\ (Reading(g)' => Reading(g))
  BY <1>1, <1>4 DEF InBody, Reading
<1>6. OneAtWork'
  BY <1>1, <1>4, <1>5 DEF PartsInv, OneAtWork, Loading
<1>7. \A o \in Address : Settled(o)' => Settled(o)
  <2> SUFFICES ASSUME NEW o \in Address, Settled(o)' PROVE Settled(o)
    OBVIOUS
  <2>1. o \in live \ pool /\ (\A g \in File : Owner(g) # o) /\ file[o] \in File
    BY <1>1, <1>4 DEF Settled, PartsInv
  <2>2. CASE file[o] = f
    BY <2>1, <2>2, <1>1 DEF Settled
  <2>3. CASE file[o] # f
    BY <2>1, <2>3, <1>1, <1>4 DEF Settled
  <2> QED BY <2>2, <2>3
<1> QED BY <1>1, <1>5, <1>6, <1>7, PartsQuiet

LEMMA PartsLoadData ==
    ASSUME ReadInv, PartsInv, LoadData
    PROVE  PartsInv'
<1>1. UNCHANGED <<setup, disk, live, uid, file, value, rcr, pool, seen, reader>> /\ pc = "new" /\ File' = File
  BY SetupSame DEF LoadData, objectVars, reloadVars
<1>2. \A f \in File : reader[f].pc = "wait"
  BY <1>1 DEF ReadInv, PhaseOK
<1>3. OneAtWork'
  BY <1>1, <1>2 DEF OneAtWork, InBody, Reading
<1>4. \A o \in Address : Settled(o)' => Settled(o)
  BY <1>1 DEF Settled, Owner
<1> QED BY <1>1, <1>3, <1>4, PartsQuiet

LEMMA PartsEdit ==
    ASSUME ReadInv, PartsInv, NEW f \in File, Edit(f)
    PROVE  PartsInv'
<1>1. UNCHANGED <<setup, live, uid, file, value, rcr, pool, seen, reader, pc>> /\ pc = "idle" /\ File' = File
  BY SetupSame DEF Edit, objectVars, reloadVars, Idle
<1>2. \A g \in File : reader[g].pc = "wait"
  BY <1>1 DEF ReadInv, PhaseOK
<1>3. OneAtWork' /\ \A g \in File : ~InBody(g)'
  BY <1>1, <1>2 DEF OneAtWork, InBody, Reading
<1>4. \A o \in Address : Settled(o)' => Settled(o)
  BY <1>1 DEF Settled, Owner
<1> QED BY <1>1, <1>3, <1>4, PartsQuiet

\* One thread takes a job when it has no other.
LEMMA PartsStartJob ==
    ASSUME ReadInv, PartsInv, OneThread, NEW f \in File, StartJob(f)
    PROVE  PartsInv'
<1> DEFINE old == reader[f]
           x == [pc |-> "header", at |-> old.at, obj |-> old.obj, rels |-> old.rels, acc |-> old.acc,
                 fresh |-> old.fresh, update |-> old.update]
           busy == {g \in File : Reading(g)}
<1>1. /\ old.pc = "wait" /\ reader' = [reader EXCEPT ![f].pc = "header"] /\ IsReader(old) /\ DOMAIN reader = File
      /\ UNCHANGED <<setup, disk, live, uid, file, value, rcr, pool, seen, pc>> /\ pc = "load"
      /\ Cardinality(busy) < 1
  BY DEF StartJob, Loading, OneThread, objectVars, reloadVars, ReadInv, StateOK, ReadersOK, ReaderOK
<1>2. Becomes(reader', reader, f, x)
  BY <1>1, ReaderBecomes
<1>3. x.pc = "header" /\ x.obj = old.obj
  OBVIOUS
<1> HIDE DEF x
<1>4. /\ reader'[f].pc = "header" /\ (\A g \in File \ {f} : reader'[g] = reader[g]) /\ File' = File
      /\ \A g \in File : Owner(g)' = Owner(g)
  BY <1>1, <1>2, <1>3, SetupSame DEF Becomes, Owner
<1>5. \A g \in File : ~Reading(g)
  <2>1. IsFiniteSet(busy)
    BY SetupSets, FS_Subset DEF ReadInv, StateOK
  <2>2. Cardinality(busy) \in Nat
    BY <2>1, FS_CardinalityType
  <2>3. Cardinality(busy) = 0
    BY <2>2, <1>1
  <2>4. busy = {}
    BY <2>1, <2>3, FS_EmptySet
  <2> QED BY <2>4
<1>6. \A g \in File : ~InBody(g)' /\ (Reading(g)' => g = f)
  BY <1>4, <1>5 DEF InBody, Reading
<1>7. OneAtWork'
  BY <1>4, <1>6 DEF OneAtWork
<1>8. \A o \in Address : Settled(o)' => Settled(o)
  <2> SUFFICES ASSUME NEW o \in Address, Settled(o)' PROVE Settled(o)
    OBVIOUS
  <2>1. o \in live \ pool /\ (\A g \in File : Owner(g) # o) /\ file[o] \in File
    BY <1>1, <1>4 DEF Settled, PartsInv
  <2>2. file[o] # f
    <3>1. Here(f) = {}
      BY <1>1 DEF ReadInv, FilesRead, FileRead
    <3> QED BY <3>1, <2>1 DEF Here
  <2> QED BY <2>1, <2>2, <1>1, <1>4 DEF Settled
<1> QED BY <1>1, <1>6, <1>7, <1>8, PartsQuiet

\* Binding tells a part of the object that gets a pointer to it, unless the part
\* refuses.
LEMMA BindTellsParts ==
    ASSUME ReadInv, PartsInv, NEW succeeds \in BOOLEAN, Bind(succeeds), UNCHANGED <<setup, live, uid>>
    PROVE  /\ DOMAIN rcr' = Address /\ OneParent(rcr')
           /\ succeeds => \A o \in live, r \in setup.composite :
                HasParent(rcr, value[o][r], o, r) => HasParent(rcr', value'[o][r], o, r)
<1>1. PICK T : /\ T \subseteq Resolvable /\ AllAccept(WithParents(T)) /\ rcr' = WithParents(T)
               /\ succeeds => value' = Bound(T)
  <2>1. CASE succeeds
    BY <2>1 DEF Bind
  <2>2. CASE ~succeeds
    BY <2>2 DEF Bind
  <2> QED BY <2>1, <2>2
<1>2. /\ DOMAIN rcr' = Address
      /\ \A c \in Address : rcr'[c] = rcr[c] \cup {<<t[2], t[3]>> : t \in {u \in T : u[1] = c /\ u[3] \in setup.composite}}
  BY <1>1 DEF WithParents
<1>3. OneParent(rcr')
  <2> SUFFICES ASSUME NEW c \in Address, NEW q \in rcr'[c], NEW s \in rcr'[c],
                      q[2] = s[2], q[2] \in setup.exclusive
               PROVE  q[1] = s[1]
    BY DEF OneParent
  <2>1. CASE c \in live
    <3>1. \A p \in rcr'[c] \ rcr[c] : CanAdd(rcr'[c], p[1], p[2])
      BY <2>1, <1>1 DEF AllAccept
    <3>2. CASE s \notin rcr[c]
      BY <3>1, <3>2 DEF CanAdd
    <3>3. CASE q \notin rcr[c]
      BY <3>1, <3>3 DEF CanAdd
    <3>4. CASE q \in rcr[c] /\ s \in rcr[c]
      BY <3>4 DEF PartsInv, OneParent
    <3> QED BY <3>2, <3>3, <3>4
  <2>2. CASE c \notin live
    <3>1. \A t \in T : t[1] \in live
      BY <1>1 DEF Resolvable
    <3>2. \A t \in T : t[1] # c
      BY <3>1, <2>2
    <3> DEFINE more == {<<t[2], t[3]>> : t \in {u \in T : u[1] = c /\ u[3] \in setup.composite}}
    <3>3. more = {}
      BY <3>2
    <3>4. rcr'[c] = rcr[c] \cup more
      BY <1>2
    <3> HIDE DEF more
    <3>5. rcr'[c] = rcr[c]
      BY <3>3, <3>4
    <3> QED BY <3>5 DEF PartsInv, OneParent
  <2> QED BY <2>1, <2>2
<1>4. ASSUME succeeds, NEW o \in live, NEW r \in setup.composite, HasParent(rcr, value[o][r], o, r),
             NEW i \in DOMAIN value'[o][r], value'[o][r][i].obj # Null
      PROVE  <<o, r>> \in rcr'[value'[o][r][i].obj]
  <2> DEFINE ref == value[o][r][i]
             to == {t \in T : t[2] = o /\ t[3] = r /\ ref = Ref(uid[t[1]], Null)}
  <2>1. o \in Address /\ r \in Rel /\ Held(o)
    BY SetupSets DEF ReadInv, StateOK, Held
  <2>2. i \in DOMAIN value[o][r] /\ value'[o][r][i] = IF to = {} THEN ref ELSE Ref(ref.uid, (CHOOSE t \in to : TRUE)[1])
    <3>1. value' = Bound(T)
      BY <1>1, <1>4
    <3>2. i \in DOMAIN Bound(T)[o][r]
      BY <1>4, <3>1
    <3>3. i \in DOMAIN value[o][r]
      BY <2>1, <3>2 DEF Bound
    <3>4. Bound(T)[o][r][i] = IF to = {} THEN ref ELSE Ref(ref.uid, (CHOOSE t \in to : TRUE)[1])
      BY <2>1, <3>3 DEF Bound
    <3> QED BY <3>1, <3>3, <3>4
  <2>3. CASE to = {}
    <3>1. ref.obj \in Address /\ <<o, r>> \in rcr[ref.obj] /\ value'[o][r][i].obj = ref.obj
      BY <1>4, <2>1, <2>2, <2>3, PointerIsLive DEF HasParent
    <3> QED BY <3>1, <1>2
  <2>4. CASE to # {}
    <3> DEFINE t == CHOOSE t \in to : TRUE
    <3>1. t \in to
      BY <2>4
    <3>2. value'[o][r][i].obj = t[1]
      BY <2>2, <2>4 DEF Ref
    <3> HIDE DEF t
    <3>3. t \in T /\ t[1] \in Address /\ t[2] = o /\ t[3] = r
      BY <3>1, <1>1 DEF Resolvable, Triple
    <3>4. <<t[2], t[3]>> \in rcr'[t[1]]
      BY <3>3, <1>2
    <3> QED BY <3>2, <3>3, <3>4
  <2> QED BY <2>3, <2>4
<1> QED BY <1>2, <1>3, <1>4 DEF HasParent

\* A call is over: of the files that are known the objects had settled.
LEMMA PartsCallEnds ==
    ASSUME ReadInv, PartsInv, NEW known \in BOOLEAN,
           UNCHANGED <<setup, live, uid, file>>, pc' = "idle", pool' = {}, live \cap pool = {},
           reader' = [f \in File |-> NoReader],
           \A f \in File : reader[f].pc \in {"done", "wait", "failed"},
           \A f \in File : seen'[f] # Unknown => known /\ (reader[f].pc = "done" \/ seen[f] # Unknown),
           DOMAIN rcr' = Address, OneParent(rcr'),
           known => \A o \in live, r \in setup.composite :
                HasParent(rcr, value[o][r], o, r) => HasParent(rcr', value'[o][r], o, r)
    PROVE  PartsInv'
<1>1. File' = File /\ \A f \in File : reader'[f] = NoReader
  BY SetupSame
<1>2. \A f \in File : reader'[f].pc = "wait" /\ ~InBody(f)' /\ ~Reading(f)' /\ Owner(f) = Null
  BY <1>1, NoOwners DEF NoReader, InBody, Reading
<1>3. Null \notin Address
  BY GetObjectParts DEF ReadInv
<1>4. SettledKnown'
  <2> SUFFICES ASSUME NEW o \in Address, Settled(o)', NEW r \in setup.composite
               PROVE  HasParent(rcr', value'[o][r], o, r)
    BY DEF SettledKnown
  <2>1. o \in live /\ file[o] \in File /\ file'[o] = file[o]
    BY DEF Settled, PartsInv
  <2>2. seen'[file[o]] # Unknown
    BY <1>2, <2>1 DEF Settled
  <2>3. known /\ Settled(o)
    BY <1>2, <1>3, <2>1, <2>2 DEF Settled
  <2> QED BY <2>1, <2>3 DEF PartsInv, SettledKnown
<1>5. (\A o \in live' : file'[o] \in File') /\ OneAtWork' /\ OneParent(rcr)'
  BY <1>1, <1>2 DEF PartsInv, OneAtWork, OneParent
<1> QED BY <1>1, <1>2, <1>4, <1>5 DEF PartsInv

LEMMA PartsEndLoad ==
    ASSUME ReadInv, PartsInv, NEW succeeds \in BOOLEAN, EndLoad(succeeds)
    PROVE  PartsInv'
<1>1. /\ pool = {} /\ pool' = {} /\ pc' = "idle" /\ reader' = [f \in File |-> NoReader]
      /\ UNCHANGED <<setup, live, uid, file>>
      /\ \A f \in File : reader[f].pc \in {"done", "failed"}
  BY DEF EndLoad, Loading, ReadInv, PhaseOK
<1>2. /\ DOMAIN rcr' = Address /\ OneParent(rcr')
      /\ succeeds => /\ \A f \in File : reader[f].pc # "failed"
                     /\ \A o \in live, r \in setup.composite :
                          HasParent(rcr, value[o][r], o, r) => HasParent(rcr', value'[o][r], o, r)
  <2>1. CASE \E f \in File : reader[f].pc = "failed"
    BY <2>1 DEF EndLoad, PartsInv
  <2>2. CASE ~\E f \in File : reader[f].pc = "failed"
    BY <1>1, <2>2, BindTellsParts DEF EndLoad
  <2> QED BY <2>1, <2>2
<1>3. \A f \in File : seen'[f] # Unknown => succeeds /\ reader[f].pc = "done"
  BY <1>1, <1>2 DEF EndLoad, Seen
<1> QED BY <1>1, <1>2, <1>3, PartsCallEnds

LEMMA PartsEndReload ==
    ASSUME ReadInv, PartsInv, NEW succeeds \in BOOLEAN, EndReload(succeeds)
    PROVE  PartsInv'
<1>1. /\ pool \cap live = {} /\ pool' = {} /\ pc' = "idle" /\ reader' = [f \in File |-> NoReader]
      /\ UNCHANGED <<setup, live, uid, file>>
      /\ \A f \in File : reader[f].pc \in {"done", "wait"}
  BY DEF EndReload, ReadInv, PhaseOK
<1>2. PICK binds \in BOOLEAN : Bind(binds) /\ (succeeds => binds)
  <2>1. Bind(succeeds) \/ (~succeeds /\ Bind(TRUE))
    BY DEF EndReload
  <2>2. CASE Bind(succeeds)
    BY <2>2, Zenon
  <2>3. CASE ~succeeds /\ Bind(TRUE)
    <3>1. TRUE \in BOOLEAN
      OBVIOUS
    <3> QED BY <2>3, <3>1, Zenon
  <2> QED BY <2>1, <2>2, <2>3
<1>3. /\ DOMAIN rcr' = Address /\ OneParent(rcr')
      /\ binds => \A o \in live, r \in setup.composite :
                    HasParent(rcr, value[o][r], o, r) => HasParent(rcr', value'[o][r], o, r)
  BY <1>1, <1>2, BindTellsParts
<1>4. \A f \in File : seen'[f] # Unknown => succeeds /\ (reader[f].pc = "done" \/ seen[f] # Unknown)
  BY DEF EndReload, Seen
<1>5. \A f \in File : seen'[f] # Unknown => binds /\ (reader[f].pc = "done" \/ seen[f] # Unknown)
  BY <1>2, <1>4
<1> QED BY <1>1, <1>3, <1>5, PartsCallEnds

\* Lists that only lose entries give no part two parents.
LEMMA FewerParents ==
    ASSUME NEW L, OneParent(L), NEW M, \A c \in Address : M[c] \subseteq L[c]
    PROVE  OneParent(M)
BY DEF OneParent

\* A reload takes their parents from parts: from the parts of objects that it is
\* going to read again.
LEMMA PartsReloadData ==
    ASSUME ReadInv, PartsInv, NEW F \in SUBSET File, ReloadData(F)
    PROVE  PartsInv'
<1> DEFINE P == {o \in live : file[o] \in F}
<1>1. /\ UNCHANGED <<live, uid, file, value, setup, disk>> /\ pc = "idle" /\ pc' = "reload" /\ pool' = P
      /\ rcr' = WithoutExclusive(P) /\ Seen(F, FALSE)
      /\ reader' = [f \in File |-> IF f \in F THEN [NoReader EXCEPT !.pc = "header"] ELSE NoReader]
      /\ File' = File /\ pool = {}
  BY SetupSame DEF ReloadData, Idle, ReadInv, PhaseOK
<1>2. [NoReader EXCEPT !.pc = "header"].pc = "header" /\ NoReader.pc = "wait"
  BY DEF NoReader
<1>3. \A f \in File : /\ reader'[f].pc = IF f \in F THEN "header" ELSE "wait"
                      /\ seen'[f] = IF f \in F THEN Unknown ELSE seen[f]
                      /\ ~InBody(f)' /\ Owner(f) = Null
  <2>1. \A f \in File : reader[f].pc = "wait"
    BY <1>1 DEF ReadInv, PhaseOK
  <2>2. \A f \in File : Owner(f) = Null
    BY <2>1, NoOwners
  <2> QED BY <1>1, <1>2, <2>2 DEF Seen, InBody
<1>4. DOMAIN rcr' = Address /\ \A c \in Address : rcr'[c] \subseteq rcr[c] /\ \A q \in rcr[c] : q[1] \notin P => q \in rcr'[c]
  BY <1>1 DEF WithoutExclusive
<1> HIDE DEF P
<1>5. SettledKnown'
  <2> SUFFICES ASSUME NEW o \in Address, Settled(o)', NEW r \in setup.composite
               PROVE  HasParent(rcr', value[o][r], o, r)
    BY <1>1 DEF SettledKnown
  <2>1. o \in live /\ o \notin P /\ file[o] \in File
    BY <1>1 DEF Settled, PartsInv
  <2>2. seen[file[o]] # Unknown
    <3>1. file[o] \notin F
      BY <2>1 DEF P
    <3> QED BY <3>1, <2>1, <1>1, <1>3 DEF Settled
  <2>3. Settled(o) /\ Held(o)
    <3>1. Null \notin Address
      BY GetObjectParts DEF ReadInv
    <3> QED BY <3>1, <1>1, <1>3, <2>1, <2>2 DEF Settled, Held
  <2>4. HasParent(rcr, value[o][r], o, r)
    BY <2>3 DEF PartsInv, SettledKnown
  <2>5. \A i \in DOMAIN value[o][r] : value[o][r][i].obj # Null => value[o][r][i].obj \in Address
    BY <2>3, PointerIsLive
  <2>6. \A c \in Address : <<o, r>> \in rcr[c] => <<o, r>> \in rcr'[c]
    BY <1>4, <2>1
  <2> QED BY <2>4, <2>5, <2>6 DEF HasParent
<1>6. OneParent(rcr') /\ OneAtWork'
  BY <1>1, <1>3, <1>4, FewerParents DEF PartsInv, OneAtWork, Loading
<1> QED BY <1>1, <1>3, <1>4, <1>5, <1>6 DEF PartsInv, OneParent

\* Pointers to the objects that are not in the files any more become names.
LEMMA PartsRemoveOthers ==
    ASSUME ReadInv, PartsInv, RemoveOthers
    PROVE  PartsInv'
<1>1. /\ UNCHANGED <<setup, disk, live, uid, file, rcr, reader, pool, seen>> /\ pc' = "remove" /\ File' = File
      /\ value' = Unbound(pool) /\ \A f \in File : reader[f].pc \in {"done", "wait"}
  BY SetupSame DEF RemoveOthers
<1>2. \A f \in File : ~InBody(f)'
  BY <1>1 DEF InBody
<1>3. SettledKnown'
  <2> SUFFICES ASSUME NEW o \in Address, Settled(o)', NEW r \in setup.composite,
                      NEW i \in DOMAIN value'[o][r], value'[o][r][i].obj # Null
               PROVE  <<o, r>> \in rcr[value'[o][r][i].obj]
    BY <1>1 DEF SettledKnown, HasParent
  <2>1. Settled(o) /\ r \in Rel
    BY <1>1, SetupSets DEF Settled, Owner, ReadInv, StateOK
  <2>2. HasParent(rcr, value[o][r], o, r)
    BY <2>1 DEF PartsInv, SettledKnown
  <2> DEFINE ref == value[o][r][i]
  <2>3. i \in DOMAIN Unbound(pool)[o][r] /\ Unbound(pool)[o][r][i].obj # Null
    BY <1>1
  <2>4. i \in DOMAIN value[o][r]
    BY <2>1, <2>3 DEF Unbound
  <2>5. Unbound(pool)[o][r][i] = IF o \in live /\ ref.obj \in pool THEN Ref(ref.uid, Null) ELSE ref
    BY <2>1, <2>4 DEF Unbound
  <2>6. value'[o][r][i] = ref
    <3>1. Ref(ref.uid, Null).obj = Null
      BY DEF Ref
    <3> QED BY <3>1, <2>3, <2>5, <1>1
  <2> QED BY <2>2, <2>4, <2>6 DEF HasParent
<1>4. (\A o \in live' : file'[o] \in File') /\ OneAtWork' /\ DOMAIN rcr' = Address /\ OneParent(rcr)'
  BY <1>1, <1>2 DEF PartsInv, OneAtWork, Loading, OneParent
<1> QED BY <1>1, <1>2, <1>3, <1>4 DEF PartsInv

\* An object is deleted: its parts lose it, and nobody points to it.
LEMMA PartsDelete ==
    ASSUME ReadInv, PartsInv, NEW o \in Address, DeleteObject(o)
    PROVE  PartsInv'
<1> DEFINE parts(r) == (Pointers(value[o][r]) \cap live) \ {o}
           lost(c) == {<<o, r>> : r \in {q \in setup.composite : c \in parts(q)}}
           lists == [c \in Address |-> rcr[c] \ lost(c)]
<1>1. /\ UNCHANGED <<setup, disk, pc, reader, pool, seen>> /\ pc = "remove" /\ o \in doomed /\ File' = File
      /\ live' = live \ {o} /\ value' = [value EXCEPT ![o] = NoValue] /\ file' = [file EXCEPT ![o] = None]
      /\ rcr' = [lists EXCEPT ![o] = {}]
  BY SetupSame DEF DeleteObject
<1>2. \A c \in Address : lists[c] \subseteq rcr[c] /\ \A q \in rcr[c] : q[1] # o => q \in lists[c]
  OBVIOUS
<1>3. DOMAIN lists = Address
  OBVIOUS
<1> HIDE DEF lists, parts, lost
<1>4. /\ DOMAIN rcr' = Address /\ rcr'[o] = {} /\ \A c \in Address \ {o} : rcr'[c] = lists[c]
      /\ \A a \in Address \ {o} : value'[a] = value[a] /\ file'[a] = file[a]
  BY <1>1, <1>3 DEF ReadInv, StateOK
<1>5. NoneToDoomed /\ (\A f \in File : reader[f].pc \in {"done", "wait"}) /\ live \subseteq Address
  BY <1>1 DEF ReadInv, PhaseOK, StateOK
<1>6. \A f \in File : ~InBody(f)'
  BY <1>1, <1>5 DEF InBody
<1>7. SettledKnown'
  <2> SUFFICES ASSUME NEW a \in Address, Settled(a)', NEW r \in setup.composite
               PROVE  HasParent(rcr', value'[a][r], a, r)
    BY <1>1 DEF SettledKnown
  <2>1. a \in live /\ a # o /\ r \in Rel
    BY <1>1, SetupSets DEF Settled, ReadInv, StateOK
  <2>2. Settled(a) /\ Held(a) /\ value'[a] = value[a]
    BY <2>1, <1>1, <1>4 DEF Settled, Held, Owner
  <2>3. HasParent(rcr, value[a][r], a, r)
    BY <2>2 DEF PartsInv, SettledKnown
  <2>4. \A i \in DOMAIN value[a][r] : value[a][r][i].obj # Null => value[a][r][i].obj \in Address
    BY <2>2, PointerIsLive
  <2>5. \A i \in DOMAIN value[a][r] : value[a][r][i].obj # o
    BY <2>1, <1>1, <1>5 DEF NoneToDoomed
  <2>6. \A c \in Address \ {o} : <<a, r>> \in rcr[c] => <<a, r>> \in rcr'[c]
    BY <1>2, <1>4, <2>1
  <2> QED BY <2>2, <2>3, <2>4, <2>5, <2>6 DEF HasParent
<1>8. \A c \in Address : rcr'[c] \subseteq rcr[c]
  BY <1>2, <1>4
<1>9. (\A a \in live' : file'[a] \in File') /\ OneAtWork' /\ OneParent(rcr)'
  <2>1. OneParent(rcr')
    BY <1>8, FewerParents DEF PartsInv
  <2>2. \A a \in live' : file'[a] \in File'
    BY <1>1, <1>4, <1>5 DEF PartsInv
  <2> QED BY <2>1, <2>2, <1>1, <1>6 DEF OneAtWork, Loading, OneParent
<1> QED BY <1>1, <1>4, <1>6, <1>7, <1>9 DEF PartsInv

LEMMA PartsInit == Init => PartsInv
<1> SUFFICES ASSUME Init PROVE PartsInv
  OBVIOUS
<1>1. /\ live = {} /\ DOMAIN rcr = Address /\ (\A c \in Address : rcr[c] = {}) /\ pc = "new"
      /\ \A f \in File : reader[f] = NoReader
  BY DEF Init
<1>2. \A f \in File : ~InBody(f)
  BY <1>1 DEF NoReader, InBody
<1> QED BY <1>1, <1>2 DEF PartsInv, OneAtWork, Loading, OneParent, SettledKnown, Settled

\* Every step of one thread keeps what the parts know.
LEMMA NextPartsInv == ReadInv /\ PartsInv /\ OneThread /\ [Next]_vars => PartsInv'
<1> SUFFICES ASSUME ReadInv, PartsInv, OneThread, [Next]_vars PROVE PartsInv'
  OBVIOUS
<1>1. ASSUME NEW f \in File, pc \in {"load", "reload"}, ReadObject(f), \A g \in File \ {f} : ~InBody(g)
      PROVE  PartsInv'
  <2>1. CASE ReadHeader(f)
    BY <1>1, <2>1, PartsHeader
  <2>2. CASE ReadReference(f)
    BY <1>1, <2>2, PartsReference
  <2>3. CASE AddRcr(f)
    BY <1>1, <2>3, PartsAdd
  <2>4. CASE EndRelationship(f)
    BY <1>1, <2>4, PartsRelationship
  <2>5. CASE EndObject(f)
    BY <1>1, <2>5, PartsObject
  <2>6. CASE EndFile(f)
    BY <2>6, PartsEndFile
  <2> QED BY <1>1, <2>1, <2>2, <2>3, <2>4, <2>5, <2>6 DEF ReadObject
<1>2. ASSUME NEW f \in File, ReloadFile(f) PROVE PartsInv'
  <2>1. [NoReader EXCEPT !.pc = "header"].pc = "header"
    BY DEF NoReader
  <2>2. pc = "reload" /\ ReadObject(f) /\ \A g \in File \ {f} : ~InBody(g)
    BY <1>2, <2>1 DEF ReloadFile, InBody, Reading
  <2> QED BY <1>1, <2>2
<1>3. ASSUME NEW f \in File, Loading, ReadObject(f) PROVE PartsInv'
  <2>1. Reading(f)
    BY <1>3 DEF ReadObject, ReadHeader, ReadReference, InRelationship, AddRcr, EndRelationship, EndObject, EndFile, Reading
  <2>2. \A g \in File \ {f} : ~InBody(g)
    BY <1>3, <2>1 DEF PartsInv, OneAtWork, InBody, Reading
  <2> QED BY <1>1, <1>3, <2>2 DEF Loading
<1>4. CASE UNCHANGED vars
  <2>1. UNCHANGED <<setup, disk, live, uid, file, value, rcr, reader, pool, seen, pc>> /\ File' = File
    BY <1>4, SetupSame DEF vars, objectVars, reloadVars
  <2>2. OneAtWork'
    BY <2>1 DEF PartsInv, OneAtWork, InBody, Reading, Loading
  <2>3. \A o \in Address : Settled(o)' => Settled(o)
    BY <2>1 DEF Settled, Owner
  <2> QED BY <2>1, <2>2, <2>3, PartsQuiet
<1>5. ASSUME NEW f \in File, StartJob(f) \/ Edit(f) PROVE PartsInv'
  BY <1>5, PartsStartJob, PartsEdit
<1> QED
  BY <1>2, <1>3, <1>4, <1>5, PartsLoadData, PartsRemoveOthers, PartsReloadData, PartsDelete, PartsEndLoad, PartsEndReload DEF Next

-----------------------------------------------------------------------------
(* Loads by one thread *)

LoadsOnly == setup.reloads = 0

\* A load that has not failed, so far or at all.
NoFailure == IF Idle THEN AllSeen ELSE \A f \in File : reader[f].pc # "failed"

\* An object that is being read is new: nobody is its parent, and what is not
\* read of it yet is empty.
NewObject(f) ==
    /\ Owner(f) \notin live /\ rcr[Owner(f)] = {}
    /\ \A m, n \in DOMAIN reader[f].rels : reader[f].rels[m] = reader[f].rels[n] => m = n
    /\ \A r \in Rel : Left(f, r) => value[Owner(f)][r] = <<>>
    /\ reader[f].pc = "add" => Current(f) \in setup.composite

\* The ids of the objects are their own in the hierarchy, and so is the one that
\* is being read.
IdsSound ==
    /\ \A o \in live : PlainName(uid[o])
    /\ \A o, p \in live : uid[o][2] = uid[p][2] => o = p
    /\ \A f \in File : InBody(f) => PlainName(uid[Owner(f)]) /\ ~SameId(uid[Owner(f)])

\* Object p has a pointer to c by relationship r, or is going to have it.
IsRead(f, r, c) == reader[f].rels # <<>> /\ Current(f) = r /\ c \in Pointers(reader[f].acc)
Refers(p, r, c) ==
    \/ p \in Address /\ Held(p) /\ c \in Pointers(value[p][r])
    \/ \E f \in File : InBody(f) /\ Owner(f) = p /\ IsRead(f, r, c)
ParentsSound ==
    \A c \in live : \A q \in rcr[c] : q = <<q[1], q[2]>> /\ q[2] \in setup.composite /\ Refers(q[1], q[2], c)

LoadInv ==
    /\ pc \in {"new", "load", "idle"} /\ test = setup.test
    /\ \A f \in File : InBody(f) => NewObject(f)
    /\ setup.test /\ ~setup.allow => IdsSound
    /\ NoFailure => ParentsSound

\* What the assumption says of names and of the relationships of a class.
LEMMA SetupNames ==
    ASSUME setup \in Setups
    PROVE  /\ \A m, n \in DOMAIN setup.rels : setup.rels[m] = setup.rels[n] => m = n
           /\ \A f \in File : \A c \in setup.content[f] : \A i \in DOMAIN c : PlainName(c[i].uid)
<1>1. \A u \in Setups : \A m, n \in DOMAIN u.rels : u.rels[m] = u.rels[n] => m = n
  BY ObjectsAssumption
<1>2. \A u \in Setups : \A f \in DOMAIN u.content : \A c \in u.content[f] : \A i \in DOMAIN c :
          PlainName(c[i].uid)
  BY ObjectsAssumption
<1> QED BY <1>1, <1>2 DEF File

\* The name that is read is the one in the file.
LEMMA EntryName ==
    ASSUME ReadInv, NEW f \in File, reader[f].at \in 1 .. Len(disk[f])
    PROVE  PlainName(Entry(f).uid)
<1>1. disk[f] \in setup.content[f] /\ setup \in Setups
  BY DEF ReadInv, StateOK
<1>2. reader[f].at \in DOMAIN disk[f]
  BY <1>1, SetupParts
<1> QED BY <1>1, <1>2, SetupNames DEF Entry

\* Objects stay in their places while no reader goes on in one.
LEMMA LoadsQuiet ==
    ASSUME ReadInv, LoadInv, UNCHANGED <<setup, live, uid, value, rcr, test>>,
           pc' \in {"new", "load", "idle"}, NoFailure' => NoFailure,
           \A f \in File : Owner(f)' = Owner(f) /\ (InBody(f)' <=> InBody(f)),
           \A f \in File : InBody(f) => reader'[f] = reader[f]
    PROVE  LoadInv'
<1>1. File' = File /\ Rel' = Rel
  BY SetupSame
<1>2. ASSUME NEW f \in File, InBody(f)' PROVE NewObject(f)'
  <2>1. NewObject(f) /\ reader'[f] = reader[f] /\ Owner(f)' = Owner(f)
    BY <1>2 DEF LoadInv
  <2>2. \A r : Left(f, r)' <=> Left(f, r)
    BY <2>1 DEF Left
  <2>3. Current(f)' = Current(f)
    BY <2>1 DEF Current
  <2> QED BY <1>1, <2>1, <2>2, <2>3 DEF NewObject
<1>3. IdsSound => IdsSound'
  BY <1>1 DEF IdsSound, SameId
<1>4. \A p, r, c : Refers(p, r, c) => Refers(p, r, c)'
  <2>1. \A p : Held(p)' <=> Held(p)
    BY <1>1 DEF Held
  <2>2. \A f \in File : \A r, c : InBody(f) /\ IsRead(f, r, c) => IsRead(f, r, c)'
    BY DEF IsRead, Current
  <2> QED BY <1>1, <2>1, <2>2 DEF Refers
<1>5. ParentsSound => ParentsSound'
  BY <1>4 DEF ParentsSound
<1> QED BY <1>1, <1>2, <1>3, <1>5 DEF LoadInv

\* A job fails: nothing is claimed of the parents any more.
LEMMA LoadsFailing ==
    ASSUME ReadInv, LoadInv, NEW f \in File, \A g \in File \ {f} : ~InBody(g), Loading,
           UNCHANGED <<setup, live, uid, rcr, pc, test>>,
           reader' = [reader EXCEPT ![f] = [NoReader EXCEPT !.pc = "failed"]]
    PROVE  LoadInv'
<1>1. File' = File /\ DOMAIN reader = File
  BY SetupSame DEF ReadInv, StateOK
<1>2. reader'[f].pc = "failed"
  BY <1>1 DEF NoReader
<1>3. ~NoFailure' /\ \A g \in File : ~InBody(g)'
  <2>1. \A g \in File \ {f} : reader'[g] = reader[g]
    BY <1>1
  <2> QED BY <1>1, <1>2, <2>1 DEF NoFailure, Idle, Loading, InBody
<1>4. IdsSound => IdsSound'
  BY <1>1, <1>3 DEF IdsSound, SameId
<1> QED BY <1>1, <1>3, <1>4 DEF LoadInv, Loading

\* Reader f goes on inside its object.
LEMMA LoadsBody ==
    ASSUME ReadInv, LoadInv, NEW f \in File, \A g \in File \ {f} : ~InBody(g), Loading,
           InBody(f), InBody(f)', Owner(f)' = Owner(f), reader[f].pc # "failed", reader'[f].pc # "failed",
           UNCHANGED <<setup, live, uid, pc, test>>,
           \A g \in File \ {f} : reader'[g] = reader[g],
           \A o \in Address \ {Owner(f)} : value'[o] = value[o],
           NewObject(f)',
           \A r \in setup.composite, c \in live :
               (c \in Pointers(value[Owner(f)][r]) \/ IsRead(f, r, c))
                 => (c \in Pointers(value'[Owner(f)][r]) \/ IsRead(f, r, c)'),
           \A c \in live : \A q \in rcr'[c] :
               q \in rcr[c] \/ (q = <<Owner(f), q[2]>> /\ q[2] \in setup.composite /\ IsRead(f, q[2], c)')
    PROVE  LoadInv'
<1>1. File' = File /\ live \subseteq Address
  BY SetupSame DEF ReadInv, StateOK
<1>2. \A g \in File : (InBody(g)' <=> InBody(g)) /\ Owner(g)' = Owner(g)
  <2> TAKE g \in File
  <2>1. CASE g = f
    BY <2>1
  <2>2. CASE g # f
    BY <2>2 DEF InBody, Owner
  <2> QED BY <2>1, <2>2
<1>3. IdsSound => IdsSound'
  BY <1>1, <1>2 DEF IdsSound, SameId
<1>4. NoFailure' => NoFailure
  BY <1>1 DEF NoFailure, Idle, Loading
<1>5. ASSUME NEW p, NEW r \in setup.composite, NEW c \in live, Refers(p, r, c) PROVE Refers(p, r, c)'
  <2>1. Held(p)' <=> Held(p)
    BY <1>1, <1>2 DEF Held
  <2>2. CASE p = Owner(f)
    <3>1. \A g \in File : InBody(g) => g = f
      OBVIOUS
    <3>2. c \in Pointers(value[p][r]) \/ IsRead(f, r, c)
      BY <1>5, <2>2, <3>1 DEF Refers
    <3>3. c \in Pointers(value'[p][r]) \/ IsRead(f, r, c)'
      BY <2>2, <3>2
    <3>4. p \in Address /\ Held(p)
      BY <2>2, BodyParts DEF Held
    <3>5. Owner(f)' = p
      BY <2>2
    <3>6. CASE c \in Pointers(value'[p][r])
      <4>1. p \in Address /\ Held(p)' /\ c \in Pointers(value[p][r])'
        BY <2>1, <3>4, <3>6 DEF Pointers
      <4> QED BY <4>1 DEF Refers
    <3>7. CASE IsRead(f, r, c)'
      BY <3>5, <3>7, <1>1 DEF Refers
    <3> QED BY <3>3, <3>6, <3>7
  <2>3. CASE p # Owner(f)
    <3>1. p \in Address /\ Held(p) /\ c \in Pointers(value[p][r])
      BY <1>5, <2>3 DEF Refers
    <3>2. value'[p] = value[p]
      BY <2>3, <3>1
    <3> QED BY <2>1, <3>1, <3>2 DEF Refers, Pointers
  <2> QED BY <2>2, <2>3
<1>6. ParentsSound => ParentsSound'
  <2> SUFFICES ASSUME ParentsSound, NEW c \in live, NEW q \in rcr'[c]
               PROVE  q = <<q[1], q[2]>> /\ q[2] \in setup.composite /\ Refers(q[1], q[2], c)'
    BY DEF ParentsSound
  <2>1. CASE q \in rcr[c]
    BY <2>1, <1>5 DEF ParentsSound
  <2>2. CASE q \notin rcr[c]
    <3>1. q = <<Owner(f), q[2]>> /\ q[2] \in setup.composite /\ IsRead(f, q[2], c)'
      BY <2>2
    <3>2. q[1] = Owner(f)
      BY <3>1
    <3>3. Refers(q[1], q[2], c)'
      BY <3>1, <3>2, <1>1 DEF Refers
    <3> QED BY <3>1, <3>2, <3>3
  <2> QED BY <2>1, <2>2
<1> QED BY <1>1, <1>2, <1>3, <1>4, <1>6 DEF LoadInv

\* A new object begins, of an id that no other has.
LEMMA LoadsHeader ==
    ASSUME ReadInv, PartsInv, LoadInv, NEW f \in File, \A g \in File \ {f} : ~InBody(g), Loading, ReadHeader(f)
    PROVE  LoadInv'
<1>0. PICK u : u = Entry(f).uid
  OBVIOUS
<1> DEFINE again == {o \in pool : uid[o] = u}
<1>1. /\ reader[f].pc = "header" /\ reader[f].at <= Len(disk[f]) /\ UNCHANGED <<setup, disk, seen>> /\ pc = "load"
      /\ \A g \in File : ~InBody(g)
  BY DEF ReadHeader, Loading, InBody
<1>2. /\ again = {} /\ File' = File /\ Rel' = Rel /\ Null \notin Address /\ live \subseteq Address
      /\ DOMAIN reader = File /\ IsReader(reader[f]) /\ DOMAIN value = Address /\ DOMAIN rcr = Address
      /\ DOMAIN uid = Address
  <2>1. pool = {} /\ Null \notin Address /\ File' = File /\ Rel' = Rel
    BY <1>1, SetupSame, GetObjectParts DEF ReadInv, PhaseOK
  <2> QED BY <2>1 DEF ReadInv, PartsInv, StateOK, ReadersOK, ReaderOK
<1>3. PlainName(u)
  <2>1. Len(disk[f]) \in Nat /\ reader[f].at \in 1 .. Len(disk[f]) + 1
    BY <1>1, SetupParts DEF ReadInv, StateOK, ReadersOK, ReaderOK
  <2> QED BY <1>0, <1>1, <2>1, EntryName
<1>4. CASE Refused(u) /\ Fail(f, TRUE) /\ UNCHANGED objectVars
  BY <1>1, <1>4, LoadsFailing DEF Fail, Loading, objectVars
<1>5. ASSUME NEW a \in Address, ~InUse(a), ~Refused(u), uid' = [uid EXCEPT ![a] = IF GetObject(u) # Null THEN UniqueId(u) ELSE u],
             value' = [value EXCEPT ![a] = NoValue], rcr' = [rcr EXCEPT ![a] = {}], reader' = Body(f, a),
             UNCHANGED <<live, pc, test>>
      PROVE  LoadInv'
  <2> DEFINE old == reader[f]
             x == [pc |-> "body", at |-> old.at, obj |-> a, rels |-> setup.rels, acc |-> <<>>,
                   fresh |-> old.fresh, update |-> FALSE]
  <2>1. Becomes(reader', reader, f, x)
    <3>1. f \in DOMAIN reader /\ IsReader(reader[f]) /\ reader' = Body(f, a)
      BY <1>2, <1>5
    <3> QED BY <3>1, ReaderBecomes DEF Body
  <2>2. x.pc = "body" /\ x.obj = a /\ x.rels = setup.rels /\ x.acc = <<>>
    OBVIOUS
  <2> HIDE DEF x
  <2>3. reader'[f] = x /\ Owner(f)' = a /\ InBody(f)' /\ \A g \in File \ {f} : reader'[g] = reader[g] /\ ~InBody(g)'
    BY <1>1, <1>2, <2>1, <2>2 DEF Becomes, Owner, InBody
  <2>4. a \notin live /\ value'[a] = NoValue /\ \A b \in Address \ {a} : value'[b] = value[b] /\ uid'[b] = uid[b]
    BY <1>2, <1>5 DEF InUse
  <2>5. rcr'[a] = {} /\ \A b \in Address \ {a} : rcr'[b] = rcr[b]
    BY <1>2, <1>5
  <2>6. NewObject(f)'
    <3>1. \A m, n \in DOMAIN setup.rels : setup.rels[m] = setup.rels[n] => m = n
      BY SetupNames DEF ReadInv, StateOK
    <3>2. \A r \in Rel : value'[a][r] = <<>>
      BY <2>4 DEF NoValue
    <3> QED BY <3>1, <3>2, <1>2, <1>5, <2>2, <2>3, <2>4, <2>5 DEF NewObject
  <2>7. ASSUME setup.test, ~setup.allow PROVE IdsSound'
    <3>1. IdsSound /\ test
      BY <2>7 DEF LoadInv
    <3>2. uid'[a] = u /\ ~SameId(u)
      BY <1>2, <1>5, <2>7, <3>1 DEF Refused
    <3>3. \A o \in live : uid'[o] = uid[o]
      BY <1>2, <2>4
    <3>4. ~SameId(u)'
      BY <1>5, <3>2, <3>3 DEF SameId
    <3>5. \A g \in File : InBody(g)' => PlainName(uid'[Owner(g)']) /\ ~SameId(uid[Owner(g)])'
      <4>1. \A g \in File : InBody(g)' => g = f
        BY <2>3
      <4>2. uid'[Owner(f)'] = u
        BY <2>3, <3>2
      <4>3. SameId(uid[Owner(f)])' <=> SameId(u)'
        BY <4>2, <3>3, <1>5 DEF SameId
      <4> QED BY <4>1, <4>2, <4>3, <1>3, <3>4
    <3>6. /\ \A o \in live' : PlainName(uid'[o])
          /\ \A o, b \in live' : uid'[o][2] = uid'[b][2] => o = b
      BY <1>5, <3>1, <3>3 DEF IdsSound
    <3> QED BY <3>5, <3>6, <1>2 DEF IdsSound
  <2>8. ASSUME NoFailure' PROVE ParentsSound'
    <3>1. NoFailure
      <4>1. \A g \in File : reader[g].pc # "failed"
        BY <2>8, <1>1, <1>2, <1>5, <2>3 DEF NoFailure, Idle
      <4> QED BY <4>1, <1>1 DEF NoFailure, Idle
    <3>2. ASSUME NEW b, NEW r, NEW c, Refers(b, r, c) PROVE Refers(b, r, c)'
      <4>1. b \in Address /\ Held(b) /\ c \in Pointers(value[b][r])
        BY <1>1, <3>2 DEF Refers
      <4>2. b \in live
        <5>1. \A g \in File : Owner(g) = Null
          BY <1>1 DEF ReadInv, ReadersOK, ReaderOK
        <5> QED BY <5>1, <1>2, <4>1 DEF Held
      <4>3. value'[b] = value[b]
        BY <2>4, <4>1, <4>2
      <4>4. Held(b)'
        BY <1>5, <4>2 DEF Held
      <4> QED BY <4>1, <4>3, <4>4 DEF Refers, Pointers
    <3>3. \A c \in live : rcr'[c] = rcr[c]
      BY <1>2, <2>4, <2>5
    <3>4. ParentsSound /\ live' = live /\ setup' = setup
      BY <1>1, <1>5, <3>1 DEF LoadInv
    <3> QED BY <3>2, <3>3, <3>4 DEF ParentsSound
  <2> QED BY <1>1, <1>2, <1>5, <2>3, <2>6, <2>7, <2>8 DEF LoadInv
<1> QED BY <1>0, <1>2, <1>4, <1>5 DEF ReadHeader

\* One more reference, and what it leads to.
LEMMA PointersAppend ==
    ASSUME NEW v, IsSequence(v), NEW u, NEW o
    PROVE  /\ Pointers(v) \subseteq Pointers(Append(v, Ref(u, o)))
           /\ o # Null => o \in Pointers(Append(v, Ref(u, o)))
<1> DEFINE w == Append(v, Ref(u, o))
<1>1. IsSequence(w) /\ Len(w) = Len(v) + 1 /\ (\A i \in 1 .. Len(v) : w[i] = v[i]) /\ w[Len(v) + 1] = Ref(u, o)
  BY AppendParts
<1>2. DOMAIN w = 1 .. Len(v) + 1 /\ DOMAIN v = 1 .. Len(v) /\ Len(v) \in Nat
  BY <1>1, SeqParts
<1> HIDE DEF w
<1>3. Len(v) + 1 \in DOMAIN w /\ \A i \in DOMAIN v : i \in DOMAIN w /\ w[i] = v[i]
  BY <1>1, <1>2
<1>4. Ref(u, o).obj = o
  BY DEF Ref
<1> QED BY <1>1, <1>3, <1>4 DEF Pointers, w

\* A reader takes a reference to an object that has the parent in its list.
LEMMA LoadsAccept ==
    ASSUME ReadInv, PartsInv, LoadInv, NEW f \in File, \A g \in File \ {f} : ~InBody(g), Loading, InBody(f),
           reader[f].rels # <<>>, NEW u, NEW o, reader' = Accept(f, Ref(u, o)),
           UNCHANGED <<live, uid, value, pc, test, setup>>,
           rcr'[Owner(f)] = {},
           \A c \in live : \A q \in rcr'[c] :
               q \in rcr[c] \/ (c = o /\ q = <<Owner(f), Current(f)>> /\ Current(f) \in setup.composite)
    PROVE  LoadInv'
<1>1. /\ InBody(f)' /\ reader'[f].pc = "body" /\ reader'[f].obj = reader[f].obj
      /\ reader'[f].rels = reader[f].rels /\ reader'[f].acc = Append(reader[f].acc, Ref(u, o))
      /\ \A g \in File \ {f} : reader'[g] = reader[g]
  BY ReaderAccepts
<1>2. Owner(f)' = Owner(f) /\ Current(f)' = Current(f) /\ (\A s : Left(f, s)' <=> Left(f, s)) /\ Rel' = Rel
  BY <1>1, SetupSame DEF Owner, Current, Left
<1>3. reader[f].pc # "failed" /\ reader'[f].pc # "failed" /\ reader'[f].pc # "add"
  BY <1>1 DEF InBody
<1>4. NewObject(f)'
  <2>1. NewObject(f)
    BY DEF LoadInv
  <2> QED BY <2>1, <1>1, <1>2, <1>3 DEF NewObject
<1>5. IsSequence(reader[f].acc) /\ live \subseteq Address /\ Null \notin Address
  BY BodyParts, GetObjectParts DEF InText, Sound, ReadInv, StateOK
<1>6. /\ Pointers(reader[f].acc) \subseteq Pointers(reader'[f].acc)
      /\ o # Null => o \in Pointers(reader'[f].acc)
  BY <1>1, <1>5, PointersAppend
<1>7. \A r, c : IsRead(f, r, c) => IsRead(f, r, c)'
  BY <1>1, <1>2, <1>6 DEF IsRead, Pointers
<1>8. ASSUME NEW c \in live, NEW q \in rcr'[c], q \notin rcr[c]
      PROVE  q = <<Owner(f), q[2]>> /\ q[2] \in setup.composite /\ IsRead(f, q[2], c)'
  <2>1. c = o /\ q = <<Owner(f), Current(f)>> /\ Current(f) \in setup.composite
    BY <1>8
  <2>2. c \in Pointers(reader'[f].acc) /\ q[2] = Current(f)
    BY <2>1, <1>5, <1>6
  <2>3. c \in Pointers(reader[f].acc)' /\ reader'[f].rels # <<>>
    BY <2>2, <1>1 DEF Pointers
  <2> QED BY <2>1, <2>2, <2>3, <1>2 DEF IsRead
<1>9. \A p, r : Pointers(value'[p][r]) = Pointers(value[p][r])
  OBVIOUS
<1> QED BY <1>1, <1>2, <1>3, <1>4, <1>7, <1>8, <1>9, LoadsBody

LEMMA LoadsReference ==
    ASSUME ReadInv, PartsInv, LoadInv, NEW f \in File, \A g \in File \ {f} : ~InBody(g), Loading, ReadReference(f)
    PROVE  LoadInv'
<1> DEFINE u == NextName(f)
           o == GetObject(u)
           r == Current(f)
           me == <<Owner(f), r>>
           part == o # Null /\ r \in setup.composite
<1>1. /\ reader[f].pc = "body" /\ InBody(f) /\ reader[f].rels # <<>>
      /\ UNCHANGED <<live, uid, file, rcr, setup, disk, seen>>
  BY DEF ReadReference, InRelationship, InBody
<1>2. NewObject(f)
  BY <1>1 DEF LoadInv
<1>3. ASSUME reader' = Accept(f, Ref(u, o)), UNCHANGED <<value, pc, test>>
      PROVE  LoadInv'
  <2>1. rcr'[Owner(f)] = {}
    BY <1>1, <1>2 DEF NewObject
  <2> HIDE DEF u, o, r, me, part
  <2> QED BY <1>1, <1>3, <2>1, LoadsAccept
<1>4. ASSUME Fail(f, FALSE)
      PROVE  LoadInv'
  BY <1>1, <1>4, LoadsFailing DEF Fail
<1>5. ASSUME part, reader' = [reader EXCEPT ![f].pc = "add", ![f].fresh = rcr[o] = {}], UNCHANGED <<value, pc, test>>
      PROVE  LoadInv'
  <2> DEFINE old == reader[f]
             e == rcr[o] = {}
             x == [pc |-> "add", at |-> old.at, obj |-> old.obj, rels |-> old.rels, acc |-> old.acc,
                   fresh |-> e, update |-> old.update]
  <2>1. DOMAIN reader = File /\ IsReader(old)
    BY <1>1, BodyParts
  <2>2. Becomes(reader', reader, f, x)
    <3>1. reader' = [reader EXCEPT ![f].pc = "add", ![f].fresh = e]
      BY <1>5
    <3> HIDE DEF e
    <3> QED BY <2>1, <3>1, ReaderBecomes
  <2>3. x.pc = "add" /\ x.obj = old.obj /\ x.rels = old.rels /\ x.acc = old.acc
    OBVIOUS
  <2> HIDE DEF x
  <2>4. /\ reader'[f].pc = "add" /\ reader'[f].rels = old.rels /\ reader'[f].acc = old.acc /\ InBody(f)'
        /\ \A g \in File \ {f} : reader'[g] = reader[g]
    BY <2>1, <2>2, <2>3 DEF Becomes, InBody
  <2>5. Owner(f)' = Owner(f) /\ Current(f)' = Current(f) /\ (\A s : Left(f, s)' <=> Left(f, s)) /\ Rel' = Rel
    BY <1>1, <2>1, <2>2, <2>3, <2>4, SetupSame DEF Becomes, Owner, Current, Left
  <2>6. NewObject(f)'
    <3>1. Current(f) \in setup.composite /\ value' = value
      BY <1>5
    <3> HIDE DEF u, o, r, me, part
    <3>2. Owner(f)' \notin live' /\ rcr'[Owner(f)'] = {}
      BY <1>1, <1>2, <2>5 DEF NewObject
    <3>3. \A m, n \in DOMAIN reader'[f].rels : reader'[f].rels[m] = reader'[f].rels[n] => m = n
      BY <1>2, <2>4 DEF NewObject
    <3>4. \A s \in Rel' : Left(f, s)' => value'[Owner(f)'][s] = <<>>
      BY <3>1, <1>2, <2>5 DEF NewObject
    <3> QED BY <3>1, <3>2, <3>3, <3>4, <1>1, <2>5 DEF NewObject
  <2>7. \A s, c : IsRead(f, s, c)' <=> IsRead(f, s, c)
    BY <2>4, <2>5 DEF IsRead, Pointers
  <2>8. \A p, s : Pointers(value'[p][s]) = Pointers(value[p][s])
    BY <1>5
  <2> HIDE DEF u, o, r, me, part
  <2> QED BY <1>1, <1>5, <2>4, <2>5, <2>6, <2>7, <2>8, LoadsBody
<1>6. \/ reader' = Accept(f, Ref(u, o)) /\ UNCHANGED <<value, pc, test>>
      \/ Fail(f, FALSE)
      \/ /\ part
         /\ reader' = [reader EXCEPT ![f].pc = "add", ![f].fresh = rcr[o] = {}] /\ UNCHANGED <<value, pc, test>>
  BY DEF ReadReference
<1> HIDE DEF o, u, r, me, part
<1> QED BY <1>3, <1>4, <1>5, <1>6

LEMMA LoadsAdd ==
    ASSUME ReadInv, PartsInv, LoadInv, NEW f \in File, \A g \in File \ {f} : ~InBody(g), Loading, AddRcr(f)
    PROVE  LoadInv'
<1> DEFINE u == NextName(f)
           o == GetObject(u)
           me == <<Owner(f), Current(f)>>
<1>1. /\ reader[f].pc = "add" /\ InBody(f) /\ reader' = Accept(f, Ref(u, o))
      /\ UNCHANGED <<live, uid, file, value, pc, setup, disk, seen, test>>
      /\ rcr' = [rcr EXCEPT ![o] = @ \cup {me}] \/ rcr' = [rcr EXCEPT ![o] = {me}]
  BY DEF AddRcr, InBody
<1>2. reader[f].rels # <<>> /\ Owner(f) \in Address
  BY <1>1, BodyParts DEF InText
<1>3. o # Null
  BY <1>1 DEF PartsInv, ReaderKnown
<1>4. o \in live /\ o \in Address /\ DOMAIN rcr = Address /\ live \subseteq Address
  BY <1>3, GetObjectParts DEF ReadInv, StateOK, PartsInv
<1>5. NewObject(f)
  BY <1>1 DEF LoadInv
<1> HIDE DEF u, o, me
<1>6. rcr'[o] \subseteq rcr[o] \cup {me} /\ \A c \in Address \ {o} : rcr'[c] = rcr[c]
  BY <1>1, <1>4
<1>7. rcr'[Owner(f)] = {}
  BY <1>2, <1>4, <1>5, <1>6 DEF NewObject
<1>8. \A c \in live : \A q \in rcr'[c] :
         q \in rcr[c] \/ (c = o /\ q = <<Owner(f), Current(f)>> /\ Current(f) \in setup.composite)
  BY <1>1, <1>4, <1>5, <1>6 DEF NewObject, me
<1> QED BY <1>1, <1>2, <1>7, <1>8, LoadsAccept

\* A relationship is complete.
LEMMA LoadsRelationship ==
    ASSUME ReadInv, LoadInv, NEW f \in File, \A g \in File \ {f} : ~InBody(g), Loading, EndRelationship(f)
    PROVE  LoadInv'
<1> DEFINE old == reader[f]
           r == Current(f)
           p == Owner(f)
           w == [value[p] EXCEPT ![r] = old.acc]
<1>1. /\ InBody(f) /\ old.pc = "body" /\ old.rels # <<>>
      /\ UNCHANGED <<live, uid, file, rcr, pc, setup, disk, seen, test>>
  BY DEF EndRelationship, InBody
<1>2. PICK b : reader' = [reader EXCEPT ![f].rels = Tail(@), ![f].acc = <<>>, ![f].update = b]
  BY DEF EndRelationship
<1> DEFINE x == [pc |-> old.pc, at |-> old.at, obj |-> old.obj, rels |-> Tail(old.rels), acc |-> <<>>,
                 fresh |-> old.fresh, update |-> b]
<1>3. /\ InText(old, value[p], Entry(f), Rel, setup.allow, live, uid) /\ SoundValue(value[p], Rel, live, uid)
      /\ p \in Address /\ DOMAIN value = Address /\ DOMAIN reader = File /\ IsReader(old)
  BY <1>1, BodyParts
<1>4. Becomes(reader', reader, f, x)
  <2>1. reader' = [reader EXCEPT ![f].rels = Tail(old.rels), ![f].acc = <<>>, ![f].update = b]
    BY <1>2
  <2> QED BY <1>3, <2>1, ReaderBecomes
<1>5. x.pc = "body" /\ x.obj = old.obj /\ x.rels = Tail(old.rels) /\ x.acc = <<>>
  BY <1>1
<1> HIDE DEF x
<1>6. /\ reader'[f] = x /\ (\A g \in File \ {f} : reader'[g] = reader[g]) /\ InBody(f)' /\ Owner(f)' = p
  BY <1>3, <1>4, <1>5 DEF Becomes, InBody, Owner
<1>7. NewObject(f)
  BY <1>1 DEF LoadInv
<1>8. /\ r \in Rel /\ Left(f, r)
      /\ \A m, n \in DOMAIN x.rels : x.rels[m] = x.rels[n] => m = n
      /\ \A i \in DOMAIN x.rels : x.rels[i] # r /\ \E k \in DOMAIN old.rels : old.rels[k] = x.rels[i]
  <2> DEFINE s == old.rels
  <2>1. s \in Seq(Rel) /\ r = Head(s) /\ s # <<>> /\ \A m, n \in DOMAIN s : s[m] = s[n] => m = n
    BY <1>1, <1>3, <1>7 DEF InText, Current, NewObject
  <2> HIDE DEF s, r
  <2>2. /\ r = s[1] /\ r \in Rel /\ 1 \in DOMAIN s
        /\ \A i \in DOMAIN Tail(s) : i + 1 \in DOMAIN s /\ i + 1 # 1 /\ i \in Nat /\ Tail(s)[i] = s[i + 1]
    BY <2>1
  <2>3. \A m, n \in DOMAIN Tail(s) : Tail(s)[m] = Tail(s)[n] => m = n
    BY <2>1, <2>2
  <2>4. \A i \in DOMAIN Tail(s) : Tail(s)[i] # r /\ \E k \in DOMAIN s : s[k] = Tail(s)[i]
    BY <2>1, <2>2
  <2> QED BY <2>2, <2>3, <2>4, <1>5 DEF s, Left
<1>9. DOMAIN value' = Address /\ value'[p] = w /\ \A o \in Address \ {p} : value'[o] = value[o]
  <2>1. value' = [value EXCEPT ![p] = w]
    BY DEF EndRelationship
  <2> HIDE DEF w, p
  <2> QED BY <1>3, <2>1
<1>10. w[r] = old.acc /\ (\A s \in Rel \ {r} : w[s] = value[p][s]) /\ value[p][r] = <<>>
  BY <1>3, <1>7, <1>8 DEF SoundValue, NewObject
<1>11. NewObject(f)'
  <2>1. ASSUME NEW s \in Rel, Left(f, s)' PROVE Left(f, s) /\ s # r
    BY <2>1, <1>6, <1>8 DEF Left
  <2>2. \A s \in Rel : Left(f, s)' => value'[p][s] = <<>>
    BY <2>1, <1>7, <1>9, <1>10 DEF NewObject
  <2>3. Rel' = Rel /\ p \notin live /\ rcr'[p] = {}
    BY <1>1, <1>7, SetupSame DEF NewObject
  <2>4. Owner(f)' = p
    BY <1>6
  <2>5. \A m, n \in DOMAIN reader'[f].rels : reader'[f].rels[m] = reader'[f].rels[n] => m = n
    BY <1>6, <1>8
  <2>6. reader'[f].pc # "add"
    BY <1>5, <1>6
  <2>7. p \notin live'
    BY <2>3, <1>1
  <2> HIDE DEF p
  <2> QED BY <2>2, <2>3, <2>4, <2>5, <2>6, <2>7 DEF NewObject
<1>12. ASSUME NEW s \in setup.composite, NEW c \in live, c \in Pointers(value[p][s]) \/ IsRead(f, s, c)
       PROVE  c \in Pointers(value'[p][s])
  <2>1. s \in Rel
    BY SetupSets DEF ReadInv, StateOK
  <2>2. CASE s = r
    <3>1. c \notin Pointers(value[p][s])
      BY <2>2, <1>10 DEF Pointers
    <3> QED BY <2>2, <3>1, <1>9, <1>10, <1>12 DEF IsRead
  <2>3. CASE s # r
    BY <2>1, <2>3, <1>9, <1>10, <1>12 DEF IsRead
  <2> QED BY <2>2, <2>3
<1>13. reader'[f].pc # "failed" /\ reader[f].pc # "failed"
  BY <1>1, <1>5, <1>6
<1> HIDE DEF old, r, w
<1> QED BY <1>1, <1>6, <1>9, <1>11, <1>12, <1>13, LoadsBody

\* A new object is there: nobody is its parent yet, and no other has its id.
LEMMA LoadsObject ==
    ASSUME ReadInv, LoadInv, NEW f \in File, \A g \in File \ {f} : ~InBody(g), Loading, EndObject(f)
    PROVE  LoadInv'
<1> DEFINE p == Owner(f)
<1>1. /\ reader[f].pc = "body" /\ InBody(f) /\ reader[f].rels = <<>>
      /\ UNCHANGED <<uid, file, value, rcr, setup, disk, seen>>
  BY DEF EndObject, InBody
<1>2. /\ p \in Address /\ DOMAIN reader = File /\ IsReader(reader[f]) /\ File' = File /\ Null \notin Address
  BY <1>1, BodyParts, SetupSame, GetObjectParts DEF ReadInv
<1>3. NewObject(f)
  BY <1>1 DEF LoadInv
<1>4. CASE Fail(f, FALSE) /\ UNCHANGED live
  BY <1>1, <1>4, LoadsFailing DEF Fail
<1>5. ASSUME GetObject(uid[p]) = Null, live' = live \cup {p}, reader' = Next1(f), UNCHANGED <<pc, test>>
      PROVE  LoadInv'
  <2> DEFINE old == reader[f]
             x == [pc |-> "header", at |-> old.at + 1, obj |-> Null, rels |-> old.rels,
                   acc |-> old.acc, fresh |-> old.fresh, update |-> old.update]
  <2>1. Becomes(reader', reader, f, x)
    <3>1. f \in DOMAIN reader /\ IsReader(reader[f]) /\ reader' = Next1(f)
      BY <1>2, <1>5
    <3> QED BY <3>1, ReaderBecomes DEF Next1
  <2>2. x.pc = "header"
    OBVIOUS
  <2> HIDE DEF x
  <2>3. reader'[f].pc = "header" /\ (\A g \in File \ {f} : reader'[g] = reader[g])
    BY <1>2, <2>1, <2>2 DEF Becomes
  <2>4. \A g \in File : ~InBody(g)'
    BY <2>3 DEF InBody
  <2>5. ASSUME setup.test, ~setup.allow PROVE IdsSound'
    <3>1. IdsSound /\ PlainName(uid[p]) /\ ~SameId(uid[p])
      BY <1>1, <2>5 DEF LoadInv, IdsSound
    <3>2. ASSUME NEW o \in live PROVE uid[o][2] # uid[p][2]
      <4> DEFINE u == uid[o]
                 w == uid[p]
      <4>1. PlainName(u) /\ PlainName(w) /\ u # w /\ (u[1] = w[1] \/ u[2] # w[2] \/ u[3] # w[3])
        BY <3>1, <1>5, GetObjectParts, <1>2, <3>2 DEF IdsSound, SameId, ReadInv, StateOK
      <4> HIDE DEF u, w
      <4>2. u[3] = 0 /\ w[3] = 0 /\ u = <<u[1], u[2], 0>> /\ w = <<w[1], w[2], 0>>
        BY <4>1 DEF PlainName
      <4>3. u[1] # w[1] \/ u[2] # w[2]
        BY <4>1, <4>2
      <4> QED BY <4>1, <4>2, <4>3 DEF u, w
    <3>3. \A o, b \in live' : uid[o][2] = uid[b][2] => o = b
      BY <1>5, <3>1, <3>2 DEF IdsSound
    <3>4. \A o \in live' : PlainName(uid[o])
      BY <1>5, <3>1 DEF IdsSound
    <3> QED BY <1>1, <1>2, <2>4, <3>3, <3>4 DEF IdsSound
  <2>6. ASSUME NoFailure' PROVE ParentsSound'
    <3>1. NoFailure
      BY <2>6, <1>1, <1>2, <1>5, <2>3 DEF NoFailure, Idle, Loading
    <3>2. ASSUME NEW b, NEW r, NEW c, Refers(b, r, c) PROVE Refers(b, r, c)'
      <4>1. \A g \in File : \A s : ~(InBody(g) /\ IsRead(g, s, c))
        BY <1>1 DEF IsRead
      <4>2. b \in Address /\ Held(b) /\ c \in Pointers(value[b][r])
        BY <3>2, <4>1 DEF Refers
      <4>3. b \in live'
        <5>1. \A g \in File \ {f} : Owner(g) = Null
          BY DEF ReadInv, ReadersOK, ReaderOK
        <5> QED BY <5>1, <1>2, <1>5, <4>2 DEF Held
      <4> QED BY <1>1, <4>2, <4>3 DEF Refers, Held, Pointers
    <3>3. ParentsSound /\ rcr[p] = {}
      BY <1>3, <3>1 DEF LoadInv, NewObject
    <3> QED BY <1>1, <1>5, <3>2, <3>3 DEF ParentsSound
  <2> QED BY <1>1, <1>2, <1>5, <2>4, <2>5, <2>6 DEF LoadInv
<1>6. \/ Fail(f, FALSE) /\ UNCHANGED live
      \/ GetObject(uid[p]) = Null /\ live' = live \cup {p} /\ reader' = Next1(f) /\ UNCHANGED <<pc, test>>
  BY <1>3 DEF EndObject, NewObject, Rereads
<1> QED BY <1>4, <1>5, <1>6

\* Binding keeps the pointers, and a part that it tells of an object gets a
\* pointer from it.
LEMMA BindGivesPointers ==
    ASSUME ReadInv, Bind(TRUE), UNCHANGED <<setup, live, uid>>, DOMAIN rcr = Address, NEW c \in live
    PROVE  /\ \A o \in live, r \in Rel : c \in Pointers(value[o][r]) => c \in Pointers(value'[o][r])
           /\ \A q \in rcr'[c] : \/ q \in rcr[c]
                                 \/ /\ q = <<q[1], q[2]>> /\ q[1] \in live /\ q[2] \in setup.composite
                                    /\ c \in Pointers(value'[q[1]][q[2]])
<1>1. value' = Bound(Resolvable) /\ rcr' = WithParents(Resolvable)
  BY DEF Bind
<1>2. live \subseteq Address /\ Null \notin Address
  BY GetObjectParts DEF ReadInv, StateOK
<1>3. ASSUME NEW o \in live, NEW r \in Rel, NEW i \in DOMAIN value[o][r]
      PROVE  /\ i \in DOMAIN value'[o][r]
             /\ value[o][r][i].obj # Null => value'[o][r][i] = value[o][r][i]
             /\ value'[o][r][i].obj # Null => uid[value'[o][r][i].obj] = value[o][r][i].uid
                                              /\ value'[o][r][i].obj \in live
             /\ (\E x \in live : uid[x] = value[o][r][i].uid) => value'[o][r][i].obj # Null
  <2>1. i \in DOMAIN Bound(Resolvable)[o][r]
    BY <1>2 DEF Bound
  <2>2. Resolvable \subseteq Resolvable
    OBVIOUS
  <2> QED BY <2>1, <2>2, <1>1, BoundReference
<1>4. ASSUME NEW o \in live, NEW r \in Rel, c \in Pointers(value[o][r]) PROVE c \in Pointers(value'[o][r])
  BY <1>3, <1>4 DEF Pointers
<1>5. ASSUME NEW q \in rcr'[c], q \notin rcr[c]
      PROVE  q = <<q[1], q[2]>> /\ q[1] \in live /\ q[2] \in setup.composite /\ c \in Pointers(value'[q[1]][q[2]])
  <2>1. PICK t \in Resolvable : t[1] = c /\ t[3] \in setup.composite /\ q = <<t[2], t[3]>>
    BY <1>1, <1>2, <1>5 DEF WithParents
  <2> DEFINE o == t[2]
             r == t[3]
  <2>2. q = <<o, r>> /\ q[1] = o /\ q[2] = r
    BY <2>1
  <2>3. o \in live /\ r \in Rel
    BY DEF Resolvable, Triple
  <2>4. PICK i \in DOMAIN value[o][r] : value[o][r][i] = Ref(uid[c], Null)
    BY <2>1 DEF Resolvable
  <2> HIDE DEF o, r
  <2>5. value[o][r][i].uid = uid[c]
    BY <2>4 DEF Ref
  <2>6. i \in DOMAIN value'[o][r] /\ value'[o][r][i].obj \in live /\ uid[value'[o][r][i].obj] = uid[c]
    BY <1>3, <2>3, <2>5
  <2>7. value'[o][r][i].obj = c
    BY <2>6 DEF ReadInv, UniqueNames
  <2>8. c \in Pointers(value'[o][r])
    BY <1>2, <2>6, <2>7 DEF Pointers
  <2> QED BY <2>1, <2>2, <2>3, <2>8 DEF r
<1> QED BY <1>4, <1>5

LEMMA LoadsEnd ==
    ASSUME ReadInv, PartsInv, LoadInv, NEW succeeds \in BOOLEAN, EndLoad(succeeds)
    PROVE  LoadInv'
<1>1. /\ pc = "load" /\ pc' = "idle" /\ reader' = [f \in File |-> NoReader] /\ UNCHANGED <<setup, live, uid, test>>
      /\ \A f \in File : reader[f].pc \in {"done", "failed"}
      /\ File' = File /\ live \subseteq Address /\ Null \notin Address
  BY SetupSame, GetObjectParts DEF EndLoad, Loading, ReadInv, StateOK
<1>2. \A f \in File : ~InBody(f) /\ ~InBody(f)' /\ Owner(f) = Null
  BY <1>1, NoOwners DEF InBody, NoReader
<1>3. IdsSound => IdsSound'
  BY <1>1, <1>2 DEF IdsSound, SameId
<1>4. ASSUME NoFailure' PROVE ParentsSound'
  <2>1. succeeds
    <3>1. AllSeen'
      BY <1>1, <1>4 DEF NoFailure, Idle
    <3>2. File # {}
      BY SetupParts DEF ReadInv, StateOK
    <3> QED BY <3>1, <3>2, <1>1 DEF EndLoad, Seen, AllSeen
  <2>2. (\A f \in File : reader[f].pc # "failed") /\ Bind(TRUE)
    <3>1. \A f \in File : reader[f].pc # "failed"
      BY <2>1 DEF EndLoad
    <3>2. Bind(succeeds)
      BY <3>1 DEF EndLoad
    <3>3. succeeds = TRUE
      BY <2>1
    <3> QED BY <3>1, <3>2, <3>3
  <2>3. ParentsSound
    BY <2>2, <1>1 DEF LoadInv, NoFailure, Idle
  <2>4. setup.composite \subseteq Rel /\ DOMAIN rcr = Address
    BY SetupSets DEF ReadInv, StateOK, PartsInv
  <2>5. ASSUME NEW c \in live, NEW q \in rcr'[c]
        PROVE  /\ q = <<q[1], q[2]>> /\ q[1] \in live /\ q[2] \in setup.composite
               /\ c \in Pointers(value'[q[1]][q[2]])
    <3>1. CASE q \in rcr[c]
      <4>1. q = <<q[1], q[2]>> /\ q[2] \in setup.composite /\ Refers(q[1], q[2], c)
        BY <2>3, <3>1 DEF ParentsSound
      <4>2. q[1] \in live /\ c \in Pointers(value[q[1]][q[2]])
        BY <4>1, <1>1, <1>2 DEF Refers, Held
      <4> QED BY <4>1, <4>2, <1>1, <2>2, <2>4, BindGivesPointers
    <3>2. CASE q \notin rcr[c]
      BY <3>2, <1>1, <2>2, <2>4, BindGivesPointers
    <3> QED BY <3>1, <3>2
  <2>6. \A p, r, c : p \in live /\ c \in Pointers(value'[p][r]) => Refers(p, r, c)'
    BY <1>1 DEF Refers, Held, Pointers
  <2> QED BY <1>1, <2>5, <2>6 DEF ParentsSound
<1> QED BY <1>1, <1>2, <1>3, <1>4 DEF LoadInv

\* The other steps of a load.
LEMMA LoadsOther ==
    ASSUME ReadInv, LoadInv,
           \/ LoadData
           \/ \E f \in File : StartJob(f) \/ Edit(f) \/ (Loading /\ EndFile(f))
           \/ UNCHANGED vars
    PROVE  LoadInv'
<1>1. ASSUME UNCHANGED <<setup, live, uid, value, rcr, test, reader, seen>>, pc' = pc \/ (pc = "new" /\ pc' = "load")
      PROVE  LoadInv'
  <2>1. NoFailure' => NoFailure
    BY <1>1, SetupSame DEF NoFailure, Idle, AllSeen, LoadInv
  <2>2. \A f \in File : reader'[f] = reader[f] /\ Owner(f)' = Owner(f) /\ (InBody(f)' <=> InBody(f))
    BY <1>1 DEF Owner, InBody
  <2>3. pc' \in {"new", "load", "idle"}
    BY <1>1 DEF LoadInv
  <2> QED BY <1>1, <2>1, <2>2, <2>3, LoadsQuiet
<1>2. ASSUME NEW f \in File, NEW a \in {"header", "done"}, reader[f].pc \in {"wait", "header"},
             reader' = [reader EXCEPT ![f].pc = a], pc = "load",
             UNCHANGED <<setup, live, uid, value, rcr, test, pc>>
      PROVE  LoadInv'
  <2> DEFINE old == reader[f]
             x == [pc |-> a, at |-> old.at, obj |-> old.obj, rels |-> old.rels, acc |-> old.acc,
                   fresh |-> old.fresh, update |-> old.update]
  <2>1. Becomes(reader', reader, f, x) /\ DOMAIN reader = File
    <3>1. f \in DOMAIN reader /\ IsReader(reader[f]) /\ DOMAIN reader = File
      BY DEF ReadInv, StateOK, ReadersOK, ReaderOK
    <3> QED BY <3>1, <1>2, ReaderBecomes
  <2>2. x.pc = a /\ x.obj = old.obj
    OBVIOUS
  <2> HIDE DEF x
  <2>3. \A g \in File \ {f} : reader'[g] = reader[g]
    BY <2>1 DEF Becomes
  <2>4. reader'[f].pc = a /\ Owner(f)' = Owner(f) /\ ~InBody(f) /\ ~InBody(f)'
    BY <1>2, <2>1, <2>2 DEF Becomes, Owner, InBody
  <2>5. \A g \in File : Owner(g)' = Owner(g) /\ (InBody(g)' <=> InBody(g)) /\ (InBody(g) => reader'[g] = reader[g])
    BY <2>3, <2>4 DEF Owner, InBody
  <2>6. NoFailure' => NoFailure
    <3>1. File' = File /\ reader[f].pc # "failed"
      BY <1>2, SetupSame
    <3> QED BY <1>2, <2>3, <3>1 DEF NoFailure, Idle
  <2> QED BY <1>2, <2>5, <2>6, LoadsQuiet
<1>3. CASE LoadData
  BY <1>1, <1>3 DEF LoadData, objectVars
<1>4. ASSUME NEW f \in File, StartJob(f) PROVE LoadInv'
  BY <1>2, <1>4 DEF StartJob, Loading, objectVars
<1>5. ASSUME NEW f \in File, Edit(f) PROVE LoadInv'
  BY <1>1, <1>5 DEF Edit, objectVars
<1>6. ASSUME NEW f \in File, Loading, EndFile(f) PROVE LoadInv'
  BY <1>2, <1>6 DEF EndFile, Loading, objectVars
<1>7. CASE UNCHANGED vars
  BY <1>1, <1>7 DEF vars, objectVars
<1> QED BY <1>3, <1>4, <1>5, <1>6, <1>7

LEMMA LoadsInit == Init => LoadInv
<1> SUFFICES ASSUME Init PROVE LoadInv
  OBVIOUS
<1>1. live = {} /\ pc = "new" /\ test = setup.test /\ \A f \in File : reader[f] = NoReader
  BY DEF Init
<1>2. \A f \in File : ~InBody(f)
  BY <1>1 DEF NoReader, InBody
<1> QED BY <1>1, <1>2 DEF LoadInv, IdsSound, ParentsSound

LEMMA NextLoadInv == ReadInv /\ PartsInv /\ LoadInv /\ LoadsOnly /\ [Next]_vars => LoadInv'
<1> SUFFICES ASSUME ReadInv, PartsInv, LoadInv, LoadsOnly, [Next]_vars PROVE LoadInv'
  OBVIOUS
<1>1. ASSUME NEW f \in File, Loading, ReadObject(f) PROVE LoadInv'
  <2>1. Reading(f)
    BY <1>1 DEF ReadObject, ReadHeader, ReadReference, InRelationship, AddRcr, EndRelationship, EndObject, EndFile, Reading
  <2>2. \A g \in File \ {f} : ~InBody(g)
    BY <1>1, <2>1 DEF PartsInv, OneAtWork, InBody, Reading
  <2>3. CASE ReadHeader(f)
    BY <1>1, <2>2, <2>3, LoadsHeader
  <2>4. CASE ReadReference(f)
    BY <1>1, <2>2, <2>4, LoadsReference
  <2>5. CASE AddRcr(f)
    BY <1>1, <2>2, <2>5, LoadsAdd
  <2>6. CASE EndRelationship(f)
    BY <1>1, <2>2, <2>6, LoadsRelationship
  <2>7. CASE EndObject(f)
    BY <1>1, <2>2, <2>7, LoadsObject
  <2>8. CASE EndFile(f)
    BY <1>1, <2>8, LoadsOther
  <2> QED BY <1>1, <2>3, <2>4, <2>5, <2>6, <2>7, <2>8 DEF ReadObject
<1>2. pc \in {"new", "load", "idle"} /\ setup.reloads = 0 /\ reloads \in Nat
  BY DEF LoadInv, LoadsOnly, ReadInv, StateOK
<1>3. ASSUME NEW F, ReloadData(F) PROVE FALSE
  BY <1>2, <1>3 DEF ReloadData
<1>4. ASSUME NEW f, ReloadFile(f) PROVE FALSE
  BY <1>2, <1>4 DEF ReloadFile
<1>5. ~RemoveOthers /\ \A o : ~DeleteObject(o)
  BY <1>2 DEF RemoveOthers, DeleteObject
<1>6. ASSUME NEW b, EndReload(b) PROVE FALSE
  BY <1>2, <1>6 DEF EndReload
<1>7. CASE LoadData \/ (\E f \in File : StartJob(f) \/ Edit(f)) \/ UNCHANGED vars
  BY <1>7, LoadsOther
<1> QED BY <1>1, <1>3, <1>4, <1>5, <1>6, <1>7, LoadsEnd DEF Next

-----------------------------------------------------------------------------
(* What the callbacks tell *)

\* Texts that can be read to their end, with no exclusive relationship after
\* another one: a reload that fails in an object has not changed it yet.
Steady ==
    /\ \A f \in File : \A c \in setup.content[f] : \A i \in DOMAIN c : c[i].readable
    /\ \A n \in DOMAIN setup.rels : setup.rels[n] \in setup.exclusive => n = 1

Valued == value = [a \in Address |-> [r \in Rel |-> value[a][r]]]
StateTyped ==
    /\ setup \in Setups
    /\ DOMAIN disk = File /\ \A f \in File : disk[f] \in setup.content[f]
    /\ live \subseteq Address /\ pool \subseteq Address /\ DOMAIN uid = Address /\ Valued
    /\ DOMAIN reader = File

\* Reader x of the text c: as long as it may be refused by a part it has not
\* changed the object.
Place(x, c) ==
    /\ IsReader(x) /\ x.rels \in Seq(Rel)
    /\ IF x.pc \in {"body", "add"} THEN x.obj \in Address /\ x.at \in 1 .. Len(c) ELSE x.obj = Null
    /\ x.at \in Nat \ {0}
    /\ \A i \in DOMAIN x.rels : i > 1 \/ x.update => x.rels[i] \notin setup.exclusive
Places == \A f \in File : Place(reader[f], disk[f]) /\ (InBody(f) => pc \in {"load", "reload"})

\* An object refers to what it did when all was read, or was reported, or its
\* reader will report it.
Marked(o) == \E f \in File : Owner(f) = o /\ reader[f].update
Told(o) == o \in reported \/ <<o, Described(o)>> \in before \/ Marked(o)
ChangesTold == setup.notify /\ pc \in {"idle", "reload", "remove"} => \A o \in live : Told(o)
RemovalsTold == \A b \in before : (b[1] \in live /\ uid[b[1]] = b[2][1]) \/ b[2][1] \in deleted

NotifyInv == StateTyped /\ Places /\ ChangesTold /\ RemovalsTold

\* Nobody reads yet.
LEMMA PlaceOfNone ==
    ASSUME NEW c
    PROVE  Place(NoReader, c) /\ Place([NoReader EXCEPT !.pc = "failed"], c) /\ Place([NoReader EXCEPT !.pc = "header"], c)
<1> DEFINE x(p) == [pc |-> p, at |-> 1, obj |-> Null, rels |-> <<>>, acc |-> <<>>, fresh |-> FALSE, update |-> FALSE]
<1>1. \A p \in {"wait", "failed", "header"} : Place(x(p), c)
  <2> TAKE p \in {"wait", "failed", "header"}
  <2>1. /\ IsReader(x(p)) /\ x(p).pc = p /\ x(p).at = 1 /\ x(p).obj = Null /\ x(p).rels = <<>>
    BY ReaderParts
  <2> HIDE DEF x
  <2> QED BY <2>1 DEF Place
<1>2. NoReader = x("wait")
  BY DEF NoReader
<1>3. ASSUME NEW p PROVE [NoReader EXCEPT !.pc = p] = x(p)
  <2> DEFINE y == NoReader
  <2>1. /\ y = [pc |-> y.pc, at |-> y.at, obj |-> y.obj, rels |-> y.rels, acc |-> y.acc,
               fresh |-> y.fresh, update |-> y.update]
        /\ y.at = 1 /\ y.obj = Null /\ y.rels = <<>> /\ y.acc = <<>> /\ y.fresh = FALSE /\ y.update = FALSE
    BY WaitingReader DEF IsReader, NoReader
  <2> HIDE DEF y
  <2>2. [y EXCEPT !.pc = p] = [pc |-> p, at |-> y.at, obj |-> y.obj, rels |-> y.rels, acc |-> y.acc,
               fresh |-> y.fresh, update |-> y.update]
    BY <2>1
  <2> QED BY <2>1, <2>2 DEF y
<1> HIDE DEF x
<1> QED BY <1>1, <1>2, <1>3

\* One reader goes on.
LEMMA PlaceKept ==
    ASSUME NotifyInv, NEW f \in File, NEW x, Becomes(reader', reader, f, x),
           UNCHANGED <<setup, disk, pc>>, pc \in {"load", "reload"}, Place(x, disk[f])
    PROVE  Places' /\ DOMAIN reader' = File' /\ reader'[f] = x /\ \A g \in File \ {f} : reader'[g] = reader[g]
<1>1. DOMAIN reader = File /\ File' = File /\ Rel' = Rel
  BY SetupSame DEF NotifyInv, StateTyped
<1>2. DOMAIN reader' = File /\ reader'[f] = x /\ \A g \in File \ {f} : reader'[g] = reader[g]
  BY <1>1 DEF Becomes
<1>4. ASSUME NEW g \in File PROVE Place(reader[g], disk[g])'
  <2>1. CASE g = f
    BY <2>1, <1>1, <1>2 DEF Place, IsReader
  <2>2. CASE g # f
    <3>1. Place(reader[g], disk[g]) /\ reader'[g] = reader[g]
      BY <2>2, <1>2 DEF NotifyInv, Places
    <3> QED BY <3>1, <1>1 DEF Place, IsReader
  <2> QED BY <2>1, <2>2
<1> QED BY <1>1, <1>2, <1>4 DEF Places, InBody

\* What was told stays told.
LEMMA ToldKept ==
    ASSUME NotifyInv, UNCHANGED <<setup, live, before, deleted>>, reported \subseteq reported',
           \A o \in live : uid'[o] = uid[o],
           setup.notify /\ pc' \in {"idle", "reload", "remove"} =>
             /\ pc \in {"idle", "reload", "remove"}
             /\ \A o \in live : Described(o)' = Described(o) \/ Marked(o)' \/ o \in reported'
             /\ \A o \in live : Marked(o) => Marked(o)' \/ o \in reported'
    PROVE  ChangesTold' /\ RemovalsTold'
<1>1. ChangesTold'
  <2> SUFFICES ASSUME setup.notify, pc' \in {"idle", "reload", "remove"}, NEW o \in live PROVE Told(o)'
    BY DEF ChangesTold
  <2>1. Told(o)
    BY DEF NotifyInv, ChangesTold
  <2> QED BY <2>1 DEF Told
<1>2. RemovalsTold'
  BY DEF NotifyInv, RemovalsTold
<1> QED BY <1>1, <1>2

\* A mark stays, but for that of the reader that goes on.
LEMMA MarkKept ==
    ASSUME NotifyInv, setup' = setup, NEW f \in File, \A g \in File \ {f} : reader'[g] = reader[g],
           NEW o, Marked(o), Owner(f) = o /\ reader[f].update => reader'[f].obj = o /\ reader'[f].update
    PROVE  Marked(o)'
<1>1. File' = File
  BY SetupSame
<1>2. PICK g \in File : Owner(g) = o /\ reader[g].update
  BY DEF Marked
<1> QED BY <1>1, <1>2 DEF Marked, Owner

\* The reader of a file is in a text that can be read to its end.
LEMMA TextOf ==
    ASSUME NotifyInv, NEW f \in File
    PROVE  /\ IsReader(reader[f]) /\ reader[f].rels \in Seq(Rel) /\ DOMAIN reader = File
           /\ IF InBody(f) THEN Owner(f) \in Address /\ reader[f].at \in 1 .. Len(disk[f]) ELSE Owner(f) = Null
           /\ Null \notin Address /\ Null \notin live
           /\ Len(disk[f]) \in Nat
           /\ InBody(f) /\ Steady => Entry(f).readable
<1>1. Place(reader[f], disk[f]) /\ setup \in Setups /\ disk[f] \in setup.content[f]
  BY DEF NotifyInv, Places, StateTyped
<1>2. Len(disk[f]) \in Nat /\ DOMAIN disk[f] = 1 .. Len(disk[f])
  BY <1>1, SetupParts
<1>3. Null \notin Address
  BY ObjectsAssumption DEF Null
<1>4. Null \notin live /\ DOMAIN reader = File
  BY <1>3 DEF NotifyInv, StateTyped
<1>5. IF InBody(f) THEN Owner(f) \in Address /\ reader[f].at \in 1 .. Len(disk[f]) ELSE Owner(f) = Null
  BY <1>1 DEF Place, InBody, Owner
<1>6. InBody(f) /\ Steady => Entry(f).readable
  BY <1>1, <1>2, <1>5 DEF Steady, Entry
<1> QED BY <1>1, <1>2, <1>3, <1>4, <1>5, <1>6 DEF Place

\* A reader fails that has changed no object that is there.
LEMMA FailTells ==
    ASSUME NotifyInv, NEW f \in File, NEW refused, Fail(f, refused), pc \in {"load", "reload"},
           pc = "reload" => \A g \in File \ {f} : ~InBody(g),
           UNCHANGED <<setup, disk, live, uid>>, Valued',
           setup.notify /\ pc = "reload" =>
             \A o \in live : Described(o)' = Described(o) /\ ~(Owner(f) = o /\ reader[f].update)
    PROVE  NotifyInv'
<1>1. File' = File /\ Rel' = Rel /\ DOMAIN reader = File /\ UNCHANGED <<reported, before, deleted>>
  BY SetupSame DEF NotifyInv, StateTyped, Fail
<1>2. DOMAIN reader' = File /\ \A g \in File : reader'[g] \in {reader[g], NoReader, [NoReader EXCEPT !.pc = "failed"]}
  BY <1>1 DEF Fail
<1>3. StateTyped'
  <2>1. pool' \in {pool, {}}
    BY DEF Fail
  <2> QED BY <1>1, <1>2, <2>1 DEF NotifyInv, StateTyped
<1>4. NoReader.pc = "wait" /\ [NoReader EXCEPT !.pc = "failed"].pc = "failed"
  BY DEF NoReader
<1>5. CASE pc = "load"
  <2>1. pc' = "load" /\ Loading
    BY <1>5 DEF Fail, Loading
  <2>2. Places'
    <3> SUFFICES ASSUME NEW g \in File PROVE Place(reader[g], disk[g])' /\ (InBody(g) => pc \in {"load", "reload"})'
      BY <1>1 DEF Places
    <3>1. Place(reader[g], disk[g])
      BY DEF NotifyInv, Places
    <3>2. Place(reader'[g], disk[g])
      BY <1>2, <3>1, PlaceOfNone
    <3> QED BY <1>1, <2>1, <3>2 DEF Place, IsReader
  <2>3. ChangesTold' /\ RemovalsTold'
    BY <1>1, <2>1, ToldKept
  <2> QED BY <1>3, <2>2, <2>3 DEF NotifyInv
<1>6. CASE pc = "reload"
  <2>1. pc' = "idle" /\ \A g \in File : reader'[g] = NoReader
    BY <1>1, <1>6 DEF Fail, Loading
  <2>2. Places'
    <3> SUFFICES ASSUME NEW g \in File PROVE Place(reader[g], disk[g])' /\ (InBody(g) => pc \in {"load", "reload"})'
      BY <1>1 DEF Places
    <3>1. Place(reader'[g], disk[g]) /\ reader'[g].pc = "wait"
      BY <1>4, <2>1, PlaceOfNone
    <3> QED BY <1>1, <3>1 DEF Place, IsReader, InBody
  <2>3. ASSUME setup.notify, NEW o \in live PROVE ~Marked(o)
    <3> SUFFICES ASSUME NEW g \in File, Owner(g) = o, reader[g].update PROVE FALSE
      BY DEF Marked
    <3>1. g # f /\ ~InBody(g)
      BY <1>6, <2>3
    <3> QED BY <3>1, TextOf
  <2>4. ChangesTold' /\ RemovalsTold'
    BY <1>1, <1>6, <2>3, ToldKept
  <2> QED BY <1>3, <2>2, <2>4 DEF NotifyInv
<1> QED BY <1>5, <1>6

\* The value of an object changes.
LEMMA ValuedUpdate ==
    ASSUME Valued, setup' = setup, NEW o \in Address, NEW v, value' = [value EXCEPT ![o] = v],
           v = [r \in Rel |-> v[r]]
    PROVE  Valued' /\ value'[o] = v /\ \A a \in Address \ {o} : value'[a] = value[a]
<1>1. Rel' = Rel /\ DOMAIN value = Address
  BY SetupSame DEF Valued
<1>2. value'[o] = v /\ \A a \in Address \ {o} : value'[a] = value[a]
  BY <1>1
<1>3. \A a \in Address : value'[a] = [r \in Rel |-> value'[a][r]]
  BY <1>2 DEF Valued
<1>4. value' = [a \in Address |-> value'[a]]
  BY <1>1
<1>5. value' = [a \in Address |-> [r \in Rel |-> value'[a][r]]]
  <2> DEFINE w == value'
  <2>1. w = [a \in Address |-> w[a]] /\ \A a \in Address : w[a] = [r \in Rel |-> w[a][r]]
    BY <1>3, <1>4
  <2> HIDE DEF w
  <2>2. w = [a \in Address |-> [r \in Rel |-> w[a][r]]]
    BY <2>1
  <2> QED BY <2>2 DEF w
<1> QED BY <1>1, <1>2, <1>5 DEF Valued

\* One relationship of it changes.
LEMMA RelationshipUpdate ==
    ASSUME Valued, setup' = setup, NEW o \in Address, NEW r \in Rel, NEW v, value' = [value EXCEPT ![o][r] = v]
    PROVE  Valued' /\ (\A a \in Address \ {o} : value'[a] = value[a]) /\ (v = value[o][r] => value' = value)
<1> DEFINE w == [value[o] EXCEPT ![r] = v]
<1>1. DOMAIN value = Address /\ value[o] = [s \in Rel |-> value[o][s]]
  BY DEF Valued
<1>2. w = [s \in Rel |-> w[s]]
  BY <1>1
<1>3. value' = [value EXCEPT ![o] = w]
  OBVIOUS
<1>4. Valued' /\ value'[o] = w /\ \A a \in Address \ {o} : value'[a] = value[a]
  <2> HIDE DEF w
  <2> QED BY <1>2, <1>3, ValuedUpdate
<1>5. ASSUME v = value[o][r] PROVE value' = value
  <2>1. w = value[o]
    <3>1. \A s \in Rel : w[s] = value[o][s]
      BY <1>1, <1>5
    <3> QED BY <1>1, <1>2, <3>1
  <2>2. DOMAIN value' = Address /\ \A a \in Address : value'[a] = value[a]
    BY <1>1, <1>3, <1>4, <2>1
  <2> HIDE DEF w
  <2>3. value = [a \in Address |-> value[a]]
    BY Zenon DEF Valued
  <2>4. value' = [a \in Address |-> value'[a]]
    BY <1>1, <1>3
  <2>5. [a \in Address |-> value'[a]] = [a \in Address |-> value[a]]
    BY <2>2
  <2> QED BY <2>3, <2>4, <2>5, Zenon
<1> QED BY <1>4, <1>5

\* The header of an object that is there, or of a new one.
LEMMA HeaderTells ==
    ASSUME NotifyInv, Steady, NEW f \in File, pc \in {"load", "reload"}, ReadHeader(f),
           pc = "reload" => \A g \in File \ {f} : ~InBody(g)
    PROVE  NotifyInv'
<1> DEFINE u == Entry(f).uid
           again == {o \in pool : uid[o] = u}
<1>1. /\ reader[f].pc = "header" /\ reader[f].at <= Len(disk[f])
      /\ UNCHANGED <<setup, disk>> /\ File' = File /\ Rel' = Rel
  BY SetupSame DEF ReadHeader
<1>2. /\ IsReader(reader[f]) /\ DOMAIN reader = File /\ Owner(f) = Null /\ reader[f].at \in 1 .. Len(disk[f])
      /\ Null \notin live /\ ~InBody(f)
  <2>1. Place(reader[f], disk[f]) /\ ~InBody(f)
    BY <1>1 DEF NotifyInv, Places, InBody
  <2>2. reader[f].at \in Nat \ {0} /\ Len(disk[f]) \in Nat
    BY <1>1, <2>1, TextOf DEF Place
  <2> QED BY <1>1, <2>1, <2>2, TextOf
<1>3. live \subseteq Address /\ pool \subseteq Address /\ DOMAIN uid = Address /\ Valued /\ setup \in Setups
  BY DEF NotifyInv, StateTyped
<1>4. ASSUME NEW a \in Address, reader' = Body(f, a), pc' = pc
      PROVE  /\ Places' /\ DOMAIN reader' = File'
             /\ \A o \in live : Marked(o) => Marked(o)'
  <2> DEFINE x == [pc |-> "body", at |-> reader[f].at, obj |-> a, rels |-> setup.rels, acc |-> <<>>,
                   fresh |-> reader[f].fresh, update |-> FALSE]
  <2>1. Becomes(reader', reader, f, x)
    BY <1>2, <1>4, ReaderBecomes DEF Body
  <2>2. IsReader(x) /\ x.pc = "body" /\ x.at = reader[f].at /\ x.obj = a /\ x.rels = setup.rels
    BY ReaderParts
  <2>3. x.update = FALSE
    BY Zenon
  <2> HIDE DEF x
  <2>4. setup.rels \in Seq(Rel)
    BY <1>3, SetupParts
  <2>5. \A i \in DOMAIN x.rels : i > 1 \/ x.update => x.rels[i] \notin setup.exclusive
    BY <2>2, <2>3, <2>4 DEF Steady
  <2>6. Place(x, disk[f])
    BY <1>2, <2>2, <2>4, <2>5 DEF Place
  <2>7. Places' /\ DOMAIN reader' = File' /\ \A g \in File \ {f} : reader'[g] = reader[g]
    BY <1>1, <1>4, <2>1, <2>6, PlaceKept
  <2>8. ASSUME NEW o \in live, Marked(o) PROVE Marked(o)'
    BY <1>1, <1>2, <2>7, <2>8, MarkKept
  <2> QED BY <2>7, <2>8
<1>5. CASE again # {}
  <2>1. PICK o \in again : /\ pool' = pool \ {o} /\ reader' = Body(f, o)
                           /\ value' = IF setup.notify THEN value ELSE [value EXCEPT ![o] = NoValue]
                           /\ UNCHANGED <<live, uid, rcr, pc, test, doomed, created, reported, deleted, before, reloads>>
    BY <1>5 DEF ReadHeader
  <2>2. o \in Address
    BY <1>3
  <2>3. Valued'
    <3>1. CASE setup.notify
      BY <1>1, <1>3, <2>1, <3>1 DEF Valued
    <3>2. CASE ~setup.notify
      <4>1. value' = [value EXCEPT ![o] = NoValue]
        BY <2>1, <3>2
      <4>2. NoValue = [r \in Rel |-> NoValue[r]]
        BY DEF NoValue
      <4> HIDE DEF again
      <4> QED BY <1>1, <1>3, <2>2, <4>1, <4>2, ValuedUpdate
    <3> QED BY <3>1, <3>2
  <2>4. Places' /\ DOMAIN reader' = File' /\ \A b \in live : Marked(b) => Marked(b)'
    BY <1>4, <2>1, <2>2
  <2>5. StateTyped'
    BY <1>1, <1>3, <2>1, <2>3, <2>4 DEF NotifyInv, StateTyped
  <2>6. setup.notify => \A b \in live : Described(b)' = Described(b)
    BY <1>1, <2>1, DescribedSame
  <2>7. ChangesTold' /\ RemovalsTold'
    BY <1>1, <2>1, <2>4, <2>6, ToldKept
  <2> QED BY <2>4, <2>5, <2>7 DEF NotifyInv
<1>6. CASE again = {} /\ Refused(u)
  <2>1. Fail(f, TRUE) /\ UNCHANGED objectVars
    BY <1>6 DEF ReadHeader
  <2>2. Valued'
    BY <1>1, <1>3, <2>1 DEF Valued, objectVars
  <2>3. \A o \in live : Described(o)' = Described(o) /\ Owner(f) # o
    BY <1>1, <1>2, <2>1, DescribedSame DEF objectVars
  <2> QED BY <1>1, <2>1, <2>2, <2>3, FailTells DEF objectVars
<1>7. CASE again = {} /\ ~Refused(u)
  <2>1. PICK a \in Address : /\ ~InUse(a) /\ reader' = Body(f, a)
                             /\ uid' = [uid EXCEPT ![a] = IF GetObject(u) # Null THEN UniqueId(u) ELSE u]
                             /\ value' = [value EXCEPT ![a] = NoValue]
                             /\ UNCHANGED <<live, pc, test, reloadVars>>
    BY <1>7 DEF ReadHeader
  <2>2. a \notin live /\ DOMAIN uid' = Address /\ \A b \in live : uid'[b] = uid[b]
    BY <1>3, <2>1 DEF InUse
  <2>3. Valued' /\ \A b \in Address \ {a} : value'[b] = value[b]
    <3>1. NoValue = [r \in Rel |-> NoValue[r]]
      BY DEF NoValue
    <3> QED BY <1>1, <1>3, <2>1, <3>1, ValuedUpdate
  <2>4. Places' /\ DOMAIN reader' = File' /\ \A b \in live : Marked(b) => Marked(b)'
    BY <1>4, <2>1
  <2>5. StateTyped'
    BY <1>1, <1>3, <2>1, <2>2, <2>3, <2>4 DEF NotifyInv, StateTyped, reloadVars
  <2>6. \A b \in live : Described(b)' = Described(b)
    BY <1>1, <1>3, <2>2, <2>3, DescribedSame
  <2>7. ChangesTold' /\ RemovalsTold'
    BY <1>1, <2>1, <2>2, <2>4, <2>6, ToldKept DEF reloadVars
  <2> QED BY <2>4, <2>5, <2>7 DEF NotifyInv
<1> QED BY <1>5, <1>6, <1>7

\* A reader goes on inside of a relationship, or at the end of the file.
LEMMA ReadingTells ==
    ASSUME NotifyInv, NEW f \in File, NEW x, Becomes(reader', reader, f, x), Place(x, disk[f]),
           Owner(f) # Null => x.obj = reader[f].obj /\ x.update = reader[f].update,
           UNCHANGED <<setup, disk, pc, live, uid, value, pool, reported, before, deleted>>, pc \in {"load", "reload"}
    PROVE  NotifyInv'
<1>1. /\ Places' /\ DOMAIN reader' = File' /\ reader'[f] = x
      /\ \A g \in File \ {f} : reader'[g] = reader[g]
  BY PlaceKept
<1>2. File' = File /\ Rel' = Rel /\ Null \notin live
  BY SetupSame, TextOf
<1>3. StateTyped'
  BY <1>1, <1>2 DEF NotifyInv, StateTyped, Valued
<1>4. \A o \in live : Marked(o) => Marked(o)'
  <2> SUFFICES ASSUME NEW o \in live, Marked(o) PROVE Marked(o)'
    OBVIOUS
  <2>1. Owner(f) = o /\ reader[f].update => reader'[f].obj = o /\ reader'[f].update
    BY <1>1, <1>2 DEF Owner
  <2> QED BY <1>1, <2>1, MarkKept
<1>5. \A o \in live : Described(o)' = Described(o)
  BY DescribedSame
<1>6. ChangesTold' /\ RemovalsTold'
  BY <1>4, <1>5, ToldKept
<1> QED BY <1>1, <1>3, <1>6 DEF NotifyInv

\* A reference is read: only a part that refuses has the reader fail, and then
\* the relationship is the first one.
LEMMA ReferenceTells ==
    ASSUME NotifyInv, NEW f \in File, pc \in {"load", "reload"}, ReadReference(f),
           pc = "reload" => \A g \in File \ {f} : ~InBody(g)
    PROVE  NotifyInv'
<1> DEFINE old == reader[f]
           u == NextName(f)
           o == GetObject(u)
           r == Current(f)
           accepts == IF o # Null /\ r \in setup.composite THEN CanAdd(rcr[o], Owner(f), r) ELSE TRUE
           fresh == rcr[o] = {}
           acc == Append(old.acc, Ref(u, o))
<1>1. /\ InBody(f) /\ old.pc = "body" /\ old.rels # <<>>
      /\ UNCHANGED <<setup, disk, live, uid>> /\ File' = File /\ Rel' = Rel
  BY SetupSame DEF ReadReference, InRelationship, InBody
<1>2. Place(old, disk[f]) /\ IsReader(old) /\ DOMAIN reader = File /\ Owner(f) \in Address /\ Null \notin live
  BY <1>1, TextOf DEF NotifyInv, Places
<1>3. r = old.rels[1] /\ r \in Rel /\ 1 \in DOMAIN old.rels
  <2> DEFINE s == old.rels
  <2>1. s \in Seq(Rel) /\ s # <<>> /\ r = Head(s)
    BY <1>1, <1>2 DEF Place, Current
  <2> HIDE DEF s, r
  <2>2. Head(s) = s[1] /\ s[1] \in Rel /\ 1 \in DOMAIN s
    BY <2>1
  <2> QED BY <2>1, <2>2 DEF s
<1>4. CASE reader' = Accept(f, Ref(u, o)) /\ UNCHANGED <<value, pc, test, reloadVars>>
  <2> DEFINE x == [pc |-> "body", at |-> old.at, obj |-> old.obj, rels |-> old.rels, acc |-> acc,
                   fresh |-> old.fresh, update |-> old.update]
  <2>1. Becomes(reader', reader, f, x)
    <3>1. reader' = [reader EXCEPT ![f].pc = "body", ![f].acc = acc]
      BY <1>4 DEF Accept
    <3> HIDE DEF acc
    <3> QED BY <1>2, <3>1, ReaderBecomes
  <2>2. IsReader(x) /\ x.pc = "body" /\ x.at = old.at /\ x.obj = old.obj /\ x.rels = old.rels
    BY ReaderParts
  <2>3. x.update = old.update
    BY Zenon
  <2> HIDE DEF x, acc
  <2>4. Place(x, disk[f])
    BY <1>1, <1>2, <2>2, <2>3 DEF Place
  <2> QED BY <1>1, <1>4, <2>1, <2>2, <2>3, <2>4, ReadingTells DEF reloadVars
<1>5. CASE reader' = [reader EXCEPT ![f].pc = "add", ![f].fresh = fresh] /\ UNCHANGED <<value, pc, test, reloadVars>>
  <2> DEFINE x == [pc |-> "add", at |-> old.at, obj |-> old.obj, rels |-> old.rels, acc |-> old.acc,
                   fresh |-> fresh, update |-> old.update]
  <2>1. Becomes(reader', reader, f, x)
    <3> HIDE DEF fresh
    <3> QED BY <1>2, <1>5, ReaderBecomes
  <2>2. IsReader(x) /\ x.pc = "add" /\ x.at = old.at /\ x.obj = old.obj /\ x.rels = old.rels
    BY ReaderParts
  <2>3. x.update = old.update
    BY Zenon
  <2> HIDE DEF x, fresh
  <2>4. Place(x, disk[f])
    BY <1>1, <1>2, <2>2, <2>3 DEF Place
  <2> QED BY <1>1, <1>5, <2>1, <2>2, <2>3, <2>4, ReadingTells DEF reloadVars
<1>6. CASE ~accepts /\ Partial(f) /\ Fail(f, FALSE)
  <2>1. r \in setup.exclusive /\ ~old.update
    BY <1>2, <1>3, <1>6 DEF CanAdd, Place
  <2> DEFINE v == IF setup.notify /\ Rereads(f) THEN value[Owner(f)][r] ELSE old.acc
  <2>2. value' = [value EXCEPT ![Owner(f)][r] = v]
    BY <1>6 DEF Partial
  <2>3. Valued
    BY DEF NotifyInv, StateTyped
  <2>4. Valued' /\ (\A a \in Address \ {Owner(f)} : value'[a] = value[a])
        /\ (setup.notify /\ Rereads(f) => value' = value)
    <3> HIDE DEF r, old, v
    <3>1. Valued' /\ (\A a \in Address \ {Owner(f)} : value'[a] = value[a]) /\ (v = value[Owner(f)][r] => value' = value)
      BY <1>1, <1>2, <1>3, <2>2, <2>3, RelationshipUpdate
    <3> QED BY <3>1 DEF v
  <2>5. setup.notify => \A a \in live : Described(a)' = Described(a)
    <3> SUFFICES ASSUME setup.notify, NEW a \in live PROVE value'[a] = value[a]
      BY <1>1, DescribedSame
    <3>1. a \in Address
      BY DEF NotifyInv, StateTyped
    <3>2. CASE a = Owner(f)
      BY <2>4, <3>2 DEF Rereads
    <3>3. CASE a # Owner(f)
      BY <2>4, <3>1, <3>3
    <3> QED BY <3>2, <3>3
  <2>6. \A a \in live : ~(Owner(f) = a /\ reader[f].update)
    BY <2>1
  <2> QED BY <1>1, <1>6, <2>4, <2>5, <2>6, FailTells
<1> QED BY <1>4, <1>5, <1>6 DEF ReadReference

\* The parent is added.
LEMMA AddTells ==
    ASSUME NotifyInv, NEW f \in File, pc \in {"load", "reload"}, AddRcr(f)
    PROVE  NotifyInv'
<1> DEFINE old == reader[f]
           acc == Append(old.acc, Ref(NextName(f), GetObject(NextName(f))))
           x == [pc |-> "body", at |-> old.at, obj |-> old.obj, rels |-> old.rels, acc |-> acc,
                 fresh |-> old.fresh, update |-> old.update]
<1>1. InBody(f) /\ old.pc = "add" /\ UNCHANGED <<live, uid, value, pc, reloadVars, setup, disk>>
  BY DEF AddRcr, InBody
<1>2. Place(old, disk[f]) /\ IsReader(old) /\ DOMAIN reader = File
  BY <1>1, TextOf DEF NotifyInv, Places
<1>3. Becomes(reader', reader, f, x)
  <2>1. reader' = [reader EXCEPT ![f].pc = "body", ![f].acc = acc]
    BY DEF AddRcr, Accept
  <2> HIDE DEF acc
  <2> QED BY <1>2, <2>1, ReaderBecomes
<1>4. IsReader(x) /\ x.pc = "body" /\ x.at = old.at /\ x.obj = old.obj /\ x.rels = old.rels
  BY ReaderParts
<1>5. x.update = old.update
  BY Zenon
<1> HIDE DEF x, acc
<1>6. Place(x, disk[f])
  BY <1>1, <1>2, <1>4, <1>5 DEF Place
<1> QED BY <1>1, <1>3, <1>4, <1>5, <1>6, ReadingTells DEF reloadVars

\* The file is read.
LEMMA EndFileTells ==
    ASSUME NotifyInv, NEW f \in File, pc \in {"load", "reload"}, EndFile(f)
    PROVE  NotifyInv'
<1> DEFINE old == reader[f]
           x == [pc |-> "done", at |-> old.at, obj |-> old.obj, rels |-> old.rels, acc |-> old.acc,
                 fresh |-> old.fresh, update |-> old.update]
<1>1. /\ old.pc = "header" /\ ~InBody(f) /\ reader' = [reader EXCEPT ![f].pc = "done"]
      /\ UNCHANGED <<objectVars, pc, reloadVars, setup, disk>>
  BY DEF EndFile, InBody
<1>2. Place(old, disk[f]) /\ IsReader(old) /\ DOMAIN reader = File /\ Owner(f) = Null
  BY <1>1, TextOf DEF NotifyInv, Places
<1>3. Becomes(reader', reader, f, x)
  BY <1>1, <1>2, ReaderBecomes
<1>4. IsReader(x) /\ x.pc = "done" /\ x.at = old.at /\ x.obj = old.obj /\ x.rels = old.rels
  BY ReaderParts
<1>5. x.update = old.update
  BY Zenon
<1> HIDE DEF x
<1>6. Place(x, disk[f])
  BY <1>1, <1>2, <1>4, <1>5 DEF Place
<1> QED BY <1>1, <1>2, <1>3, <1>4, <1>5, <1>6, ReadingTells DEF reloadVars, objectVars

\* A relationship is complete: when the value is another one the reader will
\* report the object.
LEMMA RelationshipTells ==
    ASSUME NotifyInv, NEW f \in File, pc \in {"load", "reload"}, EndRelationship(f)
    PROVE  NotifyInv'
<1> DEFINE old == reader[f]
           r == Current(f)
           b == old.update \/ (Rereads(f) /\ value' # value)
           x == [pc |-> old.pc, at |-> old.at, obj |-> old.obj, rels |-> Tail(old.rels), acc |-> <<>>,
                 fresh |-> old.fresh, update |-> b]
<1>1. /\ InBody(f) /\ old.pc = "body" /\ old.rels # <<>>
      /\ UNCHANGED <<live, uid, pc, reloadVars, setup, disk>> /\ File' = File /\ Rel' = Rel
  BY SetupSame DEF EndRelationship, InBody
<1>2. /\ Place(old, disk[f]) /\ IsReader(old) /\ DOMAIN reader = File /\ Owner(f) \in Address
      /\ live \subseteq Address /\ Valued
  BY <1>1, TextOf DEF NotifyInv, Places, StateTyped
<1>3. Becomes(reader', reader, f, x)
  <2>1. reader' = [reader EXCEPT ![f].rels = Tail(old.rels), ![f].acc = <<>>, ![f].update = b]
    BY DEF EndRelationship
  <2> HIDE DEF b
  <2> QED BY <1>2, <2>1, ReaderBecomes
<1>4. IsReader(x) /\ x.pc = "body" /\ x.at = old.at /\ x.obj = old.obj /\ x.rels = Tail(old.rels)
  BY <1>1, ReaderParts
<1>5. x.update = b
  BY Zenon
<1> HIDE DEF x
<1>6. /\ r \in Rel /\ x.rels \in Seq(Rel)
      /\ \A i \in DOMAIN x.rels : i + 1 \in DOMAIN old.rels /\ i + 1 > 1 /\ x.rels[i] = old.rels[i + 1]
  <2> DEFINE s == old.rels
  <2>1. s \in Seq(Rel) /\ s # <<>> /\ r = Head(s) /\ x.rels = Tail(s)
    BY <1>1, <1>2, <1>4 DEF Place, Current
  <2> HIDE DEF s, r
  <2> QED BY <2>1 DEF s
<1>7. Place(x, disk[f])
  <2>1. \A i \in DOMAIN x.rels : x.rels[i] \notin setup.exclusive
    BY <1>2, <1>6 DEF Place
  <2> QED BY <1>1, <1>2, <1>4, <1>6, <2>1 DEF Place
<1>8. /\ Places' /\ DOMAIN reader' = File' /\ reader'[f] = x
      /\ \A g \in File \ {f} : reader'[g] = reader[g]
  BY <1>1, <1>3, <1>7, PlaceKept
<1>9. Valued' /\ \A a \in Address \ {Owner(f)} : value'[a] = value[a]
  <2>1. value' = [value EXCEPT ![Owner(f)][r] = old.acc]
    BY DEF EndRelationship
  <2> HIDE DEF old, r
  <2> QED BY <1>1, <1>2, <1>6, <2>1, RelationshipUpdate
<1>10. StateTyped'
  BY <1>1, <1>8, <1>9 DEF NotifyInv, StateTyped, reloadVars
<1>11. \A o \in live : Marked(o) => Marked(o)'
  <2> SUFFICES ASSUME NEW o \in live, Marked(o) PROVE Marked(o)'
    OBVIOUS
  <2>1. Owner(f) = o /\ old.update => reader'[f].obj = o /\ reader'[f].update
    BY <1>4, <1>5, <1>8 DEF Owner
  <2> QED BY <1>1, <1>8, <2>1, MarkKept
<1>12. \A o \in live : Described(o)' = Described(o) \/ Marked(o)'
  <2> TAKE o \in live
  <2>1. CASE value'[o] = value[o]
    BY <1>1, <2>1, DescribedSame
  <2>2. CASE value'[o] # value[o]
    <3>1. o = Owner(f) /\ value' # value
      BY <1>2, <1>9, <2>2
    <3>2. reader'[f].obj = o /\ reader'[f].update
      BY <1>4, <1>5, <1>8, <3>1 DEF Owner, Rereads
    <3> QED BY <1>1, <3>2 DEF Marked, Owner
  <2> QED BY <2>1, <2>2
<1>13. ChangesTold' /\ RemovalsTold'
  BY <1>1, <1>11, <1>12, ToldKept DEF reloadVars
<1> QED BY <1>8, <1>10, <1>13 DEF NotifyInv

\* An object is read to its end.
LEMMA ObjectTells ==
    ASSUME NotifyInv, Steady, NEW f \in File, pc \in {"load", "reload"}, EndObject(f),
           pc = "reload" => \A g \in File \ {f} : ~InBody(g)
    PROVE  NotifyInv'
<1> DEFINE old == reader[f]
           x == [pc |-> "header", at |-> old.at + 1, obj |-> Null, rels |-> old.rels, acc |-> old.acc,
                 fresh |-> old.fresh, update |-> old.update]
<1>1. InBody(f) /\ UNCHANGED <<uid, file, value, rcr, setup, disk>> /\ File' = File /\ Rel' = Rel
  BY SetupSame DEF EndObject, InBody
<1>2. /\ Place(old, disk[f]) /\ IsReader(old) /\ DOMAIN reader = File /\ Owner(f) \in Address
      /\ live \subseteq Address /\ Valued /\ Null \notin live /\ Entry(f).readable
      /\ old.at \in 1 .. Len(disk[f]) /\ Len(disk[f]) \in Nat
  BY <1>1, TextOf DEF NotifyInv, Places, StateTyped
<1>3. Valued' /\ \A o \in live : Described(o)' = Described(o)
  BY <1>1, <1>2, DescribedSame DEF Valued
<1>4. ASSUME reader' = Next1(f), pc' = pc
      PROVE  /\ Places' /\ DOMAIN reader' = File' /\ \A g \in File \ {f} : reader'[g] = reader[g]
  <2>1. Becomes(reader', reader, f, x)
    BY <1>2, <1>4, ReaderBecomes DEF Next1
  <2>2. IsReader(x) /\ x.pc = "header" /\ x.at = old.at + 1 /\ x.obj = Null /\ x.rels = old.rels
    BY ReaderParts
  <2>3. x.update = old.update
    BY Zenon
  <2> HIDE DEF x
  <2>4. Place(x, disk[f])
    BY <1>2, <2>2, <2>3 DEF Place
  <2> QED BY <1>1, <1>4, <2>1, <2>4, PlaceKept
<1>5. CASE ~Rereads(f) /\ Fail(f, FALSE) /\ UNCHANGED live
  <2>1. \A o \in live : ~(Owner(f) = o /\ reader[f].update)
    BY <1>5 DEF Rereads
  <2> QED BY <1>1, <1>3, <1>5, <2>1, FailTells
<1>6. CASE /\ Rereads(f) /\ reader' = Next1(f) /\ ChangeNotify(f)
           /\ UNCHANGED <<live, pc, test, pool, doomed, created, deleted, before, reloads>>
  <2>1. Places' /\ DOMAIN reader' = File' /\ \A g \in File \ {f} : reader'[g] = reader[g]
    BY <1>4, <1>6
  <2>2. StateTyped'
    BY <1>1, <1>3, <1>6, <2>1 DEF NotifyInv, StateTyped
  <2>3. /\ reported \subseteq reported'
        /\ setup.notify => \A o \in live : Marked(o) => Marked(o)' \/ o \in reported'
    <3>1. reported' = IF setup.notify /\ reader[f].update THEN reported \cup {Owner(f)} ELSE reported
      BY <1>6 DEF ChangeNotify
    <3>2. ASSUME setup.notify, NEW o \in live, Marked(o), o \notin reported' PROVE Marked(o)'
      <4>1. ~(Owner(f) = o /\ reader[f].update)
        BY <3>1, <3>2
      <4> QED BY <1>1, <2>1, <3>2, <4>1, MarkKept
    <3> QED BY <3>1, <3>2
  <2>4. ChangesTold' /\ RemovalsTold'
    BY <1>1, <1>3, <1>6, <2>3, ToldKept
  <2> QED BY <2>1, <2>2, <2>4 DEF NotifyInv
<1>7. CASE /\ ~Rereads(f) /\ live' = live \cup {Owner(f)} /\ reader' = Next1(f)
           /\ IF Loading THEN UNCHANGED <<created, reported>>
              ELSE created' = created \cup {Owner(f)} /\ reported' = reported \cup {Owner(f)}
           /\ UNCHANGED <<pc, test, pool, doomed, deleted, before, reloads>>
  <2>1. Places' /\ DOMAIN reader' = File' /\ \A g \in File \ {f} : reader'[g] = reader[g]
    BY <1>4, <1>7
  <2>2. StateTyped'
    BY <1>1, <1>2, <1>3, <1>7, <2>1 DEF NotifyInv, StateTyped
  <2>3. ChangesTold'
    <3> SUFFICES ASSUME setup.notify, pc = "reload", NEW o \in live' PROVE Told(o)'
      BY <1>1, <1>7 DEF ChangesTold
    <3>1. reported' = reported \cup {Owner(f)} /\ before' = before
      BY <1>7 DEF Loading
    <3>2. CASE o = Owner(f)
      BY <3>1, <3>2 DEF Told
    <3>3. CASE o \in live
      <4>1. Told(o)
        BY <3>3 DEF NotifyInv, ChangesTold
      <4>2. Marked(o) => Marked(o)'
        BY <1>1, <1>7, <2>1, <3>3, MarkKept DEF Rereads
      <4> QED BY <1>3, <3>1, <3>3, <4>1, <4>2 DEF Told
    <3> QED BY <1>7, <3>2, <3>3
  <2>4. RemovalsTold'
    BY <1>1, <1>7 DEF NotifyInv, RemovalsTold
  <2> QED BY <2>1, <2>2, <2>3, <2>4 DEF NotifyInv
<1> QED BY <1>2, <1>5, <1>6, <1>7 DEF EndObject

\* Outside of objects no reader has anything to report.
LEMMA NoMarks ==
    ASSUME NotifyInv, \A f \in File : ~InBody(f)
    PROVE  \A o \in live : ~Marked(o)
<1>1. \A f \in File : Owner(f) = Null /\ Null \notin live
  BY TextOf
<1> QED BY <1>1 DEF Marked

LEMMA NobodyReads ==
    ASSUME NotifyInv, pc \notin {"load", "reload"}
    PROVE  \A f \in File : ~InBody(f)
BY DEF NotifyInv, Places

\* Readers that are not inside of an object may wait for other texts.
LEMMA PlacesRenewed ==
    ASSUME NotifyInv, setup' = setup,
           \A f \in File : \/ reader'[f] = reader[f] /\ ~InBody(f)
                           \/ reader'[f] \in {NoReader, [NoReader EXCEPT !.pc = "header"]}
    PROVE  Places'
<1>1. File' = File /\ Rel' = Rel
  BY SetupSame
<1> SUFFICES ASSUME NEW f \in File PROVE Place(reader'[f], disk'[f]) /\ ~InBody(f)'
  BY <1>1 DEF Places, Place, IsReader
<1>2. CASE reader'[f] = reader[f] /\ ~InBody(f)
  BY <1>2 DEF NotifyInv, Places, Place, InBody
<1>3. CASE reader'[f] \in {NoReader, [NoReader EXCEPT !.pc = "header"]}
  <2>1. Place(reader'[f], disk'[f])
    BY <1>3, PlaceOfNone
  <2>2. NoReader.pc = "wait" /\ [NoReader EXCEPT !.pc = "header"].pc = "header"
    BY DEF NoReader
  <2> QED BY <1>3, <2>1, <2>2 DEF InBody
<1> QED BY <1>2, <1>3

\* References get other pointers.
LEMMA PointersChange ==
    ASSUME NotifyInv, UNCHANGED <<setup, uid>>,
           value' = [s \in Address |-> [r \in Rel |-> [i \in DOMAIN value[s][r] |-> value'[s][r][i]]]],
           \A s \in Address, r \in Rel : \A i \in DOMAIN value[s][r] : value'[s][r][i].uid = value[s][r][i].uid
    PROVE  Valued' /\ \A o \in live : Described(o)' = Described(o)
<1>1. Rel' = Rel /\ live \subseteq Address
  BY SetupSame DEF NotifyInv, StateTyped
<1>2. ASSUME NEW s \in Address, NEW r \in Rel PROVE NamesIn(value'[s][r]) = NamesIn(value[s][r])
  <2> DEFINE v == value[s][r]
             w == value'[s][r]
  <2>1. DOMAIN w = DOMAIN v /\ \A i \in DOMAIN v : w[i].uid = v[i].uid
    OBVIOUS
  <2> HIDE DEF v, w
  <2>2. NamesIn(w) = NamesIn(v)
    BY <2>1 DEF NamesIn
  <2> QED BY <2>2 DEF v, w
<1>3. \A o \in live : Described(o)' = Described(o)
  BY <1>1, <1>2, SameNames
<1>4. value' = [s \in Address |-> [r \in Rel |-> value'[s][r]]]
  <2> DEFINE w == value'
             n(s, r) == [i \in DOMAIN value[s][r] |-> value'[s][r][i]]
  <2>1. w = [s \in Address |-> [r \in Rel |-> n(s, r)]]
    OBVIOUS
  <2> HIDE DEF w, n
  <2>2. w = [s \in Address |-> [r \in Rel |-> w[s][r]]]
    BY <2>1
  <2> QED BY <2>2 DEF w
<1> QED BY <1>1, <1>3, <1>4 DEF Valued

LEMMA BoundDescribes ==
    ASSUME NotifyInv, UNCHANGED <<setup, uid>>, NEW T, value' = Bound(T)
    PROVE  Valued' /\ \A o \in live : Described(o)' = Described(o)
<1> DEFINE g(s, q, i) ==
            LET ref == value[s][q][i]
                to  == {t \in T : t[2] = s /\ t[3] = q /\ ref = Ref(uid[t[1]], Null)}
            IN  IF to = {} THEN ref ELSE Ref(ref.uid, (CHOOSE t \in to : TRUE)[1])
<1>1. value' = [s \in Address |-> [q \in Rel |-> [i \in DOMAIN value[s][q] |-> g(s, q, i)]]]
  BY DEF Bound
<1>2. \A s, q, i : g(s, q, i).uid = value[s][q][i].uid
  BY DEF Ref
<1> HIDE DEF g
<1>3. \A s \in Address, q \in Rel : \A i \in DOMAIN value[s][q] : value'[s][q][i] = g(s, q, i)
  BY <1>1
<1>4. value' = [s \in Address |-> [q \in Rel |-> [i \in DOMAIN value[s][q] |-> value'[s][q][i]]]]
  BY <1>1, <1>3
<1> QED BY <1>2, <1>3, <1>4, PointersChange

LEMMA BindDescribes ==
    ASSUME NotifyInv, UNCHANGED <<setup, uid>>, NEW succeeds, Bind(succeeds)
    PROVE  Valued' /\ \A o \in live : Described(o)' = Described(o)
<1>1. PICK T : value' = Bound(T)
  BY DEF Bind
<1> QED BY <1>1, BoundDescribes

LEMMA UnboundDescribes ==
    ASSUME NotifyInv, UNCHANGED <<setup, uid>>, NEW P, value' = Unbound(P)
    PROVE  Valued' /\ \A o \in live : Described(o)' = Described(o)
<1> DEFINE g(s, q, i) == LET ref == value[s][q][i] IN IF s \in live /\ ref.obj \in P THEN Ref(ref.uid, Null) ELSE ref
<1>1. value' = [s \in Address |-> [q \in Rel |-> [i \in DOMAIN value[s][q] |-> g(s, q, i)]]]
  BY DEF Unbound
<1>2. \A s, q, i : g(s, q, i).uid = value[s][q][i].uid
  BY DEF Ref
<1> HIDE DEF g
<1>3. \A s \in Address, q \in Rel : \A i \in DOMAIN value[s][q] : value'[s][q][i] = g(s, q, i)
  BY <1>1
<1>4. value' = [s \in Address |-> [q \in Rel |-> [i \in DOMAIN value[s][q] |-> value'[s][q][i]]]]
  BY <1>1, <1>3
<1> QED BY <1>2, <1>3, <1>4, PointersChange

LEMMA InitTells == Init => NotifyInv
<1> SUFFICES ASSUME Init PROVE NotifyInv
  OBVIOUS
<1>1. /\ setup \in Setups /\ live = {} /\ pool = {} /\ before = {} /\ pc = "new"
      /\ uid = [a \in Address |-> None] /\ value = [a \in Address |-> NoValue]
      /\ reader = [f \in File |-> NoReader]
      /\ DOMAIN disk = File /\ \A f \in File : disk[f] \in setup.content[f]
  BY DEF Init
<1>2. Valued
  <2>1. \A a \in Address : value[a] = NoValue /\ NoValue = [r \in Rel |-> value[a][r]]
    BY <1>1 DEF NoValue
  <2> QED BY <1>1, <2>1 DEF Valued
<1>3. Places
  <2>1. \A f \in File : Place(reader[f], disk[f]) /\ reader[f].pc = "wait"
    BY <1>1, PlaceOfNone DEF NoReader
  <2> QED BY <2>1 DEF Places, InBody
<1> QED BY <1>1, <1>2, <1>3 DEF NotifyInv, StateTyped, ChangesTold, RemovalsTold

LEMMA LoadDataTells == NotifyInv /\ LoadData => NotifyInv'
<1> SUFFICES ASSUME NotifyInv, LoadData PROVE NotifyInv'
  OBVIOUS
<1>1. /\ UNCHANGED <<setup, disk, live, uid, value, reader, pool, before, deleted, reported>> /\ pc' = "load"
      /\ \A f \in File : ~InBody(f)
  BY NobodyReads DEF LoadData, objectVars, reloadVars
<1>2. Places'
  BY <1>1, PlacesRenewed
<1>3. StateTyped'
  BY <1>1, SetupSame DEF NotifyInv, StateTyped, Valued
<1>4. ChangesTold' /\ RemovalsTold'
  BY <1>1, ToldKept
<1> QED BY <1>2, <1>3, <1>4 DEF NotifyInv

LEMMA StartJobTells ==
    ASSUME NotifyInv, NEW f \in File, StartJob(f)
    PROVE  NotifyInv'
<1> DEFINE old == reader[f]
           x == [pc |-> "header", at |-> old.at, obj |-> old.obj, rels |-> old.rels, acc |-> old.acc,
                 fresh |-> old.fresh, update |-> old.update]
<1>1. /\ old.pc = "wait" /\ ~InBody(f) /\ reader' = [reader EXCEPT ![f].pc = "header"] /\ pc = "load"
      /\ UNCHANGED <<objectVars, pc, reloadVars, setup, disk>>
  BY DEF StartJob, Loading, InBody
<1>2. Place(old, disk[f]) /\ IsReader(old) /\ DOMAIN reader = File /\ Owner(f) = Null
  BY <1>1, TextOf DEF NotifyInv, Places
<1>3. Becomes(reader', reader, f, x)
  BY <1>1, <1>2, ReaderBecomes
<1>4. IsReader(x) /\ x.pc = "header" /\ x.at = old.at /\ x.obj = old.obj /\ x.rels = old.rels
  BY ReaderParts
<1>5. x.update = old.update
  BY Zenon
<1> HIDE DEF x
<1>6. Place(x, disk[f])
  BY <1>1, <1>2, <1>4, <1>5 DEF Place
<1> QED BY <1>1, <1>2, <1>3, <1>4, <1>5, <1>6, ReadingTells DEF reloadVars, objectVars

\* After a load all that is there is what the callbacks start from.
LEMMA EndLoadTells ==
    ASSUME NotifyInv, NEW succeeds \in BOOLEAN, EndLoad(succeeds)
    PROVE  NotifyInv'
<1>1. /\ UNCHANGED <<setup, disk, live, uid, pool, reported, deleted>> /\ File' = File
      /\ pc' = "idle" /\ reader' = [f \in File |-> NoReader]
      /\ before' = {<<o, Described(o)>> : o \in live}
  BY SetupSame DEF EndLoad
<1>2. Valued' /\ \A o \in live : Described(o)' = Described(o)
  <2>1. CASE \E f \in File : reader[f].pc = "failed"
    <3>1. value' = value
      BY <2>1 DEF EndLoad
    <3> QED BY <1>1, <3>1, DescribedSame, SetupSame DEF NotifyInv, StateTyped, Valued
  <2>2. CASE ~ \E f \in File : reader[f].pc = "failed"
    BY <1>1, <2>2, BindDescribes DEF EndLoad
  <2> QED BY <2>1, <2>2
<1>3. Places'
  BY <1>1, PlacesRenewed
<1>4. StateTyped'
  BY <1>1, <1>2 DEF NotifyInv, StateTyped
<1>5. ChangesTold'
  BY <1>1, <1>2 DEF ChangesTold, Told
<1>6. RemovalsTold'
  BY <1>1 DEF RemovalsTold, Described
<1> QED BY <1>3, <1>4, <1>5, <1>6 DEF NotifyInv

LEMMA EditTells ==
    ASSUME NotifyInv, NEW f \in File, Edit(f)
    PROVE  NotifyInv'
<1>1. /\ UNCHANGED <<setup, live, uid, value, pc, reader, pool, before, deleted, reported>> /\ File' = File
      /\ pc = "idle"
      /\ \E c \in setup.content[f] : disk' = [disk EXCEPT ![f] = c]
  BY SetupSame DEF Edit, Idle, objectVars, reloadVars
<1>2. Places'
  BY <1>1, NobodyReads, PlacesRenewed
<1>3. StateTyped'
  BY <1>1, SetupSame DEF NotifyInv, StateTyped, Valued
<1>4. \A o \in live : Described(o)' = Described(o) /\ ~Marked(o)
  BY <1>1, DescribedSame, NoMarks, NobodyReads
<1>5. ChangesTold' /\ RemovalsTold'
  BY <1>1, <1>4, ToldKept
<1> QED BY <1>2, <1>3, <1>5 DEF NotifyInv

\* A reload starts from what is there, or goes on from an earlier one that failed.
LEMMA ReloadDataTells ==
    ASSUME NotifyInv, NEW F, ReloadData(F)
    PROVE  NotifyInv'
<1>1. /\ UNCHANGED <<setup, disk, live, uid, value>> /\ File' = File /\ pc = "idle" /\ pc' = "reload"
      /\ pool' \subseteq live
      /\ reader' = [f \in File |-> IF f \in F THEN [NoReader EXCEPT !.pc = "header"] ELSE NoReader]
      /\ \/ before' = {<<o, Described(o)>> : o \in live}
         \/ UNCHANGED <<reported, deleted, before>>
  BY SetupSame DEF ReloadData, Idle
<1>2. Places'
  BY <1>1, PlacesRenewed
<1>3. StateTyped'
  BY <1>1, SetupSame DEF NotifyInv, StateTyped, Valued
<1>4. \A o \in live : Described(o)' = Described(o) /\ ~Marked(o)
  BY <1>1, DescribedSame, NoMarks, NobodyReads
<1>5. CASE before' = {<<o, Described(o)>> : o \in live}
  <2>1. ChangesTold'
    BY <1>1, <1>4, <1>5 DEF ChangesTold, Told
  <2>2. RemovalsTold'
    BY <1>1, <1>5 DEF RemovalsTold, Described
  <2> QED BY <1>2, <1>3, <2>1, <2>2 DEF NotifyInv
<1>6. CASE UNCHANGED <<reported, deleted, before>>
  <2>1. ChangesTold' /\ RemovalsTold'
    BY <1>1, <1>4, <1>6, ToldKept
  <2> QED BY <1>2, <1>3, <2>1 DEF NotifyInv
<1> QED BY <1>1, <1>5, <1>6

LEMMA RemoveOthersTells == NotifyInv /\ RemoveOthers => NotifyInv'
<1> SUFFICES ASSUME NotifyInv, RemoveOthers PROVE NotifyInv'
  OBVIOUS
<1>1. /\ UNCHANGED <<setup, disk, live, uid, reader, pool, before, deleted>> /\ File' = File
      /\ pc = "reload" /\ pc' = "remove" /\ reported \subseteq reported' /\ value' = Unbound(pool)
      /\ \A f \in File : ~InBody(f)
  BY SetupSame DEF RemoveOthers, InBody
<1>2. Valued' /\ \A o \in live : Described(o)' = Described(o) /\ ~Marked(o)
  BY <1>1, UnboundDescribes, NoMarks
<1>3. Places'
  BY <1>1, PlacesRenewed
<1>4. StateTyped'
  BY <1>1, <1>2 DEF NotifyInv, StateTyped
<1>5. ChangesTold' /\ RemovalsTold'
  BY <1>1, <1>2, ToldKept
<1> QED BY <1>3, <1>4, <1>5 DEF NotifyInv

\* The delete callback has the name that the object had.
LEMMA DeleteTells ==
    ASSUME NotifyInv, NEW o \in Address, DeleteObject(o)
    PROVE  NotifyInv'
<1>1. /\ UNCHANGED <<setup, disk, pc, reader, pool, before, reported>> /\ File' = File
      /\ pc = "remove" /\ live' = live \ {o} /\ deleted' = deleted \cup {uid[o]}
      /\ uid' = [uid EXCEPT ![o] = None] /\ value' = [value EXCEPT ![o] = NoValue]
  BY SetupSame DEF DeleteObject
<1>2. Valued /\ live \subseteq Address /\ DOMAIN uid = Address
  BY DEF NotifyInv, StateTyped
<1>3. Valued' /\ \A a \in Address \ {o} : value'[a] = value[a]
  <2>1. NoValue = [r \in Rel |-> NoValue[r]]
    BY DEF NoValue
  <2> QED BY <1>1, <1>2, <2>1, ValuedUpdate
<1>4. DOMAIN uid' = Address /\ \A a \in Address \ {o} : uid'[a] = uid[a]
  BY <1>1, <1>2
<1>5. Places'
  BY <1>1, NobodyReads, PlacesRenewed
<1>6. StateTyped'
  BY <1>1, <1>3, <1>4 DEF NotifyInv, StateTyped
<1>7. ChangesTold'
  <2> SUFFICES ASSUME setup.notify, NEW a \in live', a # o PROVE Told(a)'
    BY <1>1 DEF ChangesTold
  <2>1. a \in live /\ a \in Address
    BY <1>1, <1>2
  <2>2. Told(a) /\ ~Marked(a)
    BY <1>1, <2>1, NoMarks, NobodyReads DEF NotifyInv, ChangesTold
  <2>3. Described(a)' = Described(a)
    BY <1>1, <1>3, <1>4, <2>1, DescribedSame
  <2> QED BY <1>1, <2>2, <2>3 DEF Told
<1>8. RemovalsTold'
  <2> SUFFICES ASSUME NEW b \in before PROVE (b[1] \in live' /\ uid'[b[1]] = b[2][1]) \/ b[2][1] \in deleted'
    BY <1>1 DEF RemovalsTold
  <2>1. (b[1] \in live /\ uid[b[1]] = b[2][1]) \/ b[2][1] \in deleted
    BY DEF NotifyInv, RemovalsTold
  <2> QED BY <1>1, <1>2, <1>4, <2>1
<1> QED BY <1>5, <1>6, <1>7, <1>8 DEF NotifyInv

LEMMA EndReloadTells ==
    ASSUME NotifyInv, NEW succeeds \in BOOLEAN, EndReload(succeeds)
    PROVE  NotifyInv'
<1>1. /\ UNCHANGED <<setup, disk, live, uid, reported, deleted, before>> /\ File' = File
      /\ pc = "remove" /\ pc' = "idle" /\ pool' = {} /\ reader' = [f \in File |-> NoReader]
      /\ Bind(succeeds) \/ Bind(TRUE)
  BY SetupSame DEF EndReload
<1>2. Valued' /\ \A o \in live : Described(o)' = Described(o) /\ ~Marked(o)
  BY <1>1, BindDescribes, NoMarks, NobodyReads
<1>3. Places'
  BY <1>1, PlacesRenewed
<1>4. StateTyped'
  BY <1>1, <1>2 DEF NotifyInv, StateTyped
<1>5. ChangesTold' /\ RemovalsTold'
  BY <1>1, <1>2, ToldKept
<1> QED BY <1>3, <1>4, <1>5 DEF NotifyInv

\* Every step keeps what is told, and what will be.
LEMMA NextNotifyInv == NotifyInv /\ Steady /\ [Next]_vars => NotifyInv'
<1> SUFFICES ASSUME NotifyInv, Steady, [Next]_vars PROVE NotifyInv'
  OBVIOUS
<1>1. ASSUME NEW f \in File, pc \in {"load", "reload"}, ReadObject(f),
             pc = "reload" => \A g \in File \ {f} : ~InBody(g)
      PROVE  NotifyInv'
  <2>1. CASE ReadHeader(f)
    BY <1>1, <2>1, HeaderTells
  <2>2. CASE ReadReference(f)
    BY <1>1, <2>2, ReferenceTells
  <2>3. CASE AddRcr(f)
    BY <1>1, <2>3, AddTells
  <2>4. CASE EndRelationship(f)
    BY <1>1, <2>4, RelationshipTells
  <2>5. CASE EndObject(f)
    BY <1>1, <2>5, ObjectTells
  <2>6. CASE EndFile(f)
    BY <1>1, <2>6, EndFileTells
  <2> QED BY <1>1, <2>1, <2>2, <2>3, <2>4, <2>5, <2>6 DEF ReadObject
<1>2. ASSUME NEW f \in File, ReloadFile(f) PROVE NotifyInv'
  <2>1. [NoReader EXCEPT !.pc = "header"].pc = "header"
    BY DEF NoReader
  <2>2. pc = "reload" /\ ReadObject(f) /\ \A g \in File \ {f} : ~InBody(g)
    BY <1>2, <2>1 DEF ReloadFile, InBody, Reading
  <2> QED BY <1>1, <2>2
<1>3. ASSUME NEW f \in File, Loading, ReadObject(f) PROVE NotifyInv'
  BY <1>1, <1>3 DEF Loading
<1>4. CASE UNCHANGED vars
  <2>1. UNCHANGED <<setup, disk, live, uid, value, reader, pool, pc, reported, deleted, before>> /\ File' = File /\ Rel' = Rel
    BY <1>4, SetupSame DEF vars, objectVars, reloadVars
  <2>2. StateTyped' /\ Places'
    BY <2>1 DEF NotifyInv, StateTyped, Valued, Places, Place, IsReader, InBody
  <2>3. \A o \in live : Described(o)' = Described(o) /\ (Marked(o) => Marked(o)')
    BY <2>1, DescribedSame DEF Marked, Owner
  <2>4. ChangesTold' /\ RemovalsTold'
    BY <2>1, <2>3, ToldKept
  <2> QED BY <2>2, <2>4 DEF NotifyInv
<1>5. ASSUME NEW f \in File, StartJob(f) \/ Edit(f) PROVE NotifyInv'
  BY <1>5, StartJobTells, EditTells
<1> QED
  BY <1>2, <1>3, <1>4, <1>5, LoadDataTells, RemoveOthersTells, ReloadDataTells, DeleteTells, EndLoadTells, EndReloadTells DEF Next

\* The invariant where no text fails after a part of it was taken.
ChangesKnown == Steady => NotifyInv

-----------------------------------------------------------------------------
(* The theorems *)

\* Every step of a load, a reload or an edit keeps what was read as it was
\* written.
LEMMA NextReadInv == ReadInv /\ NoPartsDeleted /\ [Next]_vars => ReadInv'
<1> SUFFICES ASSUME ReadInv, NoPartsDeleted, [Next]_vars PROVE ReadInv'
  OBVIOUS
<1>1. ASSUME NEW f \in File, pc \in {"load", "reload"}, ReadObject(f) PROVE ReadInv'
  BY <1>1, HeaderStep, ReferenceStep, AddStep, RelationshipStep, EndObjectStep, EndFileStep DEF ReadObject
<1>2. ASSUME NEW f \in File, ReloadFile(f) PROVE ReadInv'
  BY <1>1, <1>2 DEF ReloadFile
<1>3. ASSUME NEW f \in File, Loading, ReadObject(f) PROVE ReadInv'
  BY <1>1, <1>3 DEF Loading
<1>4. CASE UNCHANGED vars
  <2>1. /\ UNCHANGED <<setup, disk, live, uid, file, value, reader, pool, doomed, seen, pc, reloads>>
        /\ File' = File /\ Rel' = Rel
    BY <1>4, SetupSame DEF vars, objectVars, reloadVars
  <2>2. \A f \in File : Here(f)' = Here(f) /\ Texts(f)' = Texts(f)
    <3> TAKE f \in File
    <3>1. \A o : (o \in Here(f)' <=> o \in Here(f)) /\ Described(o)' = Described(o)
      BY <2>1, DescribedSame DEF Here, Owner
    <3> QED BY <3>1, HereSame
  <2>3. StateOK' /\ UniqueNames' /\ ValuesSound'
    BY <2>1 DEF ReadInv, StateOK, UniqueNames, ValuesSound, Held, Owner
  <2>4. ReadersOK'
    BY <2>1 DEF ReadInv, ReadersOK, ReaderOK, InBody, InObject, Owner, Entry
  <2>5. FilesRead'
    BY <2>1, <2>2 DEF ReadInv, FilesRead, FileRead
  <2>6. PhaseOK'
    BY <2>1 DEF ReadInv, PhaseOK, NoneToDoomed
  <2>7. Bindings'
    <3>1. (AllSeen' <=> AllSeen) /\ \A u : GetObject(u)' = GetObject(u)
      BY <2>1 DEF AllSeen, GetObject
    <3> QED BY <3>1, <2>1 DEF ReadInv, Bindings, AllBound, Idle
  <2> QED BY <2>3, <2>4, <2>5, <2>6, <2>7 DEF ReadInv
<1> QED
  BY <1>2, <1>3, <1>4, LoadDataStep, RemoveOthersStep, StartJobStep, EditStep, ReloadDataStep, DeleteObjectStep, EndLoadStep, EndReloadStep DEF Next

\* The setup of a behaviour stays.
LEMMA SetupFixed == [Next]_vars => setup' = setup
<1>1. ASSUME NEW f, ReadObject(f) PROVE setup' = setup
  <2>1. CASE ReadHeader(f)
    BY <2>1 DEF ReadHeader
  <2>2. CASE ReadReference(f)
    BY <2>2 DEF ReadReference
  <2>3. CASE AddRcr(f)
    BY <2>3 DEF AddRcr
  <2>4. CASE EndRelationship(f)
    BY <2>4 DEF EndRelationship
  <2>5. CASE EndObject(f)
    BY <2>5 DEF EndObject
  <2>6. CASE EndFile(f)
    BY <2>6 DEF EndFile
  <2> QED BY <1>1, <2>1, <2>2, <2>3, <2>4, <2>5, <2>6 DEF ReadObject
<1>2. ASSUME NEW f, StartJob(f) \/ Edit(f) PROVE setup' = setup
  BY <1>2 DEF StartJob, Edit
<1>3. ASSUME NEW f, ReloadFile(f) PROVE setup' = setup
  BY <1>1, <1>3 DEF ReloadFile
<1>4. LoadData \/ RemoveOthers => setup' = setup
  BY DEF LoadData, RemoveOthers
<1>5. ASSUME NEW F, ReloadData(F) PROVE setup' = setup
  BY <1>5 DEF ReloadData
<1>6. ASSUME NEW o, DeleteObject(o) PROVE setup' = setup
  BY <1>6 DEF DeleteObject
<1>7. ASSUME NEW b, EndLoad(b) \/ EndReload(b) PROVE setup' = setup
  BY <1>7 DEF EndLoad, EndReload
<1>8. UNCHANGED vars => setup' = setup
  BY DEF vars
<1> QED BY <1>1, <1>2, <1>3, <1>4, <1>5, <1>6, <1>7, <1>8 DEF Next

\* What was read completely of each file is what the file says, wherever the
\* other readers are, whatever failed; pointers are to objects of the name they
\* were read with.
THEOREM ObjectsInvariant == Spec => []ObjectsInv
<1>1. Init => ObjectsInv
  BY InitStep DEF Init, ObjectsInv
<1>2. ObjectsInv /\ [Next]_vars => ObjectsInv'
  <2> SUFFICES ASSUME ObjectsInv, [Next]_vars PROVE ObjectsInv'
    OBVIOUS
  <2>1. setup' = setup /\ (NoPartsDeleted' <=> NoPartsDeleted)
    BY SetupFixed, SetupSame
  <2> QED BY <2>1, NextReadInv DEF ObjectsInv
<1> QED BY <1>1, <1>2, PTL DEF Spec

\* Between calls memory holds what the files that were read with success hold,
\* for all files, threads and contents and after any failed calls, where no
\* reload deletes dependent parts.
THEOREM MemoryAlwaysIsFiles == Spec => [](NoPartsDeleted => MemoryIsFiles)
<1>1. ObjectsInv => (NoPartsDeleted => MemoryIsFiles)
  <2> SUFFICES ASSUME ReadInv, Idle, NEW f \in File, seen[f] # Unknown
               PROVE  LET here == {o \in live : file[o] = f}
                          text == {<<seen[f][i].uid, seen[f][i].value>> : i \in DOMAIN seen[f]}
                      IN  /\ Cardinality(here) = Len(seen[f])
                          /\ ~setup.allow => text = {Described(o) : o \in here}
                          /\ \A o, p \in here : uid[o] = uid[p] => o = p
    BY DEF ObjectsInv, MemoryIsFiles
  <2> DEFINE here == {o \in live : file[o] = f}
  <2>1. \A g \in File : reader[g].pc = "wait" /\ Owner(g) = Null
    BY NoOwners DEF ReadInv, PhaseOK, Idle
  <2>2. Here(f) = here
    BY <2>1, GetObjectParts DEF ReadInv, StateOK, PhaseOK, Idle, Here
  <2>3. Matches(here, {Described(o) : o \in here}, seen[f], Len(seen[f]), setup.allow)
    BY <2>1, <2>2 DEF ReadInv, FilesRead, FileRead, Texts
  <2>4. DOMAIN seen[f] = 1 .. Len(seen[f])
    BY SetupParts DEF ReadInv, StateOK
  <2>5. \A o, p \in here : uid[o] = uid[p] => o = p
    BY DEF ReadInv, UniqueNames
  <2> QED BY <2>3, <2>4, <2>5 DEF Matches, Entries
<1> QED BY <1>1, ObjectsInvariant, PTL

\* When all files are read with success every reference is a pointer exactly if
\* the object it names is there, for all files, threads and contents, where no
\* reload deletes dependent parts.
THEOREM ReferencesStayBound == Spec => [](NoPartsDeleted => ReferencesAreBound)
<1>1. ObjectsInv => (NoPartsDeleted => ReferencesAreBound)
  BY DEF ObjectsInv, ReadInv, Bindings, AllBound, ReferencesAreBound
<1> QED BY <1>1, ObjectsInvariant, PTL

PartsKnown == OneThread /\ NoPartsDeleted => PartsInv

\* When one thread reads, the parts know the objects with a composite pointer to
\* them that are completely read, and no exclusive part knows two parents by one
\* relationship, wherever the reader is and whatever failed.
THEOREM PartsInvariant == Spec => []PartsKnown
<1>1. Init => PartsKnown
  BY PartsInit DEF PartsKnown
<1>2. ObjectsInv /\ PartsKnown /\ [Next]_vars => PartsKnown'
  <2> SUFFICES ASSUME ObjectsInv, PartsKnown, [Next]_vars PROVE PartsKnown'
    OBVIOUS
  <2>1. (NoPartsDeleted' <=> NoPartsDeleted) /\ (OneThread' <=> OneThread)
    BY SetupFixed, SetupSame DEF OneThread
  <2> QED BY <2>1, NextPartsInv DEF ObjectsInv, PartsKnown
<1> QED BY <1>1, <1>2, ObjectsInvariant, PTL DEF Spec

\* What one thread loads and reloads with success gives no exclusive part two
\* parents, for all files and contents and after any failed calls, where no
\* reload deletes dependent parts.
THEOREM OneParentKept == Spec => [](OneThread /\ NoPartsDeleted => OneParentOfPart)
<1>1. ObjectsInv /\ PartsKnown => (OneThread /\ NoPartsDeleted => OneParentOfPart)
  <2> SUFFICES ASSUME ReadInv, PartsInv, Idle, AllSeen, NEW r \in setup.exclusive,
                      NEW o \in live, NEW p \in live, o # p,
                      NEW c \in Pointers(value[o][r]), c \in Pointers(value[p][r])
               PROVE  FALSE
    BY DEF ObjectsInv, PartsKnown, OneParentOfPart
  <2>1. \A f \in File : Owner(f) = Null
    BY NoOwners DEF ReadInv, PhaseOK, Idle
  <2>2. live \subseteq Address /\ Null \notin Address /\ pool = {} /\ r \in setup.composite
    BY SetupSets, GetObjectParts DEF ReadInv, StateOK, PhaseOK, Idle
  <2>3. ASSUME NEW a \in live, c \in Pointers(value[a][r]) PROVE c \in Address /\ <<a, r>> \in rcr[c]
    <3>1. Settled(a) /\ Held(a) /\ a \in Address
      BY <2>1, <2>2 DEF Settled, Held, AllSeen, PartsInv
    <3>2. HasParent(rcr, value[a][r], a, r)
      BY <2>2, <3>1 DEF PartsInv, SettledKnown
    <3>3. PICK i \in DOMAIN value[a][r] : value[a][r][i].obj = c /\ c # Null
      BY <2>3 DEF Pointers
    <3> QED BY <2>2, <3>1, <3>2, <3>3, PointerIsLive DEF HasParent
  <2>4. c \in Address /\ <<o, r>> \in rcr[c] /\ <<p, r>> \in rcr[c]
    BY <2>3
  <2>5. OneParent(rcr)
    BY DEF PartsInv
  <2> QED BY <2>4, <2>5 DEF OneParent
<1> QED BY <1>1, ObjectsInvariant, PartsInvariant, PTL

LoadsKnown == OneThread /\ LoadsOnly => LoadInv

\* While one thread loads, the parts know no objects but those that refer to
\* them, and an object that is read has an id of its own.
THEOREM LoadInvariant == Spec => []LoadsKnown
<1>1. Init => LoadsKnown
  BY LoadsInit DEF LoadsKnown
<1>2. ObjectsInv /\ PartsKnown /\ LoadsKnown /\ [Next]_vars => LoadsKnown'
  <2> SUFFICES ASSUME ObjectsInv, PartsKnown, LoadsKnown, [Next]_vars PROVE LoadsKnown'
    OBVIOUS
  <2>1. (LoadsOnly' <=> LoadsOnly) /\ (OneThread' <=> OneThread) /\ (LoadsOnly => NoPartsDeleted)
    BY SetupFixed DEF OneThread, LoadsOnly, NoPartsDeleted
  <2> QED BY <2>1, NextLoadInv DEF ObjectsInv, PartsKnown, LoadsKnown
<1> QED BY <1>1, <1>2, ObjectsInvariant, PartsInvariant, PTL DEF Spec

\* After a load by one thread with success the parents that parts know are
\* exactly the objects with a composite pointer to them, for all files and
\* contents.  (A reload leaves shared parts with parents that they lost.)
THEOREM ParentsMatchAfterLoad == Spec => [](OneThread /\ LoadsOnly => ParentsMatchValues)
<1>1. ObjectsInv /\ PartsKnown /\ LoadsKnown => (OneThread /\ LoadsOnly => ParentsMatchValues)
  <2> SUFFICES ASSUME ReadInv, PartsInv, LoadInv, Idle, AllSeen, NEW o \in live
               PROVE  rcr[o] = {p \in live \X Rel : p[2] \in setup.composite /\ o \in Pointers(value[p[1]][p[2]])}
    BY DEF ObjectsInv, PartsKnown, LoadsKnown, LoadsOnly, NoPartsDeleted, ParentsMatchValues
  <2>1. \A f \in File : Owner(f) = Null /\ ~InBody(f)
    BY NoOwners DEF ReadInv, PhaseOK, Idle, InBody
  <2>2. live \subseteq Address /\ Null \notin Address /\ pool = {} /\ setup.composite \subseteq Rel
    BY SetupSets, GetObjectParts DEF ReadInv, StateOK, PhaseOK, Idle
  <2>3. ASSUME NEW q \in rcr[o]
        PROVE  q = <<q[1], q[2]>> /\ q[1] \in live /\ q[2] \in setup.composite /\ o \in Pointers(value[q[1]][q[2]])
    <3>1. ParentsSound
      BY DEF LoadInv, NoFailure
    <3> QED BY <2>1, <2>2, <3>1 DEF ParentsSound, Refers, Held
  <2>4. ASSUME NEW a \in live, NEW r \in setup.composite, o \in Pointers(value[a][r]) PROVE <<a, r>> \in rcr[o]
    <3>1. Settled(a) /\ Held(a) /\ a \in Address
      BY <2>1, <2>2 DEF Settled, Held, AllSeen, PartsInv
    <3>2. HasParent(rcr, value[a][r], a, r)
      BY <3>1 DEF PartsInv, SettledKnown
    <3> QED BY <2>2, <2>4, <3>2 DEF HasParent, Pointers
  <2>5. \A q \in rcr[o] : q \in {p \in live \X Rel : p[2] \in setup.composite /\ o \in Pointers(value[p[1]][p[2]])}
    BY <2>2, <2>3
  <2>6. ASSUME NEW p \in live \X Rel, p[2] \in setup.composite, o \in Pointers(value[p[1]][p[2]]) PROVE p \in rcr[o]
    <3>1. p = <<p[1], p[2]>> /\ p[1] \in live
      OBVIOUS
    <3> QED BY <3>1, <2>4, <2>6
  <2> QED BY <2>5, <2>6
<1> QED BY <1>1, ObjectsInvariant, PartsInvariant, LoadInvariant, PTL

\* What one thread loads with success has no two objects of one id in an
\* inheritance hierarchy when the test is on, for all files and contents.
THEOREM IdsUniqueAfterLoad == Spec => [](OneThread /\ LoadsOnly => IdsUniqueInHierarchy)
<1>1. ObjectsInv /\ LoadsKnown => (OneThread /\ LoadsOnly => IdsUniqueInHierarchy)
  BY DEF LoadsKnown, LoadInv, IdsSound, IdsUniqueInHierarchy
<1> QED BY <1>1, ObjectsInvariant, LoadInvariant, PTL

\* While and after files are loaded and reloaded, each object that is not what
\* the callbacks started from is reported or will be at the end of its text.
THEOREM NotifyInvariant == Spec => []ChangesKnown
<1>1. Init => ChangesKnown
  BY InitTells DEF ChangesKnown
<1>2. ChangesKnown /\ [Next]_vars => ChangesKnown'
  <2> SUFFICES ASSUME ChangesKnown, [Next]_vars PROVE ChangesKnown'
    OBVIOUS
  <2>1. Steady' <=> Steady
    BY SetupFixed, SetupSame DEF Steady
  <2> QED BY <2>1, NextNotifyInv DEF ChangesKnown
<1> QED BY <1>1, <1>2, PTL DEF Spec

\* After a reload with success the callbacks have told of every object that is
\* new, gone or changed, for all files, edits and reloads, those that were
\* refused included, where no text breaks off after a part of it changed an object.
THEOREM ChangesAreTold == Spec => [](Steady => ChangesNotified)
<1>1. ChangesKnown => (Steady => ChangesNotified)
  <2> SUFFICES ASSUME NotifyInv, Idle, setup.notify
               PROVE  /\ \A o \in live : o \in reported \/ <<o, Described(o)>> \in before
                      /\ RemovalsTold
    BY DEF ChangesKnown, ChangesNotified, RemovalsTold
  <2>1. \A o \in live : ~Marked(o)
    BY NoMarks, NobodyReads DEF Idle
  <2> QED BY <2>1 DEF NotifyInv, ChangesTold, Told, Idle
<1> QED BY <1>1, NotifyInvariant, PTL
=============================================================================
