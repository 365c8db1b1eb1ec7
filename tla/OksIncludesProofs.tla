-------------------------- MODULE OksIncludesProofs --------------------------
(***************************************************************************)
(* Include files for any number of files: what stays open is included, what*)
(* is included stays open while it is on disk, and the parent of a file    *)
(* includes it.                                                            *)
(***************************************************************************)
EXTENDS OksIncludes, FiniteSetTheorems, SequenceTheorems, WellFoundedInduction, TLAPS

\* What saved and a frame of the stack hold.
FileInfo == [known : SUBSET File, includes : [File -> SUBSET File]]
Frame == [file : File, todo : SUBSET File]

\* The files on a stack of calls are in K.
Within(q, K) == q \in Seq(Frame) /\ \A i \in DOMAIN q : q[i].file \in K

\* The types of the data, without the stack and the scratch data.
DataOK ==
    /\ disk \in [File -> Content] /\ edits \in 0 .. MaxEdit
    /\ known \subseteq File /\ includes \in [File -> SUBSET File]
    /\ included_by \in [File -> File \cup {NoFile, Gone}]
    /\ pc \in {"idle", "load", "close", "preload", "prune"}

\* Calls are nested in a load and in a preload only.
StackOK == Within(stack, known) /\ (stack # <<>> <=> pc \in {"load", "preload"})

\* Each kind of call has its own scratch data.
ScratchOK ==
    /\ loaded \subseteq known
    /\ adding # <<>> => pc = "load" /\ \E f, g \in known : adding = <<f, g>>
    /\ pc # "close" => graph = NoGraph
    /\ IF pc = "preload" THEN saved \in FileInfo /\ loaded \subseteq saved.known
       ELSE saved = NotSaved /\ changed = FALSE
    /\ IF pc = "prune" THEN doomed \subseteq known ELSE doomed = {}

StateOK == DataOK /\ StackOK /\ ScratchOK

\* A file can be missing only in a behaviour that looks at missing files.
Present == "missingFile" \notin careless => \A f \in File : disk[f] # Missing

\* The graph of RemoveInclude tells who includes whom among the open files.
GraphIsIncludes ==
    /\ pc = "close" => \A p \in known : \A f \in includes[p] \cap known :
                           p \in DOMAIN graph /\ f \in graph[p]
    /\ DOMAIN graph \subseteq known
    /\ \A p \in DOMAIN graph : graph[p] \subseteq includes[p]

\* Nothing that stays includes a file that reload_data is about to close, unless
\* the file is gone from disk.
DoomedIsDropped ==
    \A f \in doomed : disk[f] = Missing \/ \A p \in Kept : f \notin includes[p]

\* An include that is not open yet is still to be visited.
Visiting(s, f, g) == \E i \in DOMAIN s : s[i].file = f /\ g \in s[i].todo
AllCovered == \A f \in known : \A g \in includes[f] : g \in known \/ Visiting(stack, f, g)
IncludesCovered ==
    careless \cap {"missingFile", "renameInclude", "closeRelated"} = {} => AllCovered

\* Except while a reload or a removal looks for new parents, the parent of a
\* file includes it, or is about to.
ParentOf(f) ==
    \/ included_by[f] = NoFile
    \/ included_by[f] \in known /\ (f \in includes[included_by[f]] \/ adding = <<included_by[f], f>>)
ParentsFit ==
    /\ pc \in {"idle", "load"} \/ (pc = "preload" /\ ~changed) => \A f \in known : ParentOf(f)
    /\ pc = "load" => \A i \in DOMAIN stack : stack[i].todo \subseteq includes[stack[i].file]
    /\ pc = "preload" /\ ~changed => \A i \in DOMAIN stack : stack[i].todo = {}
ParentsKnown == careless \subseteq {"cycle"} => ParentsFit

\* No file includes itself over others, nor will when the include that is
\* being added is in its list.
NoCircle ==
    careless = {} =>
        /\ Acyclic({}, disk, includes)
        /\ adding # <<>> => Acyclic({}, disk, [includes EXCEPT ![adding[1]] = @ \cup {adding[2]}])

\* The inductive invariant.
IncludesInv ==
    /\ StateOK /\ Present /\ GraphIsIncludes /\ DoomedIsDropped
    /\ IncludesCovered /\ ParentsKnown /\ NoCircle

-----------------------------------------------------------------------------
(* The stack of nested calls *)

\* The call on top of the stack, and the calls around it.
LEMMA StackParts ==
  ASSUME stack \in Seq(Frame), stack # <<>>
  PROVE  /\ Top \in Frame /\ Outer \in Seq(Frame)
         /\ Len(stack) \in DOMAIN stack /\ stack[Len(stack)] = Top
         /\ \A i \in DOMAIN Outer : i \in DOMAIN stack /\ Outer[i] = stack[i]
         /\ \A i \in DOMAIN stack : i = Len(stack) \/ i \in DOMAIN Outer
<1>1. Len(stack) \in Nat \ {0} /\ DOMAIN stack = 1 .. Len(stack) /\ \A i \in 1 .. Len(stack) : stack[i] \in Frame
  BY EmptySeq
<1>2. Len(stack) \in DOMAIN stack /\ Top \in Frame
  BY <1>1 DEF Top
<1>3. DEFINE n == Len(stack) - 1
<1>4. n \in Nat /\ n + 1 = Len(stack)
  BY <1>1
<1> HIDE DEF n
<1>5. \A i \in 1 .. n : stack[i] \in Frame
  BY <1>1, <1>4
<1>6. /\ SubSeq(stack, 1, n) \in Seq(Frame) /\ Len(SubSeq(stack, 1, n)) = (IF 1 <= n THEN n - 1 + 1 ELSE 0)
      /\ \A i \in 1 .. n - 1 + 1 : SubSeq(stack, 1, n)[i] = stack[1 + i - 1]
  BY <1>4, <1>5, SubSeqProperties
<1>7. Outer = SubSeq(stack, 1, n)
  BY DEF Outer, n
<1>8. Len(Outer) = n /\ Outer \in Seq(Frame) /\ \A i \in 1 .. n : Outer[i] = stack[i]
  <2>1. n - 1 + 1 = n /\ (1 <= n \/ n = 0) /\ \A i \in 1 .. n : 1 + i - 1 = i
    BY <1>4
  <2> QED BY <1>6, <1>7, <2>1
<1>9. DOMAIN Outer = 1 .. n
  BY <1>8
<1>10. \A i \in 1 .. Len(stack) : i = Len(stack) \/ i \in 1 .. n
  BY <1>4
<1>11. 1 .. n \subseteq 1 .. Len(stack)
  BY <1>4
<1> QED BY <1>1, <1>2, <1>8, <1>9, <1>10, <1>11 DEF Top

\* A call is put on a stack.
LEMMA Push ==
  ASSUME NEW s \in Seq(Frame), NEW e \in Frame
  PROVE  /\ Append(s, e) \in Seq(Frame) /\ Append(s, e) # <<>>
         /\ \A i \in DOMAIN s : i \in DOMAIN Append(s, e) /\ Append(s, e)[i] = s[i]
         /\ \E k \in DOMAIN Append(s, e) : Append(s, e)[k] = e
         /\ \A i \in DOMAIN Append(s, e) : i \in DOMAIN s \/ Append(s, e)[i] = e
<1>1. Append(s, e) \in Seq(Frame) /\ Len(Append(s, e)) = Len(s) + 1 /\ Len(s) \in Nat /\ Append(s, e) # <<>>
      /\ (\A i \in 1 .. Len(s) : Append(s, e)[i] = s[i]) /\ Append(s, e)[Len(s) + 1] = e
  BY AppendProperties
<1>2. DOMAIN Append(s, e) = 1 .. Len(s) + 1 /\ DOMAIN s = 1 .. Len(s)
  BY <1>1
<1> QED BY <1>1, <1>2

\* The next include of the file on top is taken from its list.
LEMMA RestParts ==
  ASSUME stack \in Seq(Frame), stack # <<>>, NEW g
  PROVE  /\ Rest(g) \in Seq(Frame) /\ Rest(g) # <<>>
         /\ \A i \in DOMAIN stack : \E k \in DOMAIN Rest(g) :
               Rest(g)[k].file = stack[i].file /\ stack[i].todo \ {g} \subseteq Rest(g)[k].todo
         /\ \A k \in DOMAIN Rest(g) : \E i \in DOMAIN stack :
               Rest(g)[k].file = stack[i].file /\ Rest(g)[k].todo \subseteq stack[i].todo
<1> DEFINE e == [Top EXCEPT !.todo = @ \ {g}]
<1>1. e \in Frame /\ e.file = Top.file /\ e.todo = Top.todo \ {g}
  BY StackParts DEF Frame
<1>2. Rest(g) = Append(Outer, e)
  BY DEF Rest
<1> HIDE DEF e
<1>0. /\ Top \in Frame /\ Outer \in Seq(Frame)
      /\ Len(stack) \in DOMAIN stack /\ stack[Len(stack)] = Top
      /\ \A i \in DOMAIN Outer : i \in DOMAIN stack /\ Outer[i] = stack[i]
      /\ \A i \in DOMAIN stack : i = Len(stack) \/ i \in DOMAIN Outer
  BY StackParts
<1>3. /\ Rest(g) \in Seq(Frame) /\ Rest(g) # <<>>
      /\ \A i \in DOMAIN Outer : i \in DOMAIN Rest(g) /\ Rest(g)[i] = Outer[i]
      /\ \E k \in DOMAIN Rest(g) : Rest(g)[k] = e
      /\ \A i \in DOMAIN Rest(g) : i \in DOMAIN Outer \/ Rest(g)[i] = e
  <2>1. Outer \in Seq(Frame) /\ e \in Frame
    BY <1>0, <1>1
  <2>2. /\ Append(Outer, e) \in Seq(Frame) /\ Append(Outer, e) # <<>>
        /\ \A i \in DOMAIN Outer : i \in DOMAIN Append(Outer, e) /\ Append(Outer, e)[i] = Outer[i]
        /\ \E k \in DOMAIN Append(Outer, e) : Append(Outer, e)[k] = e
        /\ \A i \in DOMAIN Append(Outer, e) : i \in DOMAIN Outer \/ Append(Outer, e)[i] = e
    BY <2>1, Push
  <2> QED BY <1>2, <2>2
<1>4. ASSUME NEW i \in DOMAIN stack
      PROVE  \E k \in DOMAIN Rest(g) : Rest(g)[k].file = stack[i].file /\ stack[i].todo \ {g} \subseteq Rest(g)[k].todo
  <2>1. CASE i \in DOMAIN Outer
    BY <1>0, <1>3, <2>1
  <2>2. CASE i = Len(stack)
    BY <1>0, <1>1, <1>3, <2>2
  <2> QED BY <1>0, <2>1, <2>2
<1>5. ASSUME NEW k \in DOMAIN Rest(g)
      PROVE  \E i \in DOMAIN stack : Rest(g)[k].file = stack[i].file /\ Rest(g)[k].todo \subseteq stack[i].todo
  <2>1. CASE k \in DOMAIN Outer
    BY <1>0, <1>3, <2>1
  <2>2. CASE Rest(g)[k] = e
    BY <1>0, <1>1, <2>2
  <2> QED BY <1>3, <2>1, <2>2
<1> QED BY <1>3, <1>4, <1>5

\* What a call has still to visit stays on the stack: when another include is
\* taken from the list on top, and when the call on top has nothing left.
LEMMA Visits ==
  ASSUME stack \in Seq(Frame), stack # <<>>
  PROVE  \A f, g : Visiting(stack, f, g) =>
            /\ \A h : g # h => Visiting(Rest(h), f, g)
            /\ Top.todo = {} => Visiting(Outer, f, g)
<1> SUFFICES ASSUME NEW f, NEW g, Visiting(stack, f, g)
             PROVE  /\ \A h : g # h => Visiting(Rest(h), f, g)
                    /\ Top.todo = {} => Visiting(Outer, f, g)
  OBVIOUS
<1>1. PICK i \in DOMAIN stack : stack[i].file = f /\ g \in stack[i].todo
  BY DEF Visiting
<1>2. ASSUME NEW h, g # h PROVE Visiting(Rest(h), f, g)
  <2>1. PICK k \in DOMAIN Rest(h) : Rest(h)[k].file = stack[i].file /\ stack[i].todo \ {h} \subseteq Rest(h)[k].todo
    BY RestParts
  <2> QED BY <1>1, <1>2, <2>1 DEF Visiting
<1>3. ASSUME Top.todo = {} PROVE Visiting(Outer, f, g)
  BY <1>1, <1>3, StackParts DEF Visiting
<1> QED BY <1>2, <1>3

\* A call that is put on a stack adds its own includes to those to visit.
LEMMA VisitsPushed ==
  ASSUME NEW s \in Seq(Frame), NEW e \in Frame
  PROVE  /\ \A f, g : Visiting(s, f, g) => Visiting(Append(s, e), f, g)
         /\ \A g \in e.todo : Visiting(Append(s, e), e.file, g)
BY Push DEF Visiting

\* The calls on the stack are calls of open files, whatever is taken from it.
LEMMA StackWithin ==
  ASSUME Within(stack, known), stack # <<>>
  PROVE  /\ Top \in Frame /\ Top.file \in known /\ Within(Outer, known)
         /\ \A g : Within(Rest(g), known) /\ Rest(g) # <<>>
<1>1. stack \in Seq(Frame) /\ \A i \in DOMAIN stack : stack[i].file \in known
  BY DEF Within
<1>2. Top \in Frame /\ Top.file \in known /\ Within(Outer, known)
  BY <1>1, StackParts DEF Within
<1>3. ASSUME NEW g PROVE Within(Rest(g), known) /\ Rest(g) # <<>>
  BY <1>1, RestParts DEF Within
<1> QED BY <1>2, <1>3

\* A call of an open file may be put on the stack.
LEMMA PushWithin ==
  ASSUME NEW q, NEW K, NEW L, K \subseteq L, Within(q, K)
  PROVE  /\ Within(q, L)
         /\ \A e \in Frame : e.file \in L => Within(Append(q, e), L) /\ Append(q, e) # <<>>
BY Push DEF Within

\* A stack of one call.
LEMMA OneWithin ==
  ASSUME NEW e \in Frame, NEW K, e.file \in K
  PROVE  Within(<<e>>, K) /\ <<e>> # <<>>
BY DEF Within

-----------------------------------------------------------------------------
(* The inductive invariant *)

\* A file that can be read has a list of includes.
LEMMA ContentLists ==
  ASSUME NEW c \in Content, c # Missing
  PROVE  c \subseteq File
<1>1. c \in SUBSET File \/ c = Missing
  BY DEF Content
<1> QED BY <1>1

\* TypeOK is what the state parts of the inductive invariant promise.
LEMMA StateTypes == StateOK => TypeOK
<1>1. ASSUME stack \in Seq(Frame), NEW i \in DOMAIN stack PROVE stack[i].todo \subseteq File
  <2>1. stack[i] \in Frame
    BY <1>1, ElementOfSeq
  <2> QED BY <2>1 DEF Frame
<1> QED BY <1>1 DEF TypeOK, StateOK, DataOK, StackOK, ScratchOK, Within, Idle, callVars

\* A kernel without files satisfies the inductive invariant.
LEMMA InitIncludes == Init => IncludesInv
<1> SUFFICES ASSUME Init PROVE IncludesInv
  OBVIOUS
<1> USE IncludesAssumption DEF Init
<1>1. DataOK /\ StackOK /\ ScratchOK
  <2>1. <<>> \in Seq(Frame)
    BY EmptySeq
  <2>2. edits \in 0 .. MaxEdit
    OBVIOUS
  <2> QED BY <2>1, <2>2 DEF DataOK, StackOK, ScratchOK, Within
<1>2. Present /\ GraphIsIncludes /\ DoomedIsDropped
  BY DEF Present, Fits, GraphIsIncludes, DoomedIsDropped, NoGraph
<1>3. IncludesCovered /\ ParentsKnown /\ NoCircle
  BY DEF IncludesCovered, AllCovered, ParentsKnown, ParentsFit, ParentOf, NoCircle, Fits
<1> QED BY <1>1, <1>2, <1>3 DEF IncludesInv, StateOK

\* No step changes which delicate things a behaviour is about.
LEMMA CarelessIsFixed == [Next]_vars => careless' = careless
BY DEF Next, vars, LoadData, ReloadData, CloseData, SaveData, Edit, AddInclude, RemoveInclude, RenameInclude, LoadInclude, LoadFails, EndLoad, CloseDangling, PreloadInclude, PreloadFails, EndPreload, Prune

\* Every step keeps the types of the data.
LEMMA NextData == DataOK /\ StackOK /\ ScratchOK /\ [Next]_vars => DataOK'
<1> SUFFICES ASSUME DataOK, StackOK, ScratchOK, [Next]_vars PROVE DataOK'
  OBVIOUS
<1>p. stack # <<>> => Top \in Frame /\ Top.file \in File /\ Top.todo \subseteq File
  BY StackWithin DEF StackOK, DataOK, Frame
<1>r. \A S, by : by \in [File -> File \cup {NoFile, Gone}] => Forgotten(S, by) \in [File -> File \cup {NoFile, Gone}]
  BY DEF Forgotten
<1>t. (pc = "load" \/ pc = "preload" => stack # <<>>) /\ (pc = "preload" => saved \in FileInfo)
  BY DEF StackOK, ScratchOK
<1>c. pc = "load" /\ adding # <<>> => adding[1] \in File /\ adding[2] \in File
  BY DEF ScratchOK, DataOK
<1>d. ASSUME NEW f \in File, disk[f] # Missing PROVE disk[f] \subseteq File
  BY <1>d, ContentLists DEF DataOK
<1>v. ASSUME NEW f \in File PROVE includes[f] \in Content
  <2>1. includes[f] \in SUBSET File
    BY DEF DataOK
  <2> QED BY <2>1 DEF Content
<1> USE IncludesAssumption DEF DataOK
<1>1. ASSUME NEW f \in File, LoadData(f) PROVE DataOK'
  BY <1>1, <1>d DEF LoadData, Open, fileVars, callVars, Resolves
<1>2. ASSUME NEW f \in File, ReloadData(f) PROVE DataOK'
  BY <1>2, <1>d DEF ReloadData
<1>3. ASSUME NEW f \in File, CloseData(f) PROVE DataOK'
  BY <1>3, <1>r DEF CloseData, Close, callVars
<1>4. ASSUME NEW f \in File, SaveData(f) PROVE DataOK'
  BY <1>4, <1>v DEF SaveData, fileVars, callVars
<1>5. ASSUME NEW f \in File, Edit(f) PROVE DataOK'
  BY <1>5 DEF Edit, fileVars, callVars
<1>6. ASSUME NEW f \in File, NEW g \in File, AddInclude(f, g) PROVE DataOK'
  BY <1>6, <1>d DEF AddInclude, CheckParent, Open, Resolves
<1>7. ASSUME NEW f \in File, NEW g \in File, RemoveInclude(f, g) PROVE DataOK'
  BY <1>7 DEF RemoveInclude
<1>8. ASSUME NEW f \in File, NEW g \in File, NEW h \in File, RenameInclude(f, g, h) PROVE DataOK'
  BY <1>8 DEF RenameInclude, callVars
<1>9. ASSUME LoadInclude PROVE DataOK'
  BY <1>9, <1>p, <1>t, <1>d DEF LoadInclude, CheckParent, Open, fileVars, Resolves
<1>9f. ASSUME LoadFails PROVE DataOK'
  BY <1>9f DEF LoadFails, fileVars
<1>10. ASSUME EndLoad PROVE DataOK'
  BY <1>10, <1>p, <1>t, <1>c DEF EndLoad
<1>11. ASSUME CloseDangling PROVE DataOK'
  <2>1. PICK by \in [known \ Unhosted -> File \cup {NoFile}] : included_by' = Forgotten(Unhosted,
                [f \in File |-> IF f \in DOMAIN by THEN by[f] ELSE included_by[f]])
    BY <1>11 DEF CloseDangling
  <2>2. [f \in File |-> IF f \in DOMAIN by THEN by[f] ELSE included_by[f]] \in [File -> File \cup {NoFile, Gone}]
    OBVIOUS
  <2>3. included_by' \in [File -> File \cup {NoFile, Gone}]
    BY <1>r, <2>1, <2>2
  <2> QED BY <1>11, <2>3 DEF CloseDangling, Close
<1>12. ASSUME PreloadInclude PROVE DataOK'
  BY <1>12, <1>p, <1>t, <1>d DEF PreloadInclude, Open, fileVars, Resolves
<1>13. ASSUME PreloadFails PROVE DataOK'
  BY <1>13, <1>r, <1>t DEF PreloadFails, FileInfo
<1>14. ASSUME EndPreload PROVE DataOK'
  BY <1>14 DEF EndPreload, fileVars
<1>15. ASSUME Prune PROVE DataOK'
  <2>1. PICK by \in [Kept -> File \cup {NoFile}] : included_by' = Forgotten(IF Dropped = {} THEN doomed ELSE {},
                [f \in File |-> IF f \in Kept THEN by[f] ELSE included_by[f]])
    BY <1>15 DEF Prune
  <2>2. [f \in File |-> IF f \in Kept THEN by[f] ELSE included_by[f]] \in [File -> File \cup {NoFile, Gone}]
    OBVIOUS
  <2>3. included_by' \in [File -> File \cup {NoFile, Gone}]
    BY <1>r, <2>1, <2>2
  <2> QED BY <1>15, <2>3 DEF Prune, Close
<1>16. CASE UNCHANGED vars
  BY <1>16 DEF vars, fileVars, callVars
<1> QED
  BY <1>1, <1>2, <1>3, <1>4, <1>5, <1>6, <1>7, <1>8, <1>9, <1>9f, <1>10, <1>11, <1>12, <1>13, <1>14, <1>15, <1>16 DEF Next

\* Every step keeps the stack: only open files are on it, in a load or a preload.
LEMMA NextStack == DataOK /\ StackOK /\ ScratchOK /\ [Next]_vars => StackOK'
<1> SUFFICES ASSUME DataOK, StackOK, ScratchOK, [Next]_vars PROVE StackOK'
  OBVIOUS
<1>a. Within(stack, known) /\ known \subseteq File
  BY DEF StackOK, DataOK
<1>p. stack # <<>> => /\ Top.file \in known /\ Top.todo \subseteq File /\ Within(Outer, known)
                      /\ \A g : Within(Rest(g), known) /\ Rest(g) # <<>>
  BY StackWithin DEF StackOK, Frame
<1>t. (stack # <<>> <=> pc \in {"load", "preload"}) /\ Within(stack, known)
  BY DEF StackOK
<1>d. ASSUME NEW f \in File, disk[f] # Missing
      PROVE  /\ Visit(f) \in Frame /\ Visit(f).file = f
             /\ Within(<<Visit(f)>>, known \cup {f}) /\ <<Visit(f)>> # <<>>
             /\ \A q : Within(q, known) => Within(Append(q, Visit(f)), known \cup {f}) /\ Append(q, Visit(f)) # <<>>
  <2>0. disk[f] \subseteq File
    BY <1>d, ContentLists DEF DataOK
  <2>1. Visit(f) \in Frame /\ Visit(f).file = f
    BY <1>d, <2>0 DEF Visit, Frame
  <2>2. Within(<<Visit(f)>>, known \cup {f}) /\ <<Visit(f)>> # <<>>
    BY <2>1, OneWithin
  <2>3. ASSUME NEW q, Within(q, known)
        PROVE  Within(Append(q, Visit(f)), known \cup {f}) /\ Append(q, Visit(f)) # <<>>
    <3>1. known \subseteq known \cup {f} /\ f \in known \cup {f}
      OBVIOUS
    <3> QED BY <2>1, <2>3, <3>1, PushWithin
  <2> QED BY <2>1, <2>2, <2>3
<1>e. Within(<<>>, known')
  BY EmptySeq DEF Within
<1>1. ASSUME NEW f \in File, LoadData(f) PROVE StackOK'
  <2>1. CASE f \in known
    <3>1. stack' = stack /\ pc' = pc /\ pc = "idle"
      BY <1>1, <2>1 DEF LoadData, Idle
    <3> QED BY <1>e, <1>t, <3>1 DEF StackOK
  <2>2. CASE f \notin known
    <3>1. disk[f] # Missing /\ known' = known \cup {f} /\ pc' = "load" /\ stack' = <<Visit(f)>>
      BY <1>1, <2>2 DEF LoadData, Open, Resolves
    <3> QED BY <1>d, <3>1 DEF StackOK
  <2> QED BY <2>1, <2>2
<1>2. ASSUME NEW f \in File, ReloadData(f) PROVE StackOK'
  <2>1. pc' = "preload" /\ known' = known /\ f \in known /\ disk[f] # Missing
        /\ stack' = <<[file |-> f, todo |-> disk[f] \ includes[f]]>>
    BY <1>2 DEF ReloadData
  <2>2. disk[f] \subseteq File
    BY <2>1, ContentLists DEF DataOK
  <2>3. [file |-> f, todo |-> disk[f] \ includes[f]] \in Frame
    BY <2>1, <2>2 DEF Frame
  <2> QED BY <2>1, <2>3, OneWithin DEF StackOK
<1>3. ASSUME NEW f \in File, CloseData(f) PROVE StackOK'
  <2>1. stack' = stack /\ pc' = "idle" /\ pc = "idle"
    BY <1>3 DEF CloseData, Close, callVars, Idle
  <2> QED BY <1>e, <1>t, <2>1 DEF StackOK
<1>4. ASSUME NEW f \in File, SaveData(f) PROVE StackOK'
  <2>1. stack' = stack /\ pc' = "idle" /\ pc = "idle"
    BY <1>4 DEF SaveData, fileVars, callVars, Idle
  <2> QED BY <1>e, <1>t, <2>1 DEF StackOK
<1>5. ASSUME NEW f \in File, Edit(f) PROVE StackOK'
  <2>1. stack' = stack /\ pc' = "idle" /\ pc = "idle"
    BY <1>5 DEF Edit, fileVars, callVars, Idle
  <2> QED BY <1>e, <1>t, <2>1 DEF StackOK
<1>6. ASSUME NEW f \in File, NEW g \in File, AddInclude(f, g) PROVE StackOK'
  <2>1. CASE g \in known
    <3>1. stack' = stack /\ pc' = pc /\ pc = "idle"
      BY <1>6, <2>1 DEF AddInclude, Idle
    <3> QED BY <1>e, <1>t, <3>1 DEF StackOK
  <2>2. CASE g \notin known
    <3>1. disk[g] # Missing /\ known' = known \cup {g} /\ pc' = "load" /\ stack' = <<Visit(g)>>
      BY <1>6, <2>2 DEF AddInclude, Open, Resolves
    <3> QED BY <1>d, <3>1 DEF StackOK
  <2> QED BY <2>1, <2>2
<1>7. ASSUME NEW f \in File, NEW g \in File, RemoveInclude(f, g) PROVE StackOK'
  <2>1. stack' = stack /\ pc' \in {"close", "idle"} /\ pc = "idle"
    BY <1>7 DEF RemoveInclude, Idle
  <2> QED BY <1>e, <1>t, <2>1 DEF StackOK
<1>8. ASSUME NEW f \in File, NEW g \in File, NEW h \in File, RenameInclude(f, g, h) PROVE StackOK'
  <2>1. stack' = stack /\ pc' = "idle" /\ pc = "idle"
    BY <1>8 DEF RenameInclude, callVars, Idle
  <2> QED BY <1>e, <1>t, <2>1 DEF StackOK
<1>9. ASSUME LoadInclude PROVE StackOK'
  <2>1. PICK g \in Top.todo :
         /\ disk[g] # Missing /\ pc' = pc
         /\ IF g \in known THEN known' = known /\ stack' = Rest(g)
            ELSE known' = known \cup {g} /\ stack' = Append(Rest(g), Visit(g))
    BY <1>9 DEF LoadInclude, Open, Resolves
  <2>2. stack # <<>> /\ pc = "load"
    BY <1>9, <1>t DEF LoadInclude
  <2>3. g \in File /\ Within(Rest(g), known) /\ Rest(g) # <<>>
    BY <1>p, <2>2
  <2>4. CASE g \in known
    BY <2>1, <2>2, <2>3, <2>4 DEF StackOK
  <2>5. CASE g \notin known
    BY <1>d, <2>1, <2>2, <2>3, <2>5 DEF StackOK
  <2> QED BY <2>4, <2>5
<1>9f. ASSUME LoadFails PROVE StackOK'
  <2>1. stack' = <<>> /\ pc' = "idle"
    BY <1>9f DEF LoadFails
  <2> QED BY <1>e, <2>1 DEF StackOK
<1>10. ASSUME EndLoad PROVE StackOK'
  <2>1. stack # <<>> /\ pc = "load" /\ known' = known /\ stack' = Outer
    BY <1>10, <1>t DEF EndLoad
  <2>2. pc' = IF Outer # <<>> THEN "load" ELSE "idle"
    BY <1>10 DEF EndLoad
  <2> QED BY <1>p, <2>1, <2>2 DEF StackOK
<1>11. ASSUME CloseDangling PROVE StackOK'
  <2>1. stack' = stack /\ pc' \notin {"load", "preload"} /\ pc \notin {"load", "preload"}
    BY <1>11 DEF CloseDangling, Close
  <2> QED BY <1>e, <1>t, <2>1 DEF StackOK
<1>12. ASSUME PreloadInclude PROVE StackOK'
  <2>1. PICK g \in Top.todo :
         /\ disk[g] # Missing
         /\ IF g \in known THEN known' = known /\ stack' = Rest(g)
            ELSE known' = known \cup {g} /\ stack' = Append(Rest(g), Visit(g))
    BY <1>12 DEF PreloadInclude, Open, fileVars, Resolves
  <2>2. stack # <<>> /\ pc = "preload" /\ pc' = "preload"
    BY <1>12, <1>t DEF PreloadInclude
  <2>3. g \in File /\ Within(Rest(g), known) /\ Rest(g) # <<>>
    BY <1>p, <2>2
  <2>4. CASE g \in known
    BY <2>1, <2>2, <2>3, <2>4 DEF StackOK
  <2>6. CASE g \notin known
    BY <1>d, <2>1, <2>2, <2>3, <2>6 DEF StackOK
  <2> QED BY <2>4, <2>6
<1>13. ASSUME PreloadFails PROVE StackOK'
  <2>1. stack' = <<>> /\ pc' = "idle"
    BY <1>13 DEF PreloadFails
  <2> QED BY <1>e, <2>1 DEF StackOK
<1>14. ASSUME EndPreload PROVE StackOK'
  <2>1. stack # <<>> /\ pc = "preload" /\ known' = known /\ stack' = Outer
    BY <1>14, <1>t DEF EndPreload, fileVars
  <2>2. IF Outer # <<>> THEN pc' = "preload" ELSE pc' \in {"prune", "idle"}
    BY <1>14 DEF EndPreload
  <2> QED BY <1>p, <2>1, <2>2 DEF StackOK
<1>15. ASSUME Prune PROVE StackOK'
  <2>1. stack' = stack /\ pc' \notin {"load", "preload"} /\ pc \notin {"load", "preload"}
    BY <1>15 DEF Prune, Close
  <2> QED BY <1>e, <1>t, <2>1 DEF StackOK
<1>16. CASE UNCHANGED vars
  BY <1>16, <1>t DEF vars, fileVars, callVars, StackOK
<1> QED
  BY <1>1, <1>2, <1>3, <1>4, <1>5, <1>6, <1>7, <1>8, <1>9, <1>9f, <1>10, <1>11, <1>12, <1>13, <1>14, <1>15, <1>16 DEF Next

\* Every step leaves the scratch data its call has, and no other.
LEMMA NextScratch == DataOK /\ StackOK /\ ScratchOK /\ [Next]_vars => ScratchOK'
<1> SUFFICES ASSUME DataOK, StackOK, ScratchOK, [Next]_vars PROVE ScratchOK'
  OBVIOUS
<1>p. stack # <<>> => Top.file \in known
  BY StackWithin DEF StackOK
<1>t. /\ stack # <<>> <=> pc \in {"load", "preload"}
      /\ known \subseteq File /\ includes \in [File -> SUBSET File]
  BY DEF StackOK, DataOK
<1> USE DEF ScratchOK
<1>1. ASSUME NEW f \in File, LoadData(f) PROVE ScratchOK'
  BY <1>1, <1>t DEF LoadData, Idle, Open, fileVars, callVars
<1>2. ASSUME NEW f \in File, ReloadData(f) PROVE ScratchOK'
  BY <1>2, <1>t DEF ReloadData, Idle, FileInfo
<1>3. ASSUME NEW f \in File, CloseData(f) PROVE ScratchOK'
  BY <1>3, <1>t DEF CloseData, Idle, Close, callVars
<1>4. ASSUME NEW f \in File, SaveData(f) PROVE ScratchOK'
  BY <1>4, <1>t DEF SaveData, Idle, fileVars, callVars
<1>5. ASSUME NEW f \in File, Edit(f) PROVE ScratchOK'
  BY <1>5, <1>t DEF Edit, Idle, fileVars, callVars
<1>6. ASSUME NEW f \in File, NEW g \in File, AddInclude(f, g) PROVE ScratchOK'
  BY <1>6, <1>t DEF AddInclude, Idle, Open
<1>7. ASSUME NEW f \in File, NEW g \in File, RemoveInclude(f, g) PROVE ScratchOK'
  BY <1>7, <1>t DEF RemoveInclude, Idle
<1>8. ASSUME NEW f \in File, NEW g \in File, NEW h \in File, RenameInclude(f, g, h) PROVE ScratchOK'
  BY <1>8, <1>t DEF RenameInclude, Idle, callVars
<1>9. ASSUME LoadInclude PROVE ScratchOK'
  BY <1>9, <1>t DEF LoadInclude, Open, fileVars
<1>9f. ASSUME LoadFails PROVE ScratchOK'
  BY <1>9f, <1>t DEF LoadFails, fileVars
<1>10. ASSUME EndLoad PROVE ScratchOK'
  BY <1>10, <1>t, <1>p DEF EndLoad
<1>11. ASSUME CloseDangling PROVE ScratchOK'
  BY <1>11, <1>t DEF CloseDangling, Close
<1>12. ASSUME PreloadInclude PROVE ScratchOK'
  BY <1>12, <1>t DEF PreloadInclude, Open, fileVars
<1>13. ASSUME PreloadFails PROVE ScratchOK'
  BY <1>13, <1>t DEF PreloadFails
<1>14. ASSUME EndPreload PROVE ScratchOK'
  BY <1>14, <1>t DEF EndPreload, fileVars
<1>15. ASSUME Prune PROVE ScratchOK'
  BY <1>15, <1>t DEF Prune, Close, Dropped, Kept
<1>16. CASE UNCHANGED vars
  BY <1>16, <1>t DEF vars, fileVars, callVars
<1> QED
  BY <1>1, <1>2, <1>3, <1>4, <1>5, <1>6, <1>7, <1>8, <1>9, <1>9f, <1>10, <1>11, <1>12, <1>13, <1>14, <1>15, <1>16 DEF Next

\* No step removes a file from disk in a behaviour without missing files.
LEMMA NextPresent == DataOK /\ Present /\ [Next]_vars => Present'
<1> SUFFICES ASSUME DataOK, [Next]_vars, "missingFile" \notin careless, \A f \in File : disk[f] # Missing
             PROVE  \A d \in File : disk'[d] # Missing
  BY CarelessIsFixed DEF Present
<1>t. disk \in [File -> Content] /\ \A f \in File : includes[f] # Missing
  <2>1. \A f \in File : includes[f] \in SUBSET File
    BY DEF DataOK
  <2> QED BY <2>1, IncludesAssumption DEF DataOK
<1>1. ASSUME NEW f \in File, LoadData(f) PROVE \A d \in File : disk'[d] # Missing
  BY <1>1 DEF LoadData
<1>2. ASSUME NEW f \in File, ReloadData(f) PROVE \A d \in File : disk'[d] # Missing
  BY <1>2 DEF ReloadData
<1>3. ASSUME NEW f \in File, CloseData(f) PROVE \A d \in File : disk'[d] # Missing
  BY <1>3 DEF CloseData
<1>4. ASSUME NEW f \in File, SaveData(f) PROVE \A d \in File : disk'[d] # Missing
  BY <1>4, <1>t DEF SaveData
<1>5. ASSUME NEW f \in File, Edit(f) PROVE \A d \in File : disk'[d] # Missing
  BY <1>5, <1>t DEF Edit, Fits
<1>6. ASSUME NEW f \in File, NEW g \in File, AddInclude(f, g) PROVE \A d \in File : disk'[d] # Missing
  BY <1>6 DEF AddInclude
<1>7. ASSUME NEW f \in File, NEW g \in File, RemoveInclude(f, g) PROVE \A d \in File : disk'[d] # Missing
  BY <1>7 DEF RemoveInclude
<1>8. ASSUME NEW f \in File, NEW g \in File, NEW h \in File, RenameInclude(f, g, h) PROVE \A d \in File : disk'[d] # Missing
  BY <1>8 DEF RenameInclude
<1>9. ASSUME LoadInclude PROVE \A d \in File : disk'[d] # Missing
  BY <1>9 DEF LoadInclude
<1>9f. ASSUME LoadFails PROVE \A d \in File : disk'[d] # Missing
  BY <1>9f DEF LoadFails
<1>10. ASSUME EndLoad PROVE \A d \in File : disk'[d] # Missing
  BY <1>10 DEF EndLoad
<1>11. ASSUME CloseDangling PROVE \A d \in File : disk'[d] # Missing
  BY <1>11 DEF CloseDangling
<1>12. ASSUME PreloadInclude PROVE \A d \in File : disk'[d] # Missing
  BY <1>12 DEF PreloadInclude
<1>13. ASSUME PreloadFails PROVE \A d \in File : disk'[d] # Missing
  BY <1>13 DEF PreloadFails
<1>14. ASSUME EndPreload PROVE \A d \in File : disk'[d] # Missing
  BY <1>14 DEF EndPreload
<1>15. ASSUME Prune PROVE \A d \in File : disk'[d] # Missing
  BY <1>15 DEF Prune
<1>16. CASE UNCHANGED vars
  BY <1>16 DEF vars, fileVars, callVars
<1> QED
  BY <1>1, <1>2, <1>3, <1>4, <1>5, <1>6, <1>7, <1>8, <1>9, <1>9f, <1>10, <1>11, <1>12, <1>13, <1>14, <1>15, <1>16 DEF Next

\* The graph of remove_include_file stays the inclusion among the open files.
LEMMA NextGraph == StateOK /\ ScratchOK' /\ GraphIsIncludes /\ [Next]_vars => GraphIsIncludes'
<1> SUFFICES ASSUME StateOK, ScratchOK', GraphIsIncludes, [Next]_vars PROVE GraphIsIncludes'
  OBVIOUS
<1>n. ASSUME pc' # "close" PROVE GraphIsIncludes'
  <2>1. graph' = NoGraph
    BY <1>n DEF ScratchOK
  <2>2. DOMAIN graph' = {}
    BY <2>1 DEF NoGraph
  <2> QED BY <1>n, <2>2 DEF GraphIsIncludes
<1>1. ASSUME NEW f \in File, LoadData(f) PROVE GraphIsIncludes'
  BY <1>1, <1>n DEF LoadData, Idle
<1>2. ASSUME NEW f \in File, ReloadData(f) PROVE GraphIsIncludes'
  BY <1>2, <1>n DEF ReloadData
<1>3. ASSUME NEW f \in File, CloseData(f) PROVE GraphIsIncludes'
  BY <1>3, <1>n DEF CloseData, Idle
<1>4. ASSUME NEW f \in File, SaveData(f) PROVE GraphIsIncludes'
  BY <1>4, <1>n DEF SaveData, Idle
<1>5. ASSUME NEW f \in File, Edit(f) PROVE GraphIsIncludes'
  BY <1>5, <1>n DEF Edit, Idle
<1>6. ASSUME NEW f \in File, NEW g \in File, AddInclude(f, g) PROVE GraphIsIncludes'
  BY <1>6, <1>n DEF AddInclude, Idle
<1>7. ASSUME NEW f \in File, NEW g \in File, RemoveInclude(f, g) PROVE GraphIsIncludes'
  <2>1. CASE pc' = "close"
    <3>1. /\ known' = known
          /\ graph' = [p \in {q \in known : includes'[q] \cap known # {}} |-> includes'[p] \cap known]
      BY <1>7, <2>1 DEF RemoveInclude, Idle
    <3> QED BY <3>1 DEF GraphIsIncludes
  <2> QED BY <1>n, <2>1
<1>8. ASSUME NEW f \in File, NEW g \in File, NEW h \in File, RenameInclude(f, g, h) PROVE GraphIsIncludes'
  BY <1>8, <1>n DEF RenameInclude, Idle
<1>9. ASSUME LoadInclude PROVE GraphIsIncludes'
  BY <1>9, <1>n DEF LoadInclude, CheckParent, Open, fileVars
<1>9f. ASSUME LoadFails PROVE GraphIsIncludes'
  BY <1>9f, <1>n DEF LoadFails
<1>10. ASSUME EndLoad PROVE GraphIsIncludes'
  BY <1>10, <1>n DEF EndLoad
<1>11. ASSUME CloseDangling PROVE GraphIsIncludes'
  <2>1. CASE pc' = "close"
    <3>1. known' = known \ Unhosted /\ includes' = includes /\ graph' = [p \in DOMAIN graph \ Unhosted |-> graph[p]]
      BY <1>11, <2>1 DEF CloseDangling, Close
    <3>2. pc = "close"
      BY <1>11 DEF CloseDangling
    <3> QED BY <2>1, <3>1, <3>2 DEF GraphIsIncludes
  <2> QED BY <1>n, <2>1
<1>12. ASSUME PreloadInclude PROVE GraphIsIncludes'
  BY <1>12, <1>n DEF PreloadInclude, Open, fileVars
<1>13. ASSUME PreloadFails PROVE GraphIsIncludes'
  BY <1>13, <1>n DEF PreloadFails
<1>14. ASSUME EndPreload PROVE GraphIsIncludes'
  BY <1>14, <1>n DEF EndPreload, fileVars
<1>15. ASSUME Prune PROVE GraphIsIncludes'
  BY <1>15, <1>n DEF Prune, Close
<1>16. CASE UNCHANGED vars
  BY <1>16, <1>n DEF vars, fileVars, callVars, GraphIsIncludes
<1> QED
  BY <1>1, <1>2, <1>3, <1>4, <1>5, <1>6, <1>7, <1>8, <1>9, <1>9f, <1>10, <1>11, <1>12, <1>13, <1>14, <1>15, <1>16 DEF Next

\* The loop of reload_data dooms only files that nobody who stays includes, or
\* that are gone from disk.
LEMMA NextDoomed == StateOK /\ ScratchOK' /\ DoomedIsDropped /\ [Next]_vars => DoomedIsDropped'
<1> SUFFICES ASSUME StateOK, ScratchOK', DoomedIsDropped, [Next]_vars PROVE DoomedIsDropped'
  OBVIOUS
<1>n. ASSUME pc' # "prune" PROVE DoomedIsDropped'
  BY <1>n DEF ScratchOK, DoomedIsDropped
<1>m. ASSUME pc # "prune", doomed' = doomed PROVE DoomedIsDropped'
  BY <1>m DEF StateOK, ScratchOK, DoomedIsDropped
<1>1. ASSUME NEW f \in File, LoadData(f) PROVE DoomedIsDropped'
  BY <1>1, <1>n DEF LoadData, Idle
<1>2. ASSUME NEW f \in File, ReloadData(f) PROVE DoomedIsDropped'
  BY <1>2, <1>n DEF ReloadData
<1>3. ASSUME NEW f \in File, CloseData(f) PROVE DoomedIsDropped'
  BY <1>3, <1>n DEF CloseData, Idle
<1>4. ASSUME NEW f \in File, SaveData(f) PROVE DoomedIsDropped'
  BY <1>4, <1>n DEF SaveData, Idle
<1>5. ASSUME NEW f \in File, Edit(f) PROVE DoomedIsDropped'
  BY <1>5, <1>n DEF Edit, Idle
<1>6. ASSUME NEW f \in File, NEW g \in File, AddInclude(f, g) PROVE DoomedIsDropped'
  BY <1>6, <1>n DEF AddInclude, Idle
<1>7. ASSUME NEW f \in File, NEW g \in File, RemoveInclude(f, g) PROVE DoomedIsDropped'
  BY <1>7, <1>n DEF RemoveInclude, Idle
<1>8. ASSUME NEW f \in File, NEW g \in File, NEW h \in File, RenameInclude(f, g, h) PROVE DoomedIsDropped'
  BY <1>8, <1>n DEF RenameInclude, Idle
<1>9. ASSUME LoadInclude PROVE DoomedIsDropped'
  BY <1>9, <1>n DEF LoadInclude, CheckParent, Open, fileVars
<1>9f. ASSUME LoadFails PROVE DoomedIsDropped'
  BY <1>9f, <1>n DEF LoadFails
<1>10. ASSUME EndLoad PROVE DoomedIsDropped'
  BY <1>10, <1>n DEF EndLoad
<1>11. ASSUME CloseDangling PROVE DoomedIsDropped'
  BY <1>11, <1>n DEF CloseDangling, Close
<1>12. ASSUME PreloadInclude PROVE DoomedIsDropped'
  BY <1>12, <1>n DEF PreloadInclude, Open, fileVars
<1>13. ASSUME PreloadFails PROVE DoomedIsDropped'
  BY <1>13, <1>n DEF PreloadFails
<1>14. ASSUME EndPreload PROVE DoomedIsDropped'
  BY <1>14, <1>m DEF EndPreload
<1>15. ASSUME Prune PROVE DoomedIsDropped'
  <2>1. CASE pc' = "prune"
    <3>1. known' = known /\ includes' = includes /\ disk' = disk /\ doomed' = doomed \cup Dropped
      BY <1>15, <2>1 DEF Prune
    <3>2. \A f \in Dropped : disk[f] = Missing \/ \A p \in Kept : f \notin includes[p]
      BY DEF Dropped, Includers, Resolves
    <3> QED BY <3>1, <3>2 DEF DoomedIsDropped, Kept
  <2> QED BY <1>n, <2>1
<1>16. CASE UNCHANGED vars
  BY <1>16, <1>n DEF vars, fileVars, callVars, DoomedIsDropped, Kept
<1> QED
  BY <1>1, <1>2, <1>3, <1>4, <1>5, <1>6, <1>7, <1>8, <1>9, <1>9f, <1>10, <1>11, <1>12, <1>13, <1>14, <1>15, <1>16 DEF Next

\* The first call has all its includes to visit.
LEMMA VisitsOne ==
  ASSUME NEW e \in Frame
  PROVE  \A g \in e.todo : Visiting(<<e>>, e.file, g)
<1>1. 1 \in DOMAIN <<e>> /\ <<e>>[1] = e
  OBVIOUS
<1> QED BY <1>1 DEF Visiting

\* Every step keeps: an include of an open file is open or still to visit.
LEMMA NextCovered == StateOK /\ Present /\ GraphIsIncludes /\ DoomedIsDropped /\ IncludesCovered /\ [Next]_vars => IncludesCovered'
<1> SUFFICES ASSUME StateOK, GraphIsIncludes, DoomedIsDropped, [Next]_vars, AllCovered,
                    careless \cap {"missingFile", "renameInclude", "closeRelated"} = {}, \A f \in File : disk[f] # Missing
             PROVE  \A d \in known' : \A e \in includes'[d] : e \in known' \/ Visiting(stack', d, e)
  BY CarelessIsFixed DEF Present, IncludesCovered, AllCovered
<1>x. "renameInclude" \notin careless /\ "closeRelated" \notin careless /\ \A f \in File : disk[f] # Missing
  OBVIOUS
<1>c. \A f \in known : \A g \in includes[f] : g \in known \/ Visiting(stack, f, g)
  BY DEF AllCovered
<1>t. /\ stack # <<>> <=> pc \in {"load", "preload"}
      /\ stack \in Seq(Frame) /\ known \subseteq File /\ includes \in [File -> SUBSET File]
  BY DEF StateOK, StackOK, Within, DataOK
<1>e. \A f, g : ~Visiting(<<>>, f, g)
  BY DEF Visiting
<1>f. stack # <<>> => Top.file \in File /\ Top.todo \subseteq File
  BY StackWithin DEF StateOK, StackOK, DataOK, Frame
<1>o. ASSUME NEW f \in File
      PROVE  /\ \A g \in disk[f] : Visiting(<<Visit(f)>>, f, g)
             /\ \A q \in Seq(Frame) : /\ \A g \in disk[f] : Visiting(Append(q, Visit(f)), f, g)
                                      /\ \A h, g : Visiting(q, h, g) => Visiting(Append(q, Visit(f)), h, g)
  <2>1. disk[f] \subseteq File
    BY ContentLists DEF StateOK, DataOK
  <2>2. Visit(f) \in Frame /\ Visit(f).file = f /\ Visit(f).todo = disk[f]
    BY <2>1 DEF Visit, Frame
  <2> QED BY <2>2, VisitsOne, VisitsPushed
<1>1. ASSUME NEW f \in File, LoadData(f)
      PROVE  \A d \in known' : \A e \in includes'[d] : e \in known' \/ Visiting(stack', d, e)
  <2>1. CASE f \in known
    <3>1. known' = known /\ includes' = includes /\ stack' = stack
      BY <1>1, <2>1 DEF LoadData, fileVars
    <3> QED BY <1>c, <3>1
  <2>2. CASE f \notin known
    <3>1. /\ pc = "idle" /\ disk[f] # Missing /\ known' = known \cup {f} /\ stack' = <<Visit(f)>>
          /\ includes' = [includes EXCEPT ![f] = disk[f]]
      BY <1>1, <2>2 DEF LoadData, Idle, Open, Resolves
    <3> QED BY <1>c, <1>t, <1>o, <1>e, <2>2, <3>1
  <2> QED BY <2>1, <2>2
<1>2. ASSUME NEW f \in File, ReloadData(f)
      PROVE  \A d \in known' : \A e \in includes'[d] : e \in known' \/ Visiting(stack', d, e)
  <2>1. /\ pc = "idle" /\ known' = known /\ f \in known /\ stack' = <<[file |-> f, todo |-> disk[f] \ includes[f]]>>
        /\ includes' = [includes EXCEPT ![f] = disk[f]] /\ disk[f] # Missing
    BY <1>2 DEF ReloadData, Idle
  <2>2. disk[f] \subseteq File
    BY <2>1, ContentLists DEF StateOK, DataOK
  <2>3. DEFINE e == [file |-> f, todo |-> disk[f] \ includes[f]]
  <2>4. e \in Frame /\ e.file = f /\ e.todo = disk[f] \ includes[f] /\ stack' = <<e>>
    BY <2>1, <2>2, <1>t DEF Frame
  <2> HIDE DEF e
  <2>5. \A g \in disk[f] \ includes[f] : Visiting(stack', f, g)
    BY <2>4, VisitsOne
  <2>6. stack = <<>> /\ f \in known /\ known' = known /\ includes' = [includes EXCEPT ![f] = disk[f]]
    BY <1>t, <2>1
  <2> QED BY <1>c, <1>t, <1>e, <2>5, <2>6
<1>3. ASSUME NEW f \in File, CloseData(f)
      PROVE  \A d \in known' : \A e \in includes'[d] : e \in known' \/ Visiting(stack', d, e)
  <2>1. pc = "idle" /\ known' = known \ {f} /\ includes' = includes /\ stack' = stack /\ \A p \in known : f \notin includes[p]
    BY <1>3, <1>x DEF CloseData, Close, callVars, Idle
  <2> QED BY <1>c, <1>t, <1>e, <2>1
<1>4. ASSUME NEW f \in File, SaveData(f)
      PROVE  \A d \in known' : \A e \in includes'[d] : e \in known' \/ Visiting(stack', d, e)
  <2>1. known' = known /\ includes' = includes /\ stack' = stack
    BY <1>4 DEF SaveData, fileVars, callVars
  <2> QED BY <1>c, <2>1
<1>5. ASSUME NEW f \in File, Edit(f)
      PROVE  \A d \in known' : \A e \in includes'[d] : e \in known' \/ Visiting(stack', d, e)
  <2>1. known' = known /\ includes' = includes /\ stack' = stack
    BY <1>5 DEF Edit, fileVars, callVars
  <2> QED BY <1>c, <2>1
<1>6. ASSUME NEW f \in File, NEW g \in File, AddInclude(f, g)
      PROVE  \A d \in known' : \A e \in includes'[d] : e \in known' \/ Visiting(stack', d, e)
  <2>1. CASE g \in known
    <3>1. known' = known /\ includes' = [includes EXCEPT ![f] = @ \cup {g}] /\ stack' = stack
      BY <1>6, <2>1 DEF AddInclude, CheckParent, Open
    <3> QED BY <1>c, <1>t, <2>1, <3>1
  <2>2. CASE g \notin known
    <3>1. /\ pc = "idle" /\ disk[g] # Missing /\ known' = known \cup {g} /\ stack' = <<Visit(g)>>
          /\ includes' = [includes EXCEPT ![g] = disk[g]]
      BY <1>6, <2>2 DEF AddInclude, Idle, Open, Resolves
    <3> QED BY <1>c, <1>t, <1>o, <1>e, <2>2, <3>1
  <2> QED BY <2>1, <2>2
<1>7. ASSUME NEW f \in File, NEW g \in File, RemoveInclude(f, g)
      PROVE  \A d \in known' : \A e \in includes'[d] : e \in known' \/ Visiting(stack', d, e)
  <2>1. known' = known /\ includes' = [includes EXCEPT ![f] = @ \ {g}] /\ stack' = stack
    BY <1>7 DEF RemoveInclude
  <2> QED BY <1>c, <1>t, <2>1
<1>8. ASSUME NEW f \in File, NEW g \in File, NEW h \in File, RenameInclude(f, g, h)
      PROVE  \A d \in known' : \A e \in includes'[d] : e \in known' \/ Visiting(stack', d, e)
  BY <1>8, <1>x DEF RenameInclude
<1>9. ASSUME LoadInclude
      PROVE  \A d \in known' : \A e \in includes'[d] : e \in known' \/ Visiting(stack', d, e)
  <2>1. stack # <<>> /\ stack \in Seq(Frame)
    BY <1>9, <1>t DEF LoadInclude
  <2>2. PICK g \in Top.todo :
         IF g \in known THEN known' = known /\ includes' = includes /\ stack' = Rest(g)
         ELSE known' = known \cup {g} /\ includes' = [includes EXCEPT ![g] = disk[g]] /\ stack' = Append(Rest(g), Visit(g))
    BY <1>9, <2>1, <1>x, <1>f DEF LoadInclude, CheckParent, Open, fileVars
  <2>3. g \in File /\ Rest(g) \in Seq(Frame) /\ \A f, h : Visiting(stack, f, h) /\ h # g => Visiting(Rest(g), f, h)
    BY <1>f, <2>1, RestParts, Visits
  <2>4. CASE g \in known
    BY <1>c, <2>2, <2>3, <2>4
  <2>5. CASE g \notin known
    <3>1. stack' = Append(Rest(g), Visit(g)) /\ known' = known \cup {g} /\ includes' = [includes EXCEPT ![g] = disk[g]]
      BY <2>2, <2>5
    <3>2. /\ \A h \in disk[g] : Visiting(Append(Rest(g), Visit(g)), g, h)
          /\ \A f, h : Visiting(Rest(g), f, h) => Visiting(Append(Rest(g), Visit(g)), f, h)
      BY <1>o, <2>3
    <3>3. /\ \A h \in disk[g] : Visiting(stack', g, h)
          /\ \A f, h : Visiting(stack, f, h) /\ h # g => Visiting(stack', f, h)
      BY <2>3, <3>1, <3>2
    <3> QED BY <1>c, <1>t, <2>3, <2>5, <3>1, <3>3
  <2> QED BY <2>4, <2>5
<1>9f. ASSUME LoadFails
      PROVE  \A d \in known' : \A e \in includes'[d] : e \in known' \/ Visiting(stack', d, e)
  BY <1>9f, <1>x, <1>f, <1>t DEF LoadFails, Resolves
<1>10. ASSUME EndLoad
      PROVE  \A d \in known' : \A e \in includes'[d] : e \in known' \/ Visiting(stack', d, e)
  <2>1. stack # <<>> /\ stack \in Seq(Frame) /\ Top.todo = {} /\ stack' = Outer /\ known' = known
    BY <1>10, <1>t DEF EndLoad
  <2>2. \A f, g : Visiting(stack, f, g) => Visiting(Outer, f, g)
    BY <2>1, Visits
  <2>3. CASE includes' = includes
    BY <1>c, <2>1, <2>2, <2>3
  <2>4. CASE adding # <<>> /\ includes' = [includes EXCEPT ![adding[1]] = @ \cup {adding[2]}]
    <3>1. PICK f \in known, g \in known : adding = <<f, g>>
      BY <2>4 DEF StateOK, ScratchOK
    <3>2. includes' = [includes EXCEPT ![f] = @ \cup {g}]
      BY <2>4, <3>1
    <3> QED BY <1>c, <1>t, <2>1, <2>2, <3>1, <3>2
  <2> QED BY <1>10, <2>3, <2>4 DEF EndLoad
<1>11. ASSUME CloseDangling
      PROVE  \A d \in known' : \A e \in includes'[d] : e \in known' \/ Visiting(stack', d, e)
  <2>1. pc = "close" /\ known' = known \ Unhosted /\ includes' = includes /\ stack' = stack
    BY <1>11 DEF CloseDangling, Close
  <2>2. \A p \in known : \A f \in includes[p] \cap known : p \in Hosts(f)
    BY <2>1 DEF GraphIsIncludes, Hosts
  <2>3. \A p \in known : \A f \in includes[p] \cap known : f \notin Unhosted
    BY <2>2 DEF Unhosted
  <2> QED BY <1>c, <1>t, <1>e, <2>1, <2>3
<1>12. ASSUME PreloadInclude
      PROVE  \A d \in known' : \A e \in includes'[d] : e \in known' \/ Visiting(stack', d, e)
  <2>1. stack # <<>> /\ stack \in Seq(Frame)
    BY <1>12, <1>t DEF PreloadInclude
  <2>2. PICK g \in Top.todo :
         IF g \in known THEN known' = known /\ includes' = includes /\ stack' = Rest(g)
         ELSE known' = known \cup {g} /\ includes' = [includes EXCEPT ![g] = disk[g]] /\ stack' = Append(Rest(g), Visit(g))
    BY <1>12, <2>1, <1>x, <1>f DEF PreloadInclude, Open, fileVars
  <2>3. g \in File /\ Rest(g) \in Seq(Frame) /\ \A f, h : Visiting(stack, f, h) /\ h # g => Visiting(Rest(g), f, h)
    BY <1>f, <2>1, RestParts, Visits
  <2>4. CASE g \in known
    BY <1>c, <2>2, <2>3, <2>4
  <2>5. CASE g \notin known
    <3>1. stack' = Append(Rest(g), Visit(g)) /\ known' = known \cup {g} /\ includes' = [includes EXCEPT ![g] = disk[g]]
      BY <2>2, <2>5
    <3>2. /\ \A h \in disk[g] : Visiting(Append(Rest(g), Visit(g)), g, h)
          /\ \A f, h : Visiting(Rest(g), f, h) => Visiting(Append(Rest(g), Visit(g)), f, h)
      BY <1>o, <2>3
    <3>3. /\ \A h \in disk[g] : Visiting(stack', g, h)
          /\ \A f, h : Visiting(stack, f, h) /\ h # g => Visiting(stack', f, h)
      BY <2>3, <3>1, <3>2
    <3> QED BY <1>c, <1>t, <2>3, <2>5, <3>1, <3>3
  <2> QED BY <2>4, <2>5
<1>13. ASSUME PreloadFails
      PROVE  \A d \in known' : \A e \in includes'[d] : e \in known' \/ Visiting(stack', d, e)
  BY <1>13, <1>x, <1>f, <1>t DEF PreloadFails, Resolves
<1>14. ASSUME EndPreload
      PROVE  \A d \in known' : \A e \in includes'[d] : e \in known' \/ Visiting(stack', d, e)
  <2>1. stack # <<>> /\ stack \in Seq(Frame) /\ Top.todo = {} /\ stack' = Outer /\ known' = known /\ includes' = includes
    BY <1>14, <1>t DEF EndPreload, fileVars
  <2>2. \A f, g : Visiting(stack, f, g) => Visiting(Outer, f, g)
    BY <2>1, Visits
  <2> QED BY <1>c, <2>1, <2>2
<1>15. ASSUME Prune
      PROVE  \A d \in known' : \A e \in includes'[d] : e \in known' \/ Visiting(stack', d, e)
  <2>1. pc = "prune" /\ known' \in {known, Kept} /\ includes' = includes /\ stack' = stack
    BY <1>15 DEF Prune, Close, Kept
  <2>2. known' = known \/ known' = known \ doomed
    BY <2>1 DEF Kept
  <2>3. \A f \in doomed : \A p \in known \ doomed : f \notin includes[p]
    BY <1>t, <1>x DEF DoomedIsDropped, Kept, StateOK, ScratchOK
  <2> QED BY <1>c, <1>t, <1>e, <2>1, <2>2, <2>3
<1>16. CASE UNCHANGED vars
  BY <1>16, <1>c DEF vars, fileVars, callVars
<1> QED
  BY <1>1, <1>2, <1>3, <1>4, <1>5, <1>6, <1>7, <1>8, <1>9, <1>9f, <1>10, <1>11, <1>12, <1>13, <1>14, <1>15, <1>16 DEF Next

\* The parent of every open file fits.
AllParents(K, I, B, a) ==
    \A f \in K : B[f] = NoFile \/ (B[f] \in K /\ (f \in I[B[f]] \/ a = <<B[f], f>>))
TodoListed(q, I) == \A i \in DOMAIN q : q[i].todo \subseteq I[q[i].file]

\* ParentsFit in terms of the two operators above.
LEMMA ParentsParts ==
  ParentsFit <=>
    /\ pc \in {"idle", "load"} \/ (pc = "preload" /\ ~changed) => AllParents(known, includes, included_by, adding)
    /\ pc = "load" => TodoListed(stack, includes)
    /\ pc = "preload" /\ ~changed => \A i \in DOMAIN stack : stack[i].todo = {}
BY DEF ParentsFit, ParentOf, AllParents, TodoListed

\* The first call visits what its file includes.
LEMMA TodoOfOne ==
  ASSUME NEW f, NEW I, I[f] = disk[f]
  PROVE  TodoListed(<<Visit(f)>>, I)
<1>1. \A i \in DOMAIN <<Visit(f)>> : <<Visit(f)>>[i] = Visit(f)
  OBVIOUS
<1> QED BY <1>1 DEF TodoListed, Visit

\* Every step keeps: the parents of the open files fit, when they are to.
LEMMA NextParents == StateOK /\ ScratchOK' /\ Present /\ GraphIsIncludes /\ ParentsKnown /\ [Next]_vars => ParentsKnown'
<1> SUFFICES ASSUME StateOK, ScratchOK', Present, GraphIsIncludes, [Next]_vars, ParentsKnown
             PROVE  ParentsKnown'
  OBVIOUS
<1>i. careless' = careless
  BY CarelessIsFixed
<1> SUFFICES ASSUME careless \subseteq {"cycle"} PROVE ParentsFit'
  BY <1>i DEF ParentsKnown
<1>y. ParentsFit
  BY DEF ParentsKnown
<1>x. /\ {"renameInclude", "closeRelated", "dropLastInclude"} \cap careless = {}
      /\ \A f \in File : disk[f] # Missing
  BY DEF Present
<1>a. pc \in {"idle", "load"} \/ (pc = "preload" /\ ~changed) => AllParents(known, includes, included_by, adding)
  BY <1>y, ParentsParts
<1>b. pc = "load" => TodoListed(stack, includes)
  BY <1>y, ParentsParts
<1>d. pc = "preload" /\ ~changed => \A i \in DOMAIN stack : stack[i].todo = {}
  BY <1>y, ParentsParts
<1>g. ASSUME /\ pc' \in {"idle", "load"} \/ (pc' = "preload" /\ ~changed') => AllParents(known', includes', included_by', adding')
             /\ pc' = "load" => TodoListed(stack', includes')
             /\ pc' = "preload" /\ ~changed' => \A i \in DOMAIN stack' : stack'[i].todo = {}
      PROVE  ParentsFit'
  BY <1>g DEF ParentsFit, ParentOf, AllParents, TodoListed
<1>t. /\ stack # <<>> <=> pc \in {"load", "preload"}
      /\ stack \in Seq(Frame) /\ known \subseteq File /\ includes \in [File -> SUBSET File]
      /\ included_by \in [File -> File \cup {NoFile, Gone}] /\ (adding # <<>> => pc = "load")
  BY DEF StateOK, StackOK, ScratchOK, Within, DataOK
<1>k. \A i \in DOMAIN stack : stack[i].file \in known
  BY DEF StateOK, StackOK, Within
<1>f. stack # <<>> => Top.file \in known /\ Top.file \in File /\ Top.todo \subseteq File
  BY StackWithin DEF StateOK, StackOK, DataOK, Frame
<1>n. NoFile \notin doomed
  BY IncludesAssumption DEF StateOK, ScratchOK, DataOK
<1>v. ASSUME NEW f \in File
      PROVE  Visit(f) \in Frame /\ Visit(f).file = f /\ Visit(f).todo = disk[f]
  <2>1. disk[f] \subseteq File
    BY <1>x, ContentLists DEF StateOK, DataOK
  <2> QED BY <2>1 DEF Visit, Frame
<1>1. ASSUME NEW f \in File, LoadData(f) PROVE ParentsFit'
  <2>1. CASE f \in known
    <3>1. known' = known /\ includes' = includes /\ included_by' = included_by /\ adding' = adding /\ pc = "idle" /\ pc' = "idle"
      BY <1>1, <2>1 DEF LoadData, fileVars, callVars, Idle
    <3> QED BY <1>a, <1>g, <3>1
  <2>2. CASE f \notin known
    <3>1. /\ pc = "idle" /\ pc' = "load" /\ disk[f] # Missing /\ known' = known \cup {f} /\ stack' = <<Visit(f)>>
          /\ includes' = [includes EXCEPT ![f] = disk[f]] /\ included_by' = [included_by EXCEPT ![f] = NoFile] /\ adding' = adding
      BY <1>1, <2>2 DEF LoadData, Idle, Open, callVars, Resolves
    <3>2. AllParents(known', includes', included_by', adding')
      BY <1>a, <1>t, <2>2, <3>1 DEF AllParents
    <3>3. includes'[f] = disk[f]
      BY <1>t, <3>1
    <3>4. TodoListed(stack', includes')
      BY <3>1, <3>3, TodoOfOne
    <3> QED BY <1>g, <3>1, <3>2, <3>4
  <2> QED BY <2>1, <2>2
<1>2. ASSUME NEW f \in File, ReloadData(f) PROVE ParentsFit'
  <2>1. /\ pc = "idle" /\ pc' = "preload" /\ known' = known /\ included_by' = included_by /\ adding' = adding
        /\ includes' = [includes EXCEPT ![f] = disk[f]]
        /\ changed' = (disk[f] # {} /\ disk[f] # includes[f])
        /\ stack' = <<[file |-> f, todo |-> disk[f] \ includes[f]]>>
    BY <1>2 DEF ReloadData, Idle
  <2>2. ASSUME ~changed' PROVE disk[f] = includes[f]
    BY <1>2, <1>x, <2>1, <2>2 DEF ReloadData
  <2>3. ASSUME ~changed' PROVE includes' = includes /\ \A i \in DOMAIN stack' : stack'[i].todo = {}
    <3>1. includes' = includes
      BY <1>t, <2>1, <2>2, <2>3
    <3>2. disk[f] \ includes[f] = {}
      BY <2>2, <2>3
    <3> QED BY <2>1, <3>1, <3>2
  <2> QED BY <1>a, <1>g, <2>1, <2>3
<1>3. ASSUME NEW f \in File, CloseData(f) PROVE ParentsFit'
  <2>1. /\ pc = "idle" /\ pc' = "idle" /\ known' = known \ {f} /\ includes' = includes /\ adding' = adding
        /\ included_by' = Forgotten({f}, included_by) /\ \A p \in known : f \notin includes[p] /\ included_by[p] # f
    BY <1>3, <1>x DEF CloseData, Close, callVars, Idle
  <2>2. \A p \in known' : included_by'[p] = included_by[p]
    BY <1>t, <2>1 DEF Forgotten
  <2>3. AllParents(known', includes', included_by', adding')
    BY <1>a, <2>1, <2>2 DEF AllParents
  <2> QED BY <1>g, <2>1, <2>3
<1>4. ASSUME NEW f \in File, SaveData(f) PROVE ParentsFit'
  <2>1. /\ known' = known /\ includes' = includes /\ included_by' = included_by /\ adding' = adding
        /\ pc = "idle" /\ pc' = "idle"
    BY <1>4 DEF SaveData, fileVars, callVars, Idle
  <2> QED BY <1>a, <1>g, <2>1
<1>5. ASSUME NEW f \in File, Edit(f) PROVE ParentsFit'
  <2>1. /\ known' = known /\ includes' = includes /\ included_by' = included_by /\ adding' = adding
        /\ pc = "idle" /\ pc' = "idle"
    BY <1>5 DEF Edit, fileVars, callVars, Idle
  <2> QED BY <1>a, <1>g, <2>1
<1>6. ASSUME NEW f \in File, NEW g \in File, AddInclude(f, g) PROVE ParentsFit'
  <2>1. CASE g \in known
    <3>1. /\ pc = "idle" /\ pc' = "idle" /\ known' = known /\ includes' = [includes EXCEPT ![f] = @ \cup {g}] /\ adding' = adding
          /\ CheckParent(g, f) /\ f \in known
      BY <1>6, <2>1 DEF AddInclude, Idle
    <3>2. AllParents(known', includes', included_by', adding')
      BY <1>a, <1>t, <2>1, <3>1 DEF AllParents, CheckParent
    <3> QED BY <1>g, <3>1, <3>2
  <2>2. CASE g \notin known
    <3>1. /\ pc = "idle" /\ pc' = "load" /\ disk[g] # Missing /\ known' = known \cup {g} /\ stack' = <<Visit(g)>> /\ f \in known
          /\ includes' = [includes EXCEPT ![g] = disk[g]] /\ included_by' = [included_by EXCEPT ![g] = f] /\ adding' = <<f, g>>
      BY <1>6, <2>2 DEF AddInclude, Idle, Open, Resolves
    <3>2. adding = <<>>
      BY <1>t, <3>1
    <3>5. \A h \in known : included_by[h] = NoFile \/ (included_by[h] \in known /\ h \in includes[included_by[h]])
      <4>1. \A h \in known : included_by[h] = NoFile \/ (included_by[h] \in known /\ (h \in includes[included_by[h]] \/ adding = <<included_by[h], h>>))
        BY <1>a, <3>1 DEF AllParents
      <4>2. \A p, h : adding # <<p, h>>
        BY <3>2
      <4> QED BY <4>1, <4>2
    <3>6. \A h \in known : included_by'[h] = included_by[h] /\ includes'[h] = includes[h]
      BY <1>t, <2>2, <3>1
    <3>7. included_by'[g] = f
      BY <1>t, <3>1
    <3>3. AllParents(known', includes', included_by', adding')
      BY <3>1, <3>5, <3>6, <3>7 DEF AllParents
    <3>4. TodoListed(stack', includes')
      <4>1. includes'[g] = disk[g]
        BY <1>t, <3>1
      <4> QED BY <3>1, <4>1, TodoOfOne
    <3> QED BY <1>g, <3>1, <3>3, <3>4
  <2> QED BY <2>1, <2>2
<1>7. ASSUME NEW f \in File, NEW g \in File, RemoveInclude(f, g) PROVE ParentsFit'
  <2>1. \A p \in known : includes'[p] \subseteq File
    BY <1>7, <1>t DEF RemoveInclude
  <2>2. \A p \in known : \A h \in includes'[p] : Resolves(h)
    BY <1>x, <2>1 DEF Resolves
  <2>3. pc' = "close"
    BY <1>7, <2>2 DEF RemoveInclude
  <2> QED BY <1>g, <2>3
<1>8. ASSUME NEW f \in File, NEW g \in File, NEW h \in File, RenameInclude(f, g, h) PROVE ParentsFit'
  BY <1>8, <1>x DEF RenameInclude
<1>9. ASSUME LoadInclude PROVE ParentsFit'
  <2>1. stack # <<>> /\ stack \in Seq(Frame) /\ pc = "load" /\ pc' \in {"load", "idle"}
    BY <1>9, <1>t DEF LoadInclude
  <2>2. PICK g \in Top.todo :
         IF g \in known THEN known' = known /\ includes' = includes /\ stack' = Rest(g) /\ CheckParent(g, Top.file) /\ adding' = adding /\ pc' = pc
         ELSE /\ known' = known \cup {g} /\ includes' = [includes EXCEPT ![g] = disk[g]] /\ included_by' = [included_by EXCEPT ![g] = Top.file]
              /\ stack' = Append(Rest(g), Visit(g)) /\ adding' = adding /\ pc' = pc
    BY <1>9, <1>x, <1>f, <2>1 DEF LoadInclude, Open
  <2>3. /\ g \in File /\ Top.file \in known /\ Top.file \in File /\ Rest(g) \in Seq(Frame)
        /\ \A k \in DOMAIN Rest(g) : \E i \in DOMAIN stack :
               Rest(g)[k].file = stack[i].file /\ Rest(g)[k].todo \subseteq stack[i].todo
        /\ Len(stack) \in DOMAIN stack /\ stack[Len(stack)] = Top
    BY <1>f, <2>1, RestParts, StackParts
  <2>4. g \in includes[Top.file]
    BY <1>b, <2>1, <2>3 DEF TodoListed
  <2>5. TodoListed(Rest(g), includes)
    BY <1>b, <2>1, <2>3 DEF TodoListed
  <2>6. CASE g \in known
    <3>1. known' = known /\ includes' = includes /\ stack' = Rest(g) /\ CheckParent(g, Top.file) /\ adding' = adding /\ pc' = "load"
      BY <2>1, <2>2, <2>6
    <3>2. AllParents(known', includes', included_by', adding')
      BY <1>a, <1>t, <2>1, <2>3, <2>4, <2>6, <3>1 DEF AllParents, CheckParent
    <3> QED BY <1>g, <2>5, <3>1, <3>2
  <2>7. CASE g \notin known
    <3>1. /\ known' = known \cup {g} /\ includes' = [includes EXCEPT ![g] = disk[g]] /\ included_by' = [included_by EXCEPT ![g] = Top.file]
          /\ stack' = Append(Rest(g), Visit(g)) /\ adding' = adding /\ pc' = "load"
      BY <2>1, <2>2, <2>7
    <3>2. /\ includes'[g] = disk[g] /\ included_by'[g] = Top.file
          /\ \A h \in known : includes'[h] = includes[h] /\ included_by'[h] = included_by[h]
      BY <1>t, <2>3, <2>7, <3>1
    <3>3. AllParents(known', includes', included_by', adding')
      BY <1>a, <2>1, <2>3, <2>4, <3>1, <3>2 DEF AllParents
    <3>4. TodoListed(Rest(g), includes')
      <4>1. \A k \in DOMAIN Rest(g) : Rest(g)[k].file \in known
        BY <1>k, <2>3
      <4> QED BY <2>5, <3>2, <4>1 DEF TodoListed
    <3>5. TodoListed(stack', includes')
      <4>1. Visit(g) \in Frame /\ Visit(g).todo \subseteq includes'[Visit(g).file]
        BY <1>x, <1>v, <2>3, <3>2
      <4>2. \A i \in DOMAIN stack' : (i \in DOMAIN Rest(g) /\ stack'[i] = Rest(g)[i]) \/ stack'[i] = Visit(g)
        BY <2>3, <3>1, <4>1, Push
      <4> QED BY <3>4, <4>1, <4>2 DEF TodoListed
    <3> QED BY <1>g, <3>1, <3>3, <3>5
  <2> QED BY <2>6, <2>7
<1>9f. ASSUME LoadFails PROVE ParentsFit'
  BY <1>9f, <1>x, <1>f, <1>t DEF LoadFails, Resolves
<1>10. ASSUME EndLoad PROVE ParentsFit'
  <2>1. stack # <<>> /\ stack \in Seq(Frame) /\ pc = "load" /\ stack' = Outer /\ known' = known /\ included_by' = included_by
    BY <1>10, <1>t DEF EndLoad
  <2>2. TodoListed(Outer, includes)
    BY <1>b, <2>1, StackParts DEF TodoListed
  <2>3. CASE includes' = includes /\ adding' = adding
    <3>1. pc' \in {"idle", "load"}
      BY <1>10, <2>1 DEF EndLoad
    <3> QED BY <1>a, <1>g, <2>1, <2>2, <2>3, <3>1
  <2>4. CASE adding # <<>> /\ adding' = <<>> /\ includes' = [includes EXCEPT ![adding[1]] = @ \cup {adding[2]}] /\ pc' = "idle"
    <3>1. PICK f \in known, g \in known : adding = <<f, g>>
      BY <2>4 DEF StateOK, ScratchOK
    <3>2. includes' = [includes EXCEPT ![f] = @ \cup {g}]
      BY <2>4, <3>1
    <3>3. \A p, h : adding = <<p, h>> => p = f /\ h = g
      BY <3>1
    <3>4. AllParents(known', includes', included_by', adding')
      BY <1>a, <1>t, <2>1, <3>1, <3>2, <3>3 DEF AllParents
    <3> QED BY <1>g, <2>4, <3>4
  <2>5. CASE adding = <<>> /\ adding' = <<>> /\ includes' = includes
    BY <2>3, <2>5
  <2> QED BY <1>10, <2>3, <2>4, <2>5 DEF EndLoad
<1>11. ASSUME CloseDangling PROVE ParentsFit'
  <2>1. CASE \A f \in Unhosted : includes[f] = {}
    <3>1. pc = "close" /\ known' = known \ Unhosted /\ includes' = includes /\ pc' = "idle"
      BY <1>11, <2>1 DEF CloseDangling, Close
    <3>2. PICK by \in [known \ Unhosted -> File \cup {NoFile}] :
            /\ \A f \in known \ Unhosted : Adopted(f, by[f])
            /\ included_by' = Forgotten(Unhosted,
                  [f \in File |-> IF f \in DOMAIN by THEN by[f] ELSE included_by[f]])
      BY <1>11 DEF CloseDangling
    <3>3. \A f \in known \ Unhosted : by[f] = NoFile \/ by[f] \in Hosts(f)
      BY <3>2 DEF Adopted
    <3>4. \A f \in File : \A p \in Hosts(f) : p \in known \ Unhosted /\ f \in includes[p]
      BY <1>t, <2>1 DEF GraphIsIncludes, Hosts
    <3>5. \A f \in known' : f \in known \ Unhosted /\ f \in File
      BY <1>t, <3>1
    <3>6. \A f \in known' : included_by'[f] = by[f]
      <4>1. \A f \in known \ Unhosted : by[f] \notin Unhosted
        BY <1>t, <3>3, <3>4, IncludesAssumption DEF Unhosted
      <4>2. \A f \in known \ Unhosted : f \in DOMAIN by
        BY <3>2
      <4> QED BY <3>2, <3>5, <4>1, <4>2 DEF Forgotten
    <3>7. AllParents(known', includes', included_by', adding')
      BY <3>1, <3>3, <3>4, <3>5, <3>6 DEF AllParents
    <3> QED BY <1>g, <3>1, <3>7
  <2>2. CASE ~\A f \in Unhosted : includes[f] = {}
    <3>1. pc' = "close"
      BY <1>11, <2>2 DEF CloseDangling
    <3> QED BY <1>g, <3>1
  <2> QED BY <2>1, <2>2
<1>12. ASSUME PreloadInclude PROVE ParentsFit'
  <2>1. /\ stack # <<>> /\ stack \in Seq(Frame) /\ pc = "preload" /\ pc' = "preload"
        /\ \E g \in Top.todo : TRUE
        /\ changed' = TRUE \/ changed' = changed
    BY <1>12, <1>t DEF PreloadInclude
  <2>2. changed
    BY <1>d, <2>1, StackParts
  <2>3. changed'
    BY <2>1, <2>2
  <2> QED BY <1>g, <2>1, <2>3
<1>13. ASSUME PreloadFails PROVE ParentsFit'
  BY <1>13, <1>x, <1>f, <1>t DEF PreloadFails, Resolves
<1>14. ASSUME EndPreload PROVE ParentsFit'
  <2>1. /\ stack # <<>> /\ stack \in Seq(Frame) /\ pc = "preload" /\ stack' = Outer /\ known' = known
        /\ includes' = includes /\ included_by' = included_by /\ adding' = adding
    BY <1>14, <1>t DEF EndPreload, fileVars
  <2>2. CASE Outer # <<>>
    <3>1. pc' = "preload" /\ changed' = changed
      BY <1>14, <2>2 DEF EndPreload
    <3>2. ~changed => \A i \in DOMAIN stack' : stack'[i].todo = {}
      BY <1>d, <2>1, StackParts
    <3> QED BY <1>a, <1>g, <2>1, <3>1, <3>2
  <2>3. CASE Outer = <<>>
    <3>1. pc' = IF changed THEN "prune" ELSE "idle"
      BY <1>14, <2>3 DEF EndPreload
    <3> QED BY <1>a, <1>g, <2>1, <3>1
  <2> QED BY <2>2, <2>3
<1>15. ASSUME Prune PROVE ParentsFit'
  <2>1. CASE Dropped = {}
    <3>1. pc = "prune" /\ known' = Kept /\ includes' = includes /\ pc' = "idle"
      BY <1>15, <2>1 DEF Prune, Close, Kept
    <3>2. PICK by \in [Kept -> File \cup {NoFile}] :
            /\ \A f \in Kept :
              IF included_by[f] = NoFile \/ f \in Dropped
                THEN by[f] = NoFile ELSE by[f] \in Includers(f)
            /\ included_by' = Forgotten(doomed, [f \in File |-> IF f \in Kept THEN by[f] ELSE included_by[f]])
      BY <1>15, <2>1 DEF Prune
    <3>3. \A f \in Kept : by[f] = NoFile \/ (by[f] \in Kept /\ f \in includes[by[f]])
      BY <3>2 DEF Includers
    <3>4. \A f \in Kept : f \in File /\ f \notin doomed
      BY <1>t DEF Kept
    <3>5. \A f \in known' : included_by'[f] = IF by[f] \in doomed THEN Gone ELSE by[f]
      BY <3>1, <3>2, <3>4 DEF Forgotten
    <3>7. \A f \in known' : included_by'[f] = by[f]
      <4>1. \A f \in Kept : by[f] \notin doomed
        BY <1>t, <3>3, <3>4, <1>n
      <4> QED BY <3>1, <3>5, <4>1
    <3>8. AllParents(known', includes', included_by', adding')
      BY <3>1, <3>3, <3>7 DEF AllParents
    <3> QED BY <1>g, <3>1, <3>8
  <2>2. CASE Dropped # {}
    <3>1. pc' = "prune"
      BY <1>15, <2>2 DEF Prune
    <3> QED BY <1>g, <3>1
  <2> QED BY <2>1, <2>2
<1>16. CASE UNCHANGED vars
  BY <1>16, <1>g, <1>y DEF vars, fileVars, callVars, ParentsFit, ParentOf
<1> QED
  BY <1>1, <1>2, <1>3, <1>4, <1>5, <1>6, <1>7, <1>8, <1>9, <1>9f, <1>10, <1>11, <1>12, <1>13, <1>14, <1>15, <1>16 DEF Next

-----------------------------------------------------------------------------
(* No file includes itself over others *)

\* What f includes in memory, or will after a reload.
Lists(d, l, f) == l[f] \cup (IF d[f] = Missing THEN {} ELSE d[f])

\* Every set of files has a member that includes no other.
LEMMA AcyclicLists ==
  ASSUME NEW d, NEW l
  PROVE  Acyclic({}, d, l) <=> \A S \in (SUBSET File) \ {{}} : \E f \in S : S \cap Lists(d, l, f) = {}
BY DEF Acyclic, Lists

\* Fewer includes make no circle.
LEMMA AcyclicShrinks ==
  ASSUME NEW d, NEW l, NEW e, NEW m, Acyclic({}, d, l),
         \A f \in File : Lists(e, m, f) \subseteq Lists(d, l, f)
  PROVE  Acyclic({}, e, m)
<1> SUFFICES ASSUME NEW S \in (SUBSET File) \ {{}} PROVE \E f \in S : S \cap Lists(e, m, f) = {}
  BY AcyclicLists
<1>1. PICK f \in S : S \cap Lists(d, l, f) = {}
  BY AcyclicLists
<1>2. Lists(e, m, f) \subseteq Lists(d, l, f)
  OBVIOUS
<1> QED BY <1>1, <1>2

\* A file that is opened includes no more than it did on disk.
LEMMA OpenShrinks ==
  ASSUME NEW l \in [File -> SUBSET File], NEW g \in File, disk[g] # Missing
  PROVE  \A f \in File : Lists(disk, [l EXCEPT ![g] = disk[g]], f) \subseteq Lists(disk, l, f)
BY DEF Lists

\* The lists when the include being added is in its list.
WithAdded(l, a) == [l EXCEPT ![a[1]] = @ \cup {a[2]}]

\* Every step keeps the inclusion free of circles.
LEMMA NextNoCircle == StateOK /\ ScratchOK' /\ Present /\ NoCircle /\ [Next]_vars => NoCircle'
<1> SUFFICES ASSUME StateOK, ScratchOK', Present, NoCircle, [Next]_vars
             PROVE  NoCircle'
  OBVIOUS
<1>i. careless' = careless
  BY CarelessIsFixed
<1>j. NoCircle' = (careless' = {} => /\ Acyclic({}, disk', includes')
                                     /\ adding' # <<>> => Acyclic({}, disk', WithAdded(includes', adding')))
  BY DEF NoCircle, WithAdded
<1> SUFFICES ASSUME careless = {} PROVE NoCircle'
  BY <1>i, <1>j
<1>h. ASSUME /\ Acyclic({}, disk', includes')
             /\ adding' # <<>> => Acyclic({}, disk', WithAdded(includes', adding'))
      PROVE  NoCircle'
  BY <1>h, <1>j
<1>a. Acyclic({}, disk, includes)
  BY DEF NoCircle
<1>b. adding # <<>> => Acyclic({}, disk, WithAdded(includes, adding))
  BY DEF NoCircle, WithAdded
<1>g. ASSUME disk' = disk, includes' = includes, adding' = adding PROVE NoCircle'
  BY <1>a, <1>b, <1>g, <1>h
<1>x. /\ {"renameInclude", "closeRelated", "dropLastInclude", "cycle"} \cap careless = {}
      /\ \A f \in File : disk[f] # Missing
  BY DEF Present
<1>t. /\ stack # <<>> <=> pc \in {"load", "preload"}
      /\ known \subseteq File /\ includes \in [File -> SUBSET File] /\ disk \in [File -> Content]
      /\ adding # <<>> => pc = "load"
  BY DEF StateOK, StackOK, ScratchOK, DataOK
<1>f. stack # <<>> => Top.todo \subseteq File
  BY StackWithin DEF StateOK, StackOK, DataOK, Frame
<1>1. ASSUME NEW f \in File, LoadData(f) PROVE NoCircle'
  <2>1. CASE f \in known
    <3>1. disk' = disk /\ includes' = includes /\ adding' = adding
      BY <1>1, <2>1 DEF LoadData, fileVars, callVars
    <3> QED BY <1>g, <3>1
  <2>2. CASE f \notin known
    <3>1. disk[f] # Missing /\ disk' = disk /\ includes' = [includes EXCEPT ![f] = disk[f]] /\ adding' = <<>>
      BY <1>1, <1>t, <2>2 DEF LoadData, Open, Idle, callVars, Resolves
    <3>2. Acyclic({}, disk', includes')
      BY <1>a, <1>t, <3>1, OpenShrinks, AcyclicShrinks
    <3> QED BY <1>h, <3>1, <3>2
  <2> QED BY <2>1, <2>2
<1>2. ASSUME NEW f \in File, ReloadData(f) PROVE NoCircle'
  <2>1. disk[f] # Missing /\ disk' = disk /\ includes' = [includes EXCEPT ![f] = disk[f]] /\ adding' = <<>>
    BY <1>2, <1>t DEF ReloadData, Idle
  <2>2. Acyclic({}, disk', includes')
    BY <1>a, <1>t, <2>1, OpenShrinks, AcyclicShrinks
  <2> QED BY <1>h, <2>1, <2>2
<1>3. ASSUME NEW f \in File, CloseData(f) PROVE NoCircle'
  <2>1. disk' = disk /\ includes' = includes /\ adding' = adding
    BY <1>3 DEF CloseData, Close, callVars
  <2> QED BY <1>g, <2>1
<1>4. ASSUME NEW f \in File, SaveData(f) PROVE NoCircle'
  <2>1. disk' = [disk EXCEPT ![f] = includes[f]] /\ includes' = includes /\ adding' = <<>>
    BY <1>4, <1>t DEF SaveData, fileVars, callVars, Idle
  <2>2. \A h \in File : Lists(disk', includes', h) \subseteq Lists(disk, includes, h)
    BY <1>t, <2>1 DEF Lists
  <2>3. Acyclic({}, disk', includes')
    BY <1>a, <2>2, AcyclicShrinks
  <2> QED BY <1>h, <2>1, <2>3
<1>5. ASSUME NEW f \in File, Edit(f) PROVE NoCircle'
  <2>1. includes' = includes /\ adding' = <<>>
    BY <1>5, <1>t DEF Edit, fileVars, callVars, Idle
  <2>2. Acyclic({}, disk', includes)
    BY <1>5, <1>x DEF Edit, Fits
  <2> QED BY <1>h, <2>1, <2>2
<1>6. ASSUME NEW f \in File, NEW g \in File, AddInclude(f, g) PROVE NoCircle'
  <2>1. Acyclic({}, disk, [includes EXCEPT ![f] = @ \cup {g}]) /\ disk' = disk /\ adding = <<>>
    BY <1>6, <1>x, <1>t DEF AddInclude, Fits, Idle
  <2>2. CASE g \in known
    <3>1. includes' = [includes EXCEPT ![f] = @ \cup {g}] /\ adding' = <<>>
      BY <1>6, <2>1, <2>2 DEF AddInclude
    <3>2. Acyclic({}, disk', includes')
      BY <2>1, <3>1
    <3> QED BY <1>h, <3>1, <3>2
  <2>3. CASE g \notin known
    <3>1. disk[g] # Missing /\ includes' = [includes EXCEPT ![g] = disk[g]] /\ adding' = <<f, g>> /\ f # g
      BY <1>6, <2>3 DEF AddInclude, Open, Resolves
    <3>2. Acyclic({}, disk', includes')
      BY <1>a, <1>t, <2>1, <3>1, OpenShrinks, AcyclicShrinks
    <3>3. DEFINE m == [includes EXCEPT ![f] = @ \cup {g}]
    <3>4. m \in [File -> SUBSET File] /\ Acyclic({}, disk, m)
      BY <1>t, <2>1
    <3>5. WithAdded(includes', adding') = [m EXCEPT ![g] = disk[g]]
      <4>1. adding'[1] = f /\ adding'[2] = g
        BY <3>1
      <4>2. WithAdded(includes', adding') = [includes' EXCEPT ![f] = @ \cup {g}]
        BY <4>1 DEF WithAdded
      <4> QED BY <1>t, <3>1, <4>2
    <3>6. Acyclic({}, disk, [m EXCEPT ![g] = disk[g]])
      <4> HIDE DEF m
      <4>1. \A h \in File : Lists(disk, [m EXCEPT ![g] = disk[g]], h) \subseteq Lists(disk, m, h)
        BY <3>1, <3>4, OpenShrinks
      <4> QED BY <3>4, <4>1, AcyclicShrinks
    <3> QED BY <1>h, <2>1, <3>2, <3>5, <3>6
  <2> QED BY <2>2, <2>3
<1>7. ASSUME NEW f \in File, NEW g \in File, RemoveInclude(f, g) PROVE NoCircle'
  <2>1. disk' = disk /\ includes' = [includes EXCEPT ![f] = @ \ {g}] /\ adding' = <<>>
    BY <1>7, <1>t DEF RemoveInclude, Idle
  <2>2. \A h \in File : Lists(disk', includes', h) \subseteq Lists(disk, includes, h)
    BY <1>t, <2>1 DEF Lists
  <2>3. Acyclic({}, disk', includes')
    BY <1>a, <2>2, AcyclicShrinks
  <2> QED BY <1>h, <2>1, <2>3
<1>8. ASSUME NEW f \in File, NEW g \in File, NEW h \in File, RenameInclude(f, g, h) PROVE NoCircle'
  BY <1>8, <1>x DEF RenameInclude
<1>9. ASSUME LoadInclude PROVE NoCircle'
  <2>1. stack # <<>>
    BY <1>9, <1>t DEF LoadInclude
  <2>2. PICK g \in Top.todo :
         IF g \in known THEN includes' = includes /\ adding' = adding /\ disk' = disk
         ELSE includes' = [includes EXCEPT ![g] = disk[g]] /\ adding' = adding /\ disk' = disk
    BY <1>9, <1>x, <1>f, <2>1 DEF LoadInclude, CheckParent, Open, fileVars
  <2>3. g \in File
    BY <1>f, <2>1
  <2>4. CASE g \in known
    BY <1>g, <2>2, <2>4
  <2>5. CASE g \notin known
    <3>1. includes' = [includes EXCEPT ![g] = disk[g]] /\ adding' = adding /\ disk' = disk /\ disk[g] # Missing
      BY <1>x, <2>2, <2>3, <2>5
    <3>2. Acyclic({}, disk', includes')
      BY <1>a, <1>t, <2>3, <3>1, OpenShrinks, AcyclicShrinks
    <3>3. ASSUME adding' # <<>> PROVE Acyclic({}, disk', WithAdded(includes', adding'))
      <4>1. PICK f \in known, h \in known : adding = <<f, h>>
        BY <3>1, <3>3 DEF StateOK, ScratchOK
      <4>2. adding[1] = f /\ adding[2] = h /\ f # g /\ f \in File
        BY <1>t, <2>5, <4>1
      <4>3. DEFINE m == [includes EXCEPT ![f] = @ \cup {h}]
      <4>4. WithAdded(includes, adding) = m /\ WithAdded(includes', adding') = [includes' EXCEPT ![f] = @ \cup {h}]
        BY <3>1, <4>2 DEF WithAdded
      <4>5. m \in [File -> SUBSET File] /\ [includes' EXCEPT ![f] = @ \cup {h}] = [m EXCEPT ![g] = disk[g]]
        BY <1>t, <3>1, <4>1, <4>2
      <4>6. Acyclic({}, disk, m)
        BY <1>b, <3>1, <3>3, <4>4
      <4> HIDE DEF m
      <4>7. \A k \in File : Lists(disk, [m EXCEPT ![g] = disk[g]], k) \subseteq Lists(disk, m, k)
        BY <2>3, <3>1, <4>5, OpenShrinks
      <4>8. Acyclic({}, disk, [m EXCEPT ![g] = disk[g]])
        BY <4>6, <4>7, AcyclicShrinks
      <4> QED BY <3>1, <4>4, <4>5, <4>8
    <3> QED BY <1>h, <3>2, <3>3
  <2> QED BY <2>4, <2>5
<1>9f. ASSUME LoadFails PROVE NoCircle'
  BY <1>9f, <1>x, <1>f, <1>t DEF LoadFails, Resolves
<1>10. ASSUME EndLoad PROVE NoCircle'
  <2>1. CASE includes' = includes /\ (adding' = adding \/ adding' = <<>>)
    <3>1. disk' = disk
      BY <1>10 DEF EndLoad
    <3> QED BY <1>g, <1>h, <1>a, <2>1, <3>1
  <2>2. CASE adding # <<>> /\ adding' = <<>> /\ includes' = [includes EXCEPT ![adding[1]] = @ \cup {adding[2]}]
    <3>1. disk' = disk /\ includes' = WithAdded(includes, adding)
      BY <1>10, <2>2 DEF EndLoad, WithAdded
    <3>2. Acyclic({}, disk', includes')
      BY <1>b, <2>2, <3>1
    <3> QED BY <1>h, <2>2, <3>2
  <2> QED BY <1>10, <2>1, <2>2 DEF EndLoad
<1>11. ASSUME CloseDangling PROVE NoCircle'
  <2>1. disk' = disk /\ includes' = includes /\ adding' = adding
    BY <1>11 DEF CloseDangling, Close
  <2> QED BY <1>g, <2>1
<1>12. ASSUME PreloadInclude PROVE NoCircle'
  <2>1. stack # <<>>
    BY <1>12, <1>t DEF PreloadInclude
  <2>2. PICK g \in Top.todo :
         IF g \in known THEN includes' = includes /\ adding' = adding /\ disk' = disk
         ELSE includes' = [includes EXCEPT ![g] = disk[g]] /\ adding' = adding /\ disk' = disk
    BY <1>12, <1>x, <1>f, <2>1 DEF PreloadInclude, Open, fileVars
  <2>3. g \in File
    BY <1>f, <2>1
  <2>4. CASE g \in known
    BY <1>g, <2>2, <2>4
  <2>5. CASE g \notin known
    <3>1. includes' = [includes EXCEPT ![g] = disk[g]] /\ adding' = adding /\ disk' = disk /\ disk[g] # Missing
      BY <1>x, <2>2, <2>3, <2>5
    <3>2. Acyclic({}, disk', includes')
      BY <1>a, <1>t, <2>3, <3>1, OpenShrinks, AcyclicShrinks
    <3>3. ASSUME adding' # <<>> PROVE Acyclic({}, disk', WithAdded(includes', adding'))
      <4>1. PICK f \in known, h \in known : adding = <<f, h>>
        BY <3>1, <3>3 DEF StateOK, ScratchOK
      <4>2. adding[1] = f /\ adding[2] = h /\ f # g /\ f \in File
        BY <1>t, <2>5, <4>1
      <4>3. DEFINE m == [includes EXCEPT ![f] = @ \cup {h}]
      <4>4. WithAdded(includes, adding) = m /\ WithAdded(includes', adding') = [includes' EXCEPT ![f] = @ \cup {h}]
        BY <3>1, <4>2 DEF WithAdded
      <4>5. m \in [File -> SUBSET File] /\ [includes' EXCEPT ![f] = @ \cup {h}] = [m EXCEPT ![g] = disk[g]]
        BY <1>t, <3>1, <4>1, <4>2
      <4>6. Acyclic({}, disk, m)
        BY <1>b, <3>1, <3>3, <4>4
      <4> HIDE DEF m
      <4>7. \A k \in File : Lists(disk, [m EXCEPT ![g] = disk[g]], k) \subseteq Lists(disk, m, k)
        BY <2>3, <3>1, <4>5, OpenShrinks
      <4>8. Acyclic({}, disk, [m EXCEPT ![g] = disk[g]])
        BY <4>6, <4>7, AcyclicShrinks
      <4> QED BY <3>1, <4>4, <4>5, <4>8
    <3> QED BY <1>h, <3>2, <3>3
  <2> QED BY <2>4, <2>5
<1>13. ASSUME PreloadFails PROVE NoCircle'
  BY <1>13, <1>x, <1>f, <1>t DEF PreloadFails, Resolves
<1>14. ASSUME EndPreload PROVE NoCircle'
  <2>1. disk' = disk /\ includes' = includes /\ adding' = adding
    BY <1>14 DEF EndPreload, fileVars
  <2> QED BY <1>g, <2>1
<1>15. ASSUME Prune PROVE NoCircle'
  <2>1. disk' = disk /\ includes' = includes /\ adding' = adding
    BY <1>15 DEF Prune, Close
  <2> QED BY <1>g, <2>1
<1>16. CASE UNCHANGED vars
  BY <1>16, <1>g DEF vars, fileVars, callVars
<1> QED
  BY <1>1, <1>2, <1>3, <1>4, <1>5, <1>6, <1>7, <1>8, <1>9, <1>9f, <1>10, <1>11, <1>12, <1>13, <1>14, <1>15, <1>16 DEF Next

-----------------------------------------------------------------------------
(* The theorems *)

\* Every reachable state satisfies the inductive invariant.
THEOREM IncludesInvariant == Spec => []IncludesInv
<1>1. Init => IncludesInv
  BY InitIncludes
<1>2. IncludesInv /\ [Next]_vars => IncludesInv'
  <2> SUFFICES ASSUME IncludesInv, [Next]_vars PROVE IncludesInv'
    OBVIOUS
  <2>1. /\ StateOK /\ Present /\ GraphIsIncludes /\ DoomedIsDropped
        /\ IncludesCovered /\ ParentsKnown /\ NoCircle
    BY DEF IncludesInv
  <2>2. DataOK' /\ StackOK' /\ ScratchOK'
    BY <2>1, NextData, NextStack, NextScratch DEF StateOK
  <2>3. Present' /\ GraphIsIncludes' /\ DoomedIsDropped'
    BY <2>1, <2>2, NextPresent, NextGraph, NextDoomed DEF StateOK
  <2>4. IncludesCovered' /\ ParentsKnown' /\ NoCircle'
    BY <2>1, <2>2, NextCovered, NextParents, NextNoCircle
  <2> QED BY <2>2, <2>3, <2>4 DEF IncludesInv, StateOK
<1> QED BY <1>1, <1>2, PTL DEF Spec

\* k_load_data, k_preload_includes and the closing loops keep the types, and
\* leave no scratch data behind when the user's call ends.
THEOREM IncludesTypeCorrect == Spec => []TypeOK
<1>1. IncludesInv => TypeOK
  BY StateTypes DEF IncludesInv
<1> QED BY <1>1, IncludesInvariant, PTL

\* OksFile::get_parent: between calls the parent of an open file is open and
\* includes it.
THEOREM ParentsInclude == Spec => []ParentIncludes
<1>1. IncludesInv => ParentIncludes
  <2> SUFFICES ASSUME IncludesInv, careless \subseteq {"cycle"}, pc = "idle", NEW f \in known
               PROVE  included_by[f] = NoFile \/ (included_by[f] \in known /\ f \in includes[included_by[f]])
    BY DEF ParentIncludes, Idle
  <2>1. ParentOf(f)
    BY DEF IncludesInv, ParentsKnown, ParentsFit
  <2>2. adding = <<>>
    BY DEF IncludesInv, StateOK, ScratchOK
  <2>3. \A p : adding # <<p, f>>
    BY <2>2
  <2> QED BY <2>1, <2>3 DEF ParentOf
<1> QED BY <1>1, IncludesInvariant, PTL

\* What load_data has returned stays complete: every file it includes is open.
THEOREM LoadedStaysComplete == Spec => []LoadedWithIncludes
<1>1. IncludesInv => LoadedWithIncludes
  <2> SUFFICES ASSUME IncludesInv, careless \cap {"missingFile", "renameInclude", "closeRelated"} = {},
                      pc = "idle", NEW f \in loaded, NEW g \in includes[f]
               PROVE  g \in known
    BY DEF LoadedWithIncludes, Idle
  <2>1. f \in known
    BY DEF IncludesInv, StateOK, ScratchOK
  <2>2. stack = <<>>
    BY DEF IncludesInv, StateOK, StackOK
  <2>3. ~Visiting(stack, f, g)
    BY <2>2 DEF Visiting
  <2>4. IncludesCovered
    BY DEF IncludesInv
  <2> QED BY <2>1, <2>3, <2>4 DEF IncludesCovered, AllCovered
<1> QED BY <1>1, IncludesInvariant, PTL

\* The closing loops of remove_include_file and reload_data close a file that a
\* file which stays open includes only in reload_data, and only when the file is
\* gone from disk, so that get_file_path does not find it.
THEOREM IncludedFilesStayOpen == Spec => IncludedStaysOpen
<1> DEFINE Stays == pc \in {"close", "prune"} => \A f \in known \ known' : \A p \in known' :
                        f \in includes[p] => pc = "prune" /\ disk[f] = Missing
<1>1. IncludesInv /\ [Next]_vars => [Stays]_vars
  <2> SUFFICES ASSUME IncludesInv, Next, pc \in {"close", "prune"},
                      NEW f \in known, f \notin known', NEW p \in known', f \in includes[p]
               PROVE  pc = "prune" /\ disk[f] = Missing
    OBVIOUS
  <2>1. CloseDangling \/ Prune
    BY DEF Next, LoadData, ReloadData, CloseData, SaveData, Edit, AddInclude, RemoveInclude, RenameInclude,
           Idle, LoadInclude, LoadFails, EndLoad, PreloadInclude, PreloadFails, EndPreload
  <2>2. CASE CloseDangling
    <3>1. pc = "close" /\ known' = known \ Unhosted
      BY <2>2 DEF CloseDangling, Close
    <3>2. Hosts(f) = {} /\ p \in known
      BY <3>1 DEF Unhosted
    <3>3. p \in Hosts(f)
      BY <3>1, <3>2 DEF IncludesInv, GraphIsIncludes, Hosts
    <3> QED BY <3>2, <3>3
  <2>3. CASE Prune
    <3>1. pc = "prune" /\ known' = known \ doomed
      BY <2>3 DEF Prune, Close
    <3> QED BY <3>1 DEF IncludesInv, DoomedIsDropped, Kept
  <2> QED BY <2>1, <2>2, <2>3
<1>2. Spec => [][Stays]_vars
  BY <1>1, IncludesInvariant, PTL DEF Spec
<1> QED BY <1>2 DEF IncludedStaysOpen

\* A finite set in which a function stays has a smallest part in which it
\* stays, and there it reaches every element.
LEMMA SmallestClosed ==
  ASSUME NEW S, IsFiniteSet(S), S # {}, NEW par \in [S -> S]
  PROVE  \E T \in (SUBSET S) \ {{}} : \A t \in T : \E f \in T : par[f] = t
<1> DEFINE Closed == {T \in SUBSET S : T # {} /\ \A f \in T : par[f] \in T}
<1>1. IsWellFoundedOn(StrictSubsetOrdering(S), SUBSET S)
  BY FS_FiniteSubsetsOfFinite, FS_StrictSubsetOrderingWellFounded, Zenon
<1>2. Closed \subseteq SUBSET S /\ S \in Closed
  OBVIOUS
<1>3. Closed # {}
  BY <1>2
<1>4. PICK T \in Closed : \A U \in Closed : <<U, T>> \notin StrictSubsetOrdering(S)
  <2> HIDE DEF Closed
  <2> QED BY <1>1, <1>2, <1>3, WFMin, Zenon
<1>5. T \in SUBSET S /\ T # {} /\ \A f \in T : par[f] \in T
  BY <1>4
<1> DEFINE U == {par[f] : f \in T}
<1>6. U \in Closed /\ U \subseteq T
  BY <1>5
<1>7. U = T
  <2>1. U \in SUBSET S /\ T \in SUBSET S
    BY <1>5, <1>6
  <2>2. U # T => <<U, T>> \in StrictSubsetOrdering(S)
    BY <1>6, <2>1 DEF StrictSubsetOrdering
  <2> QED BY <1>4, <1>6, <2>2
<1> QED BY <1>5, <1>7

\* Between calls every open file is one the user loaded, or one that such a
\* file includes, directly or over others: the rounds of the closing loops of
\* remove_include_file and reload_data go far enough.
THEOREM OrphansAreClosed == Spec => []OrphansClosed
<1>1. IncludesInv => OrphansClosed
  <2> SUFFICES ASSUME IncludesInv, careless = {}, pc = "idle", NEW S \in Leaks
               PROVE  FALSE
    BY DEF OrphansClosed, Idle
  <2>1. /\ S \subseteq known /\ S # {} /\ known \subseteq File /\ IsFiniteSet(File)
        /\ \A f \in S : included_by[f] # NoFile
        /\ \A p \in known \ S : includes[p] \cap S = {}
    BY IncludesAssumption DEF Leaks, IncludesInv, StateOK, DataOK
  <2>2. \A f \in S : included_by[f] \in known /\ f \in includes[included_by[f]]
    <3>1. adding = <<>>
      BY DEF IncludesInv, StateOK, ScratchOK
    <3>2. \A p, f : adding # <<p, f>>
      BY <3>1
    <3>3. \A f \in known : ParentOf(f)
      BY DEF IncludesInv, ParentsKnown, ParentsFit
    <3> QED BY <2>1, <3>2, <3>3 DEF ParentOf
  <2>3. \A f \in S : included_by[f] \in S
    BY <2>1, <2>2
  <2> DEFINE par == [f \in S |-> included_by[f]]
  <2>4. par \in [S -> S] /\ \A f \in S : par[f] = included_by[f]
    BY <2>3
  <2> HIDE DEF par
  <2>5. IsFiniteSet(S)
    <3>1. S \subseteq File
      BY <2>1
    <3> QED BY <2>1, <3>1, FS_Subset
  <2>6. PICK T \in (SUBSET S) \ {{}} : \A t \in T : \E f \in T : par[f] = t
    BY <2>1, <2>4, <2>5, SmallestClosed
  <2>7. T \in (SUBSET File) \ {{}}
    BY <2>1, <2>6
  <2>8. Acyclic({}, disk, includes)
    BY DEF IncludesInv, NoCircle
  <2>9. PICK t \in T : T \cap Lists(disk, includes, t) = {}
    BY <2>7, <2>8, AcyclicLists
  <2>10. PICK f \in T : par[f] = t
    BY <2>6, <2>9
  <2>11. f \in includes[t]
    BY <2>2, <2>4, <2>6, <2>10
  <2> QED BY <2>9, <2>10, <2>11 DEF Lists
<1> QED BY <1>1, IncludesInvariant, PTL
=============================================================================
