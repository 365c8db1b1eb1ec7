----------------------------- MODULE OksIncludes -----------------------------
(***************************************************************************)
(* Which data files a kernel has open and why: load with includes, add,    *)
(* remove and rename an include, reload and close (k_load_file,            *)
(* k_load_includes, k_close_dangling_includes, k_preload_includes and      *)
(* reload_data of src/src/kernel.cpp, add_include_file and its siblings of *)
(* src/src/file.cpp).                                                      *)
(*                                                                         *)
(* An include list is a set: its order is the order of a nondeterministic  *)
(* choice.  A recursion over includes is a stack of files with the         *)
(* includes still to visit, a round of a closing loop is one step.         *)
(***************************************************************************)
EXTENDS Naturals, Sequences, FiniteSets

CONSTANTS
    File,
    NoFile,    \* the null p_included_by
    Gone,      \* a p_included_by whose file was closed: a dangling pointer
    Missing,   \* the content of a file that is not there
    MaxEdit,   \* bound: changes of files by others in a behaviour
    Ring,      \* files that may include each other in a circle
    Careless   \* the values of careless to look at

\* Calls and situations that need care: files include each other in a circle;
\* a file is missing, from the start or removed while it is open; an include is renamed; a file that has lost its last
\* include is reloaded; a file is closed that another one includes, or that
\* is the parent of another one.
Delicate == {"cycle", "missingFile", "renameInclude", "dropLastInclude",
             "closeRelated"}

ASSUME IncludesAssumption ==
    /\ IsFiniteSet(File) /\ {NoFile, Gone} \cap File = {} /\ NoFile # Gone
    /\ \A S \in SUBSET File : S # Missing
    /\ MaxEdit \in Nat /\ Ring \subseteq File /\ Careless \subseteq SUBSET Delicate

VARIABLES
    disk,        \* the includes in each file on disk, or Missing
    edits,
    known,       \* p_data_files
    includes,    \* OksFile::p_list_of_include_files
    included_by, \* OksFile::p_included_by
    loaded,      \* files load_data returned a descriptor of
    pc,
    stack,       \* nested calls of k_load_data or k_preload_includes
    adding,      \* <<f, g>> when add_include_file(g) of f loads g
    graph,       \* igraph of k_close_dangling_includes
    saved,       \* p_preload_file_info and p_preload_added_files
    changed,     \* check_includes of reload_data
    doomed,      \* files_to_be_closed of reload_data
    careless     \* the delicate things that happen in this behaviour

fileVars == <<known, includes, included_by>>
callVars == <<adding, graph, saved, changed, doomed>>
vars == <<disk, edits, fileVars, loaded, pc, stack, callVars, careless>>

Idle == pc = "idle"
NoGraph == [f \in {} |-> {}]
NotSaved == [known |-> {}, includes |-> [f \in File |-> {}]]

\* No file includes itself over others, now or after a reload; the files of R
\* count as one file.
Acyclic(R, d, l) ==
    LET listed(f)  == l[f] \cup (IF d[f] = Missing THEN {} ELSE d[f])
        outside(f) == IF f \in R THEN (UNION {listed(g) : g \in R}) \ R ELSE listed(f)
    IN  \A S \in (SUBSET File) \ {{}} : \E f \in S : S \cap outside(f) = {}

Fits(d, l) ==
    /\ Acyclic(IF "cycle" \in careless THEN Ring ELSE {}, d, l)
    /\ "missingFile" \in careless \/ \A f \in File : d[f] # Missing

Content == (SUBSET File) \cup {Missing}

Init ==
    /\ careless \in Careless
    /\ includes = [f \in File |-> {}]
    /\ disk \in {d \in [File -> Content] : Fits(d, includes)}
    /\ edits = 0
    /\ known = {}
    /\ included_by = [f \in File |-> NoFile]
    /\ loaded = {}
    /\ pc = "idle" /\ stack = <<>>
    /\ adding = <<>> /\ graph = NoGraph /\ saved = NotSaved
    /\ changed = FALSE /\ doomed = {}

Top == stack[Len(stack)]
Outer == SubSeq(stack, 1, Len(stack) - 1)
Rest(f) == Append(Outer, [Top EXCEPT !.todo = @ \ {f}])
Visit(f) == [file |-> f, todo |-> disk[f]]

\* get_file_path finds a file by its name as long as it is there, open or not.
Resolves(f) == disk[f] # Missing

\* What is left when the files in S are closed.
Close(S) ==
    /\ known' = known \ S
    /\ loaded' = loaded \ S

Forgotten(S, by) ==
    [f \in File |-> IF f \in S THEN NoFile ELSE IF by[f] \in S THEN Gone ELSE by[f]]

-----------------------------------------------------------------------------
(* Loading *)

\* OksFile::check_parent.
CheckParent(f, p) ==
    included_by' = IF included_by[f] = NoFile THEN [included_by EXCEPT ![f] = p]
                                              ELSE included_by

\* k_load_file for a file that is not open, included by p: read its header,
\* register it, go on with its includes.
Open(f, p) ==
    /\ known' = known \cup {f}
    /\ includes' = [includes EXCEPT ![f] = disk[f]]
    /\ included_by' = [included_by EXCEPT ![f] = p]

\* load_data: a file that is open is returned as it is.
LoadData(f) ==
    /\ Idle /\ Resolves(f)
    /\ IF f \in known
         THEN loaded' = loaded \cup {f} /\ UNCHANGED <<fileVars, pc, stack>>
         ELSE /\ Open(f, NoFile)
              /\ pc' = "load" /\ stack' = <<Visit(f)>>
              /\ UNCHANGED loaded
    /\ UNCHANGED <<disk, edits, callVars, careless>>

\* k_load_includes loads the next include.
LoadInclude ==
    /\ pc = "load"
    /\ \E g \in Top.todo :
         /\ Resolves(g)
         /\ IF g \in known
              THEN /\ CheckParent(g, Top.file)
                   /\ stack' = Rest(g)
                   /\ UNCHANGED <<known, includes>>
              ELSE /\ Open(g, Top.file)
                   /\ stack' = Append(Rest(g), Visit(g))
    /\ UNCHANGED <<disk, edits, loaded, pc, adding, graph, saved, changed, doomed, careless>>

\* An include is not found: the exception leaves every call, and what was
\* registered stays.
LoadFails ==
    /\ pc = "load"
    /\ \E g \in Top.todo : ~Resolves(g)
    /\ pc' = "idle" /\ stack' = <<>> /\ adding' = <<>>
    /\ UNCHANGED <<disk, edits, fileVars, loaded, graph, saved, changed, doomed, careless>>

\* A file is loaded with its includes.  When it was the last one, the call of
\* the user ends; add_include_file puts the include into its list.
EndLoad ==
    /\ pc = "load" /\ Top.todo = {}
    /\ stack' = Outer
    /\ IF Outer # <<>>
         THEN UNCHANGED <<includes, loaded, pc, adding>>
         ELSE /\ pc' = "idle" /\ adding' = <<>>
              /\ IF adding = <<>>
                   THEN loaded' = loaded \cup {Top.file} /\ UNCHANGED includes
                   ELSE /\ includes' = [includes EXCEPT ![adding[1]] = @ \cup {adding[2]}]
                        /\ UNCHANGED loaded
    /\ UNCHANGED <<disk, edits, known, included_by, graph, saved, changed, doomed, careless>>

-----------------------------------------------------------------------------
(* add_include_file, rename_include_file, remove_include_file *)

AddInclude(f, g) ==
    /\ Idle /\ f \in known /\ g \notin includes[f] /\ Resolves(g)
    /\ Fits(disk, [includes EXCEPT ![f] = @ \cup {g}])
    /\ IF g \in known
         THEN /\ CheckParent(g, f)
              /\ includes' = [includes EXCEPT ![f] = @ \cup {g}]
              /\ UNCHANGED <<known, pc, stack, adding>>
         ELSE /\ Open(g, f)
              /\ pc' = "load" /\ stack' = <<Visit(g)>> /\ adding' = <<f, g>>
    /\ UNCHANGED <<disk, edits, loaded, graph, saved, changed, doomed, careless>>

\* Only the list changes.
RenameInclude(f, old, new) ==
    /\ "renameInclude" \in careless
    /\ Idle /\ f \in known /\ old \in includes[f] /\ new \notin includes[f]
    /\ includes' = [includes EXCEPT ![f] = (@ \ {old}) \cup {new}]
    /\ Fits(disk, includes')
    /\ UNCHANGED <<disk, edits, known, included_by, loaded, pc, stack, callVars, careless>>

\* Take the include from the list, build the inclusion graph of the open
\* files, then close what is not included any more.  A name that is not found
\* ends the call before anything is closed; the list is changed all the same.
RemoveInclude(f, g) ==
    /\ Idle /\ f \in known /\ g \in includes[f]
    /\ includes' = [includes EXCEPT ![f] = @ \ {g}]
    /\ IF \A p \in known : \A h \in includes'[p] : Resolves(h)
         THEN /\ graph' = [p \in {q \in known : includes'[q] \cap known # {}} |->
                             includes'[p] \cap known]
              /\ pc' = "close"
         ELSE UNCHANGED <<graph, pc>>
    /\ UNCHANGED <<disk, edits, known, included_by, loaded, stack, adding, saved, changed, doomed, careless>>

\* Mutant: the file that includes f first is the only one asked.
BuggyUnhosted ==
    {f \in known : included_by[f] # NoFile
                     /\ (included_by[f] \notin DOMAIN graph \/ f \notin graph[included_by[f]])}

Hosts(f) == {p \in DOMAIN graph : f \in graph[p]}
Unhosted == {f \in known : included_by[f] # NoFile /\ Hosts(f) = {}}

\* Mutant: the parent stays.
BuggyAdopted(f, by) == by = included_by[f]

\* test_parent: a parent that includes the file stays; any other that does
\* takes the place of one that does not.
Adopted(f, by) ==
    IF included_by[f] = NoFile \/ included_by[f] \in Hosts(f)
      THEN by = included_by[f] ELSE by \in Hosts(f)

\* Mutant: one round only.
BuggyCloseDangling ==
    /\ pc = "close"
    /\ \E by \in [known \ Unhosted -> File \cup {NoFile}] :
         /\ \A f \in known \ Unhosted : Adopted(f, by[f])
         /\ included_by' = Forgotten(Unhosted,
                [f \in File |-> IF f \in DOMAIN by THEN by[f] ELSE included_by[f]])
    /\ Close(Unhosted)
    /\ pc' = "idle" /\ graph' = NoGraph
    /\ UNCHANGED <<disk, edits, includes, stack, adding, saved, changed, doomed, careless>>

\* A round of k_close_dangling_includes: find the files nobody includes, close
\* them and take them from the graph; another round if they had includes.
CloseDangling ==
    /\ pc = "close"
    /\ \E by \in [known \ Unhosted -> File \cup {NoFile}] :
         /\ \A f \in known \ Unhosted : Adopted(f, by[f])
         /\ included_by' = Forgotten(Unhosted,
                [f \in File |-> IF f \in DOMAIN by THEN by[f] ELSE included_by[f]])
    /\ Close(Unhosted)
    /\ IF \A f \in Unhosted : includes[f] = {}
         THEN pc' = "idle" /\ graph' = NoGraph
         ELSE pc' = pc /\ graph' = [p \in DOMAIN graph \ Unhosted |-> graph[p]]
    /\ UNCHANGED <<disk, edits, includes, stack, adding, saved, changed, doomed, careless>>

-----------------------------------------------------------------------------
(* reload_data *)

\* Mutant: the includes that are not new are preloaded.
BuggyReloadData(f) ==
    /\ Idle /\ f \in known /\ disk[f] # Missing
    /\ disk[f] = {} /\ includes[f] # {} => "dropLastInclude" \in careless
    /\ saved' = [known |-> known, includes |-> includes]
    /\ includes' = [includes EXCEPT ![f] = disk[f]]
    /\ changed' = (disk[f] # {} /\ disk[f] # includes[f])
    /\ pc' = "preload"
    /\ stack' = <<[file |-> f, todo |-> disk[f] \cap includes[f]]>>
    /\ UNCHANGED <<disk, edits, known, included_by, loaded, adding, graph, doomed, careless>>

\* k_preload_includes of the file itself: its header replaces the one in
\* memory, which is remembered.  A new list that is empty is no change.
ReloadData(f) ==
    /\ Idle /\ f \in known /\ disk[f] # Missing
    /\ disk[f] = {} /\ includes[f] # {} => "dropLastInclude" \in careless
    /\ saved' = [known |-> known, includes |-> includes]
    /\ includes' = [includes EXCEPT ![f] = disk[f]]
    /\ changed' = (disk[f] # {} /\ disk[f] # includes[f])
    /\ pc' = "preload"
    /\ stack' = <<[file |-> f, todo |-> disk[f] \ includes[f]]>>
    /\ UNCHANGED <<disk, edits, known, included_by, loaded, adding, graph, doomed, careless>>

\* The next include that is not in the old list: an open file is skipped, a
\* new one is registered and its includes are preloaded.
PreloadInclude ==
    /\ pc = "preload"
    /\ \E g \in Top.todo :
         /\ Resolves(g)
         /\ IF g \in known
              THEN stack' = Rest(g) /\ UNCHANGED <<fileVars, changed>>
              ELSE /\ Open(g, Top.file)
                   /\ stack' = Append(Rest(g), Visit(g))
                   /\ changed' = TRUE
    /\ UNCHANGED <<disk, edits, loaded, pc, adding, graph, saved, doomed, careless>>

\* A new include is not found: restore_preload_file_info.
PreloadFails ==
    /\ pc = "preload"
    /\ \E g \in Top.todo : ~Resolves(g)
    /\ known' = saved.known
    /\ includes' = saved.includes
    /\ included_by' = Forgotten(known \ saved.known, included_by)
    /\ pc' = "idle" /\ stack' = <<>>
    /\ saved' = NotSaved /\ changed' = FALSE
    /\ UNCHANGED <<disk, edits, loaded, adding, graph, doomed, careless>>

\* The includes of a file are preloaded; at last clear_preload_file_info, and
\* the files to be closed are looked for if some list changed.
EndPreload ==
    /\ pc = "preload" /\ Top.todo = {}
    /\ stack' = Outer
    /\ IF Outer # <<>>
         THEN UNCHANGED <<pc, saved, changed>>
         ELSE /\ saved' = NotSaved /\ changed' = FALSE
              /\ pc' = IF changed THEN "prune" ELSE "idle"
    /\ UNCHANGED <<disk, edits, fileVars, loaded, adding, graph, doomed, careless>>

\* good_files: who includes f, among the files that stay.  An exception for a
\* name that is not found is swallowed, the file does not count as included.
Kept == known \ doomed
Includers(f) == {p \in Kept : f \in includes[p] /\ Resolves(f)}

Dropped == {f \in Kept : included_by[f] # NoFile /\ Includers(f) = {}}

\* A round of the loop that looks for files to be closed; when it finds no
\* more, the files are closed.
Prune ==
    /\ pc = "prune"
    /\ \E by \in [Kept -> File \cup {NoFile}] :
         /\ \A f \in Kept :
              IF included_by[f] = NoFile \/ f \in Dropped
                THEN by[f] = NoFile ELSE by[f] \in Includers(f)
         /\ included_by' = Forgotten(IF Dropped = {} THEN doomed ELSE {},
                [f \in File |-> IF f \in Kept THEN by[f] ELSE included_by[f]])
    /\ IF Dropped # {}
         THEN doomed' = doomed \cup Dropped /\ UNCHANGED <<known, loaded, pc>>
         ELSE Close(doomed) /\ doomed' = {} /\ pc' = "idle"
    /\ UNCHANGED <<disk, edits, includes, stack, adding, graph, saved, changed, careless>>

-----------------------------------------------------------------------------
\* close_data by the user.
CloseData(f) ==
    /\ Idle /\ f \in known
    /\ \/ "closeRelated" \in careless
       \/ \A p \in known : f \notin includes[p] /\ included_by[p] # f
    /\ Close({f})
    /\ included_by' = Forgotten({f}, included_by)
    /\ UNCHANGED <<disk, edits, includes, pc, stack, callVars, careless>>

\* save_data succeeds; saving a list of objects looks at no include.
SaveData(f) ==
    /\ Idle /\ f \in known /\ disk[f] # includes[f]
    /\ disk' = [disk EXCEPT ![f] = includes[f]]
    /\ UNCHANGED <<edits, fileVars, loaded, pc, stack, callVars, careless>>

\* Somebody else changes the includes of a file, or removes it.
Edit(f) ==
    /\ Idle /\ edits < MaxEdit
    /\ edits' = edits + 1
    /\ \E c \in Content \ {disk[f]} : disk' = [disk EXCEPT ![f] = c]
    /\ Fits(disk', includes)
    /\ UNCHANGED <<fileVars, loaded, pc, stack, callVars, careless>>

Next ==
    \/ \E f \in File :
         \/ LoadData(f) \/ ReloadData(f) \/ CloseData(f) \/ SaveData(f) \/ Edit(f)
         \/ \E g \in File : AddInclude(f, g) \/ RemoveInclude(f, g)
         \/ \E g, h \in File : RenameInclude(f, g, h)
    \/ LoadInclude \/ LoadFails \/ EndLoad \/ CloseDangling
    \/ PreloadInclude \/ PreloadFails \/ EndPreload \/ Prune

Spec == Init /\ [][Next]_vars

-----------------------------------------------------------------------------
(* Properties *)

\* Every variable keeps its type, and the scratch data of a call is gone when
\* the call has ended.
TypeOK ==
    /\ disk \in [File -> Content] /\ edits \in 0 .. MaxEdit
    /\ known \subseteq File /\ includes \in [File -> SUBSET File]
    /\ included_by \in [File -> File \cup {NoFile, Gone}]
    /\ loaded \subseteq known
    /\ pc \in {"idle", "load", "close", "preload", "prune"}
    /\ \A i \in DOMAIN stack : stack[i].file \in known /\ stack[i].todo \subseteq File
    /\ Idle => stack = <<>> /\ callVars = <<<<>>, NoGraph, NotSaved, FALSE, {}>>

\* Sets of open files that no file outside keeps open: nobody loaded a member
\* for itself, and only members include members.
Leaks == {S \in (SUBSET known) \ {{}} :
            /\ \A f \in S : included_by[f] # NoFile
            /\ \A p \in known \ S : includes[p] \cap S = {}}

\* Between calls no file stays open that no file included by the user's own
\* files includes, unless files include each other in a circle, a load failed,
\* or an include was renamed, closed or dropped by somebody else: the rounds
\* of both closing loops go far enough.
OrphansClosed == careless = {} /\ Idle => Leaks = {}

\* A closing loop closes a file that a file which stays open includes in one
\* case only: in reload_data, when the file is gone from disk and get_file_path
\* does not find it any more (kernel.cpp:3092-3094 would have it closed when no
\* file references it).  So it is, whatever was closed or given a new parent
\* before.
IncludedStaysOpen ==
    [][(pc \in {"close", "prune"}) =>
          \A f \in known \ known' : \A p \in known' :
              f \in includes[p] => pc = "prune" /\ disk[f] = Missing]_vars

\* OksFile::get_parent: between calls the parent of an open file is null or an
\* open file that includes it, as long as the only strange thing is a circle.
ParentIncludes ==
    careless \subseteq {"cycle"} /\ Idle =>
        \A f \in known :
           \/ included_by[f] = NoFile
           \/ included_by[f] \in known /\ f \in includes[included_by[f]]

\* When load_data has returned a file, every file it includes is open, and stays
\* so whatever is added, removed or reloaded elsewhere, when no file is missing
\* and nobody closes or renames an include.
LoadedWithIncludes ==
    careless \cap {"missingFile", "renameInclude", "closeRelated"} = {} =>
        (Idle => \A f \in loaded : includes[f] \subseteq known)
=============================================================================
