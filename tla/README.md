# Verification project for OKS

OKS is an in-memory object manager with persistence in XML files: a *kernel*
loads schema files (classes) and data files (objects), gives access to them,
and saves what was changed. This directory holds TLA+ models of the parts of it
whose correctness depends on order: threads, processes, crashes, failed calls
and long sequences of legal calls. Paths are relative to the repository, which
is called `src/` in `PROJECT.json`: `src/src/kernel.cpp` is its file `src/kernel.cpp`.

## 1. The system

| component | state | operations | code |
|---|---|---|---|
| thread pool `OksPipeline` | workers' flags and slots, a queue, a barrier | constructor, `addJob`, `waitForCompletion`, destructor, `Worker::run` | `src/pipeline.cpp` |
| file update lock | lock file, fcntl lock, `p_lock` | `OksFile::lock`, `unlock`, `rename`, `get_lock_string` | `src/file.cpp` |
| data-file session | `p_data_files`, `p_active_data`, `p_is_updated`, `p_last_modified`, files on disk | load, new, set active, save, save as, backup, reload, close, status | `src/kernel.cpp`, `src/file.cpp` |
| include files | include lists, `p_included_by` | load with includes, add, rename, remove include, preload, closing loops | `src/kernel.cpp`, `src/file.cpp` |
| objects | values, OksRCRs, `p_objects` | constructor, setters, bind, unbind, destroy, close | `src/object.cpp` |
| schema | classes, super- and sub-class lists, schema files | load, new, close, superclass changes, registration, destruction | `src/class.cpp`, `src/kernel.cpp` |
| definitions | attributes and relationships of a class, `p_data_info`, the values of its objects | add, remove, swap, rename, retype | `src/class.cpp`, `src/attribute.cpp`, `src/relationship.cpp` |
| parallel creation and reload | one reader per file, `p_objects`, OksRCRs, the pool of objects to be re-read, notification lists | `OksLoadObjectsJob`, `OksObject::read`, `reload_data`, `bind_objects` | `src/kernel.cpp`, `src/object.cpp` |
| data values | value and initial data of an attribute, its type, range, format, enumerators | set, convert, check, print, read | `src/data.cpp`, `src/attribute.cpp` |
| index | a multiset of objects per class and attribute | build, insert, remove, search between bounds | `src/index.cpp` |
| query | none of its own | parse, check, print, evaluate, find a path | `src/query.cpp` |
| repository | git working copy | checkout, update, commit, tag, diff | `src/kernel.cpp`, `scripts/` |

**Interaction.** `load_data` reads the header of a file, registers it, loads its
includes recursively and gives the pool one job per file; the pool is destroyed,
and so waited for, at the end of the outermost `k_load_data`, and the objects
are bound then. A setter of an object locks the object's file (`check_file_lock`)
and marks it as updated (`notify`). `save_data` locks, writes a temporary file,
renames it, unlocks. `reload_data` unlocks, preloads the new includes, closes
what is no longer included, and reads the objects again. One
`p_kernel_mutex` keeps the operations of a kernel apart; other processes
are kept apart by the file lock only.

**What is hard.** Two mutexes, two conditions and a barrier in the pool; lock
files whose test, removal and creation are separate system calls; the window
between unlock and `stat` in a save; calls that fail after half their effect;
destructors that recurse over the object graph; two different loops that decide
which files are still included; jobs that create objects which refer to each other while
others read theirs; values that outlive the type they were made for. `PROJECT.json` lists each hazard at its line.

**What makes each part correct.**
- Pool: every job is run exactly once, no race on a slot, the wait returns, and only when all is done.
- Lock: exclusive while its holder lives, never lost, never stale after a crash.
- Session: changed files are locked, contents survive crashes, changes by others are reported.
- Objects: OksRCRs equal the composite pointers, no pointer to a deleted object, exclusive parts have one parent, changes mark files.
- Includes: files are open exactly as long as somebody includes them; parents are valid.
- Schema: the hierarchy has no cycle, the lists derived from it are complete, no pointer to a deleted class.
- Definitions: the value at an attribute's offset is that attribute's, of its type, and is not lost.
- Loads and reloads: memory is what the files say, references are bound, parents and ids are right, and every change is notified, in whatever order jobs and files are read.
- Values: they fit their attribute after each change of it; what is saved is what is loaded.
- Index and query: an index has each object once and in order; a search, a query with or without an index, and a path have the answer their text asks for.

## 2. Modules

| module | models | lines proved or checked by |
|---|---|---|
| `JobPool` | what the pool promises | refined by `OksPipeline` |
| `OksPipeline` | the pool, one step per critical section | `MCOksPipeline`, `OksPipelineProofs` |
| `OksFileLock` | the lock, one step per system call | `MCOksFileLock`, `OksFileProofs` |
| `OksFileSession` | the files of one kernel among other processes | `MCOksFileSession`, `OksFileProofs` |
| `OksComposite` | objects, relationships, OksRCRs | `MCOksComposite`, `OksCompositeProofs` |
| `OksIncludes` | which files are open and why | `MCOksIncludes`, `OksIncludesProofs` |
| `OksSchema` | classes, the lists derived from their superclasses, schema files | `MCOksSchema`, `OksSchemaProofs` |
| `OksLayout` | offsets of values, and their move when a class is changed | `MCOksLayout`, `OksValuesProofs` |
| `OksObjects` | objects read from files by parallel jobs, and reloaded | `MCOksObjects`, `OksObjectsProofs` |
| `OksValues` | the values of an attribute that is changed, and their way to a file and back | `MCOksValues`, `OksValuesProofs` |
| `OksIndex` | indices under changes of objects and classes | `MCOksQuery`, `OksIndexProofs` |
| `OksQuery` | queries and paths as functions, over `OksIndex` | `MCOksQuery` |

The `MC` modules only define symmetry sets and setups. Definitions whose comment starts
with "Mutant" are mutated forms of the definition that follows: each is a
plausible mistake that one of the properties catches, and no specification uses them.

### OksPipeline
`wpc[w]` is the place of a worker in `Worker::run`, `mpc` that of the main thread;
the flags, `m_job` and `m_jobs` carry the source's names. `Enter` .. `Resume` are
the parts of `run()` between two lock operations, `AddJob; SetJob*; PushJob?` is
`addJob`, `WaitForCompletion; Drain; StopWorker*; BarrierTrip` is the wait, and
`closing` says that the destructor called it, which goes on with `ShutdownWorker*`
and `Join`. The mutex of a worker need not be a variable: a step is a whole
critical section, except while the worker waits for the barrier with the mutex
locked, which `WorkerMutexHeld` gives. A spurious wakeup is possible for each
condition variable. `notify_one` on the pipeline's condition has one waiter at
most, the main thread.

### OksFileLock
A lock file name is bound to an inode (`dirent`); an fcntl lock belongs to an
inode, is dropped when its process dies, and also when the process closes
*any* descriptor of the inode. Without `"overlap"` the calls of `lock()` and
`unlock()` come one after the other (a crash may still come at every step); with
it another process may run between any two system calls. `"renameLocked"` and
`"queryOwn"` let the client call `rename` and `get_lock_string` on a file it
has locked. The refusal of read-only files (no state changes) is left out. The names of its
variables and of its specification (`lockPc`, `LockNext`, ...) differ from those of `OksFileSession`, because one module has
the proofs about both.

### OksFileSession
The lock is assumed exclusive here (`other`, and `lock`, which also says under which name
a file was locked); content is a version number, `Absent` or `Empty`. The steps of `load`, `save` and `reload` are
separate because other processes run in between; one thread of the client calls the
kernel, so one program counter `pc` is enough (`save_data` takes `p_kernel_mutex` shared: two threads could save
at once). `SaveAs` and `Backup` begin with what `save_as_data` and `backup_data` do and go on with
the steps of `k_save_data`. A lock is not renamed with its file: `lock[g] = f` after `SaveAs(f, g)` of a
locked `f`, and the unlock removes the lock file of `g`, be it another process's (`bare`). `NewData` includes the truncation by
`test_file_existence`. What the environment does is again said by `careless`:
`"others"` (other processes), `"between"` (also between the steps of one
operation), `"failures"` (exceptions), `"sameSecond"` (two contents with one
`st_mtime`), `"newOverOld"` (`new_data` for an existing file), `"saveAsLocked"` (`save_as_data` for
a locked or an active file).

### OksComposite
A value is a sequence of references, by pointer (`bound`) or by name. `rcr` holds
`<<o, s, r>>` when `o` has an OksRCR with parent `s` and relationship `r`.
Setters are one step (nothing of another call runs in between); the recursive
destructor is a stack, because the code that must not meet dangling pointers is
exactly what runs between the nested calls. `setup` fixes the relationships
of the class, the files and the delicate calls of a behaviour.

### OksIncludes
`includes`, `included_by`, `known` are the source's include lists, parents and
`p_data_files`; a `p_included_by` whose file was closed is `Gone`. Recursion over
includes is a stack with the includes still to visit, each round of a closing
loop is a step. `Resolves` is `get_file_path`: a file is found by its name as long as it is on disk, whether it is
open or not. Each caller does something else with a file that is not found: a load fails and leaves what it
registered (`LoadFails`), a preload takes it back (`PreloadFails`), `remove_include_file` ends after
it changed the list (`RemoveInclude`), and a reload goes on as if nobody included the file (`Includers`).

### OksSchema
A class is a name and how many times one of that name was made, so that a pointer to a
destroyed class differs from one to its successor. `supers` are the
`p_super_classes` (names), the other lists pointers, kept in their order because the
registration walks them in it. `RegistrateClassChange` and `RegistrateAllClasses` are
whole walks, in the order of the old lists, as functions from lists to lists. `AddSuperClasses` is one call of the recursion in
`add_super_classes`, for given results of the calls inside it; `Above` takes as many levels of calls as there are names, which is
enough when there is no circle (section 4), and with a circle the code does not return. A setup gives the contents of the files,
the classes that may be made and their superclasses, and the delicate calls.

### OksLayout
One class and one derived from it are enough for overriding. `info` is `p_data_info` in the order of the
offsets; a value carries what it is the value of, which no code looks at: with it a
property can say that the value found at an offset is the right one. An attribute
that was deleted and is compared all the same gives either answer (`luck`). `init` of a definition
is the type of its `p_init_data`, which `create_attributes` alone refreshes. The part of a list with certain names
is given by its places (`Only`, `Named`), which the proofs can count. The names of its variables and of its
specification differ from those of `OksValues`, because one module has the proofs about both.

### OksObjects
A file is a list of objects with their references; what is on `disk` changes between calls.
`reader[f]` is the place of a job in `OksObject::read`: an object is entered (header, tests of the id,
`p_objects`) in one step and its references are read one by one, so that other jobs create the
objects referred to before, between or after them. At the end of the load `Bind` resolves the
names left. A reload uses the same reader, one file after the other, after `ReloadData` took the objects of the
files into `pool` and the OksRCRs of exclusive parts back; then the objects that were not met are deleted, with
their dependent parts, step by step, and the rest is bound. `seen` is what each file
contained when it was last read with success, and `before` what the callbacks started from: the
properties compare memory and notifications with them. A setup says which contents a file may have.

### OksValues
One attribute, its objects and their file. `attr` has the definition with what is computed from
it (`limits`, `enums`), `initData` is `p_init_data`. A text is empty, a number or a word; integers are of `Byte` bits
and wrap as the casts do. `Cvt` is the conversion of one value by way of its text, `Put` and `Read`
the way to a file and back; `Restart` lets a new process read schema and data. An enumeration's
value is a pointer into `p_enumerators`: `MoveEnums` gives what it reads when these were moved.

### OksIndex and OksQuery
The order of an index is a sequence, kept by `lower_bound` and `upper_bound` as a multiset keeps it, also when the
comparison is not an order (lists of values). A query text is a tree of words, numbers and brackets; parsing,
checking, printing and evaluating are recursive operators, so `OksQuery` is for model checking only, `OksIndex`
not. The states are those of objects, values, indices and references; the properties compare the
operators with reference definitions in each of them: a filter over all objects, a grammar of query texts
(`IsExpression`) with what the parser may leave out of one (`Says`), and all
chains of different objects.

### The variable `careless`
OKS has calls and situations that are known to break what the code otherwise
maintains (a file renamed while locked, a dependent child with a weak reference,
...). Each module that meets some names them in `Delicate`; `careless`, chosen by
`Init` from the constant `Careless` (in `OksFileLock` the names are `LockDelicate`, `lockCareless` and `LockCareless`; in `OksComposite`,
`OksSchema`, `OksLayout` and `OksValues` it is part of `setup`) and never changed, says which of them happen in
a behaviour. A property that needs the absence of some says so in its first
conjunct. So one run checks at once what holds always and what
holds under which condition. A condition is sufficient, not always necessary; the
table in section 3 names the situations that alone make TLC find a conclusion violated.

## 3. Runs

| run | what it checks | bounds |
|---|---|---|
| `Pipeline` | jobs conserved, no race, wait means done, given jobs are run, a wait that saw the empty queue returns, `JobPool` implemented | 3 workers, 3 jobs |
| `Lock` | exclusive, in place, never refused for good | 3 processes, 2 names, 2 crashes, 3 lock files |
| `Session` | locks of changed files, contents, foreign files, status | 2 files, 4 versions, 1 crash, seven environments |
| `Composite` | bookkeeping, pointers, exclusive parents, marks | 3 objects, 2 files, three classes (`MCOksComposite`) |
| `Include` | orphans closed, included files kept, parents valid, loaded files complete | 3 files, 1 edit from outside, six environments |
| `Schema` | no cycles, lists complete in both directions, no deleted class in them | 4 classes, 2 files, 2 lives of a name, seven setups |
| `Layout` | own values, no value lost | 2 classes, 2 objects, 2 attributes, 1 relationship, 3 definitions at once, five setups |
| `Objects` | memory is the files, references bound, parents, exclusive parts, ids, notifications | 2 or 3 files, 2 threads for loads of three files, up to 2 edits and 2 reloads, 5 objects, seven setups |
| `Query` | indices exact, searches exact, accepted queries say their texts, paths found | 3 objects, 2 classes, 2 attributes, 2 indices; queries nested three deep, an `and` or `or` with up to three parts, good and bad; paths over 4 references |
| `Values` | values fit, saved is loaded, memory and files migrate alike | 1 object, 2-bit bytes, numbers of three widths, enumerations, booleans, strings, lists |

Each bound is the smallest with the interesting case: three jobs and three workers let one
worker sleep, one run and one take from the queue (with two workers and one job the hang is
found already); three processes for two that compete for the lock of a third that crashed;
two names for a rename; three objects for a shared child or a chain of
dependants; three files for a chain of includes that is closed in two rounds;
four classes for a diamond; three definitions for one before and one after the one that is changed;
up to three parts of an `and` for one that is left out beside two good ones; three files in `Objects` for a parent, its parts and a reference to both, read by two threads in any order, and two
edits for a part that moves and moves back; three objects for a search that has some inside, some outside and equal
ones at a bound, and for a cycle beside a path; 2-bit bytes for numbers that fit one type and not the other.
`MaxInode`, `MaxVersion`, `MaxCrash`, `MaxProcCrash`, `MaxEdit`, `MaxUse`, `MaxSupers` and the `max` of a setup bound counters that
the code does not bound; they stand in guards. Deadlock is not checked:
in each module the client may stop calling, and in the bounded ones the bound stops it.
Symmetry is used for processes, files and objects, never with liveness.

**Fairness.** Only `OksPipeline` has liveness properties. `FairSpec` assumes weak
fairness of each worker's steps and of the main thread's steps *inside* a call:
threads are scheduled, and a mutex is free again after a bounded number of steps.
Nothing is assumed of the client (`AddJob`, `WaitForCompletion`) nor of spurious wakeups.

The `TypeOK` of a module is the invariant proofs start from; it is proved for the pool, the lock, the session,
the includes, the objects and the index; for the schema the proof has its parts (section 4). It is not among the runs' invariants, which ask what could
be wrong with the code.

Runs that must fail, each with the sentence of the repository it contradicts
(quoted in `PROJECT.json`, "findings"):

| run | what the code does |
|---|---|
| `PipelineHang` | `addJob` queues a job without waking anybody: when all workers were about to sleep, the wait never returns |
| `ObjectsRace` | two jobs create objects of one id in a class and its subclass at once: `check_ids` of both sees nothing |

Further disagreements between code and documentation that the models show, when `careless`
(or `setup`) is given the situation and the conclusion of the property is checked without its condition.
None of them is one of the runs above. Most are found within the runs' bounds; `"closeSome"` needs three classes for a
cycle, and the rows on `OksObjects` need contents of the files that meet the situation:

| situation | property | what the code does |
|---|---|---|
| `"queryOwn"` | `Exclusive` | `get_lock_string` on one's own locked file drops the fcntl lock (`include/oks/file.hpp:391`, `:670`) |
| `"newOverOld"` | `ForeignFileUntouched` | `new_data` truncates a file another process has locked, to see whether it can be written |
| `"saveAsLocked"` | `ForeignFileUntouched` | `save_as_data` of a locked file writes one that another process has locked, and removes its lock file; a failing one leaves the active file with the lock of the other name |
| `"overlap"` | `Exclusive` | two overlapping `lock()` that find the same obsolete lock file both succeed (`include/oks/file.hpp:391`) |
| `"saveAsLocked"` and `"between"` | `ContentNeverLost` | `save_as_data` of a locked file does not lock the new name: it sees that there is no file, another process writes one, and the empty file made for the save replaces it |
| `"between"` | `ChangeIsReported` | a save by another process between unlock and `stat` of a save is never reported (`include/oks/kernel.hpp:1479`) |
| `"missingFile"` | `LoadedWithIncludes` | a failed load leaves the file registered as if loaded |
| `"missingFile"` | `IncludedStaysOpen` without its exception | a reload closes a file that is gone from disk while an open file still includes it: `get_file_path` throws and the exception is swallowed (`src/kernel.cpp:3093`, `:3110`) |
| `"missingFile"` | `OrphansClosed` | `remove_include_file` takes the include from the list, then any include that is not found ends the call before orphans are closed |
| weak reference to a dependent child | `NoDanglingPointer` | the child's deletion leaves the weak pointer (`include/oks/object.hpp:1221`) |
| `"renameLocked"` | `Exclusive` | `rename` changes the lock file's name, the old lock file stays (`include/oks/file.hpp:406`) |
| `"lockFailsInAdd"` | `RcrMatchesValues` | `AddRelationshipValue` adds the OksRCR before it locks the file |
| `"addAgain"` | `RcrMatchesValues` | one removal takes the OksRCR of an object that is in the list twice |
| `"removeByName"` | `RcrMatchesValues` | a removal by class and id leaves the OksRCR |
| `"namesClashInBind"` | `RcrMatchesValues` | `bind` sets the pointer, then the child refuses |
| two composite relationships | `OneParentPerRelationship` over both | an exclusive part is shared through the other one (`include/oks/relationship.hpp:48`) |
| a dependent child of another file | `ChangeMarksFile` | its file is not marked when it is deleted |
| `"dropLastInclude"` | `OrphansClosed` | a new include list that is empty is taken for no change |
| `"closeRelated"` | `ParentIncludes` | a closed file stays the parent of others |
| `"closeSome"` | `SubClassesComplete`, `Acyclic` | the classes that stay are marked as to be deleted as well, the sub-class lists are no longer maintained, and a cycle of superclasses is accepted |
| `"destroySuper"` | `SuperClassesComplete` | the sub-classes of a destroyed class are left with a part of their lists |
| `"removeOverride"`, `"retypeOverridden"`, `"rename"` | `OwnValues` | values of another type, or at the place of another attribute |
| `"insert"` | `OwnValues` | an attribute added to a class that has a relationship: the values that follow move to a place before their offset |
| `"retyped"` | `OwnValues` | an object made after `set_type` gets initial data of the old type (`include/oks/attribute.hpp:540`) |
| `"noConversion"` | `OwnValues`, `ValuesKept` | the change stops half way through the objects |
| none | `included_by` and `pc = "close"` | `remove_include_file` closes at once (`include/oks/file.hpp:432` says otherwise) |
| two jobs add one child at once | `ParentsMatchValues`, `OneParentOfPart` | `add_RCR` is not locked: an entry is lost, or two exclusive parents accepted |
| a shared composite reference dropped by a reload | `ParentsMatchValues` | the OksRCR stays (only exclusive ones are taken back, `src/kernel.cpp:3163`) |
| a parent removed by a reload | `MemoryIsFiles` | its dependent parts are deleted though files still contain them |
| a reload refused for equal ids, repeated | `IdsUniqueInHierarchy` | the objects are there already, and the second reload succeeds |
| a text that cannot be read to its end, with callbacks | `ChangesNotified` | what was taken from it is never notified; the test of ids stays off |
| a part that refuses its parent after another relationship of the same text was taken | `ChangesNotified` | the reload stops (`src/data.cpp:1378`), the relationship taken first is never notified |
| `allow` with two jobs | that the load succeeds | two jobs choose the same new id, and the load fails |
| `!=` and regular expressions with an index | `SearchIsExact` | `find_interval` has no case for them (`src/index.cpp:124`) |
| `"reload"`, `"swap"`, `"secondIndex"` | `IndexIsExact` | a reload and a swap of attributes do not maintain the index; a second index of an attribute replaces the first, and its deletion takes off whichever is there |
| `"stale"` | `SavedIsLoaded`, `ValuesFitAttribute` | initial data are as old as the last `create_attributes`: a value equal to them is not written and loaded as the new initial value |
| `"narrow"` | `SavedIsLoaded`, `MigrationAgrees`, `ValuesFitAttribute` | neither `set_range` nor a conversion checks the range: the saved value is refused when it is loaded, and an enumeration may have an initial value that is none of its values |
| `"enumerators"` | `ValuesFitAttribute` | `set_range` clears the strings that values point to |
| `"noConversion"` (values) | `ValuesFitAttribute` | the type stays changed when the conversion fails half way |
| `"hexadecimal"` | `SavedIsLoaded` | a negative `s64` is written as a number that is too large to be read |

## 4. Proofs

Each proof module proves `Spec => []Inv` for an inductive invariant `Inv`, for all values of the constants that
the module's assumption (`PipelineAssumption`, `LockAssumption`, ...) admits, and from `Inv` the properties of the runs.

| module | inductive invariant | theorems on the properties of the runs |
|---|---|---|
| `OksPipelineProofs` | `PipelineInv` | `JobsConserved`, `SlotsOwned`, `WaitCompletes`, `PipelineRefines` |
| `OksFileProofs` | `LockInv` | `HolderKeepsFile`, `LockIsExclusive`, `RefusalIsJustified` |
| | `SessionInv` | `ChangedFilesAreLocked`, `ChangesAreReported`, `ContentsSurvive`, `ForeignFilesUntouched` |
| `OksSchemaProofs` | `SchemaInv` | `NoCircle`, `AllSuperClasses`, `AllSubClasses`, `NothingDangles` |
| `OksIncludesProofs` | `IncludesInv` | `ParentsInclude`, `LoadedStaysComplete`, `IncludedFilesStayOpen`, `OrphansAreClosed` |
| `OksCompositeProofs` | `CompositeInv` | `RcrsMatchValues`, `PointersDoNotDangle`, `PartsHaveOneParent`, `ChangesMarkFiles` |
| `OksIndexProofs` | `IndexInv` | `IndicesAreExact`; `SearchesAreExact` (about `FindAll`, `FindAllOfTwo`) |
| `OksValuesProofs` | `ValuesInv` | `ValuesAlwaysFit` |
| | `LayoutInv` | `ValuesAreOwn`, `NoValueIsLost` |
| `OksObjectsProofs` | `ObjectsInv` | `MemoryAlwaysIsFiles`, `ReferencesStayBound` |
| | `PartsInv` (one thread) | `OneParentKept` |
| | `LoadInv` (one thread, no reload) | `ParentsMatchAfterLoad`, `IdsUniqueAfterLoad` |
| | `NotifyInv` (`Steady` texts) | `ChangesAreTold` |

**Pool**, for every number `N >= 1` of workers and every set of jobs. Further theorems are `TypeCorrect`,
`BarrierSafe` and `ExitSafe`. None of the invariants is inductive alone. That the slot of a worker is not written
twice needs `m_running` to be true exactly between the two critical sections of a
round; that the barrier trips only when all work is done needs to know that a worker at
the barrier has an empty slot, and that the queue, once seen empty, stays empty. `PhaseInv`
states these facts, and `PipelineInv` is the conjunction of it with the others.
The proof takes the control part (flags, program counters, queue; `ControlInv`) first, one
step per action, then `JobInOnePlace` on top of it: each action moves one job, so a lemma
per kind of move is enough. Refinement maps a job in a slot whose worker is at
`exec` to an active job, and the wait's states to `open = FALSE`; only
`BeginRound`, `RunJob`, `FetchJob`, `AddJob`, `WaitForCompletion` and the barrier's trip
are steps of `JobPool`, the rest stutters. The end of the wait is the delicate one:
`finished = submitted` follows because all slots, the queue and the hand are empty.

**Lock**, for any processes and names. `Exclusive` speaks of holders; what makes it inductive is what a call has
seen at each of its steps (`CallKnows`: at `"remove"` the lock file is still there and nobody has its fcntl lock),
that fcntl locks belong to somebody (`FcntlHasOwner`) and, without overlap, that one call runs at a time.

**Session**, for any files, versions and crashes. Each of the four properties needs to know what holds between the steps
of a save, an `"at which step may what be missing"`: `LockedOrSaving` for the locks, `FreshFiles` for what the kernel knows of
content and `st_mtime`, `TouchedIsAbsent` for the empty file made before a save. The attempt to prove `ContentNeverLost`
as it was first stated failed for a reason that TLC confirmed: see the row on `"between"` in section 3.

**Includes**, for any finite set of files (finite, because the closing loops end when a count does not change).
`IncludesCovered` says that an include that is not open is on the stack of nested calls, so that nothing is left when
the stack is empty; `ParentsFit` follows parents through the steps that may break them. That no orphan is left
uses that the includes have no circle (`NoCircle`): a file with no parent in the last round is not reachable.
`IncludedFilesStayOpen` has one exception, a file that is gone from disk during a reload, and needs it
(section 3, `"missingFile"`).

**Schema**, for any number of names, files and uses of a name, and any setup; `careless` at most `"testIds"` (nothing for `NothingDangles`).
`SchemaInv` says that the direct super-classes of each class are there and form no circle (`Sound`), that the lists of super-classes are
what they give, each class once (`Exact`), that those of sub-classes mirror them, and that no address was used before. It was checked by TLC on
the run's setups before it was proved.
Inheritance is a graph of names; `Reach` of a name is the least set closed under it. The proof has four parts.
(1) What a walk finds: a level of `Above` is right for a class when the level before it is right for all its direct super-classes. While some class is not yet
right, one of them has only super-classes that are, or there would be a circle: so each level ends for at least one more
name, and as many levels as names are enough (`AboveIsExact`).
(2) What `add_super_class` refuses: it looks for the class in the computed list of the other one, which is exact, so a new edge never closes a circle
(`NoCircleAdded`); this is why the property on circles and those on lists are one invariant.
(3) Who must learn of a change: a change of `c` alters what is reached only from `c` and its sub-classes, and who is reached from below only for
the super-classes `c` had or has (`ReachSame`, `ReachKept`); these are the classes `registrate_class_change` walks, as far as the old lists, which it goes by, are right.
`registrate_all_classes(true)` skips classes that have attributes already; they keep their right lists because what a load adds is inherited by none of
them (`GrownParts`).
(4) Addresses: a class that is made has an address no list has (`UseClosed`, `NextUseParts`), and a destroyed one has left all lists before it is freed.

**Composites**, for any objects, files, relationships and setups. Between the nested calls of a destructor an OksRCR may have lost its
pointer and a pointer its object; `RcrHasPointer` and `PointerHasRcr` say for which frame of the stack and
for which objects still to be closed. The setters are one lemma for each kind of change of a sequence.

**Index**, for finite sets of objects and attributes. `IndexSpec` is the index's part of the specification that the run checks: each step of
`OksQuery`'s `Next` is one of `IndexNext` or leaves the variables of `OksIndex` alone. An index is in the order of
`Less`, so an object is found between the bounds of its value, a removal takes exactly it, and an insertion at the upper bound
keeps the order (`InsertKeepsOrder`, `RemoveKeepsOrder`). `SearchesAreExact` goes on from there: `FindAll` and `FindAllOfTwo`
with `=`, `<`, `<=`, `>`, `>=` return each satisfying object once, because the starts of the intervals are the first positions of
their values, so that comparing the values that iterators point to (as `src/index.cpp` does) compares their positions.

**Values**, for any types, ranges and inputs; `careless` at most `"hexadecimal"`. A conversion looks a text up in the enumerators, a value set without conversion is only tested
against the range; both are the same because the limits of an enumeration agree with its enumerators, which every change of
type or range must keep (`EnumKept`). What is read from a file that was saved under another type is converted like
any value, so the file needs only as many texts as it says. That a range of an enumeration does not contain `*` is assumed:
with it the range test is off.

**Layout**, for any names, types and objects. `LayoutInv` says that the data info of both classes always is what their lists give (`AllItems`)
and that each object has, at each place, a value of the attribute or relationship there and of its type, or none.
`registrate_instances` moves the kept values to the first places, one after the other, and never looks where the new place is.
This is right only when all items that were there come before the new ones; `AtEnd` says so, and the proof shows that it is the
only thing to ask of an addition, removal or renaming (`"insert"` and `"rename"` drop it). The kept places then are the
same ones in the same order (`OnlyPrefix`), for removals too. `NoValueIsLost` needs the same, also when overrides are
removed and overridden attributes retyped: the value may then be of the wrong type, but there is one.

**Loads and reloads**, for any files and contents, any number of threads, edits and reloads, and any modes.
`MemoryIsFiles` speaks of the time between calls; `FilesRead` is what it needs in the middle of one: the objects that are
completely read from a file, not counting those of the pool that wait to be read again, are as many as the entries its
reader has passed, and their texts are those of these entries. For the object a reader is inside of, `InText`
says which relationships already have the names of the file. That one thread never disturbs another is
`ReadersOK` (no two readers own one object) with `ValuesSound` (a value points only to objects that are there under the name it was read with).
`PhaseOK` says what each phase of a reload has settled: before the objects that are not in the files any more are deleted nothing points to
them, so that deleting leaves no pointer behind, and binding can turn every name into a pointer.

`MemoryAlwaysIsFiles` and `ReferencesStayBound` are for setups where `NoPartsDeleted`: no dependent relationships, or no reloads. Without it they do not hold, and
TLC shows why: `~OksObject` of an object that is not in the files any more deletes its dependent parts too, and such a part goes
even when its own file, just read again, still has it. That follows from what "dependent" means
(`include/oks/relationship.hpp`: the existence of the child depends on that of its parents), but memory is then not what the file says.

*Parents of parts* are a matter of one thread: two jobs that add OksRCRs to one child at once lose one or accept two exclusive parents
(`add_RCR` is not locked, section 3). With one thread nothing happens between the look at a list and its change; `ReaderKnown` says so for
the object that is being read, and that what was read of it is in the lists. `SettledKnown` says it for the objects that are
read and will not be read again in this reload: an exclusive OksRCR is taken back only from the parents that are in the pool,
and a pointer of an object whose file could not be read may have lost its OksRCR, so "settled" leaves both out. `OneParent`
is kept because an entry is only added after `CanAdd`. Together they give `OneParentKept`: two exclusive parents that are settled would both be in the list.
After a load also the reverse holds (`ParentsSound`: each entry has its pointer, or is that of the object that is being read), unless a job
failed, because the object it was inside of stays in the lists of its parts. `IdsSound` says that no object has the id of the one that is being read, from
`check_ids` until the object is in `p_objects`; this is what two threads break in `ObjectsRace`. For reloads the two theorems on loads are false,
not only unproved: a reload leaves a shared part with a parent it lost, and a refused reload succeeds when it is repeated (both in section 3).

`NotifyInv`, for any threads, edits and reloads, those with dependent parts to delete included, says of each object that is there that it refers to what it did
when the last call with success ended, or is reported, or has a reader that saw a change and will call `change_notify` at the end of its text (`Told`); and that the name of each
object that was there then is still the same object's or was passed to the delete callback. What the callbacks start from is kept over refused reloads.
A reader that saw a change and then fails breaks it, which is the code's own gap (two rows in section 3), so the theorem is about texts where it cannot happen (`Steady`): all can be
read to their end, and an exclusive relationship, whose parts may refuse their parent, is the first of its object. A refusal then comes before
anything was changed: a reader with something to report has no exclusive relationship left to read (`Place`). References to removed objects lose their pointers
and bound ones get them; neither is a change, since the name stays.

Assumed of a setup: class and id of an object in a file come without the number that memory gives a duplicate, a class has a relationship only once,
and composite relationships are among its relationships. The setups of the runs meet this (TLC evaluates it), and the two invariants were
checked by TLC on them, those of two threads aside, before they were proved.

**Only model-checked:**
- liveness of the pool: out of the prover's reach;
- `OksQuery`: parser and evaluation are recursive operators;
- `SavedIsLoaded` and `MigrationAgrees`: modular arithmetic with powers of two, of which the prover knows nothing;
- of `OksObjects`, with several threads, and for the last two after reloads, `OneParentOfPart`, `ParentsMatchValues` and
  `IdsUniqueInHierarchy`: they hold for some contents of the files only.

## 5. Abstractions

- File contents, values and messages are model values or numbers; attribute
  values, formatting and logging are left out.
- `OksComposite`: one class; class-type and cardinality checks only refuse calls. An
  address is not used again while something points to it (`Create`'s guards): what
  `is_dangling` answers for a reused address is the allocator's.
- `OksSchema`: attributes and objects are left out (they are in `OksLayout`); an operation that
  would recurse without end is not continued.
- `OksLayout`: the two classes are not changed otherwise, a conversion fails or does not by choice,
  a list is not empty when its relationship becomes single-valued (the code reads its first element).
- `OksIncludes`: one name stands for one file, and is found exactly if the file is there (`Resolves`); a file that is there
  but cannot be read is left out, and so is a reload that fails while objects are read, which leaves the files
  it would have closed open; schema includes are left
  out, the order of a list is a nondeterministic choice.
- `OksFileSession`: `save_as_data` to a name that is loaded already, which loses the other file's handle, is left out.
- `OksObjects`: attributes, schema changes between loads and the closing of files during a reload (in `OksIncludes`);
  two jobs never add OksRCRs to one child at the same time in the setups of the passing run.
- `OksValues`: a conversion to `float`, dates, times and classes; `errno`, which the readers of numbers never
  reset, so that after one overflow the thread refuses all numbers; the silent cut of a text whose number is
  wider than the type.
- `OksQuery`: regular expressions, patterns of object ids, quoting.
- `OksIndex`: one thread. `init3` inserts into the indices of a class without a lock, so jobs that load objects of a class
  with an index insert at the same time; what becomes of the multiset then is undefined and not modelled.
- Not modelled: repository files and their scripts (state and atomicity are git's),
  XML text, profiler, applications, Python binding.

## 6. Plan

1. *Theorems*: the parents after reloads without shared parts, of `OksObjects`; `SavedIsLoaded` case by case.
2. *Composition* of session and lock: `OksFileSession`'s lock implemented by `OksFileLock`.
3. *Schema*: which lists stay right when one of several schema files was closed (`"closeSome"`); saving of schema files (`k_save_schema` has the order of `k_save_data`), schema includes.
4. *Threads of the client*: saves under the shared kernel lock.
