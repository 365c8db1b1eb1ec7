--------------------------- MODULE OksFileSession ---------------------------
(***************************************************************************)
(* The life of data files in one kernel: load, new, set active, modify,    *)
(* save, save as, back up, reload, close (src/src/kernel.cpp,              *)
(* src/src/file.cpp), while other processes lock and save the same files   *)
(* and the kernel's process may crash.                                     *)
(*                                                                         *)
(* The update lock is taken as exclusive here; OksFileLock models how it   *)
(* is made.  One thread of the client calls the kernel at a time, but      *)
(* other processes run between the system calls of an operation.  The      *)
(* content of a file is a version number.                                  *)
(***************************************************************************)
EXTENDS Naturals, FiniteSets

CONSTANTS
    File,        \* data files
    NoFile,      \* no active file, no current operation
    MaxVersion,  \* bound: times a file is written or emptied in a behaviour
    MaxCrash,    \* bound: crashes of the kernel's process
    Careless     \* the values of careless to look at

\* Other processes lock and save the files; they do so between the system calls
\* of one operation as well; a save or a reload may fail; two successive
\* contents have one st_mtime (in seconds); new_data is called for a file that
\* exists on disk; save_as_data is called for a file that is locked, or for the
\* active one, which it leaves locked when the save fails.
Delicate == {"others", "between", "failures", "sameSecond", "newOverOld", "saveAsLocked"}

Absent == 0      \* there is no file
Empty == 1       \* the file has no content
Lost == "lost"   \* p_lock is on a lock file that was replaced
Version == 0 .. MaxVersion

ASSUME SessionAssumption ==
    /\ NoFile \notin File /\ Lost \notin File \cup {NoFile}
    /\ MaxVersion \in Nat \ {0, 1} /\ MaxCrash \in Nat
    /\ Careless \subseteq SUBSET Delicate

VARIABLES
    disk,     \* the content of each file on disk
    mtime,    \* its st_mtime
    written,  \* number of the last write by anybody
    other,    \* files another process has the lock of
    known,    \* p_data_files
    base,     \* the content the in-memory file was read from or saved as
    seen,     \* OksFile::p_last_modified
    on_disk,  \* OksFile::p_is_on_disk
    lock,     \* the file whose lock file OksFile::p_lock is on, of each file
    bare,     \* files of other whose lock file the kernel has removed
    updated,  \* files with OksFile::p_is_updated set
    active,   \* p_active_data
    tmp,      \* is a temporary file of k_save_data on disk
    pc,       \* the point the kernel has reached in an operation
    cur,      \* the file that operation is about
    from,     \* the name it had before save_as_data
    crashes,
    careless  \* what may happen in this behaviour beyond calls and crashes

fsVars == <<disk, mtime, written>>
memVars == <<known, base, seen, on_disk>>
lockVars == <<lock, bare, updated, active>>
vars == <<fsVars, other, memVars, lockVars, tmp, pc, cur, from, crashes,
          careless>>

PC == {"idle", "loadStat", "reloadRead", "reloadStat", "saveTouch", "saveWrite",
       "saveRename", "saveUnlock", "saveFlags", "saveStat"}

Init ==
    /\ disk \in [File -> {Absent, 2}]
    /\ mtime = [f \in File |-> 0]
    /\ written = 2
    /\ other = {}
    /\ known = {}
    /\ base = [f \in File |-> Absent]
    /\ seen = [f \in File |-> 0]
    /\ on_disk = {}
    /\ lock = [f \in File |-> NoFile] /\ bare = {} /\ updated = {} /\ active = NoFile
    /\ tmp = FALSE
    /\ pc = "idle" /\ cur = NoFile /\ from = NoFile
    /\ crashes = 0
    /\ careless \in Careless

Idle == pc = "idle"
Begin(f, l) == pc' = l /\ cur' = f /\ UNCHANGED from
End == pc' = "idle" /\ cur' = NoFile /\ from' = NoFile

\* Files with p_lock set.
locked == {f \in File : lock[f] # NoFile}

\* OksFile::lock can succeed.  The lock file of another name this process has
\* a lock on is no obstacle: it is replaced, and that lock lost.
CanLock(f) == f \in locked \/ f \notin other \ bare
Locked(l, f) ==
    IF l[f] # NoFile THEN l
    ELSE [g \in File |-> IF g = f THEN f ELSE IF l[g] = f THEN Lost ELSE l[g]]

\* OksFile::unlock removes the lock file of the name the file has by now,
\* which may be that of another process.
Unlocked(S) == [f \in File |-> IF f \in S THEN NoFile ELSE lock[f]]
Bared(S) == bare \cup {f \in S \cap locked \cap other : lock[f] # f}

\* A new complete content of f; its mtime is later unless both writes fall
\* into one second.
Write(f) ==
    /\ written < MaxVersion
    /\ written' = written + 1
    /\ disk' = [disk EXCEPT ![f] = written + 1]
    /\ \E t \in {mtime[f], mtime[f] + 1} :
         /\ "sameSecond" \in careless \/ t # mtime[f]
         /\ mtime' = [mtime EXCEPT ![f] = t]

\* f is created, or truncated: it is there and empty.
Touch(f) ==
    /\ written < MaxVersion
    /\ written' = written + 1
    /\ disk' = [disk EXCEPT ![f] = Empty]
    /\ mtime' = [mtime EXCEPT ![f] = @ + 1]

\* OksFile::update_status_of_file.
UpdateStatus(f) ==
    seen' = IF f \in on_disk /\ disk[f] # Absent
              THEN [seen EXCEPT ![f] = mtime[f]] ELSE seen

-----------------------------------------------------------------------------
(* Other processes *)

OtherMayRun == "others" \in careless /\ ("between" \in careless \/ Idle)

OtherLocks(f) ==
    /\ OtherMayRun /\ f \notin other \cup {lock[g] : g \in File}
    /\ other' = other \cup {f}
    /\ UNCHANGED <<fsVars, memVars, lockVars, tmp, pc, cur, from, crashes, careless>>

OtherSaves(f) ==
    /\ OtherMayRun /\ f \in other
    /\ Write(f)
    /\ UNCHANGED <<other, memVars, lockVars, tmp, pc, cur, from, crashes, careless>>

\* Another process that has the lock removes the file.
OtherRemoves(f) ==
    /\ OtherMayRun /\ f \in other /\ disk[f] # Absent
    /\ disk' = [disk EXCEPT ![f] = Absent]
    /\ UNCHANGED <<mtime, written, other, memVars, lockVars, tmp, pc, cur, from, crashes, careless>>

OtherUnlocks(f) ==
    /\ OtherMayRun /\ f \in other
    /\ other' = other \ {f}
    /\ bare' = bare \ {f}
    /\ UNCHANGED <<fsVars, memVars, lock, updated, active, tmp, pc, cur, from, crashes, careless>>

-----------------------------------------------------------------------------
(* load_data, new_data, set_active_data, close_data *)

\* k_load_file opens the file (an empty or a missing one is refused); what is
\* read later is read from this descriptor.
Load(f) ==
    /\ Idle /\ f \notin known
    /\ disk[f] \notin {Absent, Empty}
    /\ base' = [base EXCEPT ![f] = disk[f]]
    /\ on_disk' = on_disk \cup {f}
    /\ Begin(f, "loadStat")
    /\ UNCHANGED <<fsVars, other, known, seen, lockVars, tmp, crashes, careless>>

\* k_load_data: update_status_of_file and add_data_file.
LoadStat ==
    /\ pc = "loadStat"
    /\ UpdateStatus(cur)
    /\ known' = known \cup {cur}
    /\ End
    /\ UNCHANGED <<fsVars, other, base, on_disk, lockVars, tmp, crashes, careless>>

\* Mutant: the active file is always unlocked.
BuggySwitchActive(f) ==
    /\ bare' = Bared({active})
    /\ IF CanLock(f)
         THEN lock' = Locked(Unlocked({active}), f) /\ active' = f
         ELSE lock' = Unlocked({active}) /\ active' = active

\* k_set_active_data(f): the active file is unlocked when it has no unsaved
\* change, then f is locked and becomes active; when f cannot be locked the
\* exception leaves the old file active, unlocked.
SwitchActive(f) ==
    LET released == IF active \notin updated THEN {active} ELSE {} IN
      /\ bare' = Bared(released)
      /\ IF CanLock(f)
           THEN lock' = Locked(Unlocked(released), f) /\ active' = f
           ELSE lock' = Unlocked(released) /\ active' = active

SetActive(f) ==
    /\ Idle /\ f \in known /\ f # active
    /\ SwitchActive(f)
    /\ UNCHANGED <<fsVars, other, memVars, updated, tmp, pc, cur, from, crashes, careless>>

ResetActive ==
    /\ Idle /\ active # NoFile
    /\ LET released == IF active \notin updated THEN {active} ELSE {}
       IN  lock' = Unlocked(released) /\ bare' = Bared(released)
    /\ active' = NoFile
    /\ UNCHANGED <<fsVars, other, memVars, updated, tmp, pc, cur, from, crashes, careless>>

\* new_data: test_file_existence opens the file for writing, which creates or
\* truncates it; then come the test for a loaded file, the lock and
\* add_data_file.
NewData(f) ==
    /\ Idle
    /\ "newOverOld" \in careless \/ (disk[f] = Absent /\ f \notin known)
    /\ Touch(f)
    /\ IF f \in known
         THEN UNCHANGED <<memVars, lock, bare, active>>
         ELSE /\ SwitchActive(f)
              /\ known' = IF CanLock(f) THEN known \cup {f} ELSE known
              /\ base' = [base EXCEPT ![f] = Empty]
              /\ seen' = [seen EXCEPT ![f] = 0]
              /\ on_disk' = on_disk \ {f}
    /\ UNCHANGED <<other, updated, tmp, pc, cur, from, crashes, careless>>

\* The bookkeeping of a closed file.
Forget(f) ==
    /\ known' = known \ {f}
    /\ updated' = updated \ {f}
    /\ active' = IF active = f THEN NoFile ELSE active

\* k_close_data; close_all_data closes one file after the other.
CloseData(f) ==
    /\ Idle /\ f \in known
    /\ Forget(f)
    /\ lock' = Unlocked({f}) /\ bare' = Bared({f})
    /\ UNCHANGED <<fsVars, other, base, seen, on_disk, tmp, pc, cur, from, crashes, careless>>

-----------------------------------------------------------------------------
(* Changes of objects *)

\* A setter of an object of file f: check_file_lock, then notify.
Modify(f) ==
    /\ Idle /\ f \in known /\ CanLock(f)
    /\ lock' = Locked(lock, f)
    /\ updated' = updated \cup {f}
    /\ UNCHANGED <<fsVars, other, memVars, bare, active, tmp, pc, cur, from, crashes, careless>>

\* The constructor of an object: it goes to the active file, which is marked
\* as updated and not locked again.
CreateObject ==
    /\ Idle /\ active # NoFile
    /\ updated' = updated \cup {active}
    /\ UNCHANGED <<fsVars, other, memVars, lock, bare, active, tmp, pc, cur, from, crashes, careless>>

-----------------------------------------------------------------------------
(* k_save_data *)

\* See whether the file exists.
BeginSave(f) ==
    /\ pc' = IF disk[f] = Absent THEN "saveTouch" ELSE "saveWrite"
    /\ cur' = f

\* Mutant: the file is not locked.
BuggySave(f) ==
    /\ Idle /\ f \in known /\ CanLock(f)
    /\ BeginSave(f)
    /\ UNCHANGED <<fsVars, other, memVars, lockVars, tmp, from, crashes, careless>>

\* Lock the file if needed; then see whether it exists.  save_all_data saves
\* one file after the other.
Save(f) ==
    /\ Idle /\ f \in known /\ CanLock(f)
    /\ lock' = Locked(lock, f)
    /\ BeginSave(f)
    /\ UNCHANGED <<fsVars, other, memVars, bare, updated, active, tmp, from, crashes, careless>>

\* backup_data writes the objects of f to a file g of its own (the kernel does
\* not know it): it is locked and written as any other.
Backup(f, g) ==
    /\ Idle /\ f \in known /\ g \notin known /\ CanLock(g)
    /\ lock' = Locked(lock, g)
    /\ BeginSave(g)
    /\ UNCHANGED <<fsVars, other, memVars, bare, updated, active, tmp, from, crashes, careless>>

\* k_rename_data: everything known of f is known of g now.
Move(S, f, g) == IF f \in S THEN (S \ {f}) \cup {g} ELSE S \ {g}
Rename(l, f, g) ==
    /\ known' = Move(known, f, g) /\ on_disk' = Move(on_disk, f, g)
    /\ updated' = Move(updated, f, g)
    /\ base' = [base EXCEPT ![g] = base[f]] /\ seen' = [seen EXCEPT ![g] = seen[f]]
    /\ lock' = [l EXCEPT ![g] = l[f], ![f] = NoFile]
    /\ active' = IF active = f THEN g ELSE active

\* save_as_data: rename f to g, which is not loaded, and save.  A lock stays
\* on the lock file of the old name, and the new one is not locked.
SaveAs(f, g) ==
    /\ Idle /\ f \in known /\ g \notin known
    /\ "saveAsLocked" \in careless \/ f \notin locked \cup {active}
    /\ f \in locked \/ CanLock(g)
    /\ Rename(IF f \in locked THEN lock ELSE [Locked(lock, g) EXCEPT ![f] = g], f, g)
    /\ BeginSave(g)
    /\ from' = f
    /\ UNCHANGED <<fsVars, other, bare, tmp, crashes, careless>>

\* The file did not exist: it is created, empty.
SaveTouch ==
    /\ pc = "saveTouch"
    /\ Touch(cur)
    /\ Begin(cur, "saveWrite")
    /\ UNCHANGED <<other, memVars, lockVars, tmp, crashes, careless>>

\* Mutant: the data file itself is opened for writing.
BuggySaveWrite ==
    /\ pc = "saveWrite"
    /\ Touch(cur)
    /\ tmp' = TRUE
    /\ on_disk' = on_disk \cup {cur}
    /\ Begin(cur, "saveRename")
    /\ UNCHANGED <<other, known, base, seen, lockVars, crashes, careless>>

\* Write and verify the temporary file; OksFile::write sets p_is_on_disk.
SaveWrite ==
    /\ pc = "saveWrite"
    /\ tmp' = TRUE
    /\ on_disk' = on_disk \cup {cur}
    /\ Begin(cur, "saveRename")
    /\ UNCHANGED <<fsVars, other, known, base, seen, lockVars, crashes, careless>>

\* rename() puts the temporary file in the place of the data file.
SaveRename ==
    /\ pc = "saveRename"
    /\ Write(cur)
    /\ tmp' = FALSE
    /\ base' = [base EXCEPT ![cur] = written + 1]
    /\ Begin(cur, "saveUnlock")
    /\ UNCHANGED <<other, known, seen, on_disk, lockVars, crashes, careless>>

SaveUnlock ==
    /\ pc = "saveUnlock"
    /\ lock' = Unlocked({cur} \ {active}) /\ bare' = Bared({cur} \ {active})
    /\ Begin(cur, "saveFlags")
    /\ UNCHANGED <<fsVars, other, memVars, updated, active, tmp, crashes, careless>>

SaveFlags ==
    /\ pc = "saveFlags"
    /\ updated' = updated \ {cur}
    /\ Begin(cur, "saveStat")
    /\ UNCHANGED <<fsVars, other, memVars, lock, bare, active, tmp, crashes, careless>>

SaveStat ==
    /\ pc = "saveStat"
    /\ UpdateStatus(cur)
    /\ End
    /\ UNCHANGED <<fsVars, other, known, base, on_disk, lockVars, tmp, crashes, careless>>

\* An exception before the rename succeeded: unlock the file unless it is
\* active, remove the temporary file; save_as_data renames the file back.
SaveFails ==
    /\ "failures" \in careless /\ pc \in {"saveTouch", "saveWrite", "saveRename"}
    /\ LET left == Unlocked({cur} \ {active})
       IN  IF from # NoFile THEN Rename(left, cur, from)
           ELSE lock' = left /\ UNCHANGED <<memVars, updated, active>>
    /\ bare' = Bared({cur} \ {active})
    /\ tmp' = FALSE
    /\ End
    /\ UNCHANGED <<fsVars, other, crashes, careless>>

-----------------------------------------------------------------------------
(* reload_data *)

\* The lock is given up first, and with it the active file.
Reload(f) ==
    /\ Idle /\ f \in known
    /\ disk[f] \notin {Absent, Empty}
    /\ lock' = Unlocked({f}) /\ bare' = Bared({f})
    /\ active' = IF active = f /\ f \in locked THEN NoFile ELSE active
    /\ Begin(f, "reloadRead")
    /\ UNCHANGED <<fsVars, other, memVars, updated, tmp, crashes, careless>>

ReloadRead ==
    /\ pc = "reloadRead" /\ disk[cur] # Absent
    /\ base' = [base EXCEPT ![cur] = disk[cur]]
    /\ Begin(cur, "reloadStat")
    /\ UNCHANGED <<fsVars, other, known, seen, on_disk, lockVars, tmp, crashes, careless>>

ReloadStat ==
    /\ pc = "reloadStat"
    /\ UpdateStatus(cur)
    /\ updated' = updated \ {cur}
    /\ End
    /\ UNCHANGED <<fsVars, other, known, base, on_disk, lock, bare, active, tmp, crashes, careless>>

\* Mutant: the status is updated although nothing was read.
BuggyReloadFails ==
    /\ pc = "reloadRead" /\ ("failures" \in careless \/ disk[cur] = Absent)
    /\ UpdateStatus(cur)
    /\ End
    /\ UNCHANGED <<fsVars, other, known, base, on_disk, lockVars, tmp, crashes, careless>>

\* The file or its includes cannot be read: the file information is restored.
ReloadFails ==
    /\ pc = "reloadRead" /\ ("failures" \in careless \/ disk[cur] = Absent)
    /\ End
    /\ UNCHANGED <<fsVars, other, memVars, lockVars, tmp, crashes, careless>>

-----------------------------------------------------------------------------
\* The process dies and starts again with nothing loaded.
Crash ==
    /\ crashes < MaxCrash
    /\ crashes' = crashes + 1
    /\ known' = {} /\ on_disk' = {}
    /\ base' = [f \in File |-> Absent] /\ seen' = [f \in File |-> 0]
    /\ lock' = [f \in File |-> NoFile] /\ updated' = {} /\ active' = NoFile
    /\ End
    /\ UNCHANGED <<fsVars, other, bare, tmp, careless>>

KernelStep ==
    \/ LoadStat \/ ResetActive \/ CreateObject \/ SaveTouch \/ SaveWrite
    \/ SaveRename \/ SaveUnlock \/ SaveFlags \/ SaveStat \/ SaveFails
    \/ ReloadRead \/ ReloadStat \/ ReloadFails

Next ==
    \/ \E f \in File :
         \/ OtherLocks(f) \/ OtherSaves(f) \/ OtherRemoves(f) \/ OtherUnlocks(f)
         \/ Load(f) \/ SetActive(f) \/ NewData(f) \/ CloseData(f)
         \/ Modify(f) \/ Save(f) \/ Reload(f)
         \/ \E g \in File : Backup(f, g) \/ SaveAs(f, g)
    \/ KernelStep
    \/ Crash

Spec == Init /\ [][Next]_vars

-----------------------------------------------------------------------------
(* Properties *)

\* Every variable keeps its type.
TypeOK ==
    /\ disk \in [File -> Version] /\ mtime \in [File -> Nat]
    /\ written \in Version /\ other \subseteq File
    /\ known \subseteq File /\ base \in [File -> Version]
    /\ seen \in [File -> Nat] /\ on_disk \subseteq File
    /\ lock \in [File -> File \cup {NoFile, Lost}] /\ bare \subseteq other
    /\ updated \subseteq known
    /\ active \in known \cup {NoFile}
    /\ tmp \in BOOLEAN /\ pc \in PC /\ cur \in File \cup {NoFile}
    /\ from \in File \cup {NoFile}
    /\ crashes \in 0 .. MaxCrash

\* Nothing of S happens in this behaviour.
Never(S) == careless \cap S = {}

\* Between operations a file with unsaved changes is locked under its own
\* name, so that nobody else saves it meanwhile: neither the order of unlock
\* and flag in k_save_data, nor switching the active file, nor a reload that
\* succeeds breaks this.
UpdatedIsLocked ==
    Never({"others", "failures", "saveAsLocked"}) /\ Idle => \A f \in updated : lock[f] = f

\* A file that has a content keeps a complete one at every instant: no crash
\* or failure of a save and no other operation leaves it empty or missing.  (A
\* save_as_data of a locked file does not lock the new name: another process may
\* write that one after the kernel has seen that it is not there.)
ContentNeverLost ==
    [][Never({"newOverOld"}) /\ ~({"saveAsLocked", "between"} \subseteq careless) =>
         \A f \in File : disk[f] \notin {Absent, Empty} /\ ~OtherRemoves(f)
                           => disk'[f] \notin {Absent, Empty}]_vars

\* While another process has the lock of a file, this kernel does not change
\* what the file contains, when new_data is not called for a file that is there
\* nor save_as_data for a locked or an active file.
ForeignFileUntouched ==
    [][\A f \in File :
          Never({"newOverOld", "saveAsLocked"}) /\ f \in other /\ disk[f] # Absent /\ disk'[f] # disk[f]
              => OtherSaves(f) \/ OtherRemoves(f)]_vars

\* OksFile::get_status_of_file.
Status(f) ==
    IF f \notin on_disk THEN "FileWasNotSaved"
    ELSE IF disk[f] = Absent THEN "FileRemoved"
    ELSE IF mtime[f] # seen[f] THEN "FileModified" ELSE "FileNotModified"

\* Between operations a loaded file whose content on disk is not the one the
\* kernel read or wrote is reported as modified, when nobody writes in the
\* middle of an operation and successive contents have different times.
ChangeIsReported ==
    Never({"between", "sameSecond"}) /\ Idle =>
        \A f \in known : disk[f] # base[f] => Status(f) # "FileNotModified"
=============================================================================
