---------------------------- MODULE OksFileLock ----------------------------
(***************************************************************************)
(* The update lock of an OKS file: OksFile::lock(), unlock() and rename()  *)
(* (src/src/file.cpp) as run by several processes on the same directory.   *)
(*                                                                         *)
(* A lock is a file .oks-lock-<name>.txt plus an fcntl lock on it, taken   *)
(* through boost::interprocess::file_lock.  The file system is external: a *)
(* name is bound to an inode, an fcntl lock belongs to an inode and dies   *)
(* with its process, and an unlinked inode lives on for who has it open.   *)
(* Each process runs one kernel.  What may happen in a behaviour beyond    *)
(* calls one after the other and crashes is said by lockCareless, a        *)
(* constant of the behaviour that the properties refer to.                 *)
(***************************************************************************)
EXTENDS Naturals, FiniteSets

CONSTANTS
    Proc,         \* processes that edit the file
    Name,         \* data file names (two when files are renamed)
    MaxInode,     \* bound: lock files created in a behaviour
    MaxProcCrash, \* bound: crashes in a behaviour
    LockCareless  \* the values of lockCareless to look at

\* Calls of lock() and unlock() of two processes overlap; a client renames a
\* file it has locked; it asks who has the lock of a file it has locked.
LockDelicate == {"overlap", "renameLocked", "queryOwn"}

NoInode == 0
Inode == 1 .. MaxInode
Nobody == "nobody"

ASSUME LockAssumption ==
    /\ MaxInode \in Nat /\ MaxProcCrash \in Nat
    /\ LockCareless \subseteq SUBSET LockDelicate
    /\ Name # {} /\ Nobody \notin Proc

VARIABLES
    dirent,   \* the inode each lock file name is bound to, or NoInode
    created,  \* number of lock files created so far
    fcntl,    \* the process that has the fcntl lock of each inode, or Nobody
    lockPc,   \* where each process is in lock() or unlock()
    opened,   \* the inode the process's last file_lock object was opened on
    p_lock,   \* OksFile::p_lock: the inode of the lock held, or NoInode
    name,     \* the file name the process's OksFile has now
    procCrashes,
    lockCareless

lockState == <<dirent, created, fcntl, lockPc, opened, p_lock, name, procCrashes, lockCareless>>

LockPC == {"stat", "openProbe", "probe", "release", "remove", "create",
           "open", "trylock"}
UnlockPC == {"unlink"}
ProcPC == {"idle", "dead"} \cup LockPC \cup UnlockPC

LockInit ==
    /\ dirent = [n \in Name |-> NoInode]
    /\ created = 0
    /\ fcntl = [i \in Inode |-> Nobody]
    /\ lockPc = [p \in Proc |-> "idle"]
    /\ opened = [p \in Proc |-> NoInode]
    /\ p_lock = [p \in Proc |-> NoInode]
    /\ name \in [Proc -> Name]
    /\ procCrashes = 0
    /\ lockCareless \in LockCareless

GoTo(p, l) == lockPc' = [lockPc EXCEPT ![p] = l]
LockFile(p) == dirent[name[p]]
Bind(p, i) == dirent' = [dirent EXCEPT ![name[p]] = i]
InCall(p) == lockPc[p] \in LockPC \cup UnlockPC

\* p may run now.
Scheduled(p) == "overlap" \in lockCareless \/ \A q \in Proc \ {p} : ~InCall(q)

\* fcntl locks are dropped when their process ends.
Drop(p) == [i \in Inode |-> IF fcntl[i] = p THEN Nobody ELSE fcntl[i]]

\* An fcntl lock is dropped as well when its process closes any descriptor of
\* the inode.
DropOn(p, i) == [fcntl EXCEPT ![i] = IF @ = p THEN Nobody ELSE @]

-----------------------------------------------------------------------------
(* OksFile::lock *)

\* Nothing to do when p_lock is set already.
CallLock(p) ==
    /\ lockPc[p] = "idle" /\ Scheduled(p)
    /\ p_lock[p] = NoInode
    /\ GoTo(p, "stat")
    /\ UNCHANGED <<dirent, created, fcntl, opened, p_lock, name, procCrashes, lockCareless>>

\* Mutant: the file is locked when a lock file is there.
BuggyStatLockFile(p) ==
    /\ lockPc[p] = "stat" /\ Scheduled(p)
    /\ GoTo(p, IF LockFile(p) = NoInode THEN "create" ELSE "idle")
    /\ UNCHANGED <<dirent, created, fcntl, opened, p_lock, name, procCrashes, lockCareless>>

\* get_lock_string: does the lock file exist?
StatLockFile(p) ==
    /\ lockPc[p] = "stat" /\ Scheduled(p)
    /\ GoTo(p, IF LockFile(p) = NoInode THEN "create" ELSE "openProbe")
    /\ UNCHANGED <<dirent, created, fcntl, opened, p_lock, name, procCrashes, lockCareless>>

\* Open the existing lock file; the call fails when it is gone again.
OpenProbe(p) ==
    /\ lockPc[p] = "openProbe" /\ Scheduled(p)
    /\ IF LockFile(p) = NoInode
         THEN GoTo(p, "idle") /\ UNCHANGED opened
         ELSE GoTo(p, "probe") /\ opened' = [opened EXCEPT ![p] = LockFile(p)]
    /\ UNCHANGED <<dirent, created, fcntl, p_lock, name, procCrashes, lockCareless>>

\* Mutant: every lock file that is there is obsolete.
BuggyProbe(p) ==
    /\ lockPc[p] = "probe" /\ Scheduled(p)
    /\ GoTo(p, "release")
    /\ UNCHANGED <<dirent, created, fcntl, opened, p_lock, name, procCrashes, lockCareless>>

\* try_lock on it: "file is already locked by ..." when somebody has it.
Probe(p) ==
    /\ lockPc[p] = "probe" /\ Scheduled(p)
    /\ IF fcntl[opened[p]] # Nobody
         THEN GoTo(p, "idle") /\ UNCHANGED fcntl
         ELSE GoTo(p, "release") /\ fcntl' = [fcntl EXCEPT ![opened[p]] = p]
    /\ UNCHANGED <<dirent, created, opened, p_lock, name, procCrashes, lockCareless>>

\* The lock is obsolete: let go of it ...
ReleaseProbe(p) ==
    /\ lockPc[p] = "release" /\ Scheduled(p)
    /\ fcntl' = [fcntl EXCEPT ![opened[p]] = Nobody]
    /\ GoTo(p, "remove")
    /\ UNCHANGED <<dirent, created, opened, p_lock, name, procCrashes, lockCareless>>

\* ... and remove whatever file has the name by now.
RemoveObsolete(p) ==
    /\ lockPc[p] = "remove" /\ Scheduled(p)
    /\ GoTo(p, IF LockFile(p) = NoInode THEN "idle" ELSE "create")
    /\ Bind(p, NoInode)
    /\ UNCHANGED <<created, fcntl, opened, p_lock, name, procCrashes, lockCareless>>

\* std::ofstream makes the file, or truncates the one that is there.
CreateLockFile(p) ==
    /\ lockPc[p] = "create" /\ Scheduled(p)
    /\ IF LockFile(p) = NoInode
         THEN /\ created < MaxInode
              /\ created' = created + 1
              /\ Bind(p, created + 1)
         ELSE UNCHANGED <<created, dirent>>
    /\ GoTo(p, "open")
    /\ UNCHANGED <<fcntl, opened, p_lock, name, procCrashes, lockCareless>>

\* p_lock.reset(new file_lock(...)) throws when the file is gone.
OpenLockFile(p) ==
    /\ lockPc[p] = "open" /\ Scheduled(p)
    /\ IF LockFile(p) = NoInode
         THEN GoTo(p, "idle") /\ UNCHANGED opened
         ELSE GoTo(p, "trylock") /\ opened' = [opened EXCEPT ![p] = LockFile(p)]
    /\ UNCHANGED <<dirent, created, fcntl, p_lock, name, procCrashes, lockCareless>>

TryLock(p) ==
    /\ lockPc[p] = "trylock" /\ Scheduled(p)
    /\ IF fcntl[opened[p]] = Nobody
         THEN /\ fcntl' = [fcntl EXCEPT ![opened[p]] = p]
              /\ p_lock' = [p_lock EXCEPT ![p] = opened[p]]
         ELSE UNCHANGED <<fcntl, p_lock>>
    /\ GoTo(p, "idle")
    /\ UNCHANGED <<dirent, created, opened, name, procCrashes, lockCareless>>

-----------------------------------------------------------------------------
(* OksFile::unlock and rename *)

\* Mutant: p_lock is not looked at.
BuggyCallUnlock(p) ==
    /\ lockPc[p] = "idle" /\ Scheduled(p)
    /\ fcntl' = [i \in Inode |-> IF i = p_lock[p] THEN Nobody ELSE fcntl[i]]
    /\ p_lock' = [p_lock EXCEPT ![p] = NoInode]
    /\ GoTo(p, "unlink")
    /\ UNCHANGED <<dirent, created, opened, name, procCrashes, lockCareless>>

\* p_lock->unlock() and p_lock.reset(): the fcntl lock, if it is still there.
CallUnlock(p) ==
    /\ lockPc[p] = "idle" /\ Scheduled(p)
    /\ p_lock[p] # NoInode
    /\ fcntl' = DropOn(p, p_lock[p])
    /\ p_lock' = [p_lock EXCEPT ![p] = NoInode]
    /\ GoTo(p, "unlink")
    /\ UNCHANGED <<dirent, created, opened, name, procCrashes, lockCareless>>

\* unlink(p_lock_file_name), ENOENT ignored.
UnlinkLockFile(p) ==
    /\ lockPc[p] = "unlink" /\ Scheduled(p)
    /\ Bind(p, NoInode)
    /\ GoTo(p, "idle")
    /\ UNCHANGED <<created, fcntl, opened, p_lock, name, procCrashes, lockCareless>>

\* OksFile::rename, called by save_as_data and save_as_schema: the name of
\* the lock file changes with the name of the file, the lock is kept.
RenameFile(p) ==
    /\ lockPc[p] = "idle" /\ Scheduled(p)
    /\ "renameLocked" \in lockCareless \/ p_lock[p] = NoInode
    /\ \E n \in Name \ {name[p]} : name' = [name EXCEPT ![p] = n]
    /\ UNCHANGED <<dirent, created, fcntl, lockPc, opened, p_lock, procCrashes, lockCareless>>

\* The public get_lock_string of a file the process has locked itself: an
\* ifstream on the lock file is opened, read and closed.
QueryLock(p) ==
    /\ "queryOwn" \in lockCareless
    /\ lockPc[p] = "idle" /\ Scheduled(p)
    /\ p_lock[p] # NoInode /\ LockFile(p) # NoInode
    /\ fcntl' = DropOn(p, LockFile(p))
    /\ UNCHANGED <<dirent, created, lockPc, opened, p_lock, name, procCrashes, lockCareless>>

\* The process dies at any point; a new one may start later.
CrashProc(p) ==
    /\ lockPc[p] # "dead"
    /\ procCrashes < MaxProcCrash
    /\ procCrashes' = procCrashes + 1
    /\ fcntl' = Drop(p)
    /\ p_lock' = [p_lock EXCEPT ![p] = NoInode]
    /\ opened' = [opened EXCEPT ![p] = NoInode]
    /\ GoTo(p, "dead")
    /\ UNCHANGED <<dirent, created, name, lockCareless>>

Restart(p) ==
    /\ lockPc[p] = "dead"
    /\ GoTo(p, "idle")
    /\ UNCHANGED <<dirent, created, fcntl, opened, p_lock, name, procCrashes, lockCareless>>

LockStep(p) ==
    \/ StatLockFile(p) \/ OpenProbe(p) \/ Probe(p) \/ ReleaseProbe(p)
    \/ RemoveObsolete(p) \/ CreateLockFile(p) \/ OpenLockFile(p) \/ TryLock(p)

LockNext == \E p \in Proc :
    \/ CallLock(p) \/ LockStep(p) \/ CallUnlock(p) \/ UnlinkLockFile(p)
    \/ RenameFile(p) \/ QueryLock(p) \/ CrashProc(p) \/ Restart(p)

LockSpec == LockInit /\ [][LockNext]_lockState

-----------------------------------------------------------------------------
(* Properties *)

\* Every variable keeps its type, and a process in lock() has no lock yet.
LockTypeOK ==
    /\ dirent \in [Name -> Inode \cup {NoInode}]
    /\ created \in 0 .. MaxInode
    /\ fcntl \in [Inode -> Proc \cup {Nobody}]
    /\ lockPc \in [Proc -> ProcPC]
    /\ opened \in [Proc -> Inode \cup {NoInode}]
    /\ p_lock \in [Proc -> Inode \cup {NoInode}]
    /\ name \in [Proc -> Name]
    /\ procCrashes \in 0 .. MaxProcCrash
    /\ \A p \in Proc : lockPc[p] \in LockPC => p_lock[p] = NoInode

Holds(p) == p_lock[p] # NoInode

\* Nothing of S happens in this behaviour.
Without(S) == lockCareless \cap S = {}

\* lock() promises that the lock is exclusive while the process that made it
\* is alive (file.hpp:391): no two processes think they may edit one file,
\* whatever crashes at whatever step of a call, when no calls overlap and
\* nobody renames or asks about a file it locked.
Exclusive ==
    Without({"overlap", "queryOwn", "renameLocked"}) =>
        \A p, q \in Proc : Holds(p) /\ Holds(q) /\ name[p] = name[q] => p = q

\* Under the same conditions the lock file others look for is there while a
\* process has the lock, and is the very file its fcntl lock is on.
HolderKeepsLockFile ==
    Without({"overlap", "queryOwn", "renameLocked"}) =>
        \A p \in Proc : Holds(p) => LockFile(p) = p_lock[p] /\ fcntl[p_lock[p]] = p

\* A crash at any step of lock() or unlock() costs nobody the lock for good: a
\* call of lock() that overlaps no other fails only while another process has
\* the lock.
RefusedOnlyWhenHeld ==
    [][Without({"overlap", "renameLocked"}) =>
         \A p \in Proc :
           lockPc[p] \in LockPC /\ lockPc'[p] = "idle" /\ ~Holds(p)'
             => \E q \in Proc \ {p} : Holds(q) /\ name[q] = name[p]]_lockState
=============================================================================
