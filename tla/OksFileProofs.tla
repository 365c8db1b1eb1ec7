---------------------------- MODULE OksFileProofs ----------------------------
(***************************************************************************)
(* Data files.  The update lock for any number of processes and names: it  *)
(* is exclusive, its holder keeps the lock file, and only a lock that is   *)
(* held is refused.  The session for any number of files, versions and     *)
(* crashes: files with changes stay locked, files of others untouched,     *)
(* contents are not lost and changes on disk not overlooked.               *)
(***************************************************************************)
EXTENDS OksFileLock, OksFileSession, TLAPS

-----------------------------------------------------------------------------
(* The update lock *)

\* Inodes are numbered in the order of their creation, and those in use were created.
InodesCreated ==
    /\ \A n \in Name : dirent[n] <= created
    /\ \A p \in Proc : opened[p] <= created /\ p_lock[p] <= created

\* Two names are never bound to one lock file.
OneName ==
    \A m, n \in Name : dirent[m] = dirent[n] /\ dirent[m] # NoInode => m = n

\* An fcntl lock is that of an OksFile's p_lock or, for a moment, of a probe.
FcntlHasOwner ==
    \A p \in Proc, i \in Inode :
        fcntl[i] = p => p_lock[p] = i \/ (lockPc[p] = "release" /\ opened[p] = i)

Serial == "overlap" \notin lockCareless

\* Without overlap one process at a time is in a call.
OneCall == Serial => \A p, q \in Proc : InCall(p) /\ InCall(q) => p = q

\* What a call knows at each step of what it has seen before.
OnLockFile(p) == LockFile(p) # NoInode /\ opened[p] = LockFile(p)
CallKnows ==
    Serial => \A p \in Proc :
        /\ lockPc[p] = "openProbe" => LockFile(p) # NoInode
        /\ lockPc[p] = "probe" => OnLockFile(p)
        /\ lockPc[p] = "release" => OnLockFile(p) /\ fcntl[LockFile(p)] = p
        /\ lockPc[p] \in {"remove", "trylock"} => OnLockFile(p) /\ fcntl[LockFile(p)] = Nobody
        /\ lockPc[p] = "create" => LockFile(p) = NoInode
        /\ lockPc[p] = "open" => LockFile(p) # NoInode /\ fcntl[LockFile(p)] = Nobody

\* The lock file of a holder has no other name than that of its data file.
HeldUnderName ==
    Serial /\ "renameLocked" \notin lockCareless =>
        \A p \in Proc, n \in Name :
            p_lock[p] # NoInode /\ dirent[n] = p_lock[p] => n = name[p]

\* A process that removes the lock file is the last one that had the lock.
UnlinkIsLast ==
    Without({"overlap", "queryOwn", "renameLocked"}) =>
        \A p, q \in Proc : lockPc[p] = "unlink" /\ Holds(q) => name[q] # name[p]

\* The inductive invariant.
LockInv ==
    /\ LockTypeOK /\ InodesCreated /\ OneName /\ FcntlHasOwner
    /\ OneCall /\ CallKnows /\ HeldUnderName /\ UnlinkIsLast /\ HolderKeepsLockFile

-----------------------------------------------------------------------------
(* The inductive invariant *)

\* Without lock files and locks the inductive invariant holds.
LEMMA InitLock == LockInit => LockInv
<1> SUFFICES ASSUME LockInit PROVE LockInv
  OBVIOUS
<1> USE LockAssumption
<1>1. LockTypeOK
  BY DEF LockInit, LockTypeOK, Inode, NoInode, ProcPC, LockPC
<1>2. InodesCreated /\ OneName /\ FcntlHasOwner
  BY DEF LockInit, InodesCreated, OneName, FcntlHasOwner, Inode, NoInode, Nobody
<1>3. OneCall /\ CallKnows
  BY DEF LockInit, OneCall, CallKnows, InCall, LockPC, UnlockPC
<1>4. HeldUnderName /\ UnlinkIsLast /\ HolderKeepsLockFile
  BY DEF LockInit, HeldUnderName, UnlinkIsLast, HolderKeepsLockFile, Holds
<1> QED BY <1>1, <1>2, <1>3, <1>4 DEF LockInv

\* Every step keeps the types.
LEMMA NextType == LockTypeOK /\ [LockNext]_lockState => LockTypeOK'
<1> SUFFICES ASSUME LockTypeOK, [LockNext]_lockState PROVE LockTypeOK'
  OBVIOUS
<1> USE LockAssumption DEF LockTypeOK, GoTo, LockFile, Inode, NoInode, ProcPC, LockPC, UnlockPC
<1>1. ASSUME NEW p \in Proc, CallLock(p) PROVE LockTypeOK'
  BY <1>1 DEF CallLock
<1>2. ASSUME NEW p \in Proc, StatLockFile(p) PROVE LockTypeOK'
  BY <1>2 DEF StatLockFile
<1>3. ASSUME NEW p \in Proc, OpenProbe(p) PROVE LockTypeOK'
  BY <1>3 DEF OpenProbe
<1>4. ASSUME NEW p \in Proc, Probe(p) PROVE LockTypeOK'
  <2>1. fcntl' \in [Inode -> Proc \cup {Nobody}]
    BY <1>4 DEF Probe
  <2>2. lockPc' \in [Proc -> ProcPC] /\ (\A q \in Proc : lockPc'[q] \in LockPC => p_lock[q] = NoInode)
    BY <1>4 DEF Probe
  <2> QED BY <1>4, <2>1, <2>2 DEF Probe
<1>5. ASSUME NEW p \in Proc, ReleaseProbe(p) PROVE LockTypeOK'
  BY <1>5 DEF ReleaseProbe
<1>6. ASSUME NEW p \in Proc, RemoveObsolete(p) PROVE LockTypeOK'
  BY <1>6 DEF RemoveObsolete, Bind
<1>7. ASSUME NEW p \in Proc, CreateLockFile(p) PROVE LockTypeOK'
  <2>1. created' \in 0 .. MaxInode /\ (created < MaxInode => created + 1 \in Inode)
    BY <1>7 DEF CreateLockFile
  <2>3. dirent' \in [Name -> Inode \cup {NoInode}]
    <3>1. dirent' = dirent \/ (created < MaxInode /\ dirent' = [dirent EXCEPT ![name[p]] = created + 1])
      BY <1>7 DEF CreateLockFile, Bind
    <3> QED BY <2>1, <3>1
  <2>2. lockPc' \in [Proc -> ProcPC] /\ (\A q \in Proc : lockPc'[q] \in LockPC => p_lock[q] = NoInode)
    BY <1>7 DEF CreateLockFile
  <2> QED BY <1>7, <2>1, <2>2, <2>3 DEF CreateLockFile
<1>8. ASSUME NEW p \in Proc, OpenLockFile(p) PROVE LockTypeOK'
  BY <1>8 DEF OpenLockFile
<1>9. ASSUME NEW p \in Proc, TryLock(p) PROVE LockTypeOK'
  <2>1. lockPc' = [lockPc EXCEPT ![p] = "idle"]
    BY <1>9 DEF TryLock
  <2>2. fcntl' \in [Inode -> Proc \cup {Nobody}]
    BY <1>9 DEF TryLock
  <2>3. p_lock' \in [Proc -> Inode \cup {NoInode}] /\ (\A q \in Proc \ {p} : p_lock'[q] = p_lock[q])
    BY <1>9 DEF TryLock
  <2>4. lockPc' \in [Proc -> ProcPC] /\ (\A q \in Proc : lockPc'[q] \in LockPC => p_lock'[q] = NoInode)
    BY <2>1, <2>3
  <2> QED BY <1>9, <2>2, <2>3, <2>4 DEF TryLock
<1>10. ASSUME NEW p \in Proc, CallUnlock(p) PROVE LockTypeOK'
  BY <1>10 DEF CallUnlock, DropOn
<1>11. ASSUME NEW p \in Proc, UnlinkLockFile(p) PROVE LockTypeOK'
  BY <1>11 DEF UnlinkLockFile, Bind
<1>12. ASSUME NEW p \in Proc, RenameFile(p) PROVE LockTypeOK'
  BY <1>12 DEF RenameFile
<1>13. ASSUME NEW p \in Proc, QueryLock(p) PROVE LockTypeOK'
  BY <1>13 DEF QueryLock, DropOn
<1>14. ASSUME NEW p \in Proc, CrashProc(p) PROVE LockTypeOK'
  BY <1>14 DEF CrashProc, Drop
<1>15. ASSUME NEW p \in Proc, Restart(p) PROVE LockTypeOK'
  BY <1>15 DEF Restart
<1>16. CASE UNCHANGED lockState
  BY <1>16 DEF lockState
<1> QED
  BY <1>1, <1>2, <1>3, <1>4, <1>5, <1>6, <1>7, <1>8, <1>9, <1>10, <1>11, <1>12, <1>13, <1>14, <1>15, <1>16 DEF LockNext, LockStep

\* A new lock file gets a number no other has, under one name.
LEMMA NextInodes == LockTypeOK /\ InodesCreated /\ OneName /\ [LockNext]_lockState => InodesCreated' /\ OneName'
<1> SUFFICES ASSUME LockTypeOK, InodesCreated, OneName, [LockNext]_lockState PROVE InodesCreated' /\ OneName'
  OBVIOUS
<1> USE LockAssumption DEF LockTypeOK, InodesCreated, OneName, LockFile, Inode, NoInode, GoTo
<1>1. ASSUME NEW p \in Proc, CallLock(p) PROVE InodesCreated' /\ OneName'
  BY <1>1 DEF CallLock
<1>2. ASSUME NEW p \in Proc, StatLockFile(p) PROVE InodesCreated' /\ OneName'
  BY <1>2 DEF StatLockFile
<1>3. ASSUME NEW p \in Proc, OpenProbe(p) PROVE InodesCreated' /\ OneName'
  BY <1>3 DEF OpenProbe
<1>4. ASSUME NEW p \in Proc, Probe(p) PROVE InodesCreated' /\ OneName'
  BY <1>4 DEF Probe
<1>5. ASSUME NEW p \in Proc, ReleaseProbe(p) PROVE InodesCreated' /\ OneName'
  BY <1>5 DEF ReleaseProbe
<1>6. ASSUME NEW p \in Proc, RemoveObsolete(p) PROVE InodesCreated' /\ OneName'
  BY <1>6 DEF RemoveObsolete, Bind
<1>7. ASSUME NEW p \in Proc, CreateLockFile(p) PROVE InodesCreated' /\ OneName'
  <2>1. created \in Nat /\ created' \in Nat /\ created <= created'
    BY <1>7 DEF CreateLockFile
  <2>2. \A n \in Name : dirent'[n] = dirent[n] \/ (n = name[p] /\ dirent'[n] = created + 1 /\ created' = created + 1)
    BY <1>7 DEF CreateLockFile, Bind
  <2>3. \A q \in Proc : opened[q] \in Nat /\ p_lock[q] \in Nat
    OBVIOUS
  <2>6. \A n \in Name : dirent[n] \in Nat
    OBVIOUS
  <2>7. opened' = opened /\ p_lock' = p_lock
    BY <1>7 DEF CreateLockFile
  <2>8. \A n \in Name : dirent'[n] <= created'
    BY <2>1, <2>2, <2>6
  <2>9. \A q \in Proc : opened'[q] <= created' /\ p_lock'[q] <= created'
    BY <2>1, <2>3, <2>7
  <2>4. \A n \in Name : dirent[n] # created + 1
    BY <2>1
  <2>5. OneName'
    BY <2>2, <2>4
  <2> QED BY <2>5, <2>8, <2>9
<1>8. ASSUME NEW p \in Proc, OpenLockFile(p) PROVE InodesCreated' /\ OneName'
  BY <1>8 DEF OpenLockFile
<1>9. ASSUME NEW p \in Proc, TryLock(p) PROVE InodesCreated' /\ OneName'
  BY <1>9 DEF TryLock
<1>10. ASSUME NEW p \in Proc, CallUnlock(p) PROVE InodesCreated' /\ OneName'
  BY <1>10 DEF CallUnlock, DropOn
<1>11. ASSUME NEW p \in Proc, UnlinkLockFile(p) PROVE InodesCreated' /\ OneName'
  BY <1>11 DEF UnlinkLockFile, Bind
<1>12. ASSUME NEW p \in Proc, RenameFile(p) PROVE InodesCreated' /\ OneName'
  BY <1>12 DEF RenameFile
<1>13. ASSUME NEW p \in Proc, QueryLock(p) PROVE InodesCreated' /\ OneName'
  BY <1>13 DEF QueryLock, DropOn
<1>14. ASSUME NEW p \in Proc, CrashProc(p) PROVE InodesCreated' /\ OneName'
  BY <1>14 DEF CrashProc, Drop
<1>15. ASSUME NEW p \in Proc, Restart(p) PROVE InodesCreated' /\ OneName'
  BY <1>15 DEF Restart
<1>16. CASE UNCHANGED lockState
  BY <1>16 DEF lockState
<1> QED
  BY <1>1, <1>2, <1>3, <1>4, <1>5, <1>6, <1>7, <1>8, <1>9, <1>10, <1>11, <1>12, <1>13, <1>14, <1>15, <1>16 DEF LockNext, LockStep

\* Every step keeps: an fcntl lock is that of a p_lock or of a probe.
LEMMA NextOwner == LockTypeOK /\ InodesCreated /\ FcntlHasOwner /\ [LockNext]_lockState => FcntlHasOwner'
<1> SUFFICES ASSUME LockTypeOK, InodesCreated, FcntlHasOwner, [LockNext]_lockState PROVE FcntlHasOwner'
  OBVIOUS
<1> USE LockAssumption DEF LockTypeOK, InodesCreated, FcntlHasOwner, GoTo, LockFile, Inode, NoInode, LockPC, ProcPC
<1>1. ASSUME NEW p \in Proc, CallLock(p) PROVE FcntlHasOwner'
  BY <1>1 DEF CallLock
<1>2. ASSUME NEW p \in Proc, StatLockFile(p) PROVE FcntlHasOwner'
  BY <1>2 DEF StatLockFile
<1>3. ASSUME NEW p \in Proc, OpenProbe(p) PROVE FcntlHasOwner'
  BY <1>3 DEF OpenProbe
<1>4. ASSUME NEW p \in Proc, Probe(p) PROVE FcntlHasOwner'
  BY <1>4 DEF Probe
<1>5. ASSUME NEW p \in Proc, ReleaseProbe(p) PROVE FcntlHasOwner'
  BY <1>5 DEF ReleaseProbe
<1>6. ASSUME NEW p \in Proc, RemoveObsolete(p) PROVE FcntlHasOwner'
  BY <1>6 DEF RemoveObsolete, Bind
<1>7. ASSUME NEW p \in Proc, CreateLockFile(p) PROVE FcntlHasOwner'
  BY <1>7 DEF CreateLockFile, Bind
<1>8. ASSUME NEW p \in Proc, OpenLockFile(p) PROVE FcntlHasOwner'
  BY <1>8 DEF OpenLockFile
<1>9. ASSUME NEW p \in Proc, TryLock(p) PROVE FcntlHasOwner'
  BY <1>9 DEF TryLock
<1>10. ASSUME NEW p \in Proc, CallUnlock(p) PROVE FcntlHasOwner'
  BY <1>10 DEF CallUnlock, DropOn
<1>11. ASSUME NEW p \in Proc, UnlinkLockFile(p) PROVE FcntlHasOwner'
  BY <1>11 DEF UnlinkLockFile, Bind
<1>12. ASSUME NEW p \in Proc, RenameFile(p) PROVE FcntlHasOwner'
  BY <1>12 DEF RenameFile
<1>13. ASSUME NEW p \in Proc, QueryLock(p) PROVE FcntlHasOwner'
  <2>1. \A i \in Inode : fcntl'[i] = fcntl[i] \/ fcntl'[i] = Nobody
    BY <1>13 DEF QueryLock, DropOn
  <2>2. opened' = opened /\ p_lock' = p_lock /\ lockPc' = lockPc
    BY <1>13 DEF QueryLock
  <2> QED BY <2>1, <2>2
<1>14. ASSUME NEW p \in Proc, CrashProc(p) PROVE FcntlHasOwner'
  BY <1>14 DEF CrashProc, Drop
<1>15. ASSUME NEW p \in Proc, Restart(p) PROVE FcntlHasOwner'
  BY <1>15 DEF Restart
<1>16. CASE UNCHANGED lockState
  BY <1>16 DEF lockState
<1> QED
  BY <1>1, <1>2, <1>3, <1>4, <1>5, <1>6, <1>7, <1>8, <1>9, <1>10, <1>11, <1>12, <1>13, <1>14, <1>15, <1>16 DEF LockNext, LockStep

\* Without overlap no call starts while another one is under way.
LEMMA NextCall == LockTypeOK /\ OneCall /\ [LockNext]_lockState => OneCall'
<1> SUFFICES ASSUME LockTypeOK, OneCall, [LockNext]_lockState PROVE OneCall'
  OBVIOUS
<1> USE LockAssumption DEF LockTypeOK, OneCall, GoTo, Serial, Scheduled, InCall, LockPC, UnlockPC, ProcPC
<1>1. ASSUME NEW p \in Proc, CallLock(p) PROVE OneCall'
  BY <1>1 DEF CallLock
<1>2. ASSUME NEW p \in Proc, StatLockFile(p) PROVE OneCall'
  BY <1>2 DEF StatLockFile
<1>3. ASSUME NEW p \in Proc, OpenProbe(p) PROVE OneCall'
  BY <1>3 DEF OpenProbe
<1>4. ASSUME NEW p \in Proc, Probe(p) PROVE OneCall'
  BY <1>4 DEF Probe
<1>5. ASSUME NEW p \in Proc, ReleaseProbe(p) PROVE OneCall'
  BY <1>5 DEF ReleaseProbe
<1>6. ASSUME NEW p \in Proc, RemoveObsolete(p) PROVE OneCall'
  BY <1>6 DEF RemoveObsolete, Bind
<1>7. ASSUME NEW p \in Proc, CreateLockFile(p) PROVE OneCall'
  BY <1>7 DEF CreateLockFile, Bind
<1>8. ASSUME NEW p \in Proc, OpenLockFile(p) PROVE OneCall'
  BY <1>8 DEF OpenLockFile
<1>9. ASSUME NEW p \in Proc, TryLock(p) PROVE OneCall'
  BY <1>9 DEF TryLock
<1>10. ASSUME NEW p \in Proc, CallUnlock(p) PROVE OneCall'
  BY <1>10 DEF CallUnlock, DropOn
<1>11. ASSUME NEW p \in Proc, UnlinkLockFile(p) PROVE OneCall'
  BY <1>11 DEF UnlinkLockFile, Bind
<1>12. ASSUME NEW p \in Proc, RenameFile(p) PROVE OneCall'
  BY <1>12 DEF RenameFile
<1>13. ASSUME NEW p \in Proc, QueryLock(p) PROVE OneCall'
  BY <1>13 DEF QueryLock, DropOn
<1>14. ASSUME NEW p \in Proc, CrashProc(p) PROVE OneCall'
  BY <1>14 DEF CrashProc, Drop
<1>15. ASSUME NEW p \in Proc, Restart(p) PROVE OneCall'
  BY <1>15 DEF Restart
<1>16. CASE UNCHANGED lockState
  BY <1>16 DEF lockState
<1> QED
  BY <1>1, <1>2, <1>3, <1>4, <1>5, <1>6, <1>7, <1>8, <1>9, <1>10, <1>11, <1>12, <1>13, <1>14, <1>15, <1>16 DEF LockNext, LockStep

\* Every step of a call keeps what the call has seen, when no other step
\* of a call comes between.
LEMMA NextKnows == LockTypeOK /\ InodesCreated /\ OneName /\ FcntlHasOwner /\ OneCall /\ CallKnows /\ [LockNext]_lockState => CallKnows'
<1> SUFFICES ASSUME LockTypeOK, InodesCreated, OneName, FcntlHasOwner, OneCall, CallKnows, [LockNext]_lockState PROVE CallKnows'
  OBVIOUS
<1> USE LockAssumption DEF LockTypeOK, InodesCreated, OneName, FcntlHasOwner, OneCall, CallKnows, OnLockFile, GoTo, Serial, Scheduled, InCall, LockFile, Inode, NoInode, LockPC, UnlockPC, ProcPC
<1>1. ASSUME NEW p \in Proc, CallLock(p) PROVE CallKnows'
  BY <1>1 DEF CallLock
<1>2. ASSUME NEW p \in Proc, StatLockFile(p) PROVE CallKnows'
  BY <1>2 DEF StatLockFile
<1>3. ASSUME NEW p \in Proc, OpenProbe(p) PROVE CallKnows'
  BY <1>3 DEF OpenProbe
<1>4. ASSUME NEW p \in Proc, Probe(p) PROVE CallKnows'
  BY <1>4 DEF Probe
<1>5. ASSUME NEW p \in Proc, ReleaseProbe(p) PROVE CallKnows'
  BY <1>5 DEF ReleaseProbe
<1>6. ASSUME NEW p \in Proc, RemoveObsolete(p) PROVE CallKnows'
  BY <1>6 DEF RemoveObsolete, Bind
<1>7. ASSUME NEW p \in Proc, CreateLockFile(p) PROVE CallKnows'
  BY <1>7 DEF CreateLockFile, Bind
<1>8. ASSUME NEW p \in Proc, OpenLockFile(p) PROVE CallKnows'
  BY <1>8 DEF OpenLockFile
<1>9. ASSUME NEW p \in Proc, TryLock(p) PROVE CallKnows'
  BY <1>9 DEF TryLock
<1>10. ASSUME NEW p \in Proc, CallUnlock(p) PROVE CallKnows'
  BY <1>10 DEF CallUnlock, DropOn
<1>11. ASSUME NEW p \in Proc, UnlinkLockFile(p) PROVE CallKnows'
  BY <1>11 DEF UnlinkLockFile, Bind
<1>12. ASSUME NEW p \in Proc, RenameFile(p) PROVE CallKnows'
  BY <1>12 DEF RenameFile
<1>13. ASSUME NEW p \in Proc, QueryLock(p) PROVE CallKnows'
  BY <1>13 DEF QueryLock, DropOn
<1>14. ASSUME NEW p \in Proc, CrashProc(p) PROVE CallKnows'
  BY <1>14 DEF CrashProc, Drop
<1>15. ASSUME NEW p \in Proc, Restart(p) PROVE CallKnows'
  BY <1>15 DEF Restart
<1>16. CASE UNCHANGED lockState
  BY <1>16 DEF lockState
<1> QED
  BY <1>1, <1>2, <1>3, <1>4, <1>5, <1>6, <1>7, <1>8, <1>9, <1>10, <1>11, <1>12, <1>13, <1>14, <1>15, <1>16 DEF LockNext, LockStep

\* A lock file that is created is none that somebody has open.
LEMMA FreshInode ==
  ASSUME LockTypeOK, InodesCreated, NEW q \in Proc
  PROVE  p_lock[q] # created + 1
<1>1. created \in Nat /\ p_lock[q] \in Nat /\ p_lock[q] <= created
  BY LockAssumption DEF LockTypeOK, InodesCreated, Inode, NoInode
<1> QED BY <1>1

\* Every step keeps the name of the lock file of a holder.
LEMMA NextUnderName == LockTypeOK /\ InodesCreated /\ OneName /\ CallKnows /\ HeldUnderName /\ [LockNext]_lockState => HeldUnderName'
<1> SUFFICES ASSUME LockTypeOK, InodesCreated, OneName, CallKnows, HeldUnderName, [LockNext]_lockState PROVE HeldUnderName'
  OBVIOUS
<1> USE LockAssumption DEF LockTypeOK, InodesCreated, OneName, CallKnows, HeldUnderName, GoTo, Serial, LockFile, Inode, NoInode
<1>1. ASSUME NEW p \in Proc, CallLock(p) PROVE HeldUnderName'
  BY <1>1 DEF CallLock
<1>2. ASSUME NEW p \in Proc, StatLockFile(p) PROVE HeldUnderName'
  BY <1>2 DEF StatLockFile
<1>3. ASSUME NEW p \in Proc, OpenProbe(p) PROVE HeldUnderName'
  BY <1>3 DEF OpenProbe
<1>4. ASSUME NEW p \in Proc, Probe(p) PROVE HeldUnderName'
  BY <1>4 DEF Probe
<1>5. ASSUME NEW p \in Proc, ReleaseProbe(p) PROVE HeldUnderName'
  BY <1>5 DEF ReleaseProbe
<1>6. ASSUME NEW p \in Proc, RemoveObsolete(p) PROVE HeldUnderName'
  BY <1>6 DEF RemoveObsolete, Bind
<1>7. ASSUME NEW p \in Proc, CreateLockFile(p) PROVE HeldUnderName'
  <2>0. lockCareless' = lockCareless
    BY <1>7 DEF CreateLockFile
  <2> SUFFICES ASSUME Serial, "renameLocked" \notin lockCareless, NEW q \in Proc, NEW n \in Name,
                      p_lock'[q] # NoInode, dirent'[n] = p_lock'[q]
               PROVE  n = name'[q]
    BY <2>0 DEF HeldUnderName
  <2>1. p_lock' = p_lock /\ name' = name /\ lockCareless' = lockCareless
    BY <1>7 DEF CreateLockFile
  <2>2. dirent'[n] = dirent[n] \/ (dirent'[n] = created + 1 /\ created < MaxInode)
    BY <1>7, <2>1 DEF CreateLockFile, Bind
  <2>4. p_lock[q] # created + 1
    BY FreshInode
  <2>5. dirent[n] = p_lock[q] /\ p_lock[q] # NoInode
    BY <2>1, <2>2, <2>4
  <2> QED BY <2>1, <2>5
<1>8. ASSUME NEW p \in Proc, OpenLockFile(p) PROVE HeldUnderName'
  BY <1>8 DEF OpenLockFile
<1>9. ASSUME NEW p \in Proc, TryLock(p) PROVE HeldUnderName'
  <2>0. lockCareless' = lockCareless
    BY <1>9 DEF TryLock
  <2> SUFFICES ASSUME Serial, "renameLocked" \notin lockCareless, NEW q \in Proc, NEW n \in Name,
                      p_lock'[q] # NoInode, dirent'[n] = p_lock'[q]
               PROVE  n = name'[q]
    BY <2>0 DEF HeldUnderName
  <2>1. name' = name /\ dirent' = dirent /\ lockCareless' = lockCareless
    BY <1>9 DEF TryLock
  <2>2. CASE p_lock'[q] = p_lock[q]
    BY <2>1, <2>2
  <2>3. CASE p_lock'[q] # p_lock[q]
    <3>1. q = p /\ p_lock'[q] = opened[p] /\ lockPc[p] = "trylock"
      BY <1>9, <2>3 DEF TryLock
    <3>2. opened[p] = LockFile(p)
      BY <2>1, <3>1 DEF OnLockFile
    <3> QED BY <2>1, <3>1, <3>2
  <2> QED BY <2>2, <2>3
<1>10. ASSUME NEW p \in Proc, CallUnlock(p) PROVE HeldUnderName'
  BY <1>10 DEF CallUnlock, DropOn
<1>11. ASSUME NEW p \in Proc, UnlinkLockFile(p) PROVE HeldUnderName'
  BY <1>11 DEF UnlinkLockFile, Bind
<1>12. ASSUME NEW p \in Proc, RenameFile(p) PROVE HeldUnderName'
  <2>0. lockCareless' = lockCareless
    BY <1>12 DEF RenameFile
  <2> SUFFICES ASSUME Serial, "renameLocked" \notin lockCareless, NEW q \in Proc, NEW n \in Name,
                      p_lock'[q] # NoInode, dirent'[n] = p_lock'[q]
               PROVE  n = name'[q]
    BY <2>0 DEF HeldUnderName
  <2>1. p_lock' = p_lock /\ dirent' = dirent /\ lockCareless' = lockCareless
    BY <1>12 DEF RenameFile
  <2>2. q # p /\ name'[q] = name[q]
    BY <1>12, <2>1 DEF RenameFile
  <2> QED BY <2>1, <2>2
<1>13. ASSUME NEW p \in Proc, QueryLock(p) PROVE HeldUnderName'
  BY <1>13 DEF QueryLock, DropOn
<1>14. ASSUME NEW p \in Proc, CrashProc(p) PROVE HeldUnderName'
  BY <1>14 DEF CrashProc, Drop
<1>15. ASSUME NEW p \in Proc, Restart(p) PROVE HeldUnderName'
  BY <1>15 DEF Restart
<1>16. CASE UNCHANGED lockState
  BY <1>16 DEF lockState
<1> QED
  BY <1>1, <1>2, <1>3, <1>4, <1>5, <1>6, <1>7, <1>8, <1>9, <1>10, <1>11, <1>12, <1>13, <1>14, <1>15, <1>16 DEF LockNext, LockStep

\* What an exclusive lock rests on: its holder has the lock file and the fcntl
\* lock on it, and who is about to unlink the file is the last one that had it.
Has(p) == LockFile(p) = p_lock[p] /\ fcntl[p_lock[p]] = p
Keeps == \A p \in Proc : Holds(p) => Has(p)
Last == \A p, q \in Proc : lockPc[p] = "unlink" /\ Holds(q) => name[q] # name[p]

\* A step of another process, or one that moves no lock, leaves a holder's lock alone.
LEMMA HoldersUndisturbed ==
  ASSUME Keeps, Last, p_lock' = p_lock, name' = name,
         \A q \in Proc : Holds(q) => dirent'[name[q]] = dirent[name[q]] /\ fcntl'[p_lock[q]] = fcntl[p_lock[q]],
         \A q \in Proc : lockPc'[q] = "unlink" => lockPc[q] = "unlink"
  PROVE  Keeps' /\ Last'
<1>1. Keeps'
  BY DEF Keeps, Has, Holds, LockFile
<1>2. Last'
  BY DEF Last, Holds
<1> QED BY <1>1, <1>2

\* Every step keeps the lock file of a holder, and no holder loses it to a
\* process that unlinks.
LEMMA NextHolder == LockInv /\ [LockNext]_lockState => UnlinkIsLast' /\ HolderKeepsLockFile'
<1> SUFFICES ASSUME LockInv, [LockNext]_lockState, Without({"overlap", "queryOwn", "renameLocked"})'
             PROVE  Keeps' /\ Last'
  BY DEF UnlinkIsLast, HolderKeepsLockFile, Keeps, Has, Last
<1>c. lockCareless' = lockCareless
  BY DEF LockNext, LockStep, lockState, CallLock, StatLockFile, OpenProbe, Probe, ReleaseProbe,
         RemoveObsolete, CreateLockFile, OpenLockFile, TryLock, CallUnlock, UnlinkLockFile,
         RenameFile, QueryLock, CrashProc, Restart
<1>a. "overlap" \notin lockCareless /\ "queryOwn" \notin lockCareless /\ "renameLocked" \notin lockCareless
  BY <1>c DEF Without
<1>b. Keeps /\ Last
  BY <1>c DEF Without, LockInv, UnlinkIsLast, HolderKeepsLockFile, Keeps, Has, Last
<1>t. /\ dirent \in [Name -> Inode \cup {NoInode}] /\ lockPc \in [Proc -> ProcPC] /\ name \in [Proc -> Name]
      /\ fcntl \in [Inode -> Proc \cup {Nobody}] /\ p_lock \in [Proc -> Inode \cup {NoInode}]
      /\ opened \in [Proc -> Inode \cup {NoInode}] /\ Nobody \notin Proc
  BY LockAssumption DEF LockInv, LockTypeOK
<1>k. CallKnows /\ OneName /\ OneCall /\ FcntlHasOwner
  BY DEF LockInv
<1>1. ASSUME NEW p \in Proc, CallLock(p) PROVE Keeps' /\ Last'
  <2>1. \A q \in Proc : lockPc'[q] = "unlink" => lockPc[q] = "unlink"
    BY <1>1, <1>t DEF CallLock, GoTo
  <2> QED BY <1>1, <1>b, <2>1, HoldersUndisturbed DEF CallLock
<1>2. ASSUME NEW p \in Proc, StatLockFile(p) PROVE Keeps' /\ Last'
  <2>1. \A q \in Proc : lockPc'[q] = "unlink" => lockPc[q] = "unlink"
    BY <1>2, <1>t DEF StatLockFile, GoTo
  <2> QED BY <1>2, <1>b, <2>1, HoldersUndisturbed DEF StatLockFile
<1>3. ASSUME NEW p \in Proc, OpenProbe(p) PROVE Keeps' /\ Last'
  <2>1. \A q \in Proc : lockPc'[q] = "unlink" => lockPc[q] = "unlink"
    BY <1>3, <1>t DEF OpenProbe, GoTo
  <2> QED BY <1>3, <1>b, <2>1, HoldersUndisturbed DEF OpenProbe
<1>4. ASSUME NEW p \in Proc, Probe(p) PROVE Keeps' /\ Last'
  <2>1. \A q \in Proc : lockPc'[q] = "unlink" => lockPc[q] = "unlink"
    BY <1>4, <1>t DEF Probe, GoTo
  <2>2. \A q \in Proc : Holds(q) => fcntl[p_lock[q]] # Nobody
    BY <1>b, <1>t DEF Keeps, Has
  <2>4. fcntl' = fcntl \/ (fcntl[opened[p]] = Nobody /\ fcntl' = [fcntl EXCEPT ![opened[p]] = p])
    BY <1>4 DEF Probe
  <2>3. \A q \in Proc : Holds(q) => fcntl'[p_lock[q]] = fcntl[p_lock[q]]
    BY <2>2, <2>4, <1>t DEF Holds
  <2> QED BY <1>4, <1>b, <2>1, <2>3, HoldersUndisturbed DEF Probe
<1>5. ASSUME NEW p \in Proc, ReleaseProbe(p) PROVE Keeps' /\ Last'
  <2>1. \A q \in Proc : lockPc'[q] = "unlink" => lockPc[q] = "unlink"
    BY <1>5, <1>t DEF ReleaseProbe, GoTo
  <2>2. p_lock[p] = NoInode
    BY <1>5 DEF ReleaseProbe, LockInv, LockTypeOK, LockPC
  <2>3. fcntl[opened[p]] = p
    BY <1>5, <1>k, <1>a DEF ReleaseProbe, CallKnows, OnLockFile, Serial
  <2>4. \A q \in Proc : Holds(q) => p_lock[q] # opened[p]
    BY <1>b, <2>2, <2>3 DEF Keeps, Has, Holds
  <2>5. \A q \in Proc : Holds(q) => fcntl'[p_lock[q]] = fcntl[p_lock[q]]
    BY <1>5, <2>4, <1>t DEF ReleaseProbe, Holds
  <2> QED BY <1>5, <1>b, <2>1, <2>5, HoldersUndisturbed DEF ReleaseProbe
<1>6. ASSUME NEW p \in Proc, RemoveObsolete(p) PROVE Keeps' /\ Last'
  <2>1. \A q \in Proc : lockPc'[q] = "unlink" => lockPc[q] = "unlink"
    BY <1>6, <1>t DEF RemoveObsolete, GoTo
  <2>2. fcntl[LockFile(p)] = Nobody
    BY <1>6, <1>k, <1>a DEF RemoveObsolete, CallKnows, OnLockFile, Serial
  <2>3. \A q \in Proc : Holds(q) => name[q] # name[p]
    <3> SUFFICES ASSUME NEW q \in Proc, Holds(q), name[q] = name[p] PROVE FALSE
      OBVIOUS
    <3>1. LockFile(p) = p_lock[q] /\ fcntl[p_lock[q]] = q
      BY <1>b DEF Keeps, Has, LockFile
    <3> QED BY <3>1, <2>2, <1>t
  <2>4. \A q \in Proc : Holds(q) => dirent'[name[q]] = dirent[name[q]]
    BY <1>6, <2>3, <1>t DEF RemoveObsolete, Bind
  <2> QED BY <1>6, <1>b, <2>1, <2>4, HoldersUndisturbed DEF RemoveObsolete
<1>7. ASSUME NEW p \in Proc, CreateLockFile(p) PROVE Keeps' /\ Last'
  <2>1. \A q \in Proc : lockPc'[q] = "unlink" => lockPc[q] = "unlink"
    BY <1>7, <1>t DEF CreateLockFile, GoTo
  <2>2. LockFile(p) = NoInode
    BY <1>7, <1>k, <1>a DEF CreateLockFile, CallKnows, Serial
  <2>3. \A q \in Proc : Holds(q) => name[q] # name[p]
    BY <1>b, <2>2 DEF Keeps, Has, LockFile, Holds
  <2>4. \A q \in Proc : Holds(q) => dirent'[name[q]] = dirent[name[q]]
    BY <1>7, <2>3, <1>t DEF CreateLockFile, Bind
  <2> QED BY <1>7, <1>b, <2>1, <2>4, HoldersUndisturbed DEF CreateLockFile
<1>8. ASSUME NEW p \in Proc, OpenLockFile(p) PROVE Keeps' /\ Last'
  <2>1. \A q \in Proc : lockPc'[q] = "unlink" => lockPc[q] = "unlink"
    BY <1>8, <1>t DEF OpenLockFile, GoTo
  <2> QED BY <1>8, <1>b, <2>1, HoldersUndisturbed DEF OpenLockFile
<1>9. ASSUME NEW p \in Proc, TryLock(p) PROVE Keeps' /\ Last'
  <2>1. \A q \in Proc : lockPc'[q] = "unlink" => lockPc[q] = "unlink" /\ q # p
    BY <1>9, <1>t DEF TryLock, GoTo
  <2>2. opened[p] = LockFile(p) /\ opened[p] # NoInode /\ fcntl[opened[p]] = Nobody
    BY <1>9, <1>k, <1>a DEF TryLock, CallKnows, OnLockFile, Serial
  <2>3. opened[p] \in Inode
    BY <2>2, <1>t
  <2>4. fcntl' = [fcntl EXCEPT ![opened[p]] = p] /\ p_lock' = [p_lock EXCEPT ![p] = opened[p]]
        /\ dirent' = dirent /\ name' = name
    BY <1>9, <2>2 DEF TryLock
  <2>5. Keeps'
    <3> SUFFICES ASSUME NEW q \in Proc, Holds(q)' PROVE Has(q)'
      BY DEF Keeps
    <3>1. CASE q = p
      BY <3>1, <2>2, <2>3, <2>4, <1>t DEF Has, LockFile
    <3>2. CASE q # p
      <4>1. p_lock'[q] = p_lock[q] /\ Holds(q)
        BY <3>2, <2>4, <1>t DEF Holds
      <4>2. Has(q)
        BY <4>1, <1>b DEF Keeps
      <4>3. p_lock[q] # opened[p]
        BY <4>2, <2>2, <1>t DEF Has
      <4>4. fcntl'[p_lock[q]] = fcntl[p_lock[q]]
        BY <4>1, <4>3, <2>4, <1>t DEF Holds
      <4> QED BY <4>1, <4>2, <4>4, <2>4 DEF Has, LockFile
    <3> QED BY <3>1, <3>2
  <2>6. \A q \in Proc : lockPc[q] # "unlink"
    BY <1>9, <1>k, <1>a DEF OneCall, InCall, Serial, TryLock, LockPC, UnlockPC
  <2> QED BY <2>1, <2>5, <2>6 DEF Last
<1>10. ASSUME NEW p \in Proc, CallUnlock(p) PROVE Keeps' /\ Last'
  <2>1. p_lock' = [p_lock EXCEPT ![p] = NoInode] /\ dirent' = dirent /\ name' = name
    BY <1>10 DEF CallUnlock
  <2>2. \A q \in Proc : Holds(q)' => q # p /\ p_lock'[q] = p_lock[q] /\ Holds(q)
    BY <2>1, <1>t DEF Holds
  <2>3. \A q \in Proc : q # p /\ Holds(q) /\ fcntl[p_lock[q]] = q => fcntl'[p_lock[q]] = q
    <3>1. p_lock[p] \in Inode
      BY <1>10, <1>t DEF CallUnlock
    <3>2. fcntl'[p_lock[p]] = IF fcntl[p_lock[p]] = p THEN Nobody ELSE fcntl[p_lock[p]]
      BY <1>10, <3>1, <1>t DEF CallUnlock, DropOn
    <3>3. \A i \in Inode : i # p_lock[p] => fcntl'[i] = fcntl[i]
      BY <1>10, <1>t DEF CallUnlock, DropOn
    <3> QED BY <3>1, <3>2, <3>3, <1>t DEF Holds
  <2>4. Keeps'
    BY <2>1, <2>2, <2>3, <1>b DEF Keeps, Has, LockFile
  <2>5. \A q \in Proc : Holds(q) /\ name[q] = name[p] => q = p
    <3> SUFFICES ASSUME NEW q \in Proc, Holds(q), name[q] = name[p] PROVE q = p
      OBVIOUS
    <3>1. Has(p) /\ Has(q)
      BY <1>10, <1>b DEF CallUnlock, Keeps, Holds
    <3> QED BY <3>1 DEF Has, LockFile
  <2>6. \A q \in Proc : lockPc'[q] = "unlink" => q = p \/ lockPc[q] = "unlink"
    BY <1>10, <1>t DEF CallUnlock, GoTo
  <2>7. Last'
    BY <2>1, <2>2, <2>5, <2>6, <1>b DEF Last
  <2> QED BY <2>4, <2>7
<1>11. ASSUME NEW p \in Proc, UnlinkLockFile(p) PROVE Keeps' /\ Last'
  <2>1. \A q \in Proc : lockPc'[q] = "unlink" => lockPc[q] = "unlink"
    BY <1>11, <1>t DEF UnlinkLockFile, GoTo
  <2>2. \A q \in Proc : Holds(q) => name[q] # name[p]
    BY <1>11, <1>b DEF UnlinkLockFile, Last
  <2>3. \A q \in Proc : Holds(q) => dirent'[name[q]] = dirent[name[q]]
    BY <1>11, <2>2, <1>t DEF UnlinkLockFile, Bind
  <2> QED BY <1>11, <1>b, <2>1, <2>3, HoldersUndisturbed DEF UnlinkLockFile
<1>12. ASSUME NEW p \in Proc, RenameFile(p) PROVE Keeps' /\ Last'
  <2>1. p_lock[p] = NoInode /\ p_lock' = p_lock /\ dirent' = dirent /\ fcntl' = fcntl /\ lockPc' = lockPc
    BY <1>12, <1>a DEF RenameFile
  <2>2. \A q \in Proc : q # p => name'[q] = name[q]
    <3>1. PICK n \in Name : name' = [name EXCEPT ![p] = n]
      BY <1>12 DEF RenameFile
    <3> QED BY <3>1, <1>t
  <2>3. \A q \in Proc : lockPc[q] # "unlink"
    BY <1>12, <1>a DEF RenameFile, Scheduled, InCall, LockPC, UnlockPC
  <2>4. Keeps'
    BY <2>1, <2>2, <1>b DEF Keeps, Has, LockFile, Holds
  <2> QED BY <2>1, <2>3, <2>4 DEF Last
<1>13. ASSUME NEW p \in Proc, QueryLock(p) PROVE Keeps' /\ Last'
  BY <1>13, <1>a DEF QueryLock
<1>14. ASSUME NEW p \in Proc, CrashProc(p) PROVE Keeps' /\ Last'
  <2>1. p_lock' = [p_lock EXCEPT ![p] = NoInode] /\ dirent' = dirent /\ name' = name
    BY <1>14 DEF CrashProc
  <2>2. \A q \in Proc : Holds(q)' => q # p /\ p_lock'[q] = p_lock[q] /\ Holds(q)
    BY <2>1, <1>t DEF Holds
  <2>3. \A q \in Proc : q # p /\ Holds(q) /\ fcntl[p_lock[q]] = q => fcntl'[p_lock[q]] = q
    BY <1>14, <1>t DEF CrashProc, Drop, Holds
  <2>4. Keeps'
    BY <2>1, <2>2, <2>3, <1>b DEF Keeps, Has, LockFile
  <2>5. \A q \in Proc : lockPc'[q] = "unlink" => lockPc[q] = "unlink"
    BY <1>14, <1>t DEF CrashProc, GoTo
  <2>6. Last'
    BY <2>1, <2>2, <2>5, <1>b DEF Last
  <2> QED BY <2>4, <2>6
<1>15. ASSUME NEW p \in Proc, Restart(p) PROVE Keeps' /\ Last'
  <2>1. \A q \in Proc : lockPc'[q] = "unlink" => lockPc[q] = "unlink"
    BY <1>15, <1>t DEF Restart, GoTo
  <2> QED BY <1>15, <1>b, <2>1, HoldersUndisturbed DEF Restart
<1>16. CASE UNCHANGED lockState
  BY <1>16, <1>b DEF lockState, Keeps, Has, Last, Holds, LockFile
<1> QED
  BY <1>1, <1>2, <1>3, <1>4, <1>5, <1>6, <1>7, <1>8, <1>9, <1>10, <1>11, <1>12, <1>13, <1>14,
     <1>15, <1>16 DEF LockNext, LockStep

-----------------------------------------------------------------------------
(* The theorems *)

\* Every reachable state satisfies the inductive invariant.
THEOREM LockInvariant == LockSpec => []LockInv
<1>1. LockInv /\ [LockNext]_lockState => LockInv'
  BY NextType, NextInodes, NextOwner, NextCall, NextKnows, NextUnderName, NextHolder DEF LockInv
<1> QED BY InitLock, <1>1, PTL DEF LockSpec

\* Every variable of the lock keeps its type, and a process in lock() has none yet.
THEOREM LockTypeCorrect == LockSpec => []LockTypeOK
<1>1. LockInv => LockTypeOK
  BY DEF LockInv
<1> QED BY LockInvariant, <1>1, PTL

\* The lock file others look for is there while a process has the lock, and its
\* fcntl lock is that process's, however processes crash and start again.
THEOREM HolderKeepsFile == LockSpec => []HolderKeepsLockFile
<1>1. LockInv => HolderKeepsLockFile
  BY DEF LockInv
<1> QED BY LockInvariant, <1>1, PTL

\* No two processes have the lock of one file.
THEOREM LockIsExclusive == LockSpec => []Exclusive
<1>1. LockInv => Exclusive
  <2> SUFFICES ASSUME LockInv, Without({"overlap", "queryOwn", "renameLocked"}),
                      NEW p \in Proc, NEW q \in Proc, Holds(p), Holds(q), name[p] = name[q]
               PROVE  p = q
    BY DEF Exclusive
  <2>1. LockFile(p) = p_lock[p] /\ fcntl[p_lock[p]] = p
    BY DEF LockInv, HolderKeepsLockFile
  <2>2. LockFile(q) = p_lock[q] /\ fcntl[p_lock[q]] = q
    BY DEF LockInv, HolderKeepsLockFile
  <2> QED BY <2>1, <2>2 DEF LockFile
<1> QED BY LockInvariant, <1>1, PTL

\* A call of lock() that overlaps no other is refused only while another
\* process has the lock, whatever crashed before.
THEOREM RefusalIsJustified == LockSpec => RefusedOnlyWhenHeld
<1> DEFINE Refusal == Without({"overlap", "renameLocked"}) =>
         \A p \in Proc :
           lockPc[p] \in LockPC /\ lockPc'[p] = "idle" /\ ~Holds(p)'
             => \E q \in Proc \ {p} : Holds(q) /\ name[q] = name[p]
<1>1. LockInv /\ [LockNext]_lockState => Refusal
  <2> SUFFICES ASSUME LockInv, [LockNext]_lockState, Without({"overlap", "renameLocked"}), NEW p \in Proc,
                      lockPc[p] \in LockPC, lockPc'[p] = "idle", ~Holds(p)'
               PROVE  \E q \in Proc \ {p} : Holds(q) /\ name[q] = name[p]
    OBVIOUS
  <2>a. "overlap" \notin lockCareless /\ "renameLocked" \notin lockCareless
    BY DEF Without
  <2>t. /\ lockPc \in [Proc -> ProcPC] /\ opened \in [Proc -> Inode \cup {NoInode}] /\ name \in [Proc -> Name]
        /\ fcntl \in [Inode -> Proc \cup {Nobody}] /\ p_lock \in [Proc -> Inode \cup {NoInode}]
    BY DEF LockInv, LockTypeOK
  <2>1. OpenProbe(p) \/ Probe(p) \/ RemoveObsolete(p) \/ OpenLockFile(p) \/ TryLock(p)
    <3>1. lockPc' # lockPc
      BY DEF LockPC
    <3>2. PICK q \in Proc : LockStep(q) \/ CallLock(q) \/ CallUnlock(q) \/ UnlinkLockFile(q)
                              \/ CrashProc(q) \/ Restart(q)
      BY <3>1 DEF LockNext, lockState, RenameFile, QueryLock
    <3>3. q = p
      BY <3>2, <2>t DEF LockPC, GoTo, LockStep, StatLockFile, OpenProbe, Probe, ReleaseProbe,
           RemoveObsolete, CreateLockFile, OpenLockFile, TryLock, CallLock, CallUnlock, UnlinkLockFile,
           CrashProc, Restart
    <3> QED BY <3>2, <3>3, <2>t DEF LockPC, GoTo, LockStep, StatLockFile, ReleaseProbe, CreateLockFile,
           CallLock, CallUnlock, UnlinkLockFile, CrashProc, Restart
  <2>2. CASE OpenProbe(p)
    BY <2>2, <2>a, <2>t DEF OpenProbe, GoTo, LockInv, CallKnows, Serial
  <2>3. CASE Probe(p)
    <3>1. fcntl[opened[p]] # Nobody
      BY <2>3, <2>t DEF Probe, GoTo
    <3>2. opened[p] = LockFile(p) /\ LockFile(p) # NoInode
      BY <2>3, <2>a DEF Probe, LockInv, CallKnows, OnLockFile, Serial
    <3>3. opened[p] \in Inode
      BY <3>2, <2>t
    <3>4. PICK q \in Proc : fcntl[opened[p]] = q
      BY <3>1, <3>3, <2>t
    <3>5. \A r \in Proc : lockPc[r] = "release" => r = p
      BY <2>3, <2>a DEF LockInv, OneCall, InCall, Serial, Probe, LockPC
    <3>6. p_lock[q] = opened[p]
      BY <3>3, <3>4, <3>5, <2>3 DEF LockInv, FcntlHasOwner, Probe
    <3>7. p_lock[p] = NoInode
      BY DEF LockInv, LockTypeOK
    <3>8. name[q] = name[p]
      BY <3>2, <3>6, <2>a, <2>t DEF LockInv, HeldUnderName, Serial, LockFile
    <3> QED BY <3>2, <3>6, <3>7, <3>8 DEF Holds
  <2>4. CASE RemoveObsolete(p)
    BY <2>4, <2>a, <2>t DEF RemoveObsolete, GoTo, LockInv, CallKnows, OnLockFile, Serial
  <2>5. CASE OpenLockFile(p)
    BY <2>5, <2>a, <2>t DEF OpenLockFile, GoTo, LockInv, CallKnows, Serial
  <2>6. CASE TryLock(p)
    <3>1. fcntl[opened[p]] = Nobody /\ opened[p] # NoInode
      BY <2>6, <2>a DEF TryLock, LockInv, CallKnows, OnLockFile, Serial
    <3> QED BY <2>6, <3>1, <2>t DEF TryLock, Holds
  <2> QED BY <2>1, <2>2, <2>3, <2>4, <2>5, <2>6
<1> QED BY LockInvariant, <1>1, PTL DEF LockSpec, RefusedOnlyWhenHeld

-----------------------------------------------------------------------------
(* The session *)

\* The steps of a save before and after the data file is written.
BeforeWrite == {"saveTouch", "saveWrite", "saveRename"}
AfterWrite == {"saveUnlock", "saveFlags", "saveStat"}

\* An operation is about a file; it has another name to go back to only as long
\* as save_as_data may fail.
OneOperation ==
    /\ ~Idle => cur \in File
    /\ from # NoFile => pc \in BeforeWrite \cup AfterWrite /\ cur \in known /\ from \notin known

\* A lock is on the lock file of its own file, and nobody else has that one;
\* save_as_data is about a file that is neither locked nor active.
LocksInOrder ==
    /\ bare = {}
    /\ \A f \in File : lock[f] \in {NoFile, f} /\ (lock[f] # NoFile => f \notin other)
    /\ pc \in BeforeWrite => lock[cur] # NoFile
    /\ from # NoFile => cur # active
OwnLocks == Never({"saveAsLocked"}) => LocksInOrder

\* Without others and failures the active file and the files with changes are
\* locked, except for the one being saved or reloaded.
LockedOrSaving ==
    /\ other = {}
    /\ active # NoFile => lock[active] # NoFile
    /\ \A f \in updated : lock[f] # NoFile \/ (f = cur /\ pc \in {"saveFlags", "reloadRead", "reloadStat"})
    /\ pc = "reloadRead" => disk[cur] # Absent
ChangesLocked == Never({"others", "failures", "saveAsLocked"}) => LockedOrSaving

\* Only a file that is not there is created when it is saved.
TouchedIsAbsent ==
    /\ written >= 2
    /\ pc = "saveTouch" /\ ~({"saveAsLocked", "between"} \subseteq careless) => disk[cur] = Absent

\* What is known of a file, its content b and st_mtime s, is right or can be
\* seen to be outdated.
Fresh(f, b, s) ==
    /\ s <= mtime[f]
    /\ disk[f] # Absent /\ mtime[f] = s => disk[f] = b
FreshCur == Fresh(cur, base[cur], seen[cur])
FreshFiles ==
    /\ \A f \in known \ {cur} : Fresh(f, base[f], seen[f])
    /\ pc = "loadStat" => disk[cur] = base[cur] /\ disk[cur] # Absent /\ cur \in on_disk
    /\ pc = "reloadRead" => FreshCur
    /\ pc = "reloadStat" => seen[cur] <= mtime[cur] /\ disk[cur] = base[cur]
    /\ pc \in BeforeWrite /\ from = NoFile /\ cur \in known => FreshCur
    /\ pc \in BeforeWrite /\ from # NoFile => Fresh(from, base[cur], seen[cur])
    /\ pc \in {"saveRename"} \cup AfterWrite => cur \in on_disk
    /\ pc \in AfterWrite => disk[cur] = base[cur] /\ disk[cur] # Absent
    /\ Idle => cur = NoFile
KnownIsFresh == Never({"between", "sameSecond"}) => FreshFiles

\* The inductive invariant.
SessionInv ==
    /\ TypeOK /\ OneOperation /\ OwnLocks /\ ChangesLocked /\ TouchedIsAbsent /\ KnownIsFresh

-----------------------------------------------------------------------------
(* What the parts of the actions do *)

\* The effects of Write, Touch and UpdateStatus.
WriteDone(f) ==
    /\ written' = written + 1 /\ written' \in Version
    /\ disk' = [disk EXCEPT ![f] = written + 1] /\ disk' \in [File -> Version]
    /\ mtime' \in [File -> Nat] /\ mtime[f] <= mtime'[f]
    /\ \A g \in File \ {f} : mtime'[g] = mtime[g]
    /\ "sameSecond" \notin careless => mtime'[f] = mtime[f] + 1
TouchDone(f) ==
    /\ written' = written + 1 /\ written' \in Version
    /\ disk' = [disk EXCEPT ![f] = Empty] /\ disk' \in [File -> Version]
    /\ mtime' = [mtime EXCEPT ![f] = mtime[f] + 1] /\ mtime' \in [File -> Nat]
StatusDone(f) ==
    /\ seen' \in [File -> Nat]
    /\ f \in on_disk /\ disk[f] # Absent => seen'[f] = mtime[f]
    /\ seen'[f] \in {seen[f], mtime[f]}
    /\ \A g \in File \ {f} : seen'[g] = seen[g]

\* What a write, the creation of a file and a look at its status leave.
LEMMA FileEffect ==
  ASSUME TypeOK, NEW f \in File
  PROVE  /\ Write(f) => WriteDone(f)
         /\ Touch(f) => TouchDone(f)
         /\ UpdateStatus(f) => StatusDone(f)
<1>1. mtime \in [File -> Nat] /\ disk \in [File -> Version] /\ written \in 0 .. MaxVersion /\ seen \in [File -> Nat]
  BY DEF TypeOK, Version
<1>2. written < MaxVersion => written + 1 \in Version
  BY <1>1, SessionAssumption DEF Version
<1>3. Empty \in Version
  BY SessionAssumption DEF Empty, Version
<1>4. ASSUME Write(f) PROVE WriteDone(f)
  <2>1. PICK t \in {mtime[f], mtime[f] + 1} :
          ("sameSecond" \in careless \/ t # mtime[f]) /\ mtime' = [mtime EXCEPT ![f] = t]
    BY <1>4 DEF Write
  <2>2. /\ mtime' \in [File -> Nat] /\ mtime[f] <= mtime'[f] /\ (\A g \in File \ {f} : mtime'[g] = mtime[g])
        /\ ("sameSecond" \notin careless => mtime'[f] = mtime[f] + 1)
    <3>1. mtime' \in [File -> Nat] /\ mtime'[f] = t /\ t \in {mtime[f], mtime[f] + 1} /\ mtime[f] \in Nat
      BY <1>1, <2>1
    <3>2. \A g \in File \ {f} : mtime'[g] = mtime[g]
      BY <1>1, <2>1
    <3> QED BY <2>1, <3>1, <3>2
  <2>3. disk' = [disk EXCEPT ![f] = written + 1] /\ written' = written + 1 /\ written + 1 \in Version
    BY <1>2, <1>4 DEF Write
  <2>4. disk' \in [File -> Version]
    BY <1>1, <2>3
  <2> QED BY <2>2, <2>3, <2>4 DEF WriteDone
<1>5. ASSUME Touch(f) PROVE TouchDone(f)
  BY <1>1, <1>2, <1>3, <1>5 DEF Touch, TouchDone
<1>6. ASSUME UpdateStatus(f) PROVE StatusDone(f)
  BY <1>1, <1>6 DEF UpdateStatus, StatusDone
<1> QED BY <1>4, <1>5, <1>6

\* A change of the active file leaves locks, and locked files without lock.
LEMMA SwitchEffect ==
  ASSUME TypeOK, NEW f \in File, SwitchActive(f)
  PROVE  /\ lock' \in [File -> File \cup {NoFile, Lost}] /\ bare' \subseteq other
         /\ active' = IF CanLock(f) THEN f ELSE active
<1>1. \A S : Unlocked(S) \in [File -> File \cup {NoFile, Lost}] /\ Bared(S) \subseteq other
  BY DEF TypeOK, Unlocked, Bared
<1>2. \A l \in [File -> File \cup {NoFile, Lost}] : Locked(l, f) \in [File -> File \cup {NoFile, Lost}]
  BY DEF Locked
<1> QED BY <1>1, <1>2 DEF SwitchActive

\* It releases the lock of the old active file only when that has no changes,
\* and takes only a lock that nobody else has.
LEMMA SwitchOwn ==
  ASSUME TypeOK, NEW f \in File, SwitchActive(f), bare = {}, \A g \in File : lock[g] \in {NoFile, g}
  PROVE  /\ bare' = {}
         /\ \A g \in File :
              /\ lock'[g] \in {NoFile, g}
              /\ lock'[g] # NoFile => lock[g] # NoFile \/ (g = f /\ f \notin other)
              /\ lock[g] # NoFile /\ (g # active \/ g \in updated) => lock'[g] # NoFile
         /\ CanLock(f) => lock'[f] = f
<1> DEFINE S == IF active \notin updated THEN {active} ELSE {}
<1> USE SessionAssumption
<1>1. Bared(S) = {}
  BY DEF Bared, locked
<1>2. \A g \in File : Unlocked(S)[g] = IF g \in S THEN NoFile ELSE lock[g]
  BY DEF Unlocked
<1>3. bare' = {}
  BY <1>1 DEF SwitchActive
<1>4. CASE ~CanLock(f)
  <2>1. lock' = Unlocked(S)
    BY <1>4 DEF SwitchActive
  <2> QED BY <1>2, <1>3, <1>4, <2>1
<1>5. CASE CanLock(f)
  <2>1. lock' = Locked(Unlocked(S), f)
    BY <1>5 DEF SwitchActive
  <2>2. lock[f] = f \/ f \notin other
    BY <1>5 DEF CanLock, locked
  <2>3. \A g \in File : lock'[g] = IF g = f THEN f ELSE Unlocked(S)[g]
    BY <1>2, <2>1 DEF Locked, Unlocked
  <2> HIDE DEF S
  <2>4. \A g \in File : lock'[g] \in {NoFile, g}
    BY <1>2, <2>3
  <2>5. \A g \in File : lock'[g] # NoFile => lock[g] # NoFile \/ (g = f /\ f \notin other)
    BY <1>2, <2>2, <2>3
  <2>6. \A g \in File : lock[g] # NoFile /\ (g # active \/ g \in updated) => lock'[g] # NoFile
    BY <1>2, <2>3 DEF S
  <2> QED BY <1>3, <2>3, <2>4, <2>5, <2>6
<1> QED BY <1>4, <1>5

-----------------------------------------------------------------------------
(* The inductive invariant *)

\* A kernel without files satisfies the inductive invariant.
LEMMA InitSession == Init => SessionInv
<1> SUFFICES ASSUME Init PROVE SessionInv
  OBVIOUS
<1> USE SessionAssumption DEF Init
<1>0. 2 \in Version /\ 0 \in Version /\ 0 \in 0 .. MaxCrash
  BY DEF Version
<1>1. TypeOK
  BY <1>0 DEF TypeOK, Absent, PC
<1>2. OneOperation /\ OwnLocks /\ ChangesLocked /\ TouchedIsAbsent
  BY DEF OneOperation, OwnLocks, LocksInOrder, ChangesLocked, LockedOrSaving, TouchedIsAbsent, Idle, BeforeWrite
<1>3. KnownIsFresh
  BY DEF KnownIsFresh, FreshFiles, Fresh, BeforeWrite, AfterWrite
<1> QED BY <1>1, <1>2, <1>3 DEF SessionInv

\* No step changes which careless things a behaviour is about.
LEMMA CarelessIsFixed == [Next]_vars => careless' = careless
BY DEF Next, KernelStep, vars, OtherLocks, OtherSaves, OtherRemoves, OtherUnlocks, Load, SetActive, NewData, CloseData, Modify, Save, Reload, Backup, SaveAs, LoadStat, ResetActive, CreateObject, SaveTouch, SaveWrite, SaveRename, SaveUnlock, SaveFlags, SaveStat, SaveFails, ReloadRead, ReloadStat, ReloadFails, Crash

\* Every step keeps the types.
LEMMA NextTypeOK == TypeOK /\ OneOperation /\ [Next]_vars => TypeOK'
<1> SUFFICES ASSUME TypeOK, OneOperation, [Next]_vars PROVE TypeOK'
  OBVIOUS
<1>e. \A f \in File : /\ Write(f) => WriteDone(f)
                      /\ Touch(f) => TouchDone(f)
                      /\ UpdateStatus(f) => StatusDone(f)
  BY FileEffect
<1>s. \A f \in File : SwitchActive(f) =>
        /\ lock' \in [File -> File \cup {NoFile, Lost}] /\ bare' \subseteq other
        /\ active' = IF CanLock(f) THEN f ELSE active
  BY SwitchEffect
<1>v. Empty \in Version
  BY SessionAssumption DEF Empty, Version
<1> USE SessionAssumption DEF TypeOK, OneOperation, Idle, PC, Version, Absent, Empty, BeforeWrite, AfterWrite
<1>1. ASSUME NEW f \in File, OtherLocks(f) PROVE TypeOK'
  BY <1>1 DEF OtherLocks, OtherMayRun, fsVars, memVars, lockVars
<1>2. ASSUME NEW f \in File, OtherSaves(f) PROVE TypeOK'
  BY <1>2, <1>e DEF OtherSaves, WriteDone, memVars, lockVars
<1>3. ASSUME NEW f \in File, OtherRemoves(f) PROVE TypeOK'
  BY <1>3 DEF OtherRemoves, OtherMayRun, memVars, lockVars
<1>4. ASSUME NEW f \in File, OtherUnlocks(f) PROVE TypeOK'
  BY <1>4 DEF OtherUnlocks, OtherMayRun, fsVars, memVars
<1>5. ASSUME NEW f \in File, Load(f) PROVE TypeOK'
  BY <1>5 DEF Load, Idle, Begin, fsVars, lockVars
<1>6. ASSUME NEW f \in File, SetActive(f) PROVE TypeOK'
  BY <1>6 DEF SetActive, Idle, SwitchActive, CanLock, Bared, Locked, Unlocked, locked, fsVars, memVars
<1>7. ASSUME NEW f \in File, NewData(f) PROVE TypeOK'
  <2>1. TouchDone(f)
    BY <1>7, <1>e DEF NewData
  <2>2. CASE f \in known
    BY <1>7, <2>1, <2>2 DEF NewData, TouchDone, memVars
  <2>3. CASE f \notin known
    <3>1. lock' \in [File -> File \cup {NoFile, Lost}] /\ bare' \subseteq other /\ active' = IF CanLock(f) THEN f ELSE active
      BY <1>7, <1>s, <2>3 DEF NewData
    <3>2. known' = IF CanLock(f) THEN known \cup {f} ELSE known
      BY <1>7, <2>3 DEF NewData
    <3>3. base' \in [File -> Version] /\ seen' \in [File -> Nat] /\ on_disk' \subseteq File
      <4>1. Empty \in Version
        BY <1>v
      <4>2. base' = [base EXCEPT ![f] = Empty] /\ seen' = [seen EXCEPT ![f] = 0] /\ on_disk' = on_disk \ {f}
        BY <1>7, <2>3 DEF NewData
      <4> HIDE DEF Empty, Version
      <4> QED BY <4>1, <4>2
    <3> QED BY <1>7, <2>1, <3>1, <3>2, <3>3 DEF NewData, TouchDone
  <2> QED BY <2>2, <2>3
<1>8. ASSUME NEW f \in File, CloseData(f) PROVE TypeOK'
  BY <1>8 DEF CloseData, Idle, Forget, Bared, Unlocked, locked, fsVars
<1>9. ASSUME NEW f \in File, Modify(f) PROVE TypeOK'
  BY <1>9 DEF Modify, Idle, CanLock, Locked, locked, fsVars, memVars
<1>10. ASSUME NEW f \in File, Save(f) PROVE TypeOK'
  BY <1>10 DEF Save, Idle, CanLock, Locked, BeginSave, locked, fsVars, memVars
<1>11. ASSUME NEW f \in File, Reload(f) PROVE TypeOK'
  BY <1>11 DEF Reload, Idle, Unlocked, Bared, Begin, locked, fsVars, memVars
<1>12. ASSUME NEW f \in File, NEW g \in File, Backup(f, g) PROVE TypeOK'
  BY <1>12 DEF Backup, Idle, CanLock, Locked, BeginSave, locked, fsVars, memVars
<1>13. ASSUME NEW f \in File, NEW g \in File, SaveAs(f, g) PROVE TypeOK'
  <2>1. lock' \in [File -> File \cup {NoFile, Lost}]
    <3>1. Locked(lock, g) \in [File -> File \cup {NoFile, Lost}]
      BY DEF Locked
    <3>2. PICK l \in [File -> File \cup {NoFile, Lost}] : lock' = [l EXCEPT ![g] = l[f], ![f] = NoFile]
      BY <1>13, <3>1 DEF SaveAs, Rename
    <3> QED BY <3>2
  <2>2. known' \subseteq File /\ on_disk' \subseteq File /\ updated' \subseteq known' /\ active' \in known' \cup {NoFile}
    BY <1>13 DEF SaveAs, Rename, Move
  <2>3. base' \in [File -> Version] /\ seen' \in [File -> Nat]
    BY <1>13 DEF SaveAs, Rename
  <2>4. pc' \in PC /\ cur' \in File \cup {NoFile} /\ from' \in File \cup {NoFile}
    BY <1>13 DEF SaveAs, BeginSave
  <2> QED BY <1>13, <2>1, <2>2, <2>3, <2>4 DEF SaveAs, fsVars
<1>14. ASSUME LoadStat PROVE TypeOK'
  BY <1>14 DEF LoadStat, UpdateStatus, End, fsVars, lockVars
<1>15. ASSUME ResetActive PROVE TypeOK'
  BY <1>15 DEF ResetActive, Idle, Unlocked, Bared, locked, fsVars, memVars
<1>16. ASSUME CreateObject PROVE TypeOK'
  BY <1>16 DEF CreateObject, Idle, fsVars, memVars
<1>17. ASSUME SaveTouch PROVE TypeOK'
  BY <1>17 DEF SaveTouch, Touch, Begin, memVars, lockVars
<1>18. ASSUME SaveWrite PROVE TypeOK'
  BY <1>18 DEF SaveWrite, Begin, fsVars, lockVars
<1>19. ASSUME SaveRename PROVE TypeOK'
  <2>1. cur \in File /\ Write(cur)
    BY <1>19 DEF SaveRename
  <2>2. WriteDone(cur)
    BY <2>1, <1>e
  <2>3. disk' \in [File -> Version] /\ mtime' \in [File -> Nat] /\ written' \in Version /\ written + 1 \in Version
    BY <2>2 DEF WriteDone
  <2>4. base' \in [File -> Version]
    <3> HIDE DEF Version
    <3> QED BY <1>19, <2>3 DEF SaveRename
  <2>5. pc' \in PC /\ cur' = cur /\ from' = from /\ tmp' \in BOOLEAN
    BY <1>19 DEF SaveRename, Begin
  <2> QED BY <1>19, <2>3, <2>4, <2>5 DEF SaveRename, lockVars
<1>20. ASSUME SaveUnlock PROVE TypeOK'
  BY <1>20 DEF SaveUnlock, Unlocked, Bared, Begin, locked, fsVars, memVars
<1>21. ASSUME SaveFlags PROVE TypeOK'
  BY <1>21 DEF SaveFlags, Begin, fsVars, memVars
<1>22. ASSUME SaveStat PROVE TypeOK'
  BY <1>22 DEF SaveStat, UpdateStatus, End, fsVars, lockVars
<1>23. ASSUME SaveFails PROVE TypeOK'
  <2>1. Unlocked({cur} \ {active}) \in [File -> File \cup {NoFile, Lost}] /\ bare' \subseteq other
    BY <1>23 DEF SaveFails, Unlocked, Bared
  <2>2. fsVars' = fsVars /\ other' = other /\ crashes' = crashes /\ tmp' = FALSE /\ pc' = "idle"
        /\ cur' = NoFile /\ from' = NoFile /\ cur \in File
    BY <1>23 DEF SaveFails, End, fsVars
  <2>3. CASE from = NoFile
    BY <1>23, <2>1, <2>2, <2>3 DEF SaveFails, fsVars, memVars
  <2>4. CASE from # NoFile
    <3>1. Rename(Unlocked({cur} \ {active}), cur, from) /\ from \in File /\ cur \in known
      BY <1>23, <2>4 DEF SaveFails
    <3>2. lock' \in [File -> File \cup {NoFile, Lost}]
      BY <2>1, <3>1 DEF Rename
    <3>3. base' \in [File -> Version] /\ seen' \in [File -> Nat]
      BY <2>2, <3>1 DEF Rename
    <3>4. /\ known' \subseteq File /\ on_disk' \subseteq File /\ updated' \subseteq known'
          /\ active' \in known' \cup {NoFile}
      BY <2>2, <3>1 DEF Rename, Move
    <3> QED BY <2>1, <2>2, <3>2, <3>3, <3>4 DEF fsVars
  <2> QED BY <2>3, <2>4
<1>24. ASSUME ReloadRead PROVE TypeOK'
  BY <1>24 DEF ReloadRead, Begin, fsVars, lockVars
<1>25. ASSUME ReloadStat PROVE TypeOK'
  BY <1>25 DEF ReloadStat, UpdateStatus, End, fsVars
<1>26. ASSUME ReloadFails PROVE TypeOK'
  BY <1>26 DEF ReloadFails, End, fsVars, memVars, lockVars
<1>27. ASSUME Crash PROVE TypeOK'
  BY <1>27 DEF Crash, End, fsVars
<1>28. CASE UNCHANGED vars
  BY <1>28 DEF vars, fsVars, memVars, lockVars
<1> QED
  BY <1>1, <1>2, <1>3, <1>4, <1>5, <1>6, <1>7, <1>8, <1>9, <1>10, <1>11, <1>12, <1>13, <1>14, <1>15, <1>16, <1>17, <1>18, <1>19, <1>20, <1>21, <1>22, <1>23, <1>24, <1>25, <1>26, <1>27, <1>28 DEF Next, KernelStep

\* Every step keeps: an operation under way has its file.
LEMMA NextOneOperation == TypeOK /\ OneOperation /\ [Next]_vars => OneOperation'
<1> SUFFICES ASSUME TypeOK, OneOperation, [Next]_vars PROVE OneOperation'
  OBVIOUS
<1> USE SessionAssumption DEF TypeOK, OneOperation, Idle, BeforeWrite, AfterWrite
<1>1. ASSUME NEW f \in File, OtherLocks(f) PROVE OneOperation'
  BY <1>1 DEF OtherLocks, OtherMayRun, fsVars, memVars, lockVars
<1>2. ASSUME NEW f \in File, OtherSaves(f) PROVE OneOperation'
  BY <1>2 DEF OtherSaves, OtherMayRun, Write, memVars, lockVars
<1>3. ASSUME NEW f \in File, OtherRemoves(f) PROVE OneOperation'
  BY <1>3 DEF OtherRemoves, OtherMayRun, memVars, lockVars
<1>4. ASSUME NEW f \in File, OtherUnlocks(f) PROVE OneOperation'
  BY <1>4 DEF OtherUnlocks, OtherMayRun, fsVars, memVars
<1>5. ASSUME NEW f \in File, Load(f) PROVE OneOperation'
  BY <1>5 DEF Load, Idle, Begin, fsVars, lockVars
<1>6. ASSUME NEW f \in File, SetActive(f) PROVE OneOperation'
  BY <1>6 DEF SetActive, Idle, SwitchActive, CanLock, Bared, Locked, Unlocked, locked, fsVars, memVars
<1>7. ASSUME NEW f \in File, NewData(f) PROVE OneOperation'
  BY <1>7 DEF NewData, Idle, Touch, SwitchActive, CanLock, Bared, Locked, Unlocked, locked, memVars
<1>8. ASSUME NEW f \in File, CloseData(f) PROVE OneOperation'
  BY <1>8 DEF CloseData, Idle, Forget, Bared, Unlocked, locked, fsVars
<1>9. ASSUME NEW f \in File, Modify(f) PROVE OneOperation'
  BY <1>9 DEF Modify, Idle, CanLock, Locked, locked, fsVars, memVars
<1>10. ASSUME NEW f \in File, Save(f) PROVE OneOperation'
  BY <1>10 DEF Save, Idle, CanLock, Locked, BeginSave, locked, fsVars, memVars
<1>11. ASSUME NEW f \in File, Reload(f) PROVE OneOperation'
  BY <1>11 DEF Reload, Idle, Unlocked, Bared, Begin, locked, fsVars, memVars
<1>12. ASSUME NEW f \in File, NEW g \in File, Backup(f, g) PROVE OneOperation'
  BY <1>12 DEF Backup, Idle, CanLock, Locked, BeginSave, locked, fsVars, memVars
<1>13. ASSUME NEW f \in File, NEW g \in File, SaveAs(f, g) PROVE OneOperation'
  BY <1>13 DEF SaveAs, Idle, CanLock, Locked, BeginSave, Rename, Move, locked, fsVars
<1>14. ASSUME LoadStat PROVE OneOperation'
  BY <1>14 DEF LoadStat, UpdateStatus, End, fsVars, lockVars
<1>15. ASSUME ResetActive PROVE OneOperation'
  BY <1>15 DEF ResetActive, Idle, Unlocked, Bared, locked, fsVars, memVars
<1>16. ASSUME CreateObject PROVE OneOperation'
  BY <1>16 DEF CreateObject, Idle, fsVars, memVars
<1>17. ASSUME SaveTouch PROVE OneOperation'
  BY <1>17 DEF SaveTouch, Touch, Begin, memVars, lockVars
<1>18. ASSUME SaveWrite PROVE OneOperation'
  BY <1>18 DEF SaveWrite, Begin, fsVars, lockVars
<1>19. ASSUME SaveRename PROVE OneOperation'
  BY <1>19 DEF SaveRename, Write, Begin, lockVars
<1>20. ASSUME SaveUnlock PROVE OneOperation'
  BY <1>20 DEF SaveUnlock, Unlocked, Bared, Begin, locked, fsVars, memVars
<1>21. ASSUME SaveFlags PROVE OneOperation'
  BY <1>21 DEF SaveFlags, Begin, fsVars, memVars
<1>22. ASSUME SaveStat PROVE OneOperation'
  BY <1>22 DEF SaveStat, UpdateStatus, End, fsVars, lockVars
<1>23. ASSUME SaveFails PROVE OneOperation'
  BY <1>23 DEF SaveFails, Unlocked, Bared, Rename, Move, End, locked, fsVars, memVars
<1>24. ASSUME ReloadRead PROVE OneOperation'
  BY <1>24 DEF ReloadRead, Begin, fsVars, lockVars
<1>25. ASSUME ReloadStat PROVE OneOperation'
  BY <1>25 DEF ReloadStat, UpdateStatus, End, fsVars
<1>26. ASSUME ReloadFails PROVE OneOperation'
  BY <1>26 DEF ReloadFails, End, fsVars, memVars, lockVars
<1>27. ASSUME Crash PROVE OneOperation'
  BY <1>27 DEF Crash, End, fsVars
<1>28. CASE UNCHANGED vars
  BY <1>28 DEF vars, fsVars, memVars, lockVars
<1> QED
  BY <1>1, <1>2, <1>3, <1>4, <1>5, <1>6, <1>7, <1>8, <1>9, <1>10, <1>11, <1>12, <1>13, <1>14, <1>15, <1>16, <1>17, <1>18, <1>19, <1>20, <1>21, <1>22, <1>23, <1>24, <1>25, <1>26, <1>27, <1>28 DEF Next, KernelStep

\* Every step keeps the locks in order.
LEMMA NextOwnLocks == TypeOK /\ OneOperation /\ OwnLocks /\ [Next]_vars => OwnLocks'
<1> SUFFICES ASSUME TypeOK, OneOperation, LocksInOrder, "saveAsLocked" \notin careless, [Next]_vars
             PROVE  LocksInOrder'
  BY CarelessIsFixed DEF OwnLocks, Never
<1>s. \A f \in File : SwitchActive(f) =>
        /\ bare' = {}
        /\ \A g \in File :
             /\ lock'[g] \in {NoFile, g}
             /\ lock'[g] # NoFile => lock[g] # NoFile \/ (g = f /\ f \notin other)
             /\ lock[g] # NoFile /\ (g # active \/ g \in updated) => lock'[g] # NoFile
        /\ CanLock(f) => lock'[f] = f
  BY SwitchOwn DEF LocksInOrder
<1> USE SessionAssumption DEF TypeOK, OneOperation, LocksInOrder, Idle, BeforeWrite, AfterWrite
<1>1. ASSUME NEW f \in File, OtherLocks(f) PROVE LocksInOrder'
  BY <1>1 DEF OtherLocks, OtherMayRun, fsVars, memVars, lockVars
<1>2. ASSUME NEW f \in File, OtherSaves(f) PROVE LocksInOrder'
  BY <1>2 DEF OtherSaves, OtherMayRun, Write, memVars, lockVars
<1>3. ASSUME NEW f \in File, OtherRemoves(f) PROVE LocksInOrder'
  BY <1>3 DEF OtherRemoves, OtherMayRun, memVars, lockVars
<1>4. ASSUME NEW f \in File, OtherUnlocks(f) PROVE LocksInOrder'
  BY <1>4 DEF OtherUnlocks, OtherMayRun, fsVars, memVars
<1>5. ASSUME NEW f \in File, Load(f) PROVE LocksInOrder'
  BY <1>5 DEF Load, Idle, Begin, fsVars, lockVars
<1>6. ASSUME NEW f \in File, SetActive(f) PROVE LocksInOrder'
  <2>1. SwitchActive(f) /\ pc' = "idle" /\ from' = NoFile /\ other' = other
    BY <1>6 DEF SetActive
  <2>2. bare' = {} /\ (\A g \in File : lock'[g] \in {NoFile, g} /\ (lock'[g] # NoFile => g \notin other))
    BY <1>s, <2>1
  <2> QED BY <2>1, <2>2
<1>7. ASSUME NEW f \in File, NewData(f) PROVE LocksInOrder'
  <2>1. pc' = "idle" /\ from' = NoFile /\ other' = other
    BY <1>7 DEF NewData
  <2>2. CASE f \in known
    BY <1>7, <2>1, <2>2 DEF NewData
  <2>3. CASE f \notin known
    <3>1. SwitchActive(f)
      BY <1>7, <2>3 DEF NewData
    <3>2. bare' = {} /\ (\A g \in File : lock'[g] \in {NoFile, g} /\ (lock'[g] # NoFile => g \notin other))
      BY <1>s, <3>1
    <3> QED BY <2>1, <3>2
  <2> QED BY <2>2, <2>3
<1>8. ASSUME NEW f \in File, CloseData(f) PROVE LocksInOrder'
  BY <1>8 DEF CloseData, Idle, Forget, Bared, Unlocked, locked, fsVars
<1>9. ASSUME NEW f \in File, Modify(f) PROVE LocksInOrder'
  BY <1>9 DEF Modify, Idle, CanLock, Locked, locked, fsVars, memVars
<1>10. ASSUME NEW f \in File, Save(f) PROVE LocksInOrder'
  BY <1>10 DEF Save, Idle, CanLock, Locked, BeginSave, locked, fsVars, memVars
<1>11. ASSUME NEW f \in File, Reload(f) PROVE LocksInOrder'
  BY <1>11 DEF Reload, Idle, Unlocked, Bared, Begin, locked, fsVars, memVars
<1>12. ASSUME NEW f \in File, NEW g \in File, Backup(f, g) PROVE LocksInOrder'
  BY <1>12 DEF Backup, Idle, CanLock, Locked, BeginSave, locked, fsVars, memVars
<1>13. ASSUME NEW f \in File, NEW g \in File, SaveAs(f, g) PROVE LocksInOrder'
  <2>1. f # g /\ f \notin locked \cup {active} /\ CanLock(g) /\ other' = other /\ bare' = bare
    BY <1>13 DEF SaveAs
  <2>2. lock[f] = NoFile /\ lock' = [[Locked(lock, g) EXCEPT ![f] = g] EXCEPT ![g] = g, ![f] = NoFile]
    BY <1>13, <2>1 DEF SaveAs, Rename, locked, Locked
  <2>3. \A x \in File : lock'[x] = IF x = g THEN g ELSE IF x = f THEN NoFile ELSE lock[x]
    BY <2>1, <2>2 DEF Locked
  <2>4. cur' = g /\ active' = active /\ g # active
    BY <1>13, <2>1 DEF SaveAs, BeginSave, Rename
  <2>5. g # NoFile /\ (g \in other => lock[g] # NoFile)
    BY <2>1 DEF CanLock, locked
  <2>6. \A x \in File : lock'[x] \in {NoFile, x} /\ (lock'[x] # NoFile => x \notin other)
    BY <2>3, <2>5
  <2> QED BY <2>1, <2>3, <2>4, <2>5, <2>6
<1>14. ASSUME LoadStat PROVE LocksInOrder'
  BY <1>14 DEF LoadStat, UpdateStatus, End, fsVars, lockVars
<1>15. ASSUME ResetActive PROVE LocksInOrder'
  BY <1>15 DEF ResetActive, Idle, Unlocked, Bared, locked, fsVars, memVars
<1>16. ASSUME CreateObject PROVE LocksInOrder'
  BY <1>16 DEF CreateObject, Idle, fsVars, memVars
<1>17. ASSUME SaveTouch PROVE LocksInOrder'
  BY <1>17 DEF SaveTouch, Touch, Begin, memVars, lockVars
<1>18. ASSUME SaveWrite PROVE LocksInOrder'
  BY <1>18 DEF SaveWrite, Begin, fsVars, lockVars
<1>19. ASSUME SaveRename PROVE LocksInOrder'
  BY <1>19 DEF SaveRename, Write, Begin, lockVars
<1>20. ASSUME SaveUnlock PROVE LocksInOrder'
  BY <1>20 DEF SaveUnlock, Unlocked, Bared, Begin, locked, fsVars, memVars
<1>21. ASSUME SaveFlags PROVE LocksInOrder'
  BY <1>21 DEF SaveFlags, Begin, fsVars, memVars
<1>22. ASSUME SaveStat PROVE LocksInOrder'
  BY <1>22 DEF SaveStat, UpdateStatus, End, fsVars, lockVars
<1>23. ASSUME SaveFails PROVE LocksInOrder'
  <2>1. pc' = "idle" /\ from' = NoFile /\ other' = other /\ cur \in File
    BY <1>23 DEF SaveFails, End
  <2>3. bare' = {}
    <3>1. bare' = bare \cup {f \in ({cur} \ {active}) \cap locked \cap other : lock[f] # f}
      BY <1>23 DEF SaveFails, Bared
    <3>2. \A f \in locked : f \in File /\ lock[f] = f
      BY DEF locked
    <3> QED BY <3>1, <3>2
  <2>4. \A g \in File : Unlocked({cur} \ {active})[g] = IF g = cur /\ cur # active THEN NoFile ELSE lock[g]
    BY DEF Unlocked
  <2>5. CASE from = NoFile
    <3>1. lock' = Unlocked({cur} \ {active})
      BY <1>23, <2>5 DEF SaveFails
    <3> QED BY <2>1, <2>3, <2>4, <3>1
  <2>6. CASE from # NoFile
    <3>1. lock' = [Unlocked({cur} \ {active}) EXCEPT ![from] = Unlocked({cur} \ {active})[cur], ![cur] = NoFile]
      BY <1>23, <2>6 DEF SaveFails, Rename
    <3>2. \A g \in File : lock'[g] = NoFile \/ lock'[g] = lock[g]
      BY <2>1, <2>4, <2>6, <3>1 DEF Unlocked
    <3> QED BY <2>1, <2>3, <3>2
  <2> QED BY <2>5, <2>6
<1>24. ASSUME ReloadRead PROVE LocksInOrder'
  BY <1>24 DEF ReloadRead, Begin, fsVars, lockVars
<1>25. ASSUME ReloadStat PROVE LocksInOrder'
  BY <1>25 DEF ReloadStat, UpdateStatus, End, fsVars
<1>26. ASSUME ReloadFails PROVE LocksInOrder'
  BY <1>26 DEF ReloadFails, End, fsVars, memVars, lockVars
<1>27. ASSUME Crash PROVE LocksInOrder'
  BY <1>27 DEF Crash, End, fsVars
<1>28. CASE UNCHANGED vars
  BY <1>28 DEF vars, fsVars, memVars, lockVars
<1> QED
  BY <1>1, <1>2, <1>3, <1>4, <1>5, <1>6, <1>7, <1>8, <1>9, <1>10, <1>11, <1>12, <1>13, <1>14, <1>15, <1>16, <1>17, <1>18, <1>19, <1>20, <1>21, <1>22, <1>23, <1>24, <1>25, <1>26, <1>27, <1>28 DEF Next, KernelStep

\* Every step keeps the files with changes locked.
LEMMA NextChangesLocked == TypeOK /\ OneOperation /\ OwnLocks /\ ChangesLocked /\ [Next]_vars => ChangesLocked'
<1> SUFFICES ASSUME TypeOK, OneOperation, LocksInOrder, LockedOrSaving, [Next]_vars,
                    "others" \notin careless, "failures" \notin careless, "saveAsLocked" \notin careless
             PROVE  LockedOrSaving'
  BY CarelessIsFixed DEF OwnLocks, ChangesLocked, Never
<1>s. \A f \in File : SwitchActive(f) =>
        /\ bare' = {}
        /\ \A g \in File :
             /\ lock'[g] \in {NoFile, g}
             /\ lock'[g] # NoFile => lock[g] # NoFile \/ (g = f /\ f \notin other)
             /\ lock[g] # NoFile /\ (g # active \/ g \in updated) => lock'[g] # NoFile
        /\ CanLock(f) => lock'[f] = f
  BY SwitchOwn DEF LocksInOrder
<1>a. \A f \in File : SwitchActive(f) => active' = IF CanLock(f) THEN f ELSE active
  BY SwitchEffect
<1> USE SessionAssumption DEF TypeOK, OneOperation, LocksInOrder, LockedOrSaving, Idle, BeforeWrite, AfterWrite
<1>1. ASSUME NEW f \in File, OtherLocks(f) PROVE LockedOrSaving'
  BY <1>1 DEF OtherLocks, OtherMayRun, fsVars, memVars, lockVars
<1>2. ASSUME NEW f \in File, OtherSaves(f) PROVE LockedOrSaving'
  BY <1>2 DEF OtherSaves, OtherMayRun, Write, memVars, lockVars
<1>3. ASSUME NEW f \in File, OtherRemoves(f) PROVE LockedOrSaving'
  BY <1>3 DEF OtherRemoves, OtherMayRun, memVars, lockVars
<1>4. ASSUME NEW f \in File, OtherUnlocks(f) PROVE LockedOrSaving'
  BY <1>4 DEF OtherUnlocks, OtherMayRun, fsVars, memVars
<1>5. ASSUME NEW f \in File, Load(f) PROVE LockedOrSaving'
  BY <1>5 DEF Load, Idle, Begin, fsVars, lockVars
<1>6. ASSUME NEW f \in File, SetActive(f) PROVE LockedOrSaving'
  <2>1. SwitchActive(f) /\ pc' = "idle" /\ pc = "idle" /\ other' = other /\ updated' = updated
    BY <1>6 DEF SetActive
  <2>2. CanLock(f)
    BY DEF CanLock
  <2>3. active' = f
    BY <1>a, <2>1, <2>2
  <2> QED BY <1>s, <2>1, <2>2, <2>3
<1>7. ASSUME NEW f \in File, NewData(f) PROVE LockedOrSaving'
  <2>0. pc' = "idle" /\ pc = "idle" /\ other' = other /\ updated' = updated
    BY <1>7 DEF NewData
  <2>c. CASE f \in known
    BY <1>7, <2>0, <2>c DEF NewData
  <2>d. CASE f \notin known
    <3>1. SwitchActive(f)
      BY <1>7, <2>d DEF NewData
    <3>2. CanLock(f)
      BY DEF CanLock
    <3>3. active' = f
      BY <1>a, <3>1, <3>2
    <3> QED BY <1>s, <2>0, <3>1, <3>2, <3>3
  <2> QED BY <2>c, <2>d
<1>8. ASSUME NEW f \in File, CloseData(f) PROVE LockedOrSaving'
  BY <1>8 DEF CloseData, Idle, Forget, Bared, Unlocked, locked, fsVars
<1>9. ASSUME NEW f \in File, Modify(f) PROVE LockedOrSaving'
  BY <1>9 DEF Modify, Idle, CanLock, Locked, locked, fsVars, memVars
<1>10. ASSUME NEW f \in File, Save(f) PROVE LockedOrSaving'
  BY <1>10 DEF Save, Idle, CanLock, Locked, BeginSave, locked, fsVars, memVars
<1>11. ASSUME NEW f \in File, Reload(f) PROVE LockedOrSaving'
  BY <1>11 DEF Reload, Idle, Unlocked, Bared, Begin, locked, fsVars, memVars
<1>12. ASSUME NEW f \in File, NEW g \in File, Backup(f, g) PROVE LockedOrSaving'
  BY <1>12 DEF Backup, Idle, CanLock, Locked, BeginSave, locked, fsVars, memVars
<1>13. ASSUME NEW f \in File, NEW g \in File, SaveAs(f, g) PROVE LockedOrSaving'
  BY <1>13 DEF SaveAs, Idle, CanLock, Locked, BeginSave, Rename, Move, locked, fsVars
<1>14. ASSUME LoadStat PROVE LockedOrSaving'
  BY <1>14 DEF LoadStat, UpdateStatus, End, fsVars, lockVars
<1>15. ASSUME ResetActive PROVE LockedOrSaving'
  BY <1>15 DEF ResetActive, Idle, Unlocked, Bared, locked, fsVars, memVars
<1>16. ASSUME CreateObject PROVE LockedOrSaving'
  BY <1>16 DEF CreateObject, Idle, fsVars, memVars
<1>17. ASSUME SaveTouch PROVE LockedOrSaving'
  BY <1>17 DEF SaveTouch, Touch, Begin, memVars, lockVars
<1>18. ASSUME SaveWrite PROVE LockedOrSaving'
  BY <1>18 DEF SaveWrite, Begin, fsVars, lockVars
<1>19. ASSUME SaveRename PROVE LockedOrSaving'
  BY <1>19 DEF SaveRename, Write, Begin, lockVars
<1>20. ASSUME SaveUnlock PROVE LockedOrSaving'
  BY <1>20 DEF SaveUnlock, Unlocked, Bared, Begin, locked, fsVars, memVars
<1>21. ASSUME SaveFlags PROVE LockedOrSaving'
  BY <1>21 DEF SaveFlags, Begin, fsVars, memVars
<1>22. ASSUME SaveStat PROVE LockedOrSaving'
  BY <1>22 DEF SaveStat, UpdateStatus, End, fsVars, lockVars
<1>23. ASSUME SaveFails PROVE LockedOrSaving'
  BY <1>23 DEF SaveFails, Unlocked, Bared, Rename, Move, End, locked, fsVars, memVars
<1>24. ASSUME ReloadRead PROVE LockedOrSaving'
  BY <1>24 DEF ReloadRead, Begin, fsVars, lockVars
<1>25. ASSUME ReloadStat PROVE LockedOrSaving'
  BY <1>25 DEF ReloadStat, UpdateStatus, End, fsVars
<1>26. ASSUME ReloadFails PROVE LockedOrSaving'
  BY <1>26 DEF ReloadFails, End, fsVars, memVars, lockVars
<1>27. ASSUME Crash PROVE LockedOrSaving'
  BY <1>27 DEF Crash, End, fsVars
<1>28. CASE UNCHANGED vars
  BY <1>28 DEF vars, fsVars, memVars, lockVars
<1> QED
  BY <1>1, <1>2, <1>3, <1>4, <1>5, <1>6, <1>7, <1>8, <1>9, <1>10, <1>11, <1>12, <1>13, <1>14, <1>15, <1>16, <1>17, <1>18, <1>19, <1>20, <1>21, <1>22, <1>23, <1>24, <1>25, <1>26, <1>27, <1>28 DEF Next, KernelStep

\* Every step keeps: only a file that is not there is created.
LEMMA NextTouched == TypeOK /\ OneOperation /\ OwnLocks /\ TouchedIsAbsent /\ [Next]_vars => TouchedIsAbsent'
<1> SUFFICES ASSUME TypeOK, OneOperation, OwnLocks, TouchedIsAbsent, [Next]_vars PROVE TouchedIsAbsent'
  OBVIOUS
<1>e. \A f \in File : /\ Write(f) => WriteDone(f)
                      /\ Touch(f) => TouchDone(f)
                      /\ UpdateStatus(f) => StatusDone(f)
  BY FileEffect
<1>o. "saveAsLocked" \notin careless /\ pc = "saveTouch" => cur \notin other
  BY DEF OwnLocks, LocksInOrder, Never, BeforeWrite, OneOperation, Idle
<1>t. disk \in [File -> Version] /\ written \in Nat /\ (pc # "idle" => cur \in File)
  BY SessionAssumption DEF TypeOK, OneOperation, Idle, Version
<1> USE DEF TouchedIsAbsent, Absent
<1>1. ASSUME NEW f \in File, OtherLocks(f) PROVE TouchedIsAbsent'
  BY <1>1 DEF OtherLocks, OtherMayRun, fsVars, memVars, lockVars
<1>2. ASSUME NEW f \in File, OtherSaves(f) PROVE TouchedIsAbsent'
  <2>1. WriteDone(f) /\ pc' = pc /\ cur' = cur /\ careless' = careless /\ f \in other
    BY <1>2, <1>e DEF OtherSaves, lockVars
  <2>2. pc = "saveTouch" => cur # f \/ {"saveAsLocked", "between"} \subseteq careless
    BY <1>2, <1>o DEF OtherSaves, OtherMayRun, Idle
  <2>3. pc = "saveTouch" /\ cur # f => disk'[cur] = disk[cur]
    BY <1>t, <2>1 DEF WriteDone
  <2>4. written' >= 2
    BY <1>t, <2>1 DEF WriteDone
  <2> QED BY <2>1, <2>2, <2>3, <2>4
<1>3. ASSUME NEW f \in File, OtherRemoves(f) PROVE TouchedIsAbsent'
  BY <1>3, <1>o, <1>t DEF OtherRemoves, OtherMayRun, memVars, lockVars
<1>4. ASSUME NEW f \in File, OtherUnlocks(f) PROVE TouchedIsAbsent'
  BY <1>4 DEF OtherUnlocks, OtherMayRun, fsVars, memVars
<1>5. ASSUME NEW f \in File, Load(f) PROVE TouchedIsAbsent'
  BY <1>5 DEF Load, Idle, Begin, fsVars, lockVars
<1>6. ASSUME NEW f \in File, SetActive(f) PROVE TouchedIsAbsent'
  BY <1>6 DEF SetActive, Idle, SwitchActive, CanLock, Bared, Locked, Unlocked, locked, fsVars, memVars
<1>7. ASSUME NEW f \in File, NewData(f) PROVE TouchedIsAbsent'
  <2>1. TouchDone(f) /\ pc' = "idle"
    BY <1>7, <1>e DEF NewData, Idle
  <2>2. written' >= 2
    BY <1>t, <2>1 DEF TouchDone
  <2> QED BY <2>1, <2>2
<1>8. ASSUME NEW f \in File, CloseData(f) PROVE TouchedIsAbsent'
  BY <1>8 DEF CloseData, Idle, Forget, Bared, Unlocked, locked, fsVars
<1>9. ASSUME NEW f \in File, Modify(f) PROVE TouchedIsAbsent'
  BY <1>9 DEF Modify, Idle, CanLock, Locked, locked, fsVars, memVars
<1>10. ASSUME NEW f \in File, Save(f) PROVE TouchedIsAbsent'
  BY <1>10 DEF Save, Idle, CanLock, Locked, BeginSave, locked, fsVars, memVars
<1>11. ASSUME NEW f \in File, Reload(f) PROVE TouchedIsAbsent'
  BY <1>11 DEF Reload, Idle, Unlocked, Bared, Begin, locked, fsVars, memVars
<1>12. ASSUME NEW f \in File, NEW g \in File, Backup(f, g) PROVE TouchedIsAbsent'
  BY <1>12 DEF Backup, Idle, CanLock, Locked, BeginSave, locked, fsVars, memVars
<1>13. ASSUME NEW f \in File, NEW g \in File, SaveAs(f, g) PROVE TouchedIsAbsent'
  BY <1>13 DEF SaveAs, Idle, CanLock, Locked, BeginSave, Rename, Move, locked, fsVars
<1>14. ASSUME LoadStat PROVE TouchedIsAbsent'
  BY <1>14 DEF LoadStat, UpdateStatus, End, fsVars, lockVars
<1>15. ASSUME ResetActive PROVE TouchedIsAbsent'
  BY <1>15 DEF ResetActive, Idle, Unlocked, Bared, locked, fsVars, memVars
<1>16. ASSUME CreateObject PROVE TouchedIsAbsent'
  BY <1>16 DEF CreateObject, Idle, fsVars, memVars
<1>17. ASSUME SaveTouch PROVE TouchedIsAbsent'
  <2>1. TouchDone(cur) /\ pc' = "saveWrite"
    BY <1>17, <1>e, <1>t DEF SaveTouch, Begin
  <2>2. written' >= 2
    BY <1>t, <2>1 DEF TouchDone
  <2> QED BY <2>1, <2>2
<1>18. ASSUME SaveWrite PROVE TouchedIsAbsent'
  BY <1>18 DEF SaveWrite, Begin, fsVars, lockVars
<1>19. ASSUME SaveRename PROVE TouchedIsAbsent'
  <2>1. WriteDone(cur) /\ pc' = "saveUnlock"
    BY <1>19, <1>e, <1>t DEF SaveRename, Begin
  <2>2. written' >= 2
    BY <1>t, <2>1 DEF WriteDone
  <2> QED BY <2>1, <2>2
<1>20. ASSUME SaveUnlock PROVE TouchedIsAbsent'
  BY <1>20 DEF SaveUnlock, Unlocked, Bared, Begin, locked, fsVars, memVars
<1>21. ASSUME SaveFlags PROVE TouchedIsAbsent'
  BY <1>21 DEF SaveFlags, Begin, fsVars, memVars
<1>22. ASSUME SaveStat PROVE TouchedIsAbsent'
  BY <1>22 DEF SaveStat, UpdateStatus, End, fsVars, lockVars
<1>23. ASSUME SaveFails PROVE TouchedIsAbsent'
  BY <1>23 DEF SaveFails, Unlocked, Bared, Rename, Move, End, locked, fsVars, memVars
<1>24. ASSUME ReloadRead PROVE TouchedIsAbsent'
  BY <1>24 DEF ReloadRead, Begin, fsVars, lockVars
<1>25. ASSUME ReloadStat PROVE TouchedIsAbsent'
  BY <1>25 DEF ReloadStat, UpdateStatus, End, fsVars
<1>26. ASSUME ReloadFails PROVE TouchedIsAbsent'
  BY <1>26 DEF ReloadFails, End, fsVars, memVars, lockVars
<1>27. ASSUME Crash PROVE TouchedIsAbsent'
  BY <1>27 DEF Crash, End, fsVars
<1>28. CASE UNCHANGED vars
  BY <1>28 DEF vars, fsVars, memVars, lockVars
<1> QED
  BY <1>1, <1>2, <1>3, <1>4, <1>5, <1>6, <1>7, <1>8, <1>9, <1>10, <1>11, <1>12, <1>13, <1>14, <1>15, <1>16, <1>17, <1>18, <1>19, <1>20, <1>21, <1>22, <1>23, <1>24, <1>25, <1>26, <1>27, <1>28 DEF Next, KernelStep

\* Every step keeps what is known of a file right, or visibly outdated.
LEMMA NextFresh == TypeOK /\ OneOperation /\ KnownIsFresh /\ [Next]_vars => KnownIsFresh'
<1> SUFFICES ASSUME TypeOK, OneOperation, FreshFiles, "between" \notin careless, "sameSecond" \notin careless,
                    [Next]_vars
             PROVE  FreshFiles'
  BY CarelessIsFixed DEF KnownIsFresh, Never
<1>e. \A f \in File : /\ Write(f) => WriteDone(f)
                      /\ Touch(f) => TouchDone(f)
                      /\ UpdateStatus(f) => StatusDone(f)
  BY FileEffect
<1>t. /\ disk \in [File -> Version] /\ mtime \in [File -> Nat] /\ seen \in [File -> Nat]
      /\ base \in [File -> Version] /\ written \in Nat /\ known \subseteq File /\ from \in File \cup {NoFile}
      /\ ~Idle => cur \in File
      /\ from # NoFile => pc \in BeforeWrite \cup AfterWrite /\ cur \in known /\ from \notin known
  BY SessionAssumption DEF TypeOK, OneOperation, Version
<1> USE SessionAssumption DEF FreshFiles, Fresh, FreshCur, Idle, BeforeWrite, AfterWrite, Absent, Empty
<1>1. ASSUME NEW f \in File, OtherLocks(f) PROVE FreshFiles'
  BY <1>1, <1>t DEF OtherLocks, OtherMayRun, fsVars, memVars, lockVars
<1>2. ASSUME NEW f \in File, OtherSaves(f) PROVE FreshFiles'
  <2>1. /\ WriteDone(f) /\ pc = "idle" /\ pc' = "idle" /\ cur' = NoFile /\ cur = NoFile /\ from' = from
        /\ seen' = seen /\ base' = base /\ known' = known
    BY <1>2, <1>e DEF OtherSaves, OtherMayRun, memVars
  <2>2. \A g \in known \ {f} : disk'[g] = disk[g] /\ mtime'[g] = mtime[g]
    BY <1>t, <2>1 DEF WriteDone
  <2>3. f \in known => seen[f] < mtime'[f]
    <3>1. mtime'[f] = mtime[f] + 1 /\ mtime[f] \in Nat /\ seen[f] \in Nat
      BY <1>t, <2>1 DEF WriteDone
    <3>2. f \in known => seen[f] <= mtime[f]
      BY <1>t, <2>1
    <3> QED BY <3>1, <3>2
  <2>4. \A g \in known \ {f} : Fresh(g, base[g], seen[g])'
    BY <1>t, <2>1, <2>2
  <2>6. seen[f] \in Nat /\ mtime'[f] \in Nat
    BY <1>t, <2>1 DEF WriteDone
  <2>5. f \in known => Fresh(f, base[f], seen[f])'
    BY <2>1, <2>3, <2>6
  <2> QED BY <2>1, <2>4, <2>5
<1>3. ASSUME NEW f \in File, OtherRemoves(f) PROVE FreshFiles'
  BY <1>3, <1>t DEF OtherRemoves, OtherMayRun, memVars, lockVars
<1>4. ASSUME NEW f \in File, OtherUnlocks(f) PROVE FreshFiles'
  BY <1>4, <1>t DEF OtherUnlocks, OtherMayRun, fsVars, memVars
<1>5. ASSUME NEW f \in File, Load(f) PROVE FreshFiles'
  BY <1>5, <1>t DEF Load, Idle, Begin, fsVars, lockVars
<1>6. ASSUME NEW f \in File, SetActive(f) PROVE FreshFiles'
  BY <1>6, <1>t DEF SetActive, fsVars, memVars
<1>7. ASSUME NEW f \in File, NewData(f) PROVE FreshFiles'
  <2>1. TouchDone(f) /\ pc' = "idle" /\ pc = "idle" /\ cur' = NoFile /\ cur = NoFile /\ from' = NoFile
    BY <1>7, <1>e, <1>t DEF NewData
  <2>2. \A g \in known' \ {f} : g \in known /\ base'[g] = base[g] /\ seen'[g] = seen[g]
    BY <1>7, <1>t DEF NewData, memVars
  <2>3. f \in known' => seen'[f] < mtime'[f]
    <3>1. f \in known => seen[f] <= mtime[f]
      BY <1>t, <2>1
    <3>2. mtime'[f] = mtime[f] + 1 /\ mtime[f] \in Nat /\ seen[f] \in Nat
      BY <1>t, <2>1 DEF TouchDone
    <3>3. CASE f \in known
      <4>1. seen' = seen
        BY <1>7, <3>3 DEF NewData, memVars
      <4> QED BY <3>1, <3>2, <3>3, <4>1
    <3>4. CASE f \notin known
      <4>1. seen'[f] = 0
        BY <1>7, <1>t, <3>4 DEF NewData
      <4> QED BY <3>2, <4>1
    <3> QED BY <3>3, <3>4
  <2>4. \A g \in known' \ {f} : disk'[g] = disk[g] /\ mtime'[g] = mtime[g]
    BY <1>t, <2>1, <2>2 DEF TouchDone
  <2>6. seen'[f] \in Nat /\ mtime'[f] \in Nat
    BY <1>7, <1>t, <2>1 DEF NewData, TouchDone, memVars
  <2>5. \A g \in known' : Fresh(g, base[g], seen[g])'
    <3>1. \A g \in known' \ {f} : Fresh(g, base[g], seen[g])'
      BY <1>t, <2>1, <2>2, <2>4
    <3>2. f \in known' => Fresh(f, base[f], seen[f])'
      BY <2>3, <2>6
    <3> QED BY <3>1, <3>2
  <2> QED BY <2>1, <2>5
<1>8. ASSUME NEW f \in File, CloseData(f) PROVE FreshFiles'
  BY <1>8, <1>t DEF CloseData, Forget, fsVars
<1>9. ASSUME NEW f \in File, Modify(f) PROVE FreshFiles'
  BY <1>9, <1>t DEF Modify, fsVars, memVars
<1>10. ASSUME NEW f \in File, Save(f) PROVE FreshFiles'
  BY <1>10, <1>t DEF Save, BeginSave, fsVars, memVars
<1>11. ASSUME NEW f \in File, Reload(f) PROVE FreshFiles'
  BY <1>11, <1>t DEF Reload, Begin, fsVars, memVars
<1>12. ASSUME NEW f \in File, NEW g \in File, Backup(f, g) PROVE FreshFiles'
  BY <1>12, <1>t DEF Backup, BeginSave, fsVars, memVars
<1>13. ASSUME NEW f \in File, NEW g \in File, SaveAs(f, g) PROVE FreshFiles'
  BY <1>13, <1>t DEF SaveAs, BeginSave, Rename, Move, fsVars
<1>14. ASSUME LoadStat PROVE FreshFiles'
  <2>1. /\ StatusDone(cur) /\ pc = "loadStat" /\ pc' = "idle" /\ cur' = NoFile /\ from' = NoFile /\ cur \in File
        /\ known' = known \cup {cur} /\ base' = base /\ disk' = disk /\ mtime' = mtime
    BY <1>14, <1>e, <1>t DEF LoadStat, End, fsVars
  <2>2. \A g \in known \ {cur} : seen'[g] = seen[g]
    BY <1>t, <2>1 DEF StatusDone
  <2>3. seen'[cur] = mtime[cur] /\ mtime[cur] \in Nat
    BY <1>t, <2>1 DEF StatusDone
  <2>4. \A g \in known \ {cur} : Fresh(g, base[g], seen[g])'
    BY <2>1, <2>2
  <2>5. (disk[cur] = base[cur])
    BY <2>1
  <2>6. mtime[cur] <= mtime[cur]
    BY <2>3
  <2>7. \A g \in known' : Fresh(g, base[g], seen[g])'
    BY <2>1, <2>3, <2>4, <2>5, <2>6
  <2> QED BY <2>1, <2>7
<1>15. ASSUME ResetActive PROVE FreshFiles'
  BY <1>15, <1>t DEF ResetActive, fsVars, memVars
<1>16. ASSUME CreateObject PROVE FreshFiles'
  BY <1>16, <1>t DEF CreateObject, Idle, fsVars, memVars
<1>17. ASSUME SaveTouch PROVE FreshFiles'
  <2>1. /\ TouchDone(cur) /\ pc = "saveTouch" /\ pc' = "saveWrite" /\ cur' = cur /\ from' = from /\ cur \in File
        /\ known' = known /\ base' = base /\ seen' = seen
    BY <1>17, <1>e, <1>t DEF SaveTouch, Begin, memVars
  <2>2. \A g \in File \ {cur} : disk'[g] = disk[g] /\ mtime'[g] = mtime[g]
    BY <1>t, <2>1 DEF TouchDone
  <2>3. mtime'[cur] = mtime[cur] + 1 /\ mtime[cur] \in Nat /\ seen[cur] \in Nat
    BY <1>t, <2>1 DEF TouchDone
  <2>4. \A g \in known \ {cur} : Fresh(g, base[g], seen[g])'
    BY <1>t, <2>1, <2>2
  <2>5. from = NoFile /\ cur \in known => seen[cur] <= mtime[cur]
    BY <2>1
  <2>6. from = NoFile /\ cur \in known => FreshCur'
    BY <2>1, <2>3, <2>5
  <2>7. from # NoFile => Fresh(from, base[cur], seen[cur])'
    BY <1>t, <2>1, <2>2
  <2> QED BY <2>1, <2>4, <2>6, <2>7
<1>18. ASSUME SaveWrite PROVE FreshFiles'
  BY <1>18, <1>t DEF SaveWrite, Begin, fsVars, lockVars
<1>19. ASSUME SaveRename PROVE FreshFiles'
  <2>1. /\ WriteDone(cur) /\ pc = "saveRename" /\ pc' = "saveUnlock" /\ cur' = cur /\ from' = from /\ cur \in File
        /\ known' = known /\ base' = [base EXCEPT ![cur] = written + 1] /\ seen' = seen /\ on_disk' = on_disk
    BY <1>19, <1>e, <1>t DEF SaveRename, Begin
  <2>2. \A g \in File \ {cur} : disk'[g] = disk[g] /\ mtime'[g] = mtime[g] /\ base'[g] = base[g]
    BY <1>t, <2>1 DEF WriteDone
  <2>3. disk'[cur] = written + 1 /\ base'[cur] = written + 1 /\ written + 1 # 0
    BY <1>t, <2>1 DEF WriteDone
  <2>4. \A g \in known \ {cur} : Fresh(g, base[g], seen[g])'
    BY <1>t, <2>1, <2>2
  <2> QED BY <2>1, <2>3, <2>4
<1>20. ASSUME SaveUnlock PROVE FreshFiles'
  BY <1>20, <1>t DEF SaveUnlock, Begin, fsVars, memVars
<1>21. ASSUME SaveFlags PROVE FreshFiles'
  BY <1>21, <1>t DEF SaveFlags, Begin, fsVars, memVars
<1>22. ASSUME SaveStat PROVE FreshFiles'
  <2>1. /\ StatusDone(cur) /\ pc = "saveStat" /\ pc' = "idle" /\ cur' = NoFile /\ from' = NoFile /\ cur \in File
        /\ known' = known /\ base' = base /\ disk' = disk /\ mtime' = mtime
    BY <1>22, <1>e, <1>t DEF SaveStat, End, fsVars
  <2>2. \A g \in known \ {cur} : seen'[g] = seen[g]
    BY <1>t, <2>1 DEF StatusDone
  <2>3. seen'[cur] = mtime[cur] /\ mtime[cur] \in Nat /\ disk[cur] = base[cur]
    BY <1>t, <2>1 DEF StatusDone
  <2>4. \A g \in known \ {cur} : Fresh(g, base[g], seen[g])'
    BY <2>1, <2>2
  <2>6. seen'[cur] <= mtime[cur]
    BY <2>3
  <2>7. \A g \in known' : Fresh(g, base[g], seen[g])'
    BY <2>1, <2>3, <2>4, <2>6
  <2> QED BY <2>1, <2>7
<1>23. ASSUME SaveFails PROVE FreshFiles'
  <2>1. pc \in BeforeWrite /\ pc' = "idle" /\ cur' = NoFile /\ from' = NoFile /\ disk' = disk /\ mtime' = mtime /\ cur \in File
    BY <1>23, <1>t DEF SaveFails, End, fsVars
  <2>2. CASE from = NoFile
    <3>1. known' = known /\ base' = base /\ seen' = seen
      BY <1>23, <2>2 DEF SaveFails, memVars
    <3>2. \A g \in known : Fresh(g, base[g], seen[g])
      BY <2>1, <2>2
    <3>3. \A g \in known' : Fresh(g, base[g], seen[g])'
      BY <2>1, <3>1, <3>2
    <3> QED BY <2>1, <3>3
  <2>3. CASE from # NoFile
    <3>1. /\ known' = (known \ {cur}) \cup {from}
          /\ base' = [base EXCEPT ![from] = base[cur]] /\ seen' = [seen EXCEPT ![from] = seen[cur]]
      BY <1>23, <1>t, <2>3 DEF SaveFails, Rename, Move
    <3>2. from \in File /\ from \notin known
      BY <1>t, <2>3
    <3>3. Fresh(from, base[cur], seen[cur])
      BY <2>1, <2>3
    <3>4. base'[from] = base[cur] /\ seen'[from] = seen[cur]
      BY <1>t, <3>1, <3>2
    <3>5. /\ seen'[from] <= mtime'[from]
          /\ disk'[from] # Absent /\ mtime'[from] = seen'[from] => disk'[from] = base'[from]
      BY <2>1, <3>3, <3>4
    <3>6. \A g \in known \ {cur} : base'[g] = base[g] /\ seen'[g] = seen[g]
      BY <1>t, <3>1, <3>2
    <3>7. \A g \in known \ {cur} : Fresh(g, base[g], seen[g])'
      BY <2>1, <3>6
    <3>8. \A g \in known' : Fresh(g, base[g], seen[g])'
      BY <3>1, <3>5, <3>7
    <3> QED BY <2>1, <3>8
  <2> QED BY <2>2, <2>3
<1>24. ASSUME ReloadRead PROVE FreshFiles'
  BY <1>24, <1>t DEF ReloadRead, Begin, fsVars, lockVars
<1>25. ASSUME ReloadStat PROVE FreshFiles'
  <2>1. /\ StatusDone(cur) /\ pc = "reloadStat" /\ pc' = "idle" /\ cur' = NoFile /\ from' = NoFile /\ cur \in File
        /\ known' = known /\ base' = base /\ disk' = disk /\ mtime' = mtime
    BY <1>25, <1>e, <1>t DEF ReloadStat, End, fsVars
  <2>2. \A g \in known \ {cur} : seen'[g] = seen[g]
    BY <1>t, <2>1 DEF StatusDone
  <2>3. seen'[cur] \in {seen[cur], mtime[cur]} /\ mtime[cur] \in Nat /\ disk[cur] = base[cur] /\ seen[cur] <= mtime[cur]
    BY <1>t, <2>1 DEF StatusDone
  <2>4. \A g \in known \ {cur} : Fresh(g, base[g], seen[g])'
    BY <2>1, <2>2
  <2>6. seen'[cur] <= mtime[cur]
    BY <2>3
  <2>7. \A g \in known' : Fresh(g, base[g], seen[g])'
    BY <2>1, <2>3, <2>4, <2>6
  <2> QED BY <2>1, <2>7
<1>26. ASSUME ReloadFails PROVE FreshFiles'
  BY <1>26, <1>t DEF ReloadFails, End, fsVars, memVars, lockVars
<1>27. ASSUME Crash PROVE FreshFiles'
  BY <1>27, <1>t DEF Crash, End, fsVars
<1>28. CASE UNCHANGED vars
  BY <1>28 DEF vars, fsVars, memVars, lockVars
<1> QED
  BY <1>1, <1>2, <1>3, <1>4, <1>5, <1>6, <1>7, <1>8, <1>9, <1>10, <1>11, <1>12, <1>13, <1>14, <1>15, <1>16, <1>17, <1>18, <1>19, <1>20, <1>21, <1>22, <1>23, <1>24, <1>25, <1>26, <1>27, <1>28 DEF Next, KernelStep

-----------------------------------------------------------------------------
(* The theorems *)

\* The inductive invariant holds in every reachable state of a session.
THEOREM SessionInvariant == Spec => []SessionInv
<1>1. SessionInv /\ [Next]_vars => SessionInv'
  BY NextTypeOK, NextOneOperation, NextOwnLocks, NextChangesLocked, NextTouched, NextFresh DEF SessionInv
<1> QED BY InitSession, <1>1, PTL DEF Spec

\* Every variable of the session keeps its type.
THEOREM SessionTypeCorrect == Spec => []TypeOK
<1>1. SessionInv => TypeOK
  BY DEF SessionInv
<1> QED BY SessionInvariant, <1>1, PTL

\* Between operations of a kernel that is alone, a file with unsaved changes is
\* locked under its own name.
THEOREM ChangedFilesAreLocked == Spec => []UpdatedIsLocked
<1>1. SessionInv => UpdatedIsLocked
  <2> SUFFICES ASSUME SessionInv, Never({"others", "failures", "saveAsLocked"}), Idle, NEW f \in updated
               PROVE  lock[f] = f
    BY DEF UpdatedIsLocked
  <2>1. f \in File
    BY DEF SessionInv, TypeOK
  <2>2. lock[f] # NoFile
    BY DEF SessionInv, ChangesLocked, LockedOrSaving, Idle
  <2>3. Never({"saveAsLocked"})
    BY DEF Never
  <2> QED BY <2>1, <2>2, <2>3 DEF SessionInv, OwnLocks, LocksInOrder
<1> QED BY SessionInvariant, <1>1, PTL

\* What differs on disk from what the kernel read or wrote is reported as
\* modified, when nobody writes inside an operation and times tell contents apart.
THEOREM ChangesAreReported == Spec => []ChangeIsReported
<1>1. SessionInv => ChangeIsReported
  <2> SUFFICES ASSUME SessionInv, Never({"between", "sameSecond"}), Idle, NEW f \in known,
                      disk[f] # base[f], Status(f) = "FileNotModified"
               PROVE  FALSE
    BY DEF ChangeIsReported
  <2>1. disk[f] # Absent /\ mtime[f] = seen[f]
    BY DEF Status
  <2>2. FreshFiles /\ f \in File
    BY DEF SessionInv, KnownIsFresh, TypeOK
  <2>3. f # cur
    BY <2>2, SessionAssumption DEF FreshFiles
  <2> QED BY <2>1, <2>2, <2>3 DEF FreshFiles, Fresh
<1> QED BY SessionInvariant, <1>1, PTL

\* The steps that change a file on disk.
LEMMA DiskChanges ==
  ASSUME [Next]_vars, disk' # disk
  PROVE  \/ \E f \in File : OtherSaves(f) \/ OtherRemoves(f) \/ NewData(f)
         \/ SaveTouch \/ SaveRename
BY DEF Next, KernelStep, vars, fsVars, OtherLocks, OtherUnlocks, Load, SetActive, CloseData, Modify, Save, Reload, Backup, SaveAs, LoadStat, ResetActive, CreateObject, SaveWrite, SaveUnlock, SaveFlags, SaveStat, SaveFails, ReloadRead, ReloadStat, ReloadFails, Crash

\* A file keeps a complete content through every step and failure of every
\* operation, crashes included.
THEOREM ContentsSurvive == Spec => ContentNeverLost
<1> DEFINE Keep == Never({"newOverOld"}) /\ ~({"saveAsLocked", "between"} \subseteq careless) =>
         \A f \in File : disk[f] \notin {Absent, Empty} /\ ~OtherRemoves(f)
                           => disk'[f] \notin {Absent, Empty}
<1>1. SessionInv /\ [Next]_vars => Keep
  <2> SUFFICES ASSUME SessionInv, [Next]_vars, "newOverOld" \notin careless,
                      ~({"saveAsLocked", "between"} \subseteq careless), NEW f \in File,
                      disk[f] \notin {Absent, Empty}, ~OtherRemoves(f)
               PROVE  disk'[f] \notin {Absent, Empty}
    BY DEF Never
  <2>e. \A g \in File : (Write(g) => WriteDone(g)) /\ (Touch(g) => TouchDone(g))
    BY FileEffect DEF SessionInv
  <2>t. /\ disk \in [File -> Version] /\ written \in Nat /\ written >= 2
        /\ pc # "idle" => cur \in File
    BY SessionAssumption DEF SessionInv, TypeOK, TouchedIsAbsent, OneOperation, Idle, Version
  <2>w. \A g \in File : WriteDone(g) => disk'[f] \in {disk[f], written + 1}
    BY <2>t DEF WriteDone
  <2>x. \A g \in File : TouchDone(g) /\ disk[g] = Absent => disk'[f] = disk[f]
    BY <2>t DEF TouchDone
  <2>v. written + 1 \notin {Absent, Empty}
    BY <2>t DEF Absent, Empty
  <2>1. ASSUME NEW g \in File, OtherSaves(g) PROVE disk'[f] \notin {Absent, Empty}
    BY <2>1, <2>e, <2>w, <2>v DEF OtherSaves
  <2>2. ASSUME NEW g \in File, OtherRemoves(g) PROVE disk'[f] \notin {Absent, Empty}
    BY <2>2, <2>t DEF OtherRemoves
  <2>3. ASSUME NEW g \in File, NewData(g) PROVE disk'[f] \notin {Absent, Empty}
    BY <2>3, <2>e, <2>x DEF NewData
  <2>4. CASE SaveTouch
    <3>1. disk[cur] = Absent /\ cur \in File /\ Touch(cur)
      BY <2>4, <2>t DEF SaveTouch, SessionInv, TouchedIsAbsent
    <3> QED BY <3>1, <2>e, <2>x
  <2>5. CASE SaveRename
    <3>1. cur \in File /\ Write(cur)
      BY <2>5, <2>t DEF SaveRename
    <3> QED BY <3>1, <2>e, <2>w, <2>v
  <2> QED BY <2>1, <2>2, <2>3, <2>4, <2>5, DiskChanges
<1> QED BY SessionInvariant, <1>1, PTL DEF Spec, ContentNeverLost

\* What another process has locked is written by that process only.
THEOREM ForeignFilesUntouched == Spec => ForeignFileUntouched
<1> DEFINE Untouched == \A f \in File :
          Never({"newOverOld", "saveAsLocked"}) /\ f \in other /\ disk[f] # Absent /\ disk'[f] # disk[f]
              => OtherSaves(f) \/ OtherRemoves(f)
<1>1. SessionInv /\ [Next]_vars => Untouched
  <2> SUFFICES ASSUME SessionInv, [Next]_vars, NEW f \in File, "newOverOld" \notin careless,
                      "saveAsLocked" \notin careless, f \in other, disk[f] # Absent, disk'[f] # disk[f]
               PROVE  OtherSaves(f) \/ OtherRemoves(f)
    BY DEF Never
  <2>e. \A g \in File : (Write(g) => WriteDone(g)) /\ (Touch(g) => TouchDone(g))
    BY FileEffect DEF SessionInv
  <2>t. disk \in [File -> Version] /\ (pc # "idle" => cur \in File)
    BY DEF SessionInv, TypeOK, OneOperation, Idle
  <2>o. pc \in BeforeWrite => cur # f
    BY DEF SessionInv, OwnLocks, LocksInOrder, Never
  <2>w. \A g \in File \ {f} : ~WriteDone(g) /\ ~TouchDone(g)
    BY <2>t DEF WriteDone, TouchDone
  <2>1. ASSUME NEW g \in File, OtherSaves(g) PROVE g = f
    BY <2>1, <2>e, <2>w DEF OtherSaves
  <2>2. ASSUME NEW g \in File, OtherRemoves(g) PROVE g = f
    BY <2>2, <2>t DEF OtherRemoves
  <2>3. ASSUME NEW g \in File, NewData(g) PROVE FALSE
    BY <2>3, <2>e, <2>w DEF NewData
  <2>4. ~SaveTouch /\ ~SaveRename
    BY <2>e, <2>o, <2>t, <2>w DEF SaveTouch, SaveRename, BeforeWrite
  <2> QED BY <2>1, <2>2, <2>3, <2>4, DiskChanges
<1> QED BY SessionInvariant, <1>1, PTL DEF Spec, ForeignFileUntouched
=============================================================================
