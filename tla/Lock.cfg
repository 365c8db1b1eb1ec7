SPECIFICATION LockSpec
CONSTANTS
    Proc = {p1, p2, p3}
    Name = {f, g}
    MaxInode = 3
    MaxProcCrash = 2
    LockCareless = {{}, {"queryOwn"}, {"renameLocked"}, {"overlap"}}
SYMMETRY ProcSymmetry
INVARIANTS Exclusive HolderKeepsLockFile
PROPERTIES RefusedOnlyWhenHeld
CHECK_DEADLOCK FALSE
