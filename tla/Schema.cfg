SPECIFICATION Spec
CONSTANTS
    Names = 4
    MaxUse = 2
    MaxSupers = 2
    f = f
    g = g
    File = {f, g}
    NoFile = NoFile
    NoClass = NoClass
    Setups <- MCSetups
INVARIANTS Acyclic SuperClassesComplete SubClassesComplete NoDanglingClass
CHECK_DEADLOCK FALSE
