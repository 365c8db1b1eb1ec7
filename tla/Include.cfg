SPECIFICATION Spec
CONSTANTS
    File = {a, b, c}
    NoFile = NoFile
    Gone = Gone
    Missing = Missing
    MaxEdit = 1
    Ring = {a}
    Careless = {{}, {"cycle"}, {"missingFile"}, {"renameInclude"}, {"dropLastInclude"}, {"closeRelated"}}
SYMMETRY FileSymmetry
INVARIANTS OrphansClosed ParentIncludes LoadedWithIncludes
PROPERTIES IncludedStaysOpen
CHECK_DEADLOCK FALSE
