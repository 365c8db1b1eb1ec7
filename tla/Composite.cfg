SPECIFICATION Spec
CONSTANTS
    Object = {a, b, c}
    File = {f, g}
    NoFile = NoFile
    Setups <- MCSetups
SYMMETRY Symmetry
INVARIANTS RcrMatchesValues NoDanglingPointer OneParentPerRelationship
PROPERTIES ChangeMarksFile
CHECK_DEADLOCK FALSE
