SPECIFICATION Spec
CONSTANTS
    Byte = 2
    Setups <- MCSetups
INVARIANTS ValuesFitAttribute
PROPERTIES SavedIsLoaded MigrationAgrees
CHECK_DEADLOCK FALSE
