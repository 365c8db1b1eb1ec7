SPECIFICATION Spec
CONSTANTS
    Address = {1, 2, 3, 4, 5}
    Setups <- MCSetups
INVARIANTS MemoryIsFiles ReferencesAreBound ParentsMatchValues OneParentOfPart IdsUniqueInHierarchy ChangesNotified
CHECK_DEADLOCK FALSE
