SPECIFICATION Spec
CONSTANTS
    Address = {1, 2, 3}
    Setups <- RaceSetups
INVARIANTS IdsUniqueInHierarchy
CHECK_DEADLOCK FALSE
