SPECIFICATION Spec
CONSTANTS
    File = {f, g}
    NoFile = NoFile
    MaxVersion = 4
    MaxCrash = 1
    Careless = {{"sameSecond"}, {"newOverOld"}, {"failures"}, {"others", "failures"}, {"saveAsLocked", "others"}, {"others", "newOverOld"},
                {"others", "between", "failures", "sameSecond"}}
SYMMETRY FileSymmetry
INVARIANTS UpdatedIsLocked ChangeIsReported
PROPERTIES ContentNeverLost ForeignFileUntouched
CHECK_DEADLOCK FALSE
