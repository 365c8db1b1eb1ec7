SPECIFICATION Spec
CONSTANTS
    o1 = o1
    o2 = o2
    o3 = o3
    Object = {o1, o2, o3}
    Class <- MCClass
    Index = {i, j}
    Attribute = {"x", "y"}
    Multi = {"y"}
    ValuesOf <- MCValuesOf
    NoClass = NoClass
    NoIndex = NoIndex
    Careless = {{}, {"multiValues"}}
    SubClasses <- MCSubClasses
    Relationship <- MCRelationship
    Target <- MCTarget
    ManyValues = {"s"}
    Null = Null
    SearchTexts <- MCSearchTexts
    Texts <- MCTexts
    PathTexts <- MCPathTexts
    MaxRefs = 4
SYMMETRY Symmetry
INVARIANTS IndexIsExact SearchIsExact  PathIsFound
CHECK_DEADLOCK FALSE
