SPECIFICATION LayoutSpec
CONSTANTS
    AttributeName = {p, q}
    RelationshipName = {r}
    ItemType = {s, t}
    LayoutSetups <- MCSetups
SYMMETRY Symmetry
INVARIANTS OwnValues
PROPERTIES ValuesKept
CHECK_DEADLOCK FALSE
