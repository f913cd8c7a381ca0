SPECIFICATION Spec
CONSTANTS
    Reader = {r1}
    Key = {0, 1, 2, 4, 8}
    Value = {v1, v2}
    Mid = {m1, m2}
    Leaf = {l1, l2}
    Root = Root
    ROOT_LENGTH = 2
    MID_LENGTH = 2
    LEAF_LENGTH = 2
    Null = Null
    Garbage = Garbage
    MaxSets = 2
SYMMETRY Symmetry
INVARIANTS SetsArrive
PROPERTIES ImplementsPageMap PublishedStays
CHECK_DEADLOCK FALSE
