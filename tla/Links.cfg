CONSTANTS
    Thread = {t1, t2}
    Span = {s1, s2, s3}
    PerSpan = 2
    NumMoveSize = 2
    Null = Null
    Data = Data
SPECIFICATION Spec
SYMMETRY Symmetry
INVARIANTS RingsClosed Counted
PROPERTIES ImplementsLists
