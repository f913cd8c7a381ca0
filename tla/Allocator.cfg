SPECIFICATION Spec
CONSTANTS
    Thread = {t1, t2, t3}
    Slot = {s1, s2, s3}
    Place = {p1, p2}
    Class = {c1}
    Big = Big
    None = None
    NumMove = 2
    Calls = None
    AnyoneFrees = TRUE
    MaxEnds = 1
SYMMETRY Symmetry
INVARIANTS TypeOK OnePlace NothingLost ShortLists ReturnedUnused StrandedFew NoDeadlock
PROPERTIES FlushesAll ImplementsMalloc
