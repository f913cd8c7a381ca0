SPECIFICATION FairSpec
CONSTANTS
    Thread = {t1, t2}
    Slot = {s1, s2}
    Place = {p1, p2}
    Class = {c1, c2}
    Big = Big
    None = None
    NumMove = 2
    Calls = 4
    AnyoneFrees = FALSE
    MaxEnds = 0
INVARIANTS ClassHolds
PROPERTIES CallsReturn
CHECK_DEADLOCK FALSE
