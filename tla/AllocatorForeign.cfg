SPECIFICATION Spec
CONSTANTS
    Thread = {t1, t2}
    Slot = {s1, s2}
    Place = {p1, p2}
    Class = {c1}
    Big = Big
    None = None
    NumMove = 2
    Calls = None
    AnyoneFrees = TRUE
    MaxEnds = 0
SYMMETRY Symmetry
INVARIANTS AnyThreadMayFree
