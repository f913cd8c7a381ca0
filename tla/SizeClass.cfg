CONSTANTS
    MidAligns = {128, 512}
    SizeMax = 1048576
    First = 0
    Last = 278528
SPECIFICATION Spec
INVARIANTS RoundUpCovers RoundUpIdempotent IndexInRange SpanFits CarveInSpan
PROPERTY ClassesAgree
\* The walk ends at Last.
CHECK_DEADLOCK FALSE
