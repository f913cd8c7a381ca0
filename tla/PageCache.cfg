\* Two chunks side by side; a large request may be mapped where one of them
\* would be, but not so that a chunk touches its first page.
CONSTANTS
    NPAGES = 4
    SpanId = {s1, s2, s3, s4, s5, s6}
    Null = Null
    LastPage = 9
    ChunkBases = {3, 6}
    LargeBases = {1}
    LargeSizes = {4, 5}
SPECIFICATION Spec
SYMMETRY SpanSymmetry
INVARIANTS Inv MergesNeighbours
PROPERTIES CoalescedOnRelease OperationsEnd ImplementsPageHeap
