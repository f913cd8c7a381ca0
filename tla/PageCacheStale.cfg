\* The pages of a freed large span are mapped again, next to a chunk.
CONSTANTS
    NPAGES = 4
    SpanId = {s1, s2, s3}
    Null = Null
    LastPage = 5
    ChunkBases = {2}
    LargeBases = {1}
    LargeSizes = {4}
SPECIFICATION Spec
SYMMETRY SpanSymmetry
INVARIANT HeldMapped
