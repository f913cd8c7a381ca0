\* mmap answers with pages of 4 KB, half a page of the allocator.
CONSTANTS
    PAGE = 2
    Granule = 1
    LastByte = 19
    Pool <- Pools
    SizeOf <- Sizes
    PTR = 1
    CHUNK = 4
    NPAGES = 2
    LargeSizes = {2, 3}
    MaxThreads = 2
SPECIFICATION Spec
INVARIANT SpansMapped
