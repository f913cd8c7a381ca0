\* mmap answers with whole pages of the allocator, as it does where the system's
\* pages are 16 KB or its granularity 64 KB.
CONSTANTS
    PAGE = 2
    Granule = 2
    LastByte = 19
    Pool <- Pools
    SizeOf <- Sizes
    PTR = 1
    CHUNK = 4
    NPAGES = 2
    LargeSizes = {2, 3}
    MaxThreads = 2
SPECIFICATION Spec
INVARIANTS SpansMapped NothingLeaks PoolsSoundUntilThrow
PROPERTIES UnmapsItsOwn
