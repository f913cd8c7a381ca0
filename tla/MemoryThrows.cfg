\* SystemAlloc throws in a pool, and the pool is asked again.
CONSTANTS
    PAGE = 2
    Granule = 2
    LastByte = 19
    Pool <- Pools
    SizeOf <- Sizes
    PTR = 1
    CHUNK = 4
    NPAGES = 2
    LargeSizes = {2, 3}
    MaxThreads = 2
SPECIFICATION Spec
INVARIANT PoolsSound
