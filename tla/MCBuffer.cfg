\* Two callers, who may hold one buffer at a time, as bdev_read does, or two, as
\* ext2 does; two of the blocks share a chain.
CONSTANTS
    NBuf = 3
    Buckets = 4
    Blocks = {1, 2, 3, 5}
    Values = {0, 1}
    Holders = {h1, h2}
    StaleDirty = {FALSE, TRUE}
    StaleCount = {0, 1}
SYMMETRY HolderSymmetry
SPECIFICATION Spec
INVARIANTS ChainsEnd PoolServesTwice MissedBufferStays
PROPERTY ImplementsStore
CHECK_DEADLOCK FALSE
