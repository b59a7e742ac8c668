\* kmalloc and kfree with word-sized requests.  108 bytes hold up to six
\* blocks, so splits, remainders too small to split, both merges and exhaustion
\* all happen.
CONSTANTS
    HeapStart = 64
    HeapEnd = 172
    Sizes = {0, 4, 24}
    StalePayload = {0}
SPECIFICATION Spec
INVARIANTS TypeOK BlocksTile AllFreedRestoresHeap
PROPERTY ImplementsAllocator
CHECK_DEADLOCK FALSE
