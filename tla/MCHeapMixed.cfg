\* kmalloc with a one-byte and word-sized requests.
CONSTANTS
    HeapStart = 64
    HeapEnd = 160
    Sizes = {1, 4}
    StalePayload = {0}
SPECIFICATION Spec
INVARIANT RegionsApart
CHECK_DEADLOCK FALSE
