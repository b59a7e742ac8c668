\* All functions of heap.h, with word-sized requests.
CONSTANTS
    HeapStart = 64
    HeapEnd = 160
    Sizes = {4, 24}
    StalePayload = {0}
SPECIFICATION ApiSpec
INVARIANT PointersUsable
CHECK_DEADLOCK FALSE
