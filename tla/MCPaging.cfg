\* Two full words of frames and a short one.  There is one page more than there
\* are frames, so frames run out first until frees, which clear whole words, let
\* pages share frames and run out instead.
CONSTANTS
    NFrames = 7
    WordBits = 3
    KernelFrames = 2
    NPages = 8
    None = None
SPECIFICATION PagingSpec
INVARIANTS NextFreePageUnused FramePanicMeansFull AliasOnlyInClearedWords
CHECK_DEADLOCK FALSE
