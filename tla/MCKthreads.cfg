\* Threads created, joined and created again, in the same struct or another, in every
\* order, until pages run out.  With one heap page the first stack begins a word of
\* frame_map, and a thread created after a join gets a frame of its own.  With two, that
\* word also holds a frame of the heap, so the page of a freed stack comes back with
\* another frame.
CONSTANTS
    NFrames = 9
    WordBits = 3
    KernelFrames = 2
    NPages = 8
    None = None
    MaxThreads = 5
    HeapPages = {1, 2}
SPECIFICATION FairSpec
INVARIANTS PagesApart OnlyLiveThreadsRun RoundRobin PushReachesStack
PROPERTY MainRunsAgain
CHECK_DEADLOCK FALSE
