------------------------------- MODULE Frames -------------------------------
(***************************************************************************)
(* The physical frame bitmap: src/mm/frame.c.  frame_map is the set of     *)
(* frames whose bit is 1; a word holds WordBits of them (32 in the code).  *)
(***************************************************************************)
EXTENDS Integers

CONSTANTS
    NFrames,        \* nframes: memory size in KiB / 4
    WordBits,       \* bits in a word of frame_map
    KernelFrames    \* first_free_frame / 0x1000: frames below the kernel's end

ASSUME FramesAssumption ==
    /\ NFrames \in Nat \ {0}
    /\ WordBits \in Nat \ {0}
    /\ KernelFrames \in Nat /\ KernelFrames <= NFrames

FrameSet == 0..(NFrames - 1)

Word(f) == f \div WordBits

\* kalloc_frame's loop leaves i: the rest of its word, from bit i up, is 0.
RestOfWordClear(m, i) == \A j \in m : Word(j) = Word(i) => j < i

\* The frame kalloc_frame takes: the lowest that ends its loop.  When there is
\* none, i reaches nframes - 1 and the kernel panics.
KallocFrame(m) ==
    {i \in FrameSet : /\ RestOfWordClear(m, i)
                      /\ \A j \in FrameSet : RestOfWordClear(m, j) => i <= j}

\* Defect: only the bit of the frame is cleared, and kalloc_frame is not adapted.
KfreeOneBit(m, f) == m \ {f}

\* kfree_frame: "&= 0 << frame" clears every bit of the frame's word.
KfreeFrame(m, f) == {j \in m : Word(j) # Word(f)}

\* init_frames: kalloc_frame once for each frame below the kernel's end, on an
\* empty map.
InitialFrames == 0..(KernelFrames - 1)
=============================================================================
