------------------------------- MODULE Paging -------------------------------
(***************************************************************************)
(* The kernel's page table: src/mm/paging.c on top of src/mm/frame.c.      *)
(* Only the first page table is ever used, so a virtual address is the     *)
(* index of its entry; an entry is a frame number, or None when it is not  *)
(* present.                                                                *)
(***************************************************************************)
EXTENDS Frames

CONSTANTS
    NPages,         \* entries of a page table (1024)
    None            \* an entry that is not present

ASSUME PagingAssumption ==
    /\ NPages \in Nat
    /\ KernelFrames < NPages
    /\ None \notin FrameSet

VARIABLES
    frame_map,      \* frames whose bit is set
    pt_entry,       \* first_page_table
    next_free_page, \* the page kalloc_page hands out next
    halt,           \* "no", or the panic or fault that stopped the kernel
    cleared         \* history: words of frame_map that kfree_frame has cleared

pagingVars == <<frame_map, pt_entry, next_free_page, halt, cleared>>

Pages == 0..(NPages - 1)
Present(p) == pt_entry[p] # None

Panics == {"Ran out of page frames", "Ran out of free pages",
           "Page table entry not present"}

\* find_free_page: the first entry that is not present, from entry 0.
FindFreePage(pt) ==
    {p \in Pages : pt[p] = None /\ \A q \in Pages : pt[q] = None => p <= q}

-----------------------------------------------------------------------------
\* Defect: the first free page is taken to be one page up.
PagingInitSkipsPage ==
    /\ frame_map = InitialFrames
    /\ pt_entry = [p \in Pages |-> IF p < KernelFrames THEN p ELSE None]
    /\ next_free_page = KernelFrames + 1
    /\ halt = "no"
    /\ cleared = {}

\* init_frames, then init_paging: page i maps frame i up to the kernel's end.
PagingInit ==
    /\ frame_map = InitialFrames
    /\ pt_entry = [p \in Pages |-> IF p < KernelFrames THEN p ELSE None]
    /\ next_free_page = KernelFrames
    /\ halt = "no"
    /\ cleared = {}

\* Defect: next_free_page just moves up.
AllocBumpsPage ==
    \/ /\ KallocFrame(frame_map) = {}
       /\ halt' = "Ran out of page frames"
       /\ UNCHANGED <<frame_map, pt_entry, next_free_page, cleared>>
    \/ \E f \in KallocFrame(frame_map) :
       /\ frame_map' = frame_map \cup {f}
       /\ pt_entry' = [pt_entry EXCEPT ![next_free_page] = f]
       /\ IF next_free_page + 1 = NPages
          THEN halt' = "Ran out of free pages" /\ UNCHANGED next_free_page
          ELSE next_free_page' = next_free_page + 1 /\ UNCHANGED halt
       /\ UNCHANGED cleared

\* Defect: the frame is not marked ("just added this, could be wrong!!!").
AllocLeavesUnmarked ==
    \/ /\ KallocFrame(frame_map) = {}
       /\ halt' = "Ran out of page frames"
       /\ UNCHANGED <<frame_map, pt_entry, next_free_page, cleared>>
    \/ \E f \in KallocFrame(frame_map) :
       /\ pt_entry' = [pt_entry EXCEPT ![next_free_page] = f]
       /\ \/ /\ FindFreePage(pt_entry') = {}
             /\ halt' = "Ran out of free pages"
             /\ UNCHANGED next_free_page
          \/ /\ next_free_page' \in FindFreePage(pt_entry')
             /\ UNCHANGED halt
       /\ UNCHANGED <<frame_map, cleared>>

\* kalloc_page: take a frame, map it at next_free_page, and look for the page to
\* hand out next; each of the two searches panics when it finds nothing.
KallocPage ==
    \/ /\ KallocFrame(frame_map) = {}
       /\ halt' = "Ran out of page frames"
       /\ UNCHANGED <<frame_map, pt_entry, next_free_page, cleared>>
    \/ \E f \in KallocFrame(frame_map) :
       /\ frame_map' = frame_map \cup {f}
       /\ pt_entry' = [pt_entry EXCEPT ![next_free_page] = f]
       /\ \/ /\ FindFreePage(pt_entry') = {}
             /\ halt' = "Ran out of free pages"
             /\ UNCHANGED next_free_page
          \/ /\ next_free_page' \in FindFreePage(pt_entry')
             /\ UNCHANGED halt
       /\ UNCHANGED cleared

\* kfree_page: get_phys_addr panics on an entry that is not present; otherwise
\* the frame is freed, the entry cleared and the page handed out next.
KfreePage(p) ==
    \/ /\ ~Present(p)
       /\ halt' = "Page table entry not present"
       /\ UNCHANGED <<frame_map, pt_entry, next_free_page, cleared>>
    \/ /\ Present(p)
       /\ frame_map' = KfreeFrame(frame_map, pt_entry[p])
       /\ cleared' = cleared \cup {Word(pt_entry[p])}
       /\ pt_entry' = [pt_entry EXCEPT ![p] = None]
       /\ next_free_page' = p
       /\ UNCHANGED halt

\* Callers free only pages above the kernel's own.
PagingNext ==
    /\ halt = "no"
    /\ \/ KallocPage
       \/ \E p \in Pages : p >= KernelFrames /\ KfreePage(p)

PagingSpec == PagingInit /\ [][PagingNext]_pagingVars

-----------------------------------------------------------------------------
(* Properties.                                                             *)

PagingTypeOK ==
    /\ frame_map \subseteq FrameSet
    /\ pt_entry \in [Pages -> FrameSet \cup {None}]
    /\ next_free_page \in Pages
    /\ cleared \subseteq {Word(f) : f \in FrameSet}

\* While the kernel runs, the page kalloc_page will hand out next is not in use:
\* no allocation replaces a mapping that is present, whatever pages are freed
\* in whatever order.
NextFreePageUnused == halt = "no" => ~Present(next_free_page)

\* In each word of frame_map the marked frames are the lowest ones.
\* kalloc_frame's loop condition tests the rest of the word, not one bit, and
\* would otherwise skip frames that are free.
WordsFillUpwards ==
    \A f \in frame_map : \A g \in FrameSet :
        g <= f /\ Word(g) = Word(f) => g \in frame_map

\* kalloc_frame panics only when every frame is taken.
FramePanicMeansFull ==
    halt = "Ran out of page frames" => frame_map = FrameSet

\* A frame mapped by a page is marked, unless kfree_frame has cleared its word.
MappedFramesMarked ==
    \A p \in Pages : Present(p) => \/ pt_entry[p] \in frame_map
                                   \/ Word(pt_entry[p]) \in cleared

\* Two pages share a frame only if kfree_frame, freeing some frame of that word,
\* had also cleared the marks of its neighbours.
AliasOnlyInClearedWords ==
    \A p, q \in Pages :
        p # q /\ Present(p) /\ pt_entry[p] = pt_entry[q] =>
            Word(pt_entry[p]) \in cleared
=============================================================================
