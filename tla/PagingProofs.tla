---------------------------- MODULE PagingProofs ----------------------------
(***************************************************************************)
(* Proofs about the frame bitmap, the page table and the kernel threads    *)
(* that live on it, for every number of frames, pages, bits in a word,     *)
(* heap pages and threads.                                                 *)
(***************************************************************************)
EXTENDS Kthreads, WellFoundedInduction, TLAPS

\* A set of numbers that is not empty has a least one, at which a search stops.
LEMMA LeastNatural ==
    ASSUME NEW T \in SUBSET Nat, T # {}
    PROVE  \E x \in T : \A y \in T : x <= y
PROOF
  <1>1. IsWellFoundedOn(OpToRel(<, Nat), Nat)
    BY NatLessThanWellFounded
  <1>2. PICK x \in T : \A y \in T : ~ (<<y, x>> \in OpToRel(<, Nat))
    BY <1>1, WFMin
  <1>3. \A y \in T : ~ (y < x)
    BY <1>2 DEF OpToRel
  <1> QED BY <1>3

\* kalloc_frame takes an unmarked frame, and never when a lower one would do.
LEMMA KallocFrameTakes ==
    ASSUME NEW m \in SUBSET FrameSet, NEW f \in KallocFrame(m)
    PROVE  /\ f \in FrameSet /\ f \notin m
           /\ \A g \in FrameSet : g < f => ~ RestOfWordClear(m, g)
PROOF
  <1>1. /\ f \in FrameSet /\ f \in Int /\ RestOfWordClear(m, f)
        /\ \A j \in FrameSet : RestOfWordClear(m, j) => f <= j
    BY FramesAssumption DEF KallocFrame, FrameSet
  <1>2. f \notin m
    BY <1>1 DEF RestOfWordClear
  <1>3. ASSUME NEW g \in FrameSet, g < f PROVE ~ RestOfWordClear(m, g)
    BY <1>1, <1>3 DEF FrameSet
  <1> QED BY <1>1, <1>2, <1>3

\* In each word the frames of m are the lowest ones.
FillsUpwards(m) ==
    \A f \in m : \A g \in FrameSet : g <= f /\ Word(g) = Word(f) => g \in m

\* A frame that kalloc_frame's test of a whole word passes over is really taken.
LEMMA SearchFailsOnMarked ==
    ASSUME NEW m \in SUBSET FrameSet, FillsUpwards(m), NEW g \in FrameSet,
           ~ RestOfWordClear(m, g)
    PROVE  g \in m
PROOF
  <1>1. PICK j \in m : Word(j) = Word(g) /\ ~ (j < g)
    BY DEF RestOfWordClear
  <1>2. j \in Int /\ g \in Int /\ g <= j
    BY <1>1, FramesAssumption DEF FrameSet
  <1> QED BY <1>1, <1>2 DEF FillsUpwards

\* kalloc_frame finds nothing only when every frame is marked.
LEMMA SearchFailsOnFull ==
    ASSUME NEW m \in SUBSET FrameSet, FillsUpwards(m), KallocFrame(m) = {}
    PROVE  m = FrameSet
PROOF
  <1>1. \A g \in FrameSet : ~ RestOfWordClear(m, g)
    <2>1. SUFFICES ASSUME NEW g \in FrameSet, RestOfWordClear(m, g) PROVE FALSE
      OBVIOUS
    <2> DEFINE T == {i \in FrameSet : RestOfWordClear(m, i)}
    <2>2. T \in SUBSET Nat /\ T # {}
      BY <2>1, FramesAssumption DEF FrameSet
    <2>3. PICK x \in T : \A y \in T : x <= y
      BY <2>2, LeastNatural
    <2>4. x \in KallocFrame(m)
      BY <2>3 DEF KallocFrame
    <2> QED BY <2>4
  <1>2. \A g \in FrameSet : g \in m
    BY <1>1, SearchFailsOnMarked
  <1> QED BY <1>2

\* kalloc_frame marks the lowest free frame of its word.
LEMMA AllocFillsUpwards ==
    ASSUME NEW m \in SUBSET FrameSet, FillsUpwards(m), NEW x \in KallocFrame(m)
    PROVE  FillsUpwards(m \cup {x})
PROOF
  <1>1. x \in FrameSet /\ \A g \in FrameSet : g < x => ~ RestOfWordClear(m, g)
    BY KallocFrameTakes
  <1>2. SUFFICES ASSUME NEW f \in m \cup {x}, NEW g \in FrameSet, g <= f,
                        Word(g) = Word(f)
                 PROVE  g \in m \cup {x}
    BY DEF FillsUpwards
  <1>3. CASE f \in m
    BY <1>2, <1>3 DEF FillsUpwards
  <1>4. CASE f = x
    <2>1. g = x \/ g < x
      BY <1>1, <1>2, <1>4, FramesAssumption DEF FrameSet
    <2>2. CASE g < x
      BY <2>2, <1>1, SearchFailsOnMarked
    <2> QED BY <2>1, <2>2
  <1> QED BY <1>2, <1>3, <1>4

\* kfree_frame, which clears a whole word, leaves the other words as they are.
LEMMA FreeFillsUpwards ==
    ASSUME NEW m \in SUBSET FrameSet, FillsUpwards(m), NEW x \in FrameSet
    PROVE  FillsUpwards(KfreeFrame(m, x)) /\ KfreeFrame(m, x) \subseteq m
  BY DEF FillsUpwards, KfreeFrame

-----------------------------------------------------------------------------
\* The inductive invariant.  That pages do not share frames is not inductive by
\* itself: it needs every mapped frame to be marked, or in a cleared word; and
\* that a failed search means no frame is left needs the marked frames of a word
\* to be its lowest.
PagingInv ==
    /\ PagingTypeOK
    /\ NextFreePageUnused
    /\ FillsUpwards(frame_map)
    /\ FramePanicMeansFull
    /\ MappedFramesMarked
    /\ AliasOnlyInClearedWords

\* What init_paging sets up satisfies the inductive invariant.
LEMMA PagingInitInv == PagingInit => PagingInv
PROOF
  <1> USE FramesAssumption, PagingAssumption
  <1> SUFFICES ASSUME PagingInit PROVE PagingInv
    OBVIOUS
  <1>1. /\ frame_map = 0..(KernelFrames - 1)
        /\ pt_entry = [p \in Pages |-> IF p < KernelFrames THEN p ELSE None]
        /\ next_free_page = KernelFrames /\ halt = "no" /\ cleared = {}
    BY DEF PagingInit, InitialFrames
  <1>2. \A p \in Pages : p \in Nat /\ (p < KernelFrames => p \in FrameSet)
    BY DEF Pages, FrameSet
  <1>3. PagingTypeOK
    BY <1>1, <1>2 DEF PagingTypeOK, Pages, FrameSet
  <1>4. NextFreePageUnused
    BY <1>1 DEF NextFreePageUnused, Present, Pages
  <1>5. FillsUpwards(frame_map)
    BY <1>1 DEF FillsUpwards, FrameSet
  <1>6. FramePanicMeansFull
    BY <1>1 DEF FramePanicMeansFull
  <1>7. MappedFramesMarked
    BY <1>1, <1>2 DEF MappedFramesMarked, Present
  <1>8. AliasOnlyInClearedWords
    BY <1>1, <1>2 DEF AliasOnlyInClearedWords, Present
  <1> QED BY <1>3, <1>4, <1>5, <1>6, <1>7, <1>8 DEF PagingInv

\* kalloc_page preserves the inductive invariant, also when it panics.
LEMMA KallocPageInv ==
    ASSUME PagingInv, halt = "no", KallocPage PROVE PagingInv'
PROOF
  <1> USE FramesAssumption, PagingAssumption
  <1>i. /\ frame_map \in SUBSET FrameSet
        /\ pt_entry \in [Pages -> FrameSet \cup {None}]
        /\ next_free_page \in Pages
        /\ cleared \subseteq {Word(f) : f \in FrameSet}
        /\ FillsUpwards(frame_map)
    BY DEF PagingInv, PagingTypeOK
  <1>1. CASE /\ KallocFrame(frame_map) = {}
             /\ halt' = "Ran out of page frames"
             /\ UNCHANGED <<frame_map, pt_entry, next_free_page, cleared>>
    <2>1. frame_map = FrameSet
      BY <1>1, <1>i, SearchFailsOnFull
    <2> QED BY <1>1, <2>1
            DEF PagingInv, PagingTypeOK, NextFreePageUnused, Present,
                FramePanicMeansFull, MappedFramesMarked, AliasOnlyInClearedWords
  <1>2. ASSUME NEW f \in KallocFrame(frame_map),
               frame_map' = frame_map \cup {f},
               pt_entry' = [pt_entry EXCEPT ![next_free_page] = f],
               \/ /\ FindFreePage(pt_entry') = {}
                  /\ halt' = "Ran out of free pages"
                  /\ UNCHANGED next_free_page
               \/ /\ next_free_page' \in FindFreePage(pt_entry')
                  /\ UNCHANGED halt,
               UNCHANGED cleared
        PROVE  PagingInv'
    <2>1. f \in FrameSet /\ f \notin frame_map /\ f # None
      BY <1>i, KallocFrameTakes
    <2>2. pt_entry' \in [Pages -> FrameSet \cup {None}]
          /\ pt_entry'[next_free_page] = f
          /\ \A p \in Pages \ {next_free_page} : pt_entry'[p] = pt_entry[p]
      BY <1>2, <1>i, <2>1
    <2>3. PagingTypeOK'
      BY <1>2, <1>i, <2>1, <2>2 DEF PagingTypeOK, FindFreePage
    <2>4. NextFreePageUnused'
      BY <1>2 DEF NextFreePageUnused, FindFreePage, Present
    <2>5. FillsUpwards(frame_map')
      BY <1>2, <1>i, AllocFillsUpwards
    <2>6. FramePanicMeansFull'
      BY <1>2 DEF FramePanicMeansFull
    <2>7. MappedFramesMarked'
      <3>1. SUFFICES ASSUME NEW p \in Pages, pt_entry'[p] # None
                     PROVE  pt_entry'[p] \in frame_map' \/ Word(pt_entry'[p]) \in cleared'
        BY DEF MappedFramesMarked, Present
      <3>2. CASE p = next_free_page
        BY <3>2, <1>2, <2>2
      <3>3. CASE p # next_free_page
        <4>1. pt_entry'[p] = pt_entry[p]
          BY <3>3, <2>2
        <4>2. pt_entry[p] \in frame_map \/ Word(pt_entry[p]) \in cleared
          BY <4>1, <3>1 DEF PagingInv, MappedFramesMarked, Present
        <4>3. cleared' = cleared /\ frame_map \subseteq frame_map'
          BY <1>2
        <4>4. CASE pt_entry[p] \in frame_map
          BY <4>1, <4>3, <4>4
        <4>5. CASE Word(pt_entry[p]) \in cleared
          BY <4>1, <4>3, <4>5
        <4> QED BY <4>2, <4>4, <4>5
      <3> QED BY <3>2, <3>3
    <2>8. AliasOnlyInClearedWords'
      <3>1. SUFFICES ASSUME NEW p \in Pages, NEW q \in Pages, p # q,
                            pt_entry'[p] # None, pt_entry'[p] = pt_entry'[q]
                     PROVE  Word(pt_entry'[p]) \in cleared
        BY <1>2 DEF AliasOnlyInClearedWords, Present
      <3>2. ASSUME NEW r \in Pages \ {next_free_page}, pt_entry[r] = f
            PROVE  Word(f) \in cleared
        BY <3>2, <2>1 DEF PagingInv, MappedFramesMarked, Present
      <3>3. CASE p = next_free_page \/ q = next_free_page
        BY <3>1, <3>2, <3>3, <2>2
      <3>4. CASE p # next_free_page /\ q # next_free_page
        <4>1. pt_entry'[p] = pt_entry[p] /\ pt_entry'[q] = pt_entry[q]
          BY <3>4, <2>2
        <4> QED BY <4>1, <3>1 DEF PagingInv, AliasOnlyInClearedWords, Present
      <3> QED BY <3>3, <3>4
    <2> QED BY <2>3, <2>4, <2>5, <2>6, <2>7, <2>8 DEF PagingInv
  <1> QED BY <1>1, <1>2 DEF KallocPage

\* kfree_page preserves the inductive invariant.
LEMMA KfreePageInv ==
    ASSUME PagingInv, halt = "no", NEW x \in Pages, KfreePage(x) PROVE PagingInv'
PROOF
  <1> USE FramesAssumption, PagingAssumption
  <1>i. /\ frame_map \in SUBSET FrameSet
        /\ pt_entry \in [Pages -> FrameSet \cup {None}]
        /\ next_free_page \in Pages
        /\ cleared \subseteq {Word(f) : f \in FrameSet}
        /\ FillsUpwards(frame_map)
    BY DEF PagingInv, PagingTypeOK
  <1>1. CASE /\ ~Present(x)
             /\ halt' = "Page table entry not present"
             /\ UNCHANGED <<frame_map, pt_entry, next_free_page, cleared>>
    BY <1>1 DEF PagingInv, PagingTypeOK, NextFreePageUnused, Present,
                FramePanicMeansFull, MappedFramesMarked, AliasOnlyInClearedWords
  <1>2. CASE /\ Present(x)
             /\ frame_map' = KfreeFrame(frame_map, pt_entry[x])
             /\ cleared' = cleared \cup {Word(pt_entry[x])}
             /\ pt_entry' = [pt_entry EXCEPT ![x] = None]
             /\ next_free_page' = x
             /\ UNCHANGED halt
    <2>1. pt_entry[x] \in FrameSet
      BY <1>2, <1>i DEF Present
    <2>2. FillsUpwards(frame_map') /\ frame_map' \subseteq frame_map
      BY <1>2, <1>i, <2>1, FreeFillsUpwards
    <2>3. pt_entry' \in [Pages -> FrameSet \cup {None}]
          /\ pt_entry'[x] = None
          /\ \A p \in Pages \ {x} : pt_entry'[p] = pt_entry[p]
      BY <1>2, <1>i
    <2>4. PagingTypeOK'
      BY <1>2, <1>i, <2>1, <2>2, <2>3 DEF PagingTypeOK
    <2>5. NextFreePageUnused'
      BY <1>2, <2>3 DEF NextFreePageUnused, Present
    <2>6. FramePanicMeansFull'
      BY <1>2 DEF FramePanicMeansFull
    <2>7. MappedFramesMarked'
      <3>1. SUFFICES ASSUME NEW p \in Pages, pt_entry'[p] # None
                     PROVE  pt_entry'[p] \in frame_map' \/ Word(pt_entry'[p]) \in cleared'
        BY DEF MappedFramesMarked, Present
      <3>2. pt_entry'[p] = pt_entry[p]
        BY <3>1, <2>3
      <3>3. pt_entry[p] \in frame_map \/ Word(pt_entry[p]) \in cleared
        BY <3>1, <3>2 DEF PagingInv, MappedFramesMarked, Present
      <3> QED BY <3>2, <3>3, <1>2 DEF KfreeFrame
    <2>8. AliasOnlyInClearedWords'
      <3>1. SUFFICES ASSUME NEW p \in Pages, NEW q \in Pages, p # q,
                            pt_entry'[p] # None, pt_entry'[p] = pt_entry'[q]
                     PROVE  Word(pt_entry'[p]) \in cleared'
        BY DEF AliasOnlyInClearedWords, Present
      <3>2. pt_entry'[p] = pt_entry[p] /\ pt_entry'[q] = pt_entry[q]
        BY <3>1, <2>3
      <3>3. Word(pt_entry[p]) \in cleared
        BY <3>1, <3>2 DEF PagingInv, AliasOnlyInClearedWords, Present
      <3> QED BY <3>2, <3>3, <1>2
    <2> QED BY <2>2, <2>4, <2>5, <2>6, <2>7, <2>8 DEF PagingInv
  <1> QED BY <1>1, <1>2 DEF KfreePage

\* A step that leaves the page table alone preserves it.
LEMMA PagingUnchanged == ASSUME PagingInv, UNCHANGED pagingVars PROVE PagingInv'
  BY DEF pagingVars, PagingInv, PagingTypeOK, NextFreePageUnused, Present,
         FramePanicMeansFull, MappedFramesMarked, AliasOnlyInClearedWords

-----------------------------------------------------------------------------
\* kalloc_page and kfree_page (paging.c) keep the inductive invariant.
THEOREM PagingInvariant == PagingSpec => []PagingInv
PROOF
  <1>1. PagingInv /\ [PagingNext]_pagingVars => PagingInv'
    <2> SUFFICES ASSUME PagingInv, [PagingNext]_pagingVars PROVE PagingInv'
      OBVIOUS
    <2>1. CASE UNCHANGED pagingVars
      BY <2>1, PagingUnchanged
    <2>2. CASE PagingNext
      BY <2>2, KallocPageInv, KfreePageInv DEF PagingNext
    <2> QED BY <2>1, <2>2
  <1> QED BY <1>1, PagingInitInv, PTL DEF PagingSpec

\* The page table, the bitmap and next_free_page stay in range.
THEOREM PagingTypeCorrect == PagingSpec => []PagingTypeOK
PROOF
  <1>1. PagingInv => PagingTypeOK
    BY DEF PagingInv
  <1> QED BY <1>1, PagingInvariant, PTL

\* kalloc_page never replaces a mapping that is present.
THEOREM NextPageTheorem == PagingSpec => []NextFreePageUnused
PROOF
  <1>1. PagingInv => NextFreePageUnused
    BY DEF PagingInv
  <1> QED BY <1>1, PagingInvariant, PTL

\* kalloc_frame panics only when every frame is marked.
THEOREM FramePanicTheorem == PagingSpec => []FramePanicMeansFull
PROOF
  <1>1. PagingInv => FramePanicMeansFull
    BY DEF PagingInv
  <1> QED BY <1>1, PagingInvariant, PTL

\* Pages share a frame only where kfree_frame cleared a whole word.
THEOREM AliasTheorem == PagingSpec => []AliasOnlyInClearedWords
PROOF
  <1>1. PagingInv => AliasOnlyInClearedWords
    BY DEF PagingInv
  <1> QED BY <1>1, PagingInvariant, PTL

\* The marked frames of every word of frame_map are its lowest ones, which the
\* test of kalloc_frame's loop relies on.
THEOREM WordShapeTheorem == PagingSpec => []WordsFillUpwards
PROOF
  <1>1. PagingInv => WordsFillUpwards
    BY DEF PagingInv, FillsUpwards, WordsFillUpwards
  <1> QED BY <1>1, PagingInvariant, PTL

-----------------------------------------------------------------------------
(* Kernel threads.                                                         *)

\* The inductive invariant of the memory the threads use.  kernel_main takes the
\* heap pages to be consecutive, which holds because until the last of them is
\* mapped no page behind them is.
StacksInv ==
    /\ PagingInv
    /\ heap_pages \in Nat
    /\ booted \in 0..heap_pages
    /\ live \subseteq Slots
    /\ stack \in [Slots -> Pages \cup {None}]
    /\ booted < heap_pages => live = {} /\ running_thread = Main
    /\ halt = "no" => \A p \in Pages : p < KernelFrames + booted => Present(p)
    /\ halt = "no" /\ booted < heap_pages =>
         /\ next_free_page = KernelFrames + booted
         /\ \A p \in Pages : p >= KernelFrames + booted => ~Present(p)
    /\ \A t \in live : /\ stack[t] \in Pages
                       /\ stack[t] >= KernelFrames + heap_pages
                       /\ halt = "no" => Present(stack[t])
    /\ \A t, u \in live : t # u => stack[t] # stack[u]

\* What the translation cache holds agrees with the page table, and main_thread,
\* under which pages are mapped and freed, finds it empty.
TlbInv ==
    /\ tlb \in [Pages -> FrameSet \cup {None}]
    /\ \A p \in Pages : tlb[p] # None => tlb[p] = pt_entry[p]
    /\ running_thread = Main => \A p \in Pages : tlb[p] = None
    /\ PushReachesStack

\* The list while threads are joined one at a time, and created again in the struct that
\* was joined: ord has the live structs in the order of their creation, and they are linked
\* in it.  Once the last of them was joined it stays linked behind main_thread.
ListShape(k, ord) ==
    /\ live = {ord[i] : i \in 1..k}
    /\ \A i, j \in 1..k : ord[i] = ord[j] => i = j
    /\ k > 0 => /\ next[Main] = ord[1]
                /\ \A i \in 1..(k - 1) : next[ord[i]] = ord[i + 1]
                /\ last_thread = ord[k]
    /\ k = 0 => last_thread = Main \/ (last_thread \in Slots /\ next[Main] = last_thread)

\* Whose turn it is, and who had one since main_thread last ran.
TurnsInv(k, ord) ==
    /\ running_thread = Main => live \subseteq ran
    /\ running_thread # Main =>
         \E j \in 1..k : running_thread = ord[j] /\ ran = {ord[i] : i \in 1..j}

\* There is an order of creation with both.
InOrder ==
    \E k \in Nat : \E ord \in [1..k -> Slots] : ListShape(k, ord) /\ TurnsInv(k, ord)

\* The inductive invariant of the list.
ListInv ==
    /\ next \in [Threads -> Threads \cup {None}]
    /\ last_thread \in Threads
    /\ ~overlapped /\ ~strayed => InOrder
    /\ ~overlapped /\ strayed => dead # "no" /\ running_thread # Main

KthreadsInv == StacksInv /\ TlbInv /\ ListInv /\ OnlyLiveThreadsRun

\* NULL is not a page and no thread.
LEMMA NoneApart == None \notin Pages /\ None \notin Threads
  BY KthreadsAssumption, PagingAssumption DEF Pages, Threads, Slots, Main

\* What kalloc_page does to the page table while the kernel goes on: it maps the
\* free page it was going to hand out, and then looks for the lowest free one.
LEMMA KallocPageMaps ==
    ASSUME PagingInv, halt = "no", KallocPage, halt' = "no"
    PROVE  /\ next_free_page \in Pages /\ pt_entry[next_free_page] = None
           /\ pt_entry'[next_free_page] \in FrameSet
           /\ \A p \in Pages \ {next_free_page} : pt_entry'[p] = pt_entry[p]
           /\ next_free_page' \in FindFreePage(pt_entry')
PROOF
  <1>1. /\ next_free_page \in Pages /\ pt_entry \in [Pages -> FrameSet \cup {None}]
        /\ frame_map \in SUBSET FrameSet
        /\ pt_entry[next_free_page] = None
    BY DEF PagingInv, PagingTypeOK, NextFreePageUnused, Present
  <1>2. PICK f \in KallocFrame(frame_map) :
          /\ pt_entry' = [pt_entry EXCEPT ![next_free_page] = f]
          /\ next_free_page' \in FindFreePage(pt_entry')
    BY DEF KallocPage
  <1>3. f \in FrameSet
    BY <1>1, KallocFrameTakes
  <1> QED BY <1>1, <1>2, <1>3

\* While the kernel goes on, the page kalloc_page takes lies behind the kernel's
\* pages and all heap pages mapped so far, and is no live thread's stack.
LEMMA NextPageBehind ==
    ASSUME StacksInv, halt = "no"
    PROVE  /\ next_free_page \in Pages /\ next_free_page >= KernelFrames + booted
           /\ \A t \in live : stack[t] # next_free_page
PROOF
  <1>1. next_free_page \in Pages /\ ~Present(next_free_page)
    BY DEF StacksInv, PagingInv, PagingTypeOK, NextFreePageUnused
  <1>2. next_free_page \in Int /\ KernelFrames \in Int /\ booted \in Int
    BY <1>1, FramesAssumption, PagingAssumption, KthreadsAssumption DEF Pages, StacksInv
  <1>3. ~ (next_free_page < KernelFrames + booted)
    BY <1>1 DEF StacksInv
  <1>4. \A t \in live : stack[t] # next_free_page
    BY <1>1 DEF StacksInv
  <1> QED BY <1>1, <1>2, <1>3, <1>4

\* A panic of kalloc_page leaves the threads' memory as it is.
LEMMA StacksAfterPanic ==
    ASSUME StacksInv, halt = "no", KallocPage, halt' # "no",
           UNCHANGED <<live, stack, running_thread, heap_pages>>, booted' \in 0..heap_pages,
           booted' < heap_pages => booted < heap_pages
    PROVE  StacksInv'
PROOF
  <1>1. PagingInv'
    BY KallocPageInv DEF StacksInv
  <1> QED BY <1>1 DEF StacksInv

\* kernel_main maps another heap page.
LEMMA BootPageStacks == ASSUME StacksInv, BootPage PROVE StacksInv'
PROOF
  <1> USE FramesAssumption, PagingAssumption, KthreadsAssumption
  <1>1. /\ halt = "no" /\ booted < heap_pages /\ KallocPage /\ booted' = booted + 1
        /\ live' = live /\ stack' = stack /\ running_thread' = running_thread
        /\ heap_pages' = heap_pages
    BY DEF BootPage, Up, threadVars
  <1>2. booted \in Nat /\ booted' \in 0..heap_pages /\ heap_pages \in Nat
    BY <1>1 DEF StacksInv
  <1>3. PagingInv'
    BY <1>1, KallocPageInv DEF StacksInv
  <1>4. CASE halt' # "no"
    <2>1. booted' < heap_pages => booted < heap_pages
      BY <1>1
    <2> QED BY <1>1, <1>2, <1>4, <2>1, StacksAfterPanic
  <1>5. CASE halt' = "no"
    <2>1. /\ next_free_page \in Pages /\ next_free_page >= KernelFrames + booted
      BY <1>1, NextPageBehind
    <2>2. /\ pt_entry'[next_free_page] \in FrameSet
          /\ \A p \in Pages \ {next_free_page} : pt_entry'[p] = pt_entry[p]
          /\ next_free_page' \in FindFreePage(pt_entry')
      BY <1>1, <1>5, KallocPageMaps DEF StacksInv
    <2>3. live = {} /\ running_thread = Main
      BY <1>1 DEF StacksInv
    <2>4. next_free_page = KernelFrames + booted
      BY <1>1 DEF StacksInv
    <2>5. \A p \in Pages : p < KernelFrames + booted' => Present(p)'
      BY <2>2, <2>4, <1>1, <1>2 DEF StacksInv, Present, Pages
    <2>6. \A p \in Pages : p >= KernelFrames + booted' => ~Present(p)'
      BY <2>2, <2>4, <1>1, <1>2 DEF StacksInv, Present, Pages
    <2>7. next_free_page' = KernelFrames + booted'
      <3>1. next_free_page' \in Pages /\ ~Present(next_free_page)'
        BY <2>2 DEF FindFreePage, Present
      <3>2. next_free_page' >= KernelFrames + booted'
        BY <3>1, <2>5, <1>1, <1>2 DEF Pages
      <3>3. KernelFrames + booted' \in Pages
        BY <3>1, <3>2, <1>1, <1>2 DEF Pages
      <3>4. pt_entry'[KernelFrames + booted'] = None
        BY <3>3, <2>6, <1>1, <1>2 DEF Present
      <3>5. next_free_page' <= KernelFrames + booted'
        BY <3>3, <3>4, <2>2 DEF FindFreePage
      <3> QED BY <3>1, <3>2, <3>3, <3>5 DEF Pages
    <2> QED BY <1>1, <1>2, <1>3, <2>3, <2>5, <2>6, <2>7 DEF StacksInv
  <1> QED BY <1>4, <1>5

\* preempt touches no page.
LEMMA PreemptStacks == ASSUME StacksInv, Preempt PROVE StacksInv'
PROOF
  <1>1. UNCHANGED <<pagingVars, booted, heap_pages, live, stack>> /\ running_thread # Main
    BY DEF Preempt
  <1>2. ~ (booted < heap_pages)
    BY <1>1 DEF StacksInv
  <1>3. PagingInv'
    BY <1>1, PagingUnchanged DEF StacksInv
  <1> QED BY <1>1, <1>2, <1>3 DEF StacksInv, pagingVars, Present

\* kthread_create gives the new thread a page of its own.
LEMMA CreateStacks ==
    ASSUME StacksInv, NEW t \in Slots, KthreadCreate(t) PROVE StacksInv'
PROOF
  <1> USE FramesAssumption, PagingAssumption, KthreadsAssumption
  <1>1. /\ halt = "no" /\ booted = heap_pages /\ KallocPage /\ booted' = booted
        /\ t \notin live /\ heap_pages' = heap_pages
    BY DEF KthreadCreate, Up
  <1>2. PagingInv'
    BY <1>1, KallocPageInv DEF StacksInv
  <1>3. booted \in Nat /\ heap_pages \in Nat /\ ~ (booted' < heap_pages)
    BY <1>1 DEF StacksInv
  <1>4. CASE halt' # "no"
    <2>1. UNCHANGED <<live, stack, running_thread, heap_pages>> /\ booted' \in 0..heap_pages
      BY <1>1, <1>4 DEF KthreadCreate, threadVars, StacksInv
    <2> QED BY <1>1, <1>3, <1>4, <2>1, StacksAfterPanic
  <1>5. CASE halt' = "no"
    <2>1. stack' = [stack EXCEPT ![t] = next_free_page] /\ live' = live \cup {t}
      BY <1>5 DEF KthreadCreate
    <2>2. /\ next_free_page \in Pages /\ next_free_page >= KernelFrames + heap_pages
          /\ \A u \in live : stack[u] # next_free_page
      BY <1>1, NextPageBehind
    <2>3. /\ pt_entry'[next_free_page] \in FrameSet
          /\ \A p \in Pages \ {next_free_page} : pt_entry'[p] = pt_entry[p]
      BY <1>1, <1>5, KallocPageMaps DEF StacksInv
    <2>4. \A p \in Pages : Present(p) => Present(p)'
      BY <2>2, <2>3 DEF Present
    <2>5. /\ stack' \in [Slots -> Pages \cup {None}] /\ stack'[t] = next_free_page
          /\ \A u \in live : stack'[u] = stack[u]
      BY <2>1, <2>2, <1>1 DEF StacksInv
    <2>6. \A p \in Pages : p < KernelFrames + booted' => Present(p)'
      BY <2>4, <1>1 DEF StacksInv
    <2>8. \A u \in live' : /\ stack'[u] \in Pages
                           /\ stack'[u] >= KernelFrames + heap_pages
                           /\ Present(stack[u])'
      <3>1. SUFFICES ASSUME NEW u \in live'
                     PROVE /\ stack'[u] \in Pages
                           /\ stack'[u] >= KernelFrames + heap_pages
                           /\ pt_entry'[stack'[u]] # None
        BY DEF Present
      <3>2. CASE u = t
        BY <3>2, <2>2, <2>3, <2>5
      <3>3. CASE u \in live
        BY <3>3, <2>4, <2>5, <1>1 DEF StacksInv, Present
      <3> QED BY <3>2, <3>3, <2>1
    <2>9. \A u, v \in live' : u # v => stack'[u] # stack'[v]
      BY <2>1, <2>2, <2>5 DEF StacksInv
    <2> QED BY <1>1, <1>2, <1>3, <2>1, <2>5, <2>6, <2>8, <2>9 DEF StacksInv
  <1> QED BY <1>4, <1>5

\* kthread_join frees the page of the joined thread and no other's.
LEMMA JoinStacks ==
    ASSUME StacksInv, NEW t \in Slots, KthreadJoin(t) PROVE StacksInv'
PROOF
  <1> USE FramesAssumption, PagingAssumption, KthreadsAssumption
  <1>1. /\ halt = "no" /\ booted = heap_pages /\ booted' = booted /\ t \in live
        /\ stack' = stack /\ running_thread' = running_thread
        /\ heap_pages' = heap_pages /\ heap_pages \in Nat
    BY DEF KthreadJoin, Up, StacksInv
  <1>2. stack[t] \in Pages /\ stack[t] >= KernelFrames + heap_pages /\ Present(stack[t])
    BY <1>1 DEF StacksInv
  <1>3. ~ (booted' < heap_pages)
    BY <1>1
  <1>4. CASE UNCHANGED <<pagingVars, live>>
    <2>1. PagingInv'
      BY <1>4, PagingUnchanged DEF StacksInv
    <2> QED BY <1>1, <1>3, <1>4, <2>1 DEF StacksInv, pagingVars, Present
  <1>5. CASE KfreePage(stack[t]) /\ live' = live \ {t}
    <2>1. PagingInv'
      BY <1>1, <1>2, <1>5, KfreePageInv DEF StacksInv
    <2>2. /\ pt_entry' = [pt_entry EXCEPT ![stack[t]] = None] /\ halt' = halt
      BY <1>2, <1>5 DEF KfreePage
    <2>3. \A p \in Pages \ {stack[t]} : pt_entry'[p] = pt_entry[p]
      BY <2>2 DEF StacksInv, PagingInv, PagingTypeOK
    <2>4. \A p \in Pages : p < KernelFrames + booted' => Present(p)'
      BY <2>3, <1>1, <1>2 DEF StacksInv, Present, Pages
    <2>5. \A u \in live' : /\ stack'[u] \in Pages
                           /\ stack'[u] >= KernelFrames + heap_pages
                           /\ Present(stack[u])'
      BY <2>3, <1>1, <1>5 DEF StacksInv, Present
    <2> QED BY <1>1, <1>3, <1>5, <2>1, <2>4, <2>5 DEF StacksInv
  <1> QED BY <1>4, <1>5 DEF KthreadJoin

-----------------------------------------------------------------------------
\* What switch_task does: it pushes on the stack of the thread it goes to, in the
\* frame the page table names, and leaves only that page in the cache.
LEMMA SwitchTaskPushes ==
    ASSUME StacksInv', NEW to, SwitchTask(to), pt_entry \in [Pages -> FrameSet \cup {None}],
           tlb \in [Pages -> FrameSet \cup {None}],
           \A p \in Pages : tlb[p] # None => tlb[p] = pt_entry'[p]
    PROVE  /\ TlbInv'
           /\ running_thread' = to
           /\ halt' = "no" /\ to \in live' \cup {Main} =>
                  dead' = "no" \/ StackFrameShared'
PROOF
  <1> USE NoneApart
  <1> DEFINE p == IF to \in Slots THEN stack'[to] ELSE None
             frame == IF p = None THEN None
                      ELSE IF tlb[p] # None THEN tlb[p] ELSE pt_entry'[p]
  <1>1. /\ running_thread' = to /\ pushed' = frame
        /\ tlb' = [q \in Pages |-> IF q = p THEN pt_entry'[q] ELSE None]
        /\ dead' = IF to = None \/ (p # None /\ frame = None) THEN "fault"
                   ELSE IF to \in live' \cup {Main} /\ ~MappedElsewhere(frame, p)
                   THEN "no" ELSE "corrupt"
    BY DEF SwitchTask
  <1>2. /\ pt_entry' \in [Pages -> FrameSet \cup {None}] /\ live' \subseteq Slots
        /\ stack' \in [Slots -> Pages \cup {None}]
        /\ \A t \in live' : stack'[t] \in Pages
        /\ halt' = "no" => \A t \in live' : pt_entry'[stack'[t]] # None
    BY DEF StacksInv, PagingInv, PagingTypeOK, Present
  <1>3. p \in Pages \cup {None} /\ (p # None => frame = pt_entry'[p])
    BY <1>2
  <1>4. Main \notin Slots
    BY KthreadsAssumption DEF Main, Slots
  <1>5. TlbInv'
    <2>1. tlb' \in [Pages -> FrameSet \cup {None}]
      BY <1>1, <1>2
    <2>2. \A q \in Pages : tlb'[q] # None => tlb'[q] = pt_entry'[q]
      BY <1>1
    <2>3. running_thread' = Main => \A q \in Pages : tlb'[q] = None
      BY <1>1, <1>4
    <2>4. PushReachesStack'
      <3>1. SUFFICES ASSUME to \in live' PROVE pushed' = pt_entry'[stack'[to]]
        BY <1>1 DEF PushReachesStack
      <3>2. p = stack'[to] /\ p # None
        BY <3>1, <1>2
      <3> QED BY <3>2, <1>1, <1>3
    <2> QED BY <2>1, <2>2, <2>3, <2>4 DEF TlbInv
  <1>6. ASSUME halt' = "no", to \in live' \cup {Main} PROVE dead' = "no" \/ StackFrameShared'
    <2>1. CASE to = Main
      <3>1. p = None /\ frame = None /\ to # None
        BY <2>1, <1>4 DEF Threads
      <3>2. ~MappedElsewhere(frame, p)
        BY <3>1 DEF MappedElsewhere
      <3> QED BY <3>1, <3>2, <1>1, <1>6
    <2>2. CASE to \in live'
      <3>1. p = stack'[to] /\ p \in Pages /\ p # None /\ frame = pt_entry'[p] /\ frame # None
        BY <2>2, <1>2, <1>3, <1>6
      <3>2. to # None
        BY <2>2, <1>2 DEF Threads
      <3>3. CASE MappedElsewhere(frame, p)
        <4>1. PICK q \in Pages \ {p} : pt_entry'[q] = frame
          BY <3>3 DEF MappedElsewhere
        <4> QED BY <4>1, <3>1, <2>2 DEF StackFrameShared
      <3>4. CASE ~MappedElsewhere(frame, p)
        <4> HIDE DEF p, frame
        <4> QED BY <3>1, <3>2, <3>4, <1>1, <1>6
      <3> QED BY <3>3, <3>4
    <2> QED BY <2>1, <2>2, <1>6
  <1> HIDE DEF p, frame
  <1> QED BY <1>1, <1>5, <1>6

\* The thread preempt goes to, and how that thread and its predecessors are placed: from the
\* j-th thread created to the next one, and from the last one to main_thread.
LEMMA SuccessorInList ==
    ASSUME NEW k \in Nat, NEW ord \in [1..k -> Slots], ListShape(k, ord), NEW j \in 1..k
    PROVE  Successor(ord[j], next, last_thread) = IF j = k THEN Main ELSE ord[j + 1]
PROOF
  <1>1. last_thread = ord[k] /\ \A i \in 1..(k - 1) : next[ord[i]] = ord[i + 1]
    BY DEF ListShape
  <1>2. ord[j] = ord[k] <=> j = k
    BY DEF ListShape
  <1> QED BY <1>1, <1>2 DEF Successor

\* Unless it went to a struct that was joined, preempt goes back to main_thread when every
\* live thread has had a turn, or on to a live thread that has had none.
LEMMA PreemptTurns ==
    ASSUME KthreadsInv, Preempt, ~overlapped
    PROVE  /\ ~strayed /\ InOrder'
           /\ \/ running_thread' = Main
              \/ running_thread' \in live' \ ran /\ ran' = ran \cup {running_thread'}
PROOF
  <1> DEFINE to == Successor(running_thread, next, last_thread)
  <1>1. /\ dead = "no" /\ running_thread # Main /\ running_thread' = to
        /\ ran' = ran \cup {to} /\ UNCHANGED <<live, next, last_thread>>
    BY DEF Preempt, Up, SwitchTask
  <1>2. ~strayed
    BY <1>1 DEF KthreadsInv, ListInv
  <1>3. PICK k \in Nat : \E ord \in [1..k -> Slots] : ListShape(k, ord) /\ TurnsInv(k, ord)
    BY <1>2 DEF KthreadsInv, ListInv, InOrder
  <1>4. PICK ord \in [1..k -> Slots] : ListShape(k, ord) /\ TurnsInv(k, ord)
    BY <1>3
  <1>5. PICK j \in 1..k : running_thread = ord[j] /\ ran = {ord[i] : i \in 1..j}
    BY <1>1, <1>4 DEF TurnsInv
  <1>6. to = IF j = k THEN Main ELSE ord[j + 1]
    BY <1>4, <1>5, SuccessorInList
  <1>7. ListShape(k, ord)'
    BY <1>1, <1>4 DEF ListShape
  <1>8. /\ live' = {ord[i] : i \in 1..k}
        /\ \A i, m \in 1..k : ord[i] = ord[m] => i = m
    BY <1>1, <1>4 DEF ListShape
  <1>9. CASE j = k
    <2>1. running_thread' = Main /\ live' \subseteq ran'
      BY <1>1, <1>5, <1>6, <1>8, <1>9
    <2>2. TurnsInv(k, ord)'
      BY <2>1 DEF TurnsInv
    <2> QED BY <2>1, <2>2, <1>2, <1>7 DEF InOrder
  <1>10. CASE j # k
    <2>1. /\ j + 1 \in 1..k /\ running_thread' = ord[j + 1]
          /\ ran' = ran \cup {ord[j + 1]}
      BY <1>1, <1>6, <1>10
    <2>2. ord[j + 1] \in live' /\ ord[j + 1] \notin ran
      BY <2>1, <1>5, <1>8
    <2>3. ran' = {ord[i] : i \in 1..(j + 1)}
      <3>1. ran' \subseteq {ord[i] : i \in 1..(j + 1)}
        BY <2>1, <1>5
      <3>2. {ord[i] : i \in 1..(j + 1)} \subseteq ran'
        <4>1. \A i \in 1..(j + 1) : i \in 1..j \/ i = j + 1
          OBVIOUS
        <4> QED BY <4>1, <2>1, <1>5
      <3> QED BY <3>1, <3>2
    <2>4. ord[j + 1] # Main
      BY <2>1, KthreadsAssumption DEF Slots, Main
    <2>5. TurnsInv(k, ord)'
      BY <2>1, <2>3, <2>4 DEF TurnsInv
    <2> QED BY <2>1, <2>2, <2>5, <1>2, <1>7 DEF InOrder
  <1> QED BY <1>9, <1>10

\* As long as main_thread goes on running, the cache is empty and no push counts.
LEMMA TlbUnderMain ==
    ASSUME TlbInv, StacksInv', running_thread = Main, UNCHANGED <<tlb, running_thread>>
    PROVE  TlbInv'
PROOF
  <1>1. running_thread' \notin live'
    BY KthreadsAssumption DEF StacksInv, Slots, Main
  <1> QED BY <1>1 DEF TlbInv, PushReachesStack

\* Mapping the heap preserves the inductive invariant.
LEMMA BootPageKthreads == ASSUME KthreadsInv, BootPage PROVE KthreadsInv'
PROOF
  <1>1. StacksInv'
    BY BootPageStacks DEF KthreadsInv
  <1>2. /\ halt = "no" /\ dead = "no" /\ UNCHANGED threadVars /\ running_thread = Main
    BY DEF BootPage, Up, KthreadsInv, StacksInv
  <1>3. TlbInv'
    BY <1>1, <1>2, TlbUnderMain DEF KthreadsInv, threadVars
  <1>4. ListInv'
    BY <1>2 DEF KthreadsInv, threadVars, ListInv, InOrder, ListShape, TurnsInv
  <1>5. OnlyLiveThreadsRun'
    BY <1>2, <1>4 DEF threadVars, ListInv, OnlyLiveThreadsRun
  <1> QED BY <1>1, <1>3, <1>4, <1>5 DEF KthreadsInv

\* preempt preserves the inductive invariant.
LEMMA PreemptKthreads == ASSUME KthreadsInv, Preempt PROVE KthreadsInv'
PROOF
  <1> DEFINE to == Successor(running_thread, next, last_thread)
  <1>1. StacksInv'
    BY PreemptStacks DEF KthreadsInv
  <1>2. /\ halt = "no" /\ dead = "no" /\ running_thread # Main /\ SwitchTask(to)
        /\ UNCHANGED <<pagingVars, booted, live, next, last_thread, stack, overlapped>>
    BY DEF Preempt, Up
  <1>3. pt_entry' = pt_entry /\ pt_entry \in [Pages -> FrameSet \cup {None}] /\ halt' = "no"
    BY <1>2 DEF pagingVars, KthreadsInv, StacksInv, PagingInv, PagingTypeOK
  <1>4. /\ TlbInv' /\ running_thread' = to
        /\ to \in live' \cup {Main} => dead' = "no" \/ StackFrameShared'
    <2>1. /\ tlb \in [Pages -> FrameSet \cup {None}]
          /\ \A p \in Pages : tlb[p] # None => tlb[p] = pt_entry'[p]
      BY <1>3 DEF KthreadsInv, TlbInv
    <2> HIDE DEF to
    <2> QED BY <2>1, <1>1, <1>2, <1>3, SwitchTaskPushes
  <1>5. /\ next' \in [Threads -> Threads \cup {None}] /\ last_thread' \in Threads
        /\ strayed' = strayed /\ overlapped' = overlapped
    BY <1>2 DEF Preempt, KthreadsInv, ListInv
  <1>6. ASSUME ~overlapped'
        PROVE  ~strayed' /\ InOrder' /\ running_thread' \in live' \cup {Main}
    BY <1>5, <1>6, PreemptTurns
  <1>7. ListInv'
    BY <1>5, <1>6 DEF ListInv
  <1>8. OnlyLiveThreadsRun'
    BY <1>3, <1>4, <1>6 DEF OnlyLiveThreadsRun
  <1> QED BY <1>1, <1>4, <1>7, <1>8 DEF KthreadsInv

\* kthread_create links the new struct at the end, and main_thread goes to the first one.
LEMMA CreateInOrder ==
    ASSUME KthreadsInv, NEW t \in Slots, KthreadCreate(t), halt' = "no", ~overlapped, ~strayed'
    PROVE  InOrder' /\ running_thread' \in live'
PROOF
  <1> USE KthreadsAssumption
  <1> DEFINE to == Successor(Main, next', last_thread')
  <1>1. /\ live' = live \cup {t} /\ last_thread' = t /\ t \notin live
        /\ next' = [[next EXCEPT ![t] = None] EXCEPT ![last_thread] = t]
        /\ running_thread = Main /\ running_thread' = to /\ ran' = {to}
        /\ ~strayed /\ last_thread \in live \cup {Main, t}
    BY DEF KthreadCreate, LinkAtEnd, SwitchTask
  <1>2. /\ next \in [Threads -> Threads \cup {None}] /\ last_thread \in Threads
        /\ t \in Threads /\ Main \in Threads /\ t # Main /\ Main \notin Slots
        /\ Slots \subseteq Threads
    BY DEF KthreadsInv, ListInv, Threads, Slots, Main
  <1>3. \A u \in Threads : next'[u] = IF u = last_thread THEN t
                                     ELSE IF u = t THEN None ELSE next[u]
    BY <1>1, <1>2
  <1>4. PICK k \in Nat : \E ord \in [1..k -> Slots] : ListShape(k, ord) /\ TurnsInv(k, ord)
    BY <1>1 DEF KthreadsInv, ListInv, InOrder
  <1>5. PICK ord \in [1..k -> Slots] : ListShape(k, ord)
    BY <1>4
  <1> DEFINE new == [i \in 1..(k + 1) |-> IF i = k + 1 THEN t ELSE ord[i]]
  <1>6. /\ new \in [1..(k + 1) -> Slots] /\ new[k + 1] = t
        /\ \A i \in 1..k : new[i] = ord[i] /\ ord[i] \in Slots
        /\ \A i \in 1..(k + 1) : i \in 1..k \/ i = k + 1
        /\ 1 \in 1..(k + 1) /\ k + 1 \in 1..(k + 1)
    OBVIOUS
  <1> HIDE DEF new
  <1>7. /\ live = {ord[i] : i \in 1..k}
        /\ \A i, j \in 1..k : ord[i] = ord[j] => i = j
    BY <1>5 DEF ListShape
  <1>8. \A i \in 1..k : ord[i] # t /\ ord[i] # Main
    BY <1>1, <1>2, <1>6, <1>7
  <1>9. live' = {new[i] : i \in 1..(k + 1)}
    <2>1. live' \subseteq {new[i] : i \in 1..(k + 1)}
      BY <1>1, <1>6, <1>7
    <2>2. {new[i] : i \in 1..(k + 1)} \subseteq live'
      BY <1>1, <1>6, <1>7
    <2> QED BY <2>1, <2>2
  <1>10. \A i, j \in 1..(k + 1) : new[i] = new[j] => i = j
    BY <1>6, <1>7, <1>8
  <1>11. next'[Main] = new[1]
    <2>1. CASE k = 0
      <3>1. live = {} /\ (last_thread = Main \/ next[Main] = last_thread)
        BY <2>1, <1>5, <1>7 DEF ListShape
      <3> QED BY <2>1, <3>1, <1>1, <1>2, <1>3, <1>6
    <2>2. CASE k > 0
      <3>1. next[Main] = ord[1] /\ last_thread = ord[k] /\ 1 \in 1..k /\ k \in 1..k
        BY <2>2, <1>5 DEF ListShape
      <3> QED BY <3>1, <1>2, <1>3, <1>6, <1>8
    <2> QED BY <2>1, <2>2
  <1>12. \A i \in 1..((k + 1) - 1) : next'[new[i]] = new[i + 1]
    <2>1. SUFFICES ASSUME NEW i \in 1..k PROVE next'[new[i]] = new[i + 1]
      OBVIOUS
    <2>2. last_thread = ord[k] /\ k \in 1..k /\ new[i] = ord[i] /\ ord[i] \in Threads
      BY <1>2, <1>5, <1>6 DEF ListShape
    <2>3. CASE i = k
      BY <2>2, <2>3, <1>3, <1>6
    <2>4. CASE i # k
      <3>1. /\ i \in 1..(k - 1) /\ i + 1 \in 1..k /\ ord[i] # ord[k]
            /\ next[ord[i]] = ord[i + 1]
        BY <2>2, <2>4, <1>5 DEF ListShape
      <3> QED BY <3>1, <2>2, <1>3, <1>6, <1>8
    <2> QED BY <2>3, <2>4
  <1>13. ListShape(k + 1, new)'
    <2>1. k + 1 > 0 /\ k + 1 # 0 /\ last_thread' = new[k + 1]
      BY <1>1, <1>6
    <2> QED BY <2>1, <1>9, <1>10, <1>11, <1>12 DEF ListShape
  <1>14. to = new[1] /\ to \in Slots
    BY <1>1, <1>2, <1>6, <1>11 DEF Successor
  <1>15. ran' = {new[i] : i \in 1..1}
    <2>1. \A i \in 1..1 : i = 1
      OBVIOUS
    <2> QED BY <2>1, <1>1, <1>14
  <1>16. TurnsInv(k + 1, new)'
    BY <1>1, <1>2, <1>6, <1>14, <1>15 DEF TurnsInv
  <1>17. running_thread' \in live'
    BY <1>1, <1>6, <1>9, <1>14
  <1>18. k + 1 \in Nat
    OBVIOUS
  <1>19. InOrder'
    BY <1>6, <1>13, <1>16, <1>18 DEF InOrder
  <1> QED BY <1>17, <1>19

\* A struct other than the joined one that is still behind main_thread is linked behind
\* that one, so the processor goes to the joined thread.
LEMMA CreateStray ==
    ASSUME KthreadsInv, NEW t \in Slots, KthreadCreate(t), halt' = "no", ~overlapped, strayed'
    PROVE  dead' # "no" /\ running_thread' # Main
PROOF
  <1> USE KthreadsAssumption
  <1> DEFINE to == Successor(Main, next', last_thread')
  <1>1. /\ live' = live \cup {t} /\ last_thread' = t
        /\ next' = [[next EXCEPT ![t] = None] EXCEPT ![last_thread] = t]
        /\ running_thread' = to /\ SwitchTask(to)
        /\ dead = "no" /\ (strayed \/ last_thread \notin live \cup {Main, t})
    BY DEF KthreadCreate, LinkAtEnd, SwitchTask, Up
  <1>2. ~strayed /\ last_thread \notin live \cup {Main, t}
    BY <1>1 DEF KthreadsInv, ListInv
  <1>3. /\ next \in [Threads -> Threads \cup {None}]
        /\ t \in Threads /\ Main \in Threads /\ t # Main
    BY DEF KthreadsInv, ListInv, Threads, Slots, Main
  <1>4. PICK k \in Nat : \E ord \in [1..k -> Slots] : ListShape(k, ord) /\ TurnsInv(k, ord)
    BY <1>2 DEF KthreadsInv, ListInv, InOrder
  <1>5. PICK ord \in [1..k -> Slots] : ListShape(k, ord)
    BY <1>4
  <1>6. k = 0
    <2>1. SUFFICES ASSUME k > 0 PROVE FALSE
      OBVIOUS
    <2>2. k \in 1..k /\ last_thread = ord[k] /\ live = {ord[i] : i \in 1..k}
      BY <2>1, <1>5 DEF ListShape
    <2> QED BY <2>2, <1>2
  <1>7. next[Main] = last_thread
    BY <1>2, <1>5, <1>6 DEF ListShape
  <1>8. next'[Main] = last_thread
    BY <1>1, <1>2, <1>3, <1>7
  <1>9. to = last_thread
    BY <1>1, <1>3, <1>8 DEF Successor
  <1>10. to \notin live' \cup {Main}
    BY <1>1, <1>2, <1>9
  <1>11. dead' # "no"
    <2> HIDE DEF to
    <2> QED BY <1>1, <1>10 DEF SwitchTask
  <1> QED BY <1>1, <1>10, <1>11

\* kthread_create preserves the inductive invariant.
LEMMA CreateKthreads ==
    ASSUME KthreadsInv, NEW t \in Slots, KthreadCreate(t) PROVE KthreadsInv'
PROOF
  <1> USE KthreadsAssumption
  <1>1. StacksInv'
    BY CreateStacks DEF KthreadsInv
  <1>2. /\ halt = "no" /\ dead = "no" /\ running_thread = Main /\ overlapped' = overlapped
    BY DEF KthreadCreate, Up
  <1>3. CASE halt' # "no"
    <2>1. UNCHANGED threadVars
      BY <1>3 DEF KthreadCreate
    <2>2. TlbInv'
      BY <1>1, <1>2, <2>1, TlbUnderMain DEF KthreadsInv, threadVars
    <2>3. ListInv'
      BY <2>1 DEF KthreadsInv, threadVars, ListInv, InOrder, ListShape, TurnsInv
    <2>4. OnlyLiveThreadsRun'
      BY <1>3 DEF OnlyLiveThreadsRun
    <2> QED BY <1>1, <2>2, <2>3, <2>4 DEF KthreadsInv
  <1>4. CASE halt' = "no"
    <2> DEFINE to == Successor(Main, next', last_thread')
    <2>1. /\ last_thread' = t /\ SwitchTask(to)
          /\ next' = [[next EXCEPT ![t] = None] EXCEPT ![last_thread] = t]
      BY <1>4 DEF KthreadCreate, LinkAtEnd
    <2>2. /\ next \in [Threads -> Threads \cup {None}] /\ last_thread \in Threads
          /\ t \in Threads
      BY DEF KthreadsInv, ListInv, Threads
    <2>3. next' \in [Threads -> Threads \cup {None}] /\ last_thread' \in Threads
      BY <2>1, <2>2
    <2>4. /\ TlbInv' /\ running_thread' = to
          /\ to \in live' \cup {Main} => dead' = "no" \/ StackFrameShared'
      <3>1. /\ tlb \in [Pages -> FrameSet \cup {None}]
            /\ \A p \in Pages : tlb[p] = None
            /\ pt_entry \in [Pages -> FrameSet \cup {None}]
        BY <1>2 DEF KthreadsInv, TlbInv, StacksInv, PagingInv, PagingTypeOK
      <3> HIDE DEF to
      <3> QED BY <3>1, <1>1, <1>4, <2>1, SwitchTaskPushes
    <2>5. ASSUME ~overlapped', ~strayed' PROVE InOrder' /\ running_thread' \in live'
      BY <1>2, <1>4, <2>5, CreateInOrder
    <2>6. ASSUME ~overlapped', strayed' PROVE dead' # "no" /\ running_thread' # Main
      BY <1>2, <1>4, <2>6, CreateStray
    <2>7. ListInv'
      BY <2>3, <2>5, <2>6 DEF ListInv
    <2>8. OnlyLiveThreadsRun'
      BY <2>4, <2>5, <2>6 DEF OnlyLiveThreadsRun
    <2> QED BY <1>1, <2>4, <2>7, <2>8 DEF KthreadsInv
  <1> QED BY <1>3, <1>4

\* kthread_join preserves the inductive invariant.
LEMMA JoinKthreads ==
    ASSUME KthreadsInv, NEW t \in Slots, KthreadJoin(t) PROVE KthreadsInv'
PROOF
  <1> USE KthreadsAssumption
  <1>1. StacksInv'
    BY JoinStacks DEF KthreadsInv
  <1>2. /\ halt = "no" /\ dead = "no" /\ running_thread = Main /\ t \in live
        /\ overlapped' = (overlapped \/ live # {t}) /\ JoinLoop(t)
        /\ UNCHANGED <<running_thread, tlb, ran, strayed>>
    BY DEF KthreadJoin, Up
  <1>3. TlbInv'
    BY <1>1, <1>2, TlbUnderMain DEF KthreadsInv
  <1>4. next' \in [Threads -> Threads \cup {None}] /\ last_thread' \in Threads
    <2>1. /\ next \in [Threads -> Threads \cup {None}] /\ last_thread \in Threads
          /\ t \in Threads /\ Main \in Threads
      BY DEF KthreadsInv, ListInv, Threads
    <2>2. next[t] \in Threads \cup {None}
      BY <2>1
    <2> QED BY <1>2, <2>1, <2>2 DEF JoinLoop
  <1>5. ASSUME ~overlapped'
        PROVE  ~strayed' /\ InOrder' /\ dead' = "no"
    <2>1. ~overlapped /\ live = {t} /\ ~strayed
      BY <1>2, <1>5 DEF KthreadsInv, ListInv
    <2>2. PICK k \in Nat : \E ord \in [1..k -> Slots] : ListShape(k, ord) /\ TurnsInv(k, ord)
      BY <2>1 DEF KthreadsInv, ListInv, InOrder
    <2>3. PICK ord \in [1..k -> Slots] : ListShape(k, ord)
      BY <2>2
    <2>4. next[Main] = t /\ last_thread = t
      <3>1. live = {ord[i] : i \in 1..k}
        BY <2>3 DEF ListShape
      <3>2. k > 0
        BY <3>1, <2>1
      <3>3. 1 \in 1..k /\ k \in 1..k
        BY <3>2
      <3>4. ord[1] \in live /\ ord[k] \in live
        BY <3>1, <3>3
      <3>5. ord[1] = t /\ ord[k] = t
        BY <3>4, <2>1
      <3> QED BY <3>2, <3>5, <2>3 DEF ListShape
    <2>5. dead' = "no" /\ UNCHANGED <<next, last_thread>>
      BY <2>4, <1>2 DEF JoinLoop
    <2>6. live' = {}
      BY <2>5, <2>1 DEF KthreadJoin
    <2> DEFINE none == [i \in 1..0 |-> t]
    <2>7. /\ none \in [1..0 -> Slots] /\ 0 \in Nat /\ ~ (0 > 0)
          /\ \A i : i \notin 1..0
      OBVIOUS
    <2> HIDE DEF none
    <2>8. {none[i] : i \in 1..0} = {}
      BY <2>7
    <2>9. ListShape(0, none)'
      BY <2>4, <2>5, <2>6, <2>7, <2>8 DEF ListShape
    <2>10. TurnsInv(0, none)'
      BY <2>6, <1>2 DEF TurnsInv
    <2>11. InOrder'
      BY <2>7, <2>9, <2>10 DEF InOrder
    <2> QED BY <2>1, <2>5, <2>11, <1>2
  <1>6. ListInv'
    BY <1>4, <1>5 DEF ListInv
  <1>7. OnlyLiveThreadsRun'
    BY <1>2, <1>5 DEF OnlyLiveThreadsRun
  <1> QED BY <1>1, <1>3, <1>6, <1>7 DEF KthreadsInv

\* What init_tasking and init_paging leave satisfies the inductive invariant.
LEMMA KthreadsInitInv == Init => KthreadsInv
PROOF
  <1> USE FramesAssumption, PagingAssumption, KthreadsAssumption
  <1> SUFFICES ASSUME Init PROVE KthreadsInv
    OBVIOUS
  <1>1. PagingInv
    BY PagingInitInv DEF Init
  <1>2. /\ pt_entry = [p \in Pages |-> IF p < KernelFrames THEN p ELSE None]
        /\ next_free_page = KernelFrames
    BY DEF Init, PagingInit
  <1>3. \A p \in Pages : p < KernelFrames + booted => Present(p)
    BY <1>2 DEF Init, Present, Pages
  <1>4. \A p \in Pages : p >= KernelFrames + booted => ~Present(p)
    BY <1>2 DEF Init, Present, Pages
  <1>5. StacksInv
    BY <1>1, <1>2, <1>3, <1>4 DEF Init, StacksInv
  <1>6. TlbInv
    BY DEF Init, TlbInv, PushReachesStack
  <1> DEFINE none == [i \in 1..0 |-> 1]
  <1>7. InOrder
    <2>1. /\ none \in [1..0 -> Slots] /\ 0 \in Nat /\ ~ (0 > 0)
          /\ \A i : i \notin 1..0
      OBVIOUS
    <2> HIDE DEF none
    <2>2. {none[i] : i \in 1..0} = {}
      BY <2>1
    <2>3. ListShape(0, none) /\ TurnsInv(0, none)
      BY <2>1, <2>2 DEF Init, ListShape, TurnsInv
    <2> QED BY <2>1, <2>3 DEF InOrder
  <1>8. ListInv
    BY <1>7 DEF Init, ListInv, Threads
  <1>9. OnlyLiveThreadsRun
    BY DEF Init, OnlyLiveThreadsRun
  <1> QED BY <1>5, <1>6, <1>8, <1>9 DEF KthreadsInv

-----------------------------------------------------------------------------
\* kernel_main, kthread_create, kthread_join and preempt (kernel.c, task.c,
\* switch.s) keep the inductive invariant.
THEOREM KthreadsInvariant == Spec => []KthreadsInv
PROOF
  <1>1. KthreadsInv /\ [Next]_vars => KthreadsInv'
    <2> SUFFICES ASSUME KthreadsInv, [Next]_vars PROVE KthreadsInv'
      OBVIOUS
    <2>1. CASE UNCHANGED vars
      <3>1. PagingInv'
        BY <2>1, PagingUnchanged DEF vars, KthreadsInv, StacksInv
      <3>2. StacksInv'
        BY <2>1, <3>1 DEF vars, pagingVars, threadVars, KthreadsInv, StacksInv, Present
      <3>3. TlbInv' /\ OnlyLiveThreadsRun'
        BY <2>1 DEF vars, pagingVars, threadVars, KthreadsInv, TlbInv,
             PushReachesStack, OnlyLiveThreadsRun, StackFrameShared
      <3>4. ListInv'
        BY <2>1 DEF vars, threadVars, KthreadsInv, ListInv, InOrder, ListShape, TurnsInv
      <3> QED BY <3>2, <3>3, <3>4 DEF KthreadsInv
    <2>2. CASE Next
      BY <2>2, BootPageKthreads, PreemptKthreads, CreateKthreads, JoinKthreads DEF Next
    <2> QED BY <2>1, <2>2
  <1> QED BY <1>1, KthreadsInitInv, PTL DEF Spec

\* The heap pages kernel_main mapped are consecutive and stay mapped, and every
\* live thread's stack page is mapped, behind them and its own.
THEOREM PagesApartHolds == Spec => []PagesApart
PROOF
  <1>1. KthreadsInv => PagesApart
    <2> USE FramesAssumption, PagingAssumption, KthreadsAssumption, NoneApart
    <2> SUFFICES ASSUME KthreadsInv, halt = "no" PROVE PagesApart
      BY DEF PagesApart
    <2>1. /\ next_free_page \in Pages /\ next_free_page >= KernelFrames + booted
          /\ booted \in Nat
      BY NextPageBehind DEF KthreadsInv, StacksInv
    <2>2. \A i \in 0..(booted - 1) : Present(KernelFrames + i)
      <3>1. SUFFICES ASSUME NEW i \in 0..(booted - 1) PROVE Present(KernelFrames + i)
        OBVIOUS
      <3>2. KernelFrames + i \in Pages /\ KernelFrames + i < KernelFrames + booted
        BY <2>1 DEF Pages
      <3> QED BY <3>2 DEF KthreadsInv, StacksInv
    <2> QED BY <2>2 DEF PagesApart, KthreadsInv, StacksInv
  <1> QED BY <1>1, KthreadsInvariant, PTL

\* As long as threads are joined one at a time: if every thread created after a join is in
\* the joined struct and no stack frame is shared, preempt hands the processor only to live
\* threads and nothing stops the kernel; a thread created in another struct stops it.
THEOREM OnlyLiveThreadsRunHolds == Spec => []OnlyLiveThreadsRun
PROOF
  <1>1. KthreadsInv => OnlyLiveThreadsRun
    BY DEF KthreadsInv
  <1> QED BY <1>1, KthreadsInvariant, PTL

\* As long as threads are joined one at a time, every live thread has had a turn
\* when main_thread gets its next one.
THEOREM RoundRobinHolds == Spec => []RoundRobin
PROOF
  <1>1. KthreadsInv => RoundRobin
    BY DEF KthreadsInv, ListInv, InOrder, TurnsInv, RoundRobin
  <1> QED BY <1>1, KthreadsInvariant, PTL

\* The push of switch_task before it reloads CR3 reaches the frame that the page
\* table names, although kfree_page leaves the translations it makes stale.
THEOREM PushReachesStackHolds == Spec => []PushReachesStack
PROOF
  <1>1. KthreadsInv => PushReachesStack
    BY DEF KthreadsInv, TlbInv
  <1> QED BY <1>1, KthreadsInvariant, PTL

\* While threads are joined one at a time, preempt goes to a live thread that has had no
\* turn since main_thread's, or to main_thread.
PreemptAdvances ==
    Preempt /\ ~overlapped =>
        \/ running_thread' = Main
        \/ running_thread' \in live' \ ran /\ ran' = ran \cup {running_thread'}

\* So main_thread waits for at most as many turns as threads are alive, however many there
\* are.  With fairness of preempt that is MainRunsAgain.
THEOREM MainWaitsBounded == Spec => [][PreemptAdvances]_vars
PROOF
  <1>1. KthreadsInv /\ [Next]_vars => [PreemptAdvances]_vars
    BY PreemptTurns DEF PreemptAdvances
  <1> QED BY <1>1, KthreadsInvariant, PTL DEF Spec
=============================================================================
