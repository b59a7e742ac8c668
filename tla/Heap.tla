-------------------------------- MODULE Heap --------------------------------
(***************************************************************************)
(* The kernel heap: src/mm/heap.c with include/mm/heap.h.                  *)
(*                                                                         *)
(* The heap is one address range tiled by blocks.  A block is a 16-byte    *)
(* header (struct mem_block) followed by its payload; the headers form a   *)
(* doubly linked list in address order.  kmalloc takes the first block     *)
(* that fits and splits it, kfree merges a block with its free neighbours. *)
(*                                                                         *)
(* Memory is abstracted to the headers reachable from `first': hdr maps    *)
(* the address of each of them to its fields.  A header that is merged     *)
(* away stays in memory but nothing points to it any more, so it leaves    *)
(* the map.  Payload bytes are not modelled, except where the code reads   *)
(* them as a header (Realign) or copies them over one (Krealloc).          *)
(***************************************************************************)
EXTENDS Integers, FiniteSets

CONSTANTS
    HeapStart,      \* kheap_init's start: the page kalloc_page returned
    HeapEnd,        \* kheap_init's end
    Sizes,          \* the request sizes enumerated
    StalePayload    \* contents a dead payload may have when read as a number

VARIABLES
    hdr,            \* header address -> [used, prev, next, size]
    held,           \* allocations the callers hold: [block, ptr, size]
    halt            \* "no", or why the kernel stopped

vars == <<hdr, held, halt>>

HDR == 16           \* sizeof(mem_block_t): bool (padded), two pointers, size
NULL == 0
ALLIGNMENT == 4     \* the only alignment any caller passes (kmalloc)

\* The heap begins on a page boundary, holds one block with a payload, and
\* requests are unsigned.
ASSUME HeapAssumption ==
    /\ HeapStart \in Nat /\ HeapStart > 0 /\ HeapStart % ALLIGNMENT = 0
    /\ HeapEnd \in Nat /\ HeapEnd % ALLIGNMENT = 0
    /\ HeapEnd > HeapStart + HDR
    /\ Sizes \subseteq Nat
    /\ StalePayload \subseteq Nat

\* What every caller in the kernel passes: sizeof a struct made of words.
WordSized == \A s \in Sizes : s % ALLIGNMENT = 0

Header == [used : BOOLEAN, prev : Nat, next : Nat, size : Nat]
MemBlock(u, p, n, s) == [used |-> u, prev |-> p, next |-> n, size |-> s]

\* Header x with one field assigned.
WithPrev(x, p) == MemBlock(x.used, p, x.next, x.size)
WithUsed(x, u) == MemBlock(u, x.prev, x.next, x.size)

Halts == {"no", "kpanic", "fault", "clobbered"}

\* One past the last payload byte of block b.
End(h, b) == b + HDR + h[b].size

Blocks == DOMAIN hdr

-----------------------------------------------------------------------------
(* Searching the list.  List order is address order (BlocksTile), so the   *)
(* first block met is the lowest one.                                      *)

Misaligned(b) == (b + HDR) % ALLIGNMENT # 0

CEILING_DIV(x, y) == 1 + ((x - 1) \div y)

AlignedAddr(b) == CEILING_DIV(b + HDR, ALLIGNMENT) * ALLIGNMENT

\* Defect: a used block is handed out again.
FitsIgnoringUsed(h, b, size) == h[b].size > size

\* Block b satisfies a request: kmalloc's loop for one byte, otherwise
\* kmalloc_alligned's, where a misaligned block must also have room for the
\* header that realigning it puts in its payload.
Fits(h, b, size) ==
    /\ ~h[b].used
    /\ IF size # 1 /\ Misaligned(b)
       THEN End(h, b) - AlignedAddr(b) >= size + HDR
       ELSE h[b].size > size

FirstFit(h, size) ==
    {b \in DOMAIN h : /\ Fits(h, b, size)
                      /\ \A c \in DOMAIN h : Fits(h, c, size) => b <= c}

-----------------------------------------------------------------------------
(* Taking a block.                                                         *)

\* Defect: the block after the split keeps its old back pointer.
TakeWithoutBackLink(h, r, size) ==
    LET t == r + HDR + size IN
    IF h[r].size >= size + HDR + 1
    THEN [a \in DOMAIN h \cup {t} |->
            IF a = r THEN MemBlock(TRUE, h[r].prev, t, size)
            ELSE IF a = t THEN MemBlock(FALSE, r, h[r].next, h[r].size - size - HDR)
            ELSE h[a]]
    ELSE [h EXCEPT ![r] = WithUsed(@, TRUE)]

\* Defect: the header is not subtracted from what is left for the remainder.
TakeOversizedRemainder(h, r, size) ==
    LET t == r + HDR + size IN
    IF h[r].size >= size + HDR + 1
    THEN [a \in DOMAIN h \cup {t} |->
            IF a = r THEN MemBlock(TRUE, h[r].prev, t, size)
            ELSE IF a = t THEN MemBlock(FALSE, r, h[r].next, h[r].size - size)
            ELSE IF a = h[r].next THEN WithPrev(h[a], t)
            ELSE h[a]]
    ELSE [h EXCEPT ![r] = WithUsed(@, TRUE)]

\* The tail of both allocation functions: if the remainder can hold a header
\* and one byte it becomes a free block of its own, then r is marked used.
TakeBlock(h, r, size) ==
    LET t == r + HDR + size IN
    IF h[r].size >= size + HDR + 1
    THEN [a \in DOMAIN h \cup {t} |->
            IF a = r THEN MemBlock(TRUE, h[r].prev, t, size)
            ELSE IF a = t THEN MemBlock(FALSE, r, h[r].next, h[r].size - size - HDR)
            ELSE IF a = h[r].next THEN WithPrev(h[a], t)
            ELSE h[a]]
    ELSE [h EXCEPT ![r] = WithUsed(@, TRUE)]

\* What the size field of the header written d bytes into an old header holds:
\* the code never assigns it.  Its low 4 - d bytes are the high bytes of the
\* size just stored in the old header (d - 16, wrapped to 32 bits, so all
\* ones); the rest is the first d bytes of the payload.
UnassignedSize(d, stale) ==
    (2 ^ (8 * (4 - d)) - 1) + stale * 2 ^ (8 * (4 - d))

\* kmalloc_alligned on a misaligned block: the header moves up to end at the
\* aligned address and the block before it grows by the bytes in between.
\* The first block is aligned, so there is a block before it.
Realign(h, b, size) ==
    LET n == AlignedAddr(b) - HDR
        p == h[b].prev
    IN  [a \in (DOMAIN h \ {b}) \cup {n} |->
            IF a = n
            THEN MemBlock(FALSE, p, h[b].next, size)
            ELSE IF a = p
            THEN MemBlock(h[p].used, h[p].prev, n, h[p].size + (n - b))
            ELSE IF a = h[b].next THEN WithPrev(h[a], n)
            ELSE h[a]]

\* The outcomes of giving block b to a request: the block used and the new
\* header map.
Placements(h, b, size) ==
    IF size # 1 /\ Misaligned(b)
    THEN LET n == AlignedAddr(b) - HDR IN
         {[block |-> n,
           map |-> TakeBlock(Realign(h, b, UnassignedSize(n - b, s)), n, size)] :
             s \in StalePayload}
    ELSE {[block |-> b, map |-> TakeBlock(h, b, size)]}

-----------------------------------------------------------------------------
(* Releasing a block.                                                      *)

\* Block p takes over block n, the one after it.
Absorb(h, p, n) ==
    [a \in DOMAIN h \ {n} |->
        IF a = p
        THEN MemBlock(h[p].used, h[p].prev, h[n].next, h[p].size + HDR + h[n].size)
        ELSE IF a = h[n].next THEN WithPrev(h[a], p)
        ELSE h[a]]

FreeNeighbour(h, a) == a # NULL /\ ~h[a].used

\* Merge with the block after it, if that one is free.
MergeNext(h, b) == IF FreeNeighbour(h, h[b].next) THEN Absorb(h, b, h[b].next) ELSE h

\* Defect: the block is only merged with its predecessor.
FreeMergingBackOnly(h, b) ==
    LET freed == [h EXCEPT ![b] = WithUsed(@, FALSE)]
        p == h[b].prev
    IN  IF FreeNeighbour(freed, p) THEN Absorb(freed, p, b) ELSE freed

\* kfree and kfree_block: mark free, merge with the block before, then merge
\* the outcome with the block after.
FreeBlock(h, b) ==
    LET freed == [h EXCEPT ![b] = WithUsed(@, FALSE)]
        p == h[b].prev
    IN  IF FreeNeighbour(freed, p)
        THEN MergeNext(Absorb(freed, p, b), p)
        ELSE MergeNext(freed, b)

-----------------------------------------------------------------------------
(* The functions of heap.h.                                                *)

\* kheap_init: one free block covers the heap.
Init ==
    /\ hdr = [a \in {HeapStart} |->
                MemBlock(FALSE, NULL, NULL, HeapEnd - HeapStart - HDR)]
    /\ held = {}
    /\ halt = "no"

\* kmalloc finds a block: the caller gets the address of its payload.
Kmalloc(size) ==
    /\ halt = "no"
    /\ \E b \in FirstFit(hdr, size) : \E r \in Placements(hdr, b, size) :
         /\ hdr' = r.map
         /\ held' = held \cup
                {[block |-> r.block, ptr |-> r.block + HDR, size |-> size]}
    /\ UNCHANGED halt

\* kmalloc finds none.  kmalloc_alligned panics; the one-byte path returns 0.
KmallocFails(size) ==
    /\ halt = "no"
    /\ size # 1
    /\ FirstFit(hdr, size) = {}
    /\ halt' = "kpanic"
    /\ UNCHANGED <<hdr, held>>

\* Callers pass kfree and krealloc only what kmalloc returned.
Live(a) == a.block \in Blocks /\ a.ptr = a.block + HDR

Kfree(a) ==
    /\ halt = "no"
    /\ Live(a)
    /\ hdr' = FreeBlock(hdr, a.block)
    /\ held' = held \ {a}
    /\ UNCHANGED halt

\* What the caller of kcalloc or krealloc holds when kmalloc found nothing for
\* one byte and returned 0: the header size added to 0.
Bogus == [block |-> NULL, ptr |-> HDR, size |-> 1]

\* kcalloc of a non-zero product: kmalloc, then the header size is added once
\* more to the payload address.  The memory is not cleared.  A failing kmalloc
\* panics, except for one byte.
Kcalloc(size) ==
    /\ halt = "no"
    /\ size # 0
    /\ IF FirstFit(hdr, size) = {}
       THEN /\ halt' = IF size = 1 THEN "no" ELSE "kpanic"
            /\ held' = IF size = 1 THEN held \cup {Bogus} ELSE held
            /\ UNCHANGED hdr
       ELSE /\ \E b \in FirstFit(hdr, size) : \E r \in Placements(hdr, b, size) :
                 /\ hdr' = r.map
                 /\ held' = held \cup {[block |-> r.block,
                                        ptr |-> r.block + HDR + HDR,
                                        size |-> size]}
            /\ UNCHANGED halt

\* memcpy of n bytes to dst runs over a header of map h.
CopyHitsHeader(h, dst, n) == \E c \in DOMAIN h : c < dst + n /\ dst < c + HDR

\* krealloc of a live pointer to a non-zero size: free the block, kmalloc the
\* new size, add the header size once more, and copy the OLD block's size there.
\* If kmalloc finds nothing it panics or, for one byte, the copy, unless it is
\* empty, goes to address 16, which is not mapped.
Krealloc(a, size) ==
    /\ halt = "no"
    /\ Live(a)
    /\ size # 0
    /\ LET freed == FreeBlock(hdr, a.block) IN
       IF FirstFit(freed, size) = {}
       THEN /\ hdr' = freed
            /\ held' = (held \ {a}) \cup (IF size = 1 THEN {Bogus} ELSE {})
            /\ halt' = IF size # 1 THEN "kpanic"
                       ELSE IF hdr[a.block].size > 0 THEN "fault" ELSE "no"
       ELSE \E b \in FirstFit(freed, size) :
            \E r \in Placements(freed, b, size) :
              LET dst == r.block + HDR + HDR IN
              /\ hdr' = r.map
              /\ held' = (held \ {a}) \cup
                    {[block |-> r.block, ptr |-> dst, size |-> size]}
              /\ halt' = IF CopyHitsHeader(r.map, dst, hdr[a.block].size)
                         THEN "clobbered" ELSE "no"

-----------------------------------------------------------------------------
(* The specifications: the two functions the kernel calls, and all four    *)
(* that heap.h declares.  krealloc(0, size) is kmalloc(size) and           *)
(* krealloc(ptr, 0) is kfree(ptr).                                         *)

Next ==
    \/ \E size \in Sizes : Kmalloc(size) \/ KmallocFails(size)
    \/ \E a \in held : Kfree(a)

Spec == Init /\ [][Next]_vars

ApiNext ==
    \/ Next
    \/ \E size \in Sizes : Kcalloc(size)
    \/ \E a \in held, size \in Sizes : Krealloc(a, size)

ApiSpec == Init /\ [][ApiNext]_vars

-----------------------------------------------------------------------------
(* Properties.                                                             *)

TypeOK ==
    /\ hdr \in [Blocks -> Header]
    /\ Blocks \subseteq HeapStart..HeapEnd
    /\ \A a \in held : a.block \in Nat /\ a.ptr \in Nat /\ a.size \in Nat
    /\ halt \in Halts

\* The links of block b are right: next is the block that begins where b ends
\* and points back to b, and only the last block, ending at HeapEnd, has none;
\* prev is the block whose next is b, and only the first block has none.
LinksOK(h, b) ==
    /\ IF h[b].next = NULL
       THEN End(h, b) = HeapEnd
       ELSE /\ h[b].next = End(h, b)
            /\ h[b].next \in DOMAIN h
            /\ h[h[b].next].prev = b
    /\ IF h[b].prev = NULL
       THEN b = HeapStart
       ELSE /\ h[b].prev \in DOMAIN h
            /\ h[h[b].prev].next = b

Tiles(h) ==
    /\ HeapStart \in DOMAIN h
    /\ h[HeapStart].prev = NULL
    /\ \A b \in DOMAIN h : LinksOK(h, b)
    /\ \A b, c \in DOMAIN h : b < c => End(h, b) <= c

\* The blocks tile the heap: no byte between HeapStart and HeapEnd is lost or
\* in two blocks, and the list links them in address order both ways, through
\* every split of kmalloc and every merge of kfree.
BlocksTile == Tiles(hdr)

Coalesces(h) ==
    \A b \in DOMAIN h : ~h[b].used /\ h[b].next # NULL => h[h[b].next].used

\* kfree's two merges leave no two free blocks side by side, whatever the order
\* in which blocks are taken and released.
NoFreeNeighbours == Coalesces(hdr)

\* A block is marked used exactly while one caller holds it, and it is at least
\* as large as that caller's request.
HeldBlocksUsed ==
    /\ \A a \in held : /\ a.block \in Blocks
                       /\ hdr[a.block].used
                       /\ a.size <= hdr[a.block].size
    /\ \A a1, a2 \in held : a1.block = a2.block => a1 = a2
    /\ \A b \in Blocks : hdr[b].used => \E a \in held : a.block = b

\* Once every caller has freed what it was given, the heap is again the single
\* block kheap_init made: nothing leaks and nothing stays fragmented.
AllFreedRestoresHeap ==
    held = {} => /\ Blocks = {HeapStart}
                 /\ hdr[HeapStart].size = HeapEnd - HeapStart - HDR

\* "These functions work the same way as the ones in the C standard library"
\* (heap.h): the memory of every caller is inside the heap and apart from the
\* memory of every other.
RegionsApart ==
    \A a \in held :
      /\ a.ptr >= HeapStart /\ a.ptr + a.size <= HeapEnd
      /\ \A c \in held : a # c => \/ a.ptr + a.size <= c.ptr
                                  \/ c.ptr + c.size <= a.ptr

\* "These functions work the same way as the ones in the C standard library"
\* (heap.h): the bytes a caller asked for lie in the block it was given, and no
\* reallocation writes outside of it.
PointersUsable ==
    /\ halt # "clobbered"
    /\ \A a \in held : /\ a.block \in Blocks
                       /\ a.ptr >= a.block + HDR
                       /\ a.ptr + a.size <= End(hdr, a.block)

\* The allocator as its callers see it.
A == INSTANCE Allocator WITH
        Lo <- HeapStart, Hi <- HeapEnd,
        owned <- {[ptr |-> a.ptr, size |-> a.size] : a \in held},
        stopped <- halt # "no"

\* kmalloc and kfree implement the abstract allocator: every region handed out
\* is inside the heap and apart from every region still held.
ImplementsAllocator == A!Spec
=============================================================================
