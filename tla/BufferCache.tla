---------------------------- MODULE BufferCache -----------------------------
(***************************************************************************)
(* The block buffer cache: src/fs/devfs/buffer.c, used by bdev_read and    *)
(* bdev_write (src/fs/devfs/devfs.c) and by ext2.                          *)
(*                                                                         *)
(* A fixed pool of buffers is threaded through two kinds of lists: hash    *)
(* chains (buff_head, next), searched by get_block, and the free list      *)
(* (lru_buff, next_free), from which get_block takes its victim on a miss. *)
(* There is one device.  A block's contents is one value; the disk is a    *)
(* map from blocks to values that the ATA driver reads and writes.         *)
(*                                                                         *)
(* Left out: the prev fields, which are written and never read, and        *)
(* mru_buff, which is only used for CLASS_DIR buffers, and no code sets    *)
(* that flag.                                                              *)
(***************************************************************************)
EXTENDS Integers, FiniteSets

CONSTANTS
    NBuf,           \* MAX_BUFFER (100)
    Buckets,        \* hash chains (256)
    Blocks,         \* the blocks callers ask for
    Values,         \* what a block may contain
    Holders,        \* callers that may hold a buffer at the same time
    StaleDirty,     \* what the first buffer may have in the fields that
    StaleCount      \*   init_buffer leaves as kmalloc returned them

ASSUME BufferAssumption ==
    /\ NBuf \in Nat \ {0}
    /\ Buckets \in Nat \ {0}
    /\ Blocks \subseteq Nat \ {0}
    /\ Values # {}
    /\ StaleDirty \subseteq BOOLEAN /\ StaleCount \subseteq Nat
    /\ IsFiniteSet(Holders)

VARIABLES
    buf,            \* the buffer_heads: [block, dirty, count, next, next_free,
                    \*   prev_free, data]
    buff_head,      \* bucket -> first buffer of its chain
    lru_buff,       \* first buffer of the free list
    disk,           \* block -> value
    hold,           \* holder -> what get_block returned, and whether by a miss
    halt,           \* "no", "fault" (NULL dereferenced) or "hang" (endless walk)
    latest,         \* history: block -> value last written by a caller
    touched,        \* history: blocks asked for so far
    misses,         \* history: number of misses
    shared,         \* history: two buffers were held at the same time
    stale           \* history: the count that the first buffer began with

vars == <<buf, buff_head, lru_buff, disk, hold, halt, latest, touched, misses, shared, stale>>

Bufs == 1..NBuf
NULL == 0
NoBlock == 0        \* the label of a buffer not used yet: block 0 of device 0
Free == [buf |-> NULL, block |-> NoBlock, miss |-> FALSE]
Bucket(b) == b % Buckets

-----------------------------------------------------------------------------
(* Walking the lists.                                                      *)

\* The n-th buffer of the chain that starts at s, following `field'.
Walk(s, succ) ==
    LET w[n \in 0..NBuf] == IF n = 0 THEN s
                            ELSE IF w[n-1] = NULL THEN NULL ELSE succ[w[n-1]]
    IN  w

Chain(b) == Walk(buff_head[Bucket(b)], [i \in Bufs |-> buf[i].next])

\* Positions in the chain of b at which a buffer labelled b stands.
Matches(b) ==
    {n \in 0..NBuf : Chain(b)[n] # NULL /\ buf[Chain(b)[n]].block = b}

\* The walk of get_block stops at the first match, or at the end of the chain;
\* a chain with neither within NBuf steps is a cycle.
Found(b) == {Chain(b)[n] : n \in {m \in Matches(b) : \A k \in Matches(b) : m <= k}}
Ends(b) == \E n \in 0..NBuf : Chain(b)[n] = NULL

FreeWalk == Walk(lru_buff, [i \in Bufs |-> buf[i].next_free])
FreeList == {FreeWalk[n] : n \in 0..NBuf} \ {NULL}

-----------------------------------------------------------------------------
\* init_buffer: every buffer is on the chain of bucket 0 and on the free list.
\* The fields not assigned are 0, as in memory never used before, except in the
\* first buffer, which lies where the kthread_t that kernel_main freed was: its
\* dirty and count are the ecx and edx switch_task saved there.  Its block_num is the
\* ebx saved there, which kthread_create has set to 0 and test() and preempt preserve, so
\* whatever its device and flags are it is labelled like the others.
Init ==
    /\ stale \in StaleCount
    /\ \E d \in StaleDirty : buf = [i \in Bufs |->
                [block |-> NoBlock, dirty |-> i = 1 /\ d,
                 count |-> IF i = 1 THEN stale ELSE 0,
                 next |-> IF i < NBuf THEN i + 1 ELSE NULL,
                 next_free |-> IF i < NBuf THEN i + 1 ELSE NULL,
                 prev_free |-> i - 1,
                 data |-> CHOOSE v \in Values : TRUE]]
    /\ buff_head = [k \in 0..(Buckets - 1) |-> IF k = 0 THEN 1 ELSE NULL]
    /\ lru_buff = 1
    /\ disk = [b \in Blocks \cup {NoBlock} |-> CHOOSE v \in Values : TRUE]
    /\ hold = [h \in Holders |-> Free]
    /\ halt = "no"
    /\ latest = disk
    /\ touched = {} /\ misses = 0 /\ shared = FALSE

\* Writing buffer i back if it is dirty, to the block it is labelled with.
WriteBack(i) ==
    IF buf[i].dirty THEN [disk EXCEPT ![buf[i].block] = buf[i].data] ELSE disk

\* get_block finds the block.  A buffer with no users is taken off the free list
\* and written; in every case its count goes up.
Hit(h, b, i) ==
    LET x == buf[i]
        pf == x.prev_free
        nf == x.next_free
    IN  /\ IF x.count = 0
           THEN /\ buf' = [j \in Bufs |->
                      IF j = i THEN [x EXCEPT !.next_free = NULL, !.prev_free = NULL,
                                              !.dirty = FALSE, !.count = 1]
                      ELSE IF j = pf THEN [buf[j] EXCEPT !.next_free = nf]
                      ELSE IF j = nf THEN [buf[j] EXCEPT !.prev_free = pf]
                      ELSE buf[j]]
                /\ disk' = WriteBack(i)
           ELSE /\ buf' = [buf EXCEPT ![i].count = @ + 1]
                /\ UNCHANGED disk
        /\ hold' = [hold EXCEPT ![h] = [buf |-> i, block |-> b, miss |-> FALSE]]
        /\ UNCHANGED <<buff_head, lru_buff, halt, misses>>

\* The victim's fields after a miss on b: relabelled, read, put in front of the
\* new chain and off the free list.  Its old chain is not repaired.
Relabelled(v, b, d) ==
    [block |-> b, dirty |-> FALSE, count |-> buf[v].count + 1,
     next |-> buff_head[Bucket(b)], next_free |-> NULL, prev_free |-> NULL,
     data |-> d[b]]

\* Defect: the victim is not written back.
MissWithoutWriteBack(h, b, v) ==
    LET nf == buf[v].next_free
    IN  /\ buf' = [j \in Bufs |->
                     IF j = v THEN Relabelled(v, b, disk)
                     ELSE IF j = nf THEN [buf[j] EXCEPT !.prev_free = NULL]
                     ELSE buf[j]]
        /\ lru_buff' = nf
        /\ buff_head' = [buff_head EXCEPT ![Bucket(b)] = v]
        /\ hold' = [hold EXCEPT ![h] = [buf |-> v, block |-> b, miss |-> TRUE]]
        /\ misses' = misses + 1
        /\ UNCHANGED <<halt, disk>>

\* Defect: the victim stays at the head of the free list.
MissKeepingVictimListed(h, b, v) ==
    LET d == WriteBack(v)
    IN  /\ buf' = [j \in Bufs |->
                     IF j = v THEN [Relabelled(v, b, d) EXCEPT
                                      !.next_free = buf[v].next_free]
                     ELSE buf[j]]
        /\ disk' = d
        /\ buff_head' = [buff_head EXCEPT ![Bucket(b)] = v]
        /\ hold' = [hold EXCEPT ![h] = [buf |-> v, block |-> b, miss |-> TRUE]]
        /\ misses' = misses + 1
        /\ UNCHANGED <<halt, lru_buff>>

\* get_block takes the head v of the free list for block b, whatever its count.
Miss(h, b, v) ==
    LET nf == buf[v].next_free
        d == WriteBack(v)
    IN  /\ buf' = [j \in Bufs |->
                     IF j = v THEN Relabelled(v, b, d)
                     ELSE IF j = nf THEN [buf[j] EXCEPT !.prev_free = NULL]
                     ELSE buf[j]]
        /\ lru_buff' = nf
        /\ disk' = d
        /\ buff_head' = [buff_head EXCEPT ![Bucket(b)] = v]
        /\ hold' = [hold EXCEPT ![h] = [buf |-> v, block |-> b, miss |-> TRUE]]
        /\ misses' = misses + 1
        /\ UNCHANGED halt

Stop(why) ==
    /\ halt' = why
    /\ UNCHANGED <<buf, buff_head, lru_buff, disk, hold, misses>>

GetBlock(h, b) ==
    /\ halt = "no"
    /\ hold[h] = Free
    /\ touched' = touched \cup {b}
    /\ shared' = (shared \/ \E g \in Holders : hold[g] # Free)
    /\ \/ \E i \in Found(b) : Hit(h, b, i)
       \/ Found(b) = {} /\ ~Ends(b) /\ Stop("hang")
       \/ Found(b) = {} /\ Ends(b) /\ lru_buff = NULL /\ Stop("fault")
       \/ Found(b) = {} /\ Ends(b) /\ lru_buff # NULL /\ Miss(h, b, lru_buff)
    /\ UNCHANGED <<latest, stale>>

\* A holder writes into the buffer it was given and marks it dirty (bdev_write).
WriteData(h, v) ==
    /\ halt = "no"
    /\ hold[h] # Free
    /\ buf' = [buf EXCEPT ![hold[h].buf].data = v, ![hold[h].buf].dirty = TRUE]
    /\ latest' = [latest EXCEPT ![hold[h].block] = v]
    /\ UNCHANGED <<buff_head, lru_buff, disk, hold, halt, touched, misses, shared, stale>>

\* Defect: a buffer with other users is listed too.
PutAlways(i) ==
    /\ lru_buff # NULL
    /\ buf' = [buf EXCEPT ![lru_buff].prev_free = i,
                          ![i].next_free = lru_buff, ![i].count = @ - 1]
    /\ lru_buff' = i
    /\ UNCHANGED halt

\* Defect: the buffer is not listed again.
PutWithoutListing(i) ==
    /\ buf' = [buf EXCEPT ![i].count = IF @ > 1 THEN @ - 1 ELSE @]
    /\ UNCHANGED <<lru_buff, halt>>

\* put_block: with other users only the count goes down.  The last user leaves
\* the count at 1 and puts the buffer at the head of the free list, through a
\* NULL pointer if the list is empty.
PutBuffer(i) ==
    \/ /\ buf[i].count > 1
       /\ buf' = [buf EXCEPT ![i].count = @ - 1]
       /\ UNCHANGED <<lru_buff, halt>>
    \/ /\ buf[i].count <= 1
       /\ lru_buff = NULL
       /\ halt' = "fault"
       /\ UNCHANGED <<buf, lru_buff>>
    \/ /\ buf[i].count <= 1
       /\ lru_buff # NULL
       /\ buf' = [buf EXCEPT ![lru_buff].prev_free = i, ![i].next_free = lru_buff]
       /\ lru_buff' = i
       /\ UNCHANGED halt

PutBlock(h) ==
    /\ halt = "no"
    /\ hold[h] # Free
    /\ PutBuffer(hold[h].buf)
    /\ hold' = [hold EXCEPT ![h] = Free]
    /\ UNCHANGED <<buff_head, disk, latest, touched, misses, shared, stale>>

Next ==
    \E h \in Holders :
      \/ \E b \in Blocks : GetBlock(h, b)
      \/ \E v \in Values : WriteData(h, v)
      \/ PutBlock(h)

Spec == Init /\ [][Next]_vars

-----------------------------------------------------------------------------
(* Properties.                                                             *)

\* The blocks asked for so far have chains of their own, apart from the chain of
\* bucket 0 on which init_buffer put the whole pool.
CollisionFree ==
    /\ \A b \in touched : Bucket(b) # 0
    /\ \A b, c \in touched : Bucket(b) = Bucket(c) => b = c

\* What get_block returns is labelled with the block asked for and holds what was
\* last written to it, though evicted buffers stay on the chains of their old
\* blocks and dirty ones may never reach the disk - as long as no two blocks hash
\* to one chain, and callers hold one buffer at a time.
Coherent ==
    CollisionFree /\ ~shared =>
        \A h \in Holders : hold[h] # Free =>
            /\ buf[hold[h].buf].block = hold[h].block
            /\ buf[hold[h].buf].data = latest[hold[h].block]

\* The free list ends, whatever callers do, and under the same conditions no chain
\* becomes a cycle, so get_block's walks of both end.
ChainsEnd ==
    /\ \E n \in 0..NBuf : FreeWalk[n] = NULL
    /\ CollisionFree /\ ~shared => halt # "hang"

\* The pool serves each buffer's first miss, and fewer than two misses per buffer
\* before get_block or put_block finds the free list empty: put_block puts each
\* buffer back once and never again, because it leaves the count of a released
\* buffer at 1 and get_block adds to that.  A caller that holds one buffer at a
\* time gets exactly 2 * NBuf - 1, if the first buffer's count began at 0.
PoolServesTwice ==
    /\ misses < 2 * NBuf
    /\ halt = "fault" => misses >= NBuf
    /\ halt = "fault" /\ ~shared /\ stale = 0 => misses = 2 * NBuf - 1

\* A buffer obtained by a miss is off the free list until its holder puts it
\* back, so no other caller's miss can take it away.
MissedBufferStays ==
    \A h \in Holders : hold[h] # Free /\ hold[h].miss =>
        /\ hold[h].buf \notin FreeList
        /\ buf[hold[h].buf].block = hold[h].block

-----------------------------------------------------------------------------
(* The cache as a store of blocks.                                         *)

\* Callers that hold one buffer at a time, as bdev_read and bdev_write do, and ask for
\* blocks with chains of their own.
Careful == CollisionFree /\ ~shared
CarefulSpec == Init /\ [][Next /\ Careful']_vars

\* A block's contents is in the buffer labelled with it, or else on the disk.
Content ==
    [b \in Blocks |-> IF \E i \in Bufs : buf[i].block = b
                      THEN buf[CHOOSE i \in Bufs : buf[i].block = b].data ELSE disk[b]]

\* What a caller sees in the buffer it holds.
Views ==
    [h \in Holders |-> IF hold[h] = Free THEN <<>> ELSE <<hold[h].block, buf[hold[h].buf].data>>]

Store == INSTANCE BlockStore WITH store <- Content, view <- Views

\* As long as callers are careful they see a store: get_block changes no block's contents,
\* whichever victim it relabels and whether or not that is written back, and shows the
\* contents of the block asked for; only a write changes it, of that block; and what is put
\* back stays.
ImplementsStore ==
    /\ Store!Init
    /\ [][Careful' => Store!Next \/ UNCHANGED <<Content, Views>>]_vars
=============================================================================
