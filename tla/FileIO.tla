------------------------------- MODULE FileIO -------------------------------
(***************************************************************************)
(* Moving bytes between a caller and the disk, one buffer at a time:       *)
(* bdev_read and bdev_write (src/fs/devfs/devfs.c) on the device, and      *)
(* ext2_read and ext2_write (src/fs/ext2/ext2.c) on a file.                *)
(*                                                                         *)
(* A byte is named by the place it is moved from or to: <<sector, offset   *)
(* in the buffer>>.  An offset of SectorSize or more is memory behind the  *)
(* buffer.  One call is modelled: the functions keep no state of their own *)
(* and a caller may pass any position.  get_block never returns NULL (it   *)
(* faults first, see BufferCache), so the returns that test for it are     *)
(* left out.                                                               *)
(***************************************************************************)
EXTENDS Integers, Sequences

CONSTANTS
    SectorSize,     \* BLOCK_SIZE (512)
    Spb,            \* block_size / BLOCK_SIZE: sectors in a block of the file system
    NDirect         \* direct blocks of an inode (12)

VARIABLES
    pc,             \* "idle", "outer" or "inner" (the loop it is in), "returned"
    fn, file,       \* the function called, and its inode: [size, slot, reg, odd]; slot
                    \*   is the array of block numbers, the indirect ones behind the
                    \*   direct ones
    pos0, count0,   \* its arguments
    pos,            \* *pos or *off
    count, i, k, offset, moved,     \* the local variables (moved: read, wrote)
    bytes,          \* the places moved from or to, in order
    dirty,          \* sectors whose buffer was marked dirty
    bufs, mem,      \* buffers and heap memory the call holds
    result          \* what the call returned

vars == <<pc, fn, file, pos0, count0, pos, count, i, k, offset, moved, bytes,
          dirty, bufs, mem, result>>

Writes(f) == f \in {"bdev_write", "ext2_write"}
IsExt2(f) == f \in {"ext2_read", "ext2_write"}

\* The bdev functions have no inode.
NoFile == [size |-> 0, slot |-> <<>>, reg |-> FALSE, odd |-> FALSE]

\* The sector that holds the inode of the file: none of the file's own.
InodeSector == -1

\* Block number i of the inode; the fields behind the block numbers are 0.
Slot(f, n) == IF n \in DOMAIN f.slot THEN f.slot[n] ELSE 0

Init ==
    /\ pc = "idle" /\ fn = "bdev_read" /\ file = NoFile
    /\ pos0 = 0 /\ count0 = 0 /\ pos = 0 /\ count = 0
    /\ i = 0 /\ k = 0 /\ offset = 0 /\ moved = 0
    /\ bytes = <<>> /\ dirty = {} /\ bufs = 0 /\ mem = 0 /\ result = 0

\* The checks before the loops.  The precedence of & and != makes the test of
\* flags one of its lowest bit (odd).  The last test comes when memory and, for
\* a write, the inode's buffer have been taken.
Refused(g, f, p, c) == IsExt2(g) /\ (p + c >= f.size \/ f.odd)
NotRegular(g, f) == IsExt2(g) /\ ~f.reg

\* A call, up to its loop or an early return.
Call(g, f, p, c) ==
    /\ pc = "idle"
    /\ fn' = g /\ file' = f /\ pos0' = p /\ count0' = c
    /\ pos' = p /\ count' = c /\ moved' = 0 /\ bytes' = <<>>
    /\ UNCHANGED dirty
    /\ i' = p \div SectorSize /\ k' = 0 /\ offset' = p % SectorSize
    /\ mem' = IF IsExt2(g) /\ ~Refused(g, f, p, c) THEN 1 ELSE 0
    /\ bufs' = IF g = "ext2_write" /\ ~Refused(g, f, p, c) THEN 1 ELSE 0
    /\ IF Refused(g, f, p, c) \/ NotRegular(g, f)
       THEN pc' = "returned" /\ result' = -1
       ELSE pc' = "outer" /\ UNCHANGED result

\* The condition of the outer loop.
GoesOn ==
    CASE fn = "ext2_read"  -> i < NDirect /\ Slot(file, i) # 0
      [] fn = "ext2_write" -> Slot(file, i) # 0
      [] OTHER             -> count > 0

Outer ==
    /\ pc = "outer" /\ GoesOn
    /\ pc' = "inner" /\ k' = 0
    /\ UNCHANGED <<fn, file, pos0, count0, pos, count, i, offset, moved, bytes,
                   dirty, bufs, mem, result>>

\* Defect: the copy of the inode is not freed.
ReturnKeeping ==
    /\ pc = "outer" /\ ~GoesOn
    /\ pc' = "returned" /\ result' = moved
    /\ bufs' = 0 /\ UNCHANGED mem
    /\ dirty' = IF fn = "ext2_write" THEN dirty \cup {InodeSector} ELSE dirty
    /\ UNCHANGED <<fn, file, pos0, count0, pos, count, i, k, offset, moved, bytes>>

\* The loop is left: ext2_write marks the inode's buffer and puts it back, though
\* the new size went into the copy of the inode, and the copy is freed.
Return ==
    /\ pc = "outer" /\ ~GoesOn
    /\ pc' = "returned" /\ result' = moved
    /\ bufs' = 0 /\ mem' = 0
    /\ dirty' = IF fn = "ext2_write" THEN dirty \cup {InodeSector} ELSE dirty
    /\ UNCHANGED <<fn, file, pos0, count0, pos, count, i, k, offset, moved, bytes>>

\* The sector get_block is asked for.
Sector == IF IsExt2(fn) THEN Slot(file, i) * Spb + k ELSE i

Chars == IF count < SectorSize THEN count ELSE SectorSize

\* Defect: i moves on before the sector is asked for.
CopyFromNext ==
    /\ pc = "inner" /\ (IsExt2(fn) => k < Spb /\ count > 0)
    /\ i' = i + 1 /\ k' = k + 1
    /\ bytes' = bytes \o [n \in 1..Chars |->
                  <<IF IsExt2(fn) THEN Slot(file, i') * Spb + k ELSE i', offset + n - 1>>]
    /\ offset' = 0
    /\ pos' = pos + Chars /\ moved' = moved + Chars /\ count' = count - Chars
    /\ pc' = IF IsExt2(fn) THEN "inner" ELSE "outer"
    /\ UNCHANGED <<fn, file, pos0, count0, bufs, mem, result>>

\* One sector, whichever way: get_block, move up to SectorSize bytes from offset on, put_block.
\* ext2 moves i on with every sector, though it is the number of a block.
Copy ==
    /\ pc = "inner" /\ (IsExt2(fn) => k < Spb /\ count > 0)
    /\ bytes' = bytes \o [n \in 1..Chars |-> <<Sector, offset + n - 1>>]
    /\ offset' = 0
    /\ i' = i + 1 /\ k' = k + 1
    /\ pos' = pos + Chars /\ moved' = moved + Chars /\ count' = count - Chars
    /\ pc' = IF IsExt2(fn) THEN "inner" ELSE "outer"
    /\ UNCHANGED <<fn, file, pos0, count0, bufs, mem, result>>

ReadSector == Copy /\ ~Writes(fn) /\ UNCHANGED dirty

\* The buffer written to is marked for get_block to write it back.
WriteSector == Copy /\ Writes(fn) /\ dirty' = dirty \cup {Sector}

\* ext2's inner loop ends.
InnerEnds ==
    /\ pc = "inner" /\ IsExt2(fn) /\ ~(k < Spb /\ count > 0)
    /\ pc' = "outer"
    /\ UNCHANGED <<fn, file, pos0, count0, pos, count, i, k, offset, moved, bytes,
                   dirty, bufs, mem, result>>

Step == Outer \/ Return \/ ReadSector \/ WriteSector \/ InnerEnds
-----------------------------------------------------------------------------
(* Properties.                                                             *)

\* Where byte p of the device or the file is.
Place(p) ==
    IF IsExt2(fn)
    THEN <<Slot(file, p \div (SectorSize * Spb)) * Spb + ((p \div SectorSize) % Spb),
           p % SectorSize>>
    ELSE <<p \div SectorSize, p % SectorSize>>

\* The position, the count and the number of bytes moved agree: a caller that
\* repeats a short call continues where it stopped.
PositionTracks ==
    /\ pos = pos0 + moved
    /\ Len(bytes) = moved
    /\ count >= 0
    /\ (result >= 0 \/ pc # "returned") => count + moved = count0

\* The requests whose bytes the loops handle.  For the device: those that start at
\* a sector boundary or stay in one sector; otherwise the first copy runs over the
\* end of its buffer.  For a file: those in its first sector, as kernel_main's.
Handled ==
    IF IsExt2(fn) THEN pos0 + count0 <= SectorSize
    ELSE pos0 % SectorSize = 0 \/ (pos0 % SectorSize) + count0 <= SectorSize

\* The buffers marked dirty are those bytes were written to, none that was only
\* read and none whose bytes would be lost when it is evicted, and that of the
\* inode once ext2_write is through.
DirtyWhereWritten ==
    dirty = (IF Writes(fn) THEN {bytes[n][1] : n \in DOMAIN bytes} ELSE {})
            \cup (IF fn = "ext2_write" /\ pc = "returned" /\ result >= 0
                  THEN {InodeSector} ELSE {})

\* At every step of a transfer the bytes moved so far are those of the device or the
\* file, in order, the position tells how many, and the buffers marked dirty, whose
\* bytes are not lost when they are evicted, are those written to.
TransferRight ==
    /\ PositionTracks /\ DirtyWhereWritten
    /\ Handled => bytes = [n \in 1..moved |-> Place(pos0 + n - 1)]

\* Which calls return: those on the device, and ext2 calls that move bytes of the
\* first sector of a file with a single block.  With more blocks the loop of ext2
\* goes round for ever when count has reached 0.
Ends ==
    \/ ~IsExt2(fn)
    \/ count0 > 0 /\ pos0 + count0 <= SectorSize /\ Slot(file, 1) = 0

\* They return, having put back their buffer and freed their memory, unless they
\* found something other than a regular file: the early return keeps them.
CallsReturn ==
    [](pc # "idle" /\ Ends =>
         <>(pc = "returned" /\ (NotRegular(fn, file) \/ (bufs = 0 /\ mem = 0))))
=============================================================================
