------------------------------- MODULE RootFs --------------------------------
(***************************************************************************)
(* What kernel_main does with the root file system: it looks a name up in  *)
(* a directory (Ext2Lookup) and calls ext2_read, or ext2_write, with the   *)
(* inode it got (FileIO), whatever the lookup returned.  Before that, the  *)
(* device itself may be read or written through devfs.                     *)
(*                                                                         *)
(* The inode passed to lookup comes from kmalloc uncleared, so that after  *)
(* a failure all of it, and after a success its flags, are what the memory *)
(* held before.                                                            *)
(***************************************************************************)
EXTENDS Integers, Sequences

CONSTANTS
    SectorSize, Spb, NDirect,   \* as in Ext2Lookup and FileIO
    Directories, Names,         \* the directories on the disk, the names looked up
    Inodes,                     \* inode number -> [size, slot, reg], the inodes on the disk
    Majors,                     \* major numbers of device files
    MaxPos                      \* positions and counts enumerated

BLOCK_DEV == 3

VARIABLES
    lpc, dir, filename, li, lk, lat, lsize, lbufs, found,       \* of Ext2Lookup
    pc, fn, file, pos0, count0, pos, count, i, k, offset, moved, bytes, dirty, bufs, mem,
    result,                                                     \* of FileIO
    panic           \* kpanic was called

lookupVars == <<lpc, dir, filename, li, lk, lat, lsize, lbufs, found>>
fileVars == <<pc, fn, file, pos0, count0, pos, count, i, k, offset, moved, bytes,
              dirty, bufs, mem, result>>
vars == <<lookupVars, fileVars, panic>>

L == INSTANCE Ext2Lookup WITH
        pc <- lpc, i <- li, k <- lk, at <- lat, size <- lsize, bufs <- lbufs, result <- found
F == INSTANCE FileIO

\* Where an entry begins and ends, counted from the start of the directory.
Start(e) == e.sec * SectorSize + e.off
End(e) == Start(e) + e.size

\* A directory on the disk: its entries in use follow one another to the end of the
\* block, none of them empty and nothing else where one begins, and name inodes that
\* exist.
OnDisk(d) ==
    /\ d.blocks \in 0..NDirect
    /\ \A e \in d.ents :
         /\ e.sec \in Nat /\ e.sec < d.blocks * Spb
         /\ e.off \in Nat /\ e.off < SectorSize /\ e.size \in Nat
         /\ e.inode \in DOMAIN Inodes \cup {0}
    /\ \A e \in {x \in d.ents : x.live} :
         /\ e.size > 0
         /\ \/ \E n \in 1..d.blocks : End(e) = (n * Spb) * SectorSize
            \/ \E f \in d.ents : f.live /\ Start(f) = End(e)
         /\ \A f \in d.ents : /\ f.sec = e.sec /\ f.off = e.off => f = e
                              /\ f.live => f = e \/ End(e) <= Start(f) \/ End(f) <= Start(e)

ASSUME RootFsAssumption ==
    /\ {SectorSize, Spb, NDirect} \subseteq Nat \ {0} /\ MaxPos \in Nat
    /\ \A d \in Directories : OnDisk(d)
    /\ \A n \in DOMAIN Inodes : /\ Inodes[n].size \in Nat
                                /\ \A m \in DOMAIN Inodes[n].slot : Inodes[n].slot[m] \in Nat

Init == L!Init /\ F!Init /\ panic = FALSE

Lookup(d, name) ==
    /\ pc = "idle" /\ ~panic /\ L!Lookup(d, name)
    /\ UNCHANGED <<fileVars, panic>>

LookupStep == L!Step /\ UNCHANGED <<fileVars, panic>>

\* Defect: the file is opened with the inode of the directory.
InodeGotOfRoot(number, size, odd) ==
    [size |-> size, slot |-> Inodes[2].slot, reg |-> Inodes[2].reg, odd |-> odd]

\* What dest says, its size and flags, and what the inode it names on the disk does.
InodeGot(number, size, odd) ==
    [size |-> size, slot |-> Inodes[number].slot, reg |-> Inodes[number].reg, odd |-> odd]

\* Those that dest may name: any inode, of any size, if the lookup failed.
Dests ==
    LET Of(numbers) == {InodeGot(n, Inodes[m].size, odd) :
                          n \in numbers, m \in numbers, odd \in BOOLEAN}
    IN IF found.code = 0 THEN Of({found.inode}) ELSE Of(DOMAIN Inodes)

\* read or write of the file, whatever the lookup returned.
FileCall ==
    /\ lpc = "returned" /\ pc = "idle"
    /\ \E g \in {"ext2_read", "ext2_write"}, f \in Dests, p, c \in 0..MaxPos : F!Call(g, f, p, c)
    /\ UNCHANGED <<lookupVars, panic>>

\* devfs_read and devfs_write, on a block device.
DevfsCall ==
    /\ lpc = "idle" /\ pc = "idle" /\ ~panic /\ BLOCK_DEV \in Majors
    /\ \E g \in {"bdev_read", "bdev_write"}, p, c \in 0..MaxPos : F!Call(g, F!NoFile, p, c)
    /\ UNCHANGED <<lookupVars, panic>>

\* They know no other devices.
DevfsPanic ==
    /\ lpc = "idle" /\ pc = "idle" /\ Majors \ {BLOCK_DEV} # {}
    /\ panic' = TRUE
    /\ UNCHANGED <<lookupVars, fileVars>>

FileStep == F!Step /\ UNCHANGED <<lookupVars, panic>>

Next ==
    \/ \E d \in Directories, name \in Names : Lookup(d, name)
    \/ LookupStep
    \/ FileCall \/ DevfsCall \/ DevfsPanic
    \/ FileStep

\* The processor runs the function it is in.
Spec == Init /\ [][Next]_vars /\ WF_vars(LookupStep) /\ WF_vars(FileStep)

-----------------------------------------------------------------------------
(* Properties.                                                             *)

\* ext2_lookup's result, see Ext2Lookup.
LookupRight == L!LookupRight

\* The bytes, the position and the dirty buffers of a transfer, see FileIO.
TransferRight == F!TransferRight

\* The bytes that a successful read hands to kernel_main are those of the file whose
\* name it looked up, through both loops and both inodes; for requests in the first
\* sector, names that are found, and directories in which every sector begins with
\* an entry.
ReadsNamedFile ==
    pc = "returned" /\ fn = "ext2_read" /\ result > 0 /\ found.code = 0 /\ L!Aligned /\ F!Handled =>
        \E e \in dir.ents :
            /\ e.live /\ e.inode # 0 /\ e.name = filename
            /\ \A n \in 1..result :
                 bytes[n] = <<Inodes[e.inode].slot[0] * Spb, pos0 + n - 1>>

\* Lookups and transfers return, see Ext2Lookup and FileIO.
CallsReturn == L!LookupReturns /\ F!CallsReturn
=============================================================================
