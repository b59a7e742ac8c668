------------------------------ MODULE Ext2Lookup -----------------------------
(***************************************************************************)
(* ext2_lookup (src/fs/ext2/ext2.c): the walk over the entries of a        *)
(* directory, a buffer of one sector at a time.                            *)
(*                                                                         *)
(* A directory is the entries in its blocks.  An entry lies in one block   *)
(* but may reach over a sector boundary, and then the function takes what  *)
(* lies at the start of the next sector for an entry: the middle of a      *)
(* name, zeros, or an entry deleted earlier (live = FALSE).  Where no      *)
(* entry is given, the bytes are zeros.                                    *)
(***************************************************************************)
EXTENDS Integers

CONSTANTS
    SectorSize,     \* BLOCK_SIZE (512)
    Spb,            \* block_size / BLOCK_SIZE
    NDirect         \* direct blocks of an inode (12)

SKIP_DIR == 0

VARIABLES
    pc,             \* "idle", "block", "sector", "entry", "returned"
    dir, filename,  \* the arguments; dir is [mode, blocks, ents], mode its inode's
                    \*   type_permissions, ents a set of [sec, off, size, name, inode,
                    \*   live], sec counted from the first block
    i, k, at, size, \* the local variables; at is de, from the buffer's start
    bufs,           \* sectors whose buffer the call holds
    result          \* [code, inode]

vars == <<pc, dir, filename, i, k, at, size, bufs, result>>

Nothing == [code |-> -1, inode |-> 0]
Zeros(sec, off) ==
    [sec |-> sec, off |-> off, size |-> 0, name |-> "", inode |-> SKIP_DIR, live |-> FALSE]

\* The sector k of block i, and what lies at an offset of it.
Sec == i * Spb + k
EntryAt(sec, off) ==
    IF \E e \in dir.ents : e.sec = sec /\ e.off = off
    THEN CHOOSE e \in dir.ents : e.sec = sec /\ e.off = off
    ELSE Zeros(sec, off)
de == EntryAt(Sec, at)

\* size_low of the directory: its blocks are full.
SizeLow == dir.blocks * Spb * SectorSize

Init ==
    /\ pc = "idle" /\ dir = [mode |-> 0, blocks |-> 0, ents |-> {}] /\ filename = ""
    /\ i = 0 /\ k = 0 /\ at = 0 /\ size = 0
    /\ bufs = {} /\ result = Nothing

\* The call fails for an empty name, and for an inode that is not in use: type_permissions
\* && TYPE_DIRECTORY holds for every other, whatever it is.
Refused(d, name) == name = "" \/ d.mode = 0

\* The directory's inode is read and its buffer put back.
Lookup(d, name) ==
    /\ pc = "idle"
    /\ pc' = IF Refused(d, name) THEN "returned" ELSE "block"
    /\ dir' = d /\ filename' = name
    /\ UNCHANGED <<i, k, at, size, bufs, result>>

\* The loop over the blocks ends at the twelfth or at one that is 0.
BlockLoop ==
    /\ pc = "block"
    /\ IF i < NDirect /\ i < dir.blocks THEN pc' = "sector" /\ k' = 0
       ELSE pc' = "returned" /\ UNCHANGED k
    /\ UNCHANGED <<dir, filename, i, at, size, bufs, result>>

\* The loop over the sectors of a block.
SectorLoop ==
    /\ pc = "sector"
    /\ IF k < Spb
       THEN /\ pc' = "entry" /\ at' = 0 /\ bufs' = bufs \cup {Sec}
            /\ UNCHANGED i
       ELSE /\ pc' = "block" /\ i' = i + 1
            /\ UNCHANGED <<at, bufs>>
    /\ UNCHANGED <<dir, filename, k, size, result>>

\* The condition of the loop over the entries: the last entry of a sector fails
\* it and is not looked at.
InSector == at + de.size < SectorSize

\* Defect: entries that are not in use are compared too.
IsMatchUnused == de.name = filename

IsMatch == de.inode # SKIP_DIR /\ de.name = filename

\* The name is found: the inode is read for its size, the buffer is put back.
Found ==
    /\ pc = "entry" /\ InSector /\ IsMatch
    /\ pc' = "returned"
    /\ result' = [code |-> 0, inode |-> de.inode]
    /\ bufs' = bufs \ {Sec}
    /\ UNCHANGED <<dir, filename, i, k, at, size>>

\* The next entry; more bytes than the directory has end the search, with the
\* buffer kept.
NextEntry ==
    /\ pc = "entry" /\ InSector /\ ~IsMatch
    /\ size' = size + de.size
    /\ IF size' > SizeLow
       THEN pc' = "returned" /\ UNCHANGED at
       ELSE at' = at + de.size /\ UNCHANGED pc
    /\ UNCHANGED <<dir, filename, i, k, bufs, result>>

SectorEnds ==
    /\ pc = "entry" /\ ~InSector
    /\ pc' = "sector" /\ k' = k + 1
    /\ bufs' = bufs \ {Sec}
    /\ UNCHANGED <<dir, filename, i, at, size, result>>

Step == BlockLoop \/ SectorLoop \/ Found \/ NextEntry \/ SectorEnds

-----------------------------------------------------------------------------
(* Properties.                                                             *)

\* Every sector of a directory in use begins with an entry: so it is when blocks
\* are one sector, or when no entry reaches over a sector boundary.
Aligned ==
    \A s \in 0..(dir.blocks * Spb - 1) :
        \E e \in dir.ents : e.sec = s /\ e.off = 0 /\ e.live

\* An entry that the walk looks at.
LookedAt(e) ==
    /\ e.live /\ e.inode # SKIP_DIR
    /\ e.off + e.size < SectorSize
    /\ e.sec \div Spb < NDirect

\* What lookup returns for an aligned directory is an entry in use of that name,
\* never a deleted one or one behind the end, and for a name and a directory in use it
\* fails only if no entry of the name is looked at: it is the last of its sector, or there
\* is none.  At most the buffer of the sector being walked is held, and none when the call
\* has succeeded or the directory is aligned.
LookupRight ==
    /\ pc = "returned" /\ Aligned =>
         IF result.code = 0
         THEN \E e \in dir.ents : /\ e.live /\ e.inode # SKIP_DIR
                                  /\ e.name = filename /\ e.inode = result.inode
         ELSE ~Refused(dir, filename) =>
                \A e \in dir.ents : LookedAt(e) => e.name # filename
    /\ bufs \subseteq {Sec}
    /\ pc = "returned" /\ (result.code = 0 \/ Aligned) => bufs = {}

\* On an aligned directory lookup returns.  On another it may take zeros for an
\* entry of size 0 and never move on.
LookupReturns == [](pc = "block" /\ Aligned => <>(pc = "returned"))
=============================================================================
