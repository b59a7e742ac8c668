---------------------------- MODULE MCExt2Mount -----------------------------
(* Four file system types: one whose name another's begins with, two of    *)
(* one name, and one without a name.  File systems of 1, 2 and 18 groups.  *)
EXTENDS Ext2Mount, TLC

CONSTANTS ext2, ext2too, ext, unnamed

MCFileSystems == {ext2, ext2too, ext, unnamed}
MCNameOf == ext2 :> "ext2" @@ ext2too :> "ext2" @@ ext :> "ext" @@ unnamed :> ""
MCReaderOf == ext2 :> "ext2" @@ ext2too :> "ext2" @@ ext :> "devfs" @@ unnamed :> "devfs"
MCBegins ==
    {<<a, a>> : a \in {"ext2", "ext", ""}} \cup {<<"ext", "ext2">>}
    \cup {<<"", a>> : a \in {"ext2", "ext"}}

Sb(signature, log, count, inodes, major, size) ==
    [signature |-> signature, log_block_size |-> log, block_count |-> count,
     blocks_per_group |-> 8, inodes_per_group |-> inodes, major |-> major, inode_size |-> size]

MCSuperblocks ==
    {Sb(61267, 0, 137, 2, 0, 512), Sb(61267, 1, 8, 9, 1, 256), Sb(61267, 2, 9, 9, 1, 512),
     Sb(61267, 0, 9, 9, 1, 128), Sb(0, 0, 8, 16, 0, 128)}

\* The tables begin at different blocks of the file system.
MCInodeTable == [g \in 0..17 |-> 5 + 64 * g]
=============================================================================
