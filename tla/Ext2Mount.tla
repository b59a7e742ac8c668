----------------------------- MODULE Ext2Mount ------------------------------
(***************************************************************************)
(* Mounting an ext2 file system and finding its inodes                     *)
(* (src/fs/ext2/ext2.c: ext2_read_super, ext2_parse_superblock,            *)
(* read_bgd_table and read_inode, with the macros of fs/ext2/ext2.h), as   *)
(* init_fs does it for a type in the registry, on the device that add_bdev *)
(* made known (src/fs/devfs/devfs.c).                                      *)
(*                                                                         *)
(* Addresses are in sectors of BLOCK_SIZE bytes, sizes in bytes, as in the *)
(* code.  The state is what the functions leave behind: the geometry in    *)
(* static variables, and the buffers they get and do not put back.         *)
(***************************************************************************)
EXTENDS Vfs

CONSTANTS
    Superblocks,    \* superblocks found on a disk: [signature, log_block_size,
                    \*   block_count, blocks_per_group, inodes_per_group,
                    \*   major, inode_size]
    InodeTable,     \* group -> its inode_table field
    Behind,         \* what the words behind the table's buffer hold
    Minors          \* what the minor field of kernel_main's device may hold: it is
                    \*   not set

BLOCK_SIZE == 512
SUPERBLOCK_ADDR == 2
ROOT_DIRECTORY == 2
SIGNATURE == 61267      \* 0xEF53
InodeBytes == 128       \* sizeof(ext2_inode_t)
BgdBytes == 32          \* sizeof(ext2_bgd_t)

VARIABLES
    block_head,     \* minor numbers of the block devices: none or one
    sb,             \* the superblock on the disk
    geo,            \* block_size, inode_size and the other static variables
    held,           \* sectors whose buffer was got and not put back
    got             \* the inode read_inode was last asked for, and where it
                    \*   looked: [inode, group, sector, offset]

mountVars == <<block_head, sb, geo, held, got>>
vars == <<vfsVars, mountVars>>

Unmounted == [block_size |-> 0, group_count |-> 0, bgd_addr |-> 0,
              inode_size |-> 0, inodes_per_group |-> 0, inodes_per_block |-> 0]
NoInode == [inode |-> 0, group |-> 0, sector |-> 0, offset |-> 0]

\* The fields of a superblock that the functions read; major and inode_size are
\* major_version and the extended superblock's inode_size.
Superblock ==
    [signature : Nat, log_block_size : Nat, block_count : Nat, blocks_per_group : Nat,
     inodes_per_group : Nat, major : Nat, inode_size : Nat]

CEILING_DIV(x, y) == 1 + ((x - 1) \div y)

\* A disk in ext2's format: inodes fill their blocks, and sectors or the other way
\* round, the first group has a root directory and the inode tables lie behind the
\* block group table.
ASSUME Ext2Assumption ==
    /\ Superblocks \subseteq Superblock
    /\ \A s \in {x \in Superblocks : x.signature = SIGNATURE} :
         /\ s.block_count > 0 /\ s.blocks_per_group > 0
         /\ s.inodes_per_group >= ROOT_DIRECTORY
         /\ 2 ^ s.log_block_size \in Nat \ {0}
         /\ s.major >= 1 =>
              /\ s.inode_size >= InodeBytes
              /\ (1024 * 2 ^ s.log_block_size) % s.inode_size = 0
              /\ BLOCK_SIZE % s.inode_size = 0 \/ s.inode_size % BLOCK_SIZE = 0
         /\ \A g \in 0..(CEILING_DIV(s.block_count, s.blocks_per_group) - 1) :
              InodeTable[g] \in Nat /\ InodeTable[g] > 2

-----------------------------------------------------------------------------
\* ext2_parse_superblock's assignments.
Geometry(s) ==
    LET bs == 1024 * 2 ^ s.log_block_size
        is == IF s.major >= 1 THEN s.inode_size ELSE 128
    IN  [block_size |-> bs,
         group_count |-> CEILING_DIV(s.block_count, s.blocks_per_group),
         bgd_addr |-> IF bs = 1024 THEN 2 ELSE 1,
         inode_size |-> is,
         inodes_per_group |-> s.inodes_per_group,
         inodes_per_block |-> bs \div is]

\* bgdt_entries[group].inode_table: only one sector of the table is in memory, an
\* entry beyond it is read from behind the buffer.
TableOf(group) ==
    IF (group + 1) * BgdBytes <= BLOCK_SIZE THEN InodeTable[group] ELSE Behind

ADDR_OF_BLOCK(g, block) == (g.block_size \div BLOCK_SIZE) * block

\* Defect: inodes are counted from 0, "UNLIKE BLOCK ADDRESSES".
LocateFromZero(g, inode) ==
    LET index == inode % g.inodes_per_group
        group == inode \div g.inodes_per_group
        byte == g.inode_size * (index % g.inodes_per_block)
    IN  [inode |-> inode, group |-> group,
         sector |-> ADDR_OF_BLOCK(g, TableOf(group)
                        + (index * g.inode_size) \div g.block_size) + byte \div BLOCK_SIZE,
         offset |-> byte % BLOCK_SIZE]

\* read_inode: the sector it gets and the offset it copies the inode from.
Locate(g, inode) ==
    LET index == (inode - 1) % g.inodes_per_group
        group == (inode - 1) \div g.inodes_per_group
        byte == g.inode_size * (index % g.inodes_per_block)
    IN  [inode |-> inode, group |-> group,
         sector |-> ADDR_OF_BLOCK(g, TableOf(group)
                        + (index * g.inode_size) \div g.block_size) + byte \div BLOCK_SIZE,
         offset |-> byte % BLOCK_SIZE]

Init ==
    /\ VfsInit
    /\ block_head = {} /\ sb \in Superblocks
    /\ geo = Unmounted /\ held = {} /\ got = NoInode

\* add_bdev: the device number is that of minor 0.
AddBdev(minor) ==
    /\ halt = "no" /\ block_head' = {minor}
    /\ UNCHANGED <<vfsVars, sb, geo, held, got>>

\* find_bdev returns a device; otherwise it follows next, which is not set either,
\* or returns what is in a register.
BdevFound == 0 \in block_head

\* Defect: the buffer of the block group table is put back.
ReadSuperReleasing ==
    /\ geo' = Geometry(sb)
    /\ got' = Locate(geo', ROOT_DIRECTORY)
    /\ held' = {got'.sector}

\* ext2_read_super: the two sectors of the superblock are got and put back; the
\* buffers of the block group table, into which bgdt_entries points, and of the root
\* directory's inode are kept.
ReadSuper ==
    /\ geo' = Geometry(sb)
    /\ got' = Locate(geo', ROOT_DIRECTORY)
    /\ held' = {ADDR_OF_BLOCK(geo', geo'.bgd_addr), got'.sector}

\* init_fs: the type is registered, whatever comes of it, and its read_super called.
\* devfs_read_super only fills in the super block; ext2's reads the disk and panics
\* if the signature is not there.  Both set the root, without which init_fs
\* would panic.
InitFs(fs, type, link) ==
    /\ halt = "no"
    /\ IF next[fs] = Null /\ LoopsFor(NameOf[fs])
       THEN halt' = "loop" /\ UNCHANGED <<file_systems, next, supers, wild, geo, held, got>>
       ELSE /\ SetList(AfterRegister(fs))
            /\ NewSuper(fs, type, link)
            /\ IF ReaderOf[fs] = "ext2"
               THEN IF ~BdevFound \/ sb.signature # SIGNATURE
                    THEN /\ halt' = IF BdevFound THEN "not ext2" ELSE "wild"
                         /\ UNCHANGED <<geo, held, got>>
                    ELSE ReadSuper /\ UNCHANGED halt
               ELSE UNCHANGED <<halt, geo, held, got>>
    /\ UNCHANGED <<block_head, sb>>

\* read_inode of an inode of the file system; the caller puts the buffer back.
ReadInode(inode) ==
    /\ halt = "no" /\ geo # Unmounted /\ BdevFound
    /\ got' = Locate(geo, inode)
    /\ UNCHANGED <<vfsVars, block_head, sb, geo, held>>

\* inode_count is the product of two fields of the superblock.
Inodes(s) ==
    1..(s.inodes_per_group * CEILING_DIV(s.block_count, s.blocks_per_group))

Next ==
    \/ VfsStep /\ UNCHANGED mountVars
    \/ \E minor \in Minors : AddBdev(minor)
    \/ \E fs \in FileSystems, type \in {Null, Garbage}, link \in BOOLEAN : InitFs(fs, type, link)
    \/ \E inode \in Inodes(sb) : ReadInode(inode)

Spec == Init /\ [][Next]_vars

-----------------------------------------------------------------------------
(* Properties.                                                             *)

\* "UNLIKE BLOCK ADDRESSES INODE ADDRESSES START AT 1!" (ext2.h): whatever the
\* block size and the inode size, the sector and offset read_inode computes in
\* two roundings are those of the inode's place in its group's inode table; in
\* the first 16 groups, whose entries lie in the one sector read_bgd_table gets.
\* No inode is split between two sectors: read_inode gets a single buffer.
InodePlaceRight ==
    /\ got # NoInode /\ got.group < BLOCK_SIZE \div BgdBytes =>
         got.sector * BLOCK_SIZE + got.offset =
             InodeTable[got.group] * geo.block_size
             + (got.inode - 1 - got.group * geo.inodes_per_group) * geo.inode_size
    /\ got.offset + InodeBytes <= BLOCK_SIZE

\* Mounting keeps two buffers for good: the one bgdt_entries points into, which
\* inodes are located through, and the root directory's.  The first is, for every
\* block size, the sector behind the superblock or later, and not the second.
TableHeld ==
    geo # Unmounted =>
        /\ ADDR_OF_BLOCK(geo, geo.bgd_addr) \in held
        /\ ADDR_OF_BLOCK(geo, geo.bgd_addr) >= SUPERBLOCK_ADDR + 2
        /\ Cardinality(held) = 2
=============================================================================
