\* Registering, unregistering and mounting in every order, on disks with block
\* sizes 1024 to 4096, inodes of 128 to 512 bytes, groups in which the inodes do not
\* fill the last block, and more groups than one sector describes.
CONSTANTS
    ext2 = ext2
    ext2too = ext2too
    ext = ext
    unnamed = unnamed
    FileSystems <- MCFileSystems
    Null = Null
    NameOf <- MCNameOf
    EmptyName = ""
    ReaderOf <- MCReaderOf
    Begins <- MCBegins
    MaxSupers = 2
    Superblocks <- MCSuperblocks
    InodeTable <- MCInodeTable
    Behind = 3
    Minors = {0, 7}
SPECIFICATION Spec
INVARIANTS ListEnds FoundByName InodePlaceRight TableHeld
CHECK_DEADLOCK FALSE
