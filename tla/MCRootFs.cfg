\* Names that are in front of others in a sector, last in one, deleted, absent, or empty;
\* sectors of four bytes, blocks of two sectors, and every position and count that
\* touches up to four sectors.
CONSTANTS
    SectorSize = 4
    Spb = 2
    NDirect = 3
    MaxPos = 9
    Directories <- MCDirectories
    Names = {"", "a", "b", "d", "last"}
    Inodes <- MCInodes
    Majors = {1, 3}
SPECIFICATION Spec
INVARIANTS LookupRight TransferRight ReadsNamedFile
PROPERTY CallsReturn
CHECK_DEADLOCK FALSE
