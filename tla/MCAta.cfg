\* Reads and writes of one sector and of several in every order, as evictions cause
\* them: a call may follow a write while the drive still stores it.  Addresses use
\* all four registers (a byte is one bit), some lie behind the last sector, and the
\* drive may fail.  One partition begins at a sector whose number fits in a word, one does
\* not.
CONSTANTS
    NSectors = 13
    Words = 2
    ByteBase = 2
    TopBase = 2
    MaxCount = 2
    MbrWord = 0
    PartStarts = {3, 5}
    FloatingBus = 99
    NewWord = 98
    Ops = {"read", "write"}
    Counts = {0, 1}
    RelLbas = {2, 10}
    MaxCalls = 3
    Failures = TRUE
SPECIFICATION Spec
INVARIANTS PartitionFound NeverRaces SectorTransferred NoStrayWrites
PROPERTY CallsEnd
CHECK_DEADLOCK FALSE
