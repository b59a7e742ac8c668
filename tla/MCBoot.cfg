\* Multiboot information below 1 MB, at the end of the first 4 MB, beyond it, and
\* where its address wraps around.
CONSTANTS
    Owners <- MCOwners
    TssPlaces <- MCTssPlaces
    Vectors = {0, 1, 31, 32, 47, 128}
    Places <- MCPlaces
    MbdPages = {9, 1023, 1024, 262144}
    MemUppers = {31744, 130048}
    EndPage = 300
SPECIFICATION Spec
INVARIANTS StepsReach NullFaults TablesRight ConfigRight
CHECK_DEADLOCK FALSE
