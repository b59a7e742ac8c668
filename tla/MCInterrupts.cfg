\* Interrupts of every kind at every point of the handlers and of a read of the
\* clock, in all four formats of its registers.
CONSTANTS
    Moments <- MCMoments
    Codes = {0, 30, 158}
    keyboard_table_uk <- MCTable
    Removable = {8}
    Numbers = {0, 1, 13, 21}
    MaxKeys = 2
    MaxTicks = 1
SPECIFICATION Spec
INVARIANTS Acknowledged KeysInOrder TimeRight SysTimeWhole
PROPERTY ClockKeepsComing
CHECK_DEADLOCK FALSE
