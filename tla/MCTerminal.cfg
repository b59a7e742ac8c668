\* Three rows of two cells, three bytes of memory; any number of calls.
CONSTANTS
    VGA_WIDTH = 2
    VGA_HEIGHT = 3
    Size = 3
    Bytes = {0, 10, 97}
    Keys = {8, 98}
    Words = {47806}
    Message <- MCMessage
SPECIFICATION TerminalSpec
INVARIANTS ShowsLastLines CopiesRight
CHECK_DEADLOCK FALSE
