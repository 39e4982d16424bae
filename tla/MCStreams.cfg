SPECIFICATION StreamsSpec
CONSTANTS
    N = 6
    BufSize = 4
    MaxStrays = 2
INVARIANTS
    ReadOnce
    FileAtTheEnd
CHECK_DEADLOCK FALSE
