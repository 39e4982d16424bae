SPECIFICATION FairSpec
CONSTANTS
    Cpus = {c1, c2}
    Codes <- SomeCodes
    MaxIrqs = 3
INVARIANTS
    ExactWhenNoneLost
    OopsOnlyInWindows
PROPERTIES
    LatestDataRead
    Unloads
CHECK_DEADLOCK FALSE
