SPECIFICATION FairSpec
CONSTANTS
    Cpus = {c1, c2}
    Typed <- ThreeCodes
INVARIANTS
    LastCodeTakesEffect
    OopsOnlyInWindows
PROPERTIES
    WorkIsDone
CHECK_DEADLOCK FALSE
