SPECIFICATION DgramFairSpec
CONSTANTS
    Clients <- ThreeNames
    Kinds = {"sum", "zero", "unknown"}
    Width = 5
    Stack = {0, 3}
    MaxAsks = 4
INVARIANTS
    OwnAnswers
PROPERTIES
    Answered
CHECK_DEADLOCK FALSE
