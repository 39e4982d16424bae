SPECIFICATION Spec
CONSTANTS
    Users = {u1, u2}
    Pids = {p1, p2}
    Size = 2
    MaxWrites = 3
    MaxLoads = 2
SYMMETRY Symmetry
INVARIANTS
    EntriesOwned
    ExactWhenUndisturbed
    EachOnceInOrder
    CrashHasCause
CHECK_DEADLOCK FALSE
