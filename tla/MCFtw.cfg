SPECIFICATION FtwSpec
CONSTANTS
  Dirs = {"r", "a", "b", "c"}
  Files = {"f", "g"}
  Root = "r"
  Outside = "outside"
  Nowhere = "nowhere"
  Tree <- SmallTree
  MaxChanges = 2
INVARIANTS Placed Complete
CHECK_DEADLOCK FALSE
