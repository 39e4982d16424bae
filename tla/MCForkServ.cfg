SPECIFICATION Spec
CONSTANTS
  Conns = {c1, c2, c3}
  Main = main
  ARRAY_SIZE = 2
  MaxFds = 2
  MaxKills = 1
  Terminal = TRUE
SYMMETRY Symmetry
INVARIANTS SemaphoresGuard CellsConsistent LifetimeBound AtMostOneAfterSignal
PROPERTIES Linearizable
CHECK_DEADLOCK FALSE
