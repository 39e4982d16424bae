SPECIFICATION ClntSpec
CONSTANTS
  Conns = {c1, c2}
  Main = main
  ARRAY_SIZE = 2
  MaxFds = 2
  MaxKills = 0
  Terminal = FALSE
  Mixes = {{c1}, {c1, c2}}
INVARIANTS LetterAsSeen StoppedOnlyWhenEmpty
PROPERTIES ClientsServed StopHeeded
CHECK_DEADLOCK FALSE
