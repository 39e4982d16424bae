SPECIFICATION FairSpec
CONSTANTS
  Conns = {c1, c2}
  NoConn = nobody
  ARRAY_SIZE = 1
  MaxFds = 2
INVARIANTS
  LettersGuarded
  DescriptorsOwned
PROPERTY Linearizable LateIsLast
CHECK_DEADLOCK FALSE
