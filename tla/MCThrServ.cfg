SPECIFICATION FairSpec
CONSTANTS
  Conns = {c1, c2}
  NoConn = nobody
  ARRAY_SIZE = 2
  MaxFds = 2
INVARIANTS
  CounterExact
  AnswersReachTheirClients
PROPERTY Linearizable FullStops
CHECK_DEADLOCK FALSE
