SPECIFICATION FairSpec
CONSTANTS
  Clients = {c1, c2}
  listenfd = listenfd
  BUFFERSIZE = 3
  MAX_EVENTS = 2
  MaxBacklog = 2
  MaxFaults = 1
INVARIANTS InStep ConversationAtomic NoInnocentStop
PROPERTIES ClientsServed
CHECK_DEADLOCK FALSE
