SPECIFICATION FairSpec
CONSTANTS
  Clients = {c1, c2, c3, c4}
  NoClient = NoClient
  SERVER_QLEN = 1
  MAX_FDS = 4
  MAX_CHILDREN = 4
INVARIANTS HandlerFindsChild IInv
PROPERTIES EveryoneServed
CHECK_DEADLOCK FALSE
