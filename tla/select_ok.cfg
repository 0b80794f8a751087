SPECIFICATION FairSpec
CONSTANTS
  Clients = {c1, c2, c3}
  Free = Free
  Listener = Listener
  sd = 3
  MAX_FDS = 6
  FD_SETSIZE = 6
  BACKLOG = 2
  BUFSIZE = 2
  MaxSent = 2
INVARIANTS IInv WatchesTheOpen NeverBlocks
PROPERTIES EveryoneHeard
CHECK_DEADLOCK FALSE
