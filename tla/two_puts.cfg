SPECIFICATION FairSpec
CONSTANTS
  f = f
  g = g
  Sessions = {s1, s2}
  Filenames = {f, g}
  MaxSize = 3
  BUFSIZE = 2
  OldDisk <- MCOldDisk
  OldByte = OldByte
  Hole = Hole
INVARIANTS IInv BytesInPlace UndisturbedDelivered HolesOfTruncation
PROPERTIES SessionEnds
CHECK_DEADLOCK FALSE
