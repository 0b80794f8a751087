SPECIFICATION FairSpec
CONSTANTS
  BUFSIZE = 6
  Faults = {}
  Filenames <- MCFilenames
PROPERTIES Served
CHECK_DEADLOCK FALSE
