SPECIFICATION FairSpec
CONSTANTS
  BUFSIZE = 6
  MAX_FILENAME_LENGTH = 12
  INT_MAX = 999
  Faults = {}
  Decimal <- MCDecimal
  Atoi <- MCAtoi
  Filenames <- MCFilenames
  Contents <- OnlyEmpty
  OldDisk <- MCOldDisk
  Untouched = Untouched
PROPERTIES Delivery
CHECK_DEADLOCK FALSE
