SPECIFICATION FairSpec
CONSTANTS
  BUFSIZE = 6
  MAX_FILENAME_LENGTH = 12
  INT_MAX = 999
  Faults = {"reset", "killClient", "killServer", "noSource", "openFails", "diskFails"}
  Decimal <- MCDecimal
  Atoi <- MCAtoi
  Filenames <- MCFilenames
  Contents <- EmptyToo
  OldDisk <- MCOldDisk
  Untouched = Untouched
INVARIANTS SuccessMeansDelivered IInv
PROPERTIES OnlyNamedFileTouched ImplementsTransfer ServerExits ClientExits
CHECK_DEADLOCK FALSE
