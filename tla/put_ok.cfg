SPECIFICATION FairSpec
CONSTANTS
  BUFSIZE = 6
  MAX_FILENAME_LENGTH = 12
  INT_MAX = 12
  Faults = {}
  Decimal <- MCDecimal
  Atoi <- MCAtoi
  Filenames <- MCFilenames
  Contents <- AroundIntMax
  OldDisk <- MCOldDisk
  Untouched = Untouched
INVARIANTS TypeOK NothingDropped SuccessMeansDelivered
PROPERTIES Delivery OnlyNamedFileTouched ImplementsTransfer
