SPECIFICATION Spec
CONSTANTS
  BUFSIZE = 6
  MAX_FILENAME_LENGTH = 12
  INT_MAX = 999
  Faults = {"fragment", "reset", "killClient", "noSource", "openFails", "diskFails", "edit"}
  Decimal <- MCDecimal
  Atoi <- MCAtoi
  Filenames <- MCFilenames
  Contents <- FewContents
  OldDisk <- MCOldDisk
  Untouched = Untouched
INVARIANTS NoForgedSuccess VerdictCountsFile
CHECK_DEADLOCK FALSE
