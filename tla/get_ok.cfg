SPECIFICATION FairSpec
CONSTANTS
  BUFSIZE = 6
  Faults = {"fragment", "reset", "killClient", "killServer"}
  Filenames <- MCFilenames
INVARIANTS LocalFileKept IInv
PROPERTIES BothExit
CHECK_DEADLOCK FALSE
