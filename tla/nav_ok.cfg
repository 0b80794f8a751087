SPECIFICATION Spec
CONSTANTS
  index = index
  file = file
  other = other
  none = none
  x = x
  line = line
  Nodes <- MCNodes
  Scripted <- MCScripted
  Link <- MCLink
  Breadcrumbs <- MCBreadcrumbs
  Namesakes <- MCNamesakes
  SubIndexOf <- MCSubIndexOf
  URL <- MCURL
  LineHashes = {line}
  IndexPages = {index}
  NoHash = none
  NoLink = NoLink
  MAX_EVENTS = 1
  MAX_PENDING = 2
  MAX_SLIDES = 1
  Toggled <- MCToggled
CHECK_DEADLOCK FALSE
INVARIANTS TypeOK Synced EachItemOnce RetryEnds
PROPERTIES FlagsMatchPage SelectedInSight
