SPECIFICATION Spec
CONSTANTS
  a = a
  s = s
  S = S
  Space = Space
  Chars = {a, Space}
  Label <- MCLabel
  Lower <- MCLower
  Sections <- MCSections
  Rows <- MCRows
  Down = Down
  Up = Up
  Left = Left
  Right = Right
  Enter = Enter
  ShiftEnter = ShiftEnter
  Escape = Escape
  Backspace = Backspace
  Keys = {a, Space, Down, Up, Left, Right, Enter, ShiftEnter, Escape, Backspace}
  NoKey = NoKey
  NoPage = NoPage
  MAX_LEN = 2
  MAX_FORGOTTEN = 0
INVARIANTS TypeOK ResultsMatchField HoverKeepsFilter FocusInSight
PROPERTIES OnePressOneMove
CHECK_DEADLOCK FALSE
