SPECIFICATION Spec
CONSTANTS
  None = None
  MaxMessages = 2
  MaxLists = 1
  MaxActs = 2
INVARIANTS
  QuietBadgeIsRight
  ReadWasShown
  HiddenComesBack
CHECK_DEADLOCK FALSE
