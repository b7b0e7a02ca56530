SPECIFICATION MCSpec
CONSTANTS
  me = me
  b = b
  c = c
  User = {me, b, c}
  Me = me
  None = None
  MaxRequests = 2
  MaxLoads = 1
  MaxDisconnects = 1
  g = g
  h = h
  x = x
  Room = {g, h}
  Word = {blank, x}
  Title = {blank, x, y}
  NoText = blank
  MaxTypings = 2
  MaxSaves = 2
  MaxLists = 1
  MaxFaults = 1
SYMMETRY Symmetry
INVARIANTS
  QuietViewIsRight
  OnlyTypedIsSaved
  UnhurriedIsSaved
PROPERTIES
  NobodyInheritsTheGroup
  OnlyEditedFieldsChange
CHECK_DEADLOCK FALSE
