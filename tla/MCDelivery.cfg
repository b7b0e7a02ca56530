SPECIFICATION MCSpec
CONSTANTS
  MaxReceivers = 2
  Socket = {k1, k2}
  None = None
  MaxMessages = 1
  MaxRestarts = 1
  MaxLists = 0
  MaxActs = 0
INVARIANTS
  NothingStranded
PROPERTIES
  EventuallyDelivered
CHECK_DEADLOCK FALSE
