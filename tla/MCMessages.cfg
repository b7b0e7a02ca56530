SPECIFICATION MCSpec
CONSTANTS
  User = {a, b}
  None = None
  MaxMessages = 2
  MaxCalls = 1
  Own = {}
  TextOwn = {}
  Peer = Peer
  MaxWire = 0
  MaxFlight = 0
  MaxChanges = 0
  Edited = {}
  MaxTexts = 0
SYMMETRY Symmetry
INVARIANTS
  StatusIsJustified
  DeliveredIsShown
  LastReadIsRead
PROPERTIES
  OnlyStaleDeliveryGoesBack
CHECK_DEADLOCK FALSE
