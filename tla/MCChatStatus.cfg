SPECIFICATION MCSpec
CONSTANTS
  Own = {a}
  TextOwn = {a}
  Edited = {e1, e2}
  MaxTexts = 4
  User = {u1, u2}
  MaxCalls = 0
  Peer = Peer
  None = None
  MaxMessages = 2
  MaxWire = 1
  MaxFlight = 2
  MaxChanges = 2
INVARIANTS
  ShownIsJustified
  SentTwiceWasBlamed
  UnhurriedEditIsKept
PROPERTIES
  OnlyLateNewsGoesBack
  TextsAreKept
CHECK_DEADLOCK FALSE
