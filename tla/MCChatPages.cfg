SPECIFICATION MCSpec
CONSTANTS
  None = None
  PageSize = 1
  MaxMessages = 3
  MaxLoads = 3
  MaxHandlers = 1
  MaxChanges = 1
  ann = ann
  bob = bob
  Account = {ann, bob}
  Presses = {"logout"}
  MaxLogins = 2
  MaxCalls = 2
  MaxFaults = 1
  Looks <- Watched
  MaxActs = 2
  MaxVisits = 2
INVARIANTS
  SpinnersAreServed
  NothingIsSkipped
  TakenAwayStaysAway
  ReplacedIsTrue
  StatusIsTheSockets
  ShownIsOwn
  QuietContactsAreRight
CHECK_DEADLOCK FALSE
