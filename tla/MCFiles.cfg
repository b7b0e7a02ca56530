SPECIFICATION MCSpec
CONSTANTS
  m1 = m1
  m2 = m2
  p1 = p1
  p2 = p2
  home = home
  Upload = {u1}
  Clone = {k1}
  Message = {m1, m2}
  Portrait = {p1, p2}
  Conversation = {chat, t}
  Temporary = {t}
  None = None
  MaxOpen = 3
  MaxRestarts = 1
  Download = {d1, d2}
  Asset = {img, pic}
  AssetName <- OneName
  Folder = {home, stick}
  Attempts = 2
  MaxCrashes = 1
  Chat = {one, two}
  Theme = {light, dark}
  DefaultFolder = home
  Missing = Missing
  Torn = Torn
  MaxChoices = 3
  MaxFaults = 1
SYMMETRY Symmetry
INVARIANTS
  StorageMatchesRows
  FileStaysWithItsMessage
  RecordedIsThere
  QuietCopyIsTheFile
  OnlyHurriedChoicesAreLost
CHECK_DEADLOCK FALSE
