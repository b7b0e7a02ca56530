SPECIFICATION Spec
CONSTANTS
  User = {u1}
  Session = {s1, s2}
  Socket = {k1, k2}
  None = None
  MaxRestarts = 0
INVARIANT OldDeviceOffline
CHECK_DEADLOCK FALSE
