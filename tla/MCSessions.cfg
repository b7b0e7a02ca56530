SPECIFICATION Spec
CONSTANTS
  User = {u1}
  Session = {s1, s2}
  Socket = {k1, k2, k3}
  None = None
  MaxRestarts = 1
SYMMETRY Symmetry
INVARIANTS
  OneOpenSocket
  OlderSessionsDead
PROPERTIES
  SingleDeviceSpec
CHECK_DEADLOCK FALSE
