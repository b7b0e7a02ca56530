SPECIFICATION Spec
CONSTANTS
  User = {a, b, c}
  Code = {c1, c2, c3}
  Row = {r1, r2}
  None = None
  MaxAnswers = 2
SYMMETRY Symmetry
INVARIANTS
  OriginIsAnswered
  AcceptedMadeFriends
  PendingCrossesOrigin
CHECK_DEADLOCK FALSE
