SPECIFICATION MCSpec
CONSTANTS
  Request = {q1, q2, q3}
  Captcha = {k1}
  None = None
  MaxAttempts = 2
  MaxCodes = 2
  MaxSubmits = 3
SYMMETRY Symmetry
INVARIANTS
  SecretUsesOverlap
  OldPasswordSessionsRaced
  LaterLoginStays
CHECK_DEADLOCK FALSE
