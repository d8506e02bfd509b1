SPECIFICATION Spec
CONSTANTS
  RunCount = 1
  MaxAttempt = 2
  Pubs = {p1, p2}
  None = None
  MaxRunning = 2
INVARIANT DigestIsOwnImage
CHECK_DEADLOCK FALSE
