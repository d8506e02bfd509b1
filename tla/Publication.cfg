SPECIFICATION PartsSpec
CONSTANTS
  RunCount = 2
  MaxAttempt = 2
  Pubs = {p1, p2}
  None = None
  MaxRunning = 2
INVARIANTS  RemovesOrReports
PROPERTY LooksOnce
CHECK_DEADLOCK FALSE
