SPECIFICATION FairSpec
CONSTANTS
  Phases <- MCPhases
  Files = {"file"}
  Roots <- MCRoots
  MaxAttempt = 2
  MaxProcesses = 4
  Released = TRUE
INVARIANTS ReceiptIsWhole
PROPERTIES StartsOnceAlone InvocationEnds
CHECK_DEADLOCK FALSE
