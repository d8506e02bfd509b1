CONSTANTS
  MaxAttempts = 2
  MaxMeddling = 1
  MaxReruns = 1
SPECIFICATION FairSpec
INVARIANTS SuccessIsProtected MergedWasValidated LandsOnce
PROPERTIES AttemptEnds
CHECK_DEADLOCK FALSE
