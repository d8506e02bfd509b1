CONSTANTS
  MaxAttempts = 2
  MaxMeddling = 0
  MaxReruns = 0
SPECIFICATION Spec
INVARIANT ResumesOwnPublication
CHECK_DEADLOCK FALSE
