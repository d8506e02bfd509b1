CONSTANTS
  NativeEnd = 4
  Reserve = 2
  StageCap = 3
  ActivationDelay = 1
  SetupDelay = 1
  MaxTime = 7
  MaxFaults = 1
SPECIFICATION Spec
INVARIANTS RecordsAreTrue PassIsClean ReserveHolds
PROPERTIES KeepsPromise Terminates LeaseEnds
