CONSTANTS
  N = 2
  MaxForeign = 0
  MaxFlaps = 2
  MaxFaults = 3
SPECIFICATION FairSpec
INVARIANTS ZeroDowntime NoFormerImageAfterMutation UnblockedFailureIsSafe
PROPERTIES HandlerAcceptsOwnLeftovers KeepsPromise Ends
