CONSTANTS
  N = 2
  MaxForeign = 1
  MaxFlaps = 0
  MaxFaults = 0
SPECIFICATION FairSpec
PROPERTIES MutatesOffTraffic
