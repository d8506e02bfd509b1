CONSTANTS
  N = 2
  MaxForeign = 2
  MaxFlaps = 1
  MaxFaults = 1
SPECIFICATION Spec
INVARIANTS CapacityReserved CompletedClean
PROPERTIES NoClobber OwnerMutatesOffTraffic MutatesBaseline DrainsOnlyOwned
