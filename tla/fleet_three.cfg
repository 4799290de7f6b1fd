SPECIFICATION EitherFairSpec
CONSTANTS
  Instance <- Three
  SharedStore = FALSE
  Timely = TRUE
  Faults = {"boot", "wipe"}
  MaxFaults = 1
  MaxRevision = 1
INVARIANTS FleetInv SeedAlone OneCluster
PROPERTIES StaysAvailable RecoversOrGhost
