SPECIFICATION FairSpec
CONSTANTS
  Instance <- Two
  SharedStore = TRUE
  Timely = TRUE
  Faults = {"crash", "crashJoin", "wipe", "terminate", "etcd", "status", "health", "store", "save", "get", "restore", "boot"}
  MaxFaults = 2
  MaxRevision = 2
INVARIANTS FleetInv SeedAlone OneCluster
PROPERTIES RecoversOrVanished
