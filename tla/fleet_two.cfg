SPECIFICATION Spec
CONSTANTS
  Instance <- Two
  SharedStore = FALSE
  Timely = TRUE
  Faults = {"crash", "wipe", "status", "health", "save", "get", "boot"}
  MaxFaults = 3
  MaxRevision = 2
INVARIANTS
  TypeOK
  FleetInv
  SeedAlone
  OneCluster
  SeedsLatest
  AckedSurvives
  ServesLatest
PROPERTIES KeepsPromise
