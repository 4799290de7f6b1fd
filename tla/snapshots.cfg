SPECIFICATION FairSpec
CONSTANTS
  snapshotter = snapshotter
  stopper = stopper
  Name <- Names
  Caller <- Callers
  Deployment <- Both
  Periodic <- Ticking
  Tag = {1, 2}
  Faults = {"info","copy","rename","upload","remove","crash","stop"}
  MaxFaults = 2
  MaxRevision = 2
INVARIANTS SnapshotsAreWhole
PROPERTIES BackedUp
