SPECIFICATION Spec
CONSTANTS
  Instance <- Two
  SharedStore = FALSE
  Timely = TRUE
  Faults = {"etcdEarly"}
  MaxFaults = 1
  MaxRevision = 2
INVARIANTS SeedsLatest
