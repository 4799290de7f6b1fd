SPECIFICATION Spec
CONSTANTS
  Instance <- Two
  SharedStore = TRUE
  Timely = TRUE
  Faults = {"crash", "wipe"}
  MaxFaults = 3
  MaxRevision = 2
INVARIANTS SeedAlone
