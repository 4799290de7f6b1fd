SPECIFICATION FairSpec
CONSTANTS
  Instance <- Three
  SharedStore = FALSE
  Timely = TRUE
  Faults = {}
  MaxFaults = 0
  MaxRevision = 1
PROPERTIES Recovers
