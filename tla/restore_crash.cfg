SPECIFICATION Spec
CONSTANTS
  Instance <- Two
  SharedStore = FALSE
  Timely = TRUE
  Faults = {"crash", "crashRestore"}
  MaxFaults = 2
  MaxRevision = 2
INVARIANTS AckedSurvives
