SPECIFICATION Spec
CONSTANTS
  Member = {m1, m2, m3}
  none = none
  gone = gone
  Size = 3
  Tests <- OneOfEach
  Rounds = 2
  Tries = 2
  Faults = {"crash", "stepdown", "client", "request", "exec", "race", "alarm"}
  MaxFaults = 1
CHECK_DEADLOCK FALSE
INVARIANTS TypeOK NilMeansAll RoomForAll StartsHealthy TrueVerdict
PROPERTIES HitAsNamed SuiteEnds
