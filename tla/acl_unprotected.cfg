SPECIFICATION Spec
CONSTANTS
  Configs <- OneVersion
  Role <- Roles
  User <- Users
  CommonName = "operator"
  Existing = {}
  Faults = {"lost"}
  MaxFaults = 1
INVARIANTS AppliedIsProtected
