SPECIFICATION FairSpec
CONSTANTS
  Configs <- FourVersions
  Role <- Roles
  User <- Users
  CommonName = "operator"
  Existing = {"etcd", "operator", "alice"}
  Faults = {"lost", "late"}
  MaxFaults = 3
INVARIANTS AclInv RecordedIsInForce NoLockout
PROPERTIES Converges AppliedOnce RevokedFirst
