SPECIFICATION Spec
CONSTANTS
  Etcd = {e1, e2, e3}
  loop = loop
  nil = nil
  Faults = {"error", "removed", "health", "terminate", "boot", "slow", "group"}
  MaxFaults = 2
INVARIANTS OwnerInv DataDirIsOwned
PROPERTIES EndsSupervised Terminates
