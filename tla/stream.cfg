\* Every kind of entry, restarts from every snapshot, lost connections.
CONSTANTS
  Kinds = {"order", "quiet", "backup", "malformed"}
  MaxEntries = 3
  MaxCrashes = 2
  MaxDrops = 1
SPECIFICATION Spec
INVARIANTS TypeOK AppliedOrPending PendingAppliedOnce
PROPERTIES EngineCatchesUp
CHECK_DEADLOCK FALSE
