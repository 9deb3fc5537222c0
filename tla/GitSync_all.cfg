\* Syncs of two sources, also at the same time, with failures and a restart.
SPECIFICATION Spec
CONSTANTS
  Sources = {"net", "lab"}
  Syncs = {r1, r2}
  MaxCommit = 3
  Names = {"Device", "Router", "Probe", "life", "geo"}
  Attributes = {"name", "stamp", "loc"}
  Core <- OnDisk
  Repo <- Plugins
  Mappings <- Around
  MaxRestarts = 1
INVARIANTS MixinsResolved RegistryFitsStamps RecordsFitAnswers
PROPERTIES DeletedStaysDeleted
\* Each call of sync() is made at most once.
CHECK_DEADLOCK FALSE
