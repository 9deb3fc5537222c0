SPECIFICATION Spec
CONSTANTS
  Requests = {r1, r2}
  Worlds <- TwoWorlds
  Commands <- Everything
  Short = {"x"}
  Payload <- Payloads
  MaxRestarts = 1
INVARIANTS
  NamesUnique
  PrivilegesJustified
  AccountsWellFormed
  SuccessMeansDone
CHECK_DEADLOCK FALSE
