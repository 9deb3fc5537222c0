SPECIFICATION Spec
CONSTANTS
  r1 = r1
  r2 = r2
  Requests = {r1, r2}
  Elements = {"i1", "i2", "i3", "i4", "i5", "i6", "i7"}
  Scenes <- Everything
  MaxFaults = 1
INVARIANTS
  ComplianceTrue
  ContextTrue
  
\* Every request is answered once.
CHECK_DEADLOCK FALSE
