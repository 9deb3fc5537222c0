SPECIFICATION Spec
CONSTANTS
  Runs = {r1, r2}
  Targets <- ThreeDevices
  Commands <- TwoCommands
  Output <- AllDevices
  Parsers = {"version"}
  MappingDefs <- Defs
  Spoilable = {"peers"}
  MaxFaults = 1
INVARIANTS
  GraphTrueToRuns
  RunsComplete
PROPERTIES
  RunsEnd
CHECK_DEADLOCK FALSE
