\* Everything clients write through services and tools.
SPECIFICATION Spec
CONSTANTS
  Requests = {r1, r2}
  Attrs = {"name", "status", "created_by", "updated_by"}
  Def <- Device
  Internal = {"_x"}
  Given <- MixedBodies
  Values = {"u", "v"}
  None = None
  Props0 <- DeviceProps
  Ops = {"create", "update"}
  Vias = {"service", "tool"}
SYMMETRY Symmetry
INVARIANTS Conforms ValuesAccountedFor
PROPERTIES OnlyNamedOrDefaulted
\* Requests are made once each, so the system stops when all have ended.
CHECK_DEADLOCK FALSE
