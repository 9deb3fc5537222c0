\* Two creations of a one_to_one edge at the same time.
SPECIFICATION Spec
CONSTANTS
  Requests = {r1, r2}
  NodeTypes = {"Device"}
  EdgeTypes = {"REPLACES"}
  EdgeDef <- Replaces
  Nodes0 <- TwoNodes
  Edges0 <- NoEdges
  Ops = {"create_edge"}
  Vias = {"service"}
  SerialEdges = FALSE
  MaxCrashes = 0
SYMMETRY Symmetry
INVARIANTS CardinalityEnforced
\* Requests are made once each, so the system stops when all have ended.
CHECK_DEADLOCK FALSE
