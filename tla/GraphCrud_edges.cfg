\* Edge creation one at a time against concurrent deletions.
SPECIFICATION Spec
CONSTANTS
  Requests = {r1, r2, r3}
  NodeTypes = {"Device", "Site"}
  EdgeTypes = {"REPLACES"}
  EdgeDef <- Replaces
  Nodes0 <- TwoTypes
  Edges0 <- OneEdge
  Ops = {"create_edge", "delete_edge", "delete_node"}
  Vias = {"service"}
  SerialEdges = TRUE
  MaxCrashes = 0
SYMMETRY Symmetry
INVARIANTS CardinalityEnforced EndpointsAllowed
\* Requests are made once each, so the system stops when all have ended.
CHECK_DEADLOCK FALSE
