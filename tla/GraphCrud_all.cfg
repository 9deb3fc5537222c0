\* Every operation, through the services and through the agent's tools, with a crash.
SPECIFICATION FairSpec
CONSTANTS
  Requests = {r1, r2}
  NodeTypes = {"Device"}
  EdgeTypes = {"REPLACES"}
  EdgeDef <- Replaces
  Nodes0 <- TwoNodes
  Edges0 <- OneEdge
  Ops = {"create_node", "update_node", "delete_node", "create_edge", "update_edge", "delete_edge", "disconnect"}
  Vias = {"service", "tool"}
  SerialEdges = FALSE
  MaxCrashes = 1
INVARIANTS ReferentialIntegrity DeletedForGood NodeReportsTruthful EventsFitAnswers ReportsInRealTime
PROPERTIES AtomicGraphSpec EventuallyReported
\* Requests are made once each, so the system stops when all have ended.
CHECK_DEADLOCK FALSE
