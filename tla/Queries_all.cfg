SPECIFICATION Spec
CONSTANTS
  c1 = c1
  c2 = c2
  Null = Null
  Attributes <- Schema
  ListFields <- Lists
  MaxPage <- Pages
  DefaultLimit = 2
  EdgeTypes <- Edges
  Clients = {c1, c2}
  Scenarios <- Everything
  Graphs <- SomeGraphs
  Queries0 <- SavedQueries
  Reports0 <- SavedReports
  NodesPut <- SomeNodesPut
  EdgesPut <- SomeEdgesPut
  MaxWrites = 1
INVARIANTS
  RowsTrue
  ConditionsKept
  PagesComplete
PROPERTIES
  EntitledChanges
\* Every client asks one question.
CHECK_DEADLOCK FALSE
