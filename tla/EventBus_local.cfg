\* Local subscribers, with and without a server.
SPECIFICATION Spec
CONSTANTS
  Events = {"e1", "e2"}
  Class <- EdgeEvents
  Correlation <- Own
  Patterns = {"all", "some"}
  Hears <- HearSome
  Closes = TRUE
  MaxHandlers = 2
  MaxDrops = 0
INVARIANTS LocalDelivery RaisesForNewPatterns
\* Events are published once each, and a closed bus stops.
CHECK_DEADLOCK FALSE
