\* The server, its client and the durable consumer.
SPECIFICATION FairSpec
CONSTANTS
  Events = {"e1", "e2"}
  Class <- NodeEvents
  Correlation <- Own
  Patterns = {}
  Hears <- HearSome
  Closes = TRUE
  MaxHandlers = 1
  MaxDrops = 1
INVARIANTS AcksTruthful ConnectedIsTrue
PROPERTIES PublishEnds EventuallyHandled
\* Events are published once each, and a closed bus stops.
CHECK_DEADLOCK FALSE
