SPECIFICATION Spec
CONSTANTS
  Pieces <- AnyPiece
  r1 = r1
  r2 = r2
  r3 = r3
  NodeTypes <- Types
  EdgeTypes <- Links
  Invented <- MadeUp
  Scenarios <- Everything
  Selections <- Halves
  MaxTools = 30
  MaxRounds = 2
  HistoryLimit = 3
  Providers0 <- OneProvider
  Conversations0 <- OneConversation
INVARIANTS
  OffersHonest
  ToolsWithinBounds
  TranscriptWhole
PROPERTIES
  EveryChatEnds
\* Every request is answered once.
CHECK_DEADLOCK FALSE
