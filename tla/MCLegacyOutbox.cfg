SPECIFICATION FairSpec
CONSTANTS
  None = None
  Versions = {1, 2}
  EventCounts = {1, 2}
  Rival = TRUE
  MaxId = 3
  MaxSeq = 13
  MaxCrashes = 2
INVARIANTS
  ExactlyOnce
PROPERTIES
  OutboxDrains
