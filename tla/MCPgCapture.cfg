SPECIFICATION FairSpec
CONSTANTS
  None = None
  Versions = {1, 2, 3}
  Schemas <- MCSchemas
  RowChanges <- MCRowChanges
  Changes = {"rows", "alter", "truncate"}
  BatchRows = 2
  OnlineRefresh = TRUE
  MaxBytes = 4
  MaxTx = 3
  MaxSeq = 24
  MaxCrashes = 1
  MaxAcks = 24
INVARIANTS
  ExactlyOnce
  FeedbackSafe
  RowsFitTheirSchema
PROPERTIES
  CatchesUp
