SPECIFICATION FairSpec
CONSTANTS
  None = None
  Null = Null
  RowsRejected = FALSE
  Versions = {1, 2}
  MaxTx = 3
  MaxSeq = 16
  MaxBytes = 5
  MaxAcks = 16
  MaxCrashes = 1
  MayClean = TRUE
  x = x
  y = y
  Layout <- MCLayout
  Domain <- MCDomain
  Stored <- MCStored
  Commanded = {1}
INVARIANTS
  ExactlyOnce
  EventsFaithful
PROPERTIES
  CatchesUp
