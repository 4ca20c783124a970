SPECIFICATION FairSpec
CONSTANTS
  None = None
  Versions = {1, 2, 3}
  Columns <- Distinct
  Shapes <- AllShapes
  BatchRows = 2
  MaxEvents = 4
  MaxSeq = 20
  MaxCrashes = 1
  MayPurge = TRUE
INVARIANTS
  ExactlyOnce
  RowsUnderTheirSchema
PROPERTIES
  CatchesUp
