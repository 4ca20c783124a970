SPECIFICATION FairSpec
CONSTANTS
  None = None
  Files = {1, 2}
  Values = {1, 2}
  Allowed = {"create", "update", "delete"}
  MaxBytes = 60
  MaxWrites = 3
  MaxCrashes = 1
  MaxSeq = 60
  MaxAcks = 1
INVARIANTS
  ContentMatchesHash
PROPERTIES
  LiveFilesConverge
