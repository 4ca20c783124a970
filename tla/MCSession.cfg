SPECIFICATION FairSpec
CONSTANTS
  Servers = {s1, s2}
  Hash = h1
  EmptyTransactions = TRUE
  Position = p1
  None = None
  MaxSeq = 4
  MaxGen = 3
  MaxBreaks = 2
  MaxReconciles = 1
INVARIANTS
  AckedIsDurable
  SameLog
  LeaseSerializes
  RepairDrained
PROPERTIES
  Converges
