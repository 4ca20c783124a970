SPECIFICATION FairSpec
CONSTANTS
  Servers = {s1, s2}
  Hash = h1
  EmptyTransactions = FALSE
  Position = p1
  None = None
  MaxSeq = 4
  MaxGen = 1
  MaxBreaks = 1
  MaxReconciles = 0
PROPERTY EventuallyAcked
