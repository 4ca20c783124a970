SPECIFICATION FairSpec
CONSTANTS
  Bodies = {b1, b2}
  Hash = h1
  Position = p1
  None = None
  MaxSeq = 3
  MaxGen = 2
  MaxFaults = 2
INVARIANTS
  DeliveredInOrder
PROPERTIES
  AllDelivered
