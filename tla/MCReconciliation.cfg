SPECIFICATION ReconcileFairSpec
CONSTANTS
  a = a
  b = b
  c = c
  d = d
  Slots = {w1, w2, w3}
  Bodies <- MCBodies
  None = None
  MaxQueued = 1
  Tables = 2
  MaxRequests = 2
  MaxLate = 1
  RowHash <- MCRowHash
  KeyHash <- MCKeyHash
  Buckets = 2
  Width = 3
  Base <- MCBase
  Copies <- MCCopies
  Writes <- MCWrites
  MaxWrites = 1
  Day = 2
  DailyAt = 1
  RetryAfter = 1
  MinInterval = 1
INVARIANTS
  ScanQuiesced
  AtMostOneCapture
  DigestsDecide
  NoFalseAlarm
  OncePerDay
PROPERTIES
  RepairsLimited
  CaptureResumes
