SPECIFICATION Spec
CONSTANTS
  small = small
  large = large
  Bodies = {small, large}
  SizeOf <- MCSizeOf
  LSNs = {p1}
  Hashes = {h1}
  Tokens = {t1}
  None = None
  LsnBytes = 1
  MaxBytes = 6
  ReplayBytes = 3
  MaxSeq = 4
  MaxGen = 2
INVARIANTS
  ItemsExact
  Accounted
PROPERTIES
  ImplementsOutbox
