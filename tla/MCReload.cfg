SPECIFICATION FairSpec
CONSTANTS
  Syncers = {a, b}
  Streams = {s1, s2}
  Reloads = {r1}
  Settings = {0, 1, 2}
  MaxTargets = 3
  MaxWrites = 1
INVARIANTS
  TargetMatchesConfig
  OpenWhileUsed
PROPERTIES
  ReplacedTargetClosed
