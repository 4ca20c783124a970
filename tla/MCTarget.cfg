SPECIFICATION Spec
CONSTANTS
  t1 = t1
  v1 = v1
  v2 = v2
  a = a
  c1 = c1
  c2 = c2
  x1 = x1
  x2 = x2
  f1 = f1
  d1 = d1
  d2 = d2
  Servers = {s1}
  Versions = {v1, v2}
  Tables = {t1}
  Keyed = {}
  Values = {a}
  Columns = {c1, c2}
  BaseColumns = {c1}
  SchemaCols <- MCSchemaCols
  Nullable = {c2}
  AutoAdd = TRUE
  Paths = {f1}
  FileOps = {"create", "update", "delete"}
  Bodies <- AllBodies
  None = None
  MaxSeq = 7
  MaxGen = 2
INVARIANTS
  AppliedExactlyOnce
  OpenBatchStaged
  AckedIsStored
  BarrierHolds
  InformedCacheCovers
  FilesMatchLog
