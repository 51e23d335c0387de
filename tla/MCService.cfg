CONSTANTS
  m1 = m1  m2 = m2
  Ids = {m1, m2}
  Keys <- StoredKeys
  NoKey = nokey
  Births = {"pending"}
  TTLs = {1}
  Delays = {0}
  Partitions <- OnePartition
  Configs <- Rotation
  Owned <- AllOrStore
  MaxStarts = 2  MaxTokens = 2
SPECIFICATION FairSpec
INVARIANTS InOrder ReleasedLast
PROPERTIES Stops
CHECK_DEADLOCK FALSE
