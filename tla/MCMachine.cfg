\* Two records of one key, two dependencies, one two-step Lease next to others.
CONSTANTS
  r1 = r1  r2 = r2  k1 = k1  d1 = d1
  Ids = {r1, r2}
  Keys = {k1}
  NoKey = nokey
  KeyOf <- OneKey
  Deps = {nodep, d1}
  NoDep = nodep
  Callers = {w1}
  Free = free
  Modes = {"atomic", "split"}
  MaxRecords = 2  MaxBytes = 3  MaxRecordBytes = 4
  MaxWakeSkew = 2
  Births = {"pending", "parked"}
  Batches = {1}
  TTLs = {1}
  Delays = {1}
  Ckpts = {0, 1}
  Errs = {0}
  MaxTime = 2  MaxLeases = 2  MaxSeq = 2
SPECIFICATION Spec
INVARIANTS IndexMatchesRecords WakeHidesNothing TotalsMatchRecords OneWorkerPerKey AttemptsExact
PROPERTIES OnlyNewestLeaseSettles LeavesOnlyWhenDone HandoutIsCurrent Implements
SYMMETRY RecordSymmetry
CHECK_DEADLOCK FALSE
