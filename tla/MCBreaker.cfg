SPECIFICATION FairSpec
CONSTANTS
  a = a
  b = b
  p = p
  q = q
  Callers = {a, b}
  Leaky = {a}
  Impatient = {b}
  Probers = {p, q}
  CanWait = TRUE
  VIPs = {}
  MinSamples = 1
  FailureThreshold = 5000
  SleepWindow = 1
  Setups <- Uses
  SuccessThreshold = 1
  DryRun = FALSE
  MaxCount = 1
  MaxAge = 2
INVARIANTS BulkheadHolds OneProber NeverUnwatched
PROPERTY Recovers
