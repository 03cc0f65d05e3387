CONSTANTS
  o1 = o1
  o2 = o2
  j1 = j1
  j2 = j2
  t1 = t1
  t2 = t2
  s1 = s1
  l1 = l1
  Owner = {o1}
  Job = {j1, j2}
  Turn = {t1, t2}
  Session = {s1}
  Lease = {l1}
  SessionOf <- AllInSession
  TurnOf <- TurnPerJob
  KindOf <- AllCompaction
  CreatedAt <- AtOnce
  IdRank <- JobOrder
  MaxEffects = 1
  NumEffects <- OneEffect
  LeaseSession <- LeasesInSession
  MaxAttempts = 1
  ExpiryLimit = 2
  MaxConcurrent = 1
  LeaseTicks = 2
  DelayTicks = 0
  HandlerErrors = {"source_not_ready", "malformed", "stale"}
  MaxLag = 1
  MaxRev = 3
  MaxUp = 1
  MaxDepartures = 0
SPECIFICATION Spec
PROPERTY CompactionYields
CHECK_DEADLOCK FALSE
