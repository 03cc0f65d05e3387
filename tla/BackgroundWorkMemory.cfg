CONSTANTS
  o1 = o1
  o2 = o2
  j1 = j1
  j2 = j2
  t1 = t1
  t2 = t2
  s1 = s1
  l1 = l1
  Owner = {o1, o2}
  Job = {j1}
  Turn = {t1}
  Session = {s1}
  Lease = {}
  SessionOf <- AllInSession
  TurnOf <- AllInTurn
  KindOf <- AllMemory
  CreatedAt <- AtOnce
  IdRank <- JobOrder
  MaxEffects = 1
  NumEffects <- OneEffect
  LeaseSession <- LeasesInSession
  MaxAttempts = 2
  ExpiryLimit = 2
  MaxConcurrent = 1
  LeaseTicks = 1
  DelayTicks = 0
  HandlerErrors = {"preempted", "other", "stale"}
  MaxLag = 0
  MaxRev = 4
  MaxUp = 2
  MaxDepartures = 2
SPECIFICATION Spec
SYMMETRY Owners
INVARIANTS
  TypeOK
  EffectCrossedOnce
  SucceededIsApplied
  OutputIsTruthful
CHECK_DEADLOCK FALSE
