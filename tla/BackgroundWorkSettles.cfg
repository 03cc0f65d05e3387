CONSTANTS
  o1 = o1
  o2 = o2
  j1 = j1
  j2 = j2
  t1 = t1
  t2 = t2
  s1 = s1
  l1 = l1
  Owner = {o1, o2}
  Job = {j1}
  Turn = {t1}
  Session = {s1}
  Lease = {}
  SessionOf <- AllInSession
  TurnOf <- AllInTurn
  KindOf <- AllMemory
  CreatedAt <- AtOnce
  IdRank <- JobOrder
  MaxEffects = 1
  NumEffects <- OneEffect
  LeaseSession <- LeasesInSession
  MaxAttempts = 2
  ExpiryLimit = 3
  MaxConcurrent = 1
  LeaseTicks = 1
  DelayTicks = 0
  HandlerErrors = {"other"}
  MaxLag = 0
  MaxRev = 13
  MaxUp = 1
  MaxDepartures = 1
SPECIFICATION FairSpec
PROPERTY JobsSettle
CHECK_DEADLOCK FALSE
