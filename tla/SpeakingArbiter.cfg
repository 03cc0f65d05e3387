CONSTANTS
  c1 = c1
  c2 = c2
  e1 = e1
  d1 = d1
  d2 = d2
  d3 = d3
  Companion = {c1, c2}
  Event = {e1}
  Drive = {d1, d2, d3}
  CompanionOf <- TwoCompanions
  EventOf <- OneEvent
  Rank <- Order
  ReservationTtl = 2
  LeaseTtl = 1
  FenceWindow = 2
  Watchdog = TRUE
  MaxStall = 1
  MaxTime = 2
  MaxLeases = 3
  MaxCrashes = 1
SPECIFICATION Spec
INVARIANTS
  DeliveredWasSpoken
  AnswersOnce
PROPERTY
  KeepsSpeechRecord
CHECK_DEADLOCK FALSE
