SPECIFICATION FairSpec
CONSTANTS
  m1 = m1
  m2 = m2
  a1 = a1
  None = None
  Message = {m1, m2}
  Author <- OneAuthor
  Activity = {a1}
  Kind <- Protecting
  Copies <- FirstTwice
  BatchSize = 2
  MaxFaults = 1
  MaxWriteFaults = 1
  MaxCrashes = 1
INVARIANTS
  
  NoMarkLeft
  InOrder
PROPERTIES
  AckAfterDelivery
  Answered
CHECK_DEADLOCK FALSE
