SPECIFICATION FairSpec
CONSTANTS
  Every = {"beat"}
  Slotted = {"reflect"}
  OneShot = {"once"}
  Standing = {"beat", "reflect"}
  Interval = {2}
  Period = 2
  Offset = 1
  Gap = 2
  Floor = 1
  Ceiling = 3
  Horizon = 5
  MaxEdits = 1
INVARIANTS SingleFlight SlotOnce WakesInTime
PROPERTY DueRuns
CHECK_DEADLOCK FALSE
