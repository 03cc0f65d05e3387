CONSTANTS
  a = a
  b = b
  Turn = {1, 2, 3}
  Owner = {a, b}
  OwnerOf <- LastApart
  Capacity = 1
  Refused = {2}
  MaxFaults = 2
SPECIFICATION HandoffFairSpec
INVARIANTS
  HandoffTypeOK
  NothingForgotten
PROPERTIES
  LatchHeldUntilDrained
  RedactionFenced
  HandoffsRecovered
  EnumerationEnds
