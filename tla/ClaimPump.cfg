CONSTANTS
  MaxClaims = 2
  MaxForeground = 2
SPECIFICATION PumpFairSpec
INVARIANTS
  SweepAfterLastPass
  HeartbeatCoversLeases
PROPERTIES
  KeepsContract
  StopEnds
