SPECIFICATION Spec
CONSTANTS
  night = night
  lane = lane
  Companion = {"a", "b"}
  Instance = {"a1", "a2", "b1"}
  Drain = {night, lane, "a2", "b1"}
  InstanceOf <- PairInstanceOf
  CompanionOf <- PairCompanionOf
  ManifestOf <- PairManifestOf
  Ordinal <- PairOrdinal
  LeaseTime = 2
  Lag = 0
  Chats = {"a1"}
  Shaky = {"a1"}
  MaxTime = 2
  MaxStarts = 3
  MaxFaults = 1
INVARIANTS
  OneAuthority
  PassedOnce
  PreemptionHeardInTime
SYMMETRY SameHome
CHECK_DEADLOCK FALSE
