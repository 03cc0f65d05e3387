SPECIFICATION FairSpec
CONSTANTS
  Key = {"slow", "fast", "more"}
  Action = {"a1", "a2", "b1", "c1"}
  KeyOf <- MixKeyOf
  InferredAt <- MixInferredAt
  Appraisal = {"fast", "more"}
  Watermark = {"slow"}
  Capacity = 1
  RunsPerTick <- OnePerTick
  MaxRetries = 1
  Unreadable = TRUE
  MaxFaults = 2
  MaxDefers = 1
INVARIANTS DemandKept DurableDemand
PROPERTY DemandSettles
CHECK_DEADLOCK FALSE
