CONSTANTS
    s1 = s1
    s2 = s2
    Supervisors = {s1, s2}
    Jobs = {1, 2, 3, 4}
    Session <- FirstTwoShare
    MaxConcurrent = 2
    DeferThreshold = 1
    AgeThreshold = 1
    ReserveSlots = 1
    DelayTicks = 1
    MaxCrashes = 1
SPECIFICATION Spec
SYMMETRY Alike
INVARIANTS OneClaimPerSession OvershootBounded
CHECK_DEADLOCK FALSE
