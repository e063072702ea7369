CONSTANTS
    c1 = c1
    c2 = c2
    i1 = i1
    i2 = i2
    none = none
    NoCall = none
    Calls <- TwoCalls
    ActionIds <- OneId
    BaseRisks <- SharedRisks
    Deviations <- SharedDeviations
    MaxSteps = 2
    UniqueIds = FALSE
    ViaApi = FALSE
SPECIFICATION GuardSpec
INVARIANTS CriticalNeverPasses RejectedNeverExecutes NoLeak
CHECK_DEADLOCK FALSE
