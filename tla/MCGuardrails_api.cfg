CONSTANTS
    c1 = c1
    c2 = c2
    i1 = i1
    i2 = i2
    none = none
    NoCall = none
    Calls <- TwoCalls
    ActionIds <- TwoIds
    BaseRisks <- ApiRisks
    Deviations <- ApiDeviations
    MaxSteps = 1
    UniqueIds = TRUE
    ViaApi = TRUE
SPECIFICATION FairGuardSpec
INVARIANTS GuardTypeOK EveryViolationAnswered LiveStatusIsFinal
PROPERTIES EveryActionAnswered SuspensionIsFinal
CHECK_DEADLOCK FALSE
