CONSTANTS
    reviewer = reviewer
    approver = approver
    Stakeholders <- Staff
    Clearance <- StaffClearance
    Predictions <- SomePredictions
    Rationales <- SomeRationales
    SignalInputs <- SomeSignals
    HistoryWindow = 3
    AdaptationWindow = 1
    OverrideRate = 400
    MaxRequests = 2
    BaseRate = 800
    MinRate = 50
    MaxRate = 2500
    MinimumSignals = 1
    MinimumSample = 1
    VersionsKept = 2
    MaxSignals = 2
    MaxVersions = 4
SPECIFICATION ScoringSpec
INVARIANTS ActiveVersionIsState SignalsProcessedOnce OutcomesCounted
PROPERTIES RollbackApproaches SignalsPushTheirWay
CHECK_DEADLOCK FALSE
