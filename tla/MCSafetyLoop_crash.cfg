CONSTANTS
    gateway = gateway
    client = client
    a1 = a1
    a2 = a2
    addr = addr
    Writers <- OneProcess
    Actions <- TwoActions
    EventIds <- EventsOfTwo
    Payloads <- Verdicts
    ScoreIds <- OneAddress
    Impacts <- SomeImpacts
    UniqueIds = FALSE
    MayAbort <- OneProcess
    MayRetry = FALSE
    MaxRequests = 2
    MaxHash = 8
    Threshold = 850
SPECIFICATION FairSpec
INVARIANTS ApprovedOnlyIfChecked BreakerAgrees DecisionOnRecord ApprovalHasEvidence
PROPERTIES EveryRequestAnswered
CHECK_DEADLOCK FALSE
