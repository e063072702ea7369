CONSTANTS
    gateway = gateway
    client = client
    a1 = a1
    a2 = a2
    addr = addr
    Writers <- OneProcess
    Actions <- TwoActions
    EventIds <- EventsOfTwo
    Payloads <- Verdicts
    ScoreIds <- OneAddress
    Impacts <- SomeImpacts
    UniqueIds = FALSE
    MayAbort = {}
    MayRetry = FALSE
    MaxRequests = 2
    MaxHash = 6
    Threshold = 850
SPECIFICATION Spec
INVARIANTS LedgerHasNoGap

CHECK_DEADLOCK FALSE
