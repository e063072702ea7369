CONSTANTS
    w1 = w1
    w2 = w2
    e1 = e1
    e2 = e2
    e3 = e3
    ok = ok
    Writers <- TwoWriters
    EventIds <- ThreeEvents
    Payloads <- OnePayload
    UniqueIds = TRUE
    MayAbort <- OneWriter
    MaxHash = 4
SPECIFICATION StoreSpec
INVARIANTS NoGap OwnBranch
PROPERTIES RecordsKept
CHECK_DEADLOCK FALSE
