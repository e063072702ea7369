CONSTANTS
    w1 = w1
    w2 = w2
    approved = approved
    denied = denied
    i1 = i1
    i2 = i2
    i3 = i3
    Writers <- TwoWriters
    Decisions <- TwoDecisions
    RecordIds <- ThreeIds
    MaxTime = 2
SPECIFICATION LedgerSpec
INVARIANTS ChainVerifies AcceptedIsOneChain ChangeDetected
SYMMETRY LedgerSymmetry
CHECK_DEADLOCK FALSE
