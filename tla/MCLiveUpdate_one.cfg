CONSTANTS
    p1 = p1
    p2 = p2
    lax = lax
    strict = strict
    w1 = w1
    w2 = w2
    t1 = t1
    t2 = t2
    Policies <- TwoPolicies
    Texts <- TwoTexts
    Workflows <- OneWorkflow
    Monitors <- OneMonitor
    MaxChanges = 2
    MayOverrun = FALSE
    MayRaise = TRUE
SPECIFICATION FairLiveSpec
INVARIANTS WorkflowsUpToDate LastChangeWins
PROPERTIES NoDowngrade EveryChangeArrives
CHECK_DEADLOCK FALSE
