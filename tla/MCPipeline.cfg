\* One run, alone in its tree, one process that may be killed.
SPECIFICATION FromV1
CONSTANTS
    p1 = p1
    r1 = r1
    v1 = v1
    v2 = v2
    None = None
    Promoter = {p1}
    Run = {r1}
    RunOf <- OneRun
    NIterations = 2
    Value = {v1, v2}
    Stray = {TRUE, FALSE}
    Lease = 1
    Stall = 0
    MaxCrashes = 1
    MaxEdits = 0
    MaxRollbacks = 0
    Outcome <- Outcomes
    MaxAgain = 1
    Price <- Prices
    Limit = 1
    DailyLimit = 1
    MaxCalls = 3
INVARIANTS
    TypeOKAll
    OneCommitPerKey
    CommittedWasEvaluated
    ShortByACentACall
    OverBudgetOnlyByLateCosts
PROPERTIES
    EachWinnerMeetsTheBar
    LedgerKept
CHECK_DEADLOCK FALSE
