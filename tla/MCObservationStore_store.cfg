SPECIFICATION Spec
CONSTANTS
    Source = {1, 2, 3}
    Gauge = {1, 2}
    DataType = {"flow", "gauge"}
    Value <- MCValue
    linkOf <- MCLinkOf
    urlSources <- MCUrlSources
    GetUrl = {"u"}
    PostUrl = {"p"}
    UsgsSource = {2}
    NegativeOk = {3}
    Rated = {1}
    refs <- MCRefs
    calcType <- MCCalcType
    flowAt <- MCFlowAt
    stageAt <- MCStageAt
    HourTicks = 2
    LongTicks = 4
    Lookback = 2
    Window = 4
    RecentAge = 4
    ArchiveAge = 6
    Ahead = 0
    FirstTime = 3
    MaxTime = 10
    Jumps = {1, 7}
    MaxBatch = 1
    Budgets <- MCBudgets
INVARIANTS
    SourceCacheExact
    
    HistoryCovered

    
CHECK_DEADLOCK FALSE
