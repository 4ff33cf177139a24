\* Every queued row settles and every merge is noticed, under the timers' fairness.
SPECIFICATION FairSpec
CONSTANTS
    x = x
    y = y
    v0 = v0
    v1 = v1
    v2 = v2
    absent = absent
    CR = {1}
    Cell <- Cells1
    Val <- Vals1
    Absent = absent
    Target <- OneTarget
    Proposed <- OneProposal
    InitialValue <- StartValue
    Worker = {w1}
    Reconciler = {r1}
    NoCR = NoCR
    Free = Free
    Backoff = Backoff
    ReconcileLimit = 50
    MaxInfraRetries = 2
    MaxAttempt = 2
    MaxMain = 2
    MaxCrashes = 1
    HumansReopen = FALSE
    BoundedRuns = TRUE
PROPERTIES
    
    MergeObserved
CHECK_DEADLOCK FALSE
