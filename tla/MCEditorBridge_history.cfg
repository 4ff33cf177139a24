\* One request over two attempts while the dataset moves, rolls back and deploys.
SPECIFICATION Spec
CONSTANTS
    x = x
    y = y
    v0 = v0
    v1 = v1
    v2 = v2
    absent = absent
    CR = {1}
    Cell <- Cells2
    Val <- Vals
    Absent = absent
    Target <- OneTarget
    Proposed <- OneProposal
    InitialValue <- StartValue
    Worker = {w1}
    Reconciler = {r1}
    NoCR = NoCR
    Free = Free
    Backoff = Backoff
    ReconcileLimit = 50
    MaxInfraRetries = 1
    MaxAttempt = 2
    MaxMain = 3
    MaxCrashes = 1
    HumansReopen = TRUE
    BoundedRuns = TRUE
INVARIANTS
    BranchesReviewed
    PrTracked
PROPERTIES
    DeployedWasShipped
    NoUnseenOverwrite
CHECK_DEADLOCK FALSE
