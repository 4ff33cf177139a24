\* Refuted: worker.py:4 promises exactly one pull request per request.
SPECIFICATION Spec
CONSTANTS
    x = x
    y = y
    v0 = v0
    v1 = v1
    v2 = v2
    absent = absent
    CR = {1}
    Cell <- Cells1
    Val <- Vals1
    Absent = absent
    Target <- OneTarget
    Proposed <- OneProposal
    InitialValue <- StartValue
    Worker = {w1}
    Reconciler = {r1}
    NoCR = NoCR
    Free = Free
    Backoff = Backoff
    ReconcileLimit = 50
    MaxInfraRetries = 1
    MaxAttempt = 2
    MaxMain = 2
    MaxCrashes = 0
    HumansReopen = FALSE
    BoundedRuns = TRUE
INVARIANTS
    OneOpenPr
CHECK_DEADLOCK FALSE
