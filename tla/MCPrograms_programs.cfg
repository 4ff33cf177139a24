\* Seven programs, one at a time.  Each may stop.
CONSTANTS
    Url = {"a", "b", "d"}
    Host = {"A", "B"}
    hostOf <- MCHostOf
    limit <- MCLimit
    Refused = {}
    MaxRetries = 3
    Timeout = 2
    NoBudget = 99
    Deadlines = {4, 99}
    MaxClock = 12
    Address = {"plain", "dotted"}
    canonical <- MCCanonical
    PhpRequest = {p1, p2}
    MaxLinks = 2
    LinkCap = 1
    LinkLife = 1
    SessionLife = 1
    RetentionAge = 0
    MaxHour = 2
    MaxCommands = 2
    MaxPulls = 1
    MaxEdits = 2
    Mouth = 8
    MaxDev = 1
    Days = 2
    MaxGap = 2
    MaxTick = 5
    MaxFlips = 2
    Switch = 2
    Back = 1
    LastHour = 3
    MaxChanges = 1
SPECIFICATION Spec
INVARIANTS
    BatchPolite
    LinkOpensOneSession
    
    ValidArrivesWhole
    RuntimeAsIntended
    
    
    AuditTruthful
    
PROPERTY BatchEnds
CHECK_DEADLOCK FALSE
