\* Two runs of the script, one death or reboot, failures anywhere.
SPECIFICATION FairSpec
CONSTANTS
    r1 = r1  r2 = r2  r3 = r3
    NoRelease = NoRelease  Mixed = Mixed  Builder = pipeline
    Release = {r1, r2, r3}
    Unit = {pipeline, bridge}
    Enabled = {pipeline}
    Deployer = {d1}
    Write = {w}
    Level <- MCLevel
    Statements = 2
    Keep = 0
    MaxDeploys = 2
    MaxDeaths = 1
INVARIANTS CurrentWhole  PairedAtRest
PROPERTIES SuccessActivates RollbackRestores  
CHECK_DEADLOCK FALSE
