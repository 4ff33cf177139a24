\* A migration that dies between two statements.
SPECIFICATION Spec
CONSTANTS
    r1 = r1  r2 = r2  r3 = r3
    NoRelease = NoRelease  Mixed = Mixed  Builder = pipeline
    Release = {r1, r2, r3}
    Unit = {pipeline, bridge}
    Enabled = {pipeline}
    Deployer = {d1}
    Write = {w}
    Level <- MCLevel
    Statements = 2
    Keep = 0
    MaxDeploys = 1
    MaxDeaths = 1
INVARIANTS MigrationsWhole
CHECK_DEADLOCK FALSE
