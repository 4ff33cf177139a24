SPECIFICATION Spec
CONSTANTS
    s1 = s1
    s2 = s2
    n1 = n1
    n2 = n2
    r1 = r1
    x = x
    NoShape = NoShape
    MaxId = 2
    MaxEdits = 3
    MaxObs = 1
    Station <- MCStation
    Gauge <- MCGauge
    GaugeName <- MCGaugeName
    Reach <- MCReach
    Shape <- MCShape
SYMMETRY Symmetry
INVARIANTS
    RegistryRoundTrip
    InStep
    
PROPERTIES
    IdsFresh
    ObservationsKept
CHECK_DEADLOCK FALSE
