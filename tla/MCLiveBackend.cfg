SPECIFICATION Spec
CONSTANTS
    s1 = s1
    s2 = s2
    Sessions <- MCSessions
    Steps = 1
    Overlap = TRUE
INVARIANTS
    TypeOK
    NoNodeLeaked
PROPERTIES
    PortFreed
    LaunchSettles
    OutcomeFinal
CHECK_DEADLOCK FALSE
