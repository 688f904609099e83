SPECIFICATION Spec
CONSTANTS
    s1 = s1
    s2 = s2
    Sessions <- MCSessions
    Steps = 1
    Overlap = FALSE
PROPERTY FreshLedger
CHECK_DEADLOCK FALSE
