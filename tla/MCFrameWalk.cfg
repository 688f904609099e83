SPECIFICATION Spec
CONSTANTS
    Programs <- MCPrograms
    MaxRecords = 8
    MaxInvisible = 2
INVARIANTS
    TypeOK
    FramesExact
    WalkTracksMachine
    OpcodeNeverShallow
PROPERTY ImplementsActivationStack
CHECK_DEADLOCK FALSE
