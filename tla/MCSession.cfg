SPECIFICATION Spec
CONSTANTS
    Absent = Absent
    Configs <- MCConfigs
    Recordings <- MCRecordings
    Source <- MCSource
    Info <- MCInfo
    Normalize <- MCNormalize
    Requests <- MCRequests
    MaxHandles = 1
INVARIANTS
    TracedStepExecuted
    StackExact
    ReferencesExact
    VerifiedAreHit
    ReleasedOnce
PROPERTY LaunchAnswered
CHECK_DEADLOCK FALSE
