\* Traces of up to five records.
SPECIFICATION Spec
CHECK_DEADLOCK FALSE
CONSTANTS
    Root = "root"
    Contracts <- MCContracts
    Code <- MCCode
    Initializers <- MCInitializers
    Cells <- MCCells
    Releases <- MCReleases
    Wasms <- MCWasms
    MaxRecords = 5
    MaxDepth = 2
INVARIANTS
    GateExact
    PositionsListed
    MemoryExact
    OutcomeExact
    RefusedForCoreOnly
