SPECIFICATION Spec
CONSTANTS
    a = a
    b = b
    Contracts <- MCContracts
    Cells <- MCCells
    Values <- MCValues
    Ttls <- MCTtls
    PutTtl = 9
    Worlds <- MCWorlds
    MaxEvents = 7
    MaxDepth = 2
INVARIANTS
    TypeOK
    LedgerExact
    TtlExact
    TablesExact
CHECK_DEADLOCK FALSE
