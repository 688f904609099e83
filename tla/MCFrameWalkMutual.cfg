SPECIFICATION Spec
CONSTANTS
    Programs <- MCPrograms
    MaxRecords = 8
    MaxInvisible = 0
INVARIANT MutualRecursionHandled
CHECK_DEADLOCK FALSE
