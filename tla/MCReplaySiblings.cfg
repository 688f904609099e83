SPECIFICATION RSpec
CONSTANTS
    Programs <- SiblingPrograms
    MaxRecords = 10
    MaxInvisible = 0
    Source <- MCSource
    Requests <- MCRequests
INVARIANT SoleSignatureKept
CHECK_DEADLOCK FALSE
