SPECIFICATION RSpec
CONSTANTS
    Programs <- MCPrograms
    MaxRecords = 7
    MaxInvisible = 1
    Source <- MCSource
    Requests <- MCRequests
INVARIANTS
    RTypeOK
    RunsMatchActivations
    FilterKeepsFrames
    RestsOnStop
    DirectionRespected
    StepBackUndoesNext
    ReverseUndoesContinue
    StepsFollowActivations
    ContinueStopsPerExecution
PROPERTY CursorImplemented
CHECK_DEADLOCK FALSE
