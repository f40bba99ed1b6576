CONSTANTS
    Programs <- MCPrograms
    MaxCalls = 3
    MaxInt32 = 7
SPECIFICATION Spec
INVARIANTS
    HandleOK
    SealedHoldsTheChunks
    AcceptedIsRectangular
    StatusIsTold
\* The Writer is destroyed, or the process has ended.
CHECK_DEADLOCK FALSE
