CONSTANTS
    Programs <- MCPrograms
    MaxCalls = 1
    MaxInt32 = 7
SPECIFICATION Spec
INVARIANT MismatchIsRefused
CHECK_DEADLOCK FALSE
