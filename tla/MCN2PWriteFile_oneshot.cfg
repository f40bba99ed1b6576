\* The one-shot call, with disk failures and crashes.
CONSTANTS
    Batches <- MCBatches
    MaxBatches = 1
    CodecAnyTime = FALSE
SPECIFICATION SpecFile
INVARIANTS
    FileMatchesResult
PROPERTY
    ReturnsAndFrees
CHECK_DEADLOCK FALSE
