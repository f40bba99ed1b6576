\* The caller selects the codec "for subsequent batches", between two batches.
CONSTANTS
    Batches <- MCBatches
    MaxBatches = 2
    CodecAnyTime = TRUE
SPECIFICATION Spec
INVARIANT CodecMatchesPages
CHECK_DEADLOCK FALSE
