CONSTANTS
    t1 = t1
    t2 = t2
    b1 = b1
    b2 = b2
    Threads <- MCThreads
    Batches <- MCBatches
    Tables <- MCTables
    Rows <- MCRows
    MaxCalls = 3
SPECIFICATION Spec
INVARIANTS
    TypeOK
    HandleOK
    CountersMatchTheFile
    RowsMatchTheFile
    SealedHoldsWhatReturned
    CloseIsTold
PROPERTIES
    CallsEnd
\* The object is destroyed, or the process has ended.
CHECK_DEADLOCK FALSE
