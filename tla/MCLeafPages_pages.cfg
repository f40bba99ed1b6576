CONSTANTS
    Batches <- MCBatches
SPECIFICATION Spec
INVARIANTS
    SchemaOK
    ValuesReadBack
    StatisticsBoundTheValues
    SupportedIsWritten
\* The batch is written, or its schema was refused.
CHECK_DEADLOCK FALSE
