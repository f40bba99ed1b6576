\* Every order of the streaming calls, with disk failures and crashes; the
\* codec is set before the first batch, as the README asks.
CONSTANTS
    Batches <- MCBatches
    MaxBatches = 2
    CodecAnyTime = FALSE
SPECIFICATION Spec
INVARIANTS
    TypeOK
    SealedIsAccepted
    FooterMatchesPages
    CodecMatchesPages
    ChunksTileAcceptedPages
    CloseOkIsDurable
PROPERTIES
    ImplementsParquetFile
CHECK_DEADLOCK FALSE
