SPECIFICATION Spec
CONSTANTS
    Shapes <- AllShapes
    BatchOffsets = {0}
INVARIANTS
    LevelsOK
    PageDecodesToRows
    NullCountIsExact
    WellFormedIsWritten
    SeenNullsAreRejected
\* A leaf that is written or refused is done.
CHECK_DEADLOCK FALSE
