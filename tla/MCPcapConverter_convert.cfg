CONSTANTS
    Captures <- MCCaptures
    Commands <- MCCommands
    PduTables <- MCTables
    MaxU64 = 15
SPECIFICATION Spec
INVARIANTS
    WindowOK
    PacketsOK
    PdusJoinPackets
    ExitZeroIsComplete
    OpenedIsClosed
PROPERTY
    Terminates
\* The program ends.
CHECK_DEADLOCK FALSE
