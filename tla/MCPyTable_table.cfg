CONSTANTS
    Uses <- MCUses
    MaxCalls = 2
SPECIFICATION Spec
INVARIANTS
    OwnershipOK
    NeverReadsFreed
    SealedTableIsComplete
    WrittenIsTheArray
PROPERTIES
    CallsEnd
\* Nothing is called any more.
CHECK_DEADLOCK FALSE
