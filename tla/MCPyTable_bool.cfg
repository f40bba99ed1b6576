CONSTANTS
    Uses <- BoolUses
    MaxCalls = 1
SPECIFICATION Spec
INVARIANTS
    WrittenIsTheArray
\* Nothing is called any more.
CHECK_DEADLOCK FALSE
