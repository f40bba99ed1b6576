SPECIFICATION Spec
CONSTANTS
    Shapes <- Longer
    BatchOffsets = {0, 1}
INVARIANT
    SlicesAreRefused
CHECK_DEADLOCK FALSE
