CONSTANTS
    CopyArgs <- MCExtentMismatchArgs
    FillArgs <- MCFillArgs
SPECIFICATION Spec
INVARIANT CopyFaithful
CHECK_DEADLOCK FALSE
