CONSTANTS
    CopyArgs <- MCCopyArgs
    FillArgs <- MCFillArgs
SPECIFICATION Spec
INVARIANTS TypeOK CopyFaithful
CHECK_DEADLOCK FALSE
