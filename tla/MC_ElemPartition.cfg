CONSTANTS
    CopyArgs <- MCCopyArgs
    FillArgs <- MCFillArgs
    NumThreads <- MCNumThreads
SPECIFICATION Spec
INVARIANT TypeOK
PROPERTY ElemRefinesSpec
\* A kernel stops when every thread has run its loop, or lowering aborts.
CHECK_DEADLOCK FALSE
