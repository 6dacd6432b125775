CONSTANTS
    Nests <- MCSmallNests
    NumThreads <- MCSmallNumThreads
    SuppliedFragments = {}
SPECIFICATION Spec
INVARIANT
    PartitionLoopFaithful
CHECK_DEADLOCK FALSE
