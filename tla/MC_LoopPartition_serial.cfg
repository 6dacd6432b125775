CONSTANTS
    Nests <- MCSerialBetweenNests
    NumThreads <- MCSerialBetweenNumThreads
    SuppliedFragments = {}
SPECIFICATION Spec
INVARIANT
    PartitionLoopFaithful
CHECK_DEADLOCK FALSE
