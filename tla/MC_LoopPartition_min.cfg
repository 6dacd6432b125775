CONSTANTS
    Nests <- MCMinNests
    NumThreads = {}
    SuppliedFragments <- MCMinFragments
SPECIFICATION Spec
INVARIANT
    PartitionLoopFaithful
CHECK_DEADLOCK FALSE
