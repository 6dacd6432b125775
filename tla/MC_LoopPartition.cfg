CONSTANTS
    Nests <- MCNests
    NumThreads <- MCNumThreads
    SuppliedFragments <- MCSuppliedFragments
SPECIFICATION Spec
INVARIANTS
    TypeOK
    PartitionLoopFaithful
CHECK_DEADLOCK FALSE
