CONSTANTS
    Nests <- MCTwoOutputNests
    NumThreads = {}
    SuppliedFragments <- MCTwoOutputFragments
SPECIFICATION Spec
INVARIANT
    PartitionedLoopsUnrolled
CHECK_DEADLOCK FALSE
