CONSTANTS
    Requests <- MCRequests
    DefaultLowerDimFirst = TRUE
    BaseFragments <- MCBaseFragments
    RepeatCounts <- MCRepeatCounts
    ReplicateCounts <- MCReplicateCounts
    MaxSlots <- MCMaxSlots
SPECIFICATION Spec
INVARIANTS
    TypeOK
    FactoryCoversTile
    FragmentInvertible
\* A client stops once its fragment is at MaxSlots or a factory aborted.
CHECK_DEADLOCK FALSE
