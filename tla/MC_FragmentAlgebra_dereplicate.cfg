CONSTANTS
    BaseFragments <- MCBaseFragments
    RepeatCounts <- MCRepeatCounts
    ReplicateCounts <- MCReplicateCounts
    MaxSlots <- MCMaxSlots
SPECIFICATION Spec
INVARIANT
    ReplicateDeReplicateNoOp
