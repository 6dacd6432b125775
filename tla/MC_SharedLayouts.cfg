CONSTANTS
    Requests <- MCRequests
    VoltaRequests <- MCVoltaRequests
SPECIFICATION Spec
INVARIANTS
    TypeOK
    XorIsBitwise
    SharedLayoutSound
    BankConflictFree
CHECK_DEADLOCK FALSE
