SPECIFICATION Spec
CONSTANTS
    NoKey = NoKey
    NoTurn = NoTurn
    NoDelta = NoDelta
    ka = ka
    kb = kb
    kc = kc
    kd = kd
    Keys <- MCThreeKeys
    InitialRows <- MCTwoRows
    Enhancers = {"restoration", "transactions"}
    Writes = {"add", "bulk", "rekey", "remove", "setall"}
    Modes = {"strict"}
    Revisits = FALSE
    MaxSubjects = 4
    MaxWrites = 3
INVARIANTS
    StoreIsConsistent
    EvidenceIsNet
    PositionTellsTheRows
    ReversalReturns
    RefusalHasACause
PROPERTIES
    OthersKeepTheirPlace
    RollbackIsComplete
CHECK_DEADLOCK FALSE
