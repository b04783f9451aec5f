SPECIFICATION Spec
CONSTANTS
    NoKey = NoKey
    NoTurn = NoTurn
    NoDelta = NoDelta
    ka = ka
    kb = kb
    kc = kc
    kd = kd
    Keys <- MCFourKeys
    InitialRows <- MCTwoRows
    Enhancers = {"transactions"}
    Writes = {"rekey"}
    Modes = {"strict"}
    Revisits = FALSE
    MaxSubjects = 4
    MaxWrites = 3
PROPERTY
    RollbackTakesBackEveryName
CHECK_DEADLOCK FALSE
