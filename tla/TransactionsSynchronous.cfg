SPECIFICATION Spec
CONSTANTS
    x = x
    y = y
    v0 = v0
    v1 = v1
    v2 = v2
    v3 = v3
    Cell <- OneCell
    Value <- FourValues
    Initially = v0
    ReturningIn <- Outside
    Realizes = TRUE
    SettlesInCallback = FALSE
    Microtasks = FALSE
    MaxTransactions = 3
    MaxWrites = 3
SYMMETRY Values
PROPERTIES
    ImplementsProposals
    QueuedWriterIsRespected
CHECK_DEADLOCK FALSE
