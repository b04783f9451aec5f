SPECIFICATION Spec
CONSTANTS
    x = x
    y = y
    v0 = v0
    v1 = v1
    v2 = v2
    v3 = v3
    Cell <- OneCell
    Value <- FourValues
    Initially = v0
    ReturningIn <- Outside
    Realizes = FALSE
    SettlesInCallback = FALSE
    Microtasks = TRUE
    MaxTransactions = 1
    MaxWrites = 3
SYMMETRY Values
INVARIANTS
    RejectionIsExact
CHECK_DEADLOCK FALSE
