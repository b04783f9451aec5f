SPECIFICATION Spec
CONSTANTS
    x = x
    y = y
    v0 = v0
    v1 = v1
    v2 = v2
    v3 = v3
    Cell <- TwoCells
    Value <- ThreeValues
    Initially = v0
    ReturningIn <- Nowhere
    Realizes = TRUE
    SettlesInCallback = FALSE
    Microtasks = TRUE
    MaxTransactions = 2
    MaxWrites = 3
SYMMETRY CellsAndValues
INVARIANTS
    HandlesOwnTurns
    RefusalIsJustified
PROPERTIES
    ImplementsProposals
CHECK_DEADLOCK FALSE
