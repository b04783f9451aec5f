SPECIFICATION LinkSpec
CONSTANTS
    x = x
    v0 = v0
    v1 = v1
    v2 = v2
    Cell <- OneCell
    Source = x
    Value <- ThreeValues
    Initially = v0
    ReturningIn <- Anywhere
    Realizes = FALSE
    SettlesInCallback = FALSE
    Microtasks = TRUE
    MaxTransactions = 1
    MaxWrites = 2
    RejectsUnderWay = FALSE
    EmitsInFlight = FALSE
    EmitsUndelivered = FALSE
INVARIANTS
    Converged
PROPERTIES
    NoRejectedValueIsSent
    SettledMeansLanded
    DisposedIsSilent
    OutboundArrives
CHECK_DEADLOCK FALSE
