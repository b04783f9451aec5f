SPECIFICATION Spec
CONSTANTS
    Positions <- MCPositions
    Cells <- MCCells
    Rows <- MCRows
    Owner <- MCOwner
    Scopes <- AllScopes
    Values = {"v0", "v1"}
    InitialValue = "v0"
    WriteKinds <- Authored
    MaxHistory = 2
    MaxTurnId = 4
    MaxQueued = 2
    MaxOpened = 0
    Lets <- NoLets
CHECK_DEADLOCK FALSE
INVARIANTS
    StatusConsistent
    FrontierMeetsState
    ClaimsFollowHistory
    NamedSubjectsAreKept
