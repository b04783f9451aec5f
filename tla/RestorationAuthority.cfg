SPECIFICATION Spec
CONSTANTS
    Positions <- MCPositions
    Cells <- MCCells
    Rows <- MCRows
    Owner <- MCOwner
    Scopes <- AllScopes
    Values = {"v0", "v1"}
    InitialValue = "v0"
    WriteKinds <- EveryKind
    MaxHistory = 2
    MaxTurnId = 2
    MaxQueued = 1
    MaxOpened = 1
    Lets <- NoLets
CHECK_DEADLOCK FALSE
INVARIANTS
    FrontierMeetsState
PROPERTIES
    ExternalTruthIsNeverUndone
    RedoOnlyReplacedByAdmittedWork
    ScopeContainment
