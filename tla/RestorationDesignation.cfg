SPECIFICATION Spec
CONSTANTS
    Positions <- MCPositions
    Cells <- MCCells
    Rows <- MCRows
    Owner <- MCOwner
    Scopes <- RootScope
    Values = {"v0", "v1"}
    InitialValue = "v0"
    WriteKinds <- Authored
    MaxHistory = 2
    MaxTurnId = 1
    MaxQueued = 2
    MaxOpened = 0
    Lets <- NoLets
CHECK_DEADLOCK FALSE
PROPERTIES
    DesignationIsKept
