SPECIFICATION Spec
CONSTANTS
    k1 = k1
    k2 = k2
    l1 = l1
    Key <- TwoKeys
    Listener <- OneListener
    MaxScopes = 2
    MaxScheduled = 3
INVARIANTS
    TypeOK
    NothingIsLost
    NoStrandedHold
    ReleaseMeansSettled
PROPERTIES
    OnlyCommittedRuns
    FateIsFinal
    HoldsAreReleased
CHECK_DEADLOCK FALSE
