SPECIFICATION Spec
CONSTANTS
    e1 = e1
    e2 = e2
    e3 = e3
    s1 = s1
    Effect <- MCEffect
    Subject <- MCSubject
    EffectLists <- ListsOfOne
    QueuedLists <- Queues
    EvidenceKey <- MCEvidenceKey
    MaxTurns = 3
    MaxSeq = 3
    MaxRetain = 2
INVARIANTS
    TypeOK
    ChronologyIsShared
    StampsAreDistinct
    RetentionFollowsResponsibility
PROPERTIES
    ObligationIsKept
    TruncationIsReported
    QueuedEvidenceLatches
CHECK_DEADLOCK FALSE
