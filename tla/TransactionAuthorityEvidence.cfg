SPECIFICATION Spec
CONSTANTS
    e1 = e1
    e2 = e2
    e3 = e3
    s1 = s1
    Effect <- MCEffect
    Subject <- NoSubjects
    EffectLists <- OrderedLists
    QueuedLists <- NoQueue
    EvidenceKey <- MCEvidenceKey
    MaxTurns = 3
    MaxSeq = 3
    MaxRetain = 1
PROPERTIES
    ImplementsEvidence
CHECK_DEADLOCK FALSE
