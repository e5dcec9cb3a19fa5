SPECIFICATION Spec
CHECK_DEADLOCK FALSE
CONSTANTS
    None = None
    j1 = j1
    j2 = j2
    EventId = {1, 2, 3, 4}
    Unreadable = {4}
    Job = {j1, j2}
    JobOf <- MCJobOf
    Projector = {p1, p2}
    BatchSize = 2
    MaxCrashes = 1
    Edr <- MCEdr
    MaxAttempt = 2
    config <- MCConfig
    Threshold = 1
    Clock = {4, 5}
INVARIANTS TypeOK MarkedIsProjected LostOnlyByOverlap ReadyMeansFresh
PROPERTIES AnswersMoveForward EveryEventIsProjected
