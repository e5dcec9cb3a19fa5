SPECIFICATION Spec
CHECK_DEADLOCK FALSE
CONSTANTS
    None = None
    j1 = j1
    j2 = j2
    EventId = {1, 2, 3}
    Unreadable = {}
    Job = {j1, j2}
    JobOf <- MCJobOf
    Projector = {p1}
    BatchSize = 2
    MaxCrashes = 0
    Edr <- MCEdr
    MaxAttempt = 2
    config <- MCConfig
    Threshold = 1
    Clock = {3, 4}
INVARIANTS OverdueIsShown
