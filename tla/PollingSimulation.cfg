SPECIFICATION Spec
CONSTANTS
    MaxAttempt = 1
    None = None
    Job = {1, 2, 3}
    ScheduledTimes = {0, 1}
    Calls <- MCCalls
    MaxTime = 3
    config <- MCConfig
INVARIANTS TypeOK RetrievedOnce WaitIsEarned ReportIsTrue
PROPERTIES EveryItemIsRetrieved
