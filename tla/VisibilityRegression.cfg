CONSTANTS
    MaxAttempt = 3
    None = None
    w1 = w1
    w2 = w2
    Writers = {w1}
    Histories <- MCPermanentFailure
    Optimistic = {FALSE}
    Retries = 3
    Naive = {}
    MaxRaises = 0
    config <- MCConfig
    Clock = {1}
SPECIFICATION Spec
PROPERTIES TerminalNotRegressed
