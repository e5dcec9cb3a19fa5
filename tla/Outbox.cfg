SPECIFICATION Spec
CHECK_DEADLOCK FALSE
CONSTANTS
    None = None
    e1 = e1
    e2 = e2
    p1 = p1
    p2 = p2
    Event = {e1, e2}
    Publisher = {p1, p2}
    BatchSize = 2
    MaxFaults = 2
INVARIANTS TypeOK PublishedWasAcknowledged DuplicatesNeedFaults
PROPERTIES RowsAreFenced EveryEventIsPublished
