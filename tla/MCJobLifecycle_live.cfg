SPECIFICATION CalmSpec
CONSTANTS
    Ids = {j1, j2}
    Priorities = {0}
    MaxDone = 0
    NumFiles = 1
    None = None
PROPERTIES
    QueuedIsTakenUp
