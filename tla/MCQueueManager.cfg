SPECIFICATION QueueSpec
CONSTANTS
    Ids = {j1, j2, j3}
    Priorities = {0, 1}
    MaxDone = 0
    None = None
INVARIANTS
    NextIsHighestPriorityThenOldest
    NoDuplicateJobs
PROPERTIES
    QueueOrderKept
SYMMETRY IdSymmetry
