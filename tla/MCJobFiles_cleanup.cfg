SPECIFICATION Spec
CONSTANTS
    j1 = j1
    j2 = j2
    None = None
    Jobs <- TwoJobs
    Nzb <- TwoNzbs
PROPERTIES
    CleanupAfterExtraction
CONSTRAINT OneInWork
CHECK_DEADLOCK FALSE
