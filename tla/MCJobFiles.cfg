SPECIFICATION Spec
CONSTANTS
    j1 = j1
    j2 = j2
    None = None
    Jobs <- TwoJobs
    Nzb <- TwoNzbs
INVARIANTS
    TypeOK
    OutputIsWhole
    AttemptDeliversAll
    ArchiveOrContent
CHECK_DEADLOCK FALSE
CONSTRAINT OneInWork
