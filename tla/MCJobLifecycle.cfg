SPECIFICATION Spec
CONSTANTS
    Ids = {j1, j2}
    Priorities = {0}
    MaxDone = 3
    NumFiles = 2
    None = None
INVARIANTS
    TypeOK
    ActiveIsCurrent
    DownloadingIsCancellable
    UnfinishedRecordIsQueued
    HistoryErrorMatchesStatus
PROPERTIES
    ImplementsLedger
SYMMETRY IdSymmetry
CONSTRAINT TwoJobBounds
