SPECIFICATION FairSpec
CONSTANTS
    NumFiles = 2
    Slots = {s1, s2}
    Conns = {c1, c2}
    Limits = {1, 2}
    MaxRetries = 2
    NumFetches = 2
    None = None
INVARIANTS
    TypeOK
    OneUser
    CountIsOpen
    NobodyWaits
    PanicOnlyAfterWriteError
PROPERTIES
    PrimaryFetchesEnd
CHECK_DEADLOCK FALSE
