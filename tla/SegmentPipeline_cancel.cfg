SPECIFICATION FairSpec
CONSTANTS
    NumSegments = 5
    MaxConns = 1
PROPERTIES
    CancelledReturns
CHECK_DEADLOCK FALSE
