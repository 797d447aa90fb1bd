SPECIFICATION FairSpec
CONSTANTS
    NumSegments = 5
    MaxConns = 2
INVARIANTS
    TypeOK
    NothingLeftToFlush
    ReturnCountsEverySegment
    NoSendAfterClose
    SegmentInOnePlace
PROPERTIES
    DownloadReturns
CHECK_DEADLOCK FALSE
