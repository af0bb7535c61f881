SPECIFICATION FairSpec
CONSTANTS
    Sizes = {1, 2}
    SyncMessages = 3
    SyncBytes = 4
    AckMessages = 3
    DataInterval = TRUE
    AckInterval = TRUE
    SegmentRecords = 3
    SegmentBytes = 4
    MaxRecords = 4
    MaxFaults = 2
INVARIANT TypeOK
INVARIANT LossCovered
INVARIANT WindowBounded
INVARIANT CleanFlush
PROPERTY EventuallyStable
