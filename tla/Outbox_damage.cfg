SPECIFICATION FairSpec
CONSTANTS
    a = a
    b = b
    c = c
    Ids = {a, c}
    SizeOf <- MCSizeOf
    SegmentMaxBytes = 2
    SegmentMaxRecords = 2
    MaxSegmentId = 2
    MaxFrames = 3
    MaxBatch = 2
    Faults <- DamageFaults
INVARIANT TypeOK
INVARIANT NoLoss
PROPERTY CallReturns
CHECK_DEADLOCK FALSE
