SPECIFICATION Spec
CONSTANTS
    a = a
    b = b
    c = c
    Ids = {a, b, c}
    SizeOf <- MCSizeOf
    SegmentMaxBytes = 3
    SegmentMaxRecords = 3
    MaxSegmentId = 3
    MaxFrames = 3
    MaxBatch = 2
    Faults <- IoCalls
INVARIANT Readable
CHECK_DEADLOCK FALSE
