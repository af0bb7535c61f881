SPECIFICATION Spec
CONSTANTS
    a = a
    b = b
    c = c
    Ids = {a, b, c}
    SizeOf <- MCSizeOf
    SegmentMaxBytes = 2
    SegmentMaxRecords = 2
    MaxSegmentId = 3
    MaxFrames = 3
    MaxBatch = 2
    Faults <- RepairedFaults
INVARIANT IInv
INVARIANT Reopenable
INVARIANT NoResurrection
PROPERTY ClosedSegmentsImmutable
PROPERTY ImplementsFifo
