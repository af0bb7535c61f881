SPECIFICATION FairSpec
CONSTANTS
    a = a
    b = b
    c = c
    Ids = {a, b, c}
    Null = Null
    NewId = NewId
    SizeOf <- MCSizeOf
    SegmentMaxBytes = 2
    SegmentMaxRecords = 2
    MaxDamages = 1
    MaxSetbacks = 2
INVARIANT TypeOK
INVARIANT NothingDiscarded
INVARIANT NothingReplayed
PROPERTY EventuallyOpen
