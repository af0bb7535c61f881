SPECIFICATION Spec
CONSTANTS
    m1 = m1
    m2 = m2
    Ids <- MCIds
    NoMessage = NoMessage
    MaxSetbacks = 1
SYMMETRY Messages
INVARIANT TypeOK
INVARIANT AckedOnly
INVARIANT AttemptExclusive
INVARIANT AckHonoured
INVARIANT NoLostSignal
PROPERTY NoCompletionAfterStop
