SPECIFICATION FairSpec
CONSTANTS
    MaxMid = 5
    MaxSetbacks = 2
CHECK_DEADLOCK FALSE
INVARIANT TypeOK
INVARIANT ReadyMeansSubscribed
PROPERTY EventuallyReady
