SPECIFICATION FairSpec
CONSTANTS
    Ids = {m1}
    NoMessage = NoMessage
    Durable = FALSE
    Workers = {w1}
    MaxQueue = 1
    MaxSetbacks = 1
    MaxCrashes = 1
    MaxTrouble = 1
PROPERTY ImplementsWorker
PROPERTY EventuallyCompleted
