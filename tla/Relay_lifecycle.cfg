SPECIFICATION Spec
CONSTANTS
    m1 = m1
    m2 = m2
    w1 = w1
    w2 = w2
    Ids = {m1}
    NoMessage = NoMessage
    Workers = {w1, w2}
    MaxQueue = 1
    Concurrent = TRUE
    SlowJoins = TRUE
    MaxSetbacks = 2
SYMMETRY Interchangeable
INVARIANT TypeOK
INVARIANT OneWorker
INVARIANT LifecycleHonest
INVARIANT AckTruthful
