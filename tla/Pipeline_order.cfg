SPECIFICATION Spec
CONSTANTS
    Ids = {m1, m2}
    NoMessage = NoMessage
    Durable = FALSE
    Workers = {w1}
    MaxQueue = 1
    MaxSetbacks = 0
    MaxCrashes = 1
    MaxTrouble = 1
SYMMETRY Symmetry
PROPERTY ImplementsDelivery
