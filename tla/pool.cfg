SPECIFICATION FairSpec
CONSTANTS
    w1 = w1
    w2 = w2
    w3 = w3
    Workers = {w1, w2, w3}
    Owner = Owner
    Free = Free
    MaxTasks = 4
    MaxSpurious = 1
INVARIANTS
    TypeOK
    WorkConserving
PROPERTIES
    PoolIsQueue
    AllRun
    Joins
