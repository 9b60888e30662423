SPECIFICATION FairSpec
CONSTANTS
    MaxVersion = 2
    Budget <- Stormy
    FillsClusterIP <- Either
INVARIANTS
    TypeOK
    CommitRecord
    NoLostWakeup
PROPERTIES
    Ordered
    CommitFresh
    EmptyCopyWritesNothing
    DeployConverges
CHECK_DEADLOCK FALSE
