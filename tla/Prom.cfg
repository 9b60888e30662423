SPECIFICATION FairSpec
CONSTANTS
    MaxVersion = 2
    Budget <- Windy
    FillsClusterIP <- Either
INVARIANTS
    TypeOK
    AdoptsBoth
    OverwritesInOrder
    KeepsTrying
PROPERTIES
    CommitFresh
    AdoptedFollows
    QueueDrains
CHECK_DEADLOCK FALSE
