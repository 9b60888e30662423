SPECIFICATION FairSpec
CONSTANTS
    Lines = 3
    MaxRuns = 5
    Budget <- Stormy
INVARIANTS
    TypeOK
    ReportsAreTrue
    UpdatedIsPrefix
    ExitZeroMeansAll
PROPERTIES
    InFileOrder
    RunsEnd
CHECK_DEADLOCK FALSE
