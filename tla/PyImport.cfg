SPECIFICATION FairSpec
CONSTANTS
    Lines = 3
    MaxRuns = 5
    Budget <- Stormy
    Calls = {"right", "noEnv", "noOs"}
    Padded = {2}
INVARIANTS
    TypeOK
    ReportsAreTrue
    Accounted
PROPERTIES
    InFileOrder
    MistypedInsertsNothing
    RunsEnd
CHECK_DEADLOCK FALSE
