SPECIFICATION FairSpec
CONSTANTS
    MaxVersion = 2
    Budget <- Calm
    FillsClusterIP <- Filling
PROPERTIES
    SpecReachesCluster
CHECK_DEADLOCK FALSE
