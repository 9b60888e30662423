SPECIFICATION FairSpec
CONSTANTS
    MaxVersion = 2
    Budget <- Calm
    FillsClusterIP <- Refusing
PROPERTIES
    Converges
CHECK_DEADLOCK FALSE
