SPECIFICATION FairSpec
CONSTANTS
    MaxVersion = 1
    Budget <- Calm
    FillsClusterIP <- Refusing
PROPERTIES
    SubmitCreates
CHECK_DEADLOCK FALSE
