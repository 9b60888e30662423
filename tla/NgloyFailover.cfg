SPECIFICATION HAFairSpec
CONSTANTS
    MaxVersion = 2
    Budget <- OneTakeOver
    FillsClusterIP <- Either
INVARIANTS
    HATypeOK
    CommitRecord
    NoLostWakeup
PROPERTIES
    CatchesUp
    DeployConverges
CHECK_DEADLOCK FALSE
