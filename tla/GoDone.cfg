SPECIFICATION Spec
CONSTANTS
    Lines = 3
    MaxRuns = 2
    Budget <- OneLost
INVARIANTS
    DoneMeansAll
CHECK_DEADLOCK FALSE
