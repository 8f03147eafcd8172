CONSTANTS
    Chunks = 2
    MaxBuilds = 2
    MaxVotes = 2
    MaxFaults = 1
    MaxCrashes = 1
SPECIFICATION LiveSpec
INVARIANTS
    TransfersAreTrue
PROPERTIES
    FollowerCatchesUp
CHECK_DEADLOCK FALSE
