SPECIFICATION LogicalSpec
CONSTANTS
    MaxStreams = 4
    MaxPartitions = 6
    Streams = {1, 2}
    Placements <- MCPlacements
    DataGroups = {1, 2}
    Late = {2}
    MaxCommands = 1
    MaxFaults = 1
INVARIANTS
    WholeDownloadIsAccepted
CHECK_DEADLOCK FALSE
