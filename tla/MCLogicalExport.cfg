SPECIFICATION LogicalLiveSpec
CONSTANTS
    MaxStreams = 4
    MaxPartitions = 6
    Streams = {1, 2}
    Placements <- MCPlacements
    DataGroups = {1, 2}
    Late = {2}
    MaxCommands = 2
    MaxFaults = 1
INVARIANTS
    
    DownloadsTheCut
    RestoredIsTheCut
PROPERTIES
    SpoolRecovers
CHECK_DEADLOCK FALSE
