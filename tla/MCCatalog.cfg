SPECIFICATION LiveSpec
CONSTANTS
    r1 = r1
    r2 = r2
    default = default
    other = other
    x = x
    y = y
    NGroups = 2
    Names = {default, other}
    DefaultName = default
    Requests = {r1, r2}
    MaxStreams = 2
    MaxParts = 2
    BookIds = {1, 2, 3}
    BookNames = {x, y}
    PageLimit = 1
    Callers = {1, 2}
    MaxIds = 3
    CreateSpecs <- MCCreateSpecs
    BookSpecs <- MCBookSpecs
    MaxCalls = 3
    MaxTimeouts = 1
    MaxTail = 1
CHECK_DEADLOCK FALSE
INVARIANTS
    CatalogIsCoherent
    OneStreamPerRequest
    

    
