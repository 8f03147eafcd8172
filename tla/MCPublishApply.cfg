SPECIFICATION Spec
CONSTANTS
    Cluster = c1
    c1 = c1
    c2 = c2
    p1 = p1
    p2 = p2
    s1 = s1
    n1 = n1
    x = x
    y = y
    None = None
    Partitions = {p1, p2}
    Sessions = {s1}
    Sequences_ = {1, 2}
    Names = {n1}
    Payloads = {x, y}
    Requests <- MCRequests
    BookmarkIds <- MCBookmarkIds
    BookmarkCommands <- MCBookmarkCommands
    ReceiptWindow = 1
    MaxOffset = 3
    MaxBytes = 8
    MaxBatch = 2
    MaxLog = 3
    MaxUnapplied = 1
INVARIANTS
    
    AnswersStayTrue
    IndexesAgree
PROPERTIES
    ImplementsLedger
CHECK_DEADLOCK FALSE
