SPECIFICATION LiveSpec
CONSTANTS
    Nodes = {1, 2, 3}
    None = 0
    Seeds <- MCSeeds
    Callers = {1, 2, 3}
    Request <- MCRequest
    Expect <- MCExpect
    Candidate <- MCCandidate
    Mixes <- MCMixes
    Window = 1
    TailOffset = 2
INVARIANTS
    
    AnswersMatchMoves
PROPERTIES
    EveryCallReturns
CHECK_DEADLOCK FALSE
