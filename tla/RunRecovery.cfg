SPECIFICATION Spec
CONSTANTS
    START = START
    END = END
    A = A
    B = B
    Start <- START
    End <- END
    Nodes <- FanInNodes
    Edges <- FanInEdges
    Strays <- None
    OnReceive <- None
    MaxExternal = 0
    MaxStarts = 3
    MaxRuns = 1
    MaxInv = 6
CHECK_DEADLOCK FALSE
INVARIANTS TypeOK SettledMeansCompleted VisibleMeansCompleted NoPrematureJoin CompletedHadInput EndedIsSettled CompletedMeansEnd
PROPERTIES LedgerMovesForward
