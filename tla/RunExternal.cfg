SPECIFICATION Spec
CONSTANTS
    START = START
    END = END
    A = A
    B = B
    Start <- START
    End <- END
    Nodes <- ChainNodes
    Edges <- ChainEdges
    Strays <- None
    OnReceive <- OnlyA
    MaxExternal = 1
    MaxStarts = 2
    MaxRuns = 2
    MaxInv = 3
CHECK_DEADLOCK FALSE
INVARIANTS SettledMeansCompleted
PROPERTIES ClosedStaysClosed
CONSTRAINT OnlyOnReceiveFails
