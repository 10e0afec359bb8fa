SPECIFICATION Spec
CONSTANTS
    START = START
    END = END
    A = A
    B = B
    Start <- START
    End <- END
    Nodes <- FanInNodes
    Edges <- LoopEdges
    Strays <- StartToEnd
    OnReceive <- None
    MaxExternal = 0
    MaxStarts = 2
    MaxRuns = 1
    MaxInv = 3
CHECK_DEADLOCK FALSE
INVARIANTS OneInstancePerNode  
