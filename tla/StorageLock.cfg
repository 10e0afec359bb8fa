SPECIFICATION FairSpec
CONSTANTS
    t1 = t1
    t2 = t2
    t3 = t3
    NoTask = NoTask
    Tasks <- ThreeTasks
    Upgrading <- OneUpgrades
    MaxDepth = 3
    MaxUses = 3
INVARIANTS WriterIsAlone ReleaseIsLegal NoLostWakeup
PROPERTIES ImplementsRWLock 
CHECK_DEADLOCK FALSE
