SPECIFICATION Spec
CONSTANTS
    g1 = g1
    g2 = g2
    Instances <- TwoInstances
    Slots <- OneSlot
    MaxVersion = 3
    MaxRestart = 0
CONSTRAINT RecoveryOnly
INVARIANTS RecoveryWaitsOnOwner
PROPERTIES FinishedRunIsNotResumed
CHECK_DEADLOCK FALSE
