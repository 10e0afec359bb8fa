SPECIFICATION FairSpec
CONSTANTS
    g1 = g1
    g2 = g2
    Instances <- OneInstance
    Slots <- TwoSlots
    MaxVersion = 3
    MaxRestart = 1
INVARIANTS TypeOK OneOwner StatusReflectsControl ActiveHasOwner ObserverUpToDate
PROPERTIES OutcomesStay ImplementsLifecycle PauseSettles
CHECK_DEADLOCK FALSE
