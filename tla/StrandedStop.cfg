SPECIFICATION Spec
CONSTANTS
    g1 = g1
    g2 = g2
    Instances <- OneInstance
    Slots <- TwoSlots
    MaxVersion = 1
    MaxRestart = 0
CHECK_DEADLOCK FALSE
INVARIANTS StoppingHasOwner
