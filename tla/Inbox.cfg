SPECIFICATION FairSpec
CONSTANTS
    external = external
    message = message
    result = result
    Messages <- AllMessages
    Foldable <- FoldedMessages
    Prompts <- PromptMessages
    Limit = 3
    MaxSends = 3
    MaxFaults = 2
INVARIANTS NothingLost AcceptedOnce StartedOncePerFault
PROPERTIES ImplementsMessageLife OnlyRefusalForgets AcceptedIsAcked
CHECK_DEADLOCK FALSE
