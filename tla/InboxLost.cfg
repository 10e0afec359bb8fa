SPECIFICATION Spec
CONSTANTS
    external = external
    message = message
    result = result
    Messages <- AllMessages
    Foldable <- FoldedMessages
    Prompts <- PromptMessages
    Limit = 2
    MaxSends = 3
    MaxFaults = 1
INVARIANTS NothingLost
CHECK_DEADLOCK FALSE
