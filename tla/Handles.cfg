SPECIFICATION FairHandlesSpec
CONSTANTS
    Messages = {1, 2}
    Reasons <- MCReasons
    Consumers = {c1, c2}
    MaxSent = 3
INVARIANTS
    OneConsumer
    InOrder
    EofHonest
    CompletionKept
PROPERTIES
    WaitersReturn
CHECK_DEADLOCK FALSE
