SPECIFICATION FairSpec
CONSTANTS
    Lines <- MCLines
    MaxChunk = 1
    MaxReceived = 3
    MaxFields = 2
    MaxMessageBytes = 2
    MaxCommandOutputLines = 1
    MaxCommandOutputBytes = 1
INVARIANTS
    OpenIsUsable
    DeadlineExact
    AgeBlamedRightly
PROPERTIES
    LinkSpec
    OperationsEnd
CHECK_DEADLOCK FALSE
