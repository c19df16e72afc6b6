SPECIFICATION Spec
CONSTANTS
    Lines <- MCLines
    MaxChunk = 2
    MaxReceived = 6
    MaxFields = 2
    MaxMessageBytes = 3
    MaxCommandOutputLines = 2
    MaxCommandOutputBytes = 3
INVARIANTS
    BudgetsExact
    FramesWhole
    NothingTorn
CHECK_DEADLOCK FALSE
