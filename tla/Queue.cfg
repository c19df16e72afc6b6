SPECIFICATION Spec
CONSTANTS
    Payloads = {m1,m2}
    NoPayload = NoPayload
    Sizes = {1,2}
    Threshold = 2
    MaxLive = 4
INVARIANTS
    MemoryBounded
PROPERTIES
    FifoSpec
CHECK_DEADLOCK FALSE
