SPECIFICATION Spec
CONSTANTS
    Requests = {r1}
    Follows = {}
    Lists = {l1}
    Pings = {p1,p2}
    Subs = {}
    NoID = NoID
    MaxPending = 2
    MaxRetirement = 1
    MaxSubscriptions = 2
    MaxLists = 1
    MaxSubscriptionBytes = 4
    MaxListBytes = 4
    ObservedBytes = 1
    RetirementLifetime = 1
    Sizes = {1}
    MaxTime = 1
    CountedLists = {}
    s1 = s1
    s2 = s2
    Names <- MCNames
    FollowEvents <- MCFollowEvents
    FollowCompletions <- MCFollowCompletions
    ListCompletions <- MCListCompletions
    SubNames <- MCSubNames
    SubCaps <- MCCaps
    FollowCaps <- MCCaps
    ListCaps <- MCSmallCaps
    Counts <- MCAbsent
INVARIANTS
    SlotIffOutstanding
    LateResponseHasHome
PROPERTIES
    AccountSpec
SYMMETRY MCPings
CHECK_DEADLOCK FALSE
