SPECIFICATION Spec
CONSTANTS
    Requests = {}
    Follows = {f1}
    Lists = {}
    Pings = {}
    Subs = {s1,s2}
    NoID = NoID
    MaxPending = 2
    MaxRetirement = 2
    MaxSubscriptions = 2
    MaxLists = 1
    MaxSubscriptionBytes = 3
    MaxListBytes = 4
    ObservedBytes = 4
    RetirementLifetime = 1
    Sizes = {1,2}
    MaxTime = 1
    CountedLists = {}
    s1 = s1
    s2 = s2
    Names <- MCNames
    FollowEvents <- MCFollowEvents
    FollowCompletions <- MCFollowCompletions
    ListCompletions <- MCListCompletions
    SubNames <- MCSubNames
    SubCaps <- MCSmallCaps
    FollowCaps <- MCCaps
    ListCaps <- MCCaps
    Counts <- MCAbsent
INVARIANTS
    Aggregates
    RoutingIndexes
PROPERTIES
    QuarantineHolds
CHECK_DEADLOCK FALSE
