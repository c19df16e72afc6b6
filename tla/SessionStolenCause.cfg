SPECIFICATION SessionSpec
CONSTANTS
    Requests = {r1}
    Follows = {}
    Lists = {}
    Pings = {}
    Subs = {}
    NoID = NoID
    Nobody = Nobody
    MaxPending = 2
    MaxRetirement = 2
    MaxSubscriptions = 1
    MaxLists = 1
    MaxSubscriptionBytes = 2
    MaxListBytes = 2
    ObservedBytes = 2
    RetirementLifetime = 1
    Sizes = {1}
    MaxTime = 1
    CountedLists = {}
    Names <- MCNames
    FollowEvents <- MCFollowEvents
    FollowCompletions <- MCFollowCompletions
    ListCompletions <- MCListCompletions
    SubNames <- MCSubNames
    SubCaps <- MCCaps
    FollowCaps <- MCCaps
    ListCaps <- MCCaps
    Counts <- MCCounts
INVARIANTS
    CauseNotStolen
CHECK_DEADLOCK FALSE
