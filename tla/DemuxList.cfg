SPECIFICATION Spec
CONSTANTS
    Requests = {}
    Follows = {}
    Lists = {l1}
    Pings = {}
    Subs = {s1}
    NoID = NoID
    MaxPending = 2
    MaxRetirement = 2
    MaxSubscriptions = 2
    MaxLists = 1
    MaxSubscriptionBytes = 2
    MaxListBytes = 4
    ObservedBytes = 4
    RetirementLifetime = 1
    Sizes = {1,2}
    MaxTime = 2
    CountedLists = {l1}
    s1 = s1
    s2 = s2
    Names <- MCNames
    FollowEvents <- MCFollowEvents
    FollowCompletions <- MCFollowCompletions
    ListCompletions <- MCListCompletions
    SubNames <- MCSubNames
    SubCaps <- MCSmallCaps
    FollowCaps <- MCCaps
    ListCaps <- MCCaps
    Counts <- MCCounts
INVARIANTS
    RecordsWaitForTheMissing
    CompletionHonest
    Correlation
    NoLostWakeup
PROPERTIES
    FullLifetime
    BranchSpec
CHECK_DEADLOCK FALSE
