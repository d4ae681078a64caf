SPECIFICATION CarefulSpec
CONSTANTS
    set1 = set1
    nft1 = nft1
    rule1 = rule1
    route1 = route1
    a = a
    b = b
    NotListed = NotListed
    Resource = {set1, nft1, rule1, route1}
    Value = {a, b}
    EmptySet = a
    KindOf <- MCKindOf
    Request <- AllKinds
    MaxPlans = 1
    AskedTimeout = {0}
    DefaultTimeout = 1
    MinTimeout = 1
    MaxTimeout = 1
    MaxTime = 1
    MaxFaults = 1
    MaxCrashes = 1
PROPERTIES
    FailedApplyRollsBack
CHECK_DEADLOCK FALSE
