SPECIFICATION CarefulSpec
CONSTANTS
    set1 = set1
    nft1 = nft1
    rule1 = rule1
    route1 = route1
    a = a
    b = b
    NotListed = NotListed
    Resource = {set1, rule1}
    Value = {a, b}
    EmptySet = a
    KindOf <- MCKindOf
    Request <- RuleOnly
    MaxPlans = 2
    AskedTimeout = {0}
    DefaultTimeout = 1
    MinTimeout = 1
    MaxTimeout = 1
    MaxTime = 1
    MaxFaults = 1
    MaxCrashes = 0
PROPERTIES
    RevertSurfacesErrors
CHECK_DEADLOCK FALSE
