SPECIFICATION FairSpec
CONSTANTS
    set1 = set1
    nft1 = nft1
    rule1 = rule1
    route1 = route1
    a = a
    b = b
    NotListed = NotListed
    Resource = {rule1}
    Value = {a, b}
    EmptySet = a
    KindOf <- MCKindOf
    Request <- RuleOnly
    MaxPlans = 2
    AskedTimeout <- Unusual
    DefaultTimeout = 1
    MinTimeout = 1
    MaxTimeout = 2
    MaxTime = 1
    MaxFaults = 0
    MaxCrashes = 1
PROPERTIES
    ProbationEnds
CHECK_DEADLOCK FALSE
