CONSTANTS
    s1 = s1
    s2 = s2
    v1 = v1
    v2 = v2
    staging = staging
    production = production
    Sessions <- TwoSessions
    Versions <- TwoVersions
    Environments <- TwoEnvironments
    MaxDeployments = 3
    MaxTime = 4
    MaxResults = 1
SPECIFICATION VersionSpec
INVARIANTS OneProduction OnlyPromotedInProduction
PROPERTIES StaysInProduction
SYMMETRY Symmetry
CHECK_DEADLOCK FALSE
