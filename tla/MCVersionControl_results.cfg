CONSTANTS
    s1 = s1
    s2 = s2
    v1 = v1
    v2 = v2
    staging = staging
    production = production
    Sessions <- OneSession
    Versions <- TwoVersions
    Environments <- TwoEnvironments
    MaxDeployments = 3
    MaxTime = 4
    MaxResults = 2
SPECIFICATION VersionSpec
PROPERTIES ResultsRecorded
CHECK_DEADLOCK FALSE
