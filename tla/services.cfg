SPECIFICATION Spec
CONSTANTS
    None = None
    Nothing = Nothing
    Calls = {c1, c2}
    Api = api
    MaxCommits = 1
    Root = "root"
    Parent <- MCParent
    MaxEvents = 3
    Configs <- MCConfigs
    Urls <- MCUrls
    Namespaces = {n1, n2}
    Servers = {s1, s2, s3}
    Limit = 2
    Containers <- MCContainers
    Inits <- MCInits
    Codes <- MCCodes
    IdleSeconds = 2
    MaxAgeSeconds = 4
    HibernatedSeconds = 2
    WarningSeconds = 1
    MaxTime = 5
CHECK_DEADLOCK FALSE
INVARIANTS
     DiscardLeavesNothing WatchesComplete
     HealthyMeansServing ListsComplete
    MigratedWhenDone FailureExplained
PROPERTIES
     StartsOrStops 
