SPECIFICATION FairSpec
CONSTANTS
    Requests = {r1, r2}
    Periodic = periodic
    Providers = {gitlab}
    Free = free
    Period = 1
    AccessLifetimes = {5}
    RefreshLifetimes = {5}
    GitLifetimes = {2, 4}
    OtherAccess = {"empty"}
    OtherRefresh = {"empty"}
    MaxTime = 1
    Prompt = FALSE
    MaxFailedTicks = 1
INVARIANTS
    TypeOK
    NoConcurrentRefresh
    SentTokenIsStored
    RefreshTokenNeverLost
    ReturnedTokenUsable
PROPERTY
    CallsEnd
