SPECIFICATION Spec
CONSTANTS
    Requests = {r1}
    Periodic = periodic
    Providers = {gitlab}
    Free = free
    Period = 2
    AccessLifetimes = {9}
    RefreshLifetimes = {9, 12}
    GitLifetimes = {9}
    OtherAccess = {}
    OtherRefresh = {"noexp", "empty"}
    MaxTime = 16
    Prompt = TRUE
    MaxFailedTicks = 2
INVARIANT
    RefreshTokenAlive
