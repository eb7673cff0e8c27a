SPECIFICATION FairSpec
CONSTANTS
    Requests = {r1, r2}
    Users = {alice, bob}
    Names = {session}
    alice = alice
    bob = bob
    session = session
    Classes = {small, big}
    small = small
    big = big
    NoClass = none
    Old = old
    NoServer = NoServer
    Failed = Failed
    Owner <- OwnerAlice
    Calls <- AllCalls
    HasSessionNs = TRUE
    NumSecrets = 2
    NumRetries = 2
    Faults = TRUE
    MaxLag = 1
INVARIANTS
    TypeOK
    OneServerPerName
    AnswersOwnServer
    LaunchedWithSecrets
    PreferredRunsWithTokens
PROPERTIES
    OwnServersOnly
    KeepsPromise
    
