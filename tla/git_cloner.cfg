SPECIFICATION Spec
CONSTANTS
    NumRepos = 2
    Faults = TRUE
INVARIANTS
    TypeOK
    CredentialsCleanedUp
    NoStartAfterError
    ClonedOrExplained
    
PROPERTIES
    SameErrorAfterRestart
    
