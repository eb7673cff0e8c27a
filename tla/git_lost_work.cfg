SPECIFICATION Spec
CONSTANTS
    NumRepos = 2
    Faults = TRUE
PROPERTY
    WorkKept
