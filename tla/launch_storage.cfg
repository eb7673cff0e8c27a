SPECIFICATION Spec
CONSTANTS
    gitlabRegistry = gitlabRegistry
    docker = docker
    gitlab = gitlab
    github = github
    Giga = 4
    Nothing = Nothing
    NoPriority = Nothing
    MountVariable <- MountVariables
    NoProvider = NoProvider
    NoPod = NoPod
    SshEnabled = TRUE
    HostKey = TRUE
    Hosts = {gitlabRegistry, docker}
    GitlabRegistry = gitlabRegistry
    DefaultHost = docker
    PoolLists <- Pools
    StorageSizes = {0, 1, 3, 4, 9}
    OldRequests <- OldRequestsInBytes
    PathNames = {"home", "work", "project", "data", "data2", "raw"}
    Targets <- MountTargets
    MaxStorages = 2
    NamePrefix <- NamePrefixes
    InternalGitlab = gitlab
    GitHosts = {gitlab, github}
    MaxRepositories = 2
    UserEnvs <- Envs
INVARIANT StorageReachesGitClone
CHECK_DEADLOCK FALSE
