CONSTANTS
    FuseThreads = {t1}
    RAs = {ra1}
    NoThread = none
    Ops <- MCFileBranchOps
    FleetSize = 2
    MaxCalls = 1
    MaxFaults = 0
    RemoteErrors = FALSE
    RetryMax = 3
    MaxSiblings = 1
    MaxFds = 1
    HostsAreIPv4 = TRUE
SPECIFICATION Spec
INVARIANT DomainErrorReturned
