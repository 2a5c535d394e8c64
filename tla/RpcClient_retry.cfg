CONSTANTS
    FuseThreads = {t1}
    RAs = {ra1}
    NoThread = none
    Ops <- MCStatOps
    FleetSize = 2
    MaxCalls = 1
    MaxFaults = 3
    RemoteErrors = FALSE
    RetryMax = 3
    MaxSiblings = 1
    MaxFds = 1
    HostsAreIPv4 = TRUE
SPECIFICATION Spec
INVARIANT RetryBound
