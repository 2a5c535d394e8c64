CONSTANTS
    FuseThreads = {t1, t2}
    RAs = {ra1, ra2}
    NoThread = none
    Ops <- MCAllOps
    FleetSize = 2
    MaxCalls = 1
    MaxFaults = 1
    RemoteErrors = TRUE
    RetryMax = 3
    MaxSiblings = 2
    MaxFds = 1
    HostsAreIPv4 = TRUE
SPECIFICATION Spec
INVARIANT HandleRoutesToOpener
