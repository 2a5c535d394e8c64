CONSTANTS
    Callers = {c1}
    MaxOps = 3
    Continue = TRUE
SPECIFICATION FairSpec
INVARIANTS
    AtMostOneWorker
PROPERTIES
    ReleaseReturns
