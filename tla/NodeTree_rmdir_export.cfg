\* One node, names {a, b} to depth 2, one restart of the server.
CONSTANTS
    Names = {a, b}
    MaxDepth = 2
    MaxRestarts = 1
SPECIFICATION Spec
INVARIANT ExporterAlive
