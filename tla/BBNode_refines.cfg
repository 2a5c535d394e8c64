\* Clients that do not rename onto existing names, nor rename, unlink or
\* flush files held open, nor set times; by-name truncate and failing opens
\* allowed.  One descriptor, so EMFILE happens with two handles.
CONSTANTS
    p1 = p1  p2 = p2  h1 = h1  h2 = h2  i1 = i1  i2 = i2  i3 = i3  i4 = i4
    Paths <- MCPaths
    Handles <- MCHandles
    Inos <- MCInos
    MaxFd = 1
    MaxTime = 1
    MaxWrites = 2
    Absent = Absent  NoHandle = NoHandle  Closed = Closed
    NoIno = NoIno  Orphan = Orphan
    RenameOntoExisting = FALSE
    RenameOpenFiles = FALSE
    UnlinkOpenFiles = FALSE
    FlushOpenFiles = FALSE
    SetTimes = FALSE
    TruncateByName = TRUE
    OpenMayFail = TRUE
SYMMETRY MCSymmetry
INIT Init
NEXT Next
INVARIANT TypeOK
PROPERTY RefinesAbstractFS
