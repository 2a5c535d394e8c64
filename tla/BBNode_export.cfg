\* Export coverage: descriptors for every handle (no EMFILE), opens that do
\* not fail, no by-name truncate; clients may set times.
CONSTANTS
    p1 = p1  p2 = p2  h1 = h1  h2 = h2  i1 = i1  i2 = i2  i3 = i3  i4 = i4
    Paths <- MCPaths
    Handles <- MCHandles
    Inos <- MCInos4
    MaxFd = 2
    MaxTime = 1
    MaxWrites = 2
    Absent = Absent  NoHandle = NoHandle  Closed = Closed
    NoIno = NoIno  Orphan = Orphan
    RenameOntoExisting = FALSE
    RenameOpenFiles = FALSE
    UnlinkOpenFiles = FALSE
    FlushOpenFiles = FALSE
    SetTimes = TRUE
    TruncateByName = FALSE
    OpenMayFail = FALSE
SYMMETRY MCSymmetry
INIT Init
NEXT Next
INVARIANT ExportCoverage
INVARIANT TableTracksDescriptors
