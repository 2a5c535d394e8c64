\* Write-back liveness: one file, one handle, the exporter's sweeps weakly
\* fair, an otherwise disciplined client.  No symmetry (liveness).
CONSTANTS
    p1 = p1  p2 = p2  h1 = h1  h2 = h2  i1 = i1  i2 = i2  i3 = i3  i4 = i4
    Paths <- MCPaths1
    Handles <- MCHandles1
    Inos <- MCInos2
    MaxFd = 1
    MaxTime = 1
    MaxWrites = 1
    Absent = Absent  NoHandle = NoHandle  Closed = Closed
    NoIno = NoIno  Orphan = Orphan
    RenameOntoExisting = FALSE
    RenameOpenFiles = FALSE
    UnlinkOpenFiles = FALSE
    FlushOpenFiles = FALSE
    SetTimes = FALSE
    TruncateByName = FALSE
    OpenMayFail = FALSE
SPECIFICATION FairSpec
PROPERTY ExportEventually
