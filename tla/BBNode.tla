------------------------------- MODULE BBNode -------------------------------
(***************************************************************************)
(* One burst-buffer server node (cbb/burst_buffer.cc) with the two objects *)
(* it owns: MetaDataManager (cbb/meta_data_manager.cc, the local and       *)
(* secondary tiers and the open-descriptor table table_) and               *)
(* LocalFileExporter (cbb/local_file_exporter.cc, the export registry      *)
(* local_files_ and the write-back sweep CheckLocalFiles).                 *)
(*                                                                         *)
(* The namespace is flat: a path names a regular file (directories are the *)
(* subject of another module).  The local tier is an inode file system: a *)
(* path links an inode, a server descriptor refers to an inode, so a       *)
(* descriptor outlives the unlink or rename of its name.  The secondary    *)
(* tier holds only contents, since the server never opens it.  A content   *)
(* is a version number; a modification time is a whole second, as time_t  *)
(* in boost::filesystem::last_write_time.                                  *)
(*                                                                         *)
(* Each RPC handler is one atomic step.  A handler that calls              *)
(* LocalFileExporter::Register/Unregister takes the exporter mutex_; it is *)
(* enabled only while no sweep holds it.  The sweep runs one registry      *)
(* entry per step, so handlers that do not take the mutex (writes, reads,  *)
(* FilePrevRead, read-only opens) interleave with it as they do in the    *)
(* server's thread pool.                                                   *)
(***************************************************************************)
EXTENDS Naturals, FiniteSets

CONSTANTS
    Paths,        \* file names
    Handles,      \* client File objects (fuse_file_info of every client)
    Inos,         \* local inode numbers (model values)
    MaxFd,        \* descriptors the server process may hold (RLIMIT_NOFILE)
    MaxTime,      \* last second of the clock
    MaxWrites,    \* number of content-changing calls in a behaviour
    Absent, NoHandle, Closed, NoIno, Orphan

\* Behaviour of the clients (and applications) towards the node.
CONSTANTS
    RenameOntoExisting,  \* rename(2) onto a name that exists
    RenameOpenFiles,     \* rename(2) of a file some client holds open
    UnlinkOpenFiles,     \* unlink(2) of a file some client holds open
    FlushOpenFiles,      \* FileFlush RPC on a file some client holds open
    SetTimes,            \* utimensat(2) to an arbitrary time (tar, cp -p)
    TruncateByName,      \* truncate(2) by name, without open
    OpenMayFail          \* open(2) may fail for reasons other than EMFILE

ASSUME Cardinality(Inos) >= Cardinality(Paths) + MaxFd

Fds == 1..MaxFd
Times == 0..MaxTime
EmptyVer == 0                   \* content of a freshly created file
InitVer == 1                    \* content present when the node starts
Versions == 0..(MaxWrites + 1)  \* writes produce 2, 3, ...
Flags == {"RDONLY", "WRONLY", "RDWR"}

VARIABLES
    lfile,     \* local root: path -> linked inode, or NoIno
    idata,     \* local inodes: ino -> [ver, mtime]
    sfile,     \* secondary root: path -> [ver, mtime], or Absent
    fds,       \* the server's descriptors: fd -> [ino, wr], or Closed
    table,     \* MetaDataManager::table_: path -> set of fds
    handles,   \* client File: h -> [path, fd, wr] (fd_org), or NoHandle
    registry,  \* LocalFileExporter::local_files_ (its keys)
    sweep,     \* "idle", or "running" while CheckLocalFiles holds mutex_
    todo,      \* entries the running sweep has not visited yet
    erase,     \* CheckLocalFiles' erase_filename
    now,       \* time(NULL), in seconds
    nextVer    \* the version the next content change produces

vars == <<lfile, idata, sfile, fds, table, handles, registry, sweep, todo,
          erase, now, nextVer>>

-----------------------------------------------------------------------------
(* MetaDataManager path helpers (meta_data_manager.h). *)
exists_on_local(p) == lfile[p] # NoIno
exists_on_secondary(p) == sfile[p] # Absent

\* The content target_path(p) resolves to: local if present, else secondary.
Visible(p) ==
    IF exists_on_local(p) THEN idata[lfile[p]].ver
    ELSE IF exists_on_secondary(p) THEN sfile[p].ver
    ELSE Absent

\* Some client holds a handle opened on p.
HeldOpen(p) == \E h \in Handles : handles[h] # NoHandle /\ handles[h].path = p

LockFree == sweep = "idle"

\* open(2) returns the lowest free descriptor.
FreeFds == {f \in Fds : fds[f] = Closed}
LowestFree == CHOOSE f \in FreeFds : \A g \in FreeFds : f <= g

\* An inode is free when no name links it and no descriptor refers to it.
FreeInos == Inos \ ({lfile[p] : p \in Paths} \cup
                    {fds[f].ino : f \in Fds \ FreeFds})
NewIno == CHOOSE i \in FreeInos : TRUE

(***************************************************************************)
(* MetaDataManager::CopySecondaryToLocal, as the pair of local-tier        *)
(* functions it leaves.  Nothing is copied when the secondary file is      *)
(* absent or its mtime is not later than the local one's; otherwise       *)
(* copy_file(overwrite_if_exists) rewrites the local inode in place, or    *)
(* creates it, and the copy's mtime is the time of the copy.               *)
(***************************************************************************)
\* Fault variant: a strict mtime comparison, copying on equal seconds.
CopySecondaryToLocalStrict(p) ==
    IF ~exists_on_secondary(p)
       \/ (exists_on_local(p) /\ sfile[p].mtime < idata[lfile[p]].mtime)
    THEN [lf |-> lfile, id |-> idata]
    ELSE LET ino == IF exists_on_local(p) THEN lfile[p] ELSE NewIno
         IN  [lf |-> [lfile EXCEPT ![p] = ino],
              id |-> [idata EXCEPT ![ino] = [ver |-> sfile[p].ver, mtime |-> now]]]

CopySecondaryToLocal(p) ==
    IF ~exists_on_secondary(p)
       \/ (exists_on_local(p) /\ sfile[p].mtime <= idata[lfile[p]].mtime)
    THEN [lf |-> lfile, id |-> idata]
    ELSE LET ino == IF exists_on_local(p) THEN lfile[p] ELSE NewIno
         IN  [lf |-> [lfile EXCEPT ![p] = ino],
              id |-> [idata EXCEPT ![ino] = [ver |-> sfile[p].ver, mtime |-> now]]]

\* MetaDataManager::Unregister(path): close every descriptor in table_[path]
\* and drop the entry.
CloseAll(p) == [f \in Fds |-> IF f \in table[p] THEN Closed ELSE fds[f]]

\* LocalFileExporter::SearchLocalFiles: every regular file of the local root.
SearchLocalFiles == {p \in Paths : lfile[p] # NoIno}

\* MetaDataManager::Open's promotion: a path on secondary and not on local
\* is copied to local before open(2).
PromoteOnOpen(p) ==
    IF exists_on_secondary(p) /\ ~exists_on_local(p)
    THEN CopySecondaryToLocal(p)
    ELSE [lf |-> lfile, id |-> idata]

\* FileControl::Close: close(2) frees the descriptor number.
CloseFd(f) == [fds EXCEPT ![f] = Closed]

\* MetaDataManager::Register(path, fd): add the descriptor to table_[path].
RegisterFd(p, f) == [table EXCEPT ![p] = @ \cup {f}]

\* Fault variant: Unregister(path, fd) that leaves the descriptor listed.
UnregisterFdKept(p, f) == table

\* MetaDataManager::Unregister(path, fd): drop the descriptor from
\* table_[path]; an entry left empty is erased, which reads as empty here.
UnregisterFd(p, f) == [table EXCEPT ![p] = @ \ {f}]

\* MetaDataManager::Close(path, fd): close(2) the number, then drop it from
\* table_[path], as the pair of the two tables it leaves.
Close(p, f) == [fd |-> CloseFd(f), tb |-> UnregisterFd(p, f)]

\* LocalFileExporter::Register(path): record the path under mutex_ when its
\* local file exists at the time of the check.
Register(p) == IF exists_on_local(p) THEN registry \cup {p} ELSE registry

\* LocalFileExporter::Unregister(path): erase the path under mutex_.
ExporterUnregister(p) == registry \ {p}

-----------------------------------------------------------------------------
(* Initial state: LocalFileExporter::Create scans the local root and       *)
(* registers every regular file (SearchLocalFiles); nothing is open.       *)
Init ==
    /\ sfile \in [Paths -> {Absent, [ver |-> InitVer, mtime |-> 0]}]
    /\ lfile \in {m \in [Paths -> Inos \cup {NoIno}] :
                    \A p, q \in Paths : p # q /\ m[p] # NoIno => m[p] # m[q]}
    /\ idata = [i \in Inos |-> [ver |-> InitVer, mtime |-> 0]]
    /\ fds = [f \in Fds |-> Closed]
    /\ table = [p \in Paths |-> {}]
    /\ handles = [h \in Handles |-> NoHandle]
    /\ registry = SearchLocalFiles
    /\ sweep = "idle" /\ todo = {} /\ erase = {}
    /\ now = 0
    /\ nextVer = 2

(***************************************************************************)
(* BurstBuffer::Open + MetaDataManager::Open, called by the client after   *)
(* the kernel looked the name up.  `flags & (O_WRONLY | O_RDWR) != 0`      *)
(* parses as `flags & 1`: only O_WRONLY unregisters the path.  A path     *)
(* found only on secondary is promoted to local before open(2), and the   *)
(* promotion stays when open(2) then fails (EMFILE, or EACCES etc.).       *)
(***************************************************************************)
Open(h, p, flag) ==
    LET wr    == flag # "RDONLY"
        unreg == flag = "WRONLY"
        cp    == PromoteOnOpen(p)
    IN
    /\ handles[h] = NoHandle
    /\ Visible(p) # Absent
    /\ unreg => LockFree
    /\ registry' = IF unreg THEN ExporterUnregister(p) ELSE registry
    /\ lfile' = cp.lf
    /\ idata' = cp.id
    /\ \/ /\ FreeFds # {}
          /\ fds' = [fds EXCEPT ![LowestFree] = [ino |-> cp.lf[p], wr |-> wr]]
          /\ table' = RegisterFd(p, LowestFree)
          /\ handles' = [handles EXCEPT ![h] =
                            [path |-> p, fd |-> LowestFree, wr |-> wr]]
       \/ /\ FreeFds = {} \/ OpenMayFail
          /\ UNCHANGED <<fds, table, handles>>
    /\ UNCHANGED <<sfile, sweep, todo, erase, now, nextVer>>

(***************************************************************************)
(* BurstBuffer::Create + MetaDataManager::Create: unregister, then        *)
(* open(local, O_CREAT) and register the descriptor.  The kernel calls     *)
(* create only for a name its lookup did not find.                         *)
(***************************************************************************)
Create(h, p) ==
    /\ handles[h] = NoHandle
    /\ Visible(p) = Absent
    /\ LockFree
    /\ registry' = ExporterUnregister(p)
    /\ \/ /\ FreeFds # {}
          /\ lfile' = [lfile EXCEPT ![p] = NewIno]
          /\ idata' = [idata EXCEPT ![NewIno] = [ver |-> EmptyVer, mtime |-> now]]
          /\ fds' = [fds EXCEPT ![LowestFree] = [ino |-> NewIno, wr |-> TRUE]]
          /\ table' = RegisterFd(p, LowestFree)
          /\ handles' = [handles EXCEPT ![h] =
                            [path |-> p, fd |-> LowestFree, wr |-> TRUE]]
       \/ /\ FreeFds = {}
          /\ UNCHANGED <<lfile, idata, fds, table, handles>>
    /\ UNCHANGED <<sfile, sweep, todo, erase, now, nextVer>>

(***************************************************************************)
(* pwrite(2) or ftruncate(2) on the descriptor number the client holds     *)
(* (MetaDataManager::Write, FTruncate).  The server does not check that    *)
(* the number still belongs to the client's file: it changes whatever     *)
(* inode that descriptor refers to now, or fails with EBADF.               *)
(***************************************************************************)
ModifyViaFd(h) ==
    /\ handles[h] # NoHandle
    /\ handles[h].wr
    /\ nextVer <= MaxWrites + 1
    /\ LET f == handles[h].fd
       IN  IF fds[f] # Closed /\ fds[f].wr
           THEN /\ idata' = [idata EXCEPT ![fds[f].ino] =
                                [ver |-> nextVer, mtime |-> now]]
                /\ nextVer' = nextVer + 1
           ELSE UNCHANGED <<idata, nextVer>>
    /\ UNCHANGED <<lfile, sfile, fds, table, handles, registry, sweep, todo,
                   erase, now>>

Write(h) == ModifyViaFd(h)

FTruncate(h) == ModifyViaFd(h)

\* MetaDataManager::Truncate: truncate(2) on target_path, which is the
\* secondary file itself when the path is not local.
Truncate(p) ==
    /\ TruncateByName
    /\ Visible(p) # Absent
    /\ nextVer <= MaxWrites + 1
    /\ IF exists_on_local(p)
       THEN /\ idata' = [idata EXCEPT ![lfile[p]] = [ver |-> nextVer, mtime |-> now]]
            /\ UNCHANGED sfile
       ELSE /\ sfile' = [sfile EXCEPT ![p] = [ver |-> nextVer, mtime |-> now]]
            /\ UNCHANGED idata
    /\ nextVer' = nextVer + 1
    /\ UNCHANGED <<lfile, fds, table, handles, registry, sweep, todo, erase, now>>

\* MetaDataManager::Utimens: utimes(2) on target_path only.
Utimens(p, t) ==
    /\ SetTimes
    /\ Visible(p) # Absent
    /\ IF exists_on_local(p)
       THEN /\ idata' = [idata EXCEPT ![lfile[p]].mtime = t]
            /\ UNCHANGED sfile
       ELSE /\ sfile' = [sfile EXCEPT ![p].mtime = t]
            /\ UNCHANGED idata
    /\ UNCHANGED <<lfile, fds, table, handles, registry, sweep, todo, erase,
                   now, nextVer>>

(***************************************************************************)
(* BurstBuffer::Release: MetaDataManager::Close (close(2) on the number,   *)
(* erase it from table_[path]) then LocalFileExporter::Register(path),     *)
(* which registers the path if its local file exists.  The path is the    *)
(* one the client opened, whatever happened to the name since.             *)
(***************************************************************************)
\* Fault variant: Release that closes without registering the path.
ReleaseNoRegister(h) ==
    /\ handles[h] # NoHandle
    /\ LockFree
    /\ LET p == handles[h].path
           f == handles[h].fd
       IN  /\ fds' = Close(p, f).fd
           /\ table' = Close(p, f).tb
    /\ handles' = [handles EXCEPT ![h] = NoHandle]
    /\ UNCHANGED <<lfile, idata, sfile, registry, sweep, todo, erase, now, nextVer>>

Release(h) ==
    /\ handles[h] # NoHandle
    /\ LockFree
    /\ LET p == handles[h].path
           f == handles[h].fd
       IN  /\ fds' = Close(p, f).fd
           /\ table' = Close(p, f).tb
           /\ registry' = Register(p)
    /\ handles' = [handles EXCEPT ![h] = NoHandle]
    /\ UNCHANGED <<lfile, idata, sfile, sweep, todo, erase, now, nextVer>>

(***************************************************************************)
(* BurstBuffer::Unlink: when the local file exists, unregister it from the *)
(* exporter, force-close its descriptors (MetaDataManager::Unregister) and *)
(* unlink it; then unlink the secondary file if it exists.                 *)
(***************************************************************************)
\* Fault variant: Unlink whose exporter Unregister skips mutex_.
UnlinkUnlocked(p) ==
    /\ Visible(p) # Absent
    /\ UnlinkOpenFiles \/ ~HeldOpen(p)
    /\ IF exists_on_local(p)
       THEN /\ registry' = ExporterUnregister(p)
            /\ fds' = CloseAll(p)
            /\ table' = [table EXCEPT ![p] = {}]
            /\ lfile' = [lfile EXCEPT ![p] = NoIno]
       ELSE UNCHANGED <<registry, fds, table, lfile>>
    /\ sfile' = [sfile EXCEPT ![p] = Absent]
    /\ UNCHANGED <<idata, handles, sweep, todo, erase, now, nextVer>>

Unlink(p) ==
    /\ Visible(p) # Absent
    /\ UnlinkOpenFiles \/ ~HeldOpen(p)
    /\ IF exists_on_local(p)
       THEN /\ LockFree
            /\ registry' = ExporterUnregister(p)
            /\ fds' = CloseAll(p)
            /\ table' = [table EXCEPT ![p] = {}]
            /\ lfile' = [lfile EXCEPT ![p] = NoIno]
       ELSE UNCHANGED <<registry, fds, table, lfile>>
    /\ sfile' = [sfile EXCEPT ![p] = Absent]
    /\ UNCHANGED <<idata, handles, sweep, todo, erase, now, nextVer>>

(***************************************************************************)
(* BurstBuffer::Rename, file branch.  A local file is unregistered, the    *)
(* secondary old name removed, the local file copied to the secondary new  *)
(* name with copy_file's default fail_if_exists (the copy fails when the   *)
(* new name exists there), and the local file removed whether or not the  *)
(* copy succeeded.  A secondary-only file is rename(2)d on secondary.      *)
(* Neither branch touches table_: descriptors stay under the old name.     *)
(***************************************************************************)
Rename(p, q) ==
    /\ p # q
    /\ Visible(p) # Absent
    /\ RenameOntoExisting \/ Visible(q) = Absent
    /\ RenameOpenFiles \/ ~HeldOpen(p)
    /\ IF exists_on_local(p)
       THEN /\ LockFree
            /\ registry' = ExporterUnregister(p)
            /\ sfile' = [sfile EXCEPT
                            ![p] = Absent,
                            ![q] = IF sfile[q] = Absent
                                   THEN [ver |-> idata[lfile[p]].ver, mtime |-> now]
                                   ELSE sfile[q]]
            /\ lfile' = [lfile EXCEPT ![p] = NoIno]
       ELSE /\ sfile' = [sfile EXCEPT ![q] = sfile[p], ![p] = Absent]
            /\ UNCHANGED <<registry, lfile>>
    /\ UNCHANGED <<idata, fds, table, handles, sweep, todo, erase, now, nextVer>>

\* BurstBuffer::FilePrevRead: the read-ahead's CopySecondaryToLocal, with no
\* check that the path is absent locally.
FilePrevRead(p) ==
    /\ exists_on_secondary(p)
    /\ lfile' = CopySecondaryToLocal(p).lf
    /\ idata' = CopySecondaryToLocal(p).id
    /\ UNCHANGED <<sfile, fds, table, handles, registry, sweep, todo, erase,
                   now, nextVer>>

\* BurstBuffer::FileFlush: MetaDataManager::Unregister(path).
FileFlush(p) ==
    /\ FlushOpenFiles \/ ~HeldOpen(p)
    /\ fds' = CloseAll(p)
    /\ table' = [table EXCEPT ![p] = {}]
    /\ UNCHANGED <<lfile, idata, sfile, handles, registry, sweep, todo, erase,
                   now, nextVer>>

(***************************************************************************)
(* LocalFileExporter::CheckLocalFiles, run by the exporter thread every    *)
(* interval and by the LocalFileExport RPC: take mutex_, visit every       *)
(* registered path, collect the vanished ones, erase them, release mutex_. *)
(***************************************************************************)
SweepBegin ==
    /\ LockFree
    /\ sweep' = "running"
    /\ todo' = registry
    /\ erase' = {}
    /\ UNCHANGED <<lfile, idata, sfile, fds, table, handles, registry, now, nextVer>>

\* One entry: copy local to secondary unless secondary exists with an mtime
\* no earlier than the local one's; a vanished local file is collected.
SweepEntry(p) ==
    /\ sweep = "running"
    /\ p \in todo
    /\ todo' = todo \ {p}
    /\ IF exists_on_local(p)
       THEN /\ sfile' =
                 IF exists_on_secondary(p) /\ idata[lfile[p]].mtime <= sfile[p].mtime
                 THEN sfile
                 ELSE [sfile EXCEPT ![p] = [ver |-> idata[lfile[p]].ver, mtime |-> now]]
            /\ UNCHANGED erase
       ELSE /\ erase' = erase \cup {p}
            /\ UNCHANGED sfile
    /\ UNCHANGED <<lfile, idata, fds, table, handles, registry, sweep, now, nextVer>>

SweepEnd ==
    /\ sweep = "running"
    /\ todo = {}
    /\ registry' = registry \ erase
    /\ sweep' = "idle"
    /\ erase' = {}
    /\ UNCHANGED <<lfile, idata, sfile, fds, table, handles, todo, now, nextVer>>

\* The clock advances by whole seconds.
Tick ==
    /\ now < MaxTime
    /\ now' = now + 1
    /\ UNCHANGED <<lfile, idata, sfile, fds, table, handles, registry, sweep,
                   todo, erase, nextVer>>

Next ==
    \/ \E h \in Handles, p \in Paths, fl \in Flags : Open(h, p, fl)
    \/ \E h \in Handles, p \in Paths : Create(h, p)
    \/ \E h \in Handles : Write(h) \/ FTruncate(h) \/ Release(h)
    \/ \E p \in Paths : Truncate(p) \/ Unlink(p) \/ FilePrevRead(p) \/ FileFlush(p)
    \/ \E p \in Paths, t \in Times : Utimens(p, t)
    \/ \E p, q \in Paths : Rename(p, q)
    \/ SweepBegin \/ SweepEnd \/ \E p \in Paths : SweepEntry(p)
    \/ Tick

Spec == Init /\ [][Next]_vars

-----------------------------------------------------------------------------
(***************************************************************************)
(* Refinement mapping to AbstractFS.  A path's content is what             *)
(* target_path resolves to.  A client handle writes to its path while its *)
(* descriptor number still refers to the inode that path links; otherwise *)
(* it is an orphan.                                                        *)
(***************************************************************************)
Live(h) ==
    LET f == handles[h].fd
    IN  fds[f] # Closed /\ fds[f].ino = lfile[handles[h].path]

HPath(h) ==
    IF handles[h] = NoHandle THEN NoHandle
    ELSE IF Live(h) THEN handles[h].path
    ELSE Orphan

HWrite(h) == handles[h] # NoHandle /\ handles[h].wr

AFS == INSTANCE AbstractFS WITH
           content <- [p \in Paths |-> Visible(p)],
           hpath <- [h \in Handles |-> HPath(h)],
           hwrite <- [h \in Handles |-> HWrite(h)],
           next <- nextVer,
           Empty <- EmptyVer

TypeOK ==
    /\ lfile \in [Paths -> Inos \cup {NoIno}]
    /\ idata \in [Inos -> [ver : Versions, mtime : Times]]
    /\ sfile \in [Paths -> [ver : Versions, mtime : Times] \cup {Absent}]
    /\ fds \in [Fds -> [ino : Inos, wr : BOOLEAN] \cup {Closed}]
    /\ table \in [Paths -> SUBSET Fds]
    /\ handles \in [Handles -> [path : Paths, fd : Fds, wr : BOOLEAN] \cup {NoHandle}]
    /\ registry \subseteq Paths
    /\ sweep \in {"idle", "running"}
    /\ todo \subseteq registry /\ erase \subseteq registry
    /\ now \in Times
    /\ nextVer \in 2..(MaxWrites + 2)

(* The node implements the file store its clients are promised: what a     *)
(* name resolves to (local, else secondary) and where a handle's writes    *)
(* land change only as open, create, write, truncate, close, unlink and   *)
(* rename of a POSIX file system change them, through promotion on Open,   *)
(* the read-ahead's FilePrevRead, the exporter's copies and the lowest-   *)
(* free reuse of descriptor numbers.                                       *)
RefinesAbstractFS == AFS!ASpec

(* rename(2) moves the content: after BurstBuffer::Rename(p, q) the name q  *)
(* resolves (local, else secondary) to what p resolved to before, and p to *)
(* nothing, whatever the two tiers held under q.                           *)
RenameMovesContent ==
    [][\A p, q \in Paths :
          Rename(p, q) => /\ (Visible(q))' = Visible(p)
                          /\ (Visible(p))' = Absent]_vars

\* A local file whose content secondary does not hold.
Dirty(p) ==
    /\ exists_on_local(p)
    /\ \/ ~exists_on_secondary(p)
       \/ sfile[p].ver # idata[lfile[p]].ver

(***************************************************************************)
(* MetaDataManager's table_ lists exactly the descriptors clients hold     *)
(* open: f is under path p iff some client handle opened p and holds f,    *)
(* and f is then open in the server.  Unlink and FileFlush close every     *)
(* descriptor table_[p] lists, so an entry that outlived its Release       *)
(* would, once open(2) hands the number to another file, close that       *)
(* file under its client; Open and Create must list the number they got,   *)
(* and Release (MetaDataManager::Close) must drop the one it closes.       *)
(***************************************************************************)
TableTracksDescriptors ==
    \A p \in Paths, f \in Fds :
        f \in table[p] <=> /\ fds[f] # Closed
                          /\ \E h \in Handles : /\ handles[h] # NoHandle
                                                /\ handles[h].path = p
                                                /\ handles[h].fd = f

(* Every local file that secondary does not hold yet and that no client    *)
(* holds open is in LocalFileExporter's registry, so a sweep will visit   *)
(* it: the unregistrations of Open(O_WRONLY), Create, Unlink and Rename    *)
(* are always followed by the Register of Release before the data can be  *)
(* left behind.                                                            *)
ExportCoverage ==
    \A p \in Paths : Dirty(p) /\ ~HeldOpen(p) => p \in registry

\* The exporter thread calls CheckLocalFiles every interval for ever.
FairSpec ==
    /\ Spec
    /\ WF_vars(SweepBegin)
    /\ \A p \in Paths : WF_vars(SweepEntry(p))
    /\ WF_vars(SweepEnd)

(* Write-back: a local file secondary does not hold, left closed, is        *)
(* eventually copied to secondary by the exporter's sweeps (unless a       *)
(* client opens it again), as the design's "drains modified local files   *)
(* on a timer" says.                                                       *)
ExportEventually ==
    \A p \in Paths :
        (Dirty(p) /\ ~HeldOpen(p)) ~> (~Dirty(p) \/ HeldOpen(p))
====
