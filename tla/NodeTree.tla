------------------------------ MODULE NodeTree ------------------------------
(***************************************************************************)
(* One burst-buffer node's namespace as two directory trees, the local     *)
(* tier and the secondary tier (cbb/burst_buffer.cc, meta_data_manager.cc, *)
(* local_file_exporter.cc): the handlers that make and remove directories, *)
(* files and links on both tiers, the exporter's sweep that copies         *)
(* registered local files to secondary, and the node's restart.            *)
(*                                                                         *)
(* An entry is "none", "dir", "file" (a regular file of a client), "vlink" *)
(* (a virtual link: a regular file holding the target's path) or "link"   *)
(* (a symlink(2) to a directory).  File contents are abstracted to one     *)
(* fact: `fresh` holds the local files written since secondary last got   *)
(* a copy, which is what the sweep's mtime comparison decides on.  Each    *)
(* handler is one step; the sweep visits one entry per step, so handlers   *)
(* that do not take the exporter's mutex_ (MkDir, RmDir, Symlink, Link)    *)
(* interleave with it.                                                     *)
(***************************************************************************)
EXTENDS DirTrees, FiniteSets

CONSTANT MaxRestarts   \* restarts of the server process

ASSUME MaxRestarts \in Nat

Kinds == {"none", "dir", "file", "vlink", "link"}
Regular == {"file", "vlink"}

VARIABLES
    local,     \* the local tier
    second,    \* the secondary tier
    fresh,     \* local files newer than their secondary copy
    opened,    \* paths a client has created and not yet released
    registry,  \* LocalFileExporter::local_files_
    sweep,     \* who runs CheckLocalFiles: "idle", "thread" (timer), "rpc"
    todo,      \* registered paths the running sweep has still to visit
    erase,     \* erase_filename
    stuck,     \* mutex_ is locked by a sweep that will never unlock it
    crashed,   \* the server process has terminated
    restarts   \* restarts so far

vars == <<local, second, fresh, opened, registry, sweep, todo, erase, stuck,
          crashed, restarts>>

\* MetaDataManager::target_path: an entry resolves to local, else secondary.
Visible(p) == IF local[p] # "none" THEN local[p] ELSE second[p]

\* The FUSE kernel's lookup: p is absent and its directory is a directory.
Creatable(p) ==
    /\ Visible(p) = "none"
    /\ IF Len(p) = 1 THEN TRUE ELSE Visible(Parent(p)) = "dir"

\* A handler may enter mutex_ (LocalFileExporter::Register, Unregister).
LockFree == sweep = "idle" /\ ~stuck

Up == ~crashed

(***************************************************************************)
(* BurstBuffer::DuplicateDirSecondaryToLocal: walk secondary top-down and  *)
(* mkdir every directory local lacks; a mkdir under a local entry that is  *)
(* not a directory fails.                                                  *)
(***************************************************************************)
DuplicateDirSecondaryToLocal(l, s) ==
    [p \in Rel |->
        IF /\ l[p] = "none" /\ s[p] = "dir"
           /\ \A k \in 1..(Len(p) - 1) : l[SubSeq(p, 1, k)] \in {"none", "dir"}
        THEN "dir" ELSE l[p]]

\* LocalFileExporter::SearchLocalFiles: every regular file of the local root.
SearchLocalFiles(l) == {p \in Rel : l[p] \in Regular}

(***************************************************************************)
(* A freshly started node: secondary holds some tree (it outlives nodes),  *)
(* the BurstBuffer constructor has duplicated its directories on an empty  *)
(* local tier and the exporter has scanned local (which has no files).     *)
(***************************************************************************)
Init ==
    /\ second \in {t \in [Rel -> {"none", "dir", "file"}] : IsTree(t)}
    /\ local = DuplicateDirSecondaryToLocal(Empty, second)
    /\ registry = SearchLocalFiles(local)
    /\ fresh = {}
    /\ opened = {}
    /\ sweep = "idle"
    /\ todo = {}
    /\ erase = {}
    /\ stuck = FALSE
    /\ crashed = FALSE
    /\ restarts = 0

-----------------------------------------------------------------------------
(* BurstBuffer::MkDir: mkdir(2) on local unless the path exists there,     *)
(* then on secondary unless it exists there, ignoring secondary's error.   *)
(* mkdir fails (ENOENT) where the tier lacks the parent directory.         *)
MkDir(p) ==
    /\ Up
    /\ Creatable(p)
    /\ local' = IF InDir(local, p) THEN [local EXCEPT ![p] = "dir"] ELSE local
    /\ second' = IF second[p] = "none" /\ InDir(second, p)
                 THEN [second EXCEPT ![p] = "dir"] ELSE second
    /\ UNCHANGED <<fresh, opened, registry, sweep, todo, erase, stuck, crashed,
                   restarts>>

(***************************************************************************)
(* BurstBuffer::RmDir: rmdir(2) on local, whose result is the reply, then  *)
(* rmdir(2) on secondary if the path exists there, ignoring the result.    *)
(* Each rmdir succeeds only on an empty directory, so the two tiers may    *)
(* disagree: a directory empty on one tier goes from that tier alone.      *)
(***************************************************************************)
RmDirOn(t, p) ==
    IF t[p] = "dir" /\ Children(t, p) = {} THEN [t EXCEPT ![p] = "none"] ELSE t

RmDir(p) ==
    /\ Up
    /\ Visible(p) = "dir"
    /\ local' = RmDirOn(local, p)
    /\ second' = RmDirOn(second, p)
    /\ UNCHANGED <<fresh, opened, registry, sweep, todo, erase, stuck, crashed,
                   restarts>>

(***************************************************************************)
(* BurstBuffer::Create: LocalFileExporter::Unregister(path), then          *)
(* MetaDataManager::Create opens the local path with O_CREAT, which fails  *)
(* (ENOENT) when local lacks the directory.  The client then writes.       *)
(***************************************************************************)
Create(p) ==
    /\ Up
    /\ Creatable(p)
    /\ LockFree
    /\ registry' = registry \ {p}
    /\ IF InDir(local, p)
       THEN /\ local' = [local EXCEPT ![p] = "file"]
            /\ fresh' = fresh \cup {p}
            /\ opened' = opened \cup {p}
       ELSE UNCHANGED <<local, fresh, opened>>
    /\ UNCHANGED <<second, sweep, todo, erase, stuck, crashed, restarts>>

\* BurstBuffer::Release: Close, then LocalFileExporter::Register(path),
\* which records the path when its local file exists.
Release(p) ==
    /\ Up
    /\ p \in opened
    /\ LockFree
    /\ opened' = opened \ {p}
    /\ registry' = IF local[p] \in Regular THEN registry \cup {p} ELSE registry
    /\ UNCHANGED <<local, second, fresh, sweep, todo, erase, stuck, crashed,
                   restarts>>

\* BurstBuffer::Unlink: a local entry is unregistered and unlinked, then the
\* secondary one.  The kernel unlinks only what its lookup found.
Unlink(p) ==
    /\ Up
    /\ Visible(p) \in Regular \cup {"link"}
    /\ p \notin opened
    /\ IF local[p] # "none"
       THEN /\ LockFree
            /\ registry' = registry \ {p}
            /\ local' = [local EXCEPT ![p] = "none"]
       ELSE UNCHANGED <<registry, local>>
    /\ second' = [second EXCEPT ![p] = "none"]
    /\ fresh' = fresh \ {p}
    /\ UNCHANGED <<opened, sweep, todo, erase, stuck, crashed, restarts>>

\* write_one_line(local_path(q), target): an ofstream on local, which
\* writes nothing when local lacks the directory.  No Register.
VirtualLink(q) ==
    IF InDir(local, q) THEN [local EXCEPT ![q] = "vlink"] ELSE local

(***************************************************************************)
(* BurstBuffer::Symlink.  The client sends a virtual link name unless the  *)
(* target is a directory.  For a directory each tier that has it gets a    *)
(* symlink(2) at q, which fails where the tier lacks q's directory.        *)
(***************************************************************************)
Symlink(p, q) ==
    /\ Up
    /\ Creatable(q)
    /\ IF Visible(p) # "dir"
       THEN local' = VirtualLink(q) /\ UNCHANGED second
       ELSE /\ local' = IF local[p] = "dir" /\ InDir(local, q)
                        THEN [local EXCEPT ![q] = "link"] ELSE local
            /\ second' = IF second[p] = "dir" /\ InDir(second, q)
                         THEN [second EXCEPT ![q] = "link"] ELSE second
    /\ UNCHANGED <<fresh, opened, registry, sweep, todo, erase, stuck, crashed,
                   restarts>>

\* BurstBuffer::Link: a virtual link as for Symlink; for a directory,
\* link(2) fails (EPERM) on both tiers.
Link(p, q) ==
    /\ Up
    /\ Creatable(q)
    /\ local' = IF Visible(p) # "dir" THEN VirtualLink(q) ELSE local
    /\ UNCHANGED <<second, fresh, opened, registry, sweep, todo, erase, stuck,
                   crashed, restarts>>

-----------------------------------------------------------------------------
(***************************************************************************)
(* LocalFileExporter::CheckLocalFiles, from the exporter thread's          *)
(* ThreadCall or from the LocalFileExport RPC: lock mutex_, visit the      *)
(* registered paths, erase the vanished ones, unlock.                      *)
(***************************************************************************)
SweepBegin(by) ==
    /\ Up
    /\ LockFree
    /\ registry # {}
    /\ sweep' = by
    /\ todo' = registry
    /\ erase' = {}
    /\ UNCHANGED <<local, second, fresh, opened, registry, stuck, crashed,
                   restarts>>

\* copy_file(local, secondary, overwrite_if_exists) throws unless the source
\* is a regular file, secondary has the directory, and the target is not a
\* directory.
CopyThrows(p) ==
    local[p] \notin Regular \/ ~InDir(second, p) \/ second[p] = "dir"

(***************************************************************************)
(* One registered path.  A present local entry is copied unless secondary  *)
(* has it and the local one is not newer; a missing one is collected.      *)
(* Nothing catches copy_file's exception inside CheckLocalFiles: on the    *)
(* exporter thread it ends the process (std::terminate); under the RPC,    *)
(* dispatch catches it and answers an error, with mutex_ still locked.     *)
(***************************************************************************)
SweepEntry(p) ==
    /\ Up
    /\ sweep # "idle"
    /\ p \in todo
    /\ todo' = todo \ {p}
    /\ CASE local[p] = "none" ->
               /\ erase' = erase \cup {p}
               /\ UNCHANGED <<second, fresh, sweep, stuck, crashed>>
         [] second[p] # "none" /\ p \notin fresh ->
               UNCHANGED <<second, fresh, erase, sweep, stuck, crashed>>
         [] ~CopyThrows(p) ->
               /\ second' = [second EXCEPT ![p] = "file"]
               /\ fresh' = fresh \ {p}
               /\ UNCHANGED <<erase, sweep, stuck, crashed>>
         [] OTHER ->
               /\ crashed' = (sweep = "thread")
               /\ stuck' = (sweep = "rpc")
               /\ sweep' = "idle"
               /\ UNCHANGED <<second, fresh, erase>>
    /\ UNCHANGED <<local, opened, registry, restarts>>

SweepEnd ==
    /\ Up
    /\ sweep # "idle"
    /\ todo = {}
    /\ registry' = registry \ erase
    /\ sweep' = "idle"
    /\ erase' = {}
    /\ UNCHANGED <<local, second, fresh, opened, todo, stuck, crashed, restarts>>

(***************************************************************************)
(* The server is started again on the same tiers: the constructor          *)
(* duplicates secondary's directories and the exporter rescans local.      *)
(* Client handles and the locked mutex_ die with the old process.          *)
(***************************************************************************)
Restart ==
    /\ crashed
    /\ restarts < MaxRestarts
    /\ local' = DuplicateDirSecondaryToLocal(local, second)
    /\ registry' = SearchLocalFiles(local')
    /\ opened' = {}
    /\ sweep' = "idle"
    /\ todo' = {}
    /\ erase' = {}
    /\ stuck' = FALSE
    /\ crashed' = FALSE
    /\ restarts' = restarts + 1
    /\ UNCHANGED <<second, fresh>>

\* A terminated process that is not restarted does nothing more.
Down == crashed /\ restarts = MaxRestarts /\ UNCHANGED vars

Next ==
    \/ \E p \in Rel : MkDir(p) \/ RmDir(p) \/ Create(p) \/ Release(p) \/ Unlink(p)
    \/ \E p, q \in Rel : Symlink(p, q) \/ Link(p, q)
    \/ \E by \in {"thread", "rpc"} : SweepBegin(by)
    \/ \E p \in Rel : SweepEntry(p)
    \/ SweepEnd \/ Restart \/ Down

Spec == Init /\ [][Next]_vars

-----------------------------------------------------------------------------
TypeOK ==
    /\ local \in [Rel -> Kinds] /\ second \in [Rel -> Kinds]
    /\ fresh \subseteq Rel /\ opened \subseteq Rel /\ registry \subseteq Rel
    /\ sweep \in {"idle", "thread", "rpc"}
    /\ todo \subseteq registry /\ erase \subseteq registry
    /\ stuck \in BOOLEAN /\ crashed \in BOOLEAN /\ restarts \in 0..MaxRestarts

(***************************************************************************)
(* The exporter keeps working: CheckLocalFiles never throws out of its     *)
(* copy, so the timer thread never terminates the server and no            *)
(* LocalFileExport leaves mutex_ locked for every later Create, Release   *)
(* and Unlink.  Checked against RmDir removing the secondary directory of  *)
(* a local file not yet exported.                                          *)
(***************************************************************************)
ExporterAlive == ~crashed /\ ~stuck
=============================================================================
