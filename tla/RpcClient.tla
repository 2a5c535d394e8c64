------------------------------ MODULE RpcClient ------------------------------
(***************************************************************************)
(* The client library BurstBufferClient (cbb/burst_buffer_client.cc) as    *)
(* the FUSE threads and the read-ahead thread run it: every RPC goes       *)
(* through MSGPACK_CLIENT_CALL (the process-wide g_fuse_mutex, retry_count *)
(* and the exception paths), and every method is a small program over      *)
(* RPCs: one call to the owning node, a broadcast over the server list,    *)
(* the attribute probes of GetAttrEx, and the branches that choose between *)
(* them.                                                                   *)
(*                                                                         *)
(* Data abstraction: a reply is its Error (0 or -1); a GetAttr reply also  *)
(* says whether the FileStat is a directory and whether link_path is set.  *)
(* On a failed GetAttr the server sends back an uninitialised FileStat     *)
(* (burst_buffer.cc:68), so its directory bit is either value.  Which node *)
(* owns a name does not change the control of any method, so a single     *)
(* call is not given a node; a broadcast visits FleetSize nodes in order.  *)
(*                                                                         *)
(* Exceptions: a transport error rethrown by the macro is caught nowhere   *)
(* in the client or the FUSE wrappers, so it ends the process             *)
(* (std::terminate); a remote_error unlocks and calls abort().             *)
(*                                                                         *)
(* The FUSE adaptor (cbfs/cbb_client_wrapper.cc) is composed in: the       *)
(* wrappers of open and create store the File under fi->fh in the         *)
(* process-wide map g_files, and read, write, flush, release, fsync and    *)
(* ftruncate look it up by fi->fh; fsyncdir looks up fi->fh = 0 (cbfs      *)
(* registers no opendir).  The kernel's open files are kfiles.             *)
(***************************************************************************)
EXTENDS Integers, Sequences, FiniteSets, TLC

CONSTANTS
    FuseThreads,  \* FUSE worker threads calling the client
    RAs,          \* pthreads the client's Thread object may start (read-ahead)
    Ops,          \* the client methods the FUSE threads may call
    FleetSize,    \* servers in select_server_.server_list()
    MaxCalls,     \* FUSE calls per thread
    MaxFaults,    \* transport faults (closed connection, timeout) injected
    RemoteErrors, \* whether a server may answer with an RPC error
    RetryMax,     \* the design's bound on attempts per call
    MaxSiblings,  \* siblings a read-ahead listing returns
    MaxFds,       \* descriptors a node can hand to this client at once
    HostsAreIPv4, \* whether the fleet's hosts are IPv4 literals
    NoThread

ASSUME FleetSize \in Nat \ {0} /\ MaxCalls \in Nat /\ MaxFaults \in Nat
ASSUME MaxFds \in Nat /\ HostsAreIPv4 \in BOOLEAN
ASSUME RemoteErrors \in BOOLEAN /\ RetryMax \in Nat \ {0} /\ MaxSiblings \in Nat
\* Every Open may start a read-ahead pthread.
ASSUME Cardinality(RAs) >= Cardinality(FuseThreads) * MaxCalls

Threads == FuseThreads \cup RAs

(***************************************************************************)
(* The programs of the client methods.  entry: the first step; ret: what   *)
(* the method returns from the reply of its operation RPC ("reply": that   *)
(* Error, "success": kCBBSuccess whatever it was, "zeroIfOk": 0 when >= 0);*)
(* dirTest: after GetAttrEx, how the method decides to broadcast           *)
(* ("errAndDir": error >= 0 && S_ISDIR, "dirOnly": S_ISDIR alone);         *)
(* prefetch: StartPrevFileRead after a successful call; handle: what the   *)
(* FUSE wrapper does with g_files ("opens": stores the new File, "uses":   *)
(* reads g_files[fi->fh] of an open file, "dir": reads g_files[0]).        *)
(* Only the methods cbfs.cc's SetOperations registers are listed; FGetAttr,*)
(* Lock, FileFlush and LocalFileExport have no caller, and FilePrevRead is *)
(* called by ThreadCall alone.                                             *)
(***************************************************************************)
Single == [entry |-> "one", ret |-> "reply", dirTest |-> "none", prefetch |-> FALSE,
           handle |-> "none"]
Fleet == [Single EXCEPT !.entry = "all"]

GetAttr == [Single EXCEPT !.entry = "ga_sym"]
ReadLink == [Single EXCEPT !.entry = "rl_sym", !.ret = "zeroIfOk"]
MkDir == Fleet
Unlink == [Single EXCEPT !.entry = "ul_sym"]
RmDir == Fleet
Symlink == [GetAttr EXCEPT !.dirTest = "errAndDir"]
Rename == [GetAttr EXCEPT !.dirTest = "errAndDir"]
Link == [GetAttr EXCEPT !.dirTest = "dirOnly"]
Chmod == Single
Chown == Single
Truncate == Single
Open == [Single EXCEPT !.prefetch = TRUE, !.handle = "opens"]
Read == [Single EXCEPT !.handle = "uses"]
Write == [Single EXCEPT !.handle = "uses"]
StatFs == Single
Flush == [Single EXCEPT !.handle = "uses"]
Release == [Single EXCEPT !.handle = "uses"]
FSync == [Single EXCEPT !.handle = "uses"]
ReadDir == Fleet
FSyncDir == [Fleet EXCEPT !.handle = "dir"]
SetXAttr == [GetAttr EXCEPT !.dirTest = "errAndDir"]
GetXAttr == [Single EXCEPT !.ret = "success"]
ListXAttr == [Single EXCEPT !.ret = "success"]
RemoveXAttr == Single
Access == Single
Create == [Single EXCEPT !.handle = "opens"]
FTruncate == [Single EXCEPT !.handle = "uses"]
Utimens == Single

Program == [
    GetAttr |-> GetAttr, ReadLink |-> ReadLink, MkDir |-> MkDir,
    Unlink |-> Unlink, RmDir |-> RmDir, Symlink |-> Symlink,
    Rename |-> Rename, Link |-> Link, Chmod |-> Chmod, Chown |-> Chown,
    Truncate |-> Truncate, Open |-> Open, Read |-> Read, Write |-> Write,
    StatFs |-> StatFs, Flush |-> Flush, Release |-> Release, FSync |-> FSync,
    ReadDir |-> ReadDir, FSyncDir |-> FSyncDir, SetXAttr |-> SetXAttr,
    GetXAttr |-> GetXAttr, ListXAttr |-> ListXAttr, RemoveXAttr |-> RemoveXAttr,
    Access |-> Access, Create |-> Create, FTruncate |-> FTruncate,
    Utimens |-> Utimens]

AllOps == DOMAIN Program
ASSUME Ops \subseteq AllOps

\* The methods that broadcast unconditionally.
FleetOps == {o \in AllOps : Program[o].entry = "all"}

\* Steps that issue an RPC: the GetAttrEx probes, the Unlink and ReadLink
\* probes, the single call, the shadowed single call, the broadcast, and
\* the read-ahead's listing and prefetches.
ProbeSteps == {"ga_sym", "ga_link", "ga_path", "ga_target", "ul_sym", "ul_link",
               "rl_sym", "rl_link"}
CallSteps == ProbeSteps \cup {"one", "shadow", "all", "ra_dir", "ra_prev"}
Errors == {0, -1}

Nodes == 1..FleetSize
Fds == 1..MaxFds

(***************************************************************************)
(* addr_to_binary: inet_aton's address, or -1 (INADDR_NONE as uint32_t)    *)
(* for a host that is not an IPv4 literal.  Node n's address is n.         *)
(***************************************************************************)
AddrNone == -1
addr_to_binary(n) == IF HostsAreIPv4 THEN n ELSE AddrNone

\* Mutant of Fh: the address is shifted as a 32-bit value and lost.
FhNoAddr(n, fd) == <<0, fd>>

(***************************************************************************)
(* file_ptr->fd = ((uint64_t)addr_to_binary(bb_host) << 32) | fd, kept as  *)
(* the pair of its high and low words, which that expression packs one to *)
(* one for 0 <= fd < 2^32 (fd < 0 returned before).                        *)
(***************************************************************************)
Fh(n, fd) == <<addr_to_binary(n), fd>>

\* fi->fh of a directory: cbfs registers no opendir, so FUSE passes 0.
DirFh == <<0, 0>>
\* The File that g_files[fh] value-initialises for a missing key.
NoFile == [node |-> 0, fd |-> 0]
NoKh == [fh |-> DirFh, node |-> 0, fd |-> 0]

VARIABLES
    alive,    \* the client process is running
    died,     \* why and in which thread it ended, after how many attempts
    faults,   \* transport faults so far
    mutex,    \* holder of g_fuse_mutex
    frame,    \* frame[t]: the method thread t runs and its locals
    ncalls,   \* ncalls[t]: FUSE calls made by t
    mpc,      \* mpc[t]: "out" or "in" MSGPACK_CLIENT_CALL, holding the mutex
    retry,    \* retry[t]: retry_count
    attempts, \* attempts[t]: attempts of the current RPC
    last,     \* last[t]: the last method t returned from and what it returned
    gfiles,   \* g_files: fi->fh -> the File (node, fd_org) stored under it
    kfiles,   \* the kernel's open files: the fh FUSE holds and what it opened
    tid,      \* Thread::thread_id_: the read-ahead pthread, or NoThread (0)
    loop,     \* thread_info_.is_loop
    ptr,      \* thread_info_.thread_ptr # NULL
    lw,       \* the lock word of the Thread's Mutex (glibc: 0 free, 1, 2 contended)
    wpc       \* wpc[w]: where read-ahead pthread w is in Thread::Threading

RAVars == <<tid, loop, ptr, lw, wpc>>
vars == <<alive, died, faults, mutex, frame, ncalls, mpc, retry, attempts, last,
          gfiles, kfiles, tid, loop, ptr, lw, wpc>>

(* A frame: op, the method ("idle" between calls); step, where in it;    *)
(* idx, the broadcast position or the prefetches left; err, the method's *)
(* `error`; ierr, the inner `error` that shadows it in the file branches *)
(* of Symlink, Rename, Link and SetXAttr; dir, S_ISDIR of the last        *)
(* FileStat received; rs, the Errors of its operation RPCs in order;     *)
(* node and fd, the owner and descriptor of a file being opened; kh, the *)
(* kernel's open file a call uses; jw, the thread_id_ Release joins.     *)
Idle == [op |-> "idle", step |-> "none", idx |-> 0, err |-> 0, ierr |-> 0,
         dir |-> FALSE, rs |-> <<>>, node |-> 0, fd |-> 0, kh |-> NoKh,
         jw |-> NoThread]
NoDeath == [why |-> "none", who |-> NoThread, attempts |-> 0]
NoReturn == [op |-> "none", val |-> 0, rs |-> <<>>]

\* BurstBufferClient::Init: g_fuse_mutex.Init(); no call in progress; the
\* Thread constructor's Init(): no read-ahead pthread.
Init ==
    /\ alive = TRUE
    /\ died = NoDeath
    /\ faults = 0
    /\ mutex = NoThread
    /\ frame = [t \in Threads |-> Idle]
    /\ ncalls = [t \in Threads |-> 0]
    /\ mpc = [t \in Threads |-> "out"]
    /\ retry = [t \in Threads |-> 0]
    /\ attempts = [t \in Threads |-> 0]
    /\ last = [t \in Threads |-> NoReturn]
    /\ gfiles = [fh \in {} |-> NoFile]
    /\ kfiles = {}
    /\ tid = NoThread /\ loop = FALSE /\ ptr = FALSE /\ lw = 0
    /\ wpc = [w \in RAs |-> "unborn"]

(***************************************************************************)
(* Replies.  A GetAttr reply carries the Error, S_ISDIR of the FileStat    *)
(* and whether link_path is set (only for an existing virtual link or      *)
(* symlink file, which is a regular file).                                 *)
(***************************************************************************)
ProbeReplies ==
    {r \in [err : Errors, dir : BOOLEAN, link : BOOLEAN] :
        (r.err < 0 => ~r.link) /\ (r.link => ~r.dir)}
PlainReplies == [err : Errors, dir : {FALSE}, link : {FALSE}]
RepliesAt(s) == IF s \in ProbeSteps THEN ProbeReplies ELSE PlainReplies

\* What a method returns from its operation RPC's Error e.
RetVal(o, e) ==
    CASE Program[o].ret = "success"  -> 0
      [] Program[o].ret = "zeroIfOk" -> IF e >= 0 THEN 0 ELSE e
      [] OTHER                       -> e

\* The thread goes on to frame f of its method.
Goto(t, f) == frame' = [frame EXCEPT ![t] = f] /\ UNCHANGED <<last, gfiles, kfiles>>

(***************************************************************************)
(* The FUSE wrapper after the method returned v: CBFSOpen and CBFSCreate   *)
(* set fi->fh = file.fd and g_files[fi->fh] = file on success; the kernel  *)
(* drops its open file when release returns, whatever it returned.         *)
(***************************************************************************)
WrapperReturn(f, v) ==
    LET h == IF f.op \in DOMAIN Program THEN Program[f.op].handle ELSE "none"
        fh == Fh(f.node, f.fd)
    IN  CASE h = "opens" /\ v = 0 ->
                /\ gfiles' = (fh :> [node |-> f.node, fd |-> f.fd]) @@ gfiles
                /\ kfiles' = kfiles \cup {[fh |-> fh, node |-> f.node, fd |-> f.fd]}
          [] f.op = "Release" ->
                /\ kfiles' = kfiles \ {f.kh}
                /\ UNCHANGED gfiles
          [] OTHER -> UNCHANGED <<gfiles, kfiles>>

\* cbb_to_fuse_error: the wrappers hand the method's Error to FUSE as an
\* int (static_cast of an int; the remapping of positive values is #if 0).
cbb_to_fuse_error(e) == e

\* The method returns v to its FUSE wrapper, which returns it to FUSE.
Return(t, f, v) ==
    /\ frame' = [frame EXCEPT ![t] = Idle]
    /\ last' = [last EXCEPT ![t] = [op |-> f.op, val |-> cbb_to_fuse_error(v),
                                    rs |-> f.rs]]
    /\ WrapperReturn(f, v)

\* Descriptors node n has open for this client, or just handed to an Open.
HeldFds(n) ==
    {k.fd : k \in {x \in kfiles : x.node = n}}
        \cup {frame[u].fd : u \in {x \in FuseThreads : frame[x].node = n}}

(***************************************************************************)
(* After GetAttrEx: GetAttr returns its error; Symlink, Rename and         *)
(* SetXAttr broadcast when error >= 0 && S_ISDIR, Link when S_ISDIR alone; *)
(* otherwise they make one call whose result lands in the inner `error`.   *)
(***************************************************************************)
AfterGetAttrEx(t, f) ==
    LET test == Program[f.op].dirTest IN
    CASE test = "none" -> Return(t, f, f.err)
      [] (test = "errAndDir" /\ f.err >= 0 /\ f.dir) \/ (test = "dirOnly" /\ f.dir) ->
            Goto(t, [f EXCEPT !.step = "all", !.idx = 1])
      [] OTHER -> Goto(t, [f EXCEPT !.step = "shadow"])

(***************************************************************************)
(* GetAttrEx: probe the virtual symlink name, then the virtual link name,  *)
(* then the path; a virtual link found is followed once, and that last     *)
(* probe's error is discarded.  Each probe overwrites error and file_stat. *)
(***************************************************************************)
GetAttrExStep(t, f, r) ==
    LET g == [f EXCEPT !.err = r.err, !.dir = r.dir] IN
    CASE f.step = "ga_sym" ->
            IF r.err < 0 THEN Goto(t, [g EXCEPT !.step = "ga_link"])
            ELSE AfterGetAttrEx(t, g)
      [] f.step = "ga_link" ->
            IF r.err < 0 THEN Goto(t, [g EXCEPT !.step = "ga_path"])
            ELSE IF r.link THEN Goto(t, [g EXCEPT !.step = "ga_target"])
            ELSE AfterGetAttrEx(t, g)
      [] f.step = "ga_path" -> AfterGetAttrEx(t, g)
      [] f.step = "ga_target" -> AfterGetAttrEx(t, [f EXCEPT !.dir = r.dir])

\* Unlink: a virtual symlink or virtual link found is unlinked on its
\* owner; otherwise the path is unlinked on every server.
UnlinkStep(t, f, r) ==
    CASE f.step = "ul_sym" ->
            Goto(t, [f EXCEPT !.step = IF r.err < 0 THEN "ul_link" ELSE "one"])
      [] f.step = "ul_link" ->
            IF r.err < 0 THEN Goto(t, [f EXCEPT !.step = "all", !.idx = 1])
            ELSE Goto(t, [f EXCEPT !.step = "one"])

\* ReadLink: a virtual symlink or link found answers from link_path.
ReadLinkStep(t, f, r) ==
    IF r.err >= 0 THEN Return(t, f, 0)
    ELSE Goto(t, [f EXCEPT !.step = IF f.step = "rl_sym" THEN "rl_link" ELSE "one"])

(***************************************************************************)
(* The single call to the owning node.  Open and Create receive a          *)
(* descriptor the node does not hold open (fd < 0: the errno) and return   *)
(* kCBBSuccess; Open first goes on to StartPrevFileRead.                   *)
(***************************************************************************)
OneStep(t, f, r) ==
    LET g == [f EXCEPT !.err = r.err, !.rs = Append(f.rs, r.err)] IN
    IF Program[f.op].handle = "opens" /\ r.err >= 0
    THEN \E fd \in Fds \ HeldFds(f.node) :
           LET h == [g EXCEPT !.fd = fd] IN
           IF Program[f.op].prefetch THEN Goto(t, [h EXCEPT !.step = "prefetch"])
           ELSE Return(t, h, 0)
    ELSE Return(t, g, RetVal(f.op, r.err))

\* The single call of a file branch that declares its own `error`: the
\* method returns the outer one, set by GetAttrEx.
ShadowStep(t, f, r) ==
    Return(t, [f EXCEPT !.ierr = r.err, !.rs = Append(f.rs, r.err)], f.err)

\* BOOST_FOREACH over server_list(): each reply overwrites `error`.
AllStep(t, f, r) ==
    LET g == [f EXCEPT !.err = r.err, !.rs = Append(f.rs, r.err)] IN
    IF f.idx < FleetSize THEN Goto(t, [g EXCEPT !.idx = f.idx + 1])
    ELSE Return(t, g, g.err)

\* BurstBufferClient::FilePrevRead of one sibling: one RPC to the sibling's
\* node, whose Error ThreadCall drops; then the next sibling, or the end.
PrevReadStep(t, f) ==
    IF f.idx > 1 THEN Goto(t, [f EXCEPT !.idx = f.idx - 1])
    ELSE Return(t, f, 0)

(***************************************************************************)
(* BurstBufferClient::ThreadCall: list prev_read_dir_ on every server,    *)
(* then FilePrevRead every sibling; errors are dropped; returns false.     *)
(***************************************************************************)
ThreadCall(t, f, r) ==
    CASE f.step = "ra_dir" /\ f.idx < FleetSize ->
            Goto(t, [f EXCEPT !.idx = f.idx + 1])
      [] f.step = "ra_dir" ->
            \E k \in 0..MaxSiblings :
                IF k = 0 THEN Return(t, f, 0)
                ELSE Goto(t, [f EXCEPT !.step = "ra_prev", !.idx = k])
      [] f.step = "ra_prev" -> PrevReadStep(t, f)

Advance(t, r) ==
    LET f == frame[t] IN
    CASE f.step \in {"ga_sym", "ga_link", "ga_path", "ga_target"} -> GetAttrExStep(t, f, r)
      [] f.step \in {"ul_sym", "ul_link"} -> UnlinkStep(t, f, r)
      [] f.step \in {"rl_sym", "rl_link"} -> ReadLinkStep(t, f, r)
      [] f.step = "one"    -> OneStep(t, f, r)
      [] f.step = "shadow" -> ShadowStep(t, f, r)
      [] f.step = "all"    -> AllStep(t, f, r)
      [] OTHER             -> ThreadCall(t, f, r)

-----------------------------------------------------------------------------
(***************************************************************************)
(* The FUSE wrapper of method o calls into the client.  Open and Create    *)
(* go to the path's owning node n (GetBurstBuffer); a call on an open file *)
(* uses one of the kernel's open files k, which the kernel releases only   *)
(* when no other call uses it and on which no call starts once its release *)
(* has begun; fsyncdir's g_files[0] inserts a value-initialised File when  *)
(* the key is missing.                                                     *)
(***************************************************************************)
Busy(k) == \E u \in FuseThreads : frame[u].kh = k
Releasing(k) == \E u \in FuseThreads : frame[u].op = "Release" /\ frame[u].kh = k
Begin(t, o) ==
    /\ alive
    /\ frame[t].op = "idle"
    /\ ncalls[t] < MaxCalls
    /\ LET h == Program[o].handle IN
       /\ \E n \in (IF h = "opens" THEN Nodes ELSE {0}),
             k \in (IF h = "uses" THEN {x \in kfiles : ~Releasing(x)} ELSE {NoKh}) :
            /\ o = "Release" => ~Busy(k)
            /\ frame' = [frame EXCEPT ![t] = [Idle EXCEPT !.op = o, !.step = Program[o].entry,
                                                          !.idx = 1, !.node = n, !.kh = k]]
       /\ gfiles' = IF h = "dir" /\ DirFh \notin DOMAIN gfiles
                    THEN (DirFh :> NoFile) @@ gfiles ELSE gfiles
    /\ ncalls' = [ncalls EXCEPT ![t] = @ + 1]
    /\ UNCHANGED <<alive, died, faults, mutex, mpc, retry, attempts, last, kfiles, RAVars>>

(***************************************************************************)
(* MSGPACK_CLIENT_CALL: int retry_count = 0; g_fuse_mutex.Lock();          *)
(***************************************************************************)
MutexLock(t) ==
    /\ alive
    /\ frame[t].step \in CallSteps
    /\ mpc[t] = "out"
    /\ mutex = NoThread
    /\ mutex' = t
    /\ mpc' = [mpc EXCEPT ![t] = "in"]
    /\ retry' = [retry EXCEPT ![t] = 0]
    /\ attempts' = [attempts EXCEPT ![t] = 0]
    /\ UNCHANGED <<alive, died, faults, frame, ncalls, last, gfiles, kfiles, RAVars>>

(***************************************************************************)
(* FSyncDir sends kFSync (path, datasync); the server's dispatch converts  *)
(* the params to a (string, int, int) tuple, which throws type_error, and  *)
(* answers ARGUMENT_ERROR: every FSyncDir RPC is a remote_error.           *)
(***************************************************************************)
ShortParams(o) == o = "FSyncDir"

\* The operation succeeds: break; g_fuse_mutex.Unlock(); the method goes on.
Reply(t, r) ==
    /\ alive
    /\ mpc[t] = "in"
    /\ ~ShortParams(frame[t].op)
    /\ r \in RepliesAt(frame[t].step)
    /\ mutex' = NoThread
    /\ mpc' = [mpc EXCEPT ![t] = "out"]
    /\ attempts' = [attempts EXCEPT ![t] = @ + 1]
    /\ Advance(t, r)
    /\ UNCHANGED <<alive, died, faults, ncalls, retry, RAVars>>

(***************************************************************************)
(* connection_closed_error, system_error or timeout_error: if              *)
(* (--retry_count <= 0) throw; else close the session, sleep and retry.    *)
(* The rethrown exception leaves the macro with the mutex held and is      *)
(* caught nowhere: the process terminates.                                 *)
(***************************************************************************)
Fault(t) ==
    /\ alive
    /\ mpc[t] = "in"
    /\ faults < MaxFaults
    /\ faults' = faults + 1
    /\ attempts' = [attempts EXCEPT ![t] = @ + 1]
    /\ retry' = [retry EXCEPT ![t] = @ - 1]
    /\ IF retry[t] - 1 <= 0
       THEN /\ alive' = FALSE
            /\ died' = [why |-> "transport", who |-> t, attempts |-> attempts[t] + 1]
       ELSE UNCHANGED <<alive, died>>
    /\ UNCHANGED <<mutex, frame, ncalls, mpc, last, gfiles, kfiles, RAVars>>

\* remote_error: g_fuse_mutex.Unlock(); abort();
RemoteError(t) ==
    /\ alive
    /\ mpc[t] = "in"
    /\ RemoteErrors \/ ShortParams(frame[t].op)
    /\ mutex' = NoThread
    /\ alive' = FALSE
    /\ died' = [why |-> "remote", who |-> t, attempts |-> attempts[t] + 1]
    /\ attempts' = [attempts EXCEPT ![t] = @ + 1]
    /\ UNCHANGED <<faults, frame, ncalls, mpc, retry, last, gfiles, kfiles, RAVars>>

(***************************************************************************)
(* Open's StartPrevFileRead: prev_read_dir_ and target_filename_ are set   *)
(* (data, not modelled) and Thread::Create runs on the shared Thread       *)
(* object without any lock; Create starts with Release(): is_loop = false. *)
(* Each line of Create and Release below is one step, so two Opens and the *)
(* read-ahead pthreads interleave between them.                            *)
(***************************************************************************)
CallVars == <<alive, died, faults, mutex, ncalls, mpc, retry, attempts>>

PfGoto(t, s) == Goto(t, [frame[t] EXCEPT !.step = s])

StartPrevFileRead(t) ==
    /\ alive
    /\ frame[t].step = "prefetch"
    /\ loop' = FALSE
    /\ PfGoto(t, "pf_check")
    /\ UNCHANGED <<CallVars, tid, ptr, lw, wpc>>

\* Release: if (thread_id_ != 0) pthread_join(thread_id_, NULL);
ReleaseCheck(t) ==
    /\ alive
    /\ frame[t].step = "pf_check"
    /\ IF tid = NoThread THEN PfGoto(t, "pf_init")
       ELSE Goto(t, [frame[t] EXCEPT !.step = "pf_join", !.jw = tid])
    /\ UNCHANGED <<CallVars, RAVars>>

(***************************************************************************)
(* pthread_join returns once the pthread has ended, or at once with EINVAL *)
(* when another thread is already joining it; then thread_id_ = 0.         *)
(***************************************************************************)
ReleaseJoin(t) ==
    /\ alive
    /\ frame[t].step = "pf_join"
    /\ \/ wpc[frame[t].jw] = "done"
       \/ \E u \in FuseThreads \ {t} : frame[u].step = "pf_join" /\ frame[u].jw = frame[t].jw
    /\ tid' = NoThread
    /\ PfGoto(t, "pf_init")
    /\ UNCHANGED <<CallVars, loop, ptr, lw, wpc>>

\* Thread::Init(): thread_id_ = 0; is_loop = false; thread_ptr = NULL.
ThreadInit(t) ==
    /\ alive
    /\ frame[t].step = "pf_init"
    /\ tid' = NoThread /\ loop' = FALSE /\ ptr' = FALSE
    /\ PfGoto(t, "pf_spawn")
    /\ UNCHANGED <<CallVars, lw, wpc>>

\* pthread_create(&thread_id_, ...): a new pthread enters Threading.
Spawn(t) ==
    /\ alive
    /\ frame[t].step = "pf_spawn"
    /\ LET w == CHOOSE x \in RAs : wpc[x] = "unborn" IN
       /\ wpc' = [wpc EXCEPT ![w] = "check"]
       /\ tid' = w
    /\ PfGoto(t, "pf_minit")
    /\ UNCHANGED <<CallVars, loop, ptr, lw>>

(***************************************************************************)
(* if (thread_id_ != 0) Mutex::Init(): pthread_mutex_init rewrites the     *)
(* lock word to 0 whoever holds or waits on the mutex.  Otherwise Create   *)
(* returns, and Open returns kCBBSuccess.                                  *)
(***************************************************************************)
MutexInit(t) ==
    /\ alive
    /\ frame[t].step = "pf_minit"
    /\ IF tid = NoThread
       THEN Return(t, frame[t], 0) /\ UNCHANGED lw
       ELSE PfGoto(t, "pf_loop") /\ lw' = 0
    /\ UNCHANGED <<CallVars, tid, loop, ptr, wpc>>

\* thread_info_.is_loop = true;
SetLoop(t) ==
    /\ alive
    /\ frame[t].step = "pf_loop"
    /\ loop' = TRUE
    /\ PfGoto(t, "pf_ptr")
    /\ UNCHANGED <<CallVars, tid, ptr, lw, wpc>>

\* thread_info_.thread_ptr = this; Create returns; Open returns kCBBSuccess.
SetPtr(t) ==
    /\ alive
    /\ frame[t].step = "pf_ptr"
    /\ ptr' = TRUE
    /\ Return(t, frame[t], 0)
    /\ UNCHANGED <<CallVars, tid, loop, lw, wpc>>

(***************************************************************************)
(* Thread::Threading of pthread w: while (info->is_loop && result); the    *)
(* first pass is due at once.  thread_ptr->Lock() through a NULL           *)
(* thread_ptr faults and ends the process.                                 *)
(***************************************************************************)
NullPtr(w) ==
    /\ alive' = FALSE
    /\ died' = [why |-> "nullptr", who |-> w, attempts |-> 0]

WorkerCheck(w) ==
    /\ alive
    /\ wpc[w] = "check"
    /\ IF ~loop THEN wpc' = [wpc EXCEPT ![w] = "done"] /\ UNCHANGED <<alive, died>>
       ELSE IF ~ptr THEN NullPtr(w) /\ UNCHANGED wpc
       ELSE wpc' = [wpc EXCEPT ![w] = "lock"] /\ UNCHANGED <<alive, died>>
    /\ UNCHANGED <<faults, mutex, frame, ncalls, mpc, retry, attempts, last,
                   gfiles, kfiles, tid, loop, ptr, lw>>

(***************************************************************************)
(* pthread_mutex_lock (glibc lowlevellock): CAS 0 -> 1; on failure swap in *)
(* 2 and sleep on the word until woken, then swap in 2 again.  The owner   *)
(* runs ThreadCall, whose frame starts listing prev_read_dir_.             *)
(***************************************************************************)
WorkerLock(w) ==
    /\ alive
    /\ wpc[w] \in {"lock", "wake"}
    /\ IF lw = 0
       THEN /\ lw' = IF wpc[w] = "lock" THEN 1 ELSE 2
            /\ wpc' = [wpc EXCEPT ![w] = "run"]
            /\ frame' = [frame EXCEPT ![w] = [Idle EXCEPT !.op = "ReadAhead",
                                                          !.step = "ra_dir", !.idx = 1]]
       ELSE /\ lw' = 2
            /\ wpc' = [wpc EXCEPT ![w] = "sleep"]
            /\ UNCHANGED frame
    /\ UNCHANGED <<CallVars, last, gfiles, kfiles, tid, loop, ptr>>

(***************************************************************************)
(* ThreadCall returned false: thread_ptr->Unlock() swaps in 0 and, if the  *)
(* word was 2, wakes one sleeper; the loop ends.                           *)
(***************************************************************************)
WorkerUnlock(w) ==
    /\ alive
    /\ wpc[w] = "run"
    /\ frame[w].op = "idle"
    /\ IF ~ptr
       THEN NullPtr(w) /\ UNCHANGED <<lw, wpc>>
       ELSE /\ lw' = 0
            /\ LET sleepers == {x \in RAs : wpc[x] = "sleep"} IN
               IF lw = 2 /\ sleepers # {}
               THEN \E x \in sleepers : wpc' = [wpc EXCEPT ![w] = "done", ![x] = "wake"]
               ELSE wpc' = [wpc EXCEPT ![w] = "done"]
            /\ UNCHANGED <<alive, died>>
    /\ UNCHANGED <<faults, mutex, frame, ncalls, mpc, retry, attempts, last,
                   gfiles, kfiles, tid, loop, ptr>>

(***************************************************************************)
(* The process has ended, or every FUSE thread has made its calls and      *)
(* every read-ahead pthread has ended or sleeps on the Thread's mutex.     *)
(***************************************************************************)
Terminated ==
    /\ \/ ~alive
       \/ /\ \A t \in FuseThreads : frame[t].op = "idle" /\ ncalls[t] = MaxCalls
          /\ \A w \in RAs : wpc[w] \in {"unborn", "done", "sleep"}
    /\ UNCHANGED vars

Outcome(t) == (\E r \in RepliesAt(frame[t].step) : Reply(t, r)) \/ Fault(t) \/ RemoteError(t)

Next ==
    \/ \E t \in FuseThreads, o \in Ops : Begin(t, o)
    \/ \E t \in Threads : MutexLock(t) \/ Outcome(t)
    \/ \E t \in FuseThreads :
          \/ StartPrevFileRead(t) \/ ReleaseCheck(t) \/ ReleaseJoin(t)
          \/ ThreadInit(t) \/ Spawn(t) \/ MutexInit(t) \/ SetLoop(t) \/ SetPtr(t)
    \/ \E w \in RAs : WorkerCheck(w) \/ WorkerLock(w) \/ WorkerUnlock(w)
    \/ Terminated

Spec == Init /\ [][Next]_vars

-----------------------------------------------------------------------------
(***************************************************************************)
(* Properties.                                                             *)
(***************************************************************************)

\* The FUSE-facing methods whose result is their own operation RPC's Error.
PassThroughOps == {o \in AllOps : Program[o].ret = "reply"}

(***************************************************************************)
(* Every file the kernel holds open reaches, through g_files[fi->fh], the  *)
(* node and descriptor its open or create returned: a read, write or       *)
(* release on it goes to that file.  Checked against the packing of        *)
(* file_ptr->fd in Open and Create and the unsynchronised g_files stores.  *)
(***************************************************************************)
HandleRoutesToOpener ==
    \A k \in kfiles :
        k.fh \in DOMAIN gfiles /\ gfiles[k.fh] = [node |-> k.node, fd |-> k.fd]

(***************************************************************************)
(* spec.md (RPC discipline, acceptance): transport failures are retried up *)
(* to a fixed cap; a fault on every attempt gives exactly RetryMax         *)
(* attempts before the error surfaces.  Checked against the macro's        *)
(* retry_count.                                                            *)
(***************************************************************************)
RetryBound ==
    died.why = "transport" => died.attempts = RetryMax

(***************************************************************************)
(* spec.md (failure semantics (c)): a domain error of the operation is     *)
(* always returned to the caller.  A method whose operation RPCs all       *)
(* failed does not report success.  Checked against the file branches of  *)
(* Symlink, Rename, Link and SetXAttr.                                     *)
(***************************************************************************)
DomainErrorReturned ==
    \A t \in FuseThreads :
        /\ last[t].op \in PassThroughOps
        /\ last[t].rs # <<>>
        /\ \A i \in DOMAIN last[t].rs : last[t].rs[i] < 0
        => last[t].val < 0

=============================================================================
