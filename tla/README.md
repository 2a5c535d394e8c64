# TLA+ models of cbb, the hierarchical burst buffer

This directory holds TLA+ models of the burst buffer in `src/`, the TLC configurations that check them,
and `PROJECT.json`. That file lists the components, runs, fault variants ("mutants"), the source lines each
definition models, findings and hazards.

## 1. The system

cbb is a FUSE file system (`cbfs`) whose operations a client library (`BurstBufferClient`) sends by
msgpack-rpc to a fleet of burst-buffer servers (`cbb`). Each server keeps files on a fast local tier and
writes them back to a shared, slow secondary tier.

| Part | Source | State it keeps | Operations |
|---|---|---|---|
| HashRouter | `util/hash/consistent_hash.h`, `util/select_server.cc`, `util/hash/hash_calc_*.cc` | ring of range boundaries, built once | `Create`, `GetNode`, `CalcHash` (MD5 / SHA1 fold), `GetInfo` |
| TieredStorageManager | `cbb/meta_data_manager.{h,cc}`, `util/file_control.cc` | local root, secondary root, `table_`: path -> open fds (no lock) | Open (promotes secondary -> local), Create, Read/Write/FTruncate on an fd, Truncate/Utimens/Access on `target_path`, Chmod/Chown on both tiers, Close, Unregister (force-close), CopySecondaryToLocal, FileFlush |
| WriteBackExporter | `cbb/local_file_exporter.{h,cc}` | `local_files_` (path -> mtime, mtime unused) under `mutex_`; a `Thread` | Register (check outside lock), Unregister, UnregisterAll, startup scan, `CheckLocalFiles` sweep every interval |
| BurstBufferService | `cbb/burst_buffer.cc`, `cbb/cbb.cc` | none of its own | one handler per RPC method; file and directory Rename, Unlink, Link, Symlink, FilePrevRead, FileFlush, LocalFileExport, dispatch |
| RequestRouter (client) | `cbb/burst_buffer_client.cc` | `g_fuse_mutex`, `g_files`, read-ahead fields `prev_read_dir_`, `target_filename_` | `MSGPACK_CLIENT_CALL` retry macro, single-node vs broadcast calls, GetAttrEx probing, read-ahead thread |
| Thread | `util/thread.cc`, `util/mutex.cc` | `thread_info_.is_loop`, the thread id | Create, Threading loop, Release (join) |
| FUSE adaptor | `cbfs/*` | none | one wrapper per FUSE operation |

How they interact:
1. A FUSE call reaches the client, which asks the HashRouter for the owner of the path.
2. The call goes to that node, or to every node for namespace operations (mkdir, rmdir, directory rename, …), under the process-wide `g_fuse_mutex`.
3. On the server, a pool of `Server.thread` threads runs the handlers. Handlers call the TieredStorageManager and, for open-for-write, create, unlink, rename and release, the WriteBackExporter.
4. The exporter thread independently sweeps its registry under `mutex_` and copies modified local files to secondary.
5. After every Open, the client starts a read-ahead thread. That thread lists the directory on every node and asks for a `FilePrevRead` (copy secondary -> local) of every sibling.

What makes the system hard:
- Several clients and several server threads act on one node at once.
- The sweep runs concurrently with handlers that do not take its mutex.
- Descriptor numbers are shared between server and client and reused by the kernel.
- Decisions are made by comparing whole-second mtimes.
- Handlers such as Rename and Open do several steps, and any of them can fail.
- The client retries RPCs (or fails to) while holding a global lock.

## 2. Modules

| Module | Models | Status |
|---|---|---|
| `HashRing` | ConsistentHash and the two digest folds; a lookup state machine | done |
| `AbstractFS` | what a node promises: a flat POSIX file store with handles (content per name, handles follow renames and become orphans on unlink, fresh versions per write) | done |
| `BBNode` | one server node: both tiers, the fd table, client handles, the exporter registry and sweep, and the file handlers. Instantiates `AbstractFS` through a refinement mapping | done (file handlers) |
| `MC_BBNode` | model values, small sets and symmetry for `BBNode` | done |
| `DirRename` | the directory branch of `BurstBuffer::Rename` on one node: both recursive-iterator loops, `remove_all`, the secondary rename or merge | done |
| `DirTrees` | helpers shared by the tree models: relative paths, parents, children, prefix-closed trees | done |
| `NodeTree` | one node's namespace as local and secondary trees: MkDir, RmDir, Create, Release, Unlink, Symlink, Link, the exporter sweep (timer or LocalFileExport), and a crash and restart of the server | done (namespace handlers) |
| `ThreadLifecycle` | `cbb::Thread`: `Create`, `Threading`, `Release`, over the unsynchronised `thread_info_` | done |
| `RpcClient` | `BurstBufferClient`: `MSGPACK_CLIENT_CALL`, every method as a program of RPCs, GetAttrEx probing, the read-ahead thread; composed with the FUSE wrappers' `g_files` | done (client side) |
| `MC_RpcClient` | the operation sets for `RpcClient`, which a cfg cannot give as strings | done |

### HashRing
- A digest is a sequence of `DigestLen` digits of `DigitBits` bits, and every sequence is a possible digest. The key width is `DigitBits * DigestLen`, as `GetKeyBits` returns 8·16 or 8·20.
- `DigitValue` reads a digit as unsigned (MD5's `unsigned char`). It reads it as sign-extended when `HashKind = "SHA1"` and `CharIsSigned` (SHA1's plain `char hash[20]`).
- SHA1's byte swap within words only permutes the digest bytes, which the "every sequence" abstraction already covers.
- `CalcNodePointValue`, `Create` and `GetNode` translate the ring code, including the first-match scan and the `empty_` sentinel.
- `Init` builds the ring for a fleet of 1..`MaxFleet` servers. `GetInfo(d)` looks a digest up.

### BBNode
State:

| Variable | Code |
|---|---|
| `lfile`, `idata` | local root as names -> inodes, inode -> (version, mtime). Descriptors survive unlink and rename of their name. |
| `sfile` | secondary root: name -> (version, mtime) |
| `fds` | the server process's descriptors: number -> (inode, writable); `open(2)` returns the lowest free number |
| `table` | `MetaDataManager::table_` |
| `handles` | the client's `File` (path at open time, `fd_org`, writable) |
| `registry` | keys of `local_files_` |
| `sweep`, `todo`, `erase` | `CheckLocalFiles` holding `mutex_`, the entries left to visit, `erase_filename` |
| `now`, `nextVer` | `time(NULL)` in seconds; the next content version |

Actions, one per handler, each the whole handler:
- `Open(h,p,flag)`:
  - unregisters only for `O_WRONLY`, because of the precedence of `&` and `!=`;
  - then `PromoteOnOpen`, which is `CopySecondaryToLocal` when the file is on secondary only;
  - then `open(2)`, which can fail with EMFILE when no descriptor is free, or for any reason when `OpenMayFail`.
- `Create`: unregisters, then creates the file.
- `Write`, `FTruncate`: `pwrite`/`ftruncate` on the number the client holds, whatever it refers to now.
- `Truncate`, `Utimens`: act on `target_path` only.
- `Release`: `Close`, then `Register`.
- `Unlink`: unregister and force-close; unlink local, then secondary.
- `Rename` (file branch): unregister, remove the secondary old name, copy with `fail_if_exists`, remove the local file regardless; a secondary-only file is renamed. `table_` is untouched.
- `FilePrevRead`: `CopySecondaryToLocal` with no local-absent check.
- `FileFlush`: force-close.
- `SweepBegin`, `SweepEntry(p)`, `SweepEnd`: `CheckLocalFiles`; `LocalFileExport` runs the same sweep.
- `Tick`: the clock.

Abstractions:
- Copies do not preserve mtimes (boost `copy_file` copies data and permissions). The copy gets the current second.
- A handler runs as one step. A handler that takes the exporter `mutex_` is enabled only when no sweep holds it. Open, Create, Unlink and Rename take the mutex first; Release takes it last, after a `Close` that changes no file content. So running these handlers whole after the sweep gives the same outcomes.
- The sweep visits one entry per step, so writes, read-only opens, `FilePrevRead` and `Utimens` interleave with it. It visits entries in any order; the code's order is alphabetical.
- The FUSE kernel looks a name up before open and create. `Open` is therefore enabled only for a visible name, and `Create` only for an absent one.
- Client behaviours that the code does not guard against are CONSTANT switches, so that a run states the workload it assumes: `RenameOntoExisting`, `RenameOpenFiles`, `UnlinkOpenFiles`, `FlushOpenFiles`, `SetTimes`, `TruncateByName`, `OpenMayFail`.

Refinement mapping to `AbstractFS`:
- `content[p]` is the version `target_path(p)` resolves to.
- A handle's path is its open-time path while its descriptor number still refers to the inode that path links; otherwise the handle is `Orphan`.
- `next` is `nextVer`.

BBNode's helpers `RegisterFd`/`UnregisterFd` (`MetaDataManager::Register/Unregister(path, fd)`), `Register`/`ExporterUnregister` (`LocalFileExporter`) and `CloseAll` (`MetaDataManager::Unregister(path)`) are the calls the handlers make, so every handler action is the whole handler.

### DirRename
State: the local tree under the old name (`ltree`, with `orig` its value when the request arrived), the local tree under the new name (`lnew`), the secondary trees under both names (`sold`, `snew`), `is_rename`, the iterator as a stack of the entries still to visit at each depth, and `acc`, the relative path that the strings `local` and `second` hold. A tree maps relative paths of at most `MaxDepth` names to `"none"`, `"dir"` or a content (`"new"` local, `"old"` an older secondary copy).
- `Start`: `UnregisterAll`; `is_rename` is false when secondary already has the new name.
- `CopyVisit` picks any unvisited sibling (readdir order is not chosen by the code). `CopyDir` appends the name to `acc`. `CopyFile` tests `local + filename` and copies it; `copy_file` throws when the path names a directory or the target directory is missing (`pc = "thrown"`: dispatch answers `req.error`). `CopyAscend` pops the stack and, like the code, leaves `acc` alone.
- `RemoveAndRename`: `remove_all`, then the secondary rename when `is_rename`.
- `MirrorVisit`/`MirrorAscend`: the second loop, creating `local` directories with the same accumulating string.
- Start states: every local tree, and a secondary tree with the same directories (MkDir creates both; `DuplicateDirSecondaryToLocal` mirrors secondary's at startup) holding older copies of some files.

### NodeTree
State: `local` and `second` map relative paths to `"none"`, `"dir"`, `"file"`, `"vlink"` (a virtual link, a regular file written by `write_one_line`) or `"link"` (symlink(2) to a directory). `fresh` holds the local files newer than their secondary copy, which is all the sweep's mtime comparison needs. `opened`, `registry`, the sweep's `todo`/`erase`, `stuck` (mutex_ locked by a sweep that threw under the RPC) and `crashed`.
- `MkDir`, `RmDir`: each tier separately, as the code does; `RmDirOn` removes a directory from a tier only when it is empty there. The local result is the reply.
- `Create`, `Release`: `Unregister`, `open(O_CREAT)` on local (ENOENT without the local directory), and `Register` on release. `Unlink`: both tiers. Unlink of a file still held open is left to `BBNode`.
- `Symlink`, `Link`: the client sends a virtual link unless the target is a directory (`VirtualLink`); a directory gets symlink(2) on each tier that has it; link(2) of a directory fails.
- `SweepBegin(by)`, `SweepEntry`, `SweepEnd`: `CheckLocalFiles` from the timer thread or the `LocalFileExport` RPC. `CopyThrows` is boost `copy_file`'s failure (source not a regular file, secondary directory missing, target a directory); the exception ends the process on the thread, and leaves `mutex_` locked under the RPC, whose dispatch catches it.
- `Restart`: the constructor's `DuplicateDirSecondaryToLocal` and the exporter's `SearchLocalFiles`, at most `MaxRestarts` times.
- Start states: any secondary tree, local holding its directories (a new node's constructor run on an empty local tier).

### ThreadLifecycle
Callers run `Create` (`Spawn` = `pthread_create`, then `SetLoop`, then `SetPtr`, each its own step because `thread_info_` is unsynchronised) and `Release` (`ReleaseClear` sets `is_loop` false, `ReleaseJoin` joins, `ReleaseInit`). Workers run `Threading`: `Check` of `is_loop`, `Loop` (sleep or due), `CallThread`. `Continue` chooses what `ThreadCall` returns: TRUE for the exporter, FALSE for the read-ahead.

### RpcClient
Threads: the FUSE threads and the read-ahead pthreads `RAs` (one per Open at most). Each method of the client is a record of `Program` (single node, broadcast over `FleetSize` servers, GetAttrEx probes, the branches on S_ISDIR). Every RPC is `MutexLock` (`g_fuse_mutex`), then `Reply`, `Fault` (transport error: the macro's retry) or `RemoteError` (unlock and `abort()`). An Open that succeeds runs `StartPrevFileRead` and then `Thread::Create`, one line per step:
- `ReleaseCheck` and `ReleaseJoin` (`Release`);
- `ThreadInit`;
- `Spawn` (`pthread_create`);
- `MutexInit` (resets the lock word `lw`);
- `SetLoop`, then `SetPtr`.

Each pthread runs `Threading`:
- `WorkerCheck` reads `is_loop` and `thread_ptr`;
- `WorkerLock` follows glibc's CAS, then swap-to-2 and sleep;
- `ThreadCall` lists the directory on every node and sends `FilePrevRead` for each sibling;
- `WorkerUnlock` swaps in 0 and wakes one sleeper only if the word was 2. The FUSE wrappers are composed in: `Begin` models the wrapper's `g_files[fi->fh]` lookup and `WrapperReturn` models the insertion by open/create. `fh` is the pair `(addr_to_binary(host), fd)` because TLC integers are 32-bit.

## 3. Runs and what they show

| Run | Expect | Property | Shows |
|---|---|---|---|
| `hashring_md5` | pass | `TypeOK`, `LookupMatchesReference`, `EveryServerReachable` | every MD5 lookup, fleets of 1–4, lands in the server of a reference range partition, and every server owns keys |
| `bbnode_refines` | pass | `TypeOK`, `RefinesAbstractFS` | with disciplined clients the node is a POSIX file store; covers promotion, read-ahead, concurrent sweeps, EMFILE, descriptor reuse (50k states) |
| `bbnode_export` | pass | `ExportCoverage`, `TableTracksDescriptors` | every closed local file that secondary lacks stays registered, including after Utimens to any time; `table_` lists exactly the open descriptors clients hold, under the path each opened, so Unlink's and FileFlush's close-all never reaches a number reused by another file (388k states) |
| `bbnode_rename_existing` | violation | `RenameMovesContent` | a file rename onto an existing name destroys the source and leaves the target's old content |
| `bbnode_unlink_open` | violation | `RefinesAbstractFS` | unlink force-closes fd 1, Create reuses fd 1, and the stale handle now refers to the new file |
| `bbnode_export_liveness` | violation | `ExportEventually` | a write in the same second as secondary's mtime is never exported |
| `dirrename_files` | violation | `RenameKeepsFiles` | renaming `{a/, b}` with `a/` listed first: `b` is looked up as `a/b`, skipped, and deleted by `remove_all` |
| `nodetree_rmdir_export` | violation | `ExporterAlive` | Create `b/a` in a directory inherited from secondary, Release, RmDir `b` (local fails, secondary's empty `b` goes), and the timer sweep's `copy_file` throws: the server terminates; after a restart the same file is registered again |
| `thread_exporter` | pass | `AtMostOneWorker`, `ReleaseReturns` | one caller's Create/Release sequences never leave two workers running, and every Release's join returns |
| `client_calls` | pass | `HandleRoutesToOpener` | two FUSE threads, every registered operation, and the read-ahead pthreads their Opens start, over two IPv4 servers: every open file's `fh` finds its own File in `g_files` (163k states) |
| `client_retry` | violation | `RetryBound` | a transport error ends the process after one attempt, not the design's three |
| `client_file_branch` | violation | `DomainErrorReturned` | Rename of a file returns 0 when the RPC answered −1: the inner `Error error` shadows the returned one |

`TypeOK` of `BBNode` also states that a running sweep's `todo` and `erase` stay within the registry. That fails in `bbnode_refines` as soon as a handler changes `local_files_` without the mutex (mutant `UnlinkUnlocked`).

Other disagreements found while modelling are recorded as hazards in `PROJECT.json` with the evidence, without a run of their own: the SHA1 fold reads signed chars, so with two servers the second gets no path (`EveryServerReachable` fails under `HashKind = "SHA1"`), but the client builds its router with MD5 only; RmDir reports success for a directory whose files are on secondary only; virtual link files are never registered for export; `O_RDWR` opens stay registered; a failed `O_WRONLY` open unregisters; `Thread::Create` starts the worker before setting `is_loop`, so the exporter can exit before its first sweep (`WorkerEventuallyCalls` in `ThreadLifecycle` states the promise); non-IPv4 hosts make every `fh` collide (`HandleRoutesToOpener` fails with `HostsAreIPv4 = FALSE`). FSyncDir sends `kFSync` two params where the server's dispatch converts three, so every fsyncdir ends in `ARGUMENT_ERROR` and the client's `abort()` (`ShortParams`).

The client's read-ahead `Thread` is shared by every FUSE thread and `Thread::Create` takes no lock. `RpcClient` runs Create, Release and Init line by line and models glibc's lock word of the `Thread` mutex, and `client_calls` reaches three bad outcomes:
- two Opens at once make `Mutex::Init` re-initialise a mutex a read-ahead pthread holds or waits on, so a waiter sleeps forever (a lost wakeup) or two pthreads run `ThreadCall` together;
- a pthread that sees `is_loop` before `thread_ptr` is set calls through NULL;
- two Opens join the same pthread.

No run states these as violations, because the run budget is spent on the findings above. They are hazards in `PROJECT.json`, and `Terminated` counts a pthread asleep on the mutex as finished.

Bounds:
- **`bbnode_refines`:** 2 paths, 2 handles, 1 descriptor (so EMFILE occurs), 3 inodes, times 0..1, 2 writes. **`bbnode_export`:** the same with 2 descriptors and 4 inodes. Two names give rename and reuse between files, two handles give a second opener and EMFILE, two seconds give equal and unequal mtimes, two writes give a write after a copy. Names, handles and inodes are symmetric in the safety runs; the liveness run has no symmetry and uses 1 path, 1 handle and 1 descriptor.
- **`dirrename_files`:** names `{a, b}`, depth 2: a subdirectory and a sibling file, the least that shows the accumulation.
- **`nodetree_rmdir_export`:** names `{a, b}`, depth 2 (a directory and a file in it), one restart.
- **`thread_exporter`:** one caller making up to 3 Create/Release calls in any order, so a second Create can start while the first worker still runs.
- **`client_calls`:** 2 FUSE threads with 1 call each (so two Opens can run `Thread::Create` at once, with 2 read-ahead pthreads), every registered operation, 2 servers, 1 fault, remote errors on, 2 siblings for the read-ahead, 1 descriptor per node.

Fairness:
- `BBNode`: only the exporter is fair (`WF` on `SweepBegin`, `SweepEntry`, `SweepEnd`): `Thread::Threading` calls `CheckLocalFiles` every interval while `is_loop` holds. Clients owe nothing.
- `ThreadLifecycle`: weak fairness on each caller's Release steps and on each worker's steps; the OS schedules every runnable thread.
- `RpcClient`: no fairness. Its runs check safety only. No liveness is claimed, because a pthread can sleep forever on the `Thread` mutex after a concurrent `Mutex::Init`.

## 4. Plan for the remaining sittings

1. **Namespace composition:** directory Rename as an action of `NodeTree`, and POSIX rmdir and rename rules stated over the visible tree.
2. **Fleet:** 2 nodes with one secondary behind `RpcClient`: broadcasts with the last server's result, and one owner per file.
3. **Finer-grained handlers:** Register's check-then-lock, FilePrevRead's check-then-copy racing a write, and crashes between a rename's steps.

## 5. Not modelled, and why

- **Data races that are undefined behaviour:** `table_` under concurrent handlers, and the static `tmp_result` of `errno_to_cbb_error`. The model runs each handler atomically.
- **Content and formatting:** byte ranges, offsets and sizes are abstracted to versions. Reads do not change state. Logging, settings parsing and the msgpack encoding are out.
- **`mutex_file.cc`:** it is unused.
- **Server dispatch and msgpack decoding** (`BurstBuffer::dispatch`): the method-code switch is the choice of action; its `type_error` and `std::exception` answers appear as the client's `RemoteError` and DirRename's `"thrown"` end.
- **Read-only handlers** (GetAttr, ReadDir, ReadLink, StatFs, Access, GetXAttr, ListXAttr): they change no state on the node; their results appear in `RpcClient` as reply values.
- **Settings, options, unit tests:** configuration parsing with no concurrency or state after start.

