--------------------------- MODULE ThreadLifecycle ---------------------------
(***************************************************************************)
(* cbb::Thread (util/thread.cc): the periodic worker used by the node's    *)
(* LocalFileExporter (one Create at startup, ThreadCall returns true) and  *)
(* by the client's read-ahead (a Create on every Open, ThreadCall returns  *)
(* false).  Callers are the threads that call Create and Release on one    *)
(* Thread object; each pthread the object starts is a worker running       *)
(* Thread::Threading over the shared thread_info_.                         *)
(*                                                                         *)
(* The fields of thread_info_ and thread_id_ are plain memory written by   *)
(* callers and read by workers without synchronisation.  The model gives   *)
(* each load and store its own step, in program order, over sequentially   *)
(* consistent memory: the outcomes a compiled build can show include       *)
(* these interleavings.  Time is abstracted: a worker whose next_time has  *)
(* not come sleeps and rechecks is_loop; the sleeps in between only        *)
(* recheck is_loop again, so one sleep step stands for all of them.        *)
(***************************************************************************)
EXTENDS Naturals, FiniteSets

CONSTANTS
    Callers,     \* threads calling Create / Release on the one object
    MaxOps,      \* Create or Release calls per caller
    Continue     \* what ThreadCall returns: TRUE exporter, FALSE read-ahead

ASSUME MaxOps \in Nat \ {0} /\ Continue \in BOOLEAN

\* Worker identities: one per pthread_create the callers can make.
Workers == 1..(Cardinality(Callers) * MaxOps)
NoThread == 0

VARIABLES
    pc,        \* pc[c]: where caller c is inside Create / Release
    op,        \* op[c]: "create" or "release", the call c is making
    nops,      \* nops[c]: calls c has made
    threadId,  \* thread_id_
    isLoop,    \* thread_info_.is_loop
    ptrSet,    \* thread_info_.thread_ptr # NULL
    spawned,   \* workers started so far
    wpc,       \* wpc[w]: where worker w is in Threading
    due,       \* due[w]: next_time <= now for worker w
    wresult,   \* wresult[w]: Threading's local `result`
    wcalled,   \* wcalled[w]: worker w has run ThreadCall
    crashed    \* the process died dereferencing a NULL thread_ptr

vars == <<pc, op, nops, threadId, isLoop, ptrSet, spawned, wpc, due,
          wresult, wcalled, crashed>>

Live(w) == wpc[w] \in {"check", "loop", "call"}

\* Thread::Thread() -> Init(): no thread, not looping, no thread_ptr.
Init ==
    /\ pc = [c \in Callers |-> "idle"]
    /\ op = [c \in Callers |-> "none"]
    /\ nops = [c \in Callers |-> 0]
    /\ threadId = NoThread
    /\ isLoop = FALSE
    /\ ptrSet = FALSE
    /\ spawned = 0
    /\ wpc = [w \in Workers |-> "unborn"]
    /\ due = [w \in Workers |-> TRUE]
    /\ wresult = [w \in Workers |-> TRUE]
    /\ wcalled = [w \in Workers |-> FALSE]
    /\ crashed = FALSE

Step(c, from, to) == pc[c] = from /\ pc' = [pc EXCEPT ![c] = to]

WorkerVars == <<spawned, wpc, due, wresult, wcalled>>

\* Fault variant: a Create that starts its thread without the Release() call.
CallSkipRelease(c, kind) ==
    /\ ~crashed
    /\ nops[c] < MaxOps
    /\ Step(c, "idle", IF kind = "create" THEN "spawn" ELSE "clear")
    /\ op' = [op EXCEPT ![c] = kind]
    /\ nops' = [nops EXCEPT ![c] = @ + 1]
    /\ UNCHANGED <<threadId, isLoop, ptrSet, crashed, WorkerVars>>

\* Fault variant: a Release that joins without clearing is_loop first.
ReleaseClearKeepLoop(c) ==
    /\ ~crashed
    /\ Step(c, "clear", "join")
    /\ UNCHANGED <<op, nops, threadId, isLoop, ptrSet, crashed, WorkerVars>>

\* A caller starts Thread::Create or Thread::Release.
Call(c, kind) ==
    /\ ~crashed
    /\ nops[c] < MaxOps
    /\ Step(c, "idle", "clear")
    /\ op' = [op EXCEPT ![c] = kind]
    /\ nops' = [nops EXCEPT ![c] = @ + 1]
    /\ UNCHANGED <<threadId, isLoop, ptrSet, crashed, WorkerVars>>

\* Release: thread_info_.is_loop = false.
ReleaseClear(c) ==
    /\ ~crashed
    /\ Step(c, "clear", "join")
    /\ isLoop' = FALSE
    /\ UNCHANGED <<op, nops, threadId, ptrSet, crashed, WorkerVars>>

\* Release: if (thread_id_ != 0) { pthread_join(thread_id_); thread_id_ = 0; }
ReleaseJoin(c) ==
    /\ ~crashed
    /\ Step(c, "join", "init")
    /\ \/ threadId = NoThread /\ UNCHANGED threadId
       \/ threadId # NoThread /\ wpc[threadId] = "exited" /\ threadId' = NoThread
    /\ UNCHANGED <<op, nops, isLoop, ptrSet, crashed, WorkerVars>>

\* Release: Init() clears thread_id_, is_loop and thread_ptr; Release
\* returns here, Create goes on to pthread_create.
ReleaseInit(c) ==
    /\ ~crashed
    /\ Step(c, "init", IF op[c] = "create" THEN "spawn" ELSE "idle")
    /\ threadId' = NoThread
    /\ isLoop' = FALSE
    /\ ptrSet' = FALSE
    /\ UNCHANGED <<op, nops, crashed, WorkerVars>>

\* Create: pthread_create(&thread_id_, ..., Threading, &thread_info_).
Spawn(c) ==
    /\ ~crashed
    /\ Step(c, "spawn", "setloop")
    /\ LET w == spawned + 1 IN
         /\ spawned' = w
         /\ threadId' = w
         /\ wpc' = [wpc EXCEPT ![w] = "check"]
         /\ due' = [due EXCEPT ![w] = TRUE]
         /\ wresult' = [wresult EXCEPT ![w] = TRUE]
    /\ UNCHANGED <<op, nops, isLoop, ptrSet, crashed, wcalled>>

\* Create: if (thread_id_ != 0) { Mutex::Init(); is_loop = true; ...
SetLoop(c) ==
    /\ ~crashed
    /\ pc[c] = "setloop"
    /\ IF threadId # NoThread
       THEN pc' = [pc EXCEPT ![c] = "setptr"] /\ isLoop' = TRUE
       ELSE pc' = [pc EXCEPT ![c] = "idle"] /\ UNCHANGED isLoop
    /\ UNCHANGED <<op, nops, threadId, ptrSet, crashed, WorkerVars>>

\* ... interval_time, thread_ptr = this, user_data }; Create returns.
SetPtr(c) ==
    /\ ~crashed
    /\ Step(c, "setptr", "idle")
    /\ ptrSet' = TRUE
    /\ UNCHANGED <<op, nops, threadId, isLoop, crashed, WorkerVars>>

\* Fault variant: a loop condition that ignores ThreadCall's result.
CheckIgnoreResult(w) ==
    /\ ~crashed
    /\ wpc[w] = "check"
    /\ wpc' = [wpc EXCEPT ![w] = IF isLoop THEN "loop" ELSE "exited"]
    /\ UNCHANGED <<pc, op, nops, threadId, isLoop, ptrSet, spawned, due,
                   wresult, wcalled, crashed>>

\* Threading: while (info->is_loop && result) { ... } return NULL;
Check(w) ==
    /\ ~crashed
    /\ wpc[w] = "check"
    /\ wpc' = [wpc EXCEPT ![w] = IF isLoop /\ wresult[w] THEN "loop" ELSE "exited"]
    /\ UNCHANGED <<pc, op, nops, threadId, isLoop, ptrSet, spawned, due,
                   wresult, wcalled, crashed>>

\* Threading: if (next_time <= now_time) run the call, else sleep.
Loop(w) ==
    /\ ~crashed
    /\ wpc[w] = "loop"
    /\ IF due[w] THEN wpc' = [wpc EXCEPT ![w] = "call"] /\ UNCHANGED due
       ELSE wpc' = [wpc EXCEPT ![w] = "check"] /\ due' = [due EXCEPT ![w] = TRUE]
    /\ UNCHANGED <<pc, op, nops, threadId, isLoop, ptrSet, spawned, wresult,
                   wcalled, crashed>>

\* Threading: info->thread_ptr->Lock(); result = ThreadCall(); Unlock();
\* a NULL thread_ptr is a segmentation fault of the whole process.
CallThread(w) ==
    /\ ~crashed
    /\ wpc[w] = "call"
    /\ IF ~ptrSet
       THEN crashed' = TRUE /\ UNCHANGED <<wpc, due, wresult, wcalled>>
       ELSE /\ crashed' = FALSE
            /\ wpc' = [wpc EXCEPT ![w] = "check"]
            /\ due' = [due EXCEPT ![w] = FALSE]
            /\ wresult' = [wresult EXCEPT ![w] = Continue]
            /\ wcalled' = [wcalled EXCEPT ![w] = TRUE]
    /\ UNCHANGED <<pc, op, nops, threadId, isLoop, ptrSet, spawned>>

\* The process has exited (crash) or every thread has finished.
Terminated ==
    /\ \/ crashed
       \/ /\ \A c \in Callers : pc[c] = "idle" /\ nops[c] = MaxOps
          /\ \A w \in Workers : ~Live(w)
    /\ UNCHANGED vars

CallerNext(c) ==
    \/ \E kind \in {"create", "release"} : Call(c, kind)
    \/ ReleaseClear(c) \/ ReleaseJoin(c) \/ ReleaseInit(c)
    \/ Spawn(c) \/ SetLoop(c) \/ SetPtr(c)

WorkerNext(w) == Check(w) \/ Loop(w) \/ CallThread(w)

Next ==
    \/ \E c \in Callers : CallerNext(c)
    \/ \E w \in Workers : WorkerNext(w)
    \/ Terminated

Spec == Init /\ [][Next]_vars

\* The OS keeps scheduling every runnable thread; no caller is obliged to
\* make another call.
FairSpec ==
    /\ Spec
    /\ \A c \in Callers :
         WF_vars(ReleaseClear(c) \/ ReleaseJoin(c) \/ ReleaseInit(c)
                 \/ Spawn(c) \/ SetLoop(c) \/ SetPtr(c))
    /\ \A w \in Workers : WF_vars(WorkerNext(w))

-----------------------------------------------------------------------------
TypeOK ==
    /\ pc \in [Callers -> {"idle", "clear", "join", "init", "spawn", "setloop", "setptr"}]
    /\ op \in [Callers -> {"none", "create", "release"}]
    /\ nops \in [Callers -> 0..MaxOps]
    /\ threadId \in {NoThread} \cup Workers
    /\ isLoop \in BOOLEAN /\ ptrSet \in BOOLEAN /\ crashed \in BOOLEAN
    /\ spawned \in 0..Cardinality(Workers)
    /\ wpc \in [Workers -> {"unborn", "check", "loop", "call", "exited"}]
    /\ due \in [Workers -> BOOLEAN] /\ wresult \in [Workers -> BOOLEAN]
    /\ wcalled \in [Workers -> BOOLEAN]

(* Thread::Create first Releases the object, joining the thread it      *)
(* started before, so one Thread object never has two Threading loops    *)
(* running at once (two would both run ThreadCall on the same state).    *)
AtMostOneWorker ==
    Cardinality({w \in Workers : Live(w)}) <= 1

(* A Release (or the Release inside Create) that waits in pthread_join   *)
(* eventually returns: clearing is_loop makes the joined Threading loop  *)
(* leave at its next check.                                              *)
ReleaseReturns ==
    \A c \in Callers : (pc[c] = "join") ~> (pc[c] # "join" \/ crashed)

Releasing == \E c \in Callers : pc[c] \in {"clear", "join", "init"}

(* A thread that Create starts runs ThreadCall at least once (the        *)
(* exporter's first CheckLocalFiles, the read-ahead's prefetch) unless a *)
(* Release begins first.                                                 *)
WorkerEventuallyCalls ==
    \A w \in Workers :
        (wpc[w] = "check" /\ ~wcalled[w]) ~> (wcalled[w] \/ crashed \/ Releasing)
=============================================================================
