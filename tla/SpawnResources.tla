---------------------------- MODULE SpawnResources ----------------------------
(***************************************************************************)
(* What the service holds on behalf of a process from the moment its       *)
(* request is decoded until the process is gone: the reference counts of   *)
(* the kernel's SPM entries (modules/spm), the reference of a locked       *)
(* user's _preunlock directory with the mounts made there when the user    *)
(* unlocks (modules/sandbox/normal), and, in nwebspawn, the exit status    *)
(* kept for a later query.  Each is taken in one handler and has to be     *)
(* given back by exactly one of a dozen others: the abort hooks of a       *)
(* failing spawn, or the clean-up hooks of a dying process.                *)
(***************************************************************************)
EXTENDS Naturals, Sequences, FiniteSets, SequencesExt

CONSTANTS
    Jobs,          \* processes the service may be asked for
    Requests,      \* what they may be asked with
    SpmEntry,      \* the kernel's SPM entry of a token; uid 0 when it has none
    Users,         \* users that can be locked
    MaxDied,       \* MAX_DIED_PROCESS_COUNT
    MaxToggles,    \* bound: changes of a lock status
    MaxStarts,     \* bound: starts of the service
    Faults,        \* kernel calls that may fail
    MaxFaults      \* bound: SPM calls and rebuilds that do fail

ASSUME ResourcesAssumption ==
    /\ IsFiniteSet(Jobs)
    /\ MaxDied \in Nat \ {0} /\ MaxToggles \in Nat

VARIABLES
    mode,       \* "app" or "nweb"
    starts,     \* starts of the service so far
    job,        \* per process: where its record is and what the record holds
    proc,       \* per process: its state in the kernel
    cnt,        \* the kernel's SPM counts under this service's spawn id
    faulty,     \* SPM calls and rebuilds that failed so far
    lost,       \* counts no record remembers, or whose record was dropped without
                \* giving them back
    locked,     \* users whose startup.appspawn.lockstatus is not "0"
    toggles,
    lockMap,    \* g_lockBundleMap: references per lock path
    lockLeak,   \* those no context remembers
    mounts,     \* layers mounted below a lock path by unlock events
    groups,     \* dataGroupCtxQueue
    shared,     \* data groups some unlock event has mounted
    reserved,   \* the prefork child's copy of lockMap and groups, or none
    worker,     \* the child mounting for an unlocked user: what is left to do
    died,       \* diedQueue, oldest first
    diedCount,  \* diedAppCount
    deaths,     \* processes in the order they were cleaned up
    stale       \* a response was built from a message that is freed

vars == <<mode, starts, job, proc, cnt, faulty, lost, locked, toggles, lockMap, lockLeak, mounts,
          groups, shared, reserved, worker, died, diedCount, deaths, stale>>

LockVars == <<locked, toggles, lockLeak, mounts, groups, shared, reserved, worker>>
DiedVars == <<died, diedCount, deaths>>

Paths == {r.path : r \in Requests}
Keys == {<<"token", r.token>> : r \in Requests} \union {<<"uid", r.uid>> : r \in Requests}
NoWorker == [paths |-> {}, groups |-> {}]
NoSnapshot == [paths |-> {}, groups |-> {}, pid |-> FALSE]

None == [st |-> "none"]
May(f) == {FALSE} \union (IF f \in Faults THEN {TRUE} ELSE {})

(***************************************************************************)
(* Rebuilding the message from SPM.                                        *)
(***************************************************************************)
\* An nweb or isolated process has a uid of its own.
Special(r) == mode = "nweb" \/ r.isolated

\* Mutant: the uid of the SPM entry also for an isolated process.
SpmUid(r) == SpmEntry[r.token].uid

\* The uid in the rebuilt message's DAC_INFO.
RebuiltUid(r) == IF Special(r) THEN r.uid ELSE SpmEntry[r.token].uid

\* What the counts depend on: whether the message was replaced, and its uid.
OriginalMsg(r) == [rebuilt |-> FALSE, uid |-> r.uid]
BuildAndReplaceMessage(r) == [rebuilt |-> TRUE, uid |-> RebuiltUid(r)]

\* The token attribute must be the kernel's; so must the uid, unless the
\* process is an nweb or isolated one.
ValidateSpmDataConsistency(r) ==
    /\ r.attr = SpmEntry[r.token].attr
    /\ r.uid = SpmEntry[r.token].uid \/ Special(r)

\* A process with a uid of its own must be the only one that has it, unless the
\* entry has no uid to compare with.
ValidateUidRefCount(r, c) ==
    \/ ~Special(r)
    \/ SpmEntry[r.token].uid = 0
    \/ r.isolated /\ r.uid = SpmEntry[r.token].uid
    \/ c[<<"uid", r.uid>>] = 1

Key(kind, r, uid) == IF kind = "token" THEN <<"token", r.token>> ELSE <<"uid", uid>>
KeysOf(refs, r, uid) == {Key(k, r, uid) : k \in refs}

Inc(c, keys) == [k \in Keys |-> IF k \in keys THEN c[k] + 1 ELSE c[k]]

\* SpmDec fails on a count that is zero.
Dec(c, keys) == [k \in Keys |-> IF k \in keys /\ c[k] > 0 THEN c[k] - 1 ELSE c[k]]

\* What the kernel counted, the token first, and what spmRefAdded remembers of
\* it: a uid count that is not supported (EOPNOTSUPP) forgets the token's.
Both == {"token", "uid"}
IncreaseRefCounts ==
    {[counted |-> Both, added |-> Both]}
    \union (IF "inc" \in Faults
            THEN {[counted |-> c, added |-> c] : c \in {{}, {"token"}}} ELSE {})
    \union (IF "nosupp" \in Faults THEN {[counted |-> {"token"}, added |-> {}]} ELSE {})

\* The checks that come before the message is built.
Rebuildable(r, i) ==
    /\ i.added = Both
    /\ ValidateSpmDataConsistency(r)
    /\ ValidateUidRefCount(r, Inc(cnt, KeysOf(i.counted, r, r.uid)))

Outcome(r, i, m) ==
    [c |-> Inc(cnt, KeysOf(i.counted, r, r.uid)),
     lost |-> Inc(lost, KeysOf(i.counted \ i.added, r, r.uid)),
     refs |-> i.added, msg |-> m,
     cost |-> IF i.added = Both /\ (m.rebuilt \/ ~Rebuildable(r, i)) THEN 0 ELSE 1]

\* The outcomes of RebuildMessageFromSPM, which never fails a spawn: without
\* the counts, the entry, the consistency or the memory the message stays.
RebuildMessageFromSPM(r) ==
    {Outcome(r, i, BuildAndReplaceMessage(r)) : i \in {x \in IncreaseRefCounts : Rebuildable(r, x)}}
    \union
    {Outcome(r, i, OriginalMsg(r)) :
        i \in {x \in IncreaseRefCounts : "rebuild" \in Faults \/ ~Rebuildable(r, x)}}

(***************************************************************************)
(* Lock paths.                                                             *)
(***************************************************************************)
\* nwebspawn has no part in it; user 0 is never locked.
TakesLockRef(r) == mode = "app" /\ r.user \in locked

AddLockBundleRef(m, p) == [m EXCEPT ![p] = @ + 1]

\* The data groups of the request; those on el5 take a permission.
ParseDataGroupList(r) == {g \in r.groups : g.level = "el5" => r.protect}

\* A spawn for a locked user references the lock path, which all processes of
\* the bundle share, and queues its data groups, each once.  The context
\* remembers the reference (lockBundleRefAdded) unless strdup fails.
MountDirToShared(r, remembered) ==
    IF TakesLockRef(r)
    THEN [lockMap |-> AddLockBundleRef(lockMap, r.path),
          lockLeak |-> IF remembered THEN lockLeak ELSE AddLockBundleRef(lockLeak, r.path),
          groups |-> groups \union ParseDataGroupList(r)]
    ELSE [lockMap |-> lockMap, lockLeak |-> lockLeak, groups |-> groups]

\* What lockBundleRefAdded may be afterwards.
LockRefAdded(r) ==
    IF ~TakesLockRef(r) THEN {FALSE} ELSE {TRUE} \union {~x : x \in May("strdup")}

\* Mutant: the path is given up with the first of its processes.
ReleaseLockBundle(m, p) == [m EXCEPT ![p] = 0]

ReleaseLockBundleRef(m, p) == [m EXCEPT ![p] = IF @ > 0 THEN @ - 1 ELSE @]

\* UnmountLockedBundleMounts takes off one layer, with the last reference.
UnmountOne(before, after) ==
    [p \in Paths |-> IF before[p] > 0 /\ after[p] = 0 /\ mounts[p] > 0
                     THEN mounts[p] - 1 ELSE mounts[p]]

(***************************************************************************)
(* Giving back.                                                            *)
(***************************************************************************)
\* OnSpawnAbortUpdateRefCount with the uid of the context's message, and
\* SpawnFailedHook; `failing' are the counts the kernel refuses to decrement.
\* OnAppExitUpdateRefCount and AppCleanupHook do the same with the values the
\* record of the spawned process was given.
GiveBack(c, o, l, n, r, uid, refs, lockRef, failing) ==
    LET keys == KeysOf(refs \ failing, r, uid)
    IN  /\ cnt' = Dec(c, keys)
        /\ faulty' = n + Cardinality(failing) /\ faulty' <= MaxFaults
        /\ lost' = Inc(o, KeysOf(refs \intersect failing, r, r.uid))
        /\ lockMap' = (IF lockRef THEN ReleaseLockBundleRef(l, r.path) ELSE l)
        /\ mounts' = UnmountOne(l, lockMap')

DecFailures(refs) == IF "dec" \in Faults THEN SUBSET refs ELSE {{}}

\* STAGE_SERVER_SPAWN_ABORT, then DeleteAppSpawningCtx.
AbortSpawn(j) ==
    /\ \E f \in DecFailures(job[j].refs) :
          GiveBack(cnt, lost, lockMap, faulty, job[j].req, job[j].msg.uid, job[j].refs, job[j].lockRef, f)
    /\ job' = [job EXCEPT ![j] = [st |-> "gone"]]

\* STAGE_SERVER_APP_CLEANUP.
AppCleanup(j) ==
    \E f \in DecFailures(job[j].refs) :
        GiveBack(cnt, lost, lockMap, faulty, job[j].req, job[j].msg.uid, job[j].refs, job[j].lockRef, f)

(***************************************************************************)
(* Requests.                                                               *)
(***************************************************************************)
Up == starts > 0
Snapshot == [paths |-> {p \in Paths : lockMap[p] > 0}, groups |-> groups, pid |-> TRUE]

\* A spawn through the prefork child is followed by the fork of the next one,
\* which copies the tables as they are then.  A child process or a cold run
\* is forked on its own.
Refork(r, lm, gs) ==
    reserved' = IF r.normal \/ mode = "nweb" THEN reserved
                ELSE [paths |-> {p \in Paths : lm[p] > 0}, groups |-> gs, pid |-> TRUE]

\* ProcessSpawnReqMsg: decode, STAGE_PARENT_PRE_FORK (the lock reference and
\* the data groups first, then hooks that may fail), fork and watch.  The
\* error paths answer from the local message, which the decode hook may have
\* replaced and freed.
ProcessSpawnReqMsg(j, r) ==
    /\ Up /\ job[j] = None /\ r.kind = "spawn"
    /\ \E d \in RebuildMessageFromSPM(r), ref \in LockRefAdded(r), fails \in May("spawn") :
         LET shr == MountDirToShared(r, ref)
             cost == d.cost + (IF TakesLockRef(r) /\ ~ref THEN 1 ELSE 0)
             rec == [st |-> "spawning", req |-> r, msg |-> d.msg, refs |-> d.refs, lockRef |-> ref]
         IN  /\ groups' = shr.groups /\ lockLeak' = shr.lockLeak
             /\ IF fails
                THEN /\ stale' = (stale \/ d.msg.rebuilt)
                     /\ \E f \in DecFailures(d.refs) :
                          GiveBack(d.c, d.lost, shr.lockMap, faulty + cost, r, d.msg.uid, d.refs, ref, f)
                     /\ job' = [job EXCEPT ![j] = [st |-> "gone"]]
                     /\ UNCHANGED <<proc, reserved>>
                ELSE /\ job' = [job EXCEPT ![j] = rec]
                     /\ proc' = [proc EXCEPT ![j] = "alive"]
                     /\ cnt' = d.c /\ lost' = d.lost
                     /\ faulty' = faulty + cost /\ faulty' <= MaxFaults
                     /\ lockMap' = shr.lockMap
                     /\ Refork(r, shr.lockMap, shr.groups)
                     /\ UNCHANGED <<mounts, stale>>
    /\ UNCHANGED <<mode, starts, locked, toggles, shared, worker, DiedVars>>

\* ProcessCheckpointReqMsg has no abort hook: a failure drops the context
\* with its counts, and so does an image process, which is not recorded.
ProcessCheckpointReqMsg(j, r) ==
    /\ Up /\ job[j] = None /\ r.kind \in {"image", "worker"} /\ mode = "app"
    /\ \E d \in RebuildMessageFromSPM(r), fails \in May("spawn") :
         /\ cnt' = d.c /\ faulty' = faulty + d.cost /\ faulty' <= MaxFaults
         /\ stale' = (stale \/ d.msg.rebuilt)
         /\ IF fails \/ r.kind = "image"
            THEN /\ job' = [job EXCEPT ![j] = [st |-> "gone"]]
                 /\ lost' = Inc(d.lost, KeysOf(d.refs, r, r.uid))
                 /\ UNCHANGED proc
            ELSE /\ job' = [job EXCEPT ![j] = [st |-> "running", req |-> r, msg |-> d.msg,
                                               refs |-> d.refs, lockRef |-> FALSE]]
                 /\ proc' = [proc EXCEPT ![j] = "alive"]
                 /\ lost' = d.lost
    /\ UNCHANGED <<mode, starts, lockMap, LockVars, DiedVars>>

(***************************************************************************)
(* Answers and deaths.                                                     *)
(***************************************************************************)
Spawning(j) == Up /\ job[j].st = "spawning"
Running(j) == Up /\ job[j].st = "running"

\* The child reported success: the record takes over what the context holds,
\* or the child is killed when there is no record.
ProcessChildResponse(j) ==
    /\ Spawning(j)
    /\ job' = [job EXCEPT ![j].st = "running"]
    /\ UNCHANGED <<mode, starts, proc, cnt, faulty, lost, lockMap, LockVars, DiedVars, stale>>

\* The child reported an error; or AddSpawnedProcess failed, the connection
\* was closed or the time is over, and the child is killed.
SpawnFails(j) ==
    /\ Spawning(j)
    /\ AbortSpawn(j)
    /\ proc' = [proc EXCEPT ![j] = IF @ = "alive" THEN "zombie" ELSE @]
    /\ UNCHANGED <<mode, starts, locked, toggles, lockLeak, groups, shared, reserved, worker, DiedVars, stale>>

ProcessDies(j) ==
    /\ proc[j] = "alive"
    /\ proc' = [proc EXCEPT ![j] = "zombie"]
    /\ UNCHANGED <<mode, starts, job, cnt, faulty, lost, lockMap, LockVars, DiedVars, stale>>

\* SIGCHLD for a process that is being spawned, or that nobody knows any more.
WaitChildDied(j) ==
    /\ Up /\ proc[j] = "zombie" /\ job[j].st # "running"
    /\ proc' = [proc EXCEPT ![j] = "reaped"]
    /\ IF Spawning(j) THEN AbortSpawn(j) ELSE UNCHANGED <<job, cnt, faulty, lost, lockMap, mounts>>
    /\ UNCHANGED <<mode, starts, locked, toggles, lockLeak, groups, shared, reserved, worker, DiedVars, stale>>

\* Mutant: the oldest record makes room one death too early.
TerminateEvictsEarly(j) ==
    /\ deaths' = IF mode = "nweb" THEN Append(deaths, j) ELSE deaths
    /\ IF mode # "nweb" THEN UNCHANGED <<died, diedCount>>
       ELSE IF diedCount + 1 >= MaxDied
       THEN died' = Append(Tail(died), j) /\ UNCHANGED diedCount
       ELSE died' = Append(died, j) /\ diedCount' = diedCount + 1

\* nwebspawn keeps the last MaxDied records; the oldest makes room.
TerminateSpawnedProcess(j) ==
    /\ deaths' = IF mode = "nweb" THEN Append(deaths, j) ELSE deaths
    /\ IF mode # "nweb" THEN UNCHANGED <<died, diedCount>>
       ELSE IF diedCount >= MaxDied
       THEN died' = Append(Tail(died), j) /\ UNCHANGED diedCount
       ELSE died' = Append(died, j) /\ diedCount' = diedCount + 1

HandleDiedPid(j) ==
    /\ Running(j) /\ proc[j] = "zombie"
    /\ proc' = [proc EXCEPT ![j] = "reaped"]
    /\ AppCleanup(j)
    /\ job' = [job EXCEPT ![j] = [st |-> "died"]]
    /\ TerminateSpawnedProcess(j)
    /\ UNCHANGED <<mode, starts, locked, toggles, lockLeak, groups, shared, reserved, worker, stale>>

\* Mutant: the count of the died queue is left as it is.
StatusOfDiedKeepsCount(j) ==
    /\ Up /\ mode = "nweb"
    /\ \E i \in DOMAIN died : died[i] = j /\ died' = RemoveAt(died, i)
    /\ job' = [job EXCEPT ![j].st = "gone"]
    /\ UNCHANGED <<mode, starts, proc, cnt, faulty, lost, lockMap, LockVars, diedCount, deaths, stale>>

\* GetProcessTerminationStatus for a process that died: its record is dropped.
StatusOfDied(j) ==
    /\ Up /\ mode = "nweb"
    /\ \E i \in DOMAIN died : died[i] = j /\ died' = RemoveAt(died, i)
    /\ diedCount' = IF diedCount > 0 THEN diedCount - 1 ELSE 0
    /\ job' = [job EXCEPT ![j].st = "gone"]
    /\ UNCHANGED <<mode, starts, proc, cnt, faulty, lost, lockMap, LockVars, deaths, stale>>

\* ... for one that runs: killed and waited for, unless the wait times out;
\* the pending SIGCHLD then finds nothing, or the process.
StatusOfRunning(j) ==
    /\ mode = "nweb" /\ Running(j)
    /\ \/ /\ proc' = [proc EXCEPT ![j] = "reaped"]
          /\ AppCleanup(j)
          /\ job' = [job EXCEPT ![j] = [st |-> "gone"]]
       \/ /\ proc' = [proc EXCEPT ![j] = "zombie"]
          /\ UNCHANGED <<job, cnt, faulty, lost, lockMap, mounts>>
    /\ UNCHANGED <<mode, starts, locked, toggles, lockLeak, groups, shared, reserved, worker, DiedVars, stale>>

(***************************************************************************)
(* Lock status.                                                            *)
(***************************************************************************)
PathsOf(u) == {r.path : r \in {x \in Requests : x.user = u}}

LockUser(u) ==
    /\ Up /\ mode = "app" /\ u \notin locked /\ toggles < MaxToggles
    /\ locked' = locked \union {u} /\ toggles' = toggles + 1
    /\ UNCHANGED <<mode, starts, job, proc, cnt, faulty, lost, lockMap, lockLeak, mounts, groups, shared,
                   reserved, worker, DiedVars, stale>>

\* STAGE_SERVER_LOCK in a child (the prefork child with its copy of the
\* tables, or a new one): the bundles of the user and every data group.
UnlockInChild(u) ==
    /\ Up /\ mode = "app" /\ u \in locked /\ toggles < MaxToggles /\ worker = NoWorker
    /\ locked' = locked \ {u} /\ toggles' = toggles + 1
    /\ LET copy == IF reserved.pid THEN reserved ELSE Snapshot
       IN  worker' = [paths |-> copy.paths \intersect PathsOf(u), groups |-> copy.groups]
    /\ reserved' = IF reserved.pid THEN Snapshot ELSE reserved     \* ReforkPreforkIfNeeded
    /\ UNCHANGED <<mode, starts, job, proc, cnt, faulty, lost, lockMap, lockLeak, mounts, groups, shared,
                   DiedVars, stale>>

MountPaths(ps) == [p \in Paths |-> IF p \in ps THEN mounts[p] + 1 ELSE mounts[p]]

\* ... in the main process when neither child can be had.
UnlockSerially(u) ==
    /\ Up /\ mode = "app" /\ u \in locked /\ toggles < MaxToggles /\ "spawn" \in Faults
    /\ locked' = locked \ {u} /\ toggles' = toggles + 1
    /\ mounts' = MountPaths({p \in PathsOf(u) : lockMap[p] > 0})
    /\ shared' = shared \union groups /\ groups' = {}
    /\ reserved' = NoSnapshot
    /\ UNCHANGED <<mode, starts, job, proc, cnt, faulty, lost, lockMap, lockLeak, worker, DiedVars, stale>>

\* A worker thread takes a task from the queue, under its mutex, and mounts.
MountQueueWorkerThread(p) ==
    /\ p \in worker.paths
    /\ worker' = [worker EXCEPT !.paths = @ \ {p}]
    /\ mounts' = MountPaths({p})
    /\ UNCHANGED <<mode, starts, job, proc, cnt, faulty, lost, locked, toggles, lockMap, lockLeak, groups,
                   shared, reserved, DiedVars, stale>>

\* UpdateDataGroupDirs in the child empties the child's queue.
UpdateDataGroupDirs ==
    /\ worker.paths = {} /\ worker.groups # {}
    /\ worker' = NoWorker
    /\ shared' = shared \union worker.groups
    /\ UNCHANGED <<mode, starts, job, proc, cnt, faulty, lost, locked, toggles, lockMap, lockLeak, mounts, groups,
                   reserved, DiedVars, stale>>

(***************************************************************************)
(* Start, stop and crash of the service.                                   *)
(***************************************************************************)
NoCounts == [k \in Keys |-> 0]

Init ==
    /\ mode \in {"app", "nweb"} /\ starts = 1
    /\ job = [j \in Jobs |-> None] /\ proc = [j \in Jobs |-> "none"]
    /\ cnt = NoCounts /\ faulty = 0 /\ lost = NoCounts
    /\ locked \in SUBSET Users /\ toggles = 0
    /\ lockMap = [p \in Paths |-> 0] /\ lockLeak = [p \in Paths |-> 0]
    /\ mounts = [p \in Paths |-> 0]
    /\ groups = {} /\ shared = {} /\ reserved = NoSnapshot /\ worker = NoWorker
    /\ died = <<>> /\ diedCount = 0 /\ deaths = <<>> /\ stale = FALSE

\* StopAppSpawn cleans up after the running processes and kills them;
\* contexts in flight are dropped.  A crash drops everything.
StopAppSpawn ==
    /\ Up /\ starts < MaxStarts
    /\ LET run == {j \in Jobs : job[j].st = "running"}
           held(k) == Cardinality({j \in run : k \in KeysOf(job[j].refs, job[j].req, job[j].msg.uid)})
           refs(p) == Cardinality({j \in run : job[j].lockRef /\ job[j].req.path = p})
       IN  /\ cnt' = [k \in Keys |-> cnt[k] - held(k)]
           /\ lockMap' = [p \in Paths |-> lockMap[p] - refs(p)]
           /\ mounts' = UnmountOne(lockMap, lockMap')
           /\ job' = [j \in Jobs |-> IF j \in run THEN [st |-> "gone"] ELSE job[j]]
           /\ proc' = [j \in Jobs |-> IF j \in run /\ proc[j] = "alive" THEN "zombie" ELSE proc[j]]
    /\ starts' = 0
    /\ UNCHANGED <<mode, faulty, lost, locked, toggles, lockLeak, groups, shared, reserved, worker, DiedVars, stale>>

Crash ==
    /\ Up /\ starts < MaxStarts /\ "crash" \in Faults
    /\ starts' = 0
    /\ UNCHANGED <<mode, job, proc, cnt, faulty, lost, lockMap, LockVars, DiedVars, stale>>

\* SpmPreloadHook clears what is counted under the spawn id.
SpmPreloadHook == cnt' = NoCounts /\ lost' = NoCounts

\* init starts the service again, with empty tables; the mounts stay, and the
\* processes of the last instance are not its children.
Restart ==
    /\ starts = 0
    /\ starts' = MaxStarts
    /\ SpmPreloadHook
    /\ job' = [j \in Jobs |-> IF job[j] = None THEN None ELSE [st |-> "gone"]]
    /\ proc' = [j \in Jobs |-> IF proc[j] = "none" THEN "none" ELSE "reaped"]
    /\ lockMap' = [p \in Paths |-> 0] /\ lockLeak' = [p \in Paths |-> 0]
    /\ groups' = {} /\ reserved' = NoSnapshot /\ died' = <<>> /\ diedCount' = 0 /\ deaths' = <<>>
    /\ UNCHANGED <<mode, faulty, locked, toggles, mounts, shared, worker, stale>>

Next ==
    \/ \E j \in Jobs :
        \/ \E r \in Requests : ProcessSpawnReqMsg(j, r) \/ ProcessCheckpointReqMsg(j, r)
        \/ ProcessChildResponse(j) \/ SpawnFails(j) \/ ProcessDies(j)
        \/ WaitChildDied(j) \/ HandleDiedPid(j)
        \/ StatusOfDied(j) \/ StatusOfRunning(j)
    \/ \E u \in Users : LockUser(u) \/ UnlockInChild(u) \/ UnlockSerially(u)
    \/ \E p \in Paths : MountQueueWorkerThread(p)
    \/ UpdateDataGroupDirs
    \/ StopAppSpawn \/ Crash \/ Restart

Spec == Init /\ [][Next]_vars

(***************************************************************************)
(* Properties.                                                             *)
(***************************************************************************)
Holding(j) == job[j].st \in {"spawning", "running"}
Holders(k) == {j \in Jobs : Holding(j) /\ k \in KeysOf(job[j].refs, job[j].req, job[j].req.uid)}

\* Type invariant: every count is a number the jobs can account for, the died
\* queue has the length its counter says and never exceeds its bound.
TypeOK ==
    /\ cnt \in [Keys -> 0..Cardinality(Jobs)]
    /\ lost \in [Keys -> 0..Cardinality(Jobs)]
    /\ lockMap \in [Paths -> 0..Cardinality(Jobs)]
    /\ lockLeak \in [Paths -> 0..Cardinality(Jobs)]
    /\ mounts \in [Paths -> 0..MaxToggles]
    /\ diedCount = Len(died) /\ diedCount \in 0..MaxDied
    /\ \A j \in Jobs : job[j].st \in {"none", "spawning", "running", "died", "gone"}

\* SpmRefsExact: while the service is up, the kernel counts for a token or a
\* uid exactly the processes being spawned or running that remember counting
\* it, plus what is lost, which is only the token count IncreaseRefCounts
\* forgets when the uid's is not supported (spm.c:901), what the kernel refused
\* to give back and what a checkpoint request dropped.  No other path returns a
\* count twice, forgets one, or returns it under another uid after the message
\* was rebuilt (spm.c, ProcessSpawnReqMsg, ProcessChildResponse,
\* HandleDiedPid, GetProcessTerminationStatus).
SpmRefsExact ==
    Up => \A k \in Keys : cnt[k] = Cardinality(Holders(k)) + lost[k]

\* LockRefsExact: a lock path has exactly as many references as processes of
\* its bundle that were spawned while the user was locked and still hold it,
\* plus those whose context could not remember the path
\* (sandbox_shared_mount.cpp:535), so its mounts are taken off with the last of
\* them and not before (AddLockBundleRef, ReleaseLockBundleRef and the hooks
\* that call them).
LockRefsExact ==
    Up => \A p \in Paths :
            lockMap[p] = Cardinality({j \in Jobs : Holding(j) /\ job[j].lockRef
                                                    /\ job[j].req.path = p})
                         + lockLeak[p]

\* LatestDeathsKept: nwebspawn can answer for a process that died unless
\* MaxDied others have died since (TerminateSpawnedProcess and the two ways
\* GetProcessTerminationStatus removes a record).
LatestDeathsKept ==
    Up /\ mode = "nweb" =>
        \A i \in DOMAIN deaths :
            job[deaths[i]].st = "died" =>
                deaths[i] \in Range(died) \/ Len(deaths) - i >= MaxDied

\* MessageAliveWhenUsed: no response is built from a freed message.
MessageAliveWhenUsed == ~stale

================================================================================
