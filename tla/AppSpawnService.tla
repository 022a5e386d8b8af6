--------------------------- MODULE AppSpawnService ---------------------------
(***************************************************************************)
(* The appspawn service process of standard/appspawn_service.c: one event  *)
(* loop that receives spawn and user-unlock requests over client           *)
(* connections, forks (or wakes a pre-forked) child for each of them, and  *)
(* waits for the child's result on a pipe, for its death (SIGCHLD), for a  *)
(* timer or for the client to hang up, whichever comes first.              *)
(*                                                                         *)
(* Every handler of the loop is one atomic action, because the loop is     *)
(* single threaded.  The children, the clients and the timers run beside   *)
(* it and are actions of their own.                                        *)
(***************************************************************************)
EXTENDS Integers

CONSTANTS
  SpawnReq,       (* MSG_APP_SPAWN / MSG_SPAWN_NATIVE_PROCESS requests       *)
  LockReq,        (* MSG_LOCK_STATUS requests                                *)
  Conn,           (* client connections                                      *)
  Pid,            (* process ids; an id is never reused, so that a signal    *)
                  (* sent to a reaped process can be told from one that hits *)
  NoPid, NoReq, NoConn,
  EnablePrefork,  (* content->enablePerfork                                  *)
  MaxCrashTime,   (* MAX_CRASH_TIME                                          *)
  Faults          (* the calls that may fail in this instance                *)

Req == SpawnReq \cup LockReq

FaultKinds == {"msg", "hook", "fork", "pipe_write", "watcher", "app_info",
               "lockstatus", "send", "cold"}

ASSUME ServiceAssumption ==
  /\ SpawnReq \cap LockReq = {}
  /\ NoPid \notin Pid
  /\ NoReq \notin Req
  /\ NoConn \notin Conn
  /\ EnablePrefork \in BOOLEAN
  /\ MaxCrashTime \in Nat \ {0}
  /\ Faults \subseteq FaultKinds

(***************************************************************************)
(* A child's life: parked in PreforkChildLoop, spawning (AppSpawnChild) or *)
(* mounting (ProcessUnlockMessage), then running as an application,        *)
(* leaving because it has nothing more to do, or stray: running although   *)
(* it reported a failure; dead of a signal or of an exit but not yet       *)
(* waited for; reaped.                                                     *)
(***************************************************************************)
Live     == {"parked", "spawning", "mounting", "running", "leaving", "stray"}
Zombie   == {"signaled", "exited"}
Unreaped == Live \cup Zombie
ProcState == Unreaped \cup {"unborn", "reaped"}

(***************************************************************************)
(* The service's ends of the two pipes it shares with a child: the result  *)
(* pipe (TYPE_CHILD_PARENT, also forkCtx.fd) and the command pipe          *)
(* (TYPE_PARENT_CHILD).                                                    *)
(***************************************************************************)
ResultEnds  == {"cpR", "cpW"}
CommandEnds == {"pcR", "pcW"}
Ends == ResultEnds \cup CommandEnds
FdType == {"CHILD_PARENT", "PARENT_CHILD"}

Codes == {"OK", "MSG_INVALID", "SYSTEM_ERROR", "FORK_FAIL", "HOOK_FAIL",
          "CHILD_FAIL", "CHILD_CRASH", "SPAWN_TIMEOUT"}

VARIABLES
  pstat,       (* [Pid -> ProcState]                                         *)
  killed,      (* unreaped processes a SIGKILL was sent to                   *)
  cmd,         (* [Pid -> ...] what waits in the child's command pipe        *)
  res,         (* [Pid -> ...] what waits in the child's result pipe         *)
  open,        (* [Pid -> SUBSET Ends] ends the service has open             *)
  nodes,       (* [Pid -> SUBSET FdType] spawningFdsQueue                    *)
  reservedPid, (* content->reservedPid; NoPid stands for every value <= 0    *)
  ctxSt,       (* [Req -> ...] the request's AppSpawningCtx and its state    *)
  ctxPid,      (* [Req -> ...] its pid                                       *)
  ctxFds,      (* [Req -> SUBSET Ends] the ends its forkCtx.fd holds         *)
  ctxId,       (* [Req -> Nat] its client.id; 0 when none was ever given     *)
  app,         (* [Pid -> ...] appQueue: the request a process was made for  *)
  conn,        (* [Conn -> ...] state of the connection                      *)
  reqConn,     (* [Req -> ...] connection the request came over              *)
  answers,     (* [Req -> Nat] how many responses the request was sent       *)
  answer,      (* [Req -> ...] result code of the last response              *)
  answerPid,   (* [Req -> ...] pid in the last response                      *)
  sendFailed,  (* requests whose response could not be sent                  *)
  heap,        (* requests whose message node is allocated                   *)
  refs,        (* [Req -> Int] lock-bundle references taken for it           *)
  nextId, lastDiedAppId, crashTimes,
  loop         (* "running", "stopping" (LE_StopLoop called), "exited"       *)

procVars == <<pstat, killed, cmd, res>>
fdVars   == <<open, nodes, reservedPid>>
ctxVars  == <<ctxSt, ctxPid, ctxFds, ctxId>>
connVars == <<conn, reqConn>>
ansVars  == <<answers, answer, answerPid, sendFailed>>
memVars  == <<heap, refs>>
idVars   == <<nextId, lastDiedAppId, crashTimes>>
vars == <<procVars, fdVars, ctxVars, app, connVars, ansVars, memVars, idVars, loop>>

TypeOK ==
  /\ pstat \in [Pid -> ProcState]
  /\ killed \subseteq Pid
  /\ cmd \in [Pid -> {"none", "spawn", "unlock"}]
  /\ res \in [Pid -> {"none", "ok", "fail"}]
  /\ open \in [Pid -> SUBSET Ends]
  /\ nodes \in [Pid -> SUBSET FdType]
  /\ reservedPid \in Pid \cup {NoPid}
  /\ ctxSt \in [Req -> {"none", "spawning", "unlock"}]
  /\ ctxPid \in [Req -> Pid \cup {NoPid}]
  /\ ctxFds \in [Req -> SUBSET Ends]
  /\ ctxId \in [Req -> Nat]
  /\ app \in [Pid -> Req \cup {NoReq}]
  /\ conn \in [Conn -> {"new", "open", "closed"}]
  /\ reqConn \in [Req -> Conn \cup {NoConn}]
  /\ answers \in [Req -> Nat]
  /\ answer \in [Req -> Codes \cup {"none"}]
  /\ answerPid \in [Req -> Pid \cup {NoPid}]
  /\ sendFailed \subseteq Req
  /\ heap \subseteq Req
  /\ refs \in [Req -> Int]
  /\ nextId \in Nat
  /\ lastDiedAppId \in Nat
  /\ crashTimes \in Nat
  /\ loop \in {"running", "stopping", "exited"}

Init ==
  /\ pstat = [p \in Pid |-> "unborn"]
  /\ killed = {}
  /\ cmd = [p \in Pid |-> "none"]
  /\ res = [p \in Pid |-> "none"]
  /\ open = [p \in Pid |-> {}]
  /\ nodes = [p \in Pid |-> {}]
  /\ reservedPid = NoPid
  /\ ctxSt = [r \in Req |-> "none"]
  /\ ctxPid = [r \in Req |-> NoPid]
  /\ ctxFds = [r \in Req |-> {}]
  /\ ctxId = [r \in Req |-> 0]
  /\ app = [p \in Pid |-> NoReq]
  /\ conn = [c \in Conn |-> "new"]
  /\ reqConn = [r \in Req |-> NoConn]
  /\ answers = [r \in Req |-> 0]
  /\ answer = [r \in Req |-> "none"]
  /\ answerPid = [r \in Req |-> NoPid]
  /\ sendFailed = {}
  /\ heap = {}
  /\ refs = [r \in Req |-> 0]
  /\ nextId = 0
  /\ lastDiedAppId = 0
  /\ crashTimes = 0
  /\ loop = "running"

-----------------------------------------------------------------------------
(***************************************************************************)
(* Pieces of handlers.  Each one assigns one group of variables.           *)
(***************************************************************************)
Looping == loop # "exited"
MaybePid == Pid \cup {NoPid}
Unborn == {p \in Pid : pstat[p] = "unborn"}

\* What fork() may return to the service, once the processes in S are taken.
ForkResults(S) ==
  IF Unborn \ S = {} THEN {NoPid}
  ELSE (Unborn \ S) \cup (IF "fork" \in Faults THEN {NoPid} ELSE {})

\* The result of ProcessPreFork, which takes one more process if it can.
Reserves(S) == IF EnablePrefork THEN ForkResults(S) ELSE {NoPid}

SendResponse(r, code, pid) ==
  /\ answers' = [answers EXCEPT ![r] = @ + 1]
  /\ answer' = [answer EXCEPT ![r] = code]
  /\ answerPid' = [answerPid EXCEPT ![r] = pid]
  /\ UNCHANGED sendFailed

\* STAGE_SERVER_SPAWN_ABORT for the contexts of R: only a spawn took a reference.
SpawnAbort(R) ==
  refs' = [r \in Req |-> IF r \in R \cap SpawnReq THEN refs[r] - 1 ELSE refs[r]]

\* The queue entries and fields of DeleteAppSpawningCtx, for every context of R.
DeleteAppSpawningCtx(R) ==
  /\ ctxSt' = [r \in Req |-> IF r \in R THEN "none" ELSE ctxSt[r]]
  /\ ctxPid' = [r \in Req |-> IF r \in R THEN NoPid ELSE ctxPid[r]]
  /\ ctxFds' = [r \in Req |-> IF r \in R THEN {} ELSE ctxFds[r]]
  /\ ctxId' = ctxId

\* ... and the pipe ends it closes.
CtxEnds(R, p) == UNION {ctxFds[r] : r \in {s \in R : ctxPid[s] = p}}
\* Mutant: fd[1] is forgotten.
CloseCtxFdsLeak(R) == open' = [p \in Pid |-> open[p] \ (CtxEnds(R, p) \ {"cpW"})]

CloseCtxFds(R) == open' = [p \in Pid |-> open[p] \ CtxEnds(R, p)]

(***************************************************************************)
(* RegisterSpawningFds for a new reserve q, CleanupSpawningFdsByPid (or an *)
(* Unregister of each type) for the old one, and the ends a child's        *)
(* context is left with.                                                   *)
(***************************************************************************)
Rewire(gone, child, ends, q) ==
  /\ open' = [p \in Pid |-> IF p = q THEN Ends
                            ELSE IF p = child THEN ends
                            ELSE IF p \in gone THEN {}
                            ELSE open[p]]
  /\ nodes' = [p \in Pid |-> IF p = q THEN FdType
                             ELSE IF p = child \/ p \in gone THEN {}
                             ELSE nodes[p]]
  /\ reservedPid' = q

\* Two forks at most in one handler: a working child and a new reserve.
Forked(child, st, q) ==
  pstat' = [p \in Pid |-> IF p = q THEN "parked" ELSE IF p = child THEN st ELSE pstat[p]]

TellChild(p, what) == cmd' = [x \in Pid |-> IF x = p THEN what ELSE cmd[x]]

NewCtx(r, st, p, ends) ==
  /\ ctxSt' = [ctxSt EXCEPT ![r] = st]
  /\ ctxPid' = [ctxPid EXCEPT ![r] = p]
  /\ ctxFds' = [ctxFds EXCEPT ![r] = ends]
  /\ ctxId' = [ctxId EXCEPT ![r] = nextId + 1]
  /\ heap' = heap \cup {r}

-----------------------------------------------------------------------------
(***************************************************************************)
(* Connections.                                                            *)
(***************************************************************************)
\* A client of an accepted user id; any other is closed before it has a state.
OnConnection(c) ==
  /\ Looping /\ conn[c] = "new"
  /\ conn' = [conn EXCEPT ![c] = "open"]
  /\ UNCHANGED <<procVars, fdVars, ctxVars, app, reqConn, ansVars, memVars, idVars, loop>>

\* Mutant: only contexts in APP_STATE_SPAWNING are matched.
CtxsOfSpawning(c) == {r \in Req : ctxSt[r] = "spawning" /\ reqConn[r] = c}

\* The contexts AppSpawningCtxOnClose matches against a closing connection.
CtxsOf(c) == {r \in Req : ctxSt[r] # "none" /\ reqConn[r] = c}

OnClose(c) ==
  /\ Looping /\ conn[c] = "open"
  /\ conn' = [conn EXCEPT ![c] = "closed"]
  /\ LET R == CtxsOf(c)
     IN  /\ killed' = killed \cup {ctxPid[r] : r \in R}
         /\ SpawnAbort(R)
         /\ DeleteAppSpawningCtx(R)
         /\ CloseCtxFds(R)
         /\ heap' = heap \ R
  /\ UNCHANGED <<pstat, cmd, res, nodes, reservedPid, app, reqConn, ansVars,
                 idVars, loop>>

\* A request is read from an open connection, once.
Receive(r, c) ==
  /\ Looping /\ conn[c] = "open" /\ reqConn[r] = NoConn
  /\ reqConn' = [reqConn EXCEPT ![r] = c]

\* A response could not be sent: the application it names is killed.  The
\* completion of one that was sent changes nothing.
SendMessageComplete(r) ==
  /\ "send" \in Faults
  /\ Looping /\ answers[r] > 0 /\ r \notin sendFailed /\ conn[reqConn[r]] = "open"
  /\ sendFailed' = sendFailed \cup {r}
  /\ killed' = killed \cup {p \in Pid : p = answerPid[r] /\ app[p] # NoReq}
  /\ UNCHANGED <<pstat, cmd, res, fdVars, ctxVars, app, connVars, answers, answer,
                 answerPid, memVars, idVars, loop>>

-----------------------------------------------------------------------------
(***************************************************************************)
(* ProcessSpawnReqMsg.  Each action below is one whole run of it, from     *)
(* CheckAppSpawnMsg to its return.                                         *)
(***************************************************************************)

\* CheckAppSpawnMsg fails, or CreateAppSpawningCtx does: no context is made.
RejectSpawnReq(r, c, code) ==
  /\ "msg" \in Faults
  /\ Receive(r, c)
  /\ SendResponse(r, code, NoPid)
  /\ UNCHANGED <<procVars, fdVars, ctxVars, app, conn, heap, refs, idVars, loop>>

\* The end of every failure path after the context was made (AbortSpawnAndCleanup).
\* The reference the PRE_FORK hook took is released by the ABORT hook.
SpawnRefused(r, code) ==
  /\ SendResponse(r, code, NoPid)
  /\ ctxId' = [ctxId EXCEPT ![r] = nextId + 1]
  /\ UNCHANGED <<ctxSt, ctxPid, ctxFds, heap, refs>>

SpawnStarted(r, p) ==
  /\ NewCtx(r, "spawning", p, ResultEnds)
  /\ refs' = [refs EXCEPT ![r] = @ + 1]
  /\ UNCHANGED ansVars

\* MSG_DECODE or PRE_FORK hook failure.
SpawnHookFails(r, c) ==
  /\ "hook" \in Faults
  /\ Receive(r, c)
  /\ SpawnRefused(r, "HOOK_FAIL")
  /\ nextId' = nextId + 1
  /\ UNCHANGED <<procVars, fdVars, app, conn, lastDiedAppId, crashTimes, loop>>

(***************************************************************************)
(* AddChildWatcher.  When it fails the child is killed and its pipe        *)
(* closed, and the request is answered with ret, which is still 0.         *)
(***************************************************************************)
WatcherOutcomes == {TRUE} \cup (IF "watcher" \in Faults THEN {FALSE} ELSE {})

\* Mutant: the child that cannot be watched is not killed.
AddChildWatcherNoKill(r, p, watched) ==
  /\ killed' = killed
  /\ IF watched THEN SpawnStarted(r, p) ELSE SpawnRefused(r, "OK")

AddChildWatcher(r, p, watched) ==
  \/ watched /\ SpawnStarted(r, p) /\ killed' = killed
  \/ ~watched /\ SpawnRefused(r, "OK") /\ killed' = killed \cup {p}

EndsKept(watched) == IF watched THEN ResultEnds ELSE {}

SpawnReqMsg(r, c) ==
  /\ Receive(r, c)
  /\ nextId' = nextId + 1
  /\ UNCHANGED <<res, app, conn, lastDiedAppId, crashTimes, loop>>

\* NormalSpawnChild: prefork does not apply, or PreparePreforkMsg failed and
\* the reserve is left as it is.
SpawnNormal(r, c, p, watched) ==
  /\ SpawnReqMsg(r, c)
  /\ p \in ForkResults({}) \ {NoPid}
  /\ Forked(p, "spawning", NoPid)
  /\ open' = [open EXCEPT ![p] = EndsKept(watched)]
  /\ AddChildWatcher(r, p, watched)
  /\ UNCHANGED <<cmd, nodes, reservedPid>>

SpawnNormalFails(r, c, code) ==
  /\ NoPid \in ForkResults({})
  /\ SpawnReqMsg(r, c)
  /\ SpawnRefused(r, code)
  /\ UNCHANGED <<pstat, killed, cmd, fdVars>>

\* AppSpawnProcessMsgForPrefork without a reserve: fork, then make a reserve.
SpawnAndReserve(r, c, p, q, watched) ==
  /\ EnablePrefork /\ reservedPid = NoPid
  /\ SpawnReqMsg(r, c)
  /\ p \in ForkResults({}) \ {NoPid} /\ q \in Reserves({p})
  /\ Forked(p, "spawning", q)
  /\ Rewire({}, p, EndsKept(watched), q)
  /\ AddChildWatcher(r, p, watched)
  /\ UNCHANGED cmd

SpawnFailsAndReserves(r, c, q, code) ==
  /\ EnablePrefork /\ reservedPid = NoPid
  /\ NoPid \in ForkResults({}) /\ q \in Reserves({})
  /\ SpawnReqMsg(r, c)
  /\ Forked(NoPid, "spawning", q)
  /\ Rewire({}, NoPid, {}, q)
  /\ SpawnRefused(r, code)
  /\ UNCHANGED <<killed, cmd>>

\* The reserve is told to spawn; its command pipe is closed, its result pipe
\* moves to the request's context, and a new reserve is made.
SpawnHandOff(r, c, q, watched) ==
  /\ EnablePrefork /\ reservedPid # NoPid
  /\ q \in Reserves({})
  /\ SpawnReqMsg(r, c)
  /\ TellChild(reservedPid, "spawn")
  /\ Forked(NoPid, "spawning", q)
  /\ Rewire({}, reservedPid, EndsKept(watched), q)
  /\ AddChildWatcher(r, reservedPid, watched)

\* SendPipeMsgToChild fails: CleanupPreforkChild, and the request is refused.
SpawnHandOffFails(r, c, q) ==
  /\ "pipe_write" \in Faults
  /\ EnablePrefork /\ reservedPid # NoPid
  /\ q \in Reserves({})
  /\ SpawnReqMsg(r, c)
  /\ killed' = killed \cup {reservedPid}
  /\ Forked(NoPid, "spawning", q)
  /\ Rewire({reservedPid}, NoPid, {}, q)
  /\ SpawnRefused(r, "SYSTEM_ERROR")
  /\ UNCHANGED cmd

ProcessSpawnReqMsg(r, c) ==
  \/ \E code \in {"MSG_INVALID", "SYSTEM_ERROR"} : RejectSpawnReq(r, c, code)
  \/ SpawnHookFails(r, c)
  \/ \E code \in {"FORK_FAIL", "SYSTEM_ERROR"} : SpawnNormalFails(r, c, code)
  \/ \E p \in Pid, watched \in WatcherOutcomes : SpawnNormal(r, c, p, watched)
  \/ \E p \in Pid, q \in MaybePid, watched \in WatcherOutcomes : SpawnAndReserve(r, c, p, q, watched)
  \/ \E q \in MaybePid, code \in {"FORK_FAIL", "SYSTEM_ERROR"} : SpawnFailsAndReserves(r, c, q, code)
  \/ \E q \in MaybePid, watched \in WatcherOutcomes : SpawnHandOff(r, c, q, watched)
  \/ \E q \in MaybePid : SpawnHandOffFails(r, c, q)

-----------------------------------------------------------------------------
(***************************************************************************)
(* ProcessAppSpawnLockStatusMsg and HandleUnlockEvent.                     *)
(***************************************************************************)

\* One of its early returns: nothing is done, and *result keeps its initial 0.
LockStatusRefused(r, c) ==
  /\ "lockstatus" \in Faults
  /\ Receive(r, c)
  /\ SendResponse(r, "OK", NoPid)
  /\ UNCHANGED <<procVars, fdVars, ctxVars, app, conn, heap, refs, idVars, loop>>

\* The user was locked: only the parameter is set.
LockStatusLocked(r, c) ==
  /\ Receive(r, c)
  /\ SendResponse(r, "OK", NoPid)
  /\ UNCHANGED <<procVars, fdVars, ctxVars, app, conn, memVars, idVars, loop>>

\* A context for the request and, in ReforkPreforkIfNeeded, one for the fork.
UnlockEvent(r, c) ==
  /\ Receive(r, c)
  /\ nextId' = nextId + (IF EnablePrefork THEN 2 ELSE 1)
  /\ UNCHANGED <<res, app, conn, refs, lastDiedAppId, crashTimes, loop>>

\* TryLevel1PreforkUnlock succeeds: the reserve mounts, the context keeps
\* the read end of its result pipe and nothing else stays open.
UnlockByPrefork(r, c, q) ==
  /\ reservedPid # NoPid
  /\ q \in Reserves({})
  /\ UnlockEvent(r, c)
  /\ TellChild(reservedPid, "unlock")
  /\ Forked(NoPid, "mounting", q)
  /\ Rewire({}, reservedPid, {"cpR"}, q)
  /\ NewCtx(r, "unlock", reservedPid, {"cpR"})
  /\ UNCHANGED <<killed, ansVars>>

\* TryLevel1PreforkUnlock fails: there is no reserve, or the write or the
\* watcher failed, and then the reserve is killed and all its ends are closed.
Level1 == {"absent", "pipe_write", "watcher"}

Level1Outcomes ==
  IF reservedPid = NoPid THEN {"absent"}
  ELSE Faults \cap {"pipe_write", "watcher"}

Level1Fails(how) ==
  /\ how \in Level1Outcomes
  /\ TellChild(IF how = "watcher" THEN reservedPid ELSE NoPid, "unlock")

\* ForkAndDoUnlockMount succeeds.
UnlockByFork(r, c, how, p, q) ==
  /\ UnlockEvent(r, c)
  /\ p \in ForkResults({}) \ {NoPid} /\ q \in Reserves({p})
  /\ Level1Fails(how)
  /\ killed' = killed \cup ({reservedPid} \ {NoPid})
  /\ Forked(p, "mounting", q)
  /\ Rewire({reservedPid}, p, {"cpR"}, q)
  /\ NewCtx(r, "unlock", p, {"cpR"})
  /\ UNCHANGED ansVars

\* ForkAndDoUnlockMount fails too (no child, or one that cannot be watched
\* and is killed): the service mounts by itself and answers at once.
UnlockSerial(r, c, how, p, q, code) ==
  /\ p \in ForkResults({}) /\ q \in Reserves({p})
  /\ p # NoPid => "watcher" \in Faults
  /\ UnlockEvent(r, c)
  /\ Level1Fails(how)
  /\ killed' = killed \cup ({reservedPid, p} \ {NoPid})
  /\ Forked(p, "mounting", q)
  /\ Rewire({reservedPid}, p, {}, q)
  /\ SendResponse(r, code, NoPid)
  /\ UNCHANGED <<ctxVars, heap>>

ProcessLockStatusMsg(r, c) ==
  \/ LockStatusRefused(r, c)
  \/ LockStatusLocked(r, c)
  \/ \E q \in MaybePid : UnlockByPrefork(r, c, q)
  \/ \E how \in Level1, p \in Pid, q \in MaybePid : UnlockByFork(r, c, how, p, q)
  \/ \E how \in Level1, p, q \in MaybePid, code \in {"OK", "HOOK_FAIL"} :
        UnlockSerial(r, c, how, p, q, code)

-----------------------------------------------------------------------------
(***************************************************************************)
(* The children.                                                           *)
(***************************************************************************)

\* PreforkChildLoop reads its one command.
ChildTakesCmd(p) ==
  /\ pstat[p] = "parked" /\ cmd[p] # "none"
  /\ pstat' = [pstat EXCEPT ![p] = IF cmd[p] = "spawn" THEN "spawning" ELSE "mounting"]
  /\ cmd' = [cmd EXCEPT ![p] = "none"]
  /\ UNCHANGED <<killed, res, fdVars, ctxVars, app, connVars, ansVars, memVars, idVars, loop>>

(***************************************************************************)
(* What a child does once it has reported.  AppSpawnChild ends after a     *)
(* failure, but AppSpawnColdRun runs the application whatever its PRE_RELY *)
(* hook returned.  Only a forked child is started cold (IsSupportPrefork); *)
(* the model does not remember which ones were, and lets a handed-over     *)
(* reserve go astray too.                                                  *)
(***************************************************************************)
AfterReport(p, result) ==
  IF pstat[p] = "mounting" THEN {"leaving"}
  ELSE IF result = "ok" THEN {"running"}
  ELSE {"leaving"} \cup (IF "cold" \in Faults THEN {"stray"} ELSE {})

\* NotifyResToParent, and the write of an unlock child.
ChildReports(p, result) ==
  /\ pstat[p] \in {"spawning", "mounting"}
  /\ res' = [res EXCEPT ![p] = result]
  /\ \E st \in AfterReport(p, result) : pstat' = [pstat EXCEPT ![p] = st]
  /\ UNCHANGED <<killed, cmd, fdVars, ctxVars, app, connVars, ansVars, memVars, idVars, loop>>

\* ProcessExit, a crash, or a signal; a live process may die at any point.
ChildDies(p, how) ==
  /\ pstat[p] \in Live
  /\ pstat' = [pstat EXCEPT ![p] = how]
  /\ UNCHANGED <<killed, cmd, res, fdVars, ctxVars, app, connVars, ansVars, memVars, idVars, loop>>

-----------------------------------------------------------------------------
(***************************************************************************)
(* What the service does when a child reports, dies or is late.            *)
(***************************************************************************)

\* Everything DeleteAppSpawningCtx does for one context that owns its message.
DropCtx(r) ==
  /\ DeleteAppSpawningCtx({r})
  /\ CloseCtxFds({r})
  /\ heap' = heap \ {r}

ChildResult(r) == res[ctxPid[r]]

\* Mutant: the context stays after the failure was answered.
ChildFailedKeepsCtx(r) ==
  /\ Looping /\ ctxSt[r] = "spawning" /\ ChildResult(r) = "fail"
  /\ SendResponse(r, "CHILD_FAIL", ctxPid[r])
  /\ UNCHANGED <<procVars, fdVars, ctxVars, app, connVars, memVars, idVars, loop>>

\* ProcessChildFdCheck reads a failure.
ChildFailed(r) ==
  /\ Looping /\ ctxSt[r] = "spawning" /\ ChildResult(r) = "fail"
  /\ SpawnAbort({r})
  /\ SendResponse(r, "CHILD_FAIL", ctxPid[r])
  /\ DropCtx(r)
  /\ UNCHANGED <<procVars, nodes, reservedPid, app, connVars, idVars, loop>>

\* Mutant: the context stays after the application was recorded.
ChildSpawnedKeepsCtx(r) ==
  /\ Looping /\ ctxSt[r] = "spawning" /\ ChildResult(r) = "ok"
  /\ app' = [app EXCEPT ![ctxPid[r]] = r]
  /\ SendResponse(r, "OK", ctxPid[r])
  /\ UNCHANGED <<procVars, fdVars, ctxVars, connVars, memVars, idVars, loop>>

\* InitSpawnedProcessInfo puts the child on appQueue, which now holds the reference.
ChildSpawned(r) ==
  /\ Looping /\ ctxSt[r] = "spawning" /\ ChildResult(r) = "ok"
  /\ app' = [app EXCEPT ![ctxPid[r]] = r]
  /\ SendResponse(r, "OK", ctxPid[r])
  /\ DropCtx(r)
  /\ UNCHANGED <<procVars, nodes, reservedPid, connVars, refs, idVars, loop>>

\* Mutant: SPAWN_ABORT is missing.
ChildNotRecordedNoAbort(r) ==
  /\ "app_info" \in Faults
  /\ Looping /\ ctxSt[r] = "spawning" /\ ChildResult(r) = "ok"
  /\ killed' = killed \cup {ctxPid[r]}
  /\ SendResponse(r, "SYSTEM_ERROR", ctxPid[r])
  /\ DropCtx(r)
  /\ UNCHANGED <<pstat, cmd, res, nodes, reservedPid, app, connVars, refs, idVars, loop>>

\* Mutant: HandleSpawnProcessInfoFail keeps the context.
ChildNotRecordedKeepsCtx(r) ==
  /\ "app_info" \in Faults
  /\ Looping /\ ctxSt[r] = "spawning" /\ ChildResult(r) = "ok"
  /\ killed' = killed \cup {ctxPid[r]}
  /\ SendResponse(r, "SYSTEM_ERROR", ctxPid[r])
  /\ UNCHANGED <<pstat, cmd, res, fdVars, ctxVars, app, connVars, memVars, idVars, loop>>

\* HandleSpawnProcessInfoFail.
ChildNotRecorded(r) ==
  /\ "app_info" \in Faults
  /\ Looping /\ ctxSt[r] = "spawning" /\ ChildResult(r) = "ok"
  /\ killed' = killed \cup {ctxPid[r]}
  /\ SpawnAbort({r})
  /\ SendResponse(r, "SYSTEM_ERROR", ctxPid[r])
  /\ DropCtx(r)
  /\ UNCHANGED <<pstat, cmd, res, nodes, reservedPid, app, connVars, idVars, loop>>

ProcessChildResponse(r) == ChildFailed(r) \/ ChildSpawned(r) \/ ChildNotRecorded(r)

\* Mutant: the late child is not killed.
WaitChildTimeoutNoKill(r) ==
  /\ Looping /\ ctxSt[r] = "spawning"
  /\ SendResponse(r, "SPAWN_TIMEOUT", NoPid) /\ SpawnAbort({r}) /\ DropCtx(r)
  /\ UNCHANGED <<procVars, nodes, reservedPid, app, connVars, idVars, loop>>

WaitChildTimeout(r) ==
  /\ Looping /\ ctxSt[r] = "spawning"
  /\ killed' = killed \cup {ctxPid[r]}
  /\ SendResponse(r, "SPAWN_TIMEOUT", NoPid)
  /\ SpawnAbort({r})
  /\ DropCtx(r)
  /\ UNCHANGED <<pstat, cmd, res, nodes, reservedPid, app, connVars, idVars, loop>>

\* The unlock callbacks set property->message to NULL before they delete the
\* context, so the message stays allocated.
DropUnlockCtx(r) ==
  /\ DeleteAppSpawningCtx({r})
  /\ CloseCtxFds({r})
  /\ UNCHANGED heap

\* The result, or the end of file a dead child leaves behind.  An application
\* forked while the child was still the reserve inherited the write end too and
\* delays the end of file, so the callback may but need not run before the timer.
UnlockCode(r) ==
  IF ChildResult(r) = "ok" THEN "OK"
  ELSE IF ChildResult(r) = "fail" THEN "HOOK_FAIL" ELSE "SYSTEM_ERROR"

ProcessUnlockChildResponse(r) ==
  /\ Looping /\ ctxSt[r] = "unlock"
  /\ ChildResult(r) # "none" \/ pstat[ctxPid[r]] \notin Live
  /\ SendResponse(r, UnlockCode(r), NoPid)
  /\ DropUnlockCtx(r)
  /\ UNCHANGED <<procVars, nodes, reservedPid, app, connVars, refs, idVars, loop>>

\* Mutant: the timer is not started.
UnlockChildTimeoutNever(r) == FALSE /\ UNCHANGED vars

UnlockChildTimeout(r) ==
  /\ Looping /\ ctxSt[r] = "unlock"
  /\ killed' = killed \cup {ctxPid[r]}
  /\ SendResponse(r, "SPAWN_TIMEOUT", NoPid)
  /\ DropUnlockCtx(r)
  /\ UNCHANGED <<pstat, cmd, res, nodes, reservedPid, app, connVars, refs,
                 idVars, loop>>

-----------------------------------------------------------------------------
\* Mutant: reservedPid is not tested for being a pid.
StopVictimsUnchecked == {reservedPid} \cup {p \in Pid : app[p] # NoReq}

(***************************************************************************)
(* StopAppSpawn: kill the reserve and every application.                   *)
(***************************************************************************)
StopVictims == {p \in Pid : p = reservedPid \/ app[p] # NoReq}

\* APP_CLEANUP for every application; a request has one at most.
Recorded(r) == \E p \in Pid : app[p] = r

StopAppSpawn ==
  /\ Looping
  /\ killed' = killed \cup StopVictims
  /\ open' = [p \in Pid |-> IF p = reservedPid THEN {} ELSE open[p]]
  /\ nodes' = [p \in Pid |-> IF p = reservedPid THEN {} ELSE nodes[p]]
  /\ reservedPid' = NoPid
  /\ app' = [p \in Pid |-> NoReq]
  /\ refs' = [r \in Req |-> IF Recorded(r) THEN refs[r] - 1 ELSE refs[r]]
  /\ loop' = "stopping"
  /\ UNCHANGED <<pstat, cmd, res, ctxVars, connVars, ansVars, heap, idVars>>

(***************************************************************************)
(* HandleDiedPid, for each child waitpid returns in ProcessSignal(SIGCHLD).*)
(***************************************************************************)
Reap(p) ==
  /\ Looping /\ pstat[p] \in Zombie
  /\ pstat' = [pstat EXCEPT ![p] = "reaped"]

\* Mutant: a dead reserve stays reserved.
FdsAfterReapStale(p) == UNCHANGED fdVars

\* The reserve died: its descriptors are closed and there is no reserve.
FdsAfterReap(p) ==
  /\ open' = [open EXCEPT ![p] = IF p = reservedPid THEN {} ELSE @]
  /\ nodes' = [nodes EXCEPT ![p] = IF p = reservedPid THEN {} ELSE @]
  /\ reservedPid' = IF p = reservedPid THEN NoPid ELSE reservedPid

SpawningOf(p) == {r \in Req : ctxSt[r] = "spawning" /\ ctxPid[r] = p}

\* An application: its reference is released and it leaves appQueue.
AppDied(p) ==
  /\ Reap(p)
  /\ app[p] # NoReq
  /\ FdsAfterReap(p)
  /\ refs' = [refs EXCEPT ![app[p]] = @ - 1]
  /\ app' = [app EXCEPT ![p] = NoReq]
  /\ killed' = killed \ {p}
  /\ UNCHANGED <<cmd, res, ctxVars, connVars, ansVars, heap, idVars, loop>>

\* A process no application or spawning context knows: the reserve, an unlock
\* child, or a child whose request has been settled already.
OtherChildDied(p) ==
  /\ Reap(p)
  /\ app[p] = NoReq /\ SpawningOf(p) = {}
  /\ FdsAfterReap(p)
  /\ killed' = killed \ {p}
  /\ UNCHANGED <<cmd, res, ctxVars, app, connVars, ansVars, memVars, idVars, loop>>

\* Mutant: a crash that is not consecutive does not restart the count.
CrashesAfterNoReset(p, r) == IF pstat[p] = "exited" THEN 0 ELSE crashTimes + 1

CrashesAfter(p, r) ==
  IF pstat[p] = "exited" THEN 0
  ELSE IF ctxId[r] = lastDiedAppId + 1 THEN crashTimes + 1 ELSE 1

\* WaitChildDied: the request fails, and MAX_CRASH_TIME crashes in a row stop
\* the service (StopAppSpawn) in the same step.
SpawningChildDied(p, r) ==
  /\ Reap(p)
  /\ app[p] = NoReq /\ r \in SpawningOf(p)
  /\ crashTimes' = CrashesAfter(p, r)
  /\ lastDiedAppId' = IF pstat[p] = "exited" THEN lastDiedAppId ELSE ctxId[r]
  /\ SendResponse(r, "CHILD_CRASH", NoPid)
  /\ DeleteAppSpawningCtx({r})
  /\ heap' = heap \ {r}
  /\ LET stop == CrashesAfter(p, r) >= MaxCrashTime
         gone == IF stop \/ p = reservedPid THEN {reservedPid} ELSE {}
     IN  /\ open' = [x \in Pid |-> IF x \in gone THEN {} ELSE open[x] \ CtxEnds({r}, x)]
         /\ nodes' = [x \in Pid |-> IF x \in gone THEN {} ELSE nodes[x]]
         /\ reservedPid' = IF gone = {} THEN reservedPid ELSE NoPid
         /\ killed' = (killed \ {p}) \cup (IF stop THEN StopVictims \ {p} ELSE {})
         /\ app' = IF stop THEN [x \in Pid |-> NoReq] ELSE app
         /\ refs' = [s \in Req |-> IF s = r \/ (stop /\ Recorded(s)) THEN refs[s] - 1 ELSE refs[s]]
         /\ loop' = IF stop THEN "stopping" ELSE loop
  /\ UNCHANGED <<cmd, res, connVars, nextId>>

HandleDiedPid(p) ==
  \/ AppDied(p)
  \/ OtherChildDied(p)
  \/ \E r \in Req : SpawningChildDied(p, r)

(***************************************************************************)
(* The tail of AppSpawnRun once the loop has stopped: AppSpawnDestroyContent*)
(* deletes the contexts (no kill, no response, no ABORT), the descriptor   *)
(* nodes and the application records, and the process exits.               *)
(***************************************************************************)
AppSpawnDestroyContent ==
  /\ loop = "stopping"
  /\ loop' = "exited"
  /\ DeleteAppSpawningCtx(Req)
  /\ open' = [p \in Pid |-> {}]
  /\ nodes' = [p \in Pid |-> {}]
  /\ reservedPid' = NoPid
  /\ app' = [p \in Pid |-> NoReq]
  /\ conn' = [c \in Conn |-> "closed"]
  /\ heap' = {}
  /\ UNCHANGED <<procVars, reqConn, ansVars, refs, idVars>>

-----------------------------------------------------------------------------
Client ==
  \/ \E c \in Conn : OnConnection(c) \/ OnClose(c)
  \/ \E r \in SpawnReq, c \in Conn : ProcessSpawnReqMsg(r, c)
  \/ \E r \in LockReq, c \in Conn : ProcessLockStatusMsg(r, c)

Child ==
  \E p \in Pid :
    \/ ChildTakesCmd(p)
    \/ \E result \in {"ok", "fail"} : ChildReports(p, result)
    \/ \E how \in Zombie : ChildDies(p, how)

Service ==
  \/ \E r \in Req : \/ ProcessChildResponse(r)
                    \/ WaitChildTimeout(r)
                    \/ ProcessUnlockChildResponse(r)
                    \/ UnlockChildTimeout(r)
                    \/ SendMessageComplete(r)
  \/ \E p \in Pid : HandleDiedPid(p)
  \/ StopAppSpawn
  \/ AppSpawnDestroyContent

Next == Client \/ Child \/ Service

Spec == Init /\ [][Next]_vars

(***************************************************************************)
(* What the code can count on: its timers fire, SIGCHLD is delivered and   *)
(* handled, a SIGKILL takes effect, a child that is leaving exits and a    *)
(* stopped loop returns.  A child may hang for ever, a client need not     *)
(* hang up, and a read of the result pipe is not assumed either.           *)
(***************************************************************************)
Doomed(p) == p \in killed \/ pstat[p] = "leaving"

Fairness ==
  /\ \A r \in Req : WF_vars(WaitChildTimeout(r)) /\ WF_vars(UnlockChildTimeout(r))
  /\ \A p \in Pid : /\ WF_vars(HandleDiedPid(p))
                    /\ WF_vars(Doomed(p) /\ \E how \in Zombie : ChildDies(p, how))
  /\ WF_vars(AppSpawnDestroyContent)

FairSpec == Spec /\ Fairness

-----------------------------------------------------------------------------
(***************************************************************************)
(* Properties.                                                             *)
(***************************************************************************)

HasCtx(r) == ctxSt[r] # "none"
Owned(p) ==
  \/ p = reservedPid
  \/ app[p] # NoReq
  \/ \E r \in Req : HasCtx(r) /\ ctxPid[r] = p

(***************************************************************************)
(* Every pipe end the service has open belongs to exactly one owner that   *)
(* will close it: all four ends of the reserve to its two nodes on         *)
(* spawningFdsQueue, the result pipe of a spawn and the read end of an     *)
(* unlock to their context.  A hand-off, a fallback, a death or a timeout  *)
(* neither leaks an end nor leaves an owner with a closed one.             *)
(***************************************************************************)
FdOwnership ==
  /\ \A p \in Pid : open[p] = IF p = reservedPid THEN Ends ELSE CtxEnds(Req, p)
  /\ \A p \in Pid : nodes[p] = IF p = reservedPid THEN FdType ELSE {}
  /\ \A r \in Req : ctxFds[r] = IF ctxSt[r] = "spawning" THEN ResultEnds
                                ELSE IF ctxSt[r] = "unlock" THEN {"cpR"} ELSE {}

(***************************************************************************)
(* A process belongs to one owner at most: the reserve, one context, or    *)
(* appQueue.  GetAppSpawningCtxByPid, GetSpawnedProcess and the test       *)
(* against reservedPid in HandleDiedPid rely on it.                        *)
(***************************************************************************)
PidOwnedOnce ==
  /\ \A r \in Req : HasCtx(r) =>
       /\ ctxPid[r] \in Pid \ {reservedPid}
       /\ app[ctxPid[r]] = NoReq
       /\ \A s \in Req : HasCtx(s) /\ ctxPid[s] = ctxPid[r] => s = r
  /\ \A p \in Pid : app[p] # NoReq =>
       /\ p # reservedPid
       /\ \A q \in Pid : app[q] = app[p] => q = p

\* The client was told that the spawn that made p failed.
FailureTold(p) ==
  \E r \in SpawnReq : answers[r] > 0 /\ answer[r] = "CHILD_FAIL" /\ answerPid[r] = p

(***************************************************************************)
(* No child runs on unknown to the service: while it is up, a child that   *)
(* nobody owns any more has been sent a SIGKILL or is leaving by itself,   *)
(* whichever of response, death, timeout, hang-up or stop came first.  The *)
(* one exception is a stray: ProcessChildFdCheck drops the context of a    *)
(* child that reported failure without a kill, and a cold-started one runs *)
(* on.  Its client was then told that the spawn failed, and nothing else   *)
(* lets a stray loose.                                                     *)
(***************************************************************************)
ChildrenAccountedFor ==
  Looping => \A p \in Pid :
    pstat[p] \in Live \ {"leaving"} /\ ~Owned(p) =>
      p \in killed \/ (pstat[p] = "stray" /\ FailureTold(p))

(***************************************************************************)
(* A request is answered once at most, and its context is gone by then:    *)
(* of the result, the child's death, the timer and the hang-up only the    *)
(* first one is acted on.                                                  *)
(***************************************************************************)
AnsweredAtMostOnce ==
  \A r \in Req : answers[r] <= (IF HasCtx(r) THEN 0 ELSE 1)

(***************************************************************************)
(* A context never outlives the connection its callbacks will answer on    *)
(* (OnClose frees the connection after AppSpawningCtxTraversal).           *)
(***************************************************************************)
NoDanglingConnection ==
  \A r \in Req : HasCtx(r) => reqConn[r] \in Conn /\ conn[reqConn[r]] = "open"

(***************************************************************************)
(* The lock-bundle reference of a spawn is held exactly as long as its     *)
(* context or its application is known: SPAWN_ABORT and APP_CLEANUP run    *)
(* once between them on every path.                                        *)
(***************************************************************************)
RefsBalanced ==
  Looping => \A r \in Req :
    refs[r] = IF ctxSt[r] = "spawning" \/ Recorded(r) THEN 1 ELSE 0

(***************************************************************************)
(* The same for every request: comments of HandleUnlockEvent and           *)
(* ProcessRecvMsg say that the unlock callbacks free the message too.      *)
(***************************************************************************)
MessageOwned == \A r \in Req : r \in heap <=> HasCtx(r)

(***************************************************************************)
(* The crash counter counts requests with consecutive ids, all of them     *)
(* answered with CHILD_CRASH, the last being lastDiedAppId: the service    *)
(* gives up only after MaxCrashTime of them.                               *)
(***************************************************************************)
CrashCountExact ==
  /\ \A i \in 0 .. crashTimes - 1 :
       \E r \in Req : ctxId[r] = lastDiedAppId - i /\ answer[r] = "CHILD_CRASH"
  /\ crashTimes >= MaxCrashTime => loop # "running"

(***************************************************************************)
(* SIGKILL is never sent to a process already reaped, whose pid may belong *)
(* to someone else by then.  The one exception is an unlock context, which *)
(* HandleDiedPid leaves alone when its child dies.                         *)
(***************************************************************************)
KillOnlyUnreaped ==
  [][\A p \in killed' \ killed :
       \/ pstat'[p] \in Unreaped
       \/ \E r \in LockReq : HasCtx(r) /\ ctxPid[r] = p]_vars

(***************************************************************************)
(* Every request that was received is answered, unless its client hangs up *)
(* or the service stops.                                                   *)
(***************************************************************************)
EveryRequestSettled ==
  \A r \in Req :
    reqConn[r] # NoConn ~>
      \/ answers[r] > 0
      \/ loop # "running"
      \/ \E c \in Conn : reqConn[r] = c /\ conn[c] = "closed"

(***************************************************************************)
(* A child nobody owns is eventually dead and reaped, unless the service   *)
(* stops: no spawn that failed, and no answered unlock, leaves a process.  *)
(* Only a stray that nobody killed may run for ever.                       *)
(***************************************************************************)
OrphansReaped ==
  \A p \in Pid :
    pstat[p] \in Unreaped /\ ~Owned(p) ~>
      \/ pstat[p] = "reaped"
      \/ loop # "running"
      \/ pstat[p] = "stray" /\ p \notin killed
=============================================================================
