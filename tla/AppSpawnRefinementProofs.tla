---------------------- MODULE AppSpawnRefinementProofs ----------------------
(***************************************************************************)
(* The proof that AppSpawnService implements SpawnContract: the initial    *)
(* state maps to the initial state, and every step to a step of the        *)
(* contract or to no step at all.                                          *)
(***************************************************************************)
EXTENDS AppSpawnRefinement, AppSpawnServiceProofs

(***************************************************************************)
(* A recorded application was named to its client in the step that         *)
(* recorded it, and the answer of a request is never overwritten: so an    *)
(* application that ends leaves the phase "ended" behind, not "dropped".   *)
(***************************************************************************)
AppsWereNamed == \A p \in Pid : app[p] # NoReq => NamedAnApp(app[p])

\* At start there is no application.
LEMMA AppsWereNamedInit == Init => AppsWereNamed
  BY ServiceAssumption DEF Init, AppsWereNamed

\* Only ChildSpawned records an application; a request that has one is never answered again.
LEMMA AppsWereNamedNext == TypeInv /\ RequestInv /\ AppsWereNamed /\ [Next]_vars =>
    AppsWereNamed'
<1> SUFFICES ASSUME TypeInv, RequestInv, AppsWereNamed, [Next]_vars PROVE AppsWereNamed'
  OBVIOUS
<1>a. /\ ctxPid \in [Req -> Pid \cup {NoPid}]
      /\ app \in [Pid -> Req \cup {NoReq}]
      /\ answer \in [Req -> Codes \cup {"none"}]
      /\ answerPid \in [Req -> Pid \cup {NoPid}]
  BY DEF TypeInv, TypeOK
<1>b. \A r \in Req : /\ ctxSt[r] # "none" \/ reqConn[r] = NoConn => \A p \in Pid : app[p] # r
                     /\ ctxSt[r] # "none" => ctxPid[r] \in Pid
  BY DEF TypeInv, CtxHasChild, RequestInv, HasCtx
<1> USE <1>a, <1>b, ServiceAssumption
    DEF AppsWereNamed, NamedAnApp, Req, vars, procVars, fdVars, ctxVars, connVars,
        ansVars, memVars, idVars
<1>1. ASSUME NEW c \in Conn, OnConnection(c)
     PROVE  AppsWereNamed'
  BY <1>1 DEF OnConnection
<1>2. ASSUME NEW c \in Conn, OnClose(c)
     PROVE  AppsWereNamed'
  BY <1>2 DEF OnClose, CtxsOf, DeleteAppSpawningCtx
<1>3. ASSUME NEW r \in SpawnReq, NEW c \in Conn,
           NEW code \in {"MSG_INVALID", "SYSTEM_ERROR"}, RejectSpawnReq(r, c, code)
     PROVE  AppsWereNamed'
  BY <1>3 DEF RejectSpawnReq, Receive, SendResponse
<1>4. ASSUME NEW r \in SpawnReq, NEW c \in Conn, SpawnHookFails(r, c)
     PROVE  AppsWereNamed'
  BY <1>4 DEF SpawnHookFails, Receive, SpawnRefused, SendResponse
<1>5. ASSUME NEW r \in SpawnReq, NEW c \in Conn,
           NEW code \in {"FORK_FAIL", "SYSTEM_ERROR"}, SpawnNormalFails(r, c, code)
     PROVE  AppsWereNamed'
  BY <1>5 DEF SpawnNormalFails, SpawnReqMsg, Receive, SpawnRefused, SendResponse
<1>6. ASSUME NEW r \in SpawnReq, NEW c \in Conn, NEW p \in Pid,
           NEW watched \in WatcherOutcomes, SpawnNormal(r, c, p, watched)
     PROVE  AppsWereNamed'
  BY <1>6 DEF SpawnNormal, SpawnReqMsg, Receive, AddChildWatcher, SpawnStarted,
      SpawnRefused, NewCtx, SendResponse
<1>7. ASSUME NEW r \in SpawnReq, NEW c \in Conn, NEW p \in Pid, NEW q \in MaybePid,
           NEW watched \in WatcherOutcomes, SpawnAndReserve(r, c, p, q, watched)
     PROVE  AppsWereNamed'
  BY <1>7 DEF SpawnAndReserve, SpawnReqMsg, Receive, AddChildWatcher, SpawnStarted,
      SpawnRefused, NewCtx, SendResponse
<1>8. ASSUME NEW r \in SpawnReq, NEW c \in Conn, NEW q \in MaybePid,
           NEW code \in {"FORK_FAIL", "SYSTEM_ERROR"},
           SpawnFailsAndReserves(r, c, q, code)
     PROVE  AppsWereNamed'
  BY <1>8 DEF SpawnFailsAndReserves, SpawnReqMsg, Receive, SpawnRefused, SendResponse
<1>9. ASSUME NEW r \in SpawnReq, NEW c \in Conn, NEW q \in MaybePid,
           NEW watched \in WatcherOutcomes, SpawnHandOff(r, c, q, watched)
     PROVE  AppsWereNamed'
  BY <1>9 DEF SpawnHandOff, SpawnReqMsg, Receive, AddChildWatcher, SpawnStarted,
      SpawnRefused, NewCtx, SendResponse
<1>10. ASSUME NEW r \in SpawnReq, NEW c \in Conn, NEW q \in MaybePid,
           SpawnHandOffFails(r, c, q)
     PROVE  AppsWereNamed'
  BY <1>10 DEF SpawnHandOffFails, SpawnReqMsg, Receive, SpawnRefused, SendResponse
<1>11. ASSUME NEW r \in LockReq, NEW c \in Conn, LockStatusRefused(r, c)
     PROVE  AppsWereNamed'
  BY <1>11 DEF LockStatusRefused, Receive, SendResponse
<1>12. ASSUME NEW r \in LockReq, NEW c \in Conn, LockStatusLocked(r, c)
     PROVE  AppsWereNamed'
  BY <1>12 DEF LockStatusLocked, Receive, SendResponse
<1>13. ASSUME NEW r \in LockReq, NEW c \in Conn, NEW q \in MaybePid,
           UnlockByPrefork(r, c, q)
     PROVE  AppsWereNamed'
  BY <1>13 DEF UnlockByPrefork, UnlockEvent, Receive, NewCtx
<1>14. ASSUME NEW r \in LockReq, NEW c \in Conn, NEW how \in Level1, NEW p \in Pid,
           NEW q \in MaybePid, UnlockByFork(r, c, how, p, q)
     PROVE  AppsWereNamed'
  BY <1>14 DEF UnlockByFork, UnlockEvent, Receive, NewCtx
<1>15. ASSUME NEW r \in LockReq, NEW c \in Conn, NEW how \in Level1, NEW p \in MaybePid,
           NEW code \in {"OK", "HOOK_FAIL"}, NEW q \in MaybePid,
           UnlockSerial(r, c, how, p, q, code)
     PROVE  AppsWereNamed'
  BY <1>15 DEF UnlockSerial, UnlockEvent, Receive, SendResponse
<1>16. ASSUME NEW p \in Pid, ChildTakesCmd(p)
     PROVE  AppsWereNamed'
  BY <1>16 DEF ChildTakesCmd
<1>17. ASSUME NEW p \in Pid, NEW result \in {"ok", "fail"}, ChildReports(p, result)
     PROVE  AppsWereNamed'
  BY <1>17 DEF ChildReports
<1>18. ASSUME NEW p \in Pid, NEW how \in Zombie, ChildDies(p, how)
     PROVE  AppsWereNamed'
  BY <1>18 DEF ChildDies
<1>19. ASSUME NEW r \in Req, ChildFailed(r)
     PROVE  AppsWereNamed'
  BY <1>19 DEF ChildFailed, SendResponse, DropCtx, DeleteAppSpawningCtx
<1>20. ASSUME NEW r \in Req, ChildSpawned(r)
     PROVE  AppsWereNamed'
  BY <1>20 DEF ChildSpawned, SendResponse, DropCtx, DeleteAppSpawningCtx
<1>21. ASSUME NEW r \in Req, ChildNotRecorded(r)
     PROVE  AppsWereNamed'
  BY <1>21 DEF ChildNotRecorded, SendResponse, DropCtx, DeleteAppSpawningCtx
<1>22. ASSUME NEW r \in Req, WaitChildTimeout(r)
     PROVE  AppsWereNamed'
  BY <1>22 DEF WaitChildTimeout, SendResponse, DropCtx, DeleteAppSpawningCtx
<1>23. ASSUME NEW r \in Req, ProcessUnlockChildResponse(r)
     PROVE  AppsWereNamed'
  BY <1>23 DEF ProcessUnlockChildResponse, SendResponse, DropUnlockCtx,
      DeleteAppSpawningCtx
<1>24. ASSUME NEW r \in Req, UnlockChildTimeout(r)
     PROVE  AppsWereNamed'
  BY <1>24 DEF UnlockChildTimeout, SendResponse, DropUnlockCtx, DeleteAppSpawningCtx
<1>25. ASSUME NEW r \in Req, SendMessageComplete(r)
     PROVE  AppsWereNamed'
  BY <1>25 DEF SendMessageComplete
<1>26. ASSUME NEW p \in Pid, AppDied(p)
     PROVE  AppsWereNamed'
  BY <1>26 DEF AppDied, Reap
<1>27. ASSUME NEW p \in Pid, OtherChildDied(p)
     PROVE  AppsWereNamed'
  BY <1>27 DEF OtherChildDied, Reap
<1>28. ASSUME NEW p \in Pid, NEW r \in Req, SpawningChildDied(p, r)
     PROVE  AppsWereNamed'
  BY <1>28 DEF SpawningChildDied, Reap, SpawningOf, SendResponse, DeleteAppSpawningCtx
<1>29. ASSUME StopAppSpawn
     PROVE  AppsWereNamed'
  BY <1>29 DEF StopAppSpawn
<1>30. ASSUME AppSpawnDestroyContent
     PROVE  AppsWereNamed'
  BY <1>30 DEF AppSpawnDestroyContent, DeleteAppSpawningCtx
<1>31. CASE UNCHANGED vars
  BY <1>31
<1> HIDE <1>a, <1>b, ServiceAssumption
    DEF AppsWereNamed, NamedAnApp, Req, vars, procVars, fdVars, ctxVars, connVars,
        ansVars, memVars, idVars
<1>32. QED
  BY <1>1, <1>2, <1>3, <1>4, <1>5, <1>6, <1>7, <1>8, <1>9, <1>10, <1>11, <1>12, <1>13,
      <1>14, <1>15, <1>16, <1>17, <1>18, <1>19, <1>20, <1>21, <1>22, <1>23, <1>24,
      <1>25, <1>26, <1>27, <1>28, <1>29, <1>30, <1>31
  DEF Next, Client, Child, Service, ProcessSpawnReqMsg,
      ProcessLockStatusMsg, ProcessChildResponse, HandleDiedPid

(***************************************************************************)
(* What the mapping needs of a state, and the shapes of step.              *)
(***************************************************************************)
MapInv == TypeInv /\ RequestInv /\ UnansweredHasNoCode /\ AppsWereNamed

\* The phases are read off one variable or two each.
LEMMA PhaseIs ==
  ASSUME MapInv, NEW r \in Req
  PROVE  /\ reqConn[r] = NoConn => RequestPhase(r) = "unseen"
         /\ HasCtx(r) => RequestPhase(r) = "pending"
         /\ Recorded(r) => RequestPhase(r) = "running"
         /\ RequestPhase(r) = "pending" => HasCtx(r)
         /\ RequestPhase(r) = "running" => Recorded(r)
<1>1. /\ reqConn[r] = NoConn => ~HasCtx(r) /\ ~Recorded(r) /\ ~NamedAnApp(r) /\ ~(answers[r] > 0)
      /\ HasCtx(r) => reqConn[r] # NoConn /\ ~Recorded(r) /\ ~NamedAnApp(r) /\ ~(answers[r] > 0)
      /\ Recorded(r) => reqConn[r] # NoConn /\ ~HasCtx(r) /\ NamedAnApp(r)
  BY ServiceAssumption
  DEF MapInv, TypeInv, TypeOK, RequestInv, UnansweredHasNoCode, AppsWereNamed, HasCtx, Recorded, NamedAnApp
<1>2. QED
  BY <1>1 DEF RequestPhase

\* A request none of whose variables changes keeps its phase.
LEMMA PhaseKept ==
  ASSUME NEW s \in Req,
         reqConn'[s] = reqConn[s], ctxSt'[s] = ctxSt[s], answers'[s] = answers[s],
         answer'[s] = answer[s], answerPid'[s] = answerPid[s],
         (\E p \in Pid : app'[p] = s) <=> (\E p \in Pid : app[p] = s)
  PROVE  RequestPhase(s)' = RequestPhase(s)
  BY DEF RequestPhase, HasCtx, NamedAnApp, Recorded

\* No phase changes, and the service stays up or down: a step the contract does not see.
LEMMA Unseen ==
  ASSUME UNCHANGED <<reqConn, ctxSt, answers, answer, answerPid, app, loop>>
  PROVE  UNCHANGED Contract!vars
<1>1. \A s \in Req : RequestPhase(s)' = RequestPhase(s)
  BY PhaseKept
<1>2. QED
  BY <1>1 DEF Contract!vars, Looping

\* The phase of one request changes.
LEMMA OnePhase ==
  ASSUME NEW r \in Req, NEW ph, RequestPhase(r)' = ph,
         \A s \in Req \ {r} : RequestPhase(s)' = RequestPhase(s)
  PROVE  [s \in Req |-> RequestPhase(s)]' = [[s \in Req |-> RequestPhase(s)] EXCEPT ![r] = ph]
  OBVIOUS

\* A request is received and gets a context.
LEMMA AcceptStep ==
  ASSUME MapInv, NEW r \in Req, NEW c \in Conn, NEW st \in {"spawning", "unlock"},
         Receive(r, c), ctxSt' = [ctxSt EXCEPT ![r] = st],
         UNCHANGED <<answers, answer, answerPid, app, loop>>
  PROVE  Contract!Accept(r)
<1>1. RequestPhase(r) = "unseen" /\ Looping /\ Looping'
  BY PhaseIs DEF Receive, Looping
<1>2. ~Recorded(r) /\ ~NamedAnApp(r) /\ ~(answers[r] > 0)
  BY DEF MapInv, RequestInv, UnansweredHasNoCode, Recorded, NamedAnApp, Receive
<1>3. RequestPhase(r)' = "pending"
  BY <1>2, ServiceAssumption
  DEF MapInv, TypeInv, TypeOK, Receive, RequestPhase, HasCtx, NamedAnApp, Recorded
<1>4. \A s \in Req \ {r} : RequestPhase(s)' = RequestPhase(s)
  BY PhaseKept DEF MapInv, TypeInv, TypeOK, Receive
<1>5. QED
  BY <1>1, <1>3, <1>4, OnePhase DEF Contract!Accept, Looping

\* A request is answered in the step that receives it.
LEMMA RefuseStep ==
  ASSUME MapInv, NEW r \in Req, NEW c \in Conn, NEW code,
         Receive(r, c), SendResponse(r, code, NoPid), UNCHANGED <<ctxSt, app, loop>>
  PROVE  Contract!Answer(r)
<1>1. RequestPhase(r) = "unseen" /\ Looping /\ Looping'
  BY PhaseIs DEF Receive, Looping
<1>2. ~Recorded(r) /\ ~HasCtx(r) /\ answers[r] = 0
  BY DEF MapInv, RequestInv, Recorded, Receive
<1>3. RequestPhase(r)' = "answered"
  BY <1>2, ServiceAssumption
  DEF MapInv, TypeInv, TypeOK, Receive, SendResponse, RequestPhase, HasCtx, NamedAnApp, Recorded
<1>4. \A s \in Req \ {r} : RequestPhase(s)' = RequestPhase(s)
  BY PhaseKept DEF MapInv, TypeInv, TypeOK, Receive, SendResponse
<1>5. QED
  BY <1>1, <1>3, <1>4, OnePhase DEF Contract!Answer, Looping

\* A request with a context is answered, without an application.
LEMMA SettleStep ==
  ASSUME MapInv, NEW r \in Req, NEW code, NEW pid, code # "OK" \/ pid = NoPid,
         Looping, HasCtx(r), DeleteAppSpawningCtx({r}), SendResponse(r, code, pid),
         UNCHANGED <<reqConn, app>>
  PROVE  /\ RequestPhase(r) = "pending" /\ RequestPhase(r)' = "answered"
         /\ \A s \in Req \ {r} : RequestPhase(s)' = RequestPhase(s)
         /\ UNCHANGED loop => Contract!Answer(r)
<1>1. RequestPhase(r) = "pending"
  BY PhaseIs
<1>2. ~Recorded(r) /\ answers[r] = 0 /\ reqConn[r] # NoConn
  BY DEF MapInv, RequestInv, Recorded
<1>3. RequestPhase(r)' = "answered"
  BY <1>2, ServiceAssumption
  DEF MapInv, TypeInv, TypeOK, DeleteAppSpawningCtx, SendResponse, RequestPhase, HasCtx, NamedAnApp, Recorded
<1>4. \A s \in Req \ {r} : RequestPhase(s)' = RequestPhase(s)
  BY PhaseKept DEF MapInv, TypeInv, TypeOK, DeleteAppSpawningCtx, SendResponse
<1>5. UNCHANGED loop => Contract!Answer(r)
  BY <1>1, <1>3, <1>4, OnePhase DEF Contract!Answer, Looping
<1>6. QED
  BY <1>1, <1>3, <1>4, <1>5

\* When appQueue is emptied every application has ended and nothing else has happened.
LEMMA AllEnd ==
  ASSUME MapInv, NEW s \in Req,
         reqConn'[s] = reqConn[s], ctxSt'[s] = ctxSt[s], answers'[s] = answers[s],
         answer'[s] = answer[s], answerPid'[s] = answerPid[s],
         app' = [p \in Pid |-> NoReq]
  PROVE  RequestPhase(s)' = IF RequestPhase(s) = "running" THEN "ended" ELSE RequestPhase(s)
<1>1. ~Recorded(s)'
  BY ServiceAssumption DEF Recorded
<1>2. CASE Recorded(s)
  <2>1. RequestPhase(s) = "running" /\ NamedAnApp(s) /\ ~HasCtx(s) /\ reqConn[s] # NoConn
    BY <1>2, PhaseIs, ServiceAssumption DEF MapInv, RequestInv, AppsWereNamed, Recorded
  <2>2. RequestPhase(s)' = "ended"
    BY <1>1, <2>1 DEF RequestPhase, NamedAnApp, HasCtx
  <2>3. QED
    BY <2>1, <2>2
<1>3. CASE ~Recorded(s)
  <2>1. RequestPhase(s) # "running"
    BY <1>3, PhaseIs
  <2>2. RequestPhase(s)' = RequestPhase(s)
    BY <1>1, <1>3, PhaseKept DEF Recorded
  <2>3. QED
    BY <2>1, <2>2
<1>4. QED
  BY <1>2, <1>3

\* Every step of the service is a step of the contract, or changes no phase.
LEMMA StepImplements == MapInv /\ OwnerInv /\ [Next]_vars =>
    [Contract!Next]_(Contract!vars)
<1> SUFFICES ASSUME MapInv, OwnerInv, [Next]_vars PROVE [Contract!Next]_(Contract!vars)
  OBVIOUS
<1>a. Req = Contract!Requests
  BY DEF Req, Contract!Requests
<1>1. ASSUME NEW c \in Conn, OnConnection(c)
     PROVE  [Contract!Next]_(Contract!vars)
  BY <1>1, Unseen DEF OnConnection, vars, procVars, ctxVars, connVars, ansVars
<1>2. ASSUME NEW c \in Conn, OnClose(c)
     PROVE  [Contract!Next]_(Contract!vars)
  <2>1. CASE CtxsOf(c) = {}
    <3>1. ctxSt' = ctxSt
      BY <1>2, <2>1 DEF OnClose, DeleteAppSpawningCtx, MapInv, TypeInv, TypeOK
    <3>2. QED
      BY <1>2, <3>1, Unseen DEF OnClose, ansVars
  <2>2. CASE CtxsOf(c) # {}
    <3>1. Looping /\ Looping' /\ CtxsOf(c) \in SUBSET Req /\ \A r \in CtxsOf(c) : HasCtx(r)
      BY <1>2 DEF OnClose, CtxsOf, Looping, HasCtx
    <3>2. \A r \in CtxsOf(c) : RequestPhase(r) = "pending"
      BY <3>1, PhaseIs
    <3>3. ASSUME NEW r \in CtxsOf(c) PROVE RequestPhase(r)' = "dropped"
      <4>1. ~Recorded(r) /\ ~NamedAnApp(r) /\ answers[r] = 0 /\ reqConn[r] # NoConn
        BY <3>1, <3>3, ServiceAssumption
        DEF MapInv, RequestInv, UnansweredHasNoCode, NamedAnApp, Recorded, HasCtx
      <4>2. r \in Req /\ ctxSt'[r] = "none"
        BY <1>2, <3>1 DEF OnClose, DeleteAppSpawningCtx
      <4>3. QED
        BY <1>2, <4>1, <4>2 DEF OnClose, ansVars, RequestPhase, HasCtx, Recorded, NamedAnApp
    <3>4. \A s \in Req \ CtxsOf(c) : RequestPhase(s)' = RequestPhase(s)
      BY <1>2, PhaseKept DEF OnClose, DeleteAppSpawningCtx, ansVars
    <3>5. Contract!Drop(CtxsOf(c))
      BY <2>2, <3>1, <3>2, <3>3, <3>4 DEF Contract!Drop, Contract!Requests, Req
    <3>6. QED
      BY <3>1, <3>5 DEF Contract!Next, Contract!Requests, Req
  <2>3. QED
    BY <2>1, <2>2
<1>3. ASSUME NEW r \in SpawnReq, NEW c \in Conn,
           NEW code \in {"MSG_INVALID", "SYSTEM_ERROR"}, RejectSpawnReq(r, c, code)
     PROVE  [Contract!Next]_(Contract!vars)
  <2>1. Contract!Answer(r)
    BY <1>3, RefuseStep
    DEF RejectSpawnReq, Req, ansVars, ctxVars, memVars
  <2>2. QED
    BY <1>a, <2>1 DEF Contract!Next, Req
<1>4. ASSUME NEW r \in SpawnReq, NEW c \in Conn, SpawnHookFails(r, c)
     PROVE  [Contract!Next]_(Contract!vars)
  <2>1. Contract!Answer(r)
    BY <1>4, RefuseStep
    DEF SpawnHookFails, SpawnRefused, Req, ansVars, ctxVars, memVars
  <2>2. QED
    BY <1>a, <2>1 DEF Contract!Next, Req
<1>5. ASSUME NEW r \in SpawnReq, NEW c \in Conn,
           NEW code \in {"FORK_FAIL", "SYSTEM_ERROR"}, SpawnNormalFails(r, c, code)
     PROVE  [Contract!Next]_(Contract!vars)
  <2>1. Contract!Answer(r)
    BY <1>5, RefuseStep
    DEF SpawnNormalFails, SpawnReqMsg, SpawnRefused, Req, ansVars, ctxVars, memVars
  <2>2. QED
    BY <1>a, <2>1 DEF Contract!Next, Req
<1>6. ASSUME NEW r \in SpawnReq, NEW c \in Conn, NEW p \in Pid,
           NEW watched \in WatcherOutcomes, SpawnNormal(r, c, p, watched)
     PROVE  [Contract!Next]_(Contract!vars)
  <2>1. Receive(r, c) /\ UNCHANGED <<app, loop>> /\ r \in Req
    BY <1>6 DEF SpawnNormal, SpawnReqMsg, Req
  <2>2. \/ SendResponse(r, "OK", NoPid) /\ UNCHANGED ctxSt
        \/ ctxSt' = [ctxSt EXCEPT ![r] = "spawning"] /\ UNCHANGED <<answers, answer, answerPid>>
    BY <1>6 DEF SpawnNormal, AddChildWatcher, SpawnStarted, SpawnRefused, NewCtx, ansVars
  <2>3. Contract!Accept(r) \/ Contract!Answer(r)
    BY <2>1, <2>2, AcceptStep, RefuseStep
  <2>4. QED
    BY <1>a, <2>1, <2>3 DEF Contract!Next
<1>7. ASSUME NEW r \in SpawnReq, NEW c \in Conn, NEW p \in Pid, NEW q \in MaybePid,
           NEW watched \in WatcherOutcomes, SpawnAndReserve(r, c, p, q, watched)
     PROVE  [Contract!Next]_(Contract!vars)
  <2>1. Receive(r, c) /\ UNCHANGED <<app, loop>> /\ r \in Req
    BY <1>7 DEF SpawnAndReserve, SpawnReqMsg, Req
  <2>2. \/ SendResponse(r, "OK", NoPid) /\ UNCHANGED ctxSt
        \/ ctxSt' = [ctxSt EXCEPT ![r] = "spawning"] /\ UNCHANGED <<answers, answer, answerPid>>
    BY <1>7 DEF SpawnAndReserve, AddChildWatcher, SpawnStarted, SpawnRefused, NewCtx, ansVars
  <2>3. Contract!Accept(r) \/ Contract!Answer(r)
    BY <2>1, <2>2, AcceptStep, RefuseStep
  <2>4. QED
    BY <1>a, <2>1, <2>3 DEF Contract!Next
<1>8. ASSUME NEW r \in SpawnReq, NEW c \in Conn, NEW q \in MaybePid,
           NEW code \in {"FORK_FAIL", "SYSTEM_ERROR"},
           SpawnFailsAndReserves(r, c, q, code)
     PROVE  [Contract!Next]_(Contract!vars)
  <2>1. Contract!Answer(r)
    BY <1>8, RefuseStep
    DEF SpawnFailsAndReserves, SpawnReqMsg, SpawnRefused, Req
  <2>2. QED
    BY <1>a, <2>1 DEF Contract!Next, Req
<1>9. ASSUME NEW r \in SpawnReq, NEW c \in Conn, NEW q \in MaybePid,
           NEW watched \in WatcherOutcomes, SpawnHandOff(r, c, q, watched)
     PROVE  [Contract!Next]_(Contract!vars)
  <2>1. Receive(r, c) /\ UNCHANGED <<app, loop>> /\ r \in Req
    BY <1>9 DEF SpawnHandOff, SpawnReqMsg, Req
  <2>2. \/ SendResponse(r, "OK", NoPid) /\ UNCHANGED ctxSt
        \/ ctxSt' = [ctxSt EXCEPT ![r] = "spawning"] /\ UNCHANGED <<answers, answer, answerPid>>
    BY <1>9 DEF SpawnHandOff, AddChildWatcher, SpawnStarted, SpawnRefused, NewCtx, ansVars
  <2>3. Contract!Accept(r) \/ Contract!Answer(r)
    BY <2>1, <2>2, AcceptStep, RefuseStep
  <2>4. QED
    BY <1>a, <2>1, <2>3 DEF Contract!Next
<1>10. ASSUME NEW r \in SpawnReq, NEW c \in Conn, NEW q \in MaybePid,
           SpawnHandOffFails(r, c, q)
     PROVE  [Contract!Next]_(Contract!vars)
  <2>1. Contract!Answer(r)
    BY <1>10, RefuseStep
    DEF SpawnHandOffFails, SpawnReqMsg, SpawnRefused, Req
  <2>2. QED
    BY <1>a, <2>1 DEF Contract!Next, Req
<1>11. ASSUME NEW r \in LockReq, NEW c \in Conn, LockStatusRefused(r, c)
     PROVE  [Contract!Next]_(Contract!vars)
  <2>1. Contract!Answer(r)
    BY <1>11, RefuseStep
    DEF LockStatusRefused, Req, ctxVars
  <2>2. QED
    BY <1>a, <2>1 DEF Contract!Next, Req
<1>12. ASSUME NEW r \in LockReq, NEW c \in Conn, LockStatusLocked(r, c)
     PROVE  [Contract!Next]_(Contract!vars)
  <2>1. Contract!Answer(r)
    BY <1>12, RefuseStep
    DEF LockStatusLocked, Req, ctxVars
  <2>2. QED
    BY <1>a, <2>1 DEF Contract!Next, Req
<1>13. ASSUME NEW r \in LockReq, NEW c \in Conn, NEW q \in MaybePid,
           UnlockByPrefork(r, c, q)
     PROVE  [Contract!Next]_(Contract!vars)
  <2>1. Contract!Accept(r)
    BY <1>13, AcceptStep
    DEF UnlockByPrefork, UnlockEvent, NewCtx, Req, ansVars
  <2>2. QED
    BY <1>a, <2>1 DEF Contract!Next, Req
<1>14. ASSUME NEW r \in LockReq, NEW c \in Conn, NEW how \in Level1, NEW p \in Pid,
           NEW q \in MaybePid, UnlockByFork(r, c, how, p, q)
     PROVE  [Contract!Next]_(Contract!vars)
  <2>1. Contract!Accept(r)
    BY <1>14, AcceptStep
    DEF UnlockByFork, UnlockEvent, NewCtx, Req, ansVars
  <2>2. QED
    BY <1>a, <2>1 DEF Contract!Next, Req
<1>15. ASSUME NEW r \in LockReq, NEW c \in Conn, NEW how \in Level1, NEW p \in MaybePid,
           NEW code \in {"OK", "HOOK_FAIL"}, NEW q \in MaybePid,
           UnlockSerial(r, c, how, p, q, code)
     PROVE  [Contract!Next]_(Contract!vars)
  <2>1. Contract!Answer(r)
    BY <1>15, RefuseStep
    DEF UnlockSerial, UnlockEvent, Req, ctxVars
  <2>2. QED
    BY <1>a, <2>1 DEF Contract!Next, Req
<1>16. ASSUME NEW p \in Pid, ChildTakesCmd(p)
     PROVE  [Contract!Next]_(Contract!vars)
  BY <1>16, Unseen DEF ChildTakesCmd, vars, procVars, ctxVars, connVars, ansVars
<1>17. ASSUME NEW p \in Pid, NEW result \in {"ok", "fail"}, ChildReports(p, result)
     PROVE  [Contract!Next]_(Contract!vars)
  BY <1>17, Unseen DEF ChildReports, vars, procVars, ctxVars, connVars, ansVars
<1>18. ASSUME NEW p \in Pid, NEW how \in Zombie, ChildDies(p, how)
     PROVE  [Contract!Next]_(Contract!vars)
  BY <1>18, Unseen DEF ChildDies, vars, procVars, ctxVars, connVars, ansVars
<1>19. ASSUME NEW r \in Req, ChildFailed(r)
     PROVE  [Contract!Next]_(Contract!vars)
  <2>1. Contract!Answer(r)
    BY <1>19, SettleStep
    DEF ChildFailed, DropCtx, HasCtx, connVars
  <2>2. QED
    BY <1>a, <2>1 DEF Contract!Next, Req
<1>20. ASSUME NEW r \in Req, ChildSpawned(r)
     PROVE  [Contract!Next]_(Contract!vars)
  <2>1. HasCtx(r) /\ Looping /\ Looping' /\ ctxPid[r] \in Pid /\ r \in SpawnReq
    BY <1>20 DEF ChildSpawned, HasCtx, Looping, MapInv, TypeInv, CtxHasChild, RequestInv
  <2>2. RequestPhase(r) = "pending"
    BY <2>1, PhaseIs
  <2>3. app[ctxPid[r]] = NoReq /\ app \in [Pid -> Req \cup {NoReq}] /\ app'[ctxPid[r]] = r
    BY <1>20, <2>1 DEF ChildSpawned, MapInv, TypeInv, TypeOK, OwnerInv, PidOwnedOnce
  <2>4. RequestPhase(r)' = "running"
    <3>1. Recorded(r)' /\ ~HasCtx(r)' /\ reqConn'[r] # NoConn
      BY <1>20, <2>1, <2>3, ServiceAssumption
      DEF ChildSpawned, DropCtx, DeleteAppSpawningCtx, connVars, Recorded, HasCtx, MapInv, RequestInv
    <3>2. NamedAnApp(r)'
      BY <1>20, <2>1, ServiceAssumption DEF ChildSpawned, SendResponse, NamedAnApp, MapInv, TypeInv, TypeOK
    <3>3. QED
      BY <3>1, <3>2 DEF RequestPhase
  <2>5. ASSUME NEW s \in Req \ {r} PROVE RequestPhase(s)' = RequestPhase(s)
    <3>1. (\E p \in Pid : app'[p] = s) <=> (\E p \in Pid : app[p] = s)
      BY <1>20, <2>1, <2>3, ServiceAssumption DEF ChildSpawned
    <3>2. QED
      BY <1>20, <3>1, PhaseKept
      DEF ChildSpawned, DropCtx, DeleteAppSpawningCtx, SendResponse, connVars, MapInv, TypeInv, TypeOK
  <2>6. Contract!Start(r)
    BY <2>1, <2>2, <2>4, <2>5, OnePhase DEF Contract!Start
  <2>7. QED
    BY <1>a, <2>6 DEF Contract!Next
<1>21. ASSUME NEW r \in Req, ChildNotRecorded(r)
     PROVE  [Contract!Next]_(Contract!vars)
  <2>1. Contract!Answer(r)
    BY <1>21, SettleStep
    DEF ChildNotRecorded, DropCtx, HasCtx, connVars
  <2>2. QED
    BY <1>a, <2>1 DEF Contract!Next, Req
<1>22. ASSUME NEW r \in Req, WaitChildTimeout(r)
     PROVE  [Contract!Next]_(Contract!vars)
  <2>1. Contract!Answer(r)
    BY <1>22, SettleStep
    DEF WaitChildTimeout, DropCtx, HasCtx, connVars
  <2>2. QED
    BY <1>a, <2>1 DEF Contract!Next, Req
<1>23. ASSUME NEW r \in Req, ProcessUnlockChildResponse(r)
     PROVE  [Contract!Next]_(Contract!vars)
  <2>1. Contract!Answer(r)
    BY <1>23, SettleStep
    DEF ProcessUnlockChildResponse, DropUnlockCtx, HasCtx, connVars
  <2>2. QED
    BY <1>a, <2>1 DEF Contract!Next, Req
<1>24. ASSUME NEW r \in Req, UnlockChildTimeout(r)
     PROVE  [Contract!Next]_(Contract!vars)
  <2>1. Contract!Answer(r)
    BY <1>24, SettleStep
    DEF UnlockChildTimeout, DropUnlockCtx, HasCtx, connVars
  <2>2. QED
    BY <1>a, <2>1 DEF Contract!Next, Req
<1>25. ASSUME NEW r \in Req, SendMessageComplete(r)
     PROVE  [Contract!Next]_(Contract!vars)
  BY <1>25, Unseen DEF SendMessageComplete, vars, procVars, ctxVars, connVars, ansVars
<1>26. ASSUME NEW p \in Pid, AppDied(p)
     PROVE  [Contract!Next]_(Contract!vars)
  <2>0. PICK r \in Req : r = app[p]
    BY <1>26 DEF AppDied, MapInv, TypeInv, TypeOK
  <2>1. Recorded(r) /\ Looping /\ Looping' /\ NamedAnApp(r)
    BY <1>26, <2>0 DEF AppDied, Reap, Looping, Recorded, MapInv, TypeInv, TypeOK, AppsWereNamed
  <2>2. RequestPhase(r) = "running"
    BY <2>1, PhaseIs
  <2>3. \A s \in Req : (\E x \in Pid : app'[x] = s) <=> s # r /\ (\E x \in Pid : app[x] = s)
    <3>1. app' = [app EXCEPT ![p] = NoReq] /\ app[p] # NoReq /\ r = app[p] /\ app \in [Pid -> Req \cup {NoReq}]
      BY <1>26, <2>0 DEF AppDied, MapInv, TypeInv, TypeOK
    <3>2. \A x \in Pid : app[x] = app[p] => x = p
      BY <3>1 DEF OwnerInv, PidOwnedOnce
    <3>3. QED
      BY <3>1, <3>2, ServiceAssumption
  <2>4. RequestPhase(r)' = "ended"
    <3>1. ~Recorded(r)' /\ ~HasCtx(r)' /\ reqConn'[r] # NoConn /\ NamedAnApp(r)'
      BY <1>26, <2>1, <2>3
      DEF AppDied, Recorded, HasCtx, NamedAnApp, ctxVars, connVars, ansVars, MapInv, RequestInv
    <3>2. QED
      BY <3>1 DEF RequestPhase
  <2>5. \A s \in Req \ {r} : RequestPhase(s)' = RequestPhase(s)
    BY <1>26, <2>3, PhaseKept DEF AppDied, ctxVars, connVars, ansVars
  <2>6. Contract!End(r)
    BY <2>1, <2>2, <2>4, <2>5, OnePhase DEF Contract!End
  <2>7. QED
    BY <1>a, <2>1, <2>6 DEF Contract!Next
<1>27. ASSUME NEW p \in Pid, OtherChildDied(p)
     PROVE  [Contract!Next]_(Contract!vars)
  BY <1>27, Unseen DEF OtherChildDied, vars, procVars, ctxVars, connVars, ansVars
<1>28. ASSUME NEW p \in Pid, NEW r \in Req, SpawningChildDied(p, r)
     PROVE  [Contract!Next]_(Contract!vars)
  <2>1. /\ HasCtx(r) /\ Looping /\ Looping' /\ UNCHANGED reqConn
        /\ DeleteAppSpawningCtx({r}) /\ SendResponse(r, "CHILD_CRASH", NoPid)
    BY <1>28 DEF SpawningChildDied, Reap, SpawningOf, HasCtx, Looping, connVars
  <2>2. CASE UNCHANGED <<app, loop>>
    <3>1. Contract!Answer(r)
      BY <2>1, <2>2, SettleStep
    <3>2. QED
      BY <1>a, <3>1 DEF Contract!Next
  <2>3. CASE app' = [x \in Pid |-> NoReq]
    <3>1. RequestPhase(r) = "pending"
      BY <2>1, PhaseIs
    <3>2. RequestPhase(r)' = "answered"
      BY <2>1, <2>3, ServiceAssumption
      DEF DeleteAppSpawningCtx, SendResponse, RequestPhase, HasCtx, Recorded, NamedAnApp,
          MapInv, TypeInv, TypeOK, RequestInv
    <3>3. \A s \in Req \ {r} : /\ reqConn'[s] = reqConn[s] /\ ctxSt'[s] = ctxSt[s]
                               /\ answers'[s] = answers[s] /\ answer'[s] = answer[s]
                               /\ answerPid'[s] = answerPid[s]
      BY <2>1 DEF DeleteAppSpawningCtx, SendResponse, MapInv, TypeInv, TypeOK
    <3>4. \A s \in Req \ {r} :
            RequestPhase(s)' = IF RequestPhase(s) = "running" THEN "ended" ELSE RequestPhase(s)
      BY <2>3, <3>3, AllEnd
    <3>5. Contract!EndAll({r})
      BY <1>a, <2>1, <3>1, <3>2, <3>4 DEF Contract!EndAll
    <3>6. QED
      BY <1>a, <3>5 DEF Contract!Next
  <2>4. QED
    BY <1>28, <2>2, <2>3 DEF SpawningChildDied
<1>29. ASSUME StopAppSpawn
     PROVE  [Contract!Next]_(Contract!vars)
  <2>1. \A s \in Req :
          RequestPhase(s)' = IF RequestPhase(s) = "running" THEN "ended" ELSE RequestPhase(s)
    BY <1>29, AllEnd DEF StopAppSpawn, ctxVars, connVars, ansVars
  <2>2. Contract!EndAll({})
    BY <1>29, <1>a, <2>1 DEF StopAppSpawn, Looping, Contract!EndAll
  <2>3. QED
    BY <2>2 DEF Contract!Next
<1>30. ASSUME AppSpawnDestroyContent
     PROVE  [Contract!Next]_(Contract!vars)
  <2>1. Looping /\ ~Looping'
    BY <1>30 DEF AppSpawnDestroyContent, Looping
  <2>2. ASSUME NEW s \in Req
        PROVE  RequestPhase(s)' = IF RequestPhase(s) = "pending" THEN "dropped"
                                  ELSE IF RequestPhase(s) = "running" THEN "ended"
                                  ELSE RequestPhase(s)
    <3>1. CASE HasCtx(s)
      <4>1. RequestPhase(s) = "pending" /\ ~NamedAnApp(s) /\ answers[s] = 0 /\ reqConn[s] # NoConn
        BY <3>1, PhaseIs, ServiceAssumption DEF MapInv, RequestInv, UnansweredHasNoCode, NamedAnApp
      <4>2. RequestPhase(s)' = "dropped"
        BY <1>30, <4>1, ServiceAssumption
        DEF AppSpawnDestroyContent, DeleteAppSpawningCtx, RequestPhase, HasCtx, Recorded, NamedAnApp, ansVars
      <4>3. QED
        BY <4>1, <4>2
    <3>2. CASE ~HasCtx(s)
      <4>1. RequestPhase(s) # "pending"
        BY <3>2, PhaseIs
      <4>2. ctxSt'[s] = ctxSt[s]
        BY <1>30, <3>2 DEF AppSpawnDestroyContent, DeleteAppSpawningCtx, HasCtx
      <4>3. RequestPhase(s)' = IF RequestPhase(s) = "running" THEN "ended" ELSE RequestPhase(s)
        BY <1>30, <4>2, AllEnd DEF AppSpawnDestroyContent, ansVars
      <4>4. QED
        BY <4>1, <4>3
    <3>3. QED
      BY <3>1, <3>2
  <2>3. Contract!Exit
    BY <1>a, <2>1, <2>2 DEF Contract!Exit
  <2>4. QED
    BY <2>3 DEF Contract!Next
<1>31. CASE UNCHANGED vars
  BY <1>31, Unseen DEF vars, vars, procVars, ctxVars, connVars, ansVars
<1>32. QED
  BY <1>1, <1>2, <1>3, <1>4, <1>5, <1>6, <1>7, <1>8, <1>9, <1>10, <1>11, <1>12, <1>13,
      <1>14, <1>15, <1>16, <1>17, <1>18, <1>19, <1>20, <1>21, <1>22, <1>23, <1>24,
      <1>25, <1>26, <1>27, <1>28, <1>29, <1>30, <1>31
  DEF Next, Client, Child, Service, ProcessSpawnReqMsg,
      ProcessLockStatusMsg, ProcessChildResponse, HandleDiedPid

\* Every behaviour of the service is one the contract allows: a request is settled once
\* and for good, and an application appears only in the step that answers its request.
THEOREM ServiceImplementsContract == Spec => ImplementsContract
<1>1. Init => Contract!Init
  BY ServiceAssumption
  DEF Init, Contract!Init, Contract!Requests, Req, RequestPhase, HasCtx, Recorded, NamedAnApp, Looping
<1>2. CrashInv => UnansweredHasNoCode
  BY DEF CrashInv
<1>3. TypeInv /\ RequestInv /\ UnansweredHasNoCode /\ AppsWereNamed => MapInv
  BY DEF MapInv
<1>4. QED
  BY TypeInvInit, TypeInvNext, RequestInvInit, RequestInvNext, OwnerInvInit, OwnerInvNext,
     CrashInvInit, CrashInvNext, AppsWereNamedInit, AppsWereNamedNext, <1>1, <1>2, <1>3,
     StepImplements, PTL
  DEF Spec, ImplementsContract, Contract!Spec
=============================================================================
