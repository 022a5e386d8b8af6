------------------------ MODULE AppSpawnServiceProofs ------------------------
(***************************************************************************)
(* Proofs about AppSpawnService, for every set of requests, connections    *)
(* and processes, with and without prefork, and for every set of faults.   *)
(***************************************************************************)
EXTENDS AppSpawnService, TLAPS

\* What fork() returns is a process that did not exist yet, or nothing.
LEMMA ForkResultsType ==
  \A S : /\ ForkResults(S) \subseteq (Unborn \ S) \cup {NoPid}
         /\ Reserves(S) \subseteq (Unborn \ S) \cup {NoPid}
  BY DEF ForkResults, Reserves

\* The processes fork() can still make are processes.
LEMMA UnbornIsPid == Unborn \subseteq Pid
  BY DEF Unborn

(***************************************************************************)
(* Type correctness.                                                       *)
(***************************************************************************)
\* A context in the queue has a child (its pid is set before the handler returns).
CtxHasChild == \A r \in Req : HasCtx(r) => ctxPid[r] \in Pid

TypeInv == TypeOK /\ CtxHasChild

\* CreateAppSpawnMgr leaves a well-typed state without contexts.
LEMMA TypeInvInit == Init => TypeInv
  BY ServiceAssumption
  DEF Init, TypeInv, CtxHasChild, HasCtx, TypeOK, Req, ProcState, Unreaped, Live, Zombie, Codes

\* No handler breaks a type or makes a context without a child.
LEMMA TypeInvNext == TypeInv /\ [Next]_vars => TypeInv'
<1> SUFFICES ASSUME TypeInv, [Next]_vars PROVE TypeInv'
  OBVIOUS
<1> USE ServiceAssumption, ForkResultsType, UnbornIsPid
    DEF TypeInv, CtxHasChild, HasCtx, TypeOK, Req, ProcState, Unreaped, Live, Zombie, Codes, Ends, ResultEnds, CommandEnds,
        FdType, vars, procVars, fdVars, ctxVars, connVars, ansVars, memVars, idVars
<1>1. ASSUME NEW c \in Conn, OnConnection(c)
     PROVE  TypeInv'
  BY <1>1 DEF OnConnection
<1>2. ASSUME NEW c \in Conn, OnClose(c)
     PROVE  TypeInv'
  BY <1>2 DEF OnClose, CtxsOf, SpawnAbort, DeleteAppSpawningCtx, CloseCtxFds, CtxEnds
<1>3. ASSUME NEW r \in SpawnReq, NEW c \in Conn, NEW code \in {"MSG_INVALID", "SYSTEM_ERROR"},
           RejectSpawnReq(r, c, code)
     PROVE  TypeInv'
  BY <1>3 DEF RejectSpawnReq, Receive, SendResponse
<1>4. ASSUME NEW r \in SpawnReq, NEW c \in Conn, SpawnHookFails(r, c)
     PROVE  TypeInv'
  BY <1>4 DEF SpawnHookFails, Receive, SpawnRefused, SendResponse
<1>5. ASSUME NEW r \in SpawnReq, NEW c \in Conn, NEW code \in {"FORK_FAIL", "SYSTEM_ERROR"},
           SpawnNormalFails(r, c, code)
     PROVE  TypeInv'
  BY <1>5 DEF SpawnNormalFails, SpawnReqMsg, Receive, SpawnRefused, SendResponse
<1>6. ASSUME NEW r \in SpawnReq, NEW c \in Conn, NEW p \in Pid, NEW watched \in WatcherOutcomes,
           SpawnNormal(r, c, p, watched)
     PROVE  TypeInv'
  BY <1>6 DEF SpawnNormal, SpawnReqMsg, Receive, Forked, AddChildWatcher, SpawnStarted,
        SpawnRefused, NewCtx, SendResponse, EndsKept
<1>7. ASSUME NEW r \in SpawnReq, NEW c \in Conn, NEW p \in Pid, NEW q \in MaybePid,
           NEW watched \in WatcherOutcomes, SpawnAndReserve(r, c, p, q, watched)
     PROVE  TypeInv'
  BY <1>7 DEF SpawnAndReserve, SpawnReqMsg, Receive, Forked, Rewire, AddChildWatcher, SpawnStarted,
        SpawnRefused, NewCtx, SendResponse, EndsKept
<1>8. ASSUME NEW r \in SpawnReq, NEW c \in Conn, NEW q \in MaybePid, NEW code \in {"FORK_FAIL", "SYSTEM_ERROR"},
           SpawnFailsAndReserves(r, c, q, code)
     PROVE  TypeInv'
  BY <1>8 DEF SpawnFailsAndReserves, SpawnReqMsg, Receive, Forked, Rewire, SpawnRefused, SendResponse
<1>9. ASSUME NEW r \in SpawnReq, NEW c \in Conn, NEW q \in MaybePid, NEW watched \in WatcherOutcomes,
           SpawnHandOff(r, c, q, watched)
     PROVE  TypeInv'
  <2>1. reservedPid \in Pid
    BY <1>9 DEF SpawnHandOff
  <2>2. q \in Pid \cup {NoPid}
    BY DEF MaybePid
  <2> HIDE ForkResultsType, UnbornIsPid
  <2>3. QED
    BY <1>9, <2>1, <2>2, SMTT(30)
    DEF SpawnHandOff, SpawnReqMsg, Receive, TellChild, Forked, Rewire, AddChildWatcher,
        SpawnStarted, SpawnRefused, NewCtx, SendResponse, EndsKept
<1>10. ASSUME NEW r \in SpawnReq, NEW c \in Conn, NEW q \in MaybePid, SpawnHandOffFails(r, c, q)
     PROVE  TypeInv'
  BY <1>10 DEF SpawnHandOffFails, SpawnReqMsg, Receive, Forked, Rewire, SpawnRefused, SendResponse
<1>11. ASSUME NEW r \in LockReq, NEW c \in Conn, LockStatusRefused(r, c)
     PROVE  TypeInv'
  BY <1>11 DEF LockStatusRefused, Receive, SendResponse
<1>12. ASSUME NEW r \in LockReq, NEW c \in Conn, LockStatusLocked(r, c)
     PROVE  TypeInv'
  BY <1>12 DEF LockStatusLocked, Receive, SendResponse
<1>13. ASSUME NEW r \in LockReq, NEW c \in Conn, NEW q \in MaybePid, UnlockByPrefork(r, c, q)
     PROVE  TypeInv'
  BY <1>13 DEF UnlockByPrefork, UnlockEvent, Receive, TellChild, Forked, Rewire, NewCtx
<1>14. ASSUME NEW r \in LockReq, NEW c \in Conn, NEW how \in Level1, NEW p \in Pid,
           NEW q \in MaybePid, UnlockByFork(r, c, how, p, q)
     PROVE  TypeInv'
  BY <1>14 DEF UnlockByFork, UnlockEvent, Receive, Level1Fails, TellChild, Forked, Rewire, NewCtx
<1>15. ASSUME NEW r \in LockReq, NEW c \in Conn, NEW how \in Level1, NEW p \in MaybePid,
           NEW code \in {"OK", "HOOK_FAIL"}, NEW q \in MaybePid,
           UnlockSerial(r, c, how, p, q, code)
     PROVE  TypeInv'
  BY <1>15 DEF UnlockSerial, UnlockEvent, Receive, Level1Fails, TellChild, Forked, Rewire,
        SendResponse
<1>16. ASSUME NEW p \in Pid, ChildTakesCmd(p)
     PROVE  TypeInv'
  BY <1>16 DEF ChildTakesCmd
<1>17. ASSUME NEW p \in Pid, NEW result \in {"ok", "fail"}, ChildReports(p, result)
     PROVE  TypeInv'
  BY <1>17 DEF ChildReports, AfterReport
<1>18. ASSUME NEW p \in Pid, NEW how \in Zombie, ChildDies(p, how)
     PROVE  TypeInv'
  BY <1>18 DEF ChildDies
<1>19. ASSUME NEW r \in Req, ChildFailed(r)
     PROVE  TypeInv'
  BY <1>19 DEF ChildFailed, SpawnAbort, SendResponse, DropCtx, DeleteAppSpawningCtx, CloseCtxFds, CtxEnds
<1>20. ASSUME NEW r \in Req, ChildSpawned(r)
     PROVE  TypeInv'
  BY <1>20 DEF ChildSpawned, SendResponse, DropCtx, DeleteAppSpawningCtx, CloseCtxFds, CtxEnds
<1>21. ASSUME NEW r \in Req, ChildNotRecorded(r)
     PROVE  TypeInv'
  BY <1>21 DEF ChildNotRecorded, SpawnAbort, SendResponse, DropCtx, DeleteAppSpawningCtx,
        CloseCtxFds, CtxEnds
<1>22. ASSUME NEW r \in Req, WaitChildTimeout(r)
     PROVE  TypeInv'
  BY <1>22 DEF WaitChildTimeout, SpawnAbort, SendResponse, DropCtx, DeleteAppSpawningCtx,
        CloseCtxFds, CtxEnds
<1>23. ASSUME NEW r \in Req, ProcessUnlockChildResponse(r)
     PROVE  TypeInv'
  BY <1>23 DEF ProcessUnlockChildResponse, UnlockCode, SendResponse, DropUnlockCtx,
        DeleteAppSpawningCtx, CloseCtxFds, CtxEnds
<1>24. ASSUME NEW r \in Req, UnlockChildTimeout(r)
     PROVE  TypeInv'
  BY <1>24 DEF UnlockChildTimeout, SendResponse, DropUnlockCtx, DeleteAppSpawningCtx, CloseCtxFds, CtxEnds
<1>25. ASSUME NEW r \in Req, SendMessageComplete(r)
     PROVE  TypeInv'
  BY <1>25 DEF SendMessageComplete
<1>26. ASSUME NEW p \in Pid, AppDied(p)
     PROVE  TypeInv'
  BY <1>26 DEF AppDied, Reap, FdsAfterReap
<1>27. ASSUME NEW p \in Pid, OtherChildDied(p)
     PROVE  TypeInv'
  BY <1>27 DEF OtherChildDied, Reap, FdsAfterReap
<1>28. ASSUME NEW p \in Pid, NEW r \in Req, SpawningChildDied(p, r)
     PROVE  TypeInv'
  BY <1>28 DEF SpawningChildDied, Reap, SpawningOf, CrashesAfter, SendResponse, DeleteAppSpawningCtx,
        CtxEnds, StopVictims, Recorded
<1>29. ASSUME StopAppSpawn
     PROVE  TypeInv'
  BY <1>29 DEF StopAppSpawn, StopVictims, Recorded
<1>30. ASSUME AppSpawnDestroyContent
     PROVE  TypeInv'
  BY <1>30 DEF AppSpawnDestroyContent, DeleteAppSpawningCtx
<1>31. CASE UNCHANGED vars
  BY <1>31
<1> HIDE ServiceAssumption, ForkResultsType, UnbornIsPid
    DEF TypeInv, CtxHasChild, HasCtx, TypeOK, Req, ProcState, Unreaped, Live, Zombie, Codes, Ends, ResultEnds, CommandEnds,
        FdType, vars, procVars, fdVars, ctxVars, connVars, ansVars, memVars, idVars
<1>32. QED
  BY <1>1, <1>2, <1>3, <1>4, <1>5, <1>6, <1>7, <1>8, <1>9, <1>10, <1>11, <1>12,
     <1>13, <1>14, <1>15, <1>16, <1>17, <1>18, <1>19, <1>20, <1>21, <1>22, <1>23, <1>24,
     <1>25, <1>26, <1>27, <1>28, <1>29, <1>30, <1>31
  DEF Next, Client, Child, Service, ProcessSpawnReqMsg,
      ProcessLockStatusMsg, ProcessChildResponse, HandleDiedPid

\* Every variable of the service model always has its type.
THEOREM TypeCorrect == Spec => []TypeOK
<1>1. TypeInv => TypeOK
  BY DEF TypeInv
<1>2. QED
  BY TypeInvInit, TypeInvNext, <1>1, PTL DEF Spec

(***************************************************************************)
(* The life of a request: not received, in a context, or settled.  Its     *)
(* response is sent by the step that deletes its context (or that never    *)
(* leaves one behind), so the three do not overlap.                        *)
(***************************************************************************)
RequestInv ==
  \A r \in Req :
    /\ ctxSt[r] = "spawning" => r \in SpawnReq
    /\ ctxSt[r] = "unlock" => r \in LockReq
    /\ answers[r] \in {0, 1}
    /\ HasCtx(r) => answers[r] = 0 /\ reqConn[r] \in Conn /\ conn[reqConn[r]] = "open"
    /\ HasCtx(r) \/ reqConn[r] = NoConn => \A p \in Pid : app[p] # r
    /\ reqConn[r] = NoConn => ~HasCtx(r) /\ answers[r] = 0

\* Before the first message no request has a connection, a context or an answer.
LEMMA RequestInvInit == Init => RequestInv
  BY ServiceAssumption DEF Init, RequestInv, HasCtx, Req

\* Every handler that answers also deletes the context it answers for, and OnClose
\* deletes those of the connection it closes.
LEMMA RequestInvNext == TypeInv /\ RequestInv /\ [Next]_vars => RequestInv'
<1> SUFFICES ASSUME TypeInv, RequestInv, [Next]_vars PROVE RequestInv'
  OBVIOUS
<1> USE ServiceAssumption, ForkResultsType, UnbornIsPid
    DEF TypeInv, CtxHasChild, RequestInv, HasCtx, TypeOK, Req, ProcState, Unreaped, Live, Zombie, Codes, Ends, ResultEnds, CommandEnds,
        FdType, vars, procVars, fdVars, ctxVars, connVars, ansVars, memVars, idVars
<1>1. ASSUME NEW c \in Conn, OnConnection(c)
     PROVE  RequestInv'
  BY <1>1 DEF OnConnection
<1>2. ASSUME NEW c \in Conn, OnClose(c)
     PROVE  RequestInv'
  BY <1>2 DEF OnClose, CtxsOf, SpawnAbort, DeleteAppSpawningCtx, CloseCtxFds, CtxEnds
<1>3. ASSUME NEW r \in SpawnReq, NEW c \in Conn, NEW code \in {"MSG_INVALID", "SYSTEM_ERROR"},
           RejectSpawnReq(r, c, code)
     PROVE  RequestInv'
  BY <1>3 DEF RejectSpawnReq, Receive, SendResponse
<1>4. ASSUME NEW r \in SpawnReq, NEW c \in Conn, SpawnHookFails(r, c)
     PROVE  RequestInv'
  BY <1>4 DEF SpawnHookFails, Receive, SpawnRefused, SendResponse
<1>5. ASSUME NEW r \in SpawnReq, NEW c \in Conn, NEW code \in {"FORK_FAIL", "SYSTEM_ERROR"},
           SpawnNormalFails(r, c, code)
     PROVE  RequestInv'
  BY <1>5 DEF SpawnNormalFails, SpawnReqMsg, Receive, SpawnRefused, SendResponse
<1>6. ASSUME NEW r \in SpawnReq, NEW c \in Conn, NEW p \in Pid, NEW watched \in WatcherOutcomes,
           SpawnNormal(r, c, p, watched)
     PROVE  RequestInv'
  BY <1>6 DEF SpawnNormal, SpawnReqMsg, Receive, Forked, AddChildWatcher, SpawnStarted,
        SpawnRefused, NewCtx, SendResponse, EndsKept
<1>7. ASSUME NEW r \in SpawnReq, NEW c \in Conn, NEW p \in Pid, NEW q \in MaybePid,
           NEW watched \in WatcherOutcomes, SpawnAndReserve(r, c, p, q, watched)
     PROVE  RequestInv'
  BY <1>7 DEF SpawnAndReserve, SpawnReqMsg, Receive, Forked, Rewire, AddChildWatcher, SpawnStarted,
        SpawnRefused, NewCtx, SendResponse, EndsKept
<1>8. ASSUME NEW r \in SpawnReq, NEW c \in Conn, NEW q \in MaybePid, NEW code \in {"FORK_FAIL", "SYSTEM_ERROR"},
           SpawnFailsAndReserves(r, c, q, code)
     PROVE  RequestInv'
  BY <1>8 DEF SpawnFailsAndReserves, SpawnReqMsg, Receive, Forked, Rewire, SpawnRefused, SendResponse
<1>9. ASSUME NEW r \in SpawnReq, NEW c \in Conn, NEW q \in MaybePid, NEW watched \in WatcherOutcomes,
           SpawnHandOff(r, c, q, watched)
     PROVE  RequestInv'
  BY <1>9 DEF SpawnHandOff, SpawnReqMsg, Receive, TellChild, Forked, Rewire, AddChildWatcher,
        SpawnStarted, SpawnRefused, NewCtx, SendResponse, EndsKept
<1>10. ASSUME NEW r \in SpawnReq, NEW c \in Conn, NEW q \in MaybePid, SpawnHandOffFails(r, c, q)
     PROVE  RequestInv'
  BY <1>10 DEF SpawnHandOffFails, SpawnReqMsg, Receive, Forked, Rewire, SpawnRefused, SendResponse
<1>11. ASSUME NEW r \in LockReq, NEW c \in Conn, LockStatusRefused(r, c)
     PROVE  RequestInv'
  BY <1>11 DEF LockStatusRefused, Receive, SendResponse
<1>12. ASSUME NEW r \in LockReq, NEW c \in Conn, LockStatusLocked(r, c)
     PROVE  RequestInv'
  BY <1>12 DEF LockStatusLocked, Receive, SendResponse
<1>13. ASSUME NEW r \in LockReq, NEW c \in Conn, NEW q \in MaybePid, UnlockByPrefork(r, c, q)
     PROVE  RequestInv'
  BY <1>13 DEF UnlockByPrefork, UnlockEvent, Receive, TellChild, Forked, Rewire, NewCtx
<1>14. ASSUME NEW r \in LockReq, NEW c \in Conn, NEW how \in Level1, NEW p \in Pid,
           NEW q \in MaybePid, UnlockByFork(r, c, how, p, q)
     PROVE  RequestInv'
  BY <1>14 DEF UnlockByFork, UnlockEvent, Receive, Level1Fails, TellChild, Forked, Rewire, NewCtx
<1>15. ASSUME NEW r \in LockReq, NEW c \in Conn, NEW how \in Level1, NEW p \in MaybePid,
           NEW code \in {"OK", "HOOK_FAIL"}, NEW q \in MaybePid,
           UnlockSerial(r, c, how, p, q, code)
     PROVE  RequestInv'
  BY <1>15 DEF UnlockSerial, UnlockEvent, Receive, Level1Fails, TellChild, Forked, Rewire,
        SendResponse
<1>16. ASSUME NEW p \in Pid, ChildTakesCmd(p)
     PROVE  RequestInv'
  BY <1>16 DEF ChildTakesCmd
<1>17. ASSUME NEW p \in Pid, NEW result \in {"ok", "fail"}, ChildReports(p, result)
     PROVE  RequestInv'
  BY <1>17 DEF ChildReports, AfterReport
<1>18. ASSUME NEW p \in Pid, NEW how \in Zombie, ChildDies(p, how)
     PROVE  RequestInv'
  BY <1>18 DEF ChildDies
<1>19. ASSUME NEW r \in Req, ChildFailed(r)
     PROVE  RequestInv'
  BY <1>19 DEF ChildFailed, SpawnAbort, SendResponse, DropCtx, DeleteAppSpawningCtx, CloseCtxFds, CtxEnds
<1>20. ASSUME NEW r \in Req, ChildSpawned(r)
     PROVE  RequestInv'
  BY <1>20 DEF ChildSpawned, SendResponse, DropCtx, DeleteAppSpawningCtx, CloseCtxFds, CtxEnds
<1>21. ASSUME NEW r \in Req, ChildNotRecorded(r)
     PROVE  RequestInv'
  BY <1>21 DEF ChildNotRecorded, SpawnAbort, SendResponse, DropCtx, DeleteAppSpawningCtx,
        CloseCtxFds, CtxEnds
<1>22. ASSUME NEW r \in Req, WaitChildTimeout(r)
     PROVE  RequestInv'
  BY <1>22 DEF WaitChildTimeout, SpawnAbort, SendResponse, DropCtx, DeleteAppSpawningCtx,
        CloseCtxFds, CtxEnds
<1>23. ASSUME NEW r \in Req, ProcessUnlockChildResponse(r)
     PROVE  RequestInv'
  BY <1>23 DEF ProcessUnlockChildResponse, UnlockCode, SendResponse, DropUnlockCtx,
        DeleteAppSpawningCtx, CloseCtxFds, CtxEnds
<1>24. ASSUME NEW r \in Req, UnlockChildTimeout(r)
     PROVE  RequestInv'
  BY <1>24 DEF UnlockChildTimeout, SendResponse, DropUnlockCtx, DeleteAppSpawningCtx, CloseCtxFds, CtxEnds
<1>25. ASSUME NEW r \in Req, SendMessageComplete(r)
     PROVE  RequestInv'
  BY <1>25 DEF SendMessageComplete
<1>26. ASSUME NEW p \in Pid, AppDied(p)
     PROVE  RequestInv'
  BY <1>26 DEF AppDied, Reap, FdsAfterReap
<1>27. ASSUME NEW p \in Pid, OtherChildDied(p)
     PROVE  RequestInv'
  BY <1>27 DEF OtherChildDied, Reap, FdsAfterReap
<1>28. ASSUME NEW p \in Pid, NEW r \in Req, SpawningChildDied(p, r)
     PROVE  RequestInv'
  BY <1>28 DEF SpawningChildDied, Reap, SpawningOf, CrashesAfter, SendResponse, DeleteAppSpawningCtx,
        CtxEnds, StopVictims, Recorded
<1>29. ASSUME StopAppSpawn
     PROVE  RequestInv'
  BY <1>29 DEF StopAppSpawn, StopVictims, Recorded
<1>30. ASSUME AppSpawnDestroyContent
     PROVE  RequestInv'
  BY <1>30 DEF AppSpawnDestroyContent, DeleteAppSpawningCtx
<1>31. CASE UNCHANGED vars
  BY <1>31
<1> HIDE ServiceAssumption, ForkResultsType, UnbornIsPid
    DEF TypeInv, CtxHasChild, RequestInv, HasCtx, TypeOK, Req, ProcState, Unreaped, Live, Zombie, Codes, Ends, ResultEnds, CommandEnds,
        FdType, vars, procVars, fdVars, ctxVars, connVars, ansVars, memVars, idVars
<1>32. QED
  BY <1>1, <1>2, <1>3, <1>4, <1>5, <1>6, <1>7, <1>8, <1>9, <1>10, <1>11, <1>12,
     <1>13, <1>14, <1>15, <1>16, <1>17, <1>18, <1>19, <1>20, <1>21, <1>22, <1>23, <1>24,
     <1>25, <1>26, <1>27, <1>28, <1>29, <1>30, <1>31
  DEF Next, Client, Child, Service, ProcessSpawnReqMsg,
      ProcessLockStatusMsg, ProcessChildResponse, HandleDiedPid

\* No request is answered twice, and none that still has a context: of the child's
\* result, its death, the timer and the hang-up only the first one is acted on.
THEOREM AnsweredOnce == Spec => []AnsweredAtMostOnce
<1>1. TypeInv /\ RequestInv => AnsweredAtMostOnce
  BY DEF TypeInv, TypeOK, RequestInv, AnsweredAtMostOnce, HasCtx
<1>2. QED
  BY TypeInvInit, TypeInvNext, RequestInvInit, RequestInvNext, <1>1, PTL DEF Spec

\* The connection of a context is open as long as the context exists, so that the
\* callbacks of the child never answer on a connection OnClose has freed.
THEOREM ConnectionOutlivesContext == Spec => []NoDanglingConnection
<1>1. RequestInv => NoDanglingConnection
  BY DEF RequestInv, NoDanglingConnection
<1>2. QED
  BY TypeInvInit, TypeInvNext, RequestInvInit, RequestInvNext, <1>1, PTL DEF Spec

(***************************************************************************)
(* Ownership of processes.  A process that was never forked has no owner,  *)
(* so a fork hands out a process nobody owns; every other step moves a     *)
(* process from one owner to the next or drops it.                         *)
(***************************************************************************)
OwnerInv ==
  /\ PidOwnedOnce
  /\ \A p \in Pid : pstat[p] = "unborn" => ~Owned(p)

\* At start nobody owns a process.
LEMMA OwnerInvInit == Init => OwnerInv
  BY ServiceAssumption DEF Init, OwnerInv, PidOwnedOnce, Owned, HasCtx, Req

\* A process changes owner only by moving: reserve to context (the hand-off), context
\* to appQueue (InitSpawnedProcessInfo); a forked process had no owner before.
LEMMA OwnerInvNext == TypeInv /\ RequestInv /\ OwnerInv /\ [Next]_vars => OwnerInv'
<1> SUFFICES ASSUME TypeInv, RequestInv, OwnerInv, [Next]_vars PROVE OwnerInv'
  OBVIOUS
<1> USE ServiceAssumption, ForkResultsType, UnbornIsPid
    DEF TypeInv, CtxHasChild, RequestInv, OwnerInv, PidOwnedOnce, Owned, HasCtx, Unborn,
        TypeOK, Live, Zombie, vars, procVars, fdVars, ctxVars, connVars, ansVars, memVars, idVars
<1>1. ASSUME NEW c \in Conn, OnConnection(c)
     PROVE  OwnerInv'
  BY <1>1 DEF OnConnection
<1>2. ASSUME NEW c \in Conn, OnClose(c)
     PROVE  OwnerInv'
  BY <1>2 DEF OnClose, CtxsOf, DeleteAppSpawningCtx
<1>3. ASSUME NEW r \in SpawnReq, NEW c \in Conn, NEW code \in {"MSG_INVALID", "SYSTEM_ERROR"},
           RejectSpawnReq(r, c, code)
     PROVE  OwnerInv'
  BY <1>3 DEF RejectSpawnReq, Receive
<1>4. ASSUME NEW r \in SpawnReq, NEW c \in Conn, SpawnHookFails(r, c)
     PROVE  OwnerInv'
  BY <1>4 DEF SpawnHookFails, Receive, SpawnRefused
<1>5. ASSUME NEW r \in SpawnReq, NEW c \in Conn, NEW code \in {"FORK_FAIL", "SYSTEM_ERROR"},
           SpawnNormalFails(r, c, code)
     PROVE  OwnerInv'
  BY <1>5 DEF SpawnNormalFails, SpawnReqMsg, Receive, SpawnRefused
<1>6. ASSUME NEW r \in SpawnReq, NEW c \in Conn, NEW p \in Pid, NEW watched \in WatcherOutcomes,
           SpawnNormal(r, c, p, watched)
     PROVE  OwnerInv'
  BY <1>6 DEF SpawnNormal, SpawnReqMsg, Receive, Forked, AddChildWatcher, SpawnStarted,
        SpawnRefused, NewCtx
<1>7. ASSUME NEW r \in SpawnReq, NEW c \in Conn, NEW p \in Pid, NEW q \in MaybePid,
           NEW watched \in WatcherOutcomes, SpawnAndReserve(r, c, p, q, watched)
     PROVE  OwnerInv'
  BY <1>7 DEF SpawnAndReserve, SpawnReqMsg, Receive, Forked, Rewire, AddChildWatcher,
        SpawnStarted, SpawnRefused, NewCtx
<1>8. ASSUME NEW r \in SpawnReq, NEW c \in Conn, NEW q \in MaybePid, NEW code \in {"FORK_FAIL", "SYSTEM_ERROR"},
           SpawnFailsAndReserves(r, c, q, code)
     PROVE  OwnerInv'
  BY <1>8 DEF SpawnFailsAndReserves, SpawnReqMsg, Receive, Forked, Rewire, SpawnRefused
<1>9. ASSUME NEW r \in SpawnReq, NEW c \in Conn, NEW q \in MaybePid, NEW watched \in WatcherOutcomes,
           SpawnHandOff(r, c, q, watched)
     PROVE  OwnerInv'
  BY <1>9, SMTT(30) DEF SpawnHandOff, SpawnReqMsg, Receive, TellChild, Forked, Rewire, AddChildWatcher,
        SpawnStarted, SpawnRefused, NewCtx
<1>10. ASSUME NEW r \in SpawnReq, NEW c \in Conn, NEW q \in MaybePid, SpawnHandOffFails(r, c, q)
     PROVE  OwnerInv'
  BY <1>10 DEF SpawnHandOffFails, SpawnReqMsg, Receive, Forked, Rewire, SpawnRefused
<1>11. ASSUME NEW r \in LockReq, NEW c \in Conn, LockStatusRefused(r, c)
     PROVE  OwnerInv'
  BY <1>11 DEF LockStatusRefused, Receive
<1>12. ASSUME NEW r \in LockReq, NEW c \in Conn, LockStatusLocked(r, c)
     PROVE  OwnerInv'
  BY <1>12 DEF LockStatusLocked, Receive
<1>13. ASSUME NEW r \in LockReq, NEW c \in Conn, NEW q \in MaybePid, UnlockByPrefork(r, c, q)
     PROVE  OwnerInv'
  BY <1>13 DEF UnlockByPrefork, UnlockEvent, Receive, TellChild, Forked, Rewire, NewCtx
<1>14. ASSUME NEW r \in LockReq, NEW c \in Conn, NEW how \in Level1, NEW p \in Pid,
           NEW q \in MaybePid, UnlockByFork(r, c, how, p, q)
     PROVE  OwnerInv'
  BY <1>14 DEF UnlockByFork, UnlockEvent, Receive, Level1Fails, TellChild, Forked, Rewire, NewCtx
<1>15. ASSUME NEW r \in LockReq, NEW c \in Conn, NEW how \in Level1, NEW p \in MaybePid,
           NEW code \in {"OK", "HOOK_FAIL"}, NEW q \in MaybePid,
           UnlockSerial(r, c, how, p, q, code)
     PROVE  OwnerInv'
  BY <1>15 DEF UnlockSerial, UnlockEvent, Receive, Level1Fails, TellChild, Forked, Rewire
<1>16. ASSUME NEW p \in Pid, ChildTakesCmd(p)
     PROVE  OwnerInv'
  BY <1>16 DEF ChildTakesCmd
<1>17. ASSUME NEW p \in Pid, NEW result \in {"ok", "fail"}, ChildReports(p, result)
     PROVE  OwnerInv'
  BY <1>17 DEF ChildReports, AfterReport
<1>18. ASSUME NEW p \in Pid, NEW how \in Zombie, ChildDies(p, how)
     PROVE  OwnerInv'
  BY <1>18 DEF ChildDies
<1>19. ASSUME NEW r \in Req, ChildFailed(r)
     PROVE  OwnerInv'
  BY <1>19 DEF ChildFailed, DropCtx, DeleteAppSpawningCtx
<1>20. ASSUME NEW r \in Req, ChildSpawned(r)
     PROVE  OwnerInv'
  BY <1>20 DEF ChildSpawned, DropCtx, DeleteAppSpawningCtx
<1>21. ASSUME NEW r \in Req, ChildNotRecorded(r)
     PROVE  OwnerInv'
  BY <1>21 DEF ChildNotRecorded, DropCtx, DeleteAppSpawningCtx
<1>22. ASSUME NEW r \in Req, WaitChildTimeout(r)
     PROVE  OwnerInv'
  BY <1>22 DEF WaitChildTimeout, DropCtx, DeleteAppSpawningCtx
<1>23. ASSUME NEW r \in Req, ProcessUnlockChildResponse(r)
     PROVE  OwnerInv'
  BY <1>23 DEF ProcessUnlockChildResponse, DropUnlockCtx, DeleteAppSpawningCtx
<1>24. ASSUME NEW r \in Req, UnlockChildTimeout(r)
     PROVE  OwnerInv'
  BY <1>24 DEF UnlockChildTimeout, DropUnlockCtx, DeleteAppSpawningCtx
<1>25. ASSUME NEW r \in Req, SendMessageComplete(r)
     PROVE  OwnerInv'
  BY <1>25 DEF SendMessageComplete
<1>26. ASSUME NEW p \in Pid, AppDied(p)
     PROVE  OwnerInv'
  BY <1>26 DEF AppDied, Reap, FdsAfterReap
<1>27. ASSUME NEW p \in Pid, OtherChildDied(p)
     PROVE  OwnerInv'
  BY <1>27 DEF OtherChildDied, Reap, FdsAfterReap
<1>28. ASSUME NEW p \in Pid, NEW r \in Req, SpawningChildDied(p, r)
     PROVE  OwnerInv'
  BY <1>28 DEF SpawningChildDied, Reap, SpawningOf, DeleteAppSpawningCtx, StopVictims, Recorded
<1>29. ASSUME StopAppSpawn
     PROVE  OwnerInv'
  BY <1>29 DEF StopAppSpawn, StopVictims, Recorded
<1>30. ASSUME AppSpawnDestroyContent
     PROVE  OwnerInv'
  BY <1>30 DEF AppSpawnDestroyContent, DeleteAppSpawningCtx
<1>31. CASE UNCHANGED vars
  BY <1>31
<1> HIDE ServiceAssumption, ForkResultsType, UnbornIsPid
    DEF TypeInv, CtxHasChild, RequestInv, OwnerInv, PidOwnedOnce, Owned, HasCtx, Unborn,
        TypeOK, Live, Zombie, vars, procVars, fdVars, ctxVars, connVars, ansVars, memVars, idVars
<1>32. QED
  BY <1>1, <1>2, <1>3, <1>4, <1>5, <1>6, <1>7, <1>8, <1>9, <1>10, <1>11, <1>12,
     <1>13, <1>14, <1>15, <1>16, <1>17, <1>18, <1>19, <1>20, <1>21, <1>22, <1>23, <1>24,
     <1>25, <1>26, <1>27, <1>28, <1>29, <1>30, <1>31
  DEF Next, Client, Child, Service, ProcessSpawnReqMsg,
      ProcessLockStatusMsg, ProcessChildResponse, HandleDiedPid

\* A process is the reserve, the child of one context, or one application on
\* appQueue, and never two of these: lookups by pid are unambiguous.
THEOREM OneOwner == Spec => []PidOwnedOnce
<1>1. OwnerInv => PidOwnedOnce
  BY DEF OwnerInv
<1>2. QED
  BY TypeInvInit, TypeInvNext, RequestInvInit, RequestInvNext, OwnerInvInit, OwnerInvNext, <1>1, PTL
  DEF Spec

(***************************************************************************)
(* Ownership of pipe ends.                                                 *)
(***************************************************************************)
\* What FdOwnership says, without the union over the contexts.
FdInv ==
  /\ \A r \in Req : /\ ctxSt[r] = "spawning" => ctxFds[r] = ResultEnds
                    /\ ctxSt[r] = "unlock" => ctxFds[r] = {"cpR"}
                    /\ ~HasCtx(r) => ctxFds[r] = {} /\ ctxPid[r] = NoPid
                    /\ HasCtx(r) => open[ctxPid[r]] = ctxFds[r]
  /\ \A p \in Pid : /\ p = reservedPid => nodes[p] = FdType /\ open[p] = Ends
                    /\ p # reservedPid => nodes[p] = {}
                    /\ p # reservedPid /\ (\A r \in Req : ctxPid[r] # p) => open[p] = {}

\* A process has the ends of at most one context of R.
LEMMA CtxEndsOfSome ==
  ASSUME TypeInv, OwnerInv, FdInv, NEW R \in SUBSET Req, NEW p \in Pid
  PROVE  /\ \A r \in R : ctxPid[r] = p => CtxEnds(R, p) = ctxFds[r]
         /\ (\A r \in R : ctxPid[r] # p) => CtxEnds(R, p) = {}
<1>1. ASSUME NEW r \in R, ctxPid[r] = p PROVE CtxEnds(R, p) = ctxFds[r]
  <2>1. \A s \in R : ctxPid[s] = p => s = r
    BY <1>1, ServiceAssumption DEF OwnerInv, PidOwnedOnce, FdInv, HasCtx, TypeInv, TypeOK
  <2>2. {s \in R : ctxPid[s] = p} = {r}
    BY <1>1, <2>1
  <2>3. QED
    BY <2>2 DEF CtxEnds
<1>2. ASSUME \A r \in R : ctxPid[r] # p PROVE CtxEnds(R, p) = {}
  BY <1>2 DEF CtxEnds
<1>3. QED
  BY <1>1, <1>2

\* With one owner per process, FdInv is FdOwnership.
LEMMA FdInvImpliesOwnership == TypeInv /\ OwnerInv /\ FdInv => FdOwnership
<1> SUFFICES ASSUME TypeInv, OwnerInv, FdInv PROVE FdOwnership
  OBVIOUS
<1>1. ASSUME NEW p \in Pid PROVE open[p] = IF p = reservedPid THEN Ends ELSE CtxEnds(Req, p)
  <2>1. CASE p = reservedPid
    BY <2>1 DEF FdInv
  <2>2. CASE p # reservedPid /\ \A r \in Req : ctxPid[r] # p
    BY <2>2, CtxEndsOfSome DEF FdInv
  <2>3. CASE p # reservedPid /\ \E r \in Req : ctxPid[r] = p
    BY <2>3, CtxEndsOfSome, ServiceAssumption DEF FdInv, HasCtx
  <2>4. QED
    BY <2>1, <2>2, <2>3
<1>2. QED
  BY <1>1 DEF FdInv, FdOwnership, HasCtx, TypeInv, TypeOK

\* At start no pipe is open.
LEMMA FdInvInit == Init => FdInv
  BY ServiceAssumption DEF Init, FdInv, HasCtx, Req


(***************************************************************************)
(* Deleting contexts closes exactly the ends they own; the reserve may be  *)
(* dropped in the same step (gone), with all of its ends.                  *)
(***************************************************************************)
LEMMA DeletingKeepsFds ==
  ASSUME TypeInv, OwnerInv, FdInv, NEW R \in SUBSET Req, DeleteAppSpawningCtx(R),
         NEW gone, gone = {} \/ gone = {reservedPid},
         open' = [x \in Pid |-> IF x \in gone THEN {} ELSE open[x] \ CtxEnds(R, x)],
         nodes' = [x \in Pid |-> IF x \in gone THEN {} ELSE nodes[x]],
         reservedPid' = IF gone = {} THEN reservedPid ELSE NoPid
  PROVE  FdInv'
<1>1. /\ ctxSt \in [Req -> {"none", "spawning", "unlock"}]
      /\ ctxPid \in [Req -> Pid \cup {NoPid}]
      /\ reservedPid \in Pid \cup {NoPid}
  BY DEF TypeInv, TypeOK
<1>2. \A r \in Req : HasCtx(r) => ctxPid[r] \in Pid \ {reservedPid}
  BY DEF OwnerInv, PidOwnedOnce
<1>3. /\ \A r, s \in Req : HasCtx(r) /\ HasCtx(s) /\ ctxPid[r] = ctxPid[s] => r = s
      /\ \A r \in Req : ctxPid[r] \in Pid => HasCtx(r)
  BY ServiceAssumption DEF OwnerInv, PidOwnedOnce, FdInv
<1>4. \A r \in Req : HasCtx(r)' <=> HasCtx(r) /\ r \notin R
  BY <1>1 DEF DeleteAppSpawningCtx, HasCtx
<1>5. ASSUME NEW r \in Req
      PROVE  /\ ctxSt'[r] = "spawning" => ctxFds'[r] = ResultEnds
             /\ ctxSt'[r] = "unlock" => ctxFds'[r] = {"cpR"}
             /\ ~HasCtx(r)' => ctxFds'[r] = {} /\ ctxPid'[r] = NoPid
  BY <1>1, <1>4 DEF DeleteAppSpawningCtx, FdInv, HasCtx
<1>6. ASSUME NEW r \in Req, HasCtx(r)' PROVE open'[ctxPid'[r]] = ctxFds'[r]
  <2>1. /\ r \notin R /\ HasCtx(r)
        /\ ctxPid'[r] = ctxPid[r] /\ ctxFds'[r] = ctxFds[r] /\ ctxPid[r] \in Pid \ {reservedPid}
    BY <1>2, <1>4, <1>6 DEF DeleteAppSpawningCtx
  <2>2. CtxEnds(R, ctxPid[r]) = {}
    BY <1>3, <2>1, CtxEndsOfSome
  <2>3. open'[ctxPid[r]] = open[ctxPid[r]]
    BY <2>1, <2>2
  <2>4. QED
    BY <2>1, <2>3 DEF FdInv
<1>7. ASSUME NEW p \in Pid
      PROVE  /\ p = reservedPid' => nodes'[p] = FdType
             /\ p # reservedPid' => nodes'[p] = {}
  BY <1>1, ServiceAssumption DEF FdInv
<1>8. ASSUME NEW p \in Pid, p = reservedPid' PROVE open'[p] = Ends
  <2>1. p = reservedPid /\ gone = {}
    BY <1>8, ServiceAssumption
  <2>2. CtxEnds(R, p) = {}
    BY <1>2, <1>3, <2>1, CtxEndsOfSome
  <2>3. QED
    BY <2>1, <2>2 DEF FdInv
<1>9. ASSUME NEW p \in Pid, p # reservedPid', \A r \in Req : ctxPid'[r] # p
      PROVE  open'[p] = {}
  <2>1. CASE p \in gone
    BY <2>1
  <2>2. CASE p \notin gone /\ \E r \in R : ctxPid[r] = p
    <3>1. PICK r \in R : ctxPid[r] = p
      BY <2>2
    <3>2. open[p] = ctxFds[r] /\ CtxEnds(R, p) = ctxFds[r]
      BY <1>3, <3>1, CtxEndsOfSome DEF FdInv
    <3>3. QED
      BY <2>2, <3>2
  <2>3. CASE p \notin gone /\ \A r \in R : ctxPid[r] # p
    <3>1. p # reservedPid /\ \A r \in Req : ctxPid[r] # p
      BY <1>9, <2>3 DEF DeleteAppSpawningCtx
    <3>2. QED
      BY <2>3, <3>1 DEF FdInv
  <2>4. QED
    BY <2>1, <2>2, <2>3
<1>10. QED
  BY <1>5, <1>6, <1>7, <1>8, <1>9 DEF FdInv

\* The case in which the reserve stays: DeleteAppSpawningCtx alone.
LEMMA ClosingKeepsFds ==
  ASSUME TypeInv, OwnerInv, FdInv, NEW R \in SUBSET Req,
         DeleteAppSpawningCtx(R), CloseCtxFds(R), UNCHANGED <<nodes, reservedPid>>
  PROVE  FdInv'
<1>1. /\ open' = [x \in Pid |-> IF x \in {} THEN {} ELSE open[x] \ CtxEnds(R, x)]
      /\ nodes' = [x \in Pid |-> IF x \in {} THEN {} ELSE nodes[x]]
  BY DEF CloseCtxFds, TypeInv, TypeOK
<1>2. QED
  BY <1>1, DeletingKeepsFds

\* Every handler closes the ends of what it drops and hands the others over whole.
LEMMA FdInvNext == TypeInv /\ RequestInv /\ OwnerInv /\ FdInv /\ [Next]_vars => FdInv'
<1> SUFFICES ASSUME TypeInv, RequestInv, OwnerInv, FdInv, [Next]_vars PROVE FdInv'
  OBVIOUS
<1>a. /\ \A r \in Req : HasCtx(r) =>
              ctxPid[r] \in Pid /\ ctxPid[r] # reservedPid /\ pstat[ctxPid[r]] # "unborn"
      /\ \A r, s \in Req : HasCtx(r) /\ HasCtx(s) /\ ctxPid[r] = ctxPid[s] => r = s
      /\ \A r \in Req : ~HasCtx(r) => ctxPid[r] = NoPid
      /\ \A r \in Req : reqConn[r] = NoConn => ~HasCtx(r)
      /\ \A p \in Pid : p = reservedPid => pstat[p] # "unborn"
  BY DEF TypeInv, CtxHasChild, RequestInv, OwnerInv, PidOwnedOnce, Owned, FdInv
<1>b. /\ pstat \in [Pid -> ProcState]
      /\ open \in [Pid -> SUBSET Ends]
      /\ nodes \in [Pid -> SUBSET FdType]
      /\ reservedPid \in Pid \cup {NoPid}
      /\ ctxSt \in [Req -> {"none", "spawning", "unlock"}]
      /\ ctxPid \in [Req -> Pid \cup {NoPid}]
      /\ ctxFds \in [Req -> SUBSET Ends]
  BY DEF TypeInv, TypeOK
<1> USE <1>a, <1>b, ServiceAssumption, ForkResultsType, UnbornIsPid
    DEF HasCtx, Unborn, FdInv, Zombie, Req, vars, procVars, fdVars, ctxVars, connVars, ansVars, memVars, idVars
<1>1. ASSUME NEW c \in Conn, OnConnection(c)
     PROVE  FdInv'
  BY <1>1 DEF OnConnection
<1>2. ASSUME NEW c \in Conn, OnClose(c)
     PROVE  FdInv'
  <2>1. DeleteAppSpawningCtx(CtxsOf(c)) /\ CloseCtxFds(CtxsOf(c)) /\ UNCHANGED <<nodes, reservedPid>>
    BY <1>2 DEF OnClose
  <2>2. CtxsOf(c) \in SUBSET Req
    BY DEF CtxsOf
  <2>3. QED
    BY <2>1, <2>2, ClosingKeepsFds
<1>3. ASSUME NEW r \in SpawnReq, NEW c \in Conn, NEW code \in {"MSG_INVALID", "SYSTEM_ERROR"},
           RejectSpawnReq(r, c, code)
     PROVE  FdInv'
  BY <1>3 DEF RejectSpawnReq, Receive
<1>4. ASSUME NEW r \in SpawnReq, NEW c \in Conn, SpawnHookFails(r, c)
     PROVE  FdInv'
  BY <1>4 DEF SpawnHookFails, Receive, SpawnRefused
<1>5. ASSUME NEW r \in SpawnReq, NEW c \in Conn, NEW code \in {"FORK_FAIL", "SYSTEM_ERROR"},
           SpawnNormalFails(r, c, code)
     PROVE  FdInv'
  BY <1>5 DEF SpawnNormalFails, SpawnReqMsg, Receive, SpawnRefused
<1>6. ASSUME NEW r \in SpawnReq, NEW c \in Conn, NEW p \in Pid, NEW watched \in WatcherOutcomes,
           SpawnNormal(r, c, p, watched)
     PROVE  FdInv'
  BY <1>6 DEF SpawnNormal, SpawnReqMsg, Receive, Forked, AddChildWatcher, SpawnStarted,
        SpawnRefused, NewCtx, EndsKept
<1>7. ASSUME NEW r \in SpawnReq, NEW c \in Conn, NEW p \in Pid, NEW q \in MaybePid,
           NEW watched \in WatcherOutcomes, SpawnAndReserve(r, c, p, q, watched)
     PROVE  FdInv'
  BY <1>7 DEF SpawnAndReserve, SpawnReqMsg, Receive, Forked, Rewire, AddChildWatcher,
        SpawnStarted, SpawnRefused, NewCtx, EndsKept
<1>8. ASSUME NEW r \in SpawnReq, NEW c \in Conn, NEW q \in MaybePid, NEW code \in {"FORK_FAIL", "SYSTEM_ERROR"},
           SpawnFailsAndReserves(r, c, q, code)
     PROVE  FdInv'
  BY <1>8 DEF SpawnFailsAndReserves, SpawnReqMsg, Receive, Forked, Rewire, SpawnRefused
<1>9. ASSUME NEW r \in SpawnReq, NEW c \in Conn, NEW q \in MaybePid, NEW watched \in WatcherOutcomes,
           SpawnHandOff(r, c, q, watched)
     PROVE  FdInv'
  BY <1>9 DEF SpawnHandOff, SpawnReqMsg, Receive, Forked, Rewire, AddChildWatcher,
        SpawnStarted, SpawnRefused, NewCtx, EndsKept
<1>10. ASSUME NEW r \in SpawnReq, NEW c \in Conn, NEW q \in MaybePid, SpawnHandOffFails(r, c, q)
     PROVE  FdInv'
  BY <1>10 DEF SpawnHandOffFails, SpawnReqMsg, Receive, Forked, Rewire, SpawnRefused
<1>11. ASSUME NEW r \in LockReq, NEW c \in Conn, LockStatusRefused(r, c)
     PROVE  FdInv'
  BY <1>11 DEF LockStatusRefused, Receive
<1>12. ASSUME NEW r \in LockReq, NEW c \in Conn, LockStatusLocked(r, c)
     PROVE  FdInv'
  BY <1>12 DEF LockStatusLocked, Receive
<1>13. ASSUME NEW r \in LockReq, NEW c \in Conn, NEW q \in MaybePid, UnlockByPrefork(r, c, q)
     PROVE  FdInv'
  BY <1>13 DEF UnlockByPrefork, UnlockEvent, Receive, Forked, Rewire, NewCtx
<1>14. ASSUME NEW r \in LockReq, NEW c \in Conn, NEW how \in Level1, NEW p \in Pid,
           NEW q \in MaybePid, UnlockByFork(r, c, how, p, q)
     PROVE  FdInv'
  BY <1>14 DEF UnlockByFork, UnlockEvent, Receive, Forked, Rewire, NewCtx
<1>15. ASSUME NEW r \in LockReq, NEW c \in Conn, NEW how \in Level1, NEW p \in MaybePid,
           NEW code \in {"OK", "HOOK_FAIL"}, NEW q \in MaybePid,
           UnlockSerial(r, c, how, p, q, code)
     PROVE  FdInv'
  BY <1>15 DEF UnlockSerial, UnlockEvent, Receive, Forked, Rewire
<1>16. ASSUME NEW p \in Pid, ChildTakesCmd(p)
     PROVE  FdInv'
  BY <1>16 DEF ChildTakesCmd
<1>17. ASSUME NEW p \in Pid, NEW result \in {"ok", "fail"}, ChildReports(p, result)
     PROVE  FdInv'
  BY <1>17 DEF ChildReports, AfterReport
<1>18. ASSUME NEW p \in Pid, NEW how \in Zombie, ChildDies(p, how)
     PROVE  FdInv'
  BY <1>18 DEF ChildDies
<1>19. ASSUME NEW r \in Req, ChildFailed(r)
     PROVE  FdInv'
  <2>1. DeleteAppSpawningCtx({r}) /\ CloseCtxFds({r}) /\ UNCHANGED <<nodes, reservedPid>>
    BY <1>19 DEF ChildFailed, DropCtx
  <2>2. QED
    BY <2>1, ClosingKeepsFds
<1>20. ASSUME NEW r \in Req, ChildSpawned(r)
     PROVE  FdInv'
  <2>1. DeleteAppSpawningCtx({r}) /\ CloseCtxFds({r}) /\ UNCHANGED <<nodes, reservedPid>>
    BY <1>20 DEF ChildSpawned, DropCtx
  <2>2. QED
    BY <2>1, ClosingKeepsFds
<1>21. ASSUME NEW r \in Req, ChildNotRecorded(r)
     PROVE  FdInv'
  <2>1. DeleteAppSpawningCtx({r}) /\ CloseCtxFds({r}) /\ UNCHANGED <<nodes, reservedPid>>
    BY <1>21 DEF ChildNotRecorded, DropCtx
  <2>2. QED
    BY <2>1, ClosingKeepsFds
<1>22. ASSUME NEW r \in Req, WaitChildTimeout(r)
     PROVE  FdInv'
  <2>1. DeleteAppSpawningCtx({r}) /\ CloseCtxFds({r}) /\ UNCHANGED <<nodes, reservedPid>>
    BY <1>22 DEF WaitChildTimeout, DropCtx
  <2>2. QED
    BY <2>1, ClosingKeepsFds
<1>23. ASSUME NEW r \in Req, ProcessUnlockChildResponse(r)
     PROVE  FdInv'
  <2>1. DeleteAppSpawningCtx({r}) /\ CloseCtxFds({r}) /\ UNCHANGED <<nodes, reservedPid>>
    BY <1>23 DEF ProcessUnlockChildResponse, DropUnlockCtx
  <2>2. QED
    BY <2>1, ClosingKeepsFds
<1>24. ASSUME NEW r \in Req, UnlockChildTimeout(r)
     PROVE  FdInv'
  <2>1. DeleteAppSpawningCtx({r}) /\ CloseCtxFds({r}) /\ UNCHANGED <<nodes, reservedPid>>
    BY <1>24 DEF UnlockChildTimeout, DropUnlockCtx
  <2>2. QED
    BY <2>1, ClosingKeepsFds
<1>25. ASSUME NEW r \in Req, SendMessageComplete(r)
     PROVE  FdInv'
  BY <1>25 DEF SendMessageComplete
<1>26. ASSUME NEW p \in Pid, AppDied(p)
     PROVE  FdInv'
  BY <1>26 DEF AppDied, Reap, FdsAfterReap
<1>27. ASSUME NEW p \in Pid, OtherChildDied(p)
     PROVE  FdInv'
  BY <1>27 DEF OtherChildDied, Reap, FdsAfterReap
<1>28. ASSUME NEW p \in Pid, NEW r \in Req, SpawningChildDied(p, r)
     PROVE  FdInv'
  <2> DEFINE stop == CrashesAfter(p, r) >= MaxCrashTime
  <2>1. PICK gone : gone = IF stop \/ p = reservedPid THEN {reservedPid} ELSE {}
    OBVIOUS
  <2>2. /\ DeleteAppSpawningCtx({r})
        /\ open' = [x \in Pid |-> IF x \in gone THEN {} ELSE open[x] \ CtxEnds({r}, x)]
        /\ nodes' = [x \in Pid |-> IF x \in gone THEN {} ELSE nodes[x]]
        /\ reservedPid' = IF gone = {} THEN reservedPid ELSE NoPid
    BY <1>28, <2>1 DEF SpawningChildDied
  <2>3. gone = {} \/ gone = {reservedPid}
    BY <2>1
  <2>4. {r} \in SUBSET Req
    OBVIOUS
  <2> HIDE <1>a, <1>b, ServiceAssumption, ForkResultsType, UnbornIsPid
      DEF HasCtx, Unborn, FdInv, Zombie, Req, vars, procVars, fdVars, ctxVars, connVars, ansVars, memVars, idVars
  <2>5. QED
    BY <2>2, <2>3, <2>4, DeletingKeepsFds, Zenon
<1>29. ASSUME StopAppSpawn
     PROVE  FdInv'
  BY <1>29 DEF StopAppSpawn
<1>30. ASSUME AppSpawnDestroyContent
     PROVE  FdInv'
  BY <1>30 DEF AppSpawnDestroyContent, DeleteAppSpawningCtx
<1>31. CASE UNCHANGED vars
  BY <1>31
<1> HIDE <1>a, <1>b, ServiceAssumption, ForkResultsType, UnbornIsPid
    DEF HasCtx, Unborn, FdInv, Zombie, Req, vars, procVars, fdVars, ctxVars, connVars, ansVars, memVars, idVars
<1>32. QED
  BY <1>1, <1>2, <1>3, <1>4, <1>5, <1>6, <1>7, <1>8, <1>9, <1>10, <1>11, <1>12,
     <1>13, <1>14, <1>15, <1>16, <1>17, <1>18, <1>19, <1>20, <1>21, <1>22, <1>23, <1>24,
     <1>25, <1>26, <1>27, <1>28, <1>29, <1>30, <1>31
  DEF Next, Client, Child, Service, ProcessSpawnReqMsg,
      ProcessLockStatusMsg, ProcessChildResponse, HandleDiedPid

\* Every pipe end the service has open has exactly one owner that will close it,
\* across hand-offs, fallbacks, deaths, timeouts, hang-ups and the stop.
THEOREM FdsOwned == Spec => []FdOwnership
<1>1. QED
  BY TypeInvInit, TypeInvNext, RequestInvInit, RequestInvNext, OwnerInvInit, OwnerInvNext,
     FdInvInit, FdInvNext, FdInvImpliesOwnership, PTL
  DEF Spec

(***************************************************************************)
(* References on the lock bundle.  RefsInv is RefsBalanced without the     *)
(* choice: it is inductive once a request that is not received yet is      *)
(* known to have neither a context nor an application, and an application  *)
(* to be on appQueue once.                                                 *)
(***************************************************************************)
RefsInv ==
  Looping => \A r \in Req :
    /\ ctxSt[r] = "spawning" => refs[r] = 1
    /\ \A p \in Pid : app[p] = r => refs[r] = 1
    /\ ctxSt[r] # "spawning" /\ (\A p \in Pid : app[p] # r) => refs[r] = 0

\* At start there is no reference, no context and no application.
LEMMA RefsInvInit == Init => RefsInv
  BY ServiceAssumption DEF Init, RefsInv, Req

\* SPAWN_ABORT and APP_CLEANUP run once between them, by whichever handler drops the
\* context or the application; ChildSpawned moves the reference from one to the other.
LEMMA RefsInvNext == TypeInv /\ RequestInv /\ OwnerInv /\ RefsInv /\ [Next]_vars =>
    RefsInv'
<1> SUFFICES ASSUME TypeInv, RequestInv, OwnerInv, RefsInv, [Next]_vars PROVE RefsInv'
  OBVIOUS
<1>a. /\ ctxSt \in [Req -> {"none", "spawning", "unlock"}]
      /\ ctxPid \in [Req -> Pid \cup {NoPid}]
      /\ app \in [Pid -> Req \cup {NoReq}]
      /\ refs \in [Req -> Int]
  BY DEF TypeInv, TypeOK
<1>b. \A r \in Req : /\ ctxSt[r] = "spawning" => r \in SpawnReq /\ ctxPid[r] \in Pid /\ app[ctxPid[r]] = NoReq
                     /\ ctxSt[r] = "unlock" => r \in LockReq
                     /\ ctxSt[r] # "none" \/ reqConn[r] = NoConn => \A p \in Pid : app[p] # r
                     /\ reqConn[r] = NoConn => ctxSt[r] = "none"
  BY DEF TypeInv, CtxHasChild, RequestInv, OwnerInv, PidOwnedOnce, HasCtx
<1>c. \A p, q \in Pid : app[p] # NoReq /\ app[p] = app[q] => p = q
  BY DEF OwnerInv, PidOwnedOnce
<1> USE <1>a, <1>b, <1>c, ServiceAssumption
    DEF RefsInv, Looping, Recorded, HasCtx, Req, vars, procVars, fdVars, ctxVars,
        connVars, ansVars, memVars, idVars
<1>1. ASSUME NEW c \in Conn, OnConnection(c)
     PROVE  RefsInv'
  BY <1>1 DEF OnConnection
<1>2. ASSUME NEW c \in Conn, OnClose(c)
     PROVE  RefsInv'
  BY <1>2 DEF OnClose, CtxsOf, SpawnAbort, DeleteAppSpawningCtx
<1>3. ASSUME NEW r \in SpawnReq, NEW c \in Conn,
           NEW code \in {"MSG_INVALID", "SYSTEM_ERROR"}, RejectSpawnReq(r, c, code)
     PROVE  RefsInv'
  BY <1>3 DEF RejectSpawnReq, Receive
<1>4. ASSUME NEW r \in SpawnReq, NEW c \in Conn, SpawnHookFails(r, c)
     PROVE  RefsInv'
  BY <1>4 DEF SpawnHookFails, Receive, SpawnRefused
<1>5. ASSUME NEW r \in SpawnReq, NEW c \in Conn,
           NEW code \in {"FORK_FAIL", "SYSTEM_ERROR"}, SpawnNormalFails(r, c, code)
     PROVE  RefsInv'
  BY <1>5 DEF SpawnNormalFails, SpawnReqMsg, Receive, SpawnRefused
<1>6. ASSUME NEW r \in SpawnReq, NEW c \in Conn, NEW p \in Pid,
           NEW watched \in WatcherOutcomes, SpawnNormal(r, c, p, watched)
     PROVE  RefsInv'
  BY <1>6 DEF SpawnNormal, SpawnReqMsg, Receive, AddChildWatcher, SpawnStarted,
      SpawnRefused, NewCtx
<1>7. ASSUME NEW r \in SpawnReq, NEW c \in Conn, NEW p \in Pid, NEW q \in MaybePid,
           NEW watched \in WatcherOutcomes, SpawnAndReserve(r, c, p, q, watched)
     PROVE  RefsInv'
  BY <1>7 DEF SpawnAndReserve, SpawnReqMsg, Receive, AddChildWatcher, SpawnStarted,
      SpawnRefused, NewCtx
<1>8. ASSUME NEW r \in SpawnReq, NEW c \in Conn, NEW q \in MaybePid,
           NEW code \in {"FORK_FAIL", "SYSTEM_ERROR"},
           SpawnFailsAndReserves(r, c, q, code)
     PROVE  RefsInv'
  BY <1>8 DEF SpawnFailsAndReserves, SpawnReqMsg, Receive, SpawnRefused
<1>9. ASSUME NEW r \in SpawnReq, NEW c \in Conn, NEW q \in MaybePid,
           NEW watched \in WatcherOutcomes, SpawnHandOff(r, c, q, watched)
     PROVE  RefsInv'
  BY <1>9 DEF SpawnHandOff, SpawnReqMsg, Receive, AddChildWatcher, SpawnStarted,
      SpawnRefused, NewCtx
<1>10. ASSUME NEW r \in SpawnReq, NEW c \in Conn, NEW q \in MaybePid,
           SpawnHandOffFails(r, c, q)
     PROVE  RefsInv'
  BY <1>10 DEF SpawnHandOffFails, SpawnReqMsg, Receive, SpawnRefused
<1>11. ASSUME NEW r \in LockReq, NEW c \in Conn, LockStatusRefused(r, c)
     PROVE  RefsInv'
  BY <1>11 DEF LockStatusRefused, Receive
<1>12. ASSUME NEW r \in LockReq, NEW c \in Conn, LockStatusLocked(r, c)
     PROVE  RefsInv'
  BY <1>12 DEF LockStatusLocked, Receive
<1>13. ASSUME NEW r \in LockReq, NEW c \in Conn, NEW q \in MaybePid,
           UnlockByPrefork(r, c, q)
     PROVE  RefsInv'
  BY <1>13 DEF UnlockByPrefork, UnlockEvent, Receive, NewCtx
<1>14. ASSUME NEW r \in LockReq, NEW c \in Conn, NEW how \in Level1, NEW p \in Pid,
           NEW q \in MaybePid, UnlockByFork(r, c, how, p, q)
     PROVE  RefsInv'
  BY <1>14 DEF UnlockByFork, UnlockEvent, Receive, NewCtx
<1>15. ASSUME NEW r \in LockReq, NEW c \in Conn, NEW how \in Level1, NEW p \in MaybePid,
           NEW code \in {"OK", "HOOK_FAIL"}, NEW q \in MaybePid,
           UnlockSerial(r, c, how, p, q, code)
     PROVE  RefsInv'
  BY <1>15 DEF UnlockSerial, UnlockEvent, Receive
<1>16. ASSUME NEW p \in Pid, ChildTakesCmd(p)
     PROVE  RefsInv'
  BY <1>16 DEF ChildTakesCmd
<1>17. ASSUME NEW p \in Pid, NEW result \in {"ok", "fail"}, ChildReports(p, result)
     PROVE  RefsInv'
  BY <1>17 DEF ChildReports, AfterReport
<1>18. ASSUME NEW p \in Pid, NEW how \in Zombie, ChildDies(p, how)
     PROVE  RefsInv'
  BY <1>18 DEF ChildDies
<1>19. ASSUME NEW r \in Req, ChildFailed(r)
     PROVE  RefsInv'
  BY <1>19 DEF ChildFailed, SpawnAbort, DropCtx, DeleteAppSpawningCtx
<1>20. ASSUME NEW r \in Req, ChildSpawned(r)
     PROVE  RefsInv'
  BY <1>20 DEF ChildSpawned, DropCtx, DeleteAppSpawningCtx
<1>21. ASSUME NEW r \in Req, ChildNotRecorded(r)
     PROVE  RefsInv'
  BY <1>21 DEF ChildNotRecorded, SpawnAbort, DropCtx, DeleteAppSpawningCtx
<1>22. ASSUME NEW r \in Req, WaitChildTimeout(r)
     PROVE  RefsInv'
  BY <1>22 DEF WaitChildTimeout, SpawnAbort, DropCtx, DeleteAppSpawningCtx
<1>23. ASSUME NEW r \in Req, ProcessUnlockChildResponse(r)
     PROVE  RefsInv'
  BY <1>23 DEF ProcessUnlockChildResponse, DropUnlockCtx, DeleteAppSpawningCtx
<1>24. ASSUME NEW r \in Req, UnlockChildTimeout(r)
     PROVE  RefsInv'
  BY <1>24 DEF UnlockChildTimeout, DropUnlockCtx, DeleteAppSpawningCtx
<1>25. ASSUME NEW r \in Req, SendMessageComplete(r)
     PROVE  RefsInv'
  BY <1>25 DEF SendMessageComplete
<1>26. ASSUME NEW p \in Pid, AppDied(p)
     PROVE  RefsInv'
  BY <1>26 DEF AppDied, Reap
<1>27. ASSUME NEW p \in Pid, OtherChildDied(p)
     PROVE  RefsInv'
  BY <1>27 DEF OtherChildDied, Reap
<1>28. ASSUME NEW p \in Pid, NEW r \in Req, SpawningChildDied(p, r)
     PROVE  RefsInv'
  BY <1>28 DEF SpawningChildDied, Reap, SpawningOf, DeleteAppSpawningCtx, Recorded
<1>29. ASSUME StopAppSpawn
     PROVE  RefsInv'
  BY <1>29 DEF StopAppSpawn, Recorded
<1>30. ASSUME AppSpawnDestroyContent
     PROVE  RefsInv'
  BY <1>30 DEF AppSpawnDestroyContent, DeleteAppSpawningCtx
<1>31. CASE UNCHANGED vars
  BY <1>31
<1> HIDE <1>a, <1>b, <1>c, ServiceAssumption
    DEF RefsInv, Looping, Recorded, HasCtx, Req, vars, procVars, fdVars, ctxVars,
        connVars, ansVars, memVars, idVars
<1>32. QED
  BY <1>1, <1>2, <1>3, <1>4, <1>5, <1>6, <1>7, <1>8, <1>9, <1>10, <1>11, <1>12, <1>13,
      <1>14, <1>15, <1>16, <1>17, <1>18, <1>19, <1>20, <1>21, <1>22, <1>23, <1>24,
      <1>25, <1>26, <1>27, <1>28, <1>29, <1>30, <1>31
  DEF Next, Client, Child, Service, ProcessSpawnReqMsg,
      ProcessLockStatusMsg, ProcessChildResponse, HandleDiedPid

\* The lock-bundle reference a spawn takes is held exactly while its context or its
\* application is known, whichever of result, death, timer, hang-up and stop ends it.
THEOREM ReferencesBalanced == Spec => []RefsBalanced
<1>1. RefsInv => RefsBalanced
  BY DEF RefsInv, RefsBalanced, Recorded
<1>2. QED
  BY TypeInvInit, TypeInvNext, RequestInvInit, RequestInvNext, OwnerInvInit, OwnerInvNext,
     RefsInvInit, RefsInvNext, <1>1, PTL
  DEF Spec

(***************************************************************************)
(* The crash counter.  A request answers at most once, so the requests     *)
(* counted keep their answer and their id; one without an answer has no    *)
(* result code yet and cannot be one of them.                              *)
(***************************************************************************)
UnansweredHasNoCode == \A r \in Req : answers[r] = 0 => answer[r] = "none"

CrashInv == CrashCountExact /\ UnansweredHasNoCode

\* At start no crash is counted.
LEMMA CrashInvInit == Init => CrashInv
  BY ServiceAssumption DEF Init, CrashInv, CrashCountExact, UnansweredHasNoCode, Req

\* Only WaitChildDied counts; every other handler leaves the counter, and the ids and
\* answers of the requests it counted.
LEMMA CrashInvNext == TypeInv /\ RequestInv /\ CrashInv /\ [Next]_vars => CrashInv'
<1> SUFFICES ASSUME TypeInv, RequestInv, CrashInv, [Next]_vars PROVE CrashInv'
  OBVIOUS
<1>a. /\ ctxId \in [Req -> Nat]
      /\ answers \in [Req -> Nat]
      /\ answer \in [Req -> Codes \cup {"none"}]
      /\ crashTimes \in Nat /\ lastDiedAppId \in Nat
      /\ loop \in {"running", "stopping", "exited"}
  BY DEF TypeInv, TypeOK
<1>b. /\ \A r \in Req : ctxSt[r] # "none" \/ reqConn[r] = NoConn => answers[r] = 0
      /\ \A r \in Req : answers[r] = 0 => answer[r] = "none"
  BY DEF CrashInv, UnansweredHasNoCode, RequestInv, HasCtx
<1> USE <1>a, <1>b, ServiceAssumption
    DEF CrashInv, CrashCountExact, UnansweredHasNoCode, Req, vars, procVars, fdVars,
        ctxVars, connVars, ansVars, memVars, idVars
<1>1. ASSUME NEW c \in Conn, OnConnection(c)
     PROVE  CrashInv'
  BY <1>1 DEF OnConnection
<1>2. ASSUME NEW c \in Conn, OnClose(c)
     PROVE  CrashInv'
  BY <1>2 DEF OnClose, CtxsOf, DeleteAppSpawningCtx
<1>3. ASSUME NEW r \in SpawnReq, NEW c \in Conn,
           NEW code \in {"MSG_INVALID", "SYSTEM_ERROR"}, RejectSpawnReq(r, c, code)
     PROVE  CrashInv'
  BY <1>3 DEF RejectSpawnReq, Receive, SendResponse
<1>4. ASSUME NEW r \in SpawnReq, NEW c \in Conn, SpawnHookFails(r, c)
     PROVE  CrashInv'
  BY <1>4 DEF SpawnHookFails, Receive, SpawnRefused, SendResponse
<1>5. ASSUME NEW r \in SpawnReq, NEW c \in Conn,
           NEW code \in {"FORK_FAIL", "SYSTEM_ERROR"}, SpawnNormalFails(r, c, code)
     PROVE  CrashInv'
  BY <1>5 DEF SpawnNormalFails, SpawnReqMsg, Receive, SpawnRefused, SendResponse
<1>6. ASSUME NEW r \in SpawnReq, NEW c \in Conn, NEW p \in Pid,
           NEW watched \in WatcherOutcomes, SpawnNormal(r, c, p, watched)
     PROVE  CrashInv'
  BY <1>6 DEF SpawnNormal, SpawnReqMsg, Receive, AddChildWatcher, SpawnStarted,
      SpawnRefused, NewCtx, SendResponse
<1>7. ASSUME NEW r \in SpawnReq, NEW c \in Conn, NEW p \in Pid, NEW q \in MaybePid,
           NEW watched \in WatcherOutcomes, SpawnAndReserve(r, c, p, q, watched)
     PROVE  CrashInv'
  BY <1>7 DEF SpawnAndReserve, SpawnReqMsg, Receive, AddChildWatcher, SpawnStarted,
      SpawnRefused, NewCtx, SendResponse
<1>8. ASSUME NEW r \in SpawnReq, NEW c \in Conn, NEW q \in MaybePid,
           NEW code \in {"FORK_FAIL", "SYSTEM_ERROR"},
           SpawnFailsAndReserves(r, c, q, code)
     PROVE  CrashInv'
  BY <1>8 DEF SpawnFailsAndReserves, SpawnReqMsg, Receive, SpawnRefused, SendResponse
<1>9. ASSUME NEW r \in SpawnReq, NEW c \in Conn, NEW q \in MaybePid,
           NEW watched \in WatcherOutcomes, SpawnHandOff(r, c, q, watched)
     PROVE  CrashInv'
  BY <1>9 DEF SpawnHandOff, SpawnReqMsg, Receive, AddChildWatcher, SpawnStarted,
      SpawnRefused, NewCtx, SendResponse
<1>10. ASSUME NEW r \in SpawnReq, NEW c \in Conn, NEW q \in MaybePid,
           SpawnHandOffFails(r, c, q)
     PROVE  CrashInv'
  BY <1>10 DEF SpawnHandOffFails, SpawnReqMsg, Receive, SpawnRefused, SendResponse
<1>11. ASSUME NEW r \in LockReq, NEW c \in Conn, LockStatusRefused(r, c)
     PROVE  CrashInv'
  BY <1>11 DEF LockStatusRefused, Receive, SendResponse
<1>12. ASSUME NEW r \in LockReq, NEW c \in Conn, LockStatusLocked(r, c)
     PROVE  CrashInv'
  BY <1>12 DEF LockStatusLocked, Receive, SendResponse
<1>13. ASSUME NEW r \in LockReq, NEW c \in Conn, NEW q \in MaybePid,
           UnlockByPrefork(r, c, q)
     PROVE  CrashInv'
  BY <1>13 DEF UnlockByPrefork, UnlockEvent, Receive, NewCtx
<1>14. ASSUME NEW r \in LockReq, NEW c \in Conn, NEW how \in Level1, NEW p \in Pid,
           NEW q \in MaybePid, UnlockByFork(r, c, how, p, q)
     PROVE  CrashInv'
  BY <1>14 DEF UnlockByFork, UnlockEvent, Receive, NewCtx
<1>15. ASSUME NEW r \in LockReq, NEW c \in Conn, NEW how \in Level1, NEW p \in MaybePid,
           NEW code \in {"OK", "HOOK_FAIL"}, NEW q \in MaybePid,
           UnlockSerial(r, c, how, p, q, code)
     PROVE  CrashInv'
  BY <1>15 DEF UnlockSerial, UnlockEvent, Receive, SendResponse
<1>16. ASSUME NEW p \in Pid, ChildTakesCmd(p)
     PROVE  CrashInv'
  BY <1>16 DEF ChildTakesCmd
<1>17. ASSUME NEW p \in Pid, NEW result \in {"ok", "fail"}, ChildReports(p, result)
     PROVE  CrashInv'
  BY <1>17 DEF ChildReports, AfterReport
<1>18. ASSUME NEW p \in Pid, NEW how \in Zombie, ChildDies(p, how)
     PROVE  CrashInv'
  BY <1>18 DEF ChildDies
<1>19. ASSUME NEW r \in Req, ChildFailed(r)
     PROVE  CrashInv'
  BY <1>19 DEF ChildFailed, SendResponse, DropCtx, DeleteAppSpawningCtx
<1>20. ASSUME NEW r \in Req, ChildSpawned(r)
     PROVE  CrashInv'
  BY <1>20 DEF ChildSpawned, SendResponse, DropCtx, DeleteAppSpawningCtx
<1>21. ASSUME NEW r \in Req, ChildNotRecorded(r)
     PROVE  CrashInv'
  BY <1>21 DEF ChildNotRecorded, SendResponse, DropCtx, DeleteAppSpawningCtx
<1>22. ASSUME NEW r \in Req, WaitChildTimeout(r)
     PROVE  CrashInv'
  BY <1>22 DEF WaitChildTimeout, SendResponse, DropCtx, DeleteAppSpawningCtx
<1>23. ASSUME NEW r \in Req, ProcessUnlockChildResponse(r)
     PROVE  CrashInv'
  BY <1>23 DEF ProcessUnlockChildResponse, SendResponse, DropUnlockCtx,
      DeleteAppSpawningCtx
<1>24. ASSUME NEW r \in Req, UnlockChildTimeout(r)
     PROVE  CrashInv'
  BY <1>24 DEF UnlockChildTimeout, SendResponse, DropUnlockCtx, DeleteAppSpawningCtx
<1>25. ASSUME NEW r \in Req, SendMessageComplete(r)
     PROVE  CrashInv'
  BY <1>25 DEF SendMessageComplete
<1>26. ASSUME NEW p \in Pid, AppDied(p)
     PROVE  CrashInv'
  BY <1>26 DEF AppDied, Reap
<1>27. ASSUME NEW p \in Pid, OtherChildDied(p)
     PROVE  CrashInv'
  BY <1>27 DEF OtherChildDied, Reap
<1>28. ASSUME NEW p \in Pid, NEW r \in Req, SpawningChildDied(p, r)
     PROVE  CrashInv'
  <2> DEFINE n == CrashesAfter(p, r)
  <2>1. ctxSt[r] = "spawning" /\ answer[r] = "none" /\ answers[r] = 0
    BY <1>28 DEF SpawningChildDied, SpawningOf
  <2>2. /\ answer' = [answer EXCEPT ![r] = "CHILD_CRASH"] /\ answers' = [answers EXCEPT ![r] = @ + 1]
        /\ ctxId' = ctxId /\ crashTimes' = n
        /\ lastDiedAppId' = IF pstat[p] = "exited" THEN lastDiedAppId ELSE ctxId[r]
        /\ loop' = IF n >= MaxCrashTime THEN "stopping" ELSE loop
    BY <1>28 DEF SpawningChildDied, SendResponse, DeleteAppSpawningCtx
  <2>3. UnansweredHasNoCode'
    BY <2>1, <2>2
  <2>4. \A s \in Req : answer[s] = "CHILD_CRASH" => answer'[s] = "CHILD_CRASH" /\ ctxId'[s] = ctxId[s]
    BY <2>1, <2>2
  <2>5. CASE pstat[p] = "exited"
    BY <2>2, <2>3, <2>5 DEF CrashesAfter
  <2>6. CASE pstat[p] # "exited" /\ ctxId[r] = lastDiedAppId + 1
    <3>1. crashTimes' = crashTimes + 1 /\ lastDiedAppId' = lastDiedAppId + 1
      BY <2>2, <2>6 DEF CrashesAfter
    <3>2. ASSUME NEW i \in 0 .. crashTimes' - 1
          PROVE  \E s \in Req : ctxId'[s] = lastDiedAppId' - i /\ answer'[s] = "CHILD_CRASH"
      <4>1. CASE i = 0
        BY <2>2, <2>6, <3>1, <4>1
      <4>2. CASE i # 0
        <5>1. i - 1 \in 0 .. crashTimes - 1
          BY <3>1, <4>2
        <5>2. PICK s \in Req : ctxId[s] = lastDiedAppId - (i - 1) /\ answer[s] = "CHILD_CRASH"
          BY <5>1
        <5>3. lastDiedAppId - (i - 1) = lastDiedAppId' - i
          BY <3>1
        <5>4. QED
          BY <2>4, <5>2, <5>3
      <4>3. QED
        BY <4>1, <4>2
    <3>3. crashTimes' >= MaxCrashTime => loop' # "running"
      BY <2>2
    <3>4. QED
      BY <2>3, <3>2, <3>3
  <2>7. CASE pstat[p] # "exited" /\ ctxId[r] # lastDiedAppId + 1
    <3>1. crashTimes' = 1 /\ lastDiedAppId' = ctxId[r]
      BY <2>2, <2>7 DEF CrashesAfter
    <3>2. ctxId'[r] = lastDiedAppId' - 0 /\ answer'[r] = "CHILD_CRASH" /\ 0 .. crashTimes' - 1 = {0}
      BY <2>2, <3>1
    <3>3. crashTimes' >= MaxCrashTime => loop' # "running"
      BY <2>2
    <3>4. QED
      BY <2>3, <3>2, <3>3
  <2>8. QED
    BY <2>5, <2>6, <2>7
<1>29. ASSUME StopAppSpawn
     PROVE  CrashInv'
  BY <1>29 DEF StopAppSpawn
<1>30. ASSUME AppSpawnDestroyContent
     PROVE  CrashInv'
  BY <1>30 DEF AppSpawnDestroyContent, DeleteAppSpawningCtx
<1>31. CASE UNCHANGED vars
  BY <1>31
<1> HIDE <1>a, <1>b, ServiceAssumption
    DEF CrashInv, CrashCountExact, UnansweredHasNoCode, Req, vars, procVars, fdVars,
        ctxVars, connVars, ansVars, memVars, idVars
<1>32. QED
  BY <1>1, <1>2, <1>3, <1>4, <1>5, <1>6, <1>7, <1>8, <1>9, <1>10, <1>11, <1>12, <1>13,
      <1>14, <1>15, <1>16, <1>17, <1>18, <1>19, <1>20, <1>21, <1>22, <1>23, <1>24,
      <1>25, <1>26, <1>27, <1>28, <1>29, <1>30, <1>31
  DEF Next, Client, Child, Service, ProcessSpawnReqMsg,
      ProcessLockStatusMsg, ProcessChildResponse, HandleDiedPid

\* The service gives up only after MAX_CRASH_TIME requests with consecutive ids, each
\* answered with CHILD_CRASH, whatever other requests were served in between.
THEOREM CrashesCountedExactly == Spec => []CrashCountExact
<1>1. CrashInv => CrashCountExact
  BY DEF CrashInv
<1>2. QED
  BY TypeInvInit, TypeInvNext, RequestInvInit, RequestInvNext, CrashInvInit, CrashInvNext, <1>1, PTL
  DEF Spec

\* The step that leaves every answer that was given as it is.
AnswersKept ==
  \A r \in Req : answers[r] > 0 =>
    answers'[r] > 0 /\ answer'[r] = answer[r] /\ answerPid'[r] = answerPid[r]

\* Only a request that is just received, or that has a context, is answered.
LEMMA AnswersKeptNext == TypeInv /\ RequestInv /\ [Next]_vars => AnswersKept
<1> SUFFICES ASSUME TypeInv, RequestInv, [Next]_vars PROVE AnswersKept
  OBVIOUS
<1>a. /\ answers \in [Req -> Nat]
      /\ answer \in [Req -> Codes \cup {"none"}]
      /\ answerPid \in [Req -> Pid \cup {NoPid}]
  BY DEF TypeInv, TypeOK
<1>b. \A r \in Req : ctxSt[r] # "none" \/ reqConn[r] = NoConn => answers[r] = 0
  BY DEF RequestInv, HasCtx
<1> USE <1>a, <1>b, ServiceAssumption
    DEF AnswersKept, Req, vars, procVars, fdVars, ctxVars, connVars, ansVars, memVars, idVars
<1>1. ASSUME NEW c \in Conn, OnConnection(c)
     PROVE  AnswersKept
  BY <1>1 DEF OnConnection
<1>2. ASSUME NEW c \in Conn, OnClose(c)
     PROVE  AnswersKept
  BY <1>2 DEF OnClose
<1>3. ASSUME NEW r \in SpawnReq, NEW c \in Conn, NEW code \in {"MSG_INVALID", "SYSTEM_ERROR"},
           RejectSpawnReq(r, c, code)
     PROVE  AnswersKept
  BY <1>3 DEF RejectSpawnReq, Receive, SendResponse
<1>4. ASSUME NEW r \in SpawnReq, NEW c \in Conn, SpawnHookFails(r, c)
     PROVE  AnswersKept
  BY <1>4 DEF SpawnHookFails, Receive, SpawnRefused, SendResponse
<1>5. ASSUME NEW r \in SpawnReq, NEW c \in Conn, NEW code \in {"FORK_FAIL", "SYSTEM_ERROR"},
           SpawnNormalFails(r, c, code)
     PROVE  AnswersKept
  BY <1>5 DEF SpawnNormalFails, SpawnReqMsg, Receive, SpawnRefused, SendResponse
<1>6. ASSUME NEW r \in SpawnReq, NEW c \in Conn, NEW p \in Pid, NEW watched \in WatcherOutcomes,
           SpawnNormal(r, c, p, watched)
     PROVE  AnswersKept
  BY <1>6 DEF SpawnNormal, SpawnReqMsg, Receive, AddChildWatcher, SpawnStarted,
      SpawnRefused, SendResponse
<1>7. ASSUME NEW r \in SpawnReq, NEW c \in Conn, NEW p \in Pid, NEW q \in MaybePid,
           NEW watched \in WatcherOutcomes, SpawnAndReserve(r, c, p, q, watched)
     PROVE  AnswersKept
  BY <1>7 DEF SpawnAndReserve, SpawnReqMsg, Receive, AddChildWatcher, SpawnStarted,
      SpawnRefused, SendResponse
<1>8. ASSUME NEW r \in SpawnReq, NEW c \in Conn, NEW q \in MaybePid, NEW code \in {"FORK_FAIL", "SYSTEM_ERROR"},
           SpawnFailsAndReserves(r, c, q, code)
     PROVE  AnswersKept
  BY <1>8 DEF SpawnFailsAndReserves, SpawnReqMsg, Receive, SpawnRefused, SendResponse
<1>9. ASSUME NEW r \in SpawnReq, NEW c \in Conn, NEW q \in MaybePid, NEW watched \in WatcherOutcomes,
           SpawnHandOff(r, c, q, watched)
     PROVE  AnswersKept
  BY <1>9 DEF SpawnHandOff, SpawnReqMsg, Receive, AddChildWatcher, SpawnStarted,
      SpawnRefused, SendResponse
<1>10. ASSUME NEW r \in SpawnReq, NEW c \in Conn, NEW q \in MaybePid, SpawnHandOffFails(r, c, q)
     PROVE  AnswersKept
  BY <1>10 DEF SpawnHandOffFails, SpawnReqMsg, Receive, SpawnRefused, SendResponse
<1>11. ASSUME NEW r \in LockReq, NEW c \in Conn, LockStatusRefused(r, c)
     PROVE  AnswersKept
  BY <1>11 DEF LockStatusRefused, Receive, SendResponse
<1>12. ASSUME NEW r \in LockReq, NEW c \in Conn, LockStatusLocked(r, c)
     PROVE  AnswersKept
  BY <1>12 DEF LockStatusLocked, Receive, SendResponse
<1>13. ASSUME NEW r \in LockReq, NEW c \in Conn, NEW q \in MaybePid, UnlockByPrefork(r, c, q)
     PROVE  AnswersKept
  BY <1>13 DEF UnlockByPrefork, UnlockEvent, Receive
<1>14. ASSUME NEW r \in LockReq, NEW c \in Conn, NEW how \in Level1, NEW p \in Pid,
           NEW q \in MaybePid, UnlockByFork(r, c, how, p, q)
     PROVE  AnswersKept
  BY <1>14 DEF UnlockByFork, UnlockEvent, Receive
<1>15. ASSUME NEW r \in LockReq, NEW c \in Conn, NEW how \in Level1, NEW p \in MaybePid,
           NEW code \in {"OK", "HOOK_FAIL"}, NEW q \in MaybePid,
           UnlockSerial(r, c, how, p, q, code)
     PROVE  AnswersKept
  BY <1>15 DEF UnlockSerial, UnlockEvent, Receive, SendResponse
<1>16. ASSUME NEW p \in Pid, ChildTakesCmd(p)
     PROVE  AnswersKept
  BY <1>16 DEF ChildTakesCmd
<1>17. ASSUME NEW p \in Pid, NEW result \in {"ok", "fail"}, ChildReports(p, result)
     PROVE  AnswersKept
  BY <1>17 DEF ChildReports, AfterReport
<1>18. ASSUME NEW p \in Pid, NEW how \in Zombie, ChildDies(p, how)
     PROVE  AnswersKept
  BY <1>18 DEF ChildDies
<1>19. ASSUME NEW r \in Req, ChildFailed(r)
     PROVE  AnswersKept
  BY <1>19 DEF ChildFailed, SendResponse
<1>20. ASSUME NEW r \in Req, ChildSpawned(r)
     PROVE  AnswersKept
  BY <1>20 DEF ChildSpawned, SendResponse
<1>21. ASSUME NEW r \in Req, ChildNotRecorded(r)
     PROVE  AnswersKept
  BY <1>21 DEF ChildNotRecorded, SendResponse
<1>22. ASSUME NEW r \in Req, WaitChildTimeout(r)
     PROVE  AnswersKept
  BY <1>22 DEF WaitChildTimeout, SendResponse
<1>23. ASSUME NEW r \in Req, ProcessUnlockChildResponse(r)
     PROVE  AnswersKept
  BY <1>23 DEF ProcessUnlockChildResponse, SendResponse
<1>24. ASSUME NEW r \in Req, UnlockChildTimeout(r)
     PROVE  AnswersKept
  BY <1>24 DEF UnlockChildTimeout, SendResponse
<1>25. ASSUME NEW r \in Req, SendMessageComplete(r)
     PROVE  AnswersKept
  BY <1>25 DEF SendMessageComplete
<1>26. ASSUME NEW p \in Pid, AppDied(p)
     PROVE  AnswersKept
  BY <1>26 DEF AppDied
<1>27. ASSUME NEW p \in Pid, OtherChildDied(p)
     PROVE  AnswersKept
  BY <1>27 DEF OtherChildDied
<1>28. ASSUME NEW p \in Pid, NEW r \in Req, SpawningChildDied(p, r)
     PROVE  AnswersKept
  BY <1>28 DEF SpawningChildDied, SpawningOf, SendResponse
<1>29. ASSUME StopAppSpawn
     PROVE  AnswersKept
  BY <1>29 DEF StopAppSpawn
<1>30. ASSUME AppSpawnDestroyContent
     PROVE  AnswersKept
  BY <1>30 DEF AppSpawnDestroyContent
<1>31. CASE UNCHANGED vars
  BY <1>31
<1> HIDE <1>a, <1>b, ServiceAssumption
    DEF AnswersKept, Req, vars, procVars, fdVars, ctxVars, connVars, ansVars, memVars, idVars
<1>32. QED
  BY <1>1, <1>2, <1>3, <1>4, <1>5, <1>6, <1>7, <1>8, <1>9, <1>10, <1>11, <1>12,
     <1>13, <1>14, <1>15, <1>16, <1>17, <1>18, <1>19, <1>20, <1>21, <1>22, <1>23, <1>24,
     <1>25, <1>26, <1>27, <1>28, <1>29, <1>30, <1>31
  DEF Next, Client, Child, Service, ProcessSpawnReqMsg,
      ProcessLockStatusMsg, ProcessChildResponse, HandleDiedPid

(***************************************************************************)
(* What the service can tell about its children.  ChildrenAccountedFor is  *)
(* not inductive: that a child whose failure was read, or an unlock child  *)
(* whose result was read, is leaving by itself rests on what each state of *)
(* a child implies about its pipes (ChildPipes), and that a kill reaches a *)
(* living or unreaped process on what an owner implies about the state of  *)
(* its process (OwnedState).  The client of a stray keeps being told, as   *)
(* no answer is ever given twice (AnswersKept).                            *)
(***************************************************************************)
ChildPipes ==
  \A p \in Pid :
    /\ pstat[p] \in {"unborn", "parked", "spawning", "mounting"} => res[p] = "none"
    /\ pstat[p] = "running" => res[p] = "ok"
    /\ pstat[p] = "unborn" => cmd[p] = "none"

OwnedState ==
  /\ \A p \in Pid :
       /\ p = reservedPid => cmd[p] = "none" /\ pstat[p] \in {"parked"} \cup Zombie
       /\ app[p] # NoReq => pstat[p] \in Unreaped
  /\ \A r \in Req :
       /\ ctxSt[r] = "spawning" => pstat[ctxPid[r]] \in Unreaped
       /\ ctxSt[r] = "unlock" => /\ pstat[ctxPid[r]] \notin {"spawning", "running", "stray"}
                                 /\ pstat[ctxPid[r]] = "parked" => cmd[ctxPid[r]] = "unlock"

ChildInv == ChildPipes /\ OwnedState /\ ChildrenAccountedFor

\* At start no process exists.
LEMMA ChildInvInit == Init => ChildInv
  BY ServiceAssumption
  DEF Init, ChildInv, ChildPipes, OwnedState, ChildrenAccountedFor, HasCtx, Req, Live

\* A handler that lets go of a child has killed it, read its failure or reaped it.
LEMMA ChildInvNext == TypeInv /\ RequestInv /\ OwnerInv /\ ChildInv /\ [Next]_vars =>
    ChildInv'
<1> SUFFICES ASSUME TypeInv, RequestInv, OwnerInv, ChildInv, [Next]_vars PROVE ChildInv'
  OBVIOUS
<1>a. /\ pstat \in [Pid -> ProcState]
      /\ cmd \in [Pid -> {"none", "spawn", "unlock"}]
      /\ res \in [Pid -> {"none", "ok", "fail"}]
      /\ killed \subseteq Pid
      /\ reservedPid \in Pid \cup {NoPid}
      /\ ctxSt \in [Req -> {"none", "spawning", "unlock"}]
      /\ ctxPid \in [Req -> Pid \cup {NoPid}]
      /\ app \in [Pid -> Req \cup {NoReq}]
  BY DEF TypeInv, TypeOK
<1>b. /\ \A r \in Req : HasCtx(r) => /\ ctxPid[r] \in Pid /\ ctxPid[r] # reservedPid
                                     /\ app[ctxPid[r]] = NoReq /\ pstat[ctxPid[r]] # "unborn"
      /\ \A r, s \in Req : HasCtx(r) /\ HasCtx(s) /\ ctxPid[r] = ctxPid[s] => r = s
      /\ \A r \in Req : reqConn[r] = NoConn => ~HasCtx(r)
      /\ \A r \in Req : ctxSt[r] = "unlock" => r \in LockReq
      /\ \A p \in Pid : app[p] # NoReq => p # reservedPid /\ pstat[p] # "unborn"
      /\ \A p \in Pid : p = reservedPid => pstat[p] # "unborn"
  BY DEF TypeInv, CtxHasChild, RequestInv, OwnerInv, PidOwnedOnce, Owned
<1>c. \A p \in Pid : FailureTold(p) => FailureTold(p)'
  BY AnswersKeptNext DEF AnswersKept, FailureTold, Req
<1>d. \A r \in Req : ctxSt[r] = "spawning" => r \in SpawnReq
  BY DEF RequestInv
<1>e. /\ answers \in [Req -> Nat]
      /\ answer \in [Req -> Codes \cup {"none"}]
      /\ answerPid \in [Req -> Pid \cup {NoPid}]
  BY DEF TypeInv, TypeOK
<1> USE <1>a, <1>b, <1>c, ServiceAssumption, ForkResultsType, UnbornIsPid
    DEF ChildInv, ChildPipes, OwnedState, ChildrenAccountedFor, Owned, HasCtx, Looping,
        Unborn, ProcState, Unreaped, Live, Zombie, Req, vars, procVars, fdVars, ctxVars,
        connVars, ansVars, memVars, idVars
<1>1. ASSUME NEW c \in Conn, OnConnection(c)
     PROVE  ChildInv'
  BY <1>1 DEF OnConnection
<1>2. ASSUME NEW c \in Conn, OnClose(c)
     PROVE  ChildInv'
  BY <1>2 DEF OnClose, CtxsOf, DeleteAppSpawningCtx
<1>3. ASSUME NEW r \in SpawnReq, NEW c \in Conn,
           NEW code \in {"MSG_INVALID", "SYSTEM_ERROR"}, RejectSpawnReq(r, c, code)
     PROVE  ChildInv'
  BY <1>3 DEF RejectSpawnReq, Receive
<1>4. ASSUME NEW r \in SpawnReq, NEW c \in Conn, SpawnHookFails(r, c)
     PROVE  ChildInv'
  BY <1>4 DEF SpawnHookFails, Receive, SpawnRefused
<1>5. ASSUME NEW r \in SpawnReq, NEW c \in Conn,
           NEW code \in {"FORK_FAIL", "SYSTEM_ERROR"}, SpawnNormalFails(r, c, code)
     PROVE  ChildInv'
  BY <1>5 DEF SpawnNormalFails, SpawnReqMsg, Receive, SpawnRefused
<1>6. ASSUME NEW r \in SpawnReq, NEW c \in Conn, NEW p \in Pid,
           NEW watched \in WatcherOutcomes, SpawnNormal(r, c, p, watched)
     PROVE  ChildInv'
  BY <1>6 DEF SpawnNormal, SpawnReqMsg, Receive, Forked, AddChildWatcher, SpawnStarted,
      SpawnRefused, NewCtx
<1>7. ASSUME NEW r \in SpawnReq, NEW c \in Conn, NEW p \in Pid, NEW q \in MaybePid,
           NEW watched \in WatcherOutcomes, SpawnAndReserve(r, c, p, q, watched)
     PROVE  ChildInv'
  BY <1>7 DEF SpawnAndReserve, SpawnReqMsg, Receive, Forked, Rewire, AddChildWatcher,
      SpawnStarted, SpawnRefused, NewCtx
<1>8. ASSUME NEW r \in SpawnReq, NEW c \in Conn, NEW q \in MaybePid,
           NEW code \in {"FORK_FAIL", "SYSTEM_ERROR"},
           SpawnFailsAndReserves(r, c, q, code)
     PROVE  ChildInv'
  BY <1>8 DEF SpawnFailsAndReserves, SpawnReqMsg, Receive, Forked, Rewire, SpawnRefused
<1>9. ASSUME NEW r \in SpawnReq, NEW c \in Conn, NEW q \in MaybePid,
           NEW watched \in WatcherOutcomes, SpawnHandOff(r, c, q, watched)
     PROVE  ChildInv'
  BY <1>9 DEF SpawnHandOff, SpawnReqMsg, Receive, TellChild, Forked, Rewire,
      AddChildWatcher, SpawnStarted, SpawnRefused, NewCtx
<1>10. ASSUME NEW r \in SpawnReq, NEW c \in Conn, NEW q \in MaybePid,
           SpawnHandOffFails(r, c, q)
     PROVE  ChildInv'
  BY <1>10 DEF SpawnHandOffFails, SpawnReqMsg, Receive, Forked, Rewire, SpawnRefused
<1>11. ASSUME NEW r \in LockReq, NEW c \in Conn, LockStatusRefused(r, c)
     PROVE  ChildInv'
  BY <1>11 DEF LockStatusRefused, Receive
<1>12. ASSUME NEW r \in LockReq, NEW c \in Conn, LockStatusLocked(r, c)
     PROVE  ChildInv'
  BY <1>12 DEF LockStatusLocked, Receive
<1>13. ASSUME NEW r \in LockReq, NEW c \in Conn, NEW q \in MaybePid,
           UnlockByPrefork(r, c, q)
     PROVE  ChildInv'
  BY <1>13 DEF UnlockByPrefork, UnlockEvent, Receive, TellChild, Forked, Rewire, NewCtx
<1>14. ASSUME NEW r \in LockReq, NEW c \in Conn, NEW how \in Level1, NEW p \in Pid,
           NEW q \in MaybePid, UnlockByFork(r, c, how, p, q)
     PROVE  ChildInv'
  BY <1>14 DEF UnlockByFork, UnlockEvent, Receive, Level1Fails, TellChild, Forked,
      Rewire, NewCtx
<1>15. ASSUME NEW r \in LockReq, NEW c \in Conn, NEW how \in Level1, NEW p \in MaybePid,
           NEW code \in {"OK", "HOOK_FAIL"}, NEW q \in MaybePid,
           UnlockSerial(r, c, how, p, q, code)
     PROVE  ChildInv'
  BY <1>15 DEF UnlockSerial, UnlockEvent, Receive, Level1Fails, TellChild, Forked,
      Rewire
<1>16. ASSUME NEW p \in Pid, ChildTakesCmd(p)
     PROVE  ChildInv'
  BY <1>16 DEF ChildTakesCmd
<1>17. ASSUME NEW p \in Pid, NEW result \in {"ok", "fail"}, ChildReports(p, result)
     PROVE  ChildInv'
  BY <1>17 DEF ChildReports, AfterReport
<1>18. ASSUME NEW p \in Pid, NEW how \in Zombie, ChildDies(p, how)
     PROVE  ChildInv'
  BY <1>18 DEF ChildDies
<1>19. ASSUME NEW r \in Req, ChildFailed(r)
     PROVE  ChildInv'
  <2>1. PICK p \in Pid : p = ctxPid[r]
    BY <1>19 DEF ChildFailed
  <2>2. r \in SpawnReq
    BY <1>19, <1>d DEF ChildFailed
  <2>3. FailureTold(p)'
    BY <1>19, <1>e, <2>1, <2>2 DEF ChildFailed, SendResponse, FailureTold
  <2>4. QED
    BY <1>19, <2>1, <2>3 DEF ChildFailed, DropCtx, DeleteAppSpawningCtx, ChildResult
<1>20. ASSUME NEW r \in Req, ChildSpawned(r)
     PROVE  ChildInv'
  BY <1>20 DEF ChildSpawned, DropCtx, DeleteAppSpawningCtx
<1>21. ASSUME NEW r \in Req, ChildNotRecorded(r)
     PROVE  ChildInv'
  BY <1>21 DEF ChildNotRecorded, DropCtx, DeleteAppSpawningCtx
<1>22. ASSUME NEW r \in Req, WaitChildTimeout(r)
     PROVE  ChildInv'
  BY <1>22 DEF WaitChildTimeout, DropCtx, DeleteAppSpawningCtx
<1>23. ASSUME NEW r \in Req, ProcessUnlockChildResponse(r)
     PROVE  ChildInv'
  BY <1>23 DEF ProcessUnlockChildResponse, DropUnlockCtx, DeleteAppSpawningCtx,
      ChildResult
<1>24. ASSUME NEW r \in Req, UnlockChildTimeout(r)
     PROVE  ChildInv'
  BY <1>24 DEF UnlockChildTimeout, DropUnlockCtx, DeleteAppSpawningCtx
<1>25. ASSUME NEW r \in Req, SendMessageComplete(r)
     PROVE  ChildInv'
  BY <1>25 DEF SendMessageComplete
<1>26. ASSUME NEW p \in Pid, AppDied(p)
     PROVE  ChildInv'
  BY <1>26 DEF AppDied, Reap, FdsAfterReap
<1>27. ASSUME NEW p \in Pid, OtherChildDied(p)
     PROVE  ChildInv'
  BY <1>27 DEF OtherChildDied, Reap, FdsAfterReap, SpawningOf
<1>28. ASSUME NEW p \in Pid, NEW r \in Req, SpawningChildDied(p, r)
     PROVE  ChildInv'
  BY <1>28 DEF SpawningChildDied, Reap, SpawningOf, DeleteAppSpawningCtx, StopVictims
<1>29. ASSUME StopAppSpawn
     PROVE  ChildInv'
  BY <1>29 DEF StopAppSpawn, StopVictims
<1>30. ASSUME AppSpawnDestroyContent
     PROVE  ChildInv'
  BY <1>30 DEF AppSpawnDestroyContent, DeleteAppSpawningCtx
<1>31. CASE UNCHANGED vars
  BY <1>31
<1> HIDE <1>a, <1>b, <1>c, ServiceAssumption, ForkResultsType, UnbornIsPid
    DEF ChildInv, ChildPipes, OwnedState, ChildrenAccountedFor, Owned, HasCtx, Looping,
        Unborn, ProcState, Unreaped, Live, Zombie, Req, vars, procVars, fdVars, ctxVars,
        connVars, ansVars, memVars, idVars
<1>32. QED
  BY <1>1, <1>2, <1>3, <1>4, <1>5, <1>6, <1>7, <1>8, <1>9, <1>10, <1>11, <1>12, <1>13,
      <1>14, <1>15, <1>16, <1>17, <1>18, <1>19, <1>20, <1>21, <1>22, <1>23, <1>24,
      <1>25, <1>26, <1>27, <1>28, <1>29, <1>30, <1>31
  DEF Next, Client, Child, Service, ProcessSpawnReqMsg,
      ProcessLockStatusMsg, ProcessChildResponse, HandleDiedPid

\* No child runs on unknown to the service: one that nobody owns has been killed or is
\* leaving, whichever of response, death, timeout, hang-up or stop came first, or is a
\* cold-started child that runs on after a failure its client was told of.
THEOREM ChildrenKnown == Spec => []ChildrenAccountedFor
<1>1. ChildInv => ChildrenAccountedFor
  BY DEF ChildInv
<1>2. QED
  BY TypeInvInit, TypeInvNext, RequestInvInit, RequestInvNext, OwnerInvInit, OwnerInvNext,
     ChildInvInit, ChildInvNext, <1>1, PTL
  DEF Spec

(***************************************************************************)
(* Kills.                                                                  *)
(***************************************************************************)
\* The step KillOnlyUnreaped allows.
KillHits ==
  \A p \in killed' \ killed :
    \/ pstat'[p] \in Unreaped
    \/ \E r \in LockReq : HasCtx(r) /\ ctxPid[r] = p

\* Every kill(pid, SIGKILL) of a handler takes its pid from an owner of the process, or
\* from the fork it has just made.
LEMMA KillHitsNext == TypeInv /\ RequestInv /\ OwnerInv /\ ChildInv /\ [Next]_vars =>
    KillHits
<1> SUFFICES ASSUME TypeInv, RequestInv, OwnerInv, ChildInv, [Next]_vars PROVE KillHits
  OBVIOUS
<1>a. /\ pstat \in [Pid -> ProcState]
      /\ cmd \in [Pid -> {"none", "spawn", "unlock"}]
      /\ res \in [Pid -> {"none", "ok", "fail"}]
      /\ killed \subseteq Pid
      /\ reservedPid \in Pid \cup {NoPid}
      /\ ctxSt \in [Req -> {"none", "spawning", "unlock"}]
      /\ ctxPid \in [Req -> Pid \cup {NoPid}]
      /\ app \in [Pid -> Req \cup {NoReq}]
  BY DEF TypeInv, TypeOK
<1>b. /\ \A r \in Req : HasCtx(r) => /\ ctxPid[r] \in Pid /\ ctxPid[r] # reservedPid
                                     /\ app[ctxPid[r]] = NoReq /\ pstat[ctxPid[r]] # "unborn"
      /\ \A r, s \in Req : HasCtx(r) /\ HasCtx(s) /\ ctxPid[r] = ctxPid[s] => r = s
      /\ \A r \in Req : reqConn[r] = NoConn => ~HasCtx(r)
      /\ \A r \in Req : ctxSt[r] = "unlock" => r \in LockReq
      /\ \A p \in Pid : app[p] # NoReq => p # reservedPid /\ pstat[p] # "unborn"
      /\ \A p \in Pid : p = reservedPid => pstat[p] # "unborn"
  BY DEF TypeInv, CtxHasChild, RequestInv, OwnerInv, PidOwnedOnce, Owned
<1> USE <1>a, <1>b, ServiceAssumption, ForkResultsType, UnbornIsPid
    DEF KillHits, ChildInv, OwnedState, HasCtx, ProcState, Unreaped, Live, Zombie, Req,
        vars, procVars, fdVars, ctxVars, connVars, ansVars, memVars, idVars
<1>1. ASSUME NEW c \in Conn, OnConnection(c)
     PROVE  KillHits
  BY <1>1 DEF OnConnection
<1>2. ASSUME NEW c \in Conn, OnClose(c)
     PROVE  KillHits
  BY <1>2 DEF OnClose, CtxsOf, DeleteAppSpawningCtx
<1>3. ASSUME NEW r \in SpawnReq, NEW c \in Conn,
           NEW code \in {"MSG_INVALID", "SYSTEM_ERROR"}, RejectSpawnReq(r, c, code)
     PROVE  KillHits
  BY <1>3 DEF RejectSpawnReq, Receive
<1>4. ASSUME NEW r \in SpawnReq, NEW c \in Conn, SpawnHookFails(r, c)
     PROVE  KillHits
  BY <1>4 DEF SpawnHookFails, Receive, SpawnRefused
<1>5. ASSUME NEW r \in SpawnReq, NEW c \in Conn,
           NEW code \in {"FORK_FAIL", "SYSTEM_ERROR"}, SpawnNormalFails(r, c, code)
     PROVE  KillHits
  BY <1>5 DEF SpawnNormalFails, SpawnReqMsg, Receive, SpawnRefused
<1>6. ASSUME NEW r \in SpawnReq, NEW c \in Conn, NEW p \in Pid,
           NEW watched \in WatcherOutcomes, SpawnNormal(r, c, p, watched)
     PROVE  KillHits
  BY <1>6 DEF SpawnNormal, SpawnReqMsg, Receive, Forked, AddChildWatcher, SpawnStarted,
      SpawnRefused, NewCtx
<1>7. ASSUME NEW r \in SpawnReq, NEW c \in Conn, NEW p \in Pid, NEW q \in MaybePid,
           NEW watched \in WatcherOutcomes, SpawnAndReserve(r, c, p, q, watched)
     PROVE  KillHits
  BY <1>7 DEF SpawnAndReserve, SpawnReqMsg, Receive, Forked, Rewire, AddChildWatcher,
      SpawnStarted, SpawnRefused, NewCtx
<1>8. ASSUME NEW r \in SpawnReq, NEW c \in Conn, NEW q \in MaybePid,
           NEW code \in {"FORK_FAIL", "SYSTEM_ERROR"},
           SpawnFailsAndReserves(r, c, q, code)
     PROVE  KillHits
  BY <1>8 DEF SpawnFailsAndReserves, SpawnReqMsg, Receive, Forked, Rewire, SpawnRefused
<1>9. ASSUME NEW r \in SpawnReq, NEW c \in Conn, NEW q \in MaybePid,
           NEW watched \in WatcherOutcomes, SpawnHandOff(r, c, q, watched)
     PROVE  KillHits
  BY <1>9 DEF SpawnHandOff, SpawnReqMsg, Receive, TellChild, Forked, Rewire,
      AddChildWatcher, SpawnStarted, SpawnRefused, NewCtx
<1>10. ASSUME NEW r \in SpawnReq, NEW c \in Conn, NEW q \in MaybePid,
           SpawnHandOffFails(r, c, q)
     PROVE  KillHits
  BY <1>10 DEF SpawnHandOffFails, SpawnReqMsg, Receive, Forked, Rewire, SpawnRefused
<1>11. ASSUME NEW r \in LockReq, NEW c \in Conn, LockStatusRefused(r, c)
     PROVE  KillHits
  BY <1>11 DEF LockStatusRefused, Receive
<1>12. ASSUME NEW r \in LockReq, NEW c \in Conn, LockStatusLocked(r, c)
     PROVE  KillHits
  BY <1>12 DEF LockStatusLocked, Receive
<1>13. ASSUME NEW r \in LockReq, NEW c \in Conn, NEW q \in MaybePid,
           UnlockByPrefork(r, c, q)
     PROVE  KillHits
  BY <1>13 DEF UnlockByPrefork, UnlockEvent, Receive, TellChild, Forked, Rewire, NewCtx
<1>14. ASSUME NEW r \in LockReq, NEW c \in Conn, NEW how \in Level1, NEW p \in Pid,
           NEW q \in MaybePid, UnlockByFork(r, c, how, p, q)
     PROVE  KillHits
  BY <1>14 DEF UnlockByFork, UnlockEvent, Receive, Level1Fails, TellChild, Forked,
      Rewire, NewCtx
<1>15. ASSUME NEW r \in LockReq, NEW c \in Conn, NEW how \in Level1, NEW p \in MaybePid,
           NEW code \in {"OK", "HOOK_FAIL"}, NEW q \in MaybePid,
           UnlockSerial(r, c, how, p, q, code)
     PROVE  KillHits
  BY <1>15 DEF UnlockSerial, UnlockEvent, Receive, Level1Fails, TellChild, Forked,
      Rewire
<1>16. ASSUME NEW p \in Pid, ChildTakesCmd(p)
     PROVE  KillHits
  BY <1>16 DEF ChildTakesCmd
<1>17. ASSUME NEW p \in Pid, NEW result \in {"ok", "fail"}, ChildReports(p, result)
     PROVE  KillHits
  BY <1>17 DEF ChildReports, AfterReport
<1>18. ASSUME NEW p \in Pid, NEW how \in Zombie, ChildDies(p, how)
     PROVE  KillHits
  BY <1>18 DEF ChildDies
<1>19. ASSUME NEW r \in Req, ChildFailed(r)
     PROVE  KillHits
  BY <1>19 DEF ChildFailed, DropCtx, DeleteAppSpawningCtx
<1>20. ASSUME NEW r \in Req, ChildSpawned(r)
     PROVE  KillHits
  BY <1>20 DEF ChildSpawned, DropCtx, DeleteAppSpawningCtx
<1>21. ASSUME NEW r \in Req, ChildNotRecorded(r)
     PROVE  KillHits
  BY <1>21 DEF ChildNotRecorded, DropCtx, DeleteAppSpawningCtx
<1>22. ASSUME NEW r \in Req, WaitChildTimeout(r)
     PROVE  KillHits
  BY <1>22 DEF WaitChildTimeout, DropCtx, DeleteAppSpawningCtx
<1>23. ASSUME NEW r \in Req, ProcessUnlockChildResponse(r)
     PROVE  KillHits
  BY <1>23 DEF ProcessUnlockChildResponse, DropUnlockCtx, DeleteAppSpawningCtx
<1>24. ASSUME NEW r \in Req, UnlockChildTimeout(r)
     PROVE  KillHits
  BY <1>24 DEF UnlockChildTimeout, DropUnlockCtx, DeleteAppSpawningCtx
<1>25. ASSUME NEW r \in Req, SendMessageComplete(r)
     PROVE  KillHits
  BY <1>25 DEF SendMessageComplete
<1>26. ASSUME NEW p \in Pid, AppDied(p)
     PROVE  KillHits
  BY <1>26 DEF AppDied, Reap, FdsAfterReap
<1>27. ASSUME NEW p \in Pid, OtherChildDied(p)
     PROVE  KillHits
  BY <1>27 DEF OtherChildDied, Reap, FdsAfterReap
<1>28. ASSUME NEW p \in Pid, NEW r \in Req, SpawningChildDied(p, r)
     PROVE  KillHits
  BY <1>28 DEF SpawningChildDied, Reap, SpawningOf, DeleteAppSpawningCtx, StopVictims
<1>29. ASSUME StopAppSpawn
     PROVE  KillHits
  BY <1>29 DEF StopAppSpawn, StopVictims
<1>30. ASSUME AppSpawnDestroyContent
     PROVE  KillHits
  BY <1>30 DEF AppSpawnDestroyContent, DeleteAppSpawningCtx
<1>31. CASE UNCHANGED vars
  BY <1>31
<1> HIDE <1>a, <1>b, ServiceAssumption, ForkResultsType, UnbornIsPid
    DEF KillHits, ChildInv, OwnedState, HasCtx, ProcState, Unreaped, Live, Zombie, Req,
        vars, procVars, fdVars, ctxVars, connVars, ansVars, memVars, idVars
<1>32. QED
  BY <1>1, <1>2, <1>3, <1>4, <1>5, <1>6, <1>7, <1>8, <1>9, <1>10, <1>11, <1>12, <1>13,
      <1>14, <1>15, <1>16, <1>17, <1>18, <1>19, <1>20, <1>21, <1>22, <1>23, <1>24,
      <1>25, <1>26, <1>27, <1>28, <1>29, <1>30, <1>31
  DEF Next, Client, Child, Service, ProcessSpawnReqMsg,
      ProcessLockStatusMsg, ProcessChildResponse, HandleDiedPid

\* No handler sends SIGKILL to a process that was reaped, whose pid the system may have
\* given to somebody else, except for the child of an unlock context.
THEOREM KillsHitOwnChildren == Spec => KillOnlyUnreaped
<1>1. TypeInv /\ RequestInv /\ OwnerInv /\ ChildInv /\ [Next]_vars => [KillHits]_vars
  BY KillHitsNext
<1>2. QED
  BY TypeInvInit, TypeInvNext, RequestInvInit, RequestInvNext, OwnerInvInit, OwnerInvNext,
     ChildInvInit, ChildInvNext, <1>1, PTL
  DEF Spec, KillOnlyUnreaped, KillHits
=============================================================================
