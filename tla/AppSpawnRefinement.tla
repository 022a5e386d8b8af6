------------------------- MODULE AppSpawnRefinement -------------------------
(***************************************************************************)
(* AppSpawnService implements SpawnContract: a request's phase is read off *)
(* its connection, its context, its answer and appQueue.                   *)
(***************************************************************************)
EXTENDS AppSpawnService

NamedAnApp(r) == answer[r] = "OK" /\ answerPid[r] # NoPid

\* ChildSpawned records the application in the step that answers, with its pid.
\* The conditions exclude each other in every reachable state.
RequestPhase(r) ==
  CASE reqConn[r] = NoConn -> "unseen"
    [] HasCtx(r) -> "pending"
    [] Recorded(r) -> "running"
    [] NamedAnApp(r) /\ ~Recorded(r) -> "ended"
    [] answers[r] > 0 /\ ~NamedAnApp(r) -> "answered"
    [] OTHER -> "dropped"

Contract == INSTANCE SpawnContract WITH
  Spawn <- SpawnReq,
  Unlock <- LockReq,
  phase <- [r \in Req |-> RequestPhase(r)],
  up <- Looping

(***************************************************************************)
(* Every behaviour of the service, with its forks, hand-offs, timers,      *)
(* signals and fallbacks, is one SpawnContract allows: a request is        *)
(* settled once and stays so, and an application appears only in the step  *)
(* that answers its request, never before and never again.                 *)
(***************************************************************************)
ImplementsContract == Contract!Spec
=============================================================================
