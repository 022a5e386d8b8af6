-------------------------- MODULE MCAppSpawnService --------------------------
(***************************************************************************)
(* Small instances of AppSpawnService for TLC.                             *)
(***************************************************************************)
EXTENDS AppSpawnRefinement, FiniteSets, TLC

\* Once the service has exited only its orphans move, and no safety property
\* is about them: those states are checked but not left.
ServiceUp == Looping

\* Bound of the run with failing calls: two requests, of either kind, are
\* enough for one to fail while the other is in any state; one response gets
\* lost, and only among spawns, because losing one kills an application.
Received == {r \in Req : reqConn[r] # NoConn}
TwoRequests ==
  /\ Cardinality(Received') <= 2
  /\ Cardinality(sendFailed') <= 1 /\ (sendFailed' # {} => Received' \subseteq SpawnReq)

Symmetry == Permutations(Pid) \cup Permutations(SpawnReq)
=============================================================================
