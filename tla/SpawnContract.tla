---------------------------- MODULE SpawnContract ----------------------------
(***************************************************************************)
(* What the spawner promises about a request, whatever happens inside: it  *)
(* is settled once, by an answer or because its client or the service went *)
(* away, an application starts only together with the answer that names    *)
(* it, and runs until it ends for good.                                    *)
(***************************************************************************)
CONSTANTS
  Spawn,     \* requests for an application
  Unlock     \* requests of the storage manager

VARIABLES
  phase,     \* of each request: "unseen", "pending", then settled: "answered" or "dropped";
             \* a spawn answered with success is "running", then "ended"
  up         \* the service runs

vars == <<phase, up>>

Requests == Spawn \cup Unlock

Init ==
  /\ phase = [r \in Requests |-> "unseen"]
  /\ up = TRUE

Accept(r) ==
  /\ up /\ phase[r] = "unseen"
  /\ phase' = [phase EXCEPT ![r] = "pending"]
  /\ UNCHANGED up

\* At once, or after it was pending.
Answer(r) ==
  /\ up /\ phase[r] \in {"unseen", "pending"}
  /\ phase' = [phase EXCEPT ![r] = "answered"]
  /\ UNCHANGED up

Start(r) ==
  /\ up /\ r \in Spawn /\ phase[r] = "pending"
  /\ phase' = [phase EXCEPT ![r] = "running"]
  /\ UNCHANGED up

\* A connection ends, and with it everything pending on it.
Drop(R) ==
  /\ up /\ R # {}
  /\ \A r \in R : phase[r] = "pending"
  /\ phase' = [r \in Requests |-> IF r \in R THEN "dropped" ELSE phase[r]]
  /\ UNCHANGED up

End(r) ==
  /\ up /\ phase[r] = "running"
  /\ phase' = [phase EXCEPT ![r] = "ended"]
  /\ UNCHANGED up

\* The service gives up its applications when it is stopped, and may answer
\* the request whose crash made it stop.
EndAll(answered) ==
  /\ up
  /\ \A r \in answered : phase[r] = "pending"
  /\ phase' = [r \in Requests |-> IF phase[r] = "running" THEN "ended"
                                  ELSE IF r \in answered THEN "answered"
                                  ELSE phase[r]]
  /\ UNCHANGED up

Exit ==
  /\ up /\ up' = FALSE
  /\ phase' = [r \in Requests |-> IF phase[r] = "pending" THEN "dropped"
                                  ELSE IF phase[r] = "running" THEN "ended"
                                  ELSE phase[r]]

Next ==
  \/ \E r \in Requests : Accept(r) \/ Answer(r) \/ Start(r) \/ End(r)
  \/ \E R \in SUBSET Requests : Drop(R)
  \/ EndAll({}) \/ \E r \in Requests : EndAll({r})
  \/ Exit

\* Most steps of an implementation are none of the contract's.
Spec == Init /\ [][UNCHANGED vars \/ Next]_vars
=============================================================================
