------------------------ MODULE SpawnResourcesProofs ------------------------
(***************************************************************************)
(* Proofs about SpawnResources, for every finite set of processes, every   *)
(* set of requests and SPM entries and every combination of faults.        *)
(***************************************************************************)
EXTENDS SpawnResources, FiniteSetTheorems, SequenceTheorems, TLAPS

(***************************************************************************)
(* Records.                                                                *)
(***************************************************************************)
Counted == {"token", "uid"}
Bare == [st : {"none", "died", "gone"}]
MsgOf(r) == {OriginalMsg(r), BuildAndReplaceMessage(r)}
FullRecord == [st : {"spawning", "running"}, req : Requests, msg : UNION {MsgOf(r) : r \in Requests},
         refs : SUBSET Counted, lockRef : BOOLEAN]

\* A record that holds something gives it back under the uid it was counted
\* with, although OnSpawnAbortUpdateRefCount and OnAppExitUpdateRefCount read
\* the uid from the message and the message may have been rebuilt.
JobInv ==
  /\ job \in [Jobs -> Bare \union FullRecord]
  /\ \A j \in Jobs : Holding(j) => job[j] \in FullRecord /\ job[j].msg.uid = job[j].req.uid

\* A record is bare or it holds something.
LEMMA BareOrHolding ==
  ASSUME JobInv, NEW j \in Jobs
  PROVE  /\ Holding(j) => job[j] \in FullRecord
         /\ ~Holding(j) => job[j] \in Bare
<1>1. job[j] \in Bare \union FullRecord
  BY DEF JobInv
<1>2. job[j] \in FullRecord => Holding(j)
  BY DEF FullRecord, Holding
<1>3. QED
  BY <1>1, <1>2 DEF JobInv

\* The message is rebuilt only when its uid stays what it was; what was
\* counted and is not remembered is lost.
LEMMA RebuildFacts ==
  ASSUME NEW r \in Requests, NEW d \in RebuildMessageFromSPM(r)
  PROVE  /\ d.msg \in MsgOf(r) /\ d.msg.uid = r.uid
         /\ \E all \in SUBSET Counted :
              /\ d.refs \in SUBSET all
              /\ d.c = Inc(cnt, KeysOf(all, r, r.uid))
              /\ d.lost = Inc(lost, KeysOf(all \ d.refs, r, r.uid))
<1>1. \A i \in IncreaseRefCounts : i.counted \in SUBSET Counted /\ i.added \in SUBSET i.counted
  <2>1. \A c \in {{}, {"token"}} : c \in SUBSET Counted /\ [counted |-> c, added |-> c].added \in SUBSET c
    BY DEF Counted
  <2>2. QED
    BY <2>1 DEF IncreaseRefCounts, Counted, Both
<1>2. OriginalMsg(r).uid = r.uid
  BY DEF OriginalMsg
<1>3. ASSUME NEW i, Rebuildable(r, i)
      PROVE  BuildAndReplaceMessage(r).uid = r.uid
  BY <1>3 DEF BuildAndReplaceMessage, RebuiltUid, Rebuildable, ValidateSpmDataConsistency
<1>4. ASSUME NEW i \in IncreaseRefCounts, NEW m
      PROVE  /\ Outcome(r, i, m).msg = m /\ Outcome(r, i, m).refs = i.added
             /\ Outcome(r, i, m).c = Inc(cnt, KeysOf(i.counted, r, r.uid))
             /\ Outcome(r, i, m).lost = Inc(lost, KeysOf(i.counted \ i.added, r, r.uid))
  BY DEF Outcome
<1>5. PICK i \in IncreaseRefCounts, m \in MsgOf(r) : d = Outcome(r, i, m) /\ m.uid = r.uid
  <2>1. CASE \E i \in IncreaseRefCounts : Rebuildable(r, i) /\ d = Outcome(r, i, BuildAndReplaceMessage(r))
    BY <1>3, <2>1 DEF MsgOf
  <2>2. CASE \E i \in IncreaseRefCounts : d = Outcome(r, i, OriginalMsg(r))
    BY <1>2, <2>2 DEF MsgOf
  <2>3. QED
    BY <2>1, <2>2 DEF RebuildMessageFromSPM
<1>6. /\ d.msg = m /\ d.refs = i.added
      /\ d.c = Inc(cnt, KeysOf(i.counted, r, r.uid))
      /\ d.lost = Inc(lost, KeysOf(i.counted \ i.added, r, r.uid))
  BY <1>4, <1>5
<1>7. QED
  BY <1>1, <1>5, <1>6

(***************************************************************************)
(* What a step does to the records and the counts.                         *)
(***************************************************************************)
Down(x) == [st |-> x]
Counts == <<cnt, lost, lockMap, lockLeak>>

\* A table of lock paths after a request took a reference, or did not.
Took(taken, m, r) == IF taken THEN AddLockBundleRef(m, r.path) ELSE m

\* The record of a new process takes references.
Enters(j, r, d) ==
  /\ job[j] = None /\ ~Holding(j)
  /\ \E st \in {"spawning", "running"}, lk \in BOOLEAN, leak \in BOOLEAN :
       /\ job' = [job EXCEPT ![j] = [st |-> st, req |-> r, msg |-> d.msg, refs |-> d.refs,
                                     lockRef |-> lk]]
       /\ lockMap' = Took(lk \/ leak, lockMap, r) /\ lockLeak' = Took(leak, lockLeak, r)
       /\ ~(lk /\ leak)
  /\ cnt' = d.c /\ lost' = d.lost

\* A request fails after its references were taken.
FailsAtOnce(j, r, d) ==
  /\ job[j] = None /\ ~Holding(j) /\ job' = [job EXCEPT ![j] = Down("gone")]
  /\ \E n : \E f \in SUBSET d.refs, lk \in BOOLEAN, leak \in BOOLEAN :
       /\ GiveBack(d.c, d.lost, Took(lk \/ leak, lockMap, r), n, r, d.msg.uid, d.refs, lk, f)
       /\ lockLeak' = Took(leak, lockLeak, r) /\ ~(lk /\ leak)

\* A checkpoint request drops its references.
Drops(j, r, d) ==
  /\ job[j] = None /\ ~Holding(j) /\ job' = [job EXCEPT ![j] = Down("gone")]
  /\ cnt' = d.c /\ lost' = Inc(d.lost, KeysOf(d.refs, r, r.uid)) /\ UNCHANGED <<lockMap, lockLeak>>

\* A record is dropped and gives back what it holds.
Leaves(j) ==
  /\ Holding(j)
  /\ \E st \in {"died", "gone"} : job' = [job EXCEPT ![j] = Down(st)]
  /\ \E f \in SUBSET job[j].refs :
       GiveBack(cnt, lost, lockMap, faulty, job[j].req, job[j].msg.uid, job[j].refs, job[j].lockRef, f)
  /\ UNCHANGED lockLeak

\* The child is ready, or the status of a dead process was asked for.
Restates(j) ==
  /\ \/ Holding(j) /\ job' = [job EXCEPT ![j].st = "running"]
     \/ ~Holding(j) /\ job[j] # None /\ job' = [job EXCEPT ![j].st = "gone"]
  /\ UNCHANGED Counts

\* What nwebspawn keeps are the records of processes that died.
DiedAreDead == \A a \in DOMAIN died : died[a] \in Jobs => job[died[a]].st = "died"

\* Every step is one of these, or leaves records and counts alone, or stops or
\* starts the service.
LEMMA StepKinds ==
  ASSUME JobInv, DiedAreDead, [Next]_vars
  PROVE  /\ \/ Up /\ \E j \in Jobs, r \in Requests : \E d \in RebuildMessageFromSPM(r) :
                 Enters(j, r, d) \/ FailsAtOnce(j, r, d) \/ Drops(j, r, d)
            \/ Up /\ \E j \in Jobs : Leaves(j) \/ Restates(j)
            \/ UNCHANGED <<job, Counts>>
            \/ StopAppSpawn \/ Restart
         /\ mode' = mode
         /\ Up' => Up \/ Restart
<1>1. ASSUME NEW j \in Jobs, NEW r \in Requests, ProcessSpawnReqMsg(j, r)
      PROVE  /\ Up /\ starts' = starts /\ mode' = mode
             /\ \E d \in RebuildMessageFromSPM(r) : Enters(j, r, d) \/ FailsAtOnce(j, r, d)
  <2>1. job[j] = None /\ ~Holding(j)
    BY <1>1 DEF ProcessSpawnReqMsg, Holding, None
  <2>2. PICK d \in RebuildMessageFromSPM(r), ref \in LockRefAdded(r), fails \in May("spawn") :
          LET shr == MountDirToShared(r, ref)
              n == faulty + (d.cost + (IF TakesLockRef(r) /\ ~ref THEN 1 ELSE 0))
          IN  /\ lockLeak' = shr.lockLeak
              /\ IF fails
                 THEN /\ \E f \in DecFailures(d.refs) :
                           GiveBack(d.c, d.lost, shr.lockMap, n, r, d.msg.uid, d.refs, ref, f)
                      /\ job' = [job EXCEPT ![j] = [st |-> "gone"]]
                 ELSE /\ job' = [job EXCEPT ![j] = [st |-> "spawning", req |-> r, msg |-> d.msg,
                                                    refs |-> d.refs, lockRef |-> ref]]
                      /\ cnt' = d.c /\ lost' = d.lost /\ lockMap' = shr.lockMap
    BY <1>1 DEF ProcessSpawnReqMsg
  <2>3. PICK leak \in BOOLEAN : leak = (TakesLockRef(r) /\ ~ref)
    OBVIOUS
  <2>4. /\ ref \in BOOLEAN /\ ~(ref /\ leak)
        /\ MountDirToShared(r, ref).lockMap = Took(ref \/ leak, lockMap, r)
        /\ MountDirToShared(r, ref).lockLeak = Took(leak, lockLeak, r)
    BY <2>3 DEF MountDirToShared, LockRefAdded, Took, May, TakesLockRef
  <2>5. CASE fails
    <3>0. PICK n : n = faulty + (d.cost + (IF TakesLockRef(r) /\ ~ref THEN 1 ELSE 0))
      OBVIOUS
    <3>1. PICK f \in DecFailures(d.refs) :
            GiveBack(d.c, d.lost, MountDirToShared(r, ref).lockMap, n, r, d.msg.uid, d.refs, ref, f)
      BY <2>2, <2>5, <3>0, Zenon
    <3>2. f \in SUBSET d.refs
      BY DEF DecFailures
    <3>3. FailsAtOnce(j, r, d)
      BY <2>1, <2>2, <2>4, <2>5, <3>1, <3>2 DEF FailsAtOnce, Down
    <3>4. QED
      BY <1>1, <3>3 DEF ProcessSpawnReqMsg
  <2>6. CASE ~fails
    <3>1. Enters(j, r, d)
      BY <2>1, <2>2, <2>4, <2>6 DEF Enters
    <3>2. QED
      BY <1>1, <3>1 DEF ProcessSpawnReqMsg
  <2>7. QED
    BY <2>5, <2>6
<1>2. ASSUME NEW j \in Jobs, NEW r \in Requests, ProcessCheckpointReqMsg(j, r)
      PROVE  /\ Up /\ starts' = starts /\ mode' = mode
             /\ \E d \in RebuildMessageFromSPM(r) : Enters(j, r, d) \/ Drops(j, r, d)
  <2>1. job[j] = None /\ ~Holding(j)
    BY <1>2 DEF ProcessCheckpointReqMsg, Holding, None
  <2>2. PICK d \in RebuildMessageFromSPM(r) :
          /\ cnt' = d.c
          /\ \/ /\ job' = [job EXCEPT ![j] = [st |-> "gone"]]
                /\ lost' = Inc(d.lost, KeysOf(d.refs, r, r.uid))
             \/ /\ job' = [job EXCEPT ![j] = [st |-> "running", req |-> r, msg |-> d.msg,
                                              refs |-> d.refs, lockRef |-> FALSE]]
                /\ lost' = d.lost
    BY <1>2 DEF ProcessCheckpointReqMsg
  <2>3. UNCHANGED <<lockMap, lockLeak>>
    BY <1>2 DEF ProcessCheckpointReqMsg, LockVars
  <2>4. Enters(j, r, d) \/ Drops(j, r, d)
    BY <2>1, <2>2, <2>3 DEF Enters, Drops, Down, Took
  <2>5. QED
    BY <1>2, <2>4 DEF ProcessCheckpointReqMsg
<1>3. ASSUME NEW j \in Jobs, AbortSpawn(j), Holding(j), UNCHANGED lockLeak
      PROVE  Leaves(j)
  BY <1>3 DEF AbortSpawn, Leaves, DecFailures, Down
<1>4. ASSUME NEW j \in Jobs, AppCleanup(j), Holding(j), NEW st \in {"died", "gone"},
             job' = [job EXCEPT ![j] = [st |-> st]], UNCHANGED lockLeak
      PROVE  Leaves(j)
  BY <1>4 DEF AppCleanup, Leaves, DecFailures, Down
<1>5. ASSUME NEW j \in Jobs, SpawnFails(j) \/ HandleDiedPid(j)
      PROVE  Up /\ starts' = starts /\ mode' = mode /\ Leaves(j)
  BY <1>3, <1>4, <1>5 DEF SpawnFails, HandleDiedPid, Spawning, Running, Holding
<1>6. ASSUME NEW j \in Jobs, WaitChildDied(j) \/ StatusOfRunning(j)
      PROVE  /\ Up /\ starts' = starts /\ mode' = mode
             /\ Leaves(j) \/ UNCHANGED <<job, Counts>>
  BY <1>3, <1>4, <1>6 DEF WaitChildDied, StatusOfRunning, Spawning, Running, Holding, Counts
<1>7. ASSUME NEW j \in Jobs, ProcessChildResponse(j) \/ StatusOfDied(j)
      PROVE  Up /\ starts' = starts /\ mode' = mode /\ Restates(j)
  <2>1. CASE ProcessChildResponse(j)
    BY <2>1 DEF ProcessChildResponse, Restates, Spawning, Holding, Counts, LockVars
  <2>2. CASE StatusOfDied(j)
    <3>1. job[j].st = "died"
      BY <2>2 DEF StatusOfDied, DiedAreDead
    <3>2. QED
      BY <2>2, <3>1 DEF StatusOfDied, Restates, Holding, Counts, LockVars, None
  <2>3. QED
    BY <1>7, <2>1, <2>2
<1>8. ASSUME \/ \E j \in Jobs : ProcessDies(j)
             \/ \E u \in Users : LockUser(u) \/ UnlockInChild(u) \/ UnlockSerially(u)
             \/ \E p \in Paths : MountQueueWorkerThread(p)
             \/ UpdateDataGroupDirs \/ UNCHANGED vars
      PROVE  starts' = starts /\ mode' = mode /\ UNCHANGED <<job, Counts>>
  BY <1>8 DEF ProcessDies, LockUser, UnlockInChild, UnlockSerially, MountQueueWorkerThread,
              UpdateDataGroupDirs, vars, Counts, LockVars
<1>9. ASSUME Crash \/ StopAppSpawn
      PROVE  ~Up' /\ mode' = mode /\ (UNCHANGED <<job, Counts>> \/ StopAppSpawn)
  BY <1>9 DEF Crash, StopAppSpawn, Up, Counts, LockVars
<1>10. ASSUME Restart
       PROVE  mode' = mode
  BY <1>10 DEF Restart
<1>11. starts' = starts => (Up' <=> Up)
  BY DEF Up
<1>12. QED
  BY <1>1, <1>2, <1>5, <1>6, <1>7, <1>8, <1>9, <1>10, <1>11 DEF Next

(***************************************************************************)
(* The records stay well formed.                                           *)
(***************************************************************************)
\* MsgOf depends on the state only through the mode.
LEMMA MsgOfKept ==
  ASSUME mode' = mode
  PROVE  FullRecord' = FullRecord /\ \A r : MsgOf(r)' = MsgOf(r)
<1>1. \A r : Special(r)' = Special(r)
  BY DEF Special
<1>3. \A r : MsgOf(r)' = MsgOf(r)
  BY <1>1 DEF MsgOf, OriginalMsg, BuildAndReplaceMessage, RebuiltUid
<1>4. FullRecord' = FullRecord
  BY <1>3 DEF FullRecord
<1>5. QED
  BY <1>3, <1>4

\* No process, no record.
LEMMA JobInit == Init => JobInv
  BY DEF Init, JobInv, Bare, None, Holding

\* Whatever ends a record replaces it by a bare one.
LEMMA JobNext == JobInv /\ DiedAreDead /\ [Next]_vars => JobInv'
<1> SUFFICES ASSUME JobInv, DiedAreDead, [Next]_vars PROVE JobInv'
  OBVIOUS
<1>1. mode' = mode
  BY StepKinds
<1>2. FullRecord' = FullRecord
  BY <1>1, MsgOfKept
<1>3. \A st \in {"none", "died", "gone"} : Down(st) \in Bare /\ Down(st).st = st
  BY DEF Down, Bare
<1>4. job \in [Jobs -> Bare \union FullRecord]
  BY DEF JobInv
<1>5. ASSUME NEW j \in Jobs, NEW st \in {"none", "died", "gone"}, job' = [job EXCEPT ![j] = Down(st)]
      PROVE  JobInv'
  <2>1. job' \in [Jobs -> Bare \union FullRecord]
    BY <1>3, <1>4, <1>5
  <2>2. \A i \in Jobs : Holding(i)' => Holding(i) /\ job'[i] = job[i]
    BY <1>3, <1>4, <1>5 DEF Holding
  <2>3. QED
    BY <1>2, <2>1, <2>2 DEF JobInv
<1>6. ASSUME NEW j \in Jobs, NEW r \in Requests, NEW d \in RebuildMessageFromSPM(r), Enters(j, r, d)
      PROVE  JobInv'
  <2>1. PICK st \in {"spawning", "running"}, lk \in BOOLEAN :
          job' = [job EXCEPT ![j] = [st |-> st, req |-> r, msg |-> d.msg, refs |-> d.refs, lockRef |-> lk]]
    BY <1>6 DEF Enters
  <2>2. PICK x : x = [st |-> st, req |-> r, msg |-> d.msg, refs |-> d.refs, lockRef |-> lk]
    OBVIOUS
  <2>3. x \in FullRecord /\ x.msg.uid = x.req.uid
    <3>1. d.refs \in SUBSET Counted /\ d.msg \in MsgOf(r) /\ d.msg.uid = r.uid
      BY RebuildFacts
    <3>2. d.msg \in UNION {MsgOf(q) : q \in Requests}
      BY <3>1
    <3>3. QED
      BY <2>2, <3>1, <3>2 DEF FullRecord
  <2>4. job' \in [Jobs -> Bare \union FullRecord]
    BY <1>4, <2>1, <2>2, <2>3
  <2>5. \A i \in Jobs : job'[i] = IF i = j THEN x ELSE job[i]
    BY <1>4, <2>1, <2>2
  <2>6. \A i \in Jobs : Holding(i)' => job'[i] \in FullRecord /\ job'[i].msg.uid = job'[i].req.uid
    BY <2>3, <2>5 DEF JobInv, Holding
  <2>7. QED
    BY <1>2, <2>4, <2>6 DEF JobInv
<1>7. ASSUME NEW j \in Jobs, Restates(j)
      PROVE  JobInv'
  <2>1. CASE Holding(j) /\ job' = [job EXCEPT ![j].st = "running"]
    <3>1. PICK x : x = [job[j] EXCEPT !.st = "running"]
      OBVIOUS
    <3>2. job[j] \in FullRecord /\ job[j].msg.uid = job[j].req.uid
      BY <2>1 DEF JobInv
    <3>3. x \in FullRecord /\ x.msg = job[j].msg /\ x.req = job[j].req
      BY <3>1, <3>2 DEF FullRecord
    <3>4. job' \in [Jobs -> Bare \union FullRecord] /\ \A i \in Jobs : job'[i] = IF i = j THEN x ELSE job[i]
      BY <1>4, <2>1, <3>1, <3>3
    <3>5. \A i \in Jobs : Holding(i)' => job'[i] \in FullRecord /\ job'[i].msg.uid = job'[i].req.uid
      BY <3>2, <3>3, <3>4 DEF JobInv, Holding
    <3>6. QED
      BY <1>2, <3>4, <3>5 DEF JobInv
  <2>2. CASE ~Holding(j) /\ job' = [job EXCEPT ![j].st = "gone"]
    <3>1. job[j] \in Bare
      BY <2>2, BareOrHolding
    <3>2. [job[j] EXCEPT !.st = "gone"] = Down("gone")
      BY <3>1 DEF Bare, Down
    <3>3. job' = [job EXCEPT ![j] = Down("gone")]
      BY <2>2, <3>2
    <3>4. QED
      BY <1>5, <3>3
  <2>3. QED
    BY <1>7, <2>1, <2>2 DEF Restates
<1>8. CASE StopAppSpawn
  <2>1. job' = [j \in Jobs |-> IF j \in {i \in Jobs : job[i].st = "running"} THEN Down("gone") ELSE job[j]]
    BY <1>8 DEF StopAppSpawn, Down
  <2>2. job' \in [Jobs -> Bare \union FullRecord] /\ \A i \in Jobs : Holding(i)' => job'[i] = job[i] /\ Holding(i)
    BY <1>3, <1>4, <2>1 DEF Holding
  <2>3. QED
    BY <1>2, <2>2 DEF JobInv
<1>9. CASE Restart
  <2>1. job' = [j \in Jobs |-> IF job[j] = None THEN None ELSE Down("gone")]
    BY <1>9 DEF Restart, Down
  <2>2. None = Down("none")
    BY DEF None, Down
  <2>3. job' \in [Jobs -> Bare \union FullRecord] /\ \A i \in Jobs : ~Holding(i)'
    BY <1>3, <2>1, <2>2 DEF Holding
  <2>4. QED
    BY <1>2, <2>3 DEF JobInv
<1>10. ASSUME job' = job PROVE JobInv'
  <2>1. \A i \in Jobs : Holding(i)' <=> Holding(i)
    BY <1>10 DEF Holding
  <2>2. QED
    BY <1>2, <1>10, <2>1 DEF JobInv
<1>11. ASSUME NEW j \in Jobs, NEW r \in Requests, NEW d \in RebuildMessageFromSPM(r),
              FailsAtOnce(j, r, d) \/ Drops(j, r, d)
       PROVE  JobInv'
  BY <1>5, <1>11 DEF FailsAtOnce, Drops
<1>12. ASSUME NEW j \in Jobs, Leaves(j)
       PROVE  JobInv'
  BY <1>5, <1>12 DEF Leaves
<1>13. QED
  BY <1>6, <1>7, <1>8, <1>9, <1>10, <1>11, <1>12, StepKinds

(***************************************************************************)
(* Counting.  Holders and the lock holders change by at most the one       *)
(* process of the step.                                                    *)
(***************************************************************************)
\* A process joins a set, or leaves it.
LEMMA CountOne ==
  ASSUME NEW A \in SUBSET Jobs, NEW B \in SUBSET Jobs, NEW j \in Jobs,
         \A i \in Jobs \ {j} : i \in A <=> i \in B
  PROVE  /\ Cardinality(A) \in Nat /\ Cardinality(B) \in Nat
         /\ (j \in A <=> j \in B) => Cardinality(B) = Cardinality(A)
         /\ j \notin A /\ j \in B => Cardinality(B) = Cardinality(A) + 1
         /\ j \in A /\ j \notin B => Cardinality(B) = Cardinality(A) - 1
<1>1. IsFiniteSet(A) /\ IsFiniteSet(B)
  BY ResourcesAssumption, FS_Subset
<1>2. Cardinality(A) \in Nat /\ Cardinality(B) \in Nat
  BY <1>1, FS_CardinalityType
<1>3. (j \in A <=> j \in B) => A = B
  OBVIOUS
<1>4. j \notin A /\ j \in B => B = A \union {j}
  OBVIOUS
<1>5. j \in A /\ j \notin B => B = A \ {j}
  OBVIOUS
<1>6. j \notin A => Cardinality(A \union {j}) = Cardinality(A) + 1
  BY <1>1, FS_AddElement
<1>7. j \in A => Cardinality(A \ {j}) = Cardinality(A) - 1
  BY <1>1, FS_RemoveElement
<1>8. QED
  BY <1>2, <1>3, <1>4, <1>5, <1>6, <1>7

\* The references given back and those the kernel kept are the ones held.
LEMMA KeySplit ==
  ASSUME NEW refs \in SUBSET Counted, NEW f \in SUBSET refs, NEW r \in Requests
  PROVE  /\ KeysOf(refs, r, r.uid) \subseteq Keys
         /\ \A k \in Keys : k \in KeysOf(refs, r, r.uid) <=>
              (k \in KeysOf(refs \ f, r, r.uid) \/ k \in KeysOf(refs \intersect f, r, r.uid))
         /\ \A k \in Keys : ~(k \in KeysOf(refs \ f, r, r.uid) /\ k \in KeysOf(refs \intersect f, r, r.uid))
<1>1. <<"token", r.token>> \in Keys /\ <<"uid", r.uid>> \in Keys
  BY DEF Keys
<1>2. \A x \in Counted : x = "token" \/ x = "uid"
  BY DEF Counted
<1>3. Key("token", r, r.uid) = <<"token", r.token>> /\ Key("uid", r, r.uid) = <<"uid", r.uid>>
  BY DEF Key
<1>4. \A x, y \in Counted : Key(x, r, r.uid) = Key(y, r, r.uid) => x = y
  BY <1>2, <1>3
<1>5. \A x \in Counted : Key(x, r, r.uid) \in Keys
  BY <1>1, <1>2, <1>3
<1>6. QED
  BY <1>4, <1>5 DEF KeysOf

\* One count of Inc and of Dec.
LEMMA IncDec ==
  ASSUME NEW c \in [Keys -> Nat], NEW K
  PROVE  /\ Inc(c, K) \in [Keys -> Nat] /\ Dec(c, K) \in [Keys -> Nat]
         /\ \A k \in Keys : Inc(c, K)[k] = IF k \in K THEN c[k] + 1 ELSE c[k]
         /\ \A k \in Keys : Dec(c, K)[k] = IF k \in K /\ c[k] > 0 THEN c[k] - 1 ELSE c[k]
  BY DEF Inc, Dec

LockHolders(p) == {j \in Jobs : Holding(j) /\ job[j].lockRef /\ job[j].req.path = p}

\* A step that replaces one record changes the holders by that process.
LEMMA HoldersStep ==
  ASSUME JobInv, NEW j \in Jobs, NEW x, job' = [job EXCEPT ![j] = x], NEW k, NEW p
  PROVE  /\ Holders(k) \in SUBSET Jobs /\ Holders(k)' \in SUBSET Jobs
         /\ LockHolders(p) \in SUBSET Jobs /\ LockHolders(p)' \in SUBSET Jobs
         /\ \A i \in Jobs \ {j} : /\ i \in Holders(k) <=> i \in Holders(k)'
                                  /\ i \in LockHolders(p) <=> i \in LockHolders(p)'
         /\ j \in Holders(k)' <=> /\ x.st \in {"spawning", "running"}
                                  /\ k \in KeysOf(x.refs, x.req, x.req.uid)
         /\ j \in LockHolders(p)' <=> x.st \in {"spawning", "running"} /\ x.lockRef /\ x.req.path = p
<1>1. \A i \in Jobs : job'[i] = IF i = j THEN x ELSE job[i]
  BY DEF JobInv
<1>2. QED
  BY <1>1 DEF Holders, LockHolders, Holding

(***************************************************************************)
(* SpmRefsExact.                                                           *)
(***************************************************************************)
CountInv ==
  Up => /\ cnt \in [Keys -> Nat] /\ lost \in [Keys -> Nat]
        /\ \A k \in Keys : cnt[k] = Cardinality(Holders(k)) + lost[k]

\* With no record nothing is counted.
LEMMA CountsOfNobody ==
  ASSUME cnt = NoCounts, lost = NoCounts, \A j \in Jobs : ~Holding(j)
  PROVE  CountInv
<1>1. \A k \in Keys : Holders(k) = {}
  BY DEF Holders
<1>2. \A k \in Keys : cnt[k] = 0 /\ lost[k] = 0
  BY DEF NoCounts
<1>3. cnt \in [Keys -> Nat] /\ lost \in [Keys -> Nat]
  BY DEF NoCounts
<1>4. QED
  BY <1>1, <1>2, <1>3, FS_EmptySet DEF CountInv

\* A record takes over, or is dropped with, the references of a request.
LEMMA CountEnter ==
  ASSUME JobInv, CountInv, Up, NEW j \in Jobs, NEW r \in Requests, NEW d \in RebuildMessageFromSPM(r),
         Enters(j, r, d) \/ FailsAtOnce(j, r, d) \/ Drops(j, r, d)
  PROVE  CountInv'
<1>1. /\ cnt \in [Keys -> Nat] /\ lost \in [Keys -> Nat]
      /\ \A k \in Keys : cnt[k] = Cardinality(Holders(k)) + lost[k]
  BY DEF CountInv
<1>2. PICK K : K = KeysOf(d.refs, r, r.uid)
  OBVIOUS
<1>3. PICK all \in SUBSET Counted : /\ d.refs \in SUBSET all
                                    /\ d.c = Inc(cnt, KeysOf(all, r, r.uid))
                                    /\ d.lost = Inc(lost, KeysOf(all \ d.refs, r, r.uid))
  BY RebuildFacts
<1>4. /\ d.c \in [Keys -> Nat] /\ d.lost \in [Keys -> Nat]
      /\ \A k \in Keys : d.c[k] = Cardinality(Holders(k)) + d.lost[k] + (IF k \in K THEN 1 ELSE 0)
  <2>1. PICK A, L : A = KeysOf(all, r, r.uid) /\ L = KeysOf(all \ d.refs, r, r.uid)
    OBVIOUS
  <2>2. \A k \in Keys : (k \in A <=> k \in L \/ k \in K) /\ ~(k \in L /\ k \in K)
    <3>1. all \intersect d.refs = d.refs
      BY <1>3
    <3>2. QED
      BY <1>2, <1>3, <2>1, <3>1, KeySplit
  <2>3. /\ d.c \in [Keys -> Nat] /\ d.lost \in [Keys -> Nat]
        /\ \A k \in Keys : d.c[k] = IF k \in A THEN cnt[k] + 1 ELSE cnt[k]
        /\ \A k \in Keys : d.lost[k] = IF k \in L THEN lost[k] + 1 ELSE lost[k]
    BY <1>1, <1>3, <2>1, IncDec
  <2>4. \A k \in Keys : Cardinality(Holders(k)) \in Nat
    <3>1. \A k \in Keys : Holders(k) \in SUBSET Jobs
      BY DEF Holders
    <3>2. QED
      BY <3>1, ResourcesAssumption, FS_Subset, FS_CardinalityType
  <2>5. QED
    BY <1>1, <2>2, <2>3, <2>4
<1>a. d.refs \in SUBSET Counted /\ d.msg.uid = r.uid
  BY <1>3, RebuildFacts
<1>5. \A k \in Keys : j \notin Holders(k) /\ Holders(k) \in SUBSET Jobs
  BY DEF Holders, Enters, FailsAtOnce, Drops
<1>6. CASE Enters(j, r, d)
  <2>0. PICK st \in {"spawning", "running"}, lk \in BOOLEAN :
          job' = [job EXCEPT ![j] = [st |-> st, req |-> r, msg |-> d.msg, refs |-> d.refs, lockRef |-> lk]]
    BY <1>6 DEF Enters
  <2>x. PICK x : x = [st |-> st, req |-> r, msg |-> d.msg, refs |-> d.refs, lockRef |-> lk]
    OBVIOUS
  <2>1. /\ job' = [job EXCEPT ![j] = x] /\ x.st \in {"spawning", "running"}
        /\ x.req = r /\ x.refs = d.refs
    BY <2>0, <2>x
  <2>2. ASSUME NEW k \in Keys
        PROVE  cnt'[k] = Cardinality(Holders(k)') + lost'[k]
    <3>1. /\ Holders(k)' \in SUBSET Jobs
          /\ \A i \in Jobs \ {j} : i \in Holders(k) <=> i \in Holders(k)'
          /\ j \in Holders(k)' <=> k \in K
      BY <1>2, <2>1, HoldersStep
    <3>2. /\ Cardinality(Holders(k)) \in Nat /\ Cardinality(Holders(k)') \in Nat
          /\ k \notin K => Cardinality(Holders(k)') = Cardinality(Holders(k))
          /\ k \in K => Cardinality(Holders(k)') = Cardinality(Holders(k)) + 1
      BY <1>5, <3>1, CountOne
    <3>3. cnt' = d.c /\ lost' = d.lost
      BY <1>6 DEF Enters
    <3>4. QED
      BY <1>4, <3>2, <3>3
  <2>3. QED
    BY <1>4, <1>6, <2>2 DEF CountInv, Enters
<1>7. CASE FailsAtOnce(j, r, d) \/ Drops(j, r, d)
  <2>1. \A k \in Keys : Cardinality(Holders(k)') = Cardinality(Holders(k)) /\ Cardinality(Holders(k)) \in Nat
    <3>1. job' = [job EXCEPT ![j] = Down("gone")] /\ Down("gone").st = "gone"
      BY <1>7 DEF FailsAtOnce, Drops, Down
    <3>2. \A k \in Keys : /\ Holders(k)' \in SUBSET Jobs /\ j \notin Holders(k)'
                          /\ \A i \in Jobs \ {j} : i \in Holders(k) <=> i \in Holders(k)'
      BY <3>1, HoldersStep
    <3>3. QED
      BY <1>5, <3>2, CountOne
  <2>2. CASE Drops(j, r, d)
    <3>1. cnt' = d.c /\ lost' = Inc(d.lost, K)
      BY <1>2, <2>2 DEF Drops
    <3>2. /\ lost' \in [Keys -> Nat]
          /\ \A k \in Keys : lost'[k] = IF k \in K THEN d.lost[k] + 1 ELSE d.lost[k]
      BY <1>4, <3>1, IncDec
    <3>3. \A k \in Keys : cnt'[k] = Cardinality(Holders(k)') + lost'[k]
      BY <1>4, <2>1, <3>1, <3>2
    <3>4. QED
      BY <1>4, <3>1, <3>2, <3>3 DEF CountInv
  <2>3. CASE FailsAtOnce(j, r, d)
    <3>1. PICK f \in SUBSET d.refs : /\ cnt' = Dec(d.c, KeysOf(d.refs \ f, r, r.uid))
                                     /\ lost' = Inc(d.lost, KeysOf(d.refs \intersect f, r, r.uid))
      BY <1>a, <2>3 DEF FailsAtOnce, GiveBack
    <3>2. PICK G, L : G = KeysOf(d.refs \ f, r, r.uid) /\ L = KeysOf(d.refs \intersect f, r, r.uid)
      OBVIOUS
    <3>3. \A k \in Keys : (k \in K <=> k \in G \/ k \in L) /\ ~(k \in G /\ k \in L)
      BY <1>2, <1>a, <3>2, KeySplit
    <3>4. /\ lost' \in [Keys -> Nat] /\ cnt' \in [Keys -> Nat]
          /\ \A k \in Keys : lost'[k] = IF k \in L THEN d.lost[k] + 1 ELSE d.lost[k]
          /\ \A k \in Keys : cnt'[k] = IF k \in G /\ d.c[k] > 0 THEN d.c[k] - 1 ELSE d.c[k]
      BY <1>4, <3>1, <3>2, IncDec
    <3>5. \A k \in Keys : cnt'[k] = Cardinality(Holders(k)') + lost'[k]
      BY <1>4, <2>1, <3>3, <3>4
    <3>6. QED
      BY <3>4, <3>5 DEF CountInv
  <2>4. QED
    BY <1>7, <2>2, <2>3
<1>8. QED
  BY <1>6, <1>7

\* A record gives back what it holds, under the uid it was counted with.
LEMMA CountLeave ==
  ASSUME JobInv, CountInv, Up, NEW j \in Jobs, Leaves(j)
  PROVE  CountInv'
<1>1. /\ cnt \in [Keys -> Nat] /\ lost \in [Keys -> Nat]
      /\ \A k \in Keys : cnt[k] = Cardinality(Holders(k)) + lost[k]
  BY DEF CountInv
<1>2. job[j] \in FullRecord /\ job[j].msg.uid = job[j].req.uid /\ Holding(j)
  BY DEF JobInv, Leaves
<1>3. PICK r \in Requests, refs \in SUBSET Counted : r = job[j].req /\ refs = job[j].refs
  BY <1>2 DEF FullRecord
<1>4. PICK f \in SUBSET refs : /\ cnt' = Dec(cnt, KeysOf(refs \ f, r, r.uid))
                               /\ lost' = Inc(lost, KeysOf(refs \intersect f, r, r.uid))
  BY <1>2, <1>3 DEF Leaves, GiveBack
<1>5. PICK K, G, L : /\ K = KeysOf(refs, r, r.uid)
                     /\ G = KeysOf(refs \ f, r, r.uid) /\ L = KeysOf(refs \intersect f, r, r.uid)
  OBVIOUS
<1>6. \A k \in Keys : (k \in K <=> k \in G \/ k \in L) /\ ~(k \in G /\ k \in L)
  BY <1>5, KeySplit
<1>7. /\ lost' \in [Keys -> Nat] /\ cnt' \in [Keys -> Nat]
      /\ \A k \in Keys : lost'[k] = IF k \in L THEN lost[k] + 1 ELSE lost[k]
      /\ \A k \in Keys : cnt'[k] = IF k \in G /\ cnt[k] > 0 THEN cnt[k] - 1 ELSE cnt[k]
  BY <1>1, <1>4, <1>5, IncDec
<1>8. ASSUME NEW k \in Keys
      PROVE  cnt'[k] = Cardinality(Holders(k)') + lost'[k]
  <2>1. PICK st \in {"died", "gone"} : job' = [job EXCEPT ![j] = Down(st)] /\ Down(st).st = st
    BY DEF Leaves, Down
  <2>2. /\ Holders(k) \in SUBSET Jobs /\ Holders(k)' \in SUBSET Jobs /\ j \notin Holders(k)'
        /\ \A i \in Jobs \ {j} : i \in Holders(k) <=> i \in Holders(k)'
    BY <2>1, HoldersStep
  <2>3. j \in Holders(k) <=> k \in K
    BY <1>2, <1>3, <1>5 DEF Holders
  <2>4. /\ Cardinality(Holders(k)) \in Nat /\ Cardinality(Holders(k)') \in Nat
        /\ k \notin K => Cardinality(Holders(k)') = Cardinality(Holders(k))
        /\ k \in K => Cardinality(Holders(k)') = Cardinality(Holders(k)) - 1
    BY <2>2, <2>3, CountOne
  <2>5. QED
    BY <1>1, <1>6, <1>7, <2>4
<1>9. QED
  BY <1>7, <1>8 DEF CountInv

\* A record that only changes its status holds what it held.
LEMMA HoldersKept ==
  ASSUME JobInv, (\E j \in Jobs : Restates(j)) \/ UNCHANGED job
  PROVE  \A i \in Jobs : /\ Holding(i)' <=> Holding(i)
                         /\ Holding(i) => /\ job'[i].req = job[i].req /\ job'[i].refs = job[i].refs
                                          /\ job'[i].lockRef = job[i].lockRef
<1>1. ASSUME NEW j \in Jobs, Holding(j), job' = [job EXCEPT ![j].st = "running"], NEW i \in Jobs
      PROVE  /\ Holding(i)' <=> Holding(i)
             /\ Holding(i) => /\ job'[i].req = job[i].req /\ job'[i].refs = job[i].refs
                              /\ job'[i].lockRef = job[i].lockRef
  <2>1. PICK x : x = [job[j] EXCEPT !.st = "running"]
    OBVIOUS
  <2>2. job[j] \in FullRecord
    BY <1>1 DEF JobInv
  <2>3. /\ x.st = "running" /\ x.req = job[j].req /\ x.refs = job[j].refs
        /\ x.lockRef = job[j].lockRef
    BY <2>1, <2>2 DEF FullRecord
  <2>4. job'[i] = IF i = j THEN x ELSE job[i]
    BY <1>1, <2>1 DEF JobInv
  <2>5. QED
    BY <1>1, <2>3, <2>4 DEF Holding
<1>2. ASSUME NEW j \in Jobs, ~Holding(j), job' = [job EXCEPT ![j].st = "gone"], NEW i \in Jobs
      PROVE  (Holding(i)' <=> Holding(i)) /\ (Holding(i) => job'[i] = job[i])
  <2>1. PICK x : x = [job[j] EXCEPT !.st = "gone"]
    OBVIOUS
  <2>2. x.st = "gone"
    BY <1>2, <2>1, BareOrHolding DEF Bare
  <2>3. job'[i] = IF i = j THEN x ELSE job[i]
    BY <1>2, <2>1 DEF JobInv
  <2>4. QED
    BY <1>2, <2>2, <2>3 DEF Holding
<1>3. ASSUME UNCHANGED job, NEW i \in Jobs
      PROVE  (Holding(i)' <=> Holding(i)) /\ job'[i] = job[i]
  BY <1>3 DEF Holding
<1>4. QED
  BY <1>1, <1>2, <1>3 DEF Restates

\* No step forgets or returns twice a reference of the kernel's SPM entry.
LEMMA CountNext == JobInv /\ DiedAreDead /\ CountInv /\ [Next]_vars => CountInv'
<1> SUFFICES ASSUME JobInv, DiedAreDead, CountInv, [Next]_vars, Up' PROVE CountInv'
  BY DEF CountInv
<1>1. CASE Restart
  <2>1. \A j \in Jobs : ~Holding(j)'
    <3>1. \A j \in Jobs : job'[j] = IF job[j] = None THEN None ELSE Down("gone")
      BY <1>1 DEF Restart, Down
    <3>2. QED
      BY <3>1 DEF Holding, None, Down
  <2>2. cnt' = NoCounts /\ lost' = NoCounts
    BY <1>1 DEF Restart, SpmPreloadHook
  <2>3. \A k \in Keys : Holders(k)' = {}
    BY <2>1 DEF Holders
  <2>4. \A k \in Keys : cnt'[k] = 0 /\ lost'[k] = 0
    BY <2>2 DEF NoCounts
  <2>5. cnt' \in [Keys -> Nat] /\ lost' \in [Keys -> Nat]
    BY <2>2 DEF NoCounts
  <2>6. QED
    BY <2>3, <2>4, <2>5, FS_EmptySet DEF CountInv
<1>2. CASE ~Restart
  <2>1. Up /\ ~StopAppSpawn
    BY <1>2, StepKinds DEF StopAppSpawn, Up
  <2>2. ASSUME (\E j \in Jobs : Restates(j)) \/ UNCHANGED job, UNCHANGED Counts
        PROVE  CountInv'
    <3>1. \A i \in Jobs : /\ Holding(i)' <=> Holding(i)
                          /\ Holding(i) => job'[i].req = job[i].req /\ job'[i].refs = job[i].refs
      BY <2>2, HoldersKept
    <3>2. \A k \in Keys : Holders(k)' = Holders(k)
      BY <3>1 DEF Holders
    <3>3. QED
      BY <2>1, <2>2, <3>2 DEF CountInv, Counts
  <2>3. QED
    BY <1>2, <2>1, <2>2, StepKinds, CountEnter, CountLeave DEF Restates
<1>3. QED
  BY <1>1, <1>2

(***************************************************************************)
(* LockRefsExact.                                                          *)
(***************************************************************************)
LockInv ==
  Up => /\ lockMap \in [Paths -> Nat] /\ lockLeak \in [Paths -> Nat]
        /\ \A p \in Paths : lockMap[p] = Cardinality(LockHolders(p)) + lockLeak[p]

\* One reference more, or one less.
LEMMA LockRef ==
  ASSUME NEW m \in [Paths -> Nat], NEW r \in Requests, NEW lk \in BOOLEAN
  PROVE  /\ Took(lk, m, r) \in [Paths -> Nat]
         /\ \A p \in Paths : Took(lk, m, r)[p] = IF lk /\ p = r.path THEN m[p] + 1 ELSE m[p]
         /\ LET dn == IF lk THEN ReleaseLockBundleRef(m, r.path) ELSE m
            IN  /\ dn \in [Paths -> Nat]
                /\ \A p \in Paths : dn[p] = IF lk /\ p = r.path /\ m[p] > 0 THEN m[p] - 1 ELSE m[p]
<1>1. r.path \in Paths
  BY DEF Paths
<1>2. QED
  BY <1>1 DEF Took, AddLockBundleRef, ReleaseLockBundleRef

\* The lock reference of a request goes to its record, or back.
LEMMA LockEnter ==
  ASSUME JobInv, LockInv, Up, NEW j \in Jobs, NEW r \in Requests, NEW d \in RebuildMessageFromSPM(r),
         Enters(j, r, d) \/ FailsAtOnce(j, r, d) \/ Drops(j, r, d)
  PROVE  LockInv'
<1>1. /\ lockMap \in [Paths -> Nat] /\ lockLeak \in [Paths -> Nat]
      /\ \A p \in Paths : lockMap[p] = Cardinality(LockHolders(p)) + lockLeak[p]
  BY DEF LockInv
<1>2. \A p \in Paths : j \notin LockHolders(p) /\ LockHolders(p) \in SUBSET Jobs
  BY DEF LockHolders, Enters, FailsAtOnce, Drops
<1>3. CASE Enters(j, r, d)
  <2>1. PICK st \in {"spawning", "running"}, lk \in BOOLEAN, leak \in BOOLEAN :
          /\ job' = [job EXCEPT ![j] = [st |-> st, req |-> r, msg |-> d.msg, refs |-> d.refs, lockRef |-> lk]]
          /\ lockMap' = Took(lk \/ leak, lockMap, r) /\ lockLeak' = Took(leak, lockLeak, r)
          /\ ~(lk /\ leak)
    BY <1>3 DEF Enters
  <2>2. PICK x : x = [st |-> st, req |-> r, msg |-> d.msg, refs |-> d.refs, lockRef |-> lk]
    OBVIOUS
  <2>3. /\ job' = [job EXCEPT ![j] = x] /\ x.st \in {"spawning", "running"}
        /\ x.req = r /\ x.lockRef = lk
    BY <2>1, <2>2
  <2>4. /\ lockMap' \in [Paths -> Nat] /\ lockLeak' \in [Paths -> Nat]
        /\ \A p \in Paths : lockMap'[p] = IF (lk \/ leak) /\ p = r.path THEN lockMap[p] + 1 ELSE lockMap[p]
        /\ \A p \in Paths : lockLeak'[p] = IF leak /\ p = r.path THEN lockLeak[p] + 1 ELSE lockLeak[p]
    BY <1>1, <2>1, LockRef
  <2>5. ASSUME NEW p \in Paths
        PROVE  lockMap'[p] = Cardinality(LockHolders(p)') + lockLeak'[p]
    <3>1. /\ LockHolders(p)' \in SUBSET Jobs
          /\ \A i \in Jobs \ {j} : i \in LockHolders(p) <=> i \in LockHolders(p)'
          /\ j \in LockHolders(p)' <=> lk /\ p = r.path
      BY <2>3, HoldersStep
    <3>2. /\ Cardinality(LockHolders(p)) \in Nat
          /\ ~(lk /\ p = r.path) => Cardinality(LockHolders(p)') = Cardinality(LockHolders(p))
          /\ lk /\ p = r.path => Cardinality(LockHolders(p)') = Cardinality(LockHolders(p)) + 1
      BY <1>2, <3>1, CountOne
    <3>3. QED
      BY <1>1, <2>1, <2>4, <3>2
  <2>6. QED
    BY <2>4, <2>5 DEF LockInv
<1>4. CASE FailsAtOnce(j, r, d) \/ Drops(j, r, d)
  <2>1. \A p \in Paths : Cardinality(LockHolders(p)') = Cardinality(LockHolders(p))
    <3>1. job' = [job EXCEPT ![j] = Down("gone")] /\ Down("gone").st = "gone"
      BY <1>4 DEF FailsAtOnce, Drops, Down
    <3>2. \A p \in Paths : /\ LockHolders(p)' \in SUBSET Jobs /\ j \notin LockHolders(p)'
                           /\ \A i \in Jobs \ {j} : i \in LockHolders(p) <=> i \in LockHolders(p)'
      BY <3>1, HoldersStep
    <3>3. QED
      BY <1>2, <3>2, CountOne
  <2>2. /\ lockMap' \in [Paths -> Nat] /\ lockLeak' \in [Paths -> Nat]
        /\ \A p \in Paths : lockMap'[p] - lockLeak'[p] = lockMap[p] - lockLeak[p]
    <3>1. CASE Drops(j, r, d)
      BY <1>1, <3>1 DEF Drops
    <3>2. CASE FailsAtOnce(j, r, d)
      <4>1. PICK lk \in BOOLEAN, leak \in BOOLEAN :
              /\ lockMap' = (IF lk THEN ReleaseLockBundleRef(Took(lk \/ leak, lockMap, r), r.path)
                             ELSE Took(lk \/ leak, lockMap, r))
              /\ lockLeak' = Took(leak, lockLeak, r) /\ ~(lk /\ leak)
        BY <3>2 DEF FailsAtOnce, GiveBack
      <4>2. PICK up : up = Took(lk \/ leak, lockMap, r)
        OBVIOUS
      <4>3. /\ up \in [Paths -> Nat] /\ lockLeak' \in [Paths -> Nat]
            /\ \A p \in Paths : up[p] = IF (lk \/ leak) /\ p = r.path THEN lockMap[p] + 1 ELSE lockMap[p]
            /\ \A p \in Paths : lockLeak'[p] = IF leak /\ p = r.path THEN lockLeak[p] + 1 ELSE lockLeak[p]
        BY <1>1, <4>1, <4>2, LockRef
      <4>4. /\ lockMap' \in [Paths -> Nat]
            /\ \A p \in Paths : lockMap'[p] = IF lk /\ p = r.path /\ up[p] > 0 THEN up[p] - 1 ELSE up[p]
        BY <4>1, <4>2, <4>3, LockRef
      <4>5. QED
        BY <1>1, <4>1, <4>3, <4>4
    <3>3. QED
      BY <1>4, <3>1, <3>2
  <2>3. \A p \in Paths : Cardinality(LockHolders(p)) \in Nat
    BY <1>2, ResourcesAssumption, FS_Subset, FS_CardinalityType
  <2>4. QED
    BY <1>1, <2>1, <2>2, <2>3 DEF LockInv
<1>5. QED
  BY <1>3, <1>4

\* A record gives its lock reference back.
LEMMA LockLeave ==
  ASSUME JobInv, LockInv, Up, NEW j \in Jobs, Leaves(j)
  PROVE  LockInv'
<1>1. /\ lockMap \in [Paths -> Nat] /\ lockLeak \in [Paths -> Nat]
      /\ \A p \in Paths : lockMap[p] = Cardinality(LockHolders(p)) + lockLeak[p]
  BY DEF LockInv
<1>2. job[j] \in FullRecord /\ Holding(j)
  BY DEF JobInv, Leaves
<1>3. PICK r \in Requests, lk \in BOOLEAN : r = job[j].req /\ lk = job[j].lockRef
  BY <1>2 DEF FullRecord
<1>4. lockMap' = (IF lk THEN ReleaseLockBundleRef(lockMap, r.path) ELSE lockMap) /\ lockLeak' = lockLeak
  BY <1>3 DEF Leaves, GiveBack
<1>5. /\ lockMap' \in [Paths -> Nat]
      /\ \A p \in Paths : lockMap'[p] = IF lk /\ p = r.path /\ lockMap[p] > 0 THEN lockMap[p] - 1 ELSE lockMap[p]
  BY <1>1, <1>4, LockRef
<1>6. ASSUME NEW p \in Paths
      PROVE  lockMap'[p] = Cardinality(LockHolders(p)') + lockLeak'[p]
  <2>1. PICK st \in {"died", "gone"} : job' = [job EXCEPT ![j] = Down(st)] /\ Down(st).st = st
    BY DEF Leaves, Down
  <2>2. /\ LockHolders(p) \in SUBSET Jobs /\ LockHolders(p)' \in SUBSET Jobs /\ j \notin LockHolders(p)'
        /\ \A i \in Jobs \ {j} : i \in LockHolders(p) <=> i \in LockHolders(p)'
    BY <2>1, HoldersStep
  <2>3. j \in LockHolders(p) <=> lk /\ p = r.path
    BY <1>2, <1>3 DEF LockHolders
  <2>4. /\ Cardinality(LockHolders(p)) \in Nat /\ Cardinality(LockHolders(p)') \in Nat
        /\ ~(lk /\ p = r.path) => Cardinality(LockHolders(p)') = Cardinality(LockHolders(p))
        /\ lk /\ p = r.path => Cardinality(LockHolders(p)') = Cardinality(LockHolders(p)) - 1
    BY <2>2, <2>3, CountOne
  <2>5. QED
    BY <1>1, <1>4, <1>5, <2>4
<1>7. QED
  BY <1>1, <1>4, <1>5, <1>6 DEF LockInv

\* No step forgets or returns twice the reference of a lock path.
LEMMA LockNext == JobInv /\ DiedAreDead /\ LockInv /\ [Next]_vars => LockInv'
<1> SUFFICES ASSUME JobInv, DiedAreDead, LockInv, [Next]_vars, Up' PROVE LockInv'
  BY DEF LockInv
<1>1. CASE Restart
  <2>1. \A j \in Jobs : ~Holding(j)'
    <3>1. \A j \in Jobs : job'[j] = IF job[j] = None THEN None ELSE Down("gone")
      BY <1>1 DEF Restart, Down
    <3>2. QED
      BY <3>1 DEF Holding, None, Down
  <2>2. \A p \in Paths : LockHolders(p)' = {}
    BY <2>1 DEF LockHolders
  <2>3. lockMap' = [p \in Paths |-> 0] /\ lockLeak' = [p \in Paths |-> 0]
    BY <1>1 DEF Restart
  <2>4. QED
    BY <2>2, <2>3, FS_EmptySet DEF LockInv
<1>2. CASE ~Restart
  <2>1. Up /\ ~StopAppSpawn
    BY <1>2, StepKinds DEF StopAppSpawn, Up
  <2>2. ASSUME (\E j \in Jobs : Restates(j)) \/ UNCHANGED job, UNCHANGED Counts
        PROVE  LockInv'
    <3>1. \A i \in Jobs : /\ Holding(i)' <=> Holding(i)
                          /\ Holding(i) => job'[i].req = job[i].req /\ job'[i].lockRef = job[i].lockRef
      BY <2>2, HoldersKept
    <3>2. \A p \in Paths : LockHolders(p)' = LockHolders(p)
      BY <3>1 DEF LockHolders
    <3>3. QED
      BY <2>1, <2>2, <3>2 DEF LockInv, Counts
  <2>3. QED
    BY <1>2, <2>1, <2>2, StepKinds, LockEnter, LockLeave DEF Restates
<1>3. QED
  BY <1>1, <1>2

(***************************************************************************)
(* LatestDeathsKept.  The queue is a part of the deaths in their order: a  *)
(* record with n others behind it in the queue has at least n deaths       *)
(* behind it, so what is evicted from a full queue is old enough.          *)
(***************************************************************************)
DiedInv ==
  /\ died \in Seq(Jobs) /\ deaths \in Seq(Jobs)
  /\ diedCount = Len(died) /\ Len(died) <= MaxDied
  /\ \A i \in 1..Len(deaths) : job[deaths[i]].st \in {"died", "gone"}
  /\ \A i, k \in 1..Len(deaths) : deaths[i] = deaths[k] => i = k
  /\ \A a, b \in 1..Len(died) : died[a] = died[b] => a = b
  /\ \A a \in 1..Len(died) :
       /\ job[died[a]].st = "died"
       /\ \E i \in 1..Len(deaths) : deaths[i] = died[a] /\ i + (Len(died) - a) <= Len(deaths)
  /\ mode = "nweb" => \A i \in 1..Len(deaths) : job[deaths[i]].st = "died" =>
       (\E a \in 1..Len(died) : died[a] = deaths[i]) \/ Len(deaths) - i >= MaxDied

\* A sequence without one of its elements.
LEMMA Removed ==
  ASSUME NEW S, NEW s \in Seq(S), NEW x \in 1..Len(s)
  PROVE  /\ RemoveAt(s, x) \in Seq(S) /\ Len(RemoveAt(s, x)) = Len(s) - 1 /\ Len(s) \in Nat
         /\ \A a \in 1..Len(s) - 1 : RemoveAt(s, x)[a] = IF a < x THEN s[a] ELSE s[a + 1]
<1>1. Len(s) \in Nat /\ \A a \in 1..Len(s) : s[a] \in S
  BY LenProperties, ElementOfSeq
<1>2. PICK u : u = SubSeq(s, 1, x - 1)
  OBVIOUS
<1>3. PICK v : v = SubSeq(s, x + 1, Len(s))
  OBVIOUS
<1>4. u \in Seq(S) /\ Len(u) = x - 1 /\ \A a \in 1..x - 1 : u[a] = s[a]
  <2>1. \A a \in 1..x - 1 : s[a] \in S
    BY <1>1
  <2>2. 1 \in Int /\ x - 1 \in Int
    OBVIOUS
  <2>3. /\ u \in Seq(S) /\ Len(u) = IF 1 <= x - 1 THEN (x - 1) - 1 + 1 ELSE 0
        /\ \A a \in 1..(x - 1) - 1 + 1 : u[a] = s[1 + a - 1]
    BY <1>2, <2>1, <2>2, SubSeqProperties
  <2>4. QED
    BY <2>3
<1>5. v \in Seq(S) /\ Len(v) = Len(s) - x /\ \A a \in 1..Len(s) - x : v[a] = s[x + a]
  <2>1. \A a \in x + 1 .. Len(s) : s[a] \in S
    BY <1>1
  <2>2. x + 1 \in Int /\ Len(s) \in Int
    BY <1>1
  <2>3. /\ v \in Seq(S) /\ Len(v) = IF x + 1 <= Len(s) THEN Len(s) - (x + 1) + 1 ELSE 0
        /\ \A a \in 1..Len(s) - (x + 1) + 1 : v[a] = s[(x + 1) + a - 1]
    BY <1>3, <2>1, <2>2, SubSeqProperties
  <2>4. PICK n \in Nat : n = Len(s)
    BY <1>1
  <2>5. Len(v) = n - x
    BY <2>3, <2>4
  <2>6. ASSUME NEW a \in 1..n - x PROVE v[a] = s[x + a]
    <3>1. a \in 1..n - (x + 1) + 1 /\ (x + 1) + a - 1 = x + a
      OBVIOUS
    <3>2. QED
      BY <2>3, <2>4, <3>1
  <2>7. QED
    BY <2>3, <2>4, <2>5, <2>6
<1>6. /\ u \o v \in Seq(S) /\ Len(u \o v) = Len(u) + Len(v)
      /\ \A a \in 1..Len(u) + Len(v) : (u \o v)[a] = IF a <= Len(u) THEN u[a] ELSE v[a - Len(u)]
  BY <1>4, <1>5, ConcatProperties
<1>7. PICK w : w = u \o v
  OBVIOUS
<1>8. /\ w \in Seq(S) /\ Len(w) = Len(s) - 1
      /\ \A a \in 1..Len(s) - 1 : w[a] = IF a <= x - 1 THEN u[a] ELSE v[a - (x - 1)]
  <2>1. Len(u) = x - 1 /\ Len(u) + Len(v) = Len(s) - 1
    BY <1>1, <1>4, <1>5
  <2>2. /\ w \in Seq(S) /\ Len(w) = Len(u) + Len(v)
        /\ \A a \in 1..Len(u) + Len(v) : w[a] = IF a <= Len(u) THEN u[a] ELSE v[a - Len(u)]
    BY <1>6, <1>7, Zenon
  <2>3. QED
    BY <2>1, <2>2, Zenon
<1>9. ASSUME NEW a \in 1..Len(s) - 1
      PROVE  w[a] = IF a < x THEN s[a] ELSE s[a + 1]
  <2>1. CASE a < x
    <3>1. a \in 1..x - 1 /\ a <= x - 1
      BY <1>1, <2>1
    <3>2. w[a] = u[a] /\ u[a] = s[a]
      BY <1>4, <1>8, <3>1, Zenon
    <3>3. QED
      BY <2>1, <3>2
  <2>2. CASE ~(a < x)
    <3>1. a - (x - 1) \in 1..Len(s) - x /\ x + (a - (x - 1)) = a + 1 /\ ~(a <= x - 1)
      BY <1>1, <2>2
    <3>2. w[a] = v[a - (x - 1)] /\ v[a - (x - 1)] = s[x + (a - (x - 1))]
      BY <1>5, <1>8, <3>1
    <3>3. QED
      BY <2>2, <3>1, <3>2
  <2>3. QED
    BY <2>1, <2>2
<1>10. RemoveAt(s, x) = w
  BY <1>2, <1>3, <1>7 DEF RemoveAt
<1>11. QED
  BY <1>1, <1>8, <1>9, <1>10

\* A sequence without its first element.
LEMMA TailIs ==
  ASSUME NEW S, NEW s \in Seq(S), Len(s) > 0
  PROVE  /\ Tail(s) \in Seq(S) /\ Len(Tail(s)) = Len(s) - 1 /\ Len(s) \in Nat
         /\ \A a \in 1..Len(s) - 1 : Tail(s)[a] = s[a + 1]
<1>1. s # <<>> /\ Len(s) \in Nat
  BY EmptySeq, LenProperties
<1>2. QED
  BY <1>1, HeadTailProperties

\* Nobody has died.
LEMMA DiedInit == Init => DiedInv
<1> SUFFICES ASSUME Init PROVE DiedInv
  OBVIOUS
<1>1. died \in Seq(Jobs) /\ deaths \in Seq(Jobs) /\ Len(died) = 0 /\ Len(deaths) = 0
  BY EmptySeq DEF Init
<1>2. QED
  BY <1>1, ResourcesAssumption DEF Init, DiedInv

\* A step in which nobody dies and no record of the queue is asked for.
LEMMA DiedKept ==
  ASSUME DiedInv, UNCHANGED <<mode, DiedVars>>,
         \A i \in Jobs : job'[i].st # job[i].st =>
           job[i].st \notin {"died", "gone"} /\ job'[i].st # "died"
  PROVE  DiedInv'
<1>1. \A i \in 1..Len(deaths) : deaths[i] \in Jobs
  BY ElementOfSeq DEF DiedInv
<1>2. \A a \in 1..Len(died) : died[a] \in Jobs
  BY ElementOfSeq DEF DiedInv
<1>3. died' = died /\ deaths' = deaths /\ diedCount' = diedCount /\ mode' = mode
  BY DEF DiedVars
<1>4. \A i \in 1..Len(deaths) : job'[deaths[i]].st = job[deaths[i]].st
  BY <1>1 DEF DiedInv
<1>5. \A a \in 1..Len(died) : job'[died[a]].st = "died"
  BY <1>2 DEF DiedInv
<1>a. died' \in Seq(Jobs) /\ deaths' \in Seq(Jobs) /\ diedCount' = Len(died') /\ Len(died') <= MaxDied
  BY <1>3 DEF DiedInv
<1>b. /\ \A i \in 1..Len(deaths') : job'[deaths'[i]].st \in {"died", "gone"}
      /\ \A i, k \in 1..Len(deaths') : deaths'[i] = deaths'[k] => i = k
  BY <1>3, <1>4 DEF DiedInv
<1>c. /\ \A a, b \in 1..Len(died') : died'[a] = died'[b] => a = b
      /\ \A a \in 1..Len(died') :
           /\ job'[died'[a]].st = "died"
           /\ \E i \in 1..Len(deaths') : deaths'[i] = died'[a] /\ i + (Len(died') - a) <= Len(deaths')
  BY <1>3, <1>5 DEF DiedInv
<1>d. mode' = "nweb" => \A i \in 1..Len(deaths') : job'[deaths'[i]].st = "died" =>
        (\E a \in 1..Len(died') : died'[a] = deaths'[i]) \/ Len(deaths') - i >= MaxDied
  BY <1>3, <1>4 DEF DiedInv
<1>6. QED
  BY <1>a, <1>b, <1>c, <1>d, Zenon DEF DiedInv

\* A process dies: the oldest record makes room if there is none.
LEMMA DiedDies == ASSUME NEW j \in Jobs PROVE JobInv /\ DiedInv /\ HandleDiedPid(j) => DiedInv'
<1> SUFFICES ASSUME JobInv, DiedInv, HandleDiedPid(j) PROVE DiedInv'
  OBVIOUS
<1>1. /\ job[j].st = "running" /\ mode' = mode
      /\ \A i \in Jobs : job'[i].st = IF i = j THEN "died" ELSE job[i].st
  BY DEF HandleDiedPid, Running, JobInv
<1>2. Len(died) \in Nat /\ Len(deaths) \in Nat
  BY LenProperties DEF DiedInv
<1>3. /\ \A i \in 1..Len(deaths) : deaths[i] \in Jobs /\ deaths[i] # j
      /\ \A a \in 1..Len(died) : died[a] \in Jobs /\ died[a] # j
  BY <1>1, ElementOfSeq DEF DiedInv
<1>4. /\ \A i \in 1..Len(deaths) : job'[deaths[i]].st = job[deaths[i]].st
      /\ \A a \in 1..Len(died) : job'[died[a]].st = "died"
  BY <1>1, <1>3 DEF DiedInv
<1>5. CASE mode # "nweb"
  <2>1. died' = died /\ deaths' = deaths /\ diedCount' = diedCount
    BY <1>5 DEF HandleDiedPid, TerminateSpawnedProcess
  <2>2. QED
    BY <1>1, <1>4, <1>5, <2>1 DEF DiedInv
<1>6. CASE mode = "nweb"
  <2>1. deaths' = Append(deaths, j)
    BY <1>6 DEF HandleDiedPid, TerminateSpawnedProcess
  <2>2. /\ deaths' \in Seq(Jobs) /\ Len(deaths') = Len(deaths) + 1
        /\ \A i \in 1..Len(deaths) : deaths'[i] = deaths[i]
        /\ deaths'[Len(deaths) + 1] = j
    BY <2>1, AppendProperties DEF DiedInv
  <2>3. \A i \in 1..Len(deaths') : i \in 1..Len(deaths) \/ i = Len(deaths) + 1
    BY <1>2, <2>2
  <2>4. /\ \A i \in 1..Len(deaths') : job'[deaths'[i]].st \in {"died", "gone"}
        /\ \A i, k \in 1..Len(deaths') : deaths'[i] = deaths'[k] => i = k
    <3>1. job'[j].st = "died"
      BY <1>1
    <3>2. \A i \in 1..Len(deaths) : job[deaths[i]].st \in {"died", "gone"}
      BY DEF DiedInv
    <3>3. \A i, k \in 1..Len(deaths) : deaths[i] = deaths[k] => i = k
      BY DEF DiedInv
    <3>4. ASSUME NEW i \in 1..Len(deaths')
          PROVE  job'[deaths'[i]].st \in {"died", "gone"}
      BY <1>4, <2>2, <2>3, <3>1, <3>2
    <3>5. ASSUME NEW i \in 1..Len(deaths'), NEW k \in 1..Len(deaths'), deaths'[i] = deaths'[k]
          PROVE  i = k
      BY <1>3, <2>2, <2>3, <3>3, <3>5
    <3>6. QED
      BY <3>4, <3>5
  <2>5. PICK q \in Seq(Jobs) :
          /\ died' = Append(q, j) /\ diedCount' = Len(q) + 1 /\ Len(q) + 1 <= MaxDied /\ Len(q) \in Nat
          /\ \/ q = died
             \/ /\ Len(died) > 0 /\ Len(q) = Len(died) - 1 /\ Len(died) = MaxDied
                /\ \A a \in 1..Len(q) : q[a] = died[a + 1]
    <3>1. CASE diedCount >= MaxDied
      <4>1. died' = Append(Tail(died), j) /\ diedCount' = diedCount /\ Len(died) = MaxDied /\ Len(died) > 0
        BY <1>2, <1>6, <3>1, ResourcesAssumption DEF HandleDiedPid, TerminateSpawnedProcess, DiedInv
      <4>2. /\ Tail(died) \in Seq(Jobs) /\ Len(Tail(died)) = Len(died) - 1
            /\ \A a \in 1..Len(died) - 1 : Tail(died)[a] = died[a + 1]
        BY <4>1, TailIs DEF DiedInv
      <4>3. PICK q : q = Tail(died)
        OBVIOUS
      <4>4. /\ q \in Seq(Jobs) /\ died' = Append(q, j) /\ diedCount' = Len(q) + 1 /\ Len(q) + 1 <= MaxDied
            /\ Len(q) \in Nat /\ Len(died) > 0 /\ Len(q) = Len(died) - 1 /\ Len(died) = MaxDied
            /\ \A a \in 1..Len(q) : q[a] = died[a + 1]
        BY <1>2, <4>1, <4>2, <4>3, ResourcesAssumption DEF DiedInv
      <4>5. QED
        BY <4>4
    <3>2. CASE ~(diedCount >= MaxDied)
      <4>1. died' = Append(died, j) /\ diedCount' = diedCount + 1
        BY <1>6, <3>2 DEF HandleDiedPid, TerminateSpawnedProcess
      <4>2. diedCount = Len(died) /\ Len(died) + 1 <= MaxDied /\ died \in Seq(Jobs)
        BY <1>2, <3>2, ResourcesAssumption DEF DiedInv
      <4>3. QED
        BY <1>2, <4>1, <4>2
    <3>3. QED
      BY <3>1, <3>2
  <2>6. /\ died' \in Seq(Jobs) /\ Len(died') = Len(q) + 1
        /\ \A a \in 1..Len(q) : died'[a] = q[a]
        /\ died'[Len(q) + 1] = j
    BY <2>5, AppendProperties
  <2>7. \A a \in 1..Len(died') : a \in 1..Len(q) \/ a = Len(q) + 1
    BY <2>5, <2>6
  <2>8. \A a \in 1..Len(q) :
          /\ q[a] # j /\ job'[q[a]].st = "died"
          /\ \E i \in 1..Len(deaths) : deaths[i] = q[a] /\ i + (Len(q) - a) <= Len(deaths)
    <3>1. CASE q = died
      BY <1>3, <1>4, <3>1 DEF DiedInv
    <3>2. CASE /\ Len(died) > 0 /\ Len(q) = Len(died) - 1
               /\ \A a \in 1..Len(q) : q[a] = died[a + 1]
      <4> SUFFICES ASSUME NEW a \in 1..Len(q)
                   PROVE  /\ q[a] # j /\ job'[q[a]].st = "died"
                          /\ \E i \in 1..Len(deaths) : deaths[i] = q[a] /\ i + (Len(q) - a) <= Len(deaths)
        OBVIOUS
      <4>1. a + 1 \in 1..Len(died) /\ q[a] = died[a + 1] /\ Len(died) - (a + 1) = Len(q) - a
        BY <1>2, <2>5, <3>2
      <4>2. PICK i \in 1..Len(deaths) : deaths[i] = died[a + 1] /\ i + (Len(died) - (a + 1)) <= Len(deaths)
        BY <4>1 DEF DiedInv
      <4>3. QED
        BY <1>3, <1>4, <4>1, <4>2
    <3>3. QED
      BY <2>5, <3>1, <3>2
  <2>9. \A a, b \in 1..Len(q) : q[a] = q[b] => a = b
    <3>1. CASE q = died
      BY <3>1 DEF DiedInv
    <3>2. CASE /\ Len(died) > 0 /\ Len(q) = Len(died) - 1
               /\ \A a \in 1..Len(q) : q[a] = died[a + 1]
      <4>1. \A a \in 1..Len(q) : a + 1 \in 1..Len(died)
        BY <1>2, <2>5, <3>2
      <4>2. \A a, b \in 1..Len(q) : q[a] = q[b] => a + 1 = b + 1
        BY <3>2, <4>1 DEF DiedInv
      <4>3. QED
        BY <4>2
    <3>3. QED
      BY <2>5, <3>1, <3>2
  <2>10. \A a, b \in 1..Len(died') : died'[a] = died'[b] => a = b
    BY <2>6, <2>7, <2>8, <2>9, ZenonT(40)
  <2>11. ASSUME NEW a \in 1..Len(died')
         PROVE  /\ job'[died'[a]].st = "died"
                /\ \E i \in 1..Len(deaths') : deaths'[i] = died'[a] /\ i + (Len(died') - a) <= Len(deaths')
    <3>1. CASE a \in 1..Len(q)
      <4>1. PICK i \in 1..Len(deaths) : deaths[i] = q[a] /\ i + (Len(q) - a) <= Len(deaths)
        BY <2>8, <3>1
      <4>2. i \in 1..Len(deaths') /\ i + (Len(died') - a) <= Len(deaths')
        BY <1>2, <2>2, <2>5, <2>6, <3>1, <4>1
      <4>3. deaths'[i] = died'[a] /\ job'[died'[a]].st = "died"
        BY <2>2, <2>6, <2>8, <3>1, <4>1
      <4>4. QED
        BY <4>2, <4>3
    <3>2. CASE a = Len(q) + 1
      <4>1. Len(deaths) + 1 \in 1..Len(deaths') /\ (Len(deaths) + 1) + (Len(died') - a) <= Len(deaths')
        BY <1>2, <2>2, <2>5, <2>6, <3>2
      <4>2. QED
        BY <1>1, <2>2, <2>6, <3>2, <4>1
    <3>3. QED
      BY <2>7, <3>1, <3>2
  <2>12. ASSUME NEW i \in 1..Len(deaths'), job'[deaths'[i]].st = "died"
         PROVE  (\E a \in 1..Len(died') : died'[a] = deaths'[i]) \/ Len(deaths') - i >= MaxDied
    <3>1. CASE i = Len(deaths) + 1
      <4>1. Len(q) + 1 \in 1..Len(died')
        BY <2>5, <2>6
      <4>2. QED
        BY <2>2, <2>6, <3>1, <4>1
    <3>2. CASE i \in 1..Len(deaths)
      <4>1. deaths'[i] = deaths[i] /\ job[deaths[i]].st = "died"
        BY <1>4, <2>2, <2>12, <3>2
      <4>2. CASE Len(deaths) - i >= MaxDied
        BY <1>2, <2>2, <3>2, <4>2, ResourcesAssumption
      <4>3. CASE \E a \in 1..Len(died) : died[a] = deaths[i]
        <5>1. PICK a \in 1..Len(died) : died[a] = deaths[i]
          BY <4>3
        <5>2. CASE q = died
          <6>1. a \in 1..Len(died') /\ died'[a] = deaths'[i]
            BY <1>2, <2>6, <4>1, <5>1, <5>2
          <6>2. QED
            BY <6>1
        <5>3. CASE /\ Len(died) > 0 /\ Len(q) = Len(died) - 1 /\ Len(died) = MaxDied
                   /\ \A b \in 1..Len(q) : q[b] = died[b + 1]
          <6>1. CASE a = 1
            <7>1. PICK x \in 1..Len(deaths) : deaths[x] = died[1] /\ x + (Len(died) - 1) <= Len(deaths)
              BY <5>1, <6>1 DEF DiedInv
            <7>2. x = i
              BY <3>2, <5>1, <6>1, <7>1 DEF DiedInv
            <7>3. QED
              BY <1>2, <2>2, <5>3, <7>1, <7>2, ResourcesAssumption
          <6>2. CASE a # 1
            <7>1. a - 1 \in 1..Len(q) /\ (a - 1) + 1 = a /\ a - 1 \in 1..Len(died')
              BY <1>2, <2>6, <5>3, <6>2
            <7>2. died'[a - 1] = deaths'[i]
              BY <2>6, <4>1, <5>1, <5>3, <7>1
            <7>3. QED
              BY <7>1, <7>2
          <6>3. QED
            BY <6>1, <6>2
        <5>4. QED
          BY <2>5, <5>2, <5>3
      <4>4. QED
        BY <1>6, <3>2, <4>1, <4>2, <4>3 DEF DiedInv
    <3>3. QED
      BY <2>3, <3>1, <3>2
  <2>13. diedCount' = Len(died') /\ Len(died') <= MaxDied
    BY <2>5, <2>6
  <2>14. QED
    BY <2>2, <2>4, <2>6, <2>10, <2>11, <2>12, <2>13 DEF DiedInv
<1>7. QED
  BY <1>5, <1>6

\* The status of a dead process was asked for: its record leaves the queue and
\* those behind it move up.
LEMMA DiedStatus == ASSUME NEW j \in Jobs PROVE JobInv /\ DiedInv /\ StatusOfDied(j) => DiedInv'
<1> SUFFICES ASSUME JobInv, DiedInv, StatusOfDied(j) PROVE DiedInv'
  OBVIOUS
<1>1. PICK x \in DOMAIN died : died[x] = j /\ died' = RemoveAt(died, x)
  BY DEF StatusOfDied
<1>2. mode' = mode /\ deaths' = deaths /\ diedCount' = IF diedCount > 0 THEN diedCount - 1 ELSE 0
  BY DEF StatusOfDied
<1>3. x \in 1..Len(died) /\ Len(died) \in Nat /\ Len(deaths) \in Nat
  BY <1>1, LenProperties DEF DiedInv
<1>4. /\ died' \in Seq(Jobs) /\ Len(died') = Len(died) - 1
      /\ \A a \in 1..Len(died) - 1 : died'[a] = IF a < x THEN died[a] ELSE died[a + 1]
  <2>1. died \in Seq(Jobs)
    BY DEF DiedInv
  <2>2. QED
    BY <1>1, <1>3, <2>1, Removed
<1>5. /\ diedCount' = Len(died') /\ Len(died') <= MaxDied /\ Len(died') \in Nat
  BY <1>2, <1>3, <1>4, ResourcesAssumption DEF DiedInv
<1>6. /\ \A i \in 1..Len(deaths) : deaths[i] \in Jobs
      /\ \A a \in 1..Len(died) : died[a] \in Jobs
  BY ElementOfSeq DEF DiedInv
<1>7. \A i \in Jobs : job'[i].st = IF i = j THEN "gone" ELSE job[i].st
  <2>1. job' = [job EXCEPT ![j].st = "gone"] /\ job \in [Jobs -> Bare \union FullRecord]
    BY DEF StatusOfDied, JobInv
  <2>2. \A r \in Bare \union FullRecord : [r EXCEPT !.st = "gone"].st = "gone"
    BY DEF Bare, FullRecord
  <2>3. QED
    BY <2>1, <2>2
<1>8. \A i \in 1..Len(deaths) : job'[deaths[i]].st \in {"died", "gone"}
  BY <1>6, <1>7 DEF DiedInv
\* Where an entry of the shorter queue was before.
<1>9. ASSUME NEW a \in 1..Len(died')
      PROVE  \E b \in 1..Len(died) : /\ died'[a] = died[b] /\ b # x /\ b >= a
                                     /\ b = IF a < x THEN a ELSE a + 1
  <2>1. a \in 1..Len(died) - 1 /\ a \in 1..Len(died) /\ a + 1 \in 1..Len(died)
    BY <1>3, <1>4
  <2>2. CASE a < x
    BY <1>3, <1>4, <2>1, <2>2
  <2>3. CASE ~(a < x)
    BY <1>3, <1>4, <2>1, <2>3
  <2>4. QED
    BY <2>2, <2>3
<1>10. ASSUME NEW a \in 1..Len(died'), NEW c \in 1..Len(died'), died'[a] = died'[c]
       PROVE  a = c
  <2>1. PICK b \in 1..Len(died) : died'[a] = died[b] /\ b # x /\ b = IF a < x THEN a ELSE a + 1
    BY <1>9
  <2>2. PICK d \in 1..Len(died) : died'[c] = died[d] /\ d # x /\ d = IF c < x THEN c ELSE c + 1
    BY <1>9
  <2>3. b = d
    <3>1. \A e, f \in 1..Len(died) : died[e] = died[f] => e = f
      BY DEF DiedInv
    <3>2. died[b] = died[d]
      BY <1>10, <2>1, <2>2
    <3>3. QED
      BY <3>1, <3>2
  <2>4. QED
    BY <1>3, <2>1, <2>2, <2>3
<1>11. ASSUME NEW a \in 1..Len(died')
       PROVE  /\ job'[died'[a]].st = "died"
              /\ \E i \in 1..Len(deaths) : deaths[i] = died'[a] /\ i + (Len(died') - a) <= Len(deaths)
  <2>1. PICK b \in 1..Len(died) : died'[a] = died[b] /\ b # x /\ b = IF a < x THEN a ELSE a + 1
    BY <1>9
  <2>2. died[b] # j /\ died[b] \in Jobs
    BY <1>1, <1>3, <1>6, <2>1 DEF DiedInv
  <2>3. job'[died'[a]].st = "died"
    <3>1. job[died[b]].st = "died"
      BY DEF DiedInv
    <3>2. job'[died[b]].st = "died"
      BY <1>7, <2>2, <3>1
    <3>3. QED
      BY <2>1, <3>2
  <2>4. PICK i \in 1..Len(deaths) : deaths[i] = died[b] /\ i + (Len(died) - b) <= Len(deaths)
    BY DEF DiedInv
  <2>5. i + (Len(died') - a) <= Len(deaths)
    <3>1. Len(died') - a <= Len(died) - b
      BY <1>3, <1>4, <2>1
    <3>2. QED
      BY <1>3, <1>5, <2>4, <3>1
  <2>6. QED
    BY <2>1, <2>3, <2>4, <2>5
<1>12. ASSUME mode = "nweb", NEW i \in 1..Len(deaths), job'[deaths[i]].st = "died"
       PROVE  (\E a \in 1..Len(died') : died'[a] = deaths[i]) \/ Len(deaths) - i >= MaxDied
  <2>1. deaths[i] # j /\ job[deaths[i]].st = "died"
    BY <1>6, <1>7, <1>12
  <2>2. CASE \E b \in 1..Len(died) : died[b] = deaths[i]
    <3>1. PICK b \in 1..Len(died) : died[b] = deaths[i]
      BY <2>2
    <3>2. b # x
      BY <1>1, <2>1, <3>1
    <3>3. CASE b < x
      <4>1. b \in 1..Len(died') /\ b \in 1..Len(died) - 1
        BY <1>3, <1>4, <3>3
      <4>2. died'[b] = died[b]
        BY <1>4, <3>3, <4>1
      <4>3. QED
        BY <3>1, <4>1, <4>2
    <3>4. CASE ~(b < x)
      <4>1. PICK a \in 1..Len(died') : a = b - 1 /\ ~(a < x) /\ a + 1 = b /\ a \in 1..Len(died) - 1
        BY <1>3, <1>4, <3>2, <3>4
      <4>2. died'[a] = died[b]
        BY <1>4, <4>1
      <4>3. QED
        BY <3>1, <4>2
    <3>5. QED
      BY <3>3, <3>4
  <2>3. QED
    BY <1>12, <2>1, <2>2 DEF DiedInv
<1>a. died' \in Seq(Jobs) /\ deaths' \in Seq(Jobs) /\ diedCount' = Len(died') /\ Len(died') <= MaxDied
  BY <1>2, <1>4, <1>5 DEF DiedInv
<1>b. /\ \A i \in 1..Len(deaths') : job'[deaths'[i]].st \in {"died", "gone"}
      /\ \A i, k \in 1..Len(deaths') : deaths'[i] = deaths'[k] => i = k
  BY <1>2, <1>8 DEF DiedInv
<1>c. /\ \A a, b \in 1..Len(died') : died'[a] = died'[b] => a = b
      /\ \A a \in 1..Len(died') :
           /\ job'[died'[a]].st = "died"
           /\ \E i \in 1..Len(deaths') : deaths'[i] = died'[a] /\ i + (Len(died') - a) <= Len(deaths')
  BY <1>2, <1>10, <1>11 DEF DiedInv
<1>d. mode' = "nweb" => \A i \in 1..Len(deaths') : job'[deaths'[i]].st = "died" =>
        (\E a \in 1..Len(died') : died'[a] = deaths'[i]) \/ Len(deaths') - i >= MaxDied
  BY <1>2, <1>12 DEF DiedInv
<1>13. QED
  BY <1>a, <1>b, <1>c, <1>d, Zenon DEF DiedInv

\* Every other step leaves the queue alone and changes no record of a dead
\* process.
LEMMA DiedNext == JobInv /\ DiedInv /\ [Next]_vars => DiedInv'
<1> SUFFICES ASSUME JobInv, DiedInv, [Next]_vars PROVE DiedInv'
  OBVIOUS
<1>1. job \in [Jobs -> Bare \union FullRecord]
  BY DEF JobInv
<1>2. ASSUME NEW j \in Jobs, NEW x, job' = [job EXCEPT ![j] = x], x.st # "died",
             job[j].st \notin {"died", "gone"}, UNCHANGED <<mode, DiedVars>>
      PROVE  DiedInv'
  <2>1. \A i \in Jobs : job'[i] = IF i = j THEN x ELSE job[i]
    BY <1>1, <1>2
  <2>2. QED
    BY <1>2, <2>1, DiedKept
<1>3. ASSUME UNCHANGED <<mode, DiedVars, job>>
      PROVE  DiedInv'
  BY <1>3, DiedKept
<1>4. [st |-> "gone"].st # "died" /\ None.st \notin {"died", "gone"}
  BY DEF None
<1>5. ASSUME NEW j \in Jobs, NEW r \in Requests, ProcessSpawnReqMsg(j, r) \/ ProcessCheckpointReqMsg(j, r)
      PROVE  DiedInv'
  <2>1. job[j].st \notin {"died", "gone"} /\ UNCHANGED <<mode, DiedVars>>
    BY <1>4, <1>5 DEF ProcessSpawnReqMsg, ProcessCheckpointReqMsg
  <2>2. \E x : job' = [job EXCEPT ![j] = x] /\ x.st # "died"
    BY <1>4, <1>5 DEF ProcessSpawnReqMsg, ProcessCheckpointReqMsg
  <2>3. QED
    BY <1>2, <2>1, <2>2
<1>6. ASSUME NEW j \in Jobs, ProcessChildResponse(j)
      PROVE  DiedInv'
  <2>1. job[j].st = "spawning" /\ job' = [job EXCEPT ![j].st = "running"] /\ UNCHANGED <<mode, DiedVars>>
    BY <1>6 DEF ProcessChildResponse, Spawning
  <2>2. PICK x : x = [job[j] EXCEPT !.st = "running"]
    OBVIOUS
  <2>3. x.st = "running"
    BY <1>1, <2>2 DEF Bare, FullRecord
  <2>4. QED
    BY <1>2, <2>1, <2>2, <2>3
<1>7. ASSUME NEW j \in Jobs, SpawnFails(j) \/ WaitChildDied(j) \/ StatusOfRunning(j)
      PROVE  DiedInv'
  <2>1. /\ UNCHANGED <<mode, DiedVars>>
        /\ UNCHANGED job \/ (job[j].st \in {"spawning", "running"} /\ job' = [job EXCEPT ![j] = [st |-> "gone"]])
    BY <1>7 DEF SpawnFails, WaitChildDied, StatusOfRunning, AbortSpawn, Spawning, Running
  <2>2. QED
    BY <1>2, <1>3, <1>4, <2>1
<1>8. ASSUME \/ \E j \in Jobs : ProcessDies(j)
             \/ \E u \in Users : LockUser(u) \/ UnlockInChild(u) \/ UnlockSerially(u)
             \/ \E p \in Paths : MountQueueWorkerThread(p)
             \/ UpdateDataGroupDirs \/ Crash \/ UNCHANGED vars
      PROVE  UNCHANGED <<mode, DiedVars, job>>
  BY <1>8 DEF ProcessDies, LockUser, UnlockInChild, UnlockSerially, MountQueueWorkerThread,
              UpdateDataGroupDirs, Crash, vars, DiedVars
<1>9. ASSUME StopAppSpawn
      PROVE  DiedInv'
  <2>1. /\ UNCHANGED <<mode, DiedVars>>
        /\ \A i \in Jobs : job'[i] = IF job[i].st = "running" THEN [st |-> "gone"] ELSE job[i]
    BY <1>9 DEF StopAppSpawn
  <2>2. QED
    BY <1>4, <2>1, DiedKept
<1>10. ASSUME Restart
       PROVE  DiedInv'
  <2>1. died' = <<>> /\ deaths' = <<>> /\ diedCount' = 0
    BY <1>10 DEF Restart
  <2>2. died' \in Seq(Jobs) /\ deaths' \in Seq(Jobs) /\ Len(died') = 0 /\ Len(deaths') = 0
    BY <2>1, EmptySeq
  <2>3. QED
    BY <2>1, <2>2, ResourcesAssumption DEF DiedInv
<1>11. QED
  BY <1>3, <1>5, <1>6, <1>7, <1>8, <1>9, <1>10, DiedDies, DiedStatus DEF Next

(***************************************************************************)
(* TypeOK.  A process is counted once at most in its life, so no count is  *)
(* larger than the number of processes ever asked for; and a layer is      *)
(* mounted below a path once at most per unlock event.                     *)
(***************************************************************************)
Known == {j \in Jobs : job[j] # None}

SpentInv == Up => /\ \A k \in Keys : cnt[k] <= Cardinality(Known)
                  /\ \A p \in Paths : lockMap[p] <= Cardinality(Known)

\* What a stopped or crashed service leaves behind.
LeftInv ==
  Up \/ /\ cnt \in [Keys -> 0..Cardinality(Jobs)] /\ lost \in [Keys -> 0..Cardinality(Jobs)]
        /\ lockMap \in [Paths -> 0..Cardinality(Jobs)] /\ lockLeak \in [Paths -> 0..Cardinality(Jobs)]

MountInv ==
  /\ mounts \in [Paths -> Nat] /\ toggles \in 0..MaxToggles
  /\ worker = [paths |-> worker.paths, groups |-> worker.groups]
  /\ \A p \in Paths : mounts[p] + (IF p \in worker.paths THEN 1 ELSE 0) <= toggles

\* The processes known after a step that replaces one record by another.
LEMMA KnownStep ==
  ASSUME JobInv, NEW j \in Jobs, NEW x, x # None, job' = [job EXCEPT ![j] = x]
  PROVE  /\ Cardinality(Known) \in Nat /\ Cardinality(Known') \in Nat
         /\ job[j] = None => Cardinality(Known') = Cardinality(Known) + 1
         /\ job[j] # None => Cardinality(Known') = Cardinality(Known)
<1>1. \A i \in Jobs : job'[i] = IF i = j THEN x ELSE job[i]
  BY DEF JobInv
<1>2. /\ Known \in SUBSET Jobs /\ Known' \in SUBSET Jobs /\ j \in Known'
      /\ \A i \in Jobs \ {j} : i \in Known <=> i \in Known'
      /\ j \in Known <=> job[j] # None
  BY <1>1 DEF Known, None
<1>3. QED
  BY <1>2, CountOne

LEMMA SpentNext == JobInv /\ DiedAreDead /\ CountInv /\ LockInv /\ SpentInv /\ [Next]_vars => SpentInv'
<1> SUFFICES ASSUME JobInv, DiedAreDead, CountInv, LockInv, SpentInv, [Next]_vars, Up' PROVE SpentInv'
  BY DEF SpentInv
<1>1. CASE Restart
  <2>1. (\A k \in Keys : cnt'[k] = 0) /\ (\A p \in Paths : lockMap'[p] = 0)
    BY <1>1 DEF Restart, SpmPreloadHook, NoCounts
  <2>2. Known' \in SUBSET Jobs
    BY DEF Known
  <2>3. Cardinality(Known') \in Nat
    BY <2>2, ResourcesAssumption, FS_Subset, FS_CardinalityType
  <2>4. QED
    BY <2>1, <2>3 DEF SpentInv
<1>2. CASE ~Restart
  <2>1. Up /\ ~StopAppSpawn
    BY <1>2, StepKinds DEF StopAppSpawn, Up
  <2>2. /\ cnt \in [Keys -> Nat] /\ \A k \in Keys : cnt[k] <= Cardinality(Known)
        /\ lockMap \in [Paths -> Nat] /\ \A p \in Paths : lockMap[p] <= Cardinality(Known)
    BY <2>1 DEF CountInv, LockInv, SpentInv
  <2>3. \A x \in {"died", "gone"} : Down(x) # None
    BY DEF Down, None
  <2>4. ASSUME NEW j \in Jobs, NEW r \in Requests, NEW d \in RebuildMessageFromSPM(r),
               Enters(j, r, d) \/ FailsAtOnce(j, r, d) \/ Drops(j, r, d)
        PROVE  SpentInv'
    <3>1. PICK K : d.c = Inc(cnt, K)
      BY RebuildFacts
    <3>2. d.c \in [Keys -> Nat] /\ \A k \in Keys : d.c[k] <= cnt[k] + 1
      BY <2>2, <3>1, IncDec
    <3>3. Cardinality(Known') = Cardinality(Known) + 1 /\ Cardinality(Known) \in Nat
      <4>1. \E x : x # None /\ job' = [job EXCEPT ![j] = x] /\ job[j] = None
        <5>1. CASE Enters(j, r, d)
          <6>1. PICK st \in {"spawning", "running"}, lk \in BOOLEAN :
                  job' = [job EXCEPT ![j] = [st |-> st, req |-> r, msg |-> d.msg, refs |-> d.refs, lockRef |-> lk]]
            BY <5>1 DEF Enters
          <6>2. PICK x : x = [st |-> st, req |-> r, msg |-> d.msg, refs |-> d.refs, lockRef |-> lk]
            OBVIOUS
          <6>3. x.st # "none" /\ None.st = "none"
            BY <6>2 DEF None
          <6>4. QED
            BY <5>1, <6>1, <6>2, <6>3 DEF Enters
        <5>2. CASE FailsAtOnce(j, r, d) \/ Drops(j, r, d)
          BY <2>3, <5>2 DEF FailsAtOnce, Drops
        <5>3. QED
          BY <2>4, <5>1, <5>2
      <4>2. QED
        BY <4>1, KnownStep
    <3>4. \A k \in Keys : cnt'[k] <= d.c[k]
      <4>1. CASE Enters(j, r, d) \/ Drops(j, r, d)
        BY <3>2, <4>1 DEF Enters, Drops
      <4>2. CASE FailsAtOnce(j, r, d)
        <5>1. PICK G : cnt' = Dec(d.c, G)
          BY <4>2 DEF FailsAtOnce, GiveBack
        <5>2. QED
          BY <3>2, <5>1, IncDec
      <4>3. QED
        BY <2>4, <4>1, <4>2
    <3>5. cnt' \in [Keys -> Nat]
      <4>1. CASE Enters(j, r, d) \/ Drops(j, r, d)
        BY <3>2, <4>1 DEF Enters, Drops
      <4>2. CASE FailsAtOnce(j, r, d)
        <5>1. PICK G : cnt' = Dec(d.c, G)
          BY <4>2 DEF FailsAtOnce, GiveBack
        <5>2. QED
          BY <3>2, <5>1, IncDec
      <4>3. QED
        BY <2>4, <4>1, <4>2
    <3>6. lockMap' \in [Paths -> Nat] /\ \A p \in Paths : lockMap'[p] <= lockMap[p] + 1
      <4>1. CASE Drops(j, r, d)
        BY <2>2, <4>1 DEF Drops
      <4>2. CASE Enters(j, r, d)
        <5>1. PICK b \in BOOLEAN : lockMap' = Took(b, lockMap, r)
          BY <4>2 DEF Enters
        <5>2. QED
          BY <2>2, <5>1, LockRef
      <4>3. CASE FailsAtOnce(j, r, d)
        <5>1. PICK b \in BOOLEAN, lk \in BOOLEAN :
                lockMap' = IF lk THEN ReleaseLockBundleRef(Took(b, lockMap, r), r.path) ELSE Took(b, lockMap, r)
          BY <4>3 DEF FailsAtOnce, GiveBack
        <5>2. PICK up : up = Took(b, lockMap, r)
          OBVIOUS
        <5>3. up \in [Paths -> Nat] /\ \A p \in Paths : up[p] <= lockMap[p] + 1
          BY <2>2, <5>2, LockRef
        <5>4. lockMap' \in [Paths -> Nat] /\ \A p \in Paths : lockMap'[p] <= up[p]
          BY <5>1, <5>2, <5>3, LockRef
        <5>5. QED
          BY <2>2, <5>3, <5>4
      <4>4. QED
        BY <2>4, <4>1, <4>2, <4>3
    <3>7. QED
      BY <2>2, <3>2, <3>3, <3>4, <3>5, <3>6 DEF SpentInv
  <2>5. ASSUME NEW j \in Jobs, Leaves(j)
        PROVE  SpentInv'
    <3>1. PICK st \in {"died", "gone"} : job' = [job EXCEPT ![j] = Down(st)]
      BY <2>5 DEF Leaves
    <3>2. job[j] # None
      BY <2>5 DEF Leaves, Holding, None
    <3>3. Cardinality(Known') = Cardinality(Known) /\ Cardinality(Known) \in Nat
      BY <2>3, <3>1, <3>2, KnownStep
    <3>4. PICK G : cnt' = Dec(cnt, G)
      BY <2>5 DEF Leaves, GiveBack
    <3>5. cnt' \in [Keys -> Nat] /\ \A k \in Keys : cnt'[k] <= cnt[k]
      BY <2>2, <3>4, IncDec
    <3>6. lockMap' \in [Paths -> Nat] /\ \A p \in Paths : lockMap'[p] <= lockMap[p]
      <4>1. PICK r \in Requests, lk \in BOOLEAN :
              lockMap' = IF lk THEN ReleaseLockBundleRef(lockMap, r.path) ELSE lockMap
        BY <2>5 DEF Leaves, GiveBack, JobInv, FullRecord
      <4>2. QED
        BY <2>2, <4>1, LockRef
    <3>7. QED
      BY <2>2, <3>3, <3>5, <3>6 DEF SpentInv
  <2>6. ASSUME NEW j \in Jobs, Restates(j)
        PROVE  SpentInv'
    <3>1. PICK x \in {"running", "gone"} : job' = [job EXCEPT ![j].st = x]
      BY <2>6 DEF Restates
    <3>2. PICK y : y = [job[j] EXCEPT !.st = x]
      OBVIOUS
    <3>3. job[j] \in Bare \union FullRecord
      BY DEF JobInv
    <3>4. y.st = x
      BY <3>2, <3>3 DEF Bare, FullRecord
    <3>5. y # None /\ job[j] # None
      BY <2>6, <3>4 DEF None, Restates, Holding
    <3>6. Cardinality(Known') = Cardinality(Known)
      BY <3>1, <3>2, <3>5, KnownStep
    <3>7. QED
      BY <2>2, <2>6, <3>6 DEF SpentInv, Restates, Counts
  <2>7. ASSUME UNCHANGED <<job, Counts>>
        PROVE  SpentInv'
    <3>1. Known' = Known
      BY <2>7 DEF Known
    <3>2. QED
      BY <2>2, <2>7, <3>1 DEF SpentInv, Counts
  <2>8. QED
    BY <1>2, <2>1, <2>4, <2>5, <2>6, <2>7, StepKinds
<1>3. QED
  BY <1>1, <1>2

\* What the counts of a running service are bounded by.
LEMMA BoundedWhileUp ==
  ASSUME CountInv, LockInv, SpentInv, Up
  PROVE  /\ Cardinality(Jobs) \in Nat
         /\ cnt \in [Keys -> 0..Cardinality(Jobs)] /\ lost \in [Keys -> 0..Cardinality(Jobs)]
         /\ lockMap \in [Paths -> 0..Cardinality(Jobs)] /\ lockLeak \in [Paths -> 0..Cardinality(Jobs)]
         /\ \A S \in SUBSET Jobs : Cardinality(S) \in Nat /\ Cardinality(S) <= Cardinality(Jobs)
<1>1. \A S \in SUBSET Jobs : /\ IsFiniteSet(S) /\ Cardinality(S) \in Nat
                             /\ Cardinality(S) <= Cardinality(Jobs)
  BY ResourcesAssumption, FS_Subset, FS_CardinalityType
<1>2. Cardinality(Jobs) \in Nat
  BY ResourcesAssumption, FS_CardinalityType
<1>3. /\ Known \in SUBSET Jobs /\ \A k \in Keys : Holders(k) \in SUBSET Jobs
      /\ \A p \in Paths : LockHolders(p) \in SUBSET Jobs
  BY DEF Known, Holders, LockHolders
<1>4. /\ cnt \in [Keys -> Nat] /\ lost \in [Keys -> Nat]
      /\ \A k \in Keys : cnt[k] = Cardinality(Holders(k)) + lost[k] /\ cnt[k] <= Cardinality(Known)
  BY DEF CountInv, SpentInv
<1>5. \A k \in Keys : cnt[k] \in 0..Cardinality(Jobs) /\ lost[k] \in 0..Cardinality(Jobs)
  BY <1>1, <1>2, <1>3, <1>4
<1>6. /\ lockMap \in [Paths -> Nat] /\ lockLeak \in [Paths -> Nat]
      /\ \A p \in Paths : /\ lockMap[p] = Cardinality(LockHolders(p)) + lockLeak[p]
                          /\ lockMap[p] <= Cardinality(Known)
  BY DEF LockInv, SpentInv
<1>7. \A p \in Paths : lockMap[p] \in 0..Cardinality(Jobs) /\ lockLeak[p] \in 0..Cardinality(Jobs)
  BY <1>1, <1>2, <1>3, <1>6
<1>8. QED
  BY <1>1, <1>2, <1>4, <1>5, <1>6, <1>7

\* The clean-up of a stopping service takes from each count what was in it.
LEMMA StopLeaves ==
  ASSUME JobInv, CountInv, LockInv, SpentInv, Up, StopAppSpawn
  PROVE  /\ cnt' \in [Keys -> 0..Cardinality(Jobs)]
         /\ lockMap' \in [Paths -> 0..Cardinality(Jobs)] /\ lost' = lost /\ lockLeak' = lockLeak
<1> DEFINE run == {j \in Jobs : job[j].st = "running"}
           held(k) == {j \in run : k \in KeysOf(job[j].refs, job[j].req, job[j].msg.uid)}
           refs(p) == {j \in run : job[j].lockRef /\ job[j].req.path = p}
<1>1. /\ cnt' = [k \in Keys |-> cnt[k] - Cardinality(held(k))]
      /\ lockMap' = [p \in Paths |-> lockMap[p] - Cardinality(refs(p))]
      /\ lost' = lost /\ lockLeak' = lockLeak
  BY DEF StopAppSpawn
<1>2. \A j \in run : Holding(j) /\ job[j].msg.uid = job[j].req.uid
  BY DEF Holding, JobInv
<1>3. ASSUME NEW k \in Keys
      PROVE  cnt'[k] \in 0..Cardinality(Jobs)
  <2>1. held(k) \subseteq Holders(k) /\ Holders(k) \in SUBSET Jobs
    BY <1>2 DEF Holders
  <2>2. IsFiniteSet(Holders(k))
    BY <2>1, ResourcesAssumption, FS_Subset
  <2>3. Cardinality(held(k)) \in Nat /\ Cardinality(held(k)) <= Cardinality(Holders(k))
    BY <2>1, <2>2, FS_Subset, FS_CardinalityType
  <2>4. /\ cnt[k] \in Nat /\ lost[k] \in Nat /\ cnt[k] = Cardinality(Holders(k)) + lost[k]
        /\ Cardinality(Holders(k)) \in Nat
    BY <2>2, FS_CardinalityType DEF CountInv
  <2>5. cnt[k] <= Cardinality(Jobs) /\ Cardinality(Jobs) \in Nat
    BY BoundedWhileUp
  <2> HIDE DEF held
  <2>6. cnt'[k] = cnt[k] - Cardinality(held(k))
    BY <1>1
  <2>7. QED
    BY <2>3, <2>4, <2>5, <2>6
<1>4. ASSUME NEW p \in Paths
      PROVE  lockMap'[p] \in 0..Cardinality(Jobs)
  <2>1. refs(p) \subseteq LockHolders(p) /\ LockHolders(p) \in SUBSET Jobs
    BY <1>2 DEF LockHolders
  <2>2. IsFiniteSet(LockHolders(p))
    BY <2>1, ResourcesAssumption, FS_Subset
  <2>3. Cardinality(refs(p)) \in Nat /\ Cardinality(refs(p)) <= Cardinality(LockHolders(p))
    BY <2>1, <2>2, FS_Subset, FS_CardinalityType
  <2>4. /\ lockMap[p] = Cardinality(LockHolders(p)) + lockLeak[p] /\ lockMap[p] \in Nat
        /\ lockLeak[p] \in Nat /\ Cardinality(LockHolders(p)) \in Nat
    BY <2>2, FS_CardinalityType DEF LockInv
  <2>5. lockMap[p] <= Cardinality(Jobs) /\ Cardinality(Jobs) \in Nat
    BY BoundedWhileUp
  <2> HIDE DEF refs
  <2>6. lockMap'[p] = lockMap[p] - Cardinality(refs(p))
    BY <1>1
  <2>7. QED
    BY <2>3, <2>4, <2>5, <2>6
<1> HIDE DEF held, refs
<1>5. QED
  BY <1>1, <1>3, <1>4

LEMMA LeftNext ==
  JobInv /\ DiedAreDead /\ CountInv /\ LockInv /\ SpentInv /\ LeftInv /\ [Next]_vars => LeftInv'
<1> SUFFICES ASSUME JobInv, DiedAreDead, CountInv, LockInv, SpentInv, LeftInv, [Next]_vars, ~Up'
             PROVE  LeftInv'
  BY DEF LeftInv
<1>1. CASE StopAppSpawn
  <2>1. Up
    BY <1>1 DEF StopAppSpawn
  <2>2. QED
    BY <1>1, <2>1, StopLeaves, BoundedWhileUp DEF LeftInv
<1>2. CASE Restart
  <2>1. /\ cnt' = NoCounts /\ lost' = NoCounts /\ lockMap' = [p \in Paths |-> 0]
        /\ lockLeak' = [p \in Paths |-> 0]
    BY <1>2 DEF Restart, SpmPreloadHook
  <2>2. Cardinality(Jobs) \in Nat
    BY ResourcesAssumption, FS_CardinalityType
  <2>3. QED
    BY <2>1, <2>2 DEF LeftInv, NoCounts
<1>3. CASE ~StopAppSpawn /\ ~Restart
  <2>1. UNCHANGED Counts
    <3>1. CASE Up
      <4>1. starts' # starts
        BY <3>1 DEF Up
      <4>2. Crash
        BY <1>3, <4>1 DEF Next, vars, ProcessSpawnReqMsg, ProcessCheckpointReqMsg, ProcessChildResponse,
             SpawnFails, ProcessDies, WaitChildDied, HandleDiedPid, StatusOfDied, StatusOfRunning, LockUser,
             UnlockInChild, UnlockSerially, MountQueueWorkerThread, UpdateDataGroupDirs
      <4>3. QED
        BY <4>2 DEF Crash, Counts, LockVars
    <3>2. CASE ~Up
      BY <1>3, <3>2, StepKinds
    <3>3. QED
      BY <3>1, <3>2
  <2>2. QED
    BY <2>1, BoundedWhileUp DEF LeftInv, Counts
<1>4. QED
  BY <1>1, <1>2, <1>3

\* Only an unlock event mounts, each of them one layer, and at most one child
\* has some of its layers still to mount.
LEMMA MountNext == MountInv /\ [Next]_vars => MountInv'
<1> SUFFICES ASSUME MountInv, [Next]_vars PROVE MountInv'
  OBVIOUS
<1>1. /\ mounts \in [Paths -> Nat] /\ toggles \in 0..MaxToggles
      /\ worker = [paths |-> worker.paths, groups |-> worker.groups]
      /\ \A p \in Paths : mounts[p] + (IF p \in worker.paths THEN 1 ELSE 0) <= toggles
  BY DEF MountInv
<1>a. MaxToggles \in Nat
  BY ResourcesAssumption
<1>2. ASSUME NEW a, NEW b, mounts' = UnmountOne(a, b), UNCHANGED <<toggles, worker>>
      PROVE  MountInv'
  <2>1. mounts' \in [Paths -> Nat] /\ \A p \in Paths : mounts'[p] <= mounts[p]
    BY <1>1, <1>2 DEF UnmountOne
  <2>2. QED
    BY <1>1, <1>2, <2>1 DEF MountInv
<1>3. ASSUME UNCHANGED <<mounts, toggles, worker>>
      PROVE  MountInv'
  BY <1>3 DEF MountInv
<1>4. ASSUME NEW c, NEW o, NEW l, NEW n, NEW r, NEW uid, NEW refs, NEW lk, NEW f,
             GiveBack(c, o, l, n, r, uid, refs, lk, f), UNCHANGED <<toggles, worker>>
      PROVE  MountInv'
  BY <1>2, <1>4 DEF GiveBack
<1>5. ASSUME NEW j \in Jobs, NEW r \in Requests, ProcessSpawnReqMsg(j, r)
      PROVE  MountInv'
  <2>1. UNCHANGED <<toggles, worker>>
    BY <1>5 DEF ProcessSpawnReqMsg
  <2>2. \/ UNCHANGED mounts
        \/ \E c, o, l, n, uid, refs, lk, f : GiveBack(c, o, l, n, r, uid, refs, lk, f)
    BY <1>5 DEF ProcessSpawnReqMsg
  <2>3. QED
    BY <1>3, <1>4, <2>1, <2>2
<1>6. ASSUME NEW j \in Jobs, SpawnFails(j) \/ WaitChildDied(j) \/ HandleDiedPid(j) \/ StatusOfRunning(j)
      PROVE  MountInv'
  <2>1. UNCHANGED <<toggles, worker>>
    BY <1>6 DEF SpawnFails, WaitChildDied, HandleDiedPid, StatusOfRunning
  <2>2. \/ UNCHANGED mounts
        \/ \E c, o, l, n, r, uid, refs, lk, f : GiveBack(c, o, l, n, r, uid, refs, lk, f)
    BY <1>6 DEF SpawnFails, WaitChildDied, HandleDiedPid, StatusOfRunning, AbortSpawn, AppCleanup
  <2>3. QED
    BY <1>3, <1>4, <2>1, <2>2
<1>7. ASSUME NEW u \in Users, LockUser(u)
      PROVE  MountInv'
  BY <1>1, <1>7, <1>a DEF LockUser, MountInv
<1>8. ASSUME NEW u \in Users, UnlockInChild(u)
      PROVE  MountInv'
  <2>1. /\ worker = NoWorker /\ toggles' = toggles + 1 /\ toggles < MaxToggles
        /\ UNCHANGED mounts
    BY <1>8 DEF UnlockInChild
  <2>2. PICK P, G : worker' = [paths |-> P, groups |-> G]
    BY <1>8 DEF UnlockInChild
  <2>3. worker' = [paths |-> worker'.paths, groups |-> worker'.groups]
    BY <2>2
  <2>4. \A p \in Paths : mounts[p] <= toggles
    BY <1>1, <2>1 DEF NoWorker
  <2>5. QED
    BY <1>1, <1>a, <2>1, <2>3, <2>4 DEF MountInv
<1>9. ASSUME NEW u \in Users, UnlockSerially(u)
      PROVE  MountInv'
  <2>1. PICK P : mounts' = MountPaths(P)
    BY <1>9 DEF UnlockSerially
  <2>2. mounts' \in [Paths -> Nat] /\ \A p \in Paths : mounts'[p] <= mounts[p] + 1
    BY <1>1, <2>1 DEF MountPaths
  <2>3. toggles' = toggles + 1 /\ toggles < MaxToggles /\ UNCHANGED worker
    BY <1>9 DEF UnlockSerially
  <2>4. QED
    BY <1>1, <1>a, <2>2, <2>3 DEF MountInv
<1>10. ASSUME NEW q \in Paths, MountQueueWorkerThread(q)
       PROVE  MountInv'
  <2>1. /\ mounts' = MountPaths({q}) /\ q \in worker.paths /\ UNCHANGED toggles
        /\ worker' = [worker EXCEPT !.paths = @ \ {q}]
    BY <1>10 DEF MountQueueWorkerThread
  <2>2. /\ worker' = [paths |-> worker'.paths, groups |-> worker'.groups]
        /\ worker'.paths = worker.paths \ {q}
    BY <1>1, <2>1
  <2>3. /\ mounts' \in [Paths -> Nat]
        /\ \A p \in Paths : mounts'[p] = IF p = q THEN mounts[p] + 1 ELSE mounts[p]
    BY <1>1, <2>1 DEF MountPaths
  <2>4. QED
    BY <1>1, <2>1, <2>2, <2>3 DEF MountInv
<1>11. ASSUME UpdateDataGroupDirs
       PROVE  MountInv'
  <2>1. worker' = NoWorker /\ UNCHANGED <<mounts, toggles>>
    BY <1>11 DEF UpdateDataGroupDirs
  <2>2. worker' = [paths |-> worker'.paths, groups |-> worker'.groups] /\ worker'.paths = {}
    BY <2>1 DEF NoWorker
  <2>3. QED
    BY <1>1, <2>1, <2>2 DEF MountInv
<1>12. ASSUME StopAppSpawn
       PROVE  MountInv'
  BY <1>2, <1>12 DEF StopAppSpawn
<1>13. ASSUME \/ \E j \in Jobs : \/ \E r \in Requests : ProcessCheckpointReqMsg(j, r)
                                 \/ ProcessChildResponse(j) \/ ProcessDies(j) \/ StatusOfDied(j)
              \/ Crash \/ Restart \/ UNCHANGED vars
       PROVE  MountInv'
  <2>1. UNCHANGED <<mounts, toggles, worker>>
    BY <1>13 DEF ProcessCheckpointReqMsg, ProcessChildResponse, ProcessDies, StatusOfDied, Crash, Restart,
                 vars, LockVars
  <2>2. QED
    BY <1>3, <2>1
<1>14. QED
  BY <1>5, <1>6, <1>7, <1>8, <1>9, <1>10, <1>11, <1>12, <1>13 DEF Next

(***************************************************************************)
(* Theorems.                                                               *)
(***************************************************************************)
ResourcesInv ==
  JobInv /\ DiedInv /\ CountInv /\ LockInv /\ SpentInv /\ LeftInv /\ MountInv

LEMMA ResourcesInit == Init => ResourcesInv
<1> SUFFICES ASSUME Init PROVE ResourcesInv
  OBVIOUS
<1>1. \A j \in Jobs : ~Holding(j)
  BY DEF Init, Holding, None
<1>2. CountInv
  BY <1>1, CountsOfNobody DEF Init
<1>3. LockInv
  <2>1. \A p \in Paths : LockHolders(p) = {}
    BY <1>1 DEF LockHolders
  <2>2. /\ lockMap \in [Paths -> Nat] /\ \A p \in Paths : lockMap[p] = 0
        /\ lockLeak \in [Paths -> Nat] /\ \A p \in Paths : lockLeak[p] = 0
    BY DEF Init
  <2>3. QED
    BY <2>1, <2>2, FS_EmptySet DEF LockInv
<1>4. SpentInv /\ LeftInv
  <2>1. (\A k \in Keys : cnt[k] = 0) /\ (\A p \in Paths : lockMap[p] = 0)
    BY DEF Init, NoCounts
  <2>2. Known = {} /\ Up
    BY DEF Init, Known, Up
  <2>3. QED
    BY <2>1, <2>2, FS_EmptySet DEF SpentInv, LeftInv
<1>5. MountInv
  BY ResourcesAssumption DEF Init, MountInv, NoWorker
<1>6. QED
  BY <1>2, <1>3, <1>4, <1>5, JobInit, DiedInit DEF ResourcesInv

LEMMA ResourcesNext == ResourcesInv /\ [Next]_vars => ResourcesInv'
<1>1. DiedInv => DiedAreDead
  <2> SUFFICES ASSUME DiedInv PROVE DiedAreDead
    OBVIOUS
  <2>1. DOMAIN died = 1..Len(died)
    BY LenProperties DEF DiedInv
  <2>2. QED
    BY <2>1 DEF DiedInv, DiedAreDead
<1>2. QED
  BY <1>1, JobNext, DiedNext, CountNext, LockNext, SpentNext, LeftNext, MountNext DEF ResourcesInv

\* The kernel's counts are those of the processes that remember counting, plus
\* what IncreaseRefCounts forgot, what the kernel refused to give back and what
\* checkpoint requests dropped, whatever fails and whichever handler ends a
\* process (spm.c).  Needs ResourcesInv.
THEOREM SpmReferencesExact == Spec => []SpmRefsExact
<1>1. ResourcesInv => SpmRefsExact
  BY DEF ResourcesInv, CountInv, SpmRefsExact
<1>2. QED
  BY <1>1, ResourcesInit, ResourcesNext, PTL DEF Spec

\* The lock references of a path are those of the processes that took one and
\* remember it, plus those a failed strdup made their context forget
\* (AddLockBundleRef, ReleaseLockBundleRef, MountDirToShared).  Needs
\* ResourcesInv.
THEOREM LockReferencesExact == Spec => []LockRefsExact
<1>1. ResourcesInv => LockRefsExact
  BY DEF ResourcesInv, LockInv, LockRefsExact, LockHolders
<1>2. QED
  BY <1>1, ResourcesInit, ResourcesNext, PTL DEF Spec

\* nwebspawn can answer for each of the last MaxDied deaths nobody asked about
\* (TerminateSpawnedProcess, GetProcessTerminationStatus).  Needs DiedInv.
THEOREM LatestDeathsAnswered == Spec => []LatestDeathsKept
<1>1. ResourcesInv => LatestDeathsKept
  <2> SUFFICES ASSUME DiedInv PROVE LatestDeathsKept
    BY DEF ResourcesInv
  <2>1. DOMAIN died = 1..Len(died) /\ DOMAIN deaths = 1..Len(deaths)
    BY LenProperties DEF DiedInv
  <2>2. \A a \in 1..Len(died) : died[a] \in Range(died)
    BY <2>1 DEF Range
  <2>3. QED
    BY <2>1, <2>2 DEF DiedInv, LatestDeathsKept
<1>2. QED
  BY <1>1, ResourcesInit, ResourcesNext, PTL DEF Spec

\* Every count is one the processes asked for can account for, in a service
\* that runs and in one that stopped or crashed; a path has at most one layer
\* per unlock event, and the died queue the length its counter says.  Needs
\* ResourcesInv.
THEOREM ResourcesTypeCorrect == Spec => []TypeOK
<1>1. ResourcesInv => TypeOK
  <2> SUFFICES ASSUME ResourcesInv PROVE TypeOK
    OBVIOUS
  <2>1. /\ cnt \in [Keys -> 0..Cardinality(Jobs)] /\ lost \in [Keys -> 0..Cardinality(Jobs)]
        /\ lockMap \in [Paths -> 0..Cardinality(Jobs)] /\ lockLeak \in [Paths -> 0..Cardinality(Jobs)]
    BY BoundedWhileUp DEF ResourcesInv, LeftInv
  <2>2. mounts \in [Paths -> 0..MaxToggles]
    <3>1. /\ mounts \in [Paths -> Nat] /\ toggles \in 0..MaxToggles /\ MaxToggles \in Nat
          /\ \A p \in Paths : mounts[p] <= toggles
      BY ResourcesAssumption DEF ResourcesInv, MountInv
    <3>2. \A p \in Paths : mounts[p] \in 0..MaxToggles
      BY <3>1
    <3>3. QED
      BY <3>1, <3>2
  <2>3. diedCount = Len(died) /\ diedCount \in 0..MaxDied
    BY ResourcesAssumption, LenProperties DEF ResourcesInv, DiedInv
  <2>4. \A j \in Jobs : job[j].st \in {"none", "spawning", "running", "died", "gone"}
    BY DEF ResourcesInv, JobInv, Bare, FullRecord
  <2>5. QED
    BY <2>1, <2>2, <2>3, <2>4 DEF TypeOK
<1>2. QED
  BY <1>1, ResourcesInit, ResourcesNext, PTL DEF Spec

=============================================================================
