---------------------------- MODULE SpawnClient ----------------------------
(***************************************************************************)
(* The client library of appspawn: threads of one process share a manager  *)
(* (socket, mutex) per service, build a message in blocks, write it, wait  *)
(* for the answer, and start again on a new connection when anything       *)
(* fails.  Calls for applications on the df white list go to appspawndf    *)
(* first; broadcasts go to both services and their results are merged.     *)
(*                                                                         *)
(* A step of a thread is what it does between two blocking calls.  The     *)
(* services are modelled by what AppSpawnService promises: a request is    *)
(* answered at most once, an application whose client hung up is killed.   *)
(* One that is in flight when its service dies is not: it may run on.      *)
(***************************************************************************)
EXTENDS Integers, Sequences, FiniteSets, SequencesExt

CONSTANTS
  Thread,       \* each makes one call
  Conn,         \* connections that can exist at a time
  None,         \* no thread, no connection
  MaxRetry,     \* MAX_RETRY_SEND_COUNT
  MaxFaults,    \* writes cut short, interrupted or timed out, and deaths of a service
  Callers,      \* who calls: [kinds, fd, tlvs], see CallersAssumption
  BlockSize,    \* room of an AppSpawnMsgBlock, in words
  HdrLen,       \* sizeof(AppSpawnMsg), in words
  MaxTotal      \* MAX_MSG_TOTAL_LENGTH, in words

ASSUME ClientAssumption ==
  /\ None \notin Thread \cup Conn
  /\ MaxRetry \in Nat \ {0} /\ {MaxFaults, MaxTotal} \subseteq Nat
  /\ {BlockSize, HdrLen} \subseteq Nat \ {0} /\ HdrLen < BlockSize

VARIABLES
  kind,      \* what each thread asks for: "spawn", "listed" (on the df list), "web", "lock", "none"
  listenFd,  \* g_spawnListenFd is set
  ends,      \* where the blocks of the requests end, in words of the message
  pc,        \* where each thread is
  svc,       \* the service it talks to
  cur,       \* "req", or "listen" inside SpawnListenBase
  try,       \* retryCount of the two nested ClientSendMsg calls and of TryCreateSocket
  io,        \* block being written, words written and remaining, ghost: cuts in it
  ret,       \* what ClientSendMsg returned (TRUE: 0)
  result,    \* AppSpawnResult of the caller
  dfRes,     \* AppSpawnResult of the second half of a broadcast
  final,     \* what the caller sees
  mgr,       \* AppSpawnReqMsgMgr by process and service
  listenStart, listenOwner, \* g_spawnListenStart, g_spawndfListenStart, g_spawnListenMutex
  conn,      \* the sockets
  up,        \* services running
  live,      \* applications started that their service could answer for
  orphans,   \* applications started whose service died before it answered
  late,      \* ghost: applications whose answer nobody read
  heard,     \* services that hold the listen descriptor
  deaf,      \* ghost: services that died with it
  faults     \* how many so far

cvars == <<kind, listenFd, ends>>
tvars == <<pc, svc, cur, try, io, ret, result, dfRes, final>>
svars == <<up, live, orphans, heard, deaf>>
vars == <<cvars, tvars, mgr, listenStart, listenOwner, conn, svars, late, faults>>
-----------------------------------------------------------------------------
(* Building a message.  A word of the message is <<k, i>>: word i of TLV k, *)
(* with k = 0 for the header.  A TLV is the sequence of its parts (its own  *)
(* header, then each piece of data) with their aligned lengths.             *)

Room(block) == BlockSize - Len(block)

\* GetValidMsgBlock: the first block that holds the whole TLV.
ValidBlocks(blocks, len) == {b \in DOMAIN blocks : Room(blocks[b]) >= len}
GetValidMsgBlock(blocks, len) ==
  CHOOSE b \in ValidBlocks(blocks, len) : \A x \in ValidBlocks(blocks, len) : b <= x

\* A plausible bug: a part that does not fit begins a block of its own.
AddAppDataToTailWhole(blocks, words) ==
  IF Room(Last(blocks)) >= Len(words)
    THEN [blocks EXCEPT ![Len(blocks)] = @ \o words]
    ELSE Append(blocks, words)
\* AddAppDataToTail: fill the last block, go on in a new one.
AddWord(blocks, w) ==
  IF Room(Last(blocks)) > 0 THEN [blocks EXCEPT ![Len(blocks)] = Append(@, w)] ELSE Append(blocks, <<w>>)
AddAppDataToTail(blocks, words) ==
  LET after[n \in 0..Len(words)] == IF n = 0 THEN blocks ELSE AddWord(after[n - 1], words[n])
  IN  after[Len(words)]

Total(parts) ==
  LET sum[n \in 0..Len(parts)] == IF n = 0 THEN 0 ELSE sum[n - 1] + parts[n] IN sum[Len(parts)]
MsgLen(msg) == Total([b \in DOMAIN msg |-> Len(msg[b])])
PartWords(k, parts, p) ==
  LET before == Total(SubSeq(parts, 1, p - 1)) IN [i \in 1..parts[p] |-> <<k, before + i>>]
AddPartsToTail(blocks, k, parts) ==
  LET after[p \in 0..Len(parts)] ==
        IF p = 0 THEN blocks ELSE AddAppDataToTail(after[p - 1], PartWords(k, parts, p))
  IN  after[Len(parts)]

\* AddAppData and AddAppDataEx: one TLV, refused when the message gets too
\* long (CheckMsg).
AddTlv(blocks, k, parts) ==
  LET len == Total(parts) IN
  IF MsgLen(blocks) + len > MaxTotal THEN blocks
  ELSE IF ValidBlocks(blocks, len) # {}
    THEN [blocks EXCEPT ![GetValidMsgBlock(blocks, len)] =
            @ \o FlattenSeq([p \in 1..Len(parts) |-> PartWords(k, parts, p)])]
    ELSE AddPartsToTail(blocks, k, parts)

\* CreateBaseMsg, then the TLVs in the order the caller adds them.
Header == [i \in 1..HdrLen |-> <<0, i>>]
Build(tlvs) ==
  LET after[k \in 0..Len(tlvs)] == IF k = 0 THEN <<Header>> ELSE AddTlv(after[k - 1], k, tlvs[k])
  IN  after[Len(tlvs)]
\* Where each block of a message ends.
Ends(blocks) == [b \in DOMAIN blocks |-> MsgLen(SubSeq(blocks, 1, b))]

\* A request has at least one block and none is as short as the one unit an
\* interrupted write is counted for (a block holds aligned TLVs; see also
\* BlocksAreTheMessage).  AppSpawnClientSendUserLockStatus makes and destroys
\* the shared handle, so one call of it is made at a time.
ASSUME CallersAssumption ==
  \A call \in Callers :
    /\ call.kinds \in [Thread -> {"spawn", "listed", "web", "lock", "none"}] /\ call.fd \in BOOLEAN
    /\ \A t, u \in Thread : call.kinds[t] = "lock" /\ call.kinds[u] = "lock" => t = u
    /\ LET e == Ends(Build(call.tlvs)) IN
         /\ e \in Seq(Nat) /\ e # <<>> /\ e[1] >= 2
         /\ \A a, b \in DOMAIN e : a < b => e[a] + 2 <= e[b]
-----------------------------------------------------------------------------
Service == {"main", "df"}
\* SendUserLockStatus is the storage manager's, the others the ability
\* manager's, which is the one that observes signals.
Process == {"ams", "storage"}
Proc(t) == IF kind[t] = "lock" THEN "storage" ELSE "ams"
Observes(t) == Proc(t) = "ams" /\ listenFd
IsSpawn(t) == kind[t] \in {"spawn", "listed"}
\* AppSpawndfIsBroadcastMsg.
IsBroadcast(t) == kind[t] \in {"web", "lock"}

NoApp == <<>>
NoReply == [ok |-> FALSE, of |-> <<>>, app |-> NoApp, intact |-> TRUE, cut |-> FALSE]
\* AppSpawnResult dfRes = {0}: reads as success before anything is known.
ZeroReply == [NoReply EXCEPT !.ok = TRUE]

\* A connection; ghost cut: a block cut twice was taken for written on it.
Unused == [svc |-> "main", cli |-> FALSE, srv |-> FALSE, in |-> <<>>, out |-> <<>>, pend |-> {},
           cut |-> FALSE]
FreshMgr == [alive |-> TRUE, sock |-> None, owner |-> None]
NoMgr == [FreshMgr EXCEPT !.alive = FALSE]
FirstTry == [req |-> 1, listen |-> 1, sock |-> 1]
IdleIo == [blk |-> 1, written |-> 0, remain |-> 0, cuts |-> 0]

Init ==
  /\ \E call \in Callers :
       /\ kind = call.kinds /\ listenFd = call.fd
       /\ ends = Ends(Build(call.tlvs))
  /\ pc = [t \in Thread |-> "idle"] /\ svc = [t \in Thread |-> "main"]
  /\ cur = [t \in Thread |-> "req"] /\ try = [t \in Thread |-> FirstTry]
  /\ io = [t \in Thread |-> IdleIo] /\ ret = [t \in Thread |-> FALSE]
  /\ result = [t \in Thread |-> NoReply] /\ dfRes = [t \in Thread |-> ZeroReply]
  /\ final = [t \in Thread |-> NoReply]
  /\ mgr = [p \in Process |-> [s \in Service |-> NoMgr]]
  /\ listenStart = [s \in Service |-> FALSE]
  /\ listenOwner = None
  /\ conn = [c \in Conn |-> Unused]
  /\ up = [s \in Service |-> TRUE]
  /\ live = {} /\ orphans = {} /\ late = {} /\ heard = [s \in Service |-> FALSE] /\ deaf = [s \in Service |-> FALSE]
  /\ faults = 0
-----------------------------------------------------------------------------
Mgr(t) == mgr[Proc(t)][svc[t]]
Sock(t) == Mgr(t).sock
\* Where the blocks of the message being sent end; a listen message has one.
Blocks(what) == IF what = "listen" THEN <<HdrLen + 1>> ELSE ends
Before(what, b) == IF b = 1 THEN 0 ELSE Blocks(what)[b - 1]
BlockLen(what, b) == Blocks(what)[b] - Before(what, b)
Word(t, i) == [of |-> <<t, cur[t]>>, i |-> i, n |-> Last(Blocks(cur[t]))]

\* AppSpawnClientInit and AppSpawndfGetHandle: the shared instance, made once.
InitClientInstance(m) == IF m.alive THEN m ELSE FreshMgr

\* AppSpawnClientSendMsg up to the first ClientSendMsgLocked:
\* AppSpawnClientSendMsgDfControl chooses where to go first.
Begin(t) ==
  /\ pc[t] = "idle" /\ kind[t] # "none"
  /\ pc' = [pc EXCEPT ![t] = "lock"]
  /\ svc' = [svc EXCEPT ![t] = IF kind[t] = "listed" THEN "df" ELSE "main"]
  /\ mgr' = [mgr EXCEPT ![Proc(t)] = [s \in Service |-> InitClientInstance(@[s])]]
  /\ UNCHANGED <<cvars, cur, try, io, ret, result, dfRes, final, listenStart, listenOwner,
                 conn, svars, late, faults>>

\* ClientSendMsgLocked: the mutex of the manager.
ClientSendMsgLocked(t) ==
  /\ pc[t] = "lock" /\ Mgr(t).owner = None
  /\ mgr' = [mgr EXCEPT ![Proc(t)][svc[t]].owner = t]
  /\ pc' = [pc EXCEPT ![t] = "loop"]
  /\ try' = [try EXCEPT ![t].req = 1]
  /\ UNCHANGED <<cvars, svc, cur, io, ret, result, dfRes, final, listenStart, listenOwner,
                 conn, svars, late, faults>>

\* A plausible bug: failing to connect costs no attempt.
RetriedNever(n) == n
\* The retry counter after a failing attempt or connect, and its limit.
Retried(n) == n + 1
MayTry(n) == n <= MaxRetry

\* CreateClientSocket: connect() fails exactly when the service is down.
CreateClientSocket(t) ==
  /\ up[svc[t]] /\ \E c \in Conn : conn[c] = Unused
  /\ LET c == CHOOSE x \in Conn : conn[x] = Unused IN
       /\ conn' = [conn EXCEPT ![c] = [Unused EXCEPT !.svc = svc[t], !.cli = TRUE, !.srv = TRUE]]
       /\ mgr' = [mgr EXCEPT ![Proc(t)][svc[t]].sock = c]

\* One turn of the loop of TryCreateSocket, which has retries of its own; when
\* they are used up the attempt of ClientSendMsg has failed.
TryCreateSocket(t) ==
  /\ pc[t] = "loop" /\ MayTry(try[t][cur[t]]) /\ Sock(t) = None
  /\ \/ CreateClientSocket(t) /\ try' = [try EXCEPT ![t].sock = 1]
     \/ /\ ~up[svc[t]]
        /\ LET n == Retried(try[t].sock)
           IN  try' = IF MayTry(n) THEN [try EXCEPT ![t].sock = n]
                      ELSE [try EXCEPT ![t].sock = 1, ![t][cur[t]] = Retried(@)]
        /\ UNCHANGED <<mgr, conn>>
  /\ UNCHANGED <<cvars, pc, svc, cur, io, ret, result, dfRes, final, listenStart, listenOwner,
                 svars, late, faults>>

\* The loop of ClientSendMsg goes on with a socket.
HasSocket(t) == pc[t] = "loop" /\ MayTry(try[t][cur[t]]) /\ Sock(t) # None
Block(what, b) == [blk |-> b, written |-> 0, remain |-> BlockLen(what, b), cuts |-> 0]

\* SendSpawnListenMsg: a process with a listen descriptor tells the service
\* of it before its first request, in a nested ClientSendMsg.
SpawnListen(t) ==
  /\ HasSocket(t) /\ cur[t] = "req" /\ listenOwner = None
  /\ Observes(t) /\ ~listenStart[svc[t]]
  /\ listenOwner' = t
  /\ cur' = [cur EXCEPT ![t] = "listen"]
  /\ try' = [try EXCEPT ![t].listen = 1]
  /\ UNCHANGED <<cvars, pc, svc, io, ret, result, dfRes, final, mgr, listenStart, conn, svars,
                 late, faults>>

\* No listening to arrange: on to HandleMsgSend.
StartSend(t) ==
  /\ HasSocket(t)
  /\ (cur[t] = "req" /\ Observes(t)) => listenOwner = None /\ listenStart[svc[t]]
  /\ pc' = [pc EXCEPT ![t] = "send"]
  /\ io' = [io EXCEPT ![t] = Block(cur[t], 1)]
  /\ UNCHANGED <<cvars, svc, cur, try, ret, result, dfRes, final, mgr, listenStart,
                 listenOwner, conn, svars, late, faults>>

\* SpawnListenBase returns, and the outer ClientSendMsg goes on with whatever
\* socket the nested one left.
StartFlag(was, ok) == was \/ ok

ListenReturns(t, ok) ==
  /\ listenStart' = [listenStart EXCEPT ![svc[t]] = StartFlag(@, ok)]
  /\ listenOwner' = None
  /\ cur' = [cur EXCEPT ![t] = "req"]
  /\ pc' = [pc EXCEPT ![t] = "send"]
  /\ io' = [io EXCEPT ![t] = Block("req", 1)]

\* SpawnListenCloseSet: the owner of the descriptor saw the service go.
SpawnListenCloseSet ==
  /\ listenOwner = None /\ \E s \in Service : deaf[s]
  /\ listenStart' = [s \in Service |-> FALSE]
  /\ deaf' = [s \in Service |-> FALSE]
  /\ UNCHANGED <<cvars, tvars, mgr, listenOwner, conn, up, live, orphans, heard, late, faults>>
-----------------------------------------------------------------------------
\* What closing the client's end does to a connection: answers in it are lost.
\* (A request not yet read is still taken up by the service, which then finds
\* the hang-up and kills the child: nothing is left of it.)
Apps(replies) == {replies[i].app : i \in DOMAIN replies} \ {NoApp}
ClosedByClient(k) ==
  IF k.srv /\ k.pend # {} THEN [k EXCEPT !.cli = FALSE, !.in = <<>>, !.out = <<>>] ELSE Unused

\* A plausible bug: the retry uses the same connection.
RetryOnSameSocket(t) ==
  /\ try' = [try EXCEPT ![t][cur[t]] = Retried(@)]
  /\ pc' = [pc EXCEPT ![t] = "loop"]
  /\ UNCHANGED <<cvars, svc, cur, io, ret, result, dfRes, final, listenStart, listenOwner, svars,
                 conn, mgr, late>>
\* The end of an attempt that failed: close, forget the socket, count.
CloseAndRetry(t) ==
  /\ IF Sock(t) = None THEN UNCHANGED <<conn, late>>
     ELSE /\ conn' = [conn EXCEPT ![Sock(t)] = ClosedByClient(@)]
          /\ late' = late \cup Apps(conn[Sock(t)].out)
  /\ mgr' = [mgr EXCEPT ![Proc(t)][svc[t]].sock = None]
  /\ try' = [try EXCEPT ![t][cur[t]] = Retried(@)]
  /\ pc' = [pc EXCEPT ![t] = "loop"]
  /\ UNCHANGED <<cvars, svc, cur, io, ret, result, dfRes, final, listenStart, listenOwner, svars>>

\* A plausible bug: at least its length is enough.
BlockSentAtLeast(w, len) == w >= len
\* WriteMessage after a sendmsg that returned n: the loop ends when nothing
\* remains, and the block counts as sent when exactly its length was written.
\* The buffer handed to sendmsg is never advanced.
BlockSent(w, len) == w = len

Connected(t) == Sock(t) # None /\ conn[Sock(t)].srv

\* sendmsg takes n words, all of the block or, cut short, fewer; -1 with EINTR
\* is counted as minus one written.
WriteMessage(t) ==
  /\ pc[t] = "send" /\ Connected(t)
  /\ LET b == io[t].blk
         len == BlockLen(cur[t], b)
         last == Len(Blocks(cur[t]))
     IN \E n \in 1..len \cup {-1} :
          LET remain == io[t].remain - n
              written == io[t].written + n
              cuts == io[t].cuts + (IF n = len THEN 0 ELSE 1)
              again == [blk |-> b, written |-> written, remain |-> remain, cuts |-> cuts]
              sent == remain <= 0 /\ BlockSent(written, len)
          IN /\ n = len \/ faults < MaxFaults
             /\ faults' = IF n = len THEN faults ELSE faults + 1
             /\ conn' = [conn EXCEPT ![Sock(t)].in = @ \o [i \in 1..n |-> Word(t, Before(cur[t], b) + i)],
                                     ![Sock(t)].cut = @ \/ (sent /\ cuts >= 2)]
             /\ \/ remain > 0 /\ io' = [io EXCEPT ![t] = again] /\ UNCHANGED pc
                \/ sent /\ b < last /\ io' = [io EXCEPT ![t] = Block(cur[t], b + 1)] /\ UNCHANGED pc
                \/ sent /\ b = last /\ io' = [io EXCEPT ![t] = again] /\ pc' = [pc EXCEPT ![t] = "read"]
                \/ /\ remain <= 0 /\ ~BlockSent(written, len)   \* -EFAULT
                   /\ io' = [io EXCEPT ![t] = again] /\ pc' = [pc EXCEPT ![t] = "efault"]
  /\ UNCHANGED <<cvars, svc, cur, try, ret, result, dfRes, final, mgr, listenStart, listenOwner,
                 svars, late>>

\* No socket, a closed peer, SO_SNDTIMEO, or a length that does not add up.
WriteFails(t) ==
  /\ \/ pc[t] = "efault" /\ UNCHANGED faults
     \/ pc[t] = "send" /\ ~Connected(t) /\ UNCHANGED faults
     \/ pc[t] = "send" /\ Connected(t) /\ faults < MaxFaults /\ faults' = faults + 1
  /\ CloseAndRetry(t)

\* ReadMessage times out, or the peer closed without an answer.
ReadFails(t) ==
  /\ pc[t] = "read" /\ conn[Sock(t)].out = <<>>
  /\ CloseAndRetry(t)
  /\ UNCHANGED faults

Unlock(t) == mgr' = [mgr EXCEPT ![Proc(t)][svc[t]].owner = None]
\* Which AppSpawnResult the answer is stored in.
StoreResult(t, r) ==
  IF IsBroadcast(t) /\ svc[t] = "df"
    THEN dfRes' = [dfRes EXCEPT ![t] = r] /\ UNCHANGED result
    ELSE result' = [result EXCEPT ![t] = r] /\ UNCHANGED dfRes
\* The call's own return value is that of the main half of a broadcast.
StoreRet(t, ok) == ret' = [ret EXCEPT ![t] = IF IsBroadcast(t) /\ svc[t] = "df" THEN @ ELSE ok]

\* ReadMessage: one read takes all there is and uses the first answer; an
\* answer to another message is only logged.
ReadMessage(t) ==
  /\ pc[t] = "read" /\ conn[Sock(t)].out # <<>>
  /\ LET c == Sock(t)
         r == Head(conn[c].out)
     IN /\ conn' = [conn EXCEPT ![c].out = <<>>]
        /\ IF cur[t] = "listen"
             THEN /\ ListenReturns(t, r.ok) /\ late' = late \cup Apps(conn[c].out)
                  /\ UNCHANGED <<svc, try, ret, result, dfRes, final, mgr>>
             ELSE /\ StoreResult(t, [r EXCEPT !.cut = conn[c].cut]) /\ StoreRet(t, TRUE) /\ Unlock(t)
                  /\ late' = late \cup Apps(Tail(conn[c].out))
                  /\ pc' = [pc EXCEPT ![t] = "sent"]
                  /\ UNCHANGED <<svc, cur, try, io, final, listenStart, listenOwner>>
  /\ UNCHANGED <<cvars, svars, faults>>

\* The loop of ClientSendMsg is over: APPSPAWN_TIMEOUT.
GiveUp(t) ==
  /\ pc[t] = "loop" /\ ~MayTry(try[t][cur[t]])
  /\ IF cur[t] = "listen"
       THEN ListenReturns(t, FALSE) /\ UNCHANGED <<svc, try, ret, result, dfRes, final, mgr>>
       ELSE /\ StoreRet(t, FALSE) /\ Unlock(t)
            /\ pc' = [pc EXCEPT ![t] = "sent"]
            /\ UNCHANGED <<svc, cur, try, io, result, dfRes, final, listenStart, listenOwner>>
  /\ UNCHANGED <<cvars, conn, svars, late, faults>>
-----------------------------------------------------------------------------
\* AppSpawndfMergeBroadcastResult: for a lock status either success counts,
\* for the others any failure does.
MergeBroadcastResult(t) ==
  IF kind[t] = "lock"
    THEN result[t].ok \/ dfRes[t].ok
    ELSE result[t].ok /\ dfRes[t].ok

\* AppSpawnClientSendMsgDfControl after a ClientSendMsgLocked: fall back from
\* df, or go on with the second half of a broadcast.
Onward(t) ==
  /\ pc[t] = "sent"
  /\ \/ kind[t] = "listed" /\ svc[t] = "df" /\ ~ret[t] /\ svc' = [svc EXCEPT ![t] = "main"]
     \/ IsBroadcast(t) /\ svc[t] = "main" /\ svc' = [svc EXCEPT ![t] = "df"]
  /\ pc' = [pc EXCEPT ![t] = "lock"]
  /\ UNCHANGED <<cvars, cur, try, io, ret, result, dfRes, final, mgr, listenStart, listenOwner,
                 conn, svars, late, faults>>

\* AppSpawnClientSendMsg returns.
Return(t) ==
  /\ pc[t] = "sent"
  /\ kind[t] = "listed" => svc[t] = "main" \/ ret[t]
  /\ IsBroadcast(t) => svc[t] = "df"
  /\ final' = [final EXCEPT ![t] =
       [result[t] EXCEPT !.ok = ret[t] /\ (IF IsBroadcast(t) THEN MergeBroadcastResult(t) ELSE @)]]
  /\ try' = [try EXCEPT ![t] = FirstTry] /\ io' = [io EXCEPT ![t] = IdleIo]
  /\ pc' = [pc EXCEPT ![t] = IF kind[t] = "lock" THEN "destroy" ELSE "done"]
  /\ UNCHANGED <<cvars, svc, cur, ret, result, dfRes, mgr, listenStart, listenOwner,
                 conn, svars, late, faults>>

\* AppSpawnClientSendUserLockStatus destroys the handle it sent with.
AppSpawnClientDestroy(t) ==
  /\ pc[t] = "destroy"
  /\ LET c == mgr["storage"]["main"].sock IN
       IF c = None THEN UNCHANGED <<conn, late>>
       ELSE /\ conn' = [conn EXCEPT ![c] = ClosedByClient(@)]
            /\ late' = late \cup Apps(conn[c].out)
  /\ mgr' = [mgr EXCEPT !["storage"]["main"] = NoMgr]
  /\ pc' = [pc EXCEPT ![t] = "done"]
  /\ UNCHANGED <<cvars, svc, cur, try, io, ret, result, dfRes, final, listenStart, listenOwner,
                 svars, faults>>
-----------------------------------------------------------------------------
(* The services. *)

Complete(in) == in # <<>> /\ in[1].i = 1 /\ Len(in) >= in[1].n
IsIntact(m) == \A i \in DOMAIN m : m[i].of = m[1].of /\ m[i].i = i

ClosedByService(k) == IF k.cli THEN [k EXCEPT !.srv = FALSE, !.in = <<>>, !.pend = {}] ELSE Unused

\* OnReceiveRequest: a complete message is taken up.  One put together from
\* two writes may still pass the checks of header and TLVs, or not.
SvcAccept(c) ==
  /\ conn[c].srv /\ conn[c].cli /\ Complete(conn[c].in)
  /\ LET m == SubSeq(conn[c].in, 1, conn[c].in[1].n)
         job == [of |-> m[1].of, intact |-> IsIntact(m)]
     IN conn' = [conn EXCEPT ![c].in = SubSeq(@, m[1].n + 1, Len(@)), ![c].pend = @ \cup {job}]
  /\ UNCHANGED <<cvars, tvars, mgr, listenStart, listenOwner, svars, late, faults>>

\* CheckRecvMsg or DecodeAppSpawnMsg refuses: the connection is closed.
SvcRefuse(c) ==
  /\ conn[c].srv /\ conn[c].in # <<>>
  /\ \/ conn[c].in[1].i # 1
     \/ Complete(conn[c].in) /\ ~IsIntact(SubSeq(conn[c].in, 1, conn[c].in[1].n))
  /\ conn' = [conn EXCEPT ![c] = ClosedByService(@)]
  /\ UNCHANGED <<cvars, tvars, mgr, listenStart, listenOwner, svars, late, faults>>

\* The application a successful answer is about.
NewApp(job) ==
  LET t == job.of[1] IN
  IF job.of[2] = "req" /\ IsSpawn(t) THEN <<t, Cardinality({a \in live : a[1] = t}) + 1>> ELSE NoApp

\* SendResponse.
SvcAnswer(c) ==
  /\ conn[c].srv /\ conn[c].cli
  /\ \E job \in conn[c].pend, ok \in BOOLEAN :
       LET app == IF ok THEN NewApp(job) ELSE NoApp
           r == [ok |-> ok, of |-> job.of, intact |-> job.intact, app |-> app, cut |-> FALSE]
       IN /\ conn' = [conn EXCEPT ![c].pend = @ \ {job}, ![c].out = Append(@, r)]
          /\ live' = live \cup ({app} \ {NoApp})
          /\ heard' = [heard EXCEPT ![conn[c].svc] = @ \/ (job.of[2] = "listen" /\ ok)]
  /\ UNCHANGED <<cvars, tvars, mgr, listenStart, listenOwner, up, orphans, deaf, late, faults>>

\* A plausible bug: the hang-up does not end what is in flight.
SvcCloseForgets(c) ==
  /\ conn[c].srv /\ ~conn[c].cli
  /\ conn' = [conn EXCEPT ![c] = Unused]
  /\ live' = live \cup ({NewApp(job) : job \in conn[c].pend} \ {NoApp})
  /\ UNCHANGED <<cvars, tvars, mgr, listenStart, listenOwner, up, orphans, heard, deaf, late,
                 faults>>

\* OnDisConnect and OnClose kill what is in flight; an answer that was just
\* being sent fails and SendMessageComplete kills too.
SvcClose(c) ==
  /\ conn[c].srv /\ ~conn[c].cli
  /\ conn' = [conn EXCEPT ![c] = Unused]
  /\ UNCHANGED <<cvars, tvars, mgr, listenStart, listenOwner, svars, late, faults>>

\* The spawns a service is at; each is one of thread, connection and moment.
InFlight(s) ==
  UNION {{<<job.of[1], c, faults>> : job \in {x \in conn[c].pend : x.of[2] = "req" /\ IsSpawn(x.of[1])}} :
         c \in {x \in Conn : conn[x].svc = s /\ conn[x].srv}}

\* A service dies, with its connections and what it observed, and is restarted.
\* Whether it crashes or StopAppSpawn ends it, SpawningQueueDestroy kills no
\* child: any of those in flight may have been forked, and runs on.
SvcDies(s) ==
  /\ up[s] /\ faults < MaxFaults
  /\ up' = [up EXCEPT ![s] = FALSE] /\ faults' = faults + 1
  /\ conn' = [c \in Conn |-> IF conn[c].svc = s /\ conn[c].srv THEN ClosedByService(conn[c])
                             ELSE conn[c]]
  /\ \E forked \in SUBSET InFlight(s) : orphans' = orphans \cup forked
  /\ deaf' = [deaf EXCEPT ![s] = @ \/ heard[s]] /\ heard' = [heard EXCEPT ![s] = FALSE]
  /\ UNCHANGED <<cvars, tvars, mgr, listenStart, listenOwner, live, late>>

SvcStarts(s) ==
  /\ ~up[s] /\ up' = [up EXCEPT ![s] = TRUE]
  /\ UNCHANGED <<cvars, tvars, mgr, listenStart, listenOwner, conn, live, orphans, heard, deaf,
                 late, faults>>
-----------------------------------------------------------------------------
ThreadNext(t) ==
  \/ Begin(t) \/ ClientSendMsgLocked(t) \/ TryCreateSocket(t) \/ SpawnListen(t) \/ StartSend(t)
  \/ WriteMessage(t) \/ WriteFails(t) \/ ReadMessage(t) \/ ReadFails(t) \/ GiveUp(t)
  \/ Onward(t) \/ Return(t) \/ AppSpawnClientDestroy(t)

Next ==
  \/ \E t \in Thread : ThreadNext(t)
  \/ SpawnListenCloseSet
  \/ \E c \in Conn : SvcAccept(c) \/ SvcRefuse(c) \/ SvcAnswer(c) \/ SvcClose(c)
  \/ \E s \in Service : SvcDies(s) \/ SvcStarts(s)

\* Threads run and their timeouts fire; services close what was hung up.
\* A service owes no answer and need not come back.
Spec == /\ Init /\ [][Next]_vars
        /\ \A t \in Thread : WF_vars(ThreadNext(t))
        /\ \A c \in Conn : WF_vars(SvcClose(c)) /\ WF_vars(SvcAccept(c))
-----------------------------------------------------------------------------
(* Properties *)

\* Everything on a connection whose client end is open belongs to the one
\* message of the thread that holds the manager: the mutex and the close after
\* every failure in ClientSendMsg keep requests and answers from meeting those
\* of another call.  (This is what FdsReachTheirMessage of MsgReceiver assumes
\* of its client.)  The exception is a connection on which two writes that were
\* cut short or interrupted added up to the length of a block, which
\* WriteMessage cannot tell from one whole write.
Traffic(c) == {conn[c].in[i].of : i \in DOMAIN conn[c].in}
              \cup {conn[c].out[i].of : i \in DOMAIN conn[c].out}
              \cup {job.of : job \in conn[c].pend}
OneMessagePerConnection ==
  \A c \in Conn : conn[c].cli /\ ~conn[c].cut /\ Traffic(c) # {} =>
    \E t \in Thread : Sock(t) = c /\ Mgr(t).owner = t /\ Traffic(c) = {<<t, cur[t]>>}

\* A spawn that returns success returns the answer to its own request, for an
\* application that was started, and from the message as it was built, however often
\* it was sent again (with the same exception).
OkIsOwnApp ==
  \A t \in Thread : pc[t] = "done" /\ IsSpawn(t) /\ final[t].ok /\ ~final[t].cut =>
    /\ final[t].of = <<t, "req">> /\ final[t].app \in live
    /\ final[t].intact

\* A retry may spawn again what the service spawned already.  Every
\* application that was started is one a caller has been told of, or still on
\* its way to a reader, or was answered on a connection the client closed
\* without reading (it timed out just then), or was in flight when its service
\* died, which kills no child it has not recorded (StopAppSpawn,
\* SpawningQueueDestroy): any other attempt given up leaves nothing behind.
AppsAccountedFor ==
  \A a \in live \cup orphans :
    \/ a \in late
    \/ \E t \in Thread : a \in {result[t].app, dfRes[t].app}
    \/ \E c \in Conn : conn[c].cli /\ a \in Apps(conn[c].out)
    \/ a \in orphans

\* Every call returns, whatever the services do: connects, writes and reads
\* are bounded by time and the attempts by maxRetryCount.
EveryCallReturns == <>(\A t \in Thread : kind[t] # "none" => pc[t] = "done")

\* What a message should be: the header, then the TLVs, cut into blocks; and
\* whether all of its TLVs were accepted.
TlvWords(k, parts) == [i \in 1..Total(parts) |-> <<k, i>>]
Accepted(tlvs) == MsgLen(Build(tlvs)) = HdrLen + Total([k \in DOMAIN tlvs |-> Total(tlvs[k])])
InBlocks(tlvs) ==
  /\ FlattenSeq(Build(tlvs)) = FlattenSeq(<<Header>> \o [k \in DOMAIN tlvs |-> TlvWords(k, tlvs[k])])
  /\ \A b \in DOMAIN Build(tlvs) : Len(Build(tlvs)[b]) \in 1..BlockSize

\* The blocks, written one after the other, are the header and the TLVs in the
\* order they were added, each in one piece, for all small messages the
\* callers could build before they send (AddAppDataEx, AddAppDataToTail).
SmallParts == {<<1>>, <<1, 1>>, <<1, 2>>, <<1, 3, 1>>}
SmallTlvs == UNION {[1..n -> SmallParts] : n \in 1..4}
BlocksAreTheMessage ==
  (\A t \in Thread : pc[t] = "idle") => \A tlvs \in SmallTlvs : Accepted(tlvs) => InBlocks(tlvs)
=============================================================================
