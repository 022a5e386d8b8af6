--------------------------- MODULE SpawnClientProofs ---------------------------
(***************************************************************************)
(* Theorems about SpawnClient, for any number of threads, connections,     *)
(* attempts, faults and callers: calls never meet on a connection, success *)
(* is the answer to one's own request, and no application is lost unless   *)
(* its service dies.                                                       *)
(* And for any list of TLVs and any size of a block: a message is built in *)
(* its blocks in the order its TLVs were added.                            *)
(***************************************************************************)
EXTENDS SpawnClient, FiniteSetTheorems, SequenceTheorems, NaturalsInduction,
        WellFoundedInduction, TLAPS

(***************************************************************************)
(* Types.                                                                  *)
(***************************************************************************)
Kinds == {"spawn", "listed", "web", "lock", "none"}
Steps == {"idle", "lock", "loop", "send", "efault", "read", "sent", "destroy", "done"}
What == {"req", "listen"}
Labels == Thread \X What
Names == (Thread \X Nat) \cup {NoApp}
Words == [of : Labels, i : Int, n : Nat \ {0}]
Replies == [ok : BOOLEAN, of : Labels \cup {<<>>}, app : Names, intact : BOOLEAN, cut : BOOLEAN]
Jobs == [of : Labels, intact : BOOLEAN]
ConnType == [svc : Service, cli : BOOLEAN, srv : BOOLEAN, in : Seq(Words), out : Seq(Replies),
             pend : SUBSET Jobs, cut : BOOLEAN]
MgrType == [alive : BOOLEAN, sock : Conn \cup {None}, owner : Thread \cup {None}]
IoType == [blk : Nat, written : Int, remain : Int, cuts : Nat]

\* The blocks of a message: at least one, each of at least two words.
BlocksInv(e) ==
  /\ e \in Seq(Nat) /\ e # <<>> /\ e[1] >= 2
  /\ \A a, b \in DOMAIN e : a < b => e[a] + 2 <= e[b]

CallInv ==
  /\ kind \in [Thread -> Kinds]
  /\ \A t, u \in Thread : kind[t] = "lock" /\ kind[u] = "lock" => t = u
  /\ BlocksInv(ends)

ThreadTypes ==
  /\ pc \in [Thread -> Steps] /\ svc \in [Thread -> Service] /\ cur \in [Thread -> What]
  /\ io \in [Thread -> IoType] /\ ret \in [Thread -> BOOLEAN]
  /\ result \in [Thread -> Replies] /\ dfRes \in [Thread -> Replies] /\ final \in [Thread -> Replies]

TypeInv ==
  /\ CallInv /\ ThreadTypes
  /\ mgr \in [Process -> [Service -> MgrType]]
  /\ conn \in [Conn -> ConnType]
  /\ live \subseteq Names \ {NoApp} /\ IsFiniteSet(live)

(***************************************************************************)
(* The mutex and the socket of a manager.                                  *)
(***************************************************************************)
Holding(t) == pc[t] \in {"loop", "send", "efault", "read"}

LockInv ==
  /\ \A p \in Process, s \in Service, t \in Thread :
       mgr[p][s].owner = t <=> Holding(t) /\ Proc(t) = p /\ svc[t] = s
  /\ \A p \in Process, s \in Service :
       ~mgr[p][s].alive => mgr[p][s].sock = None /\ mgr[p][s].owner = None
  /\ \A t \in Thread, s \in Service : pc[t] \notin {"idle", "done"} => mgr[Proc(t)][s].alive
  /\ \A t \in Thread : pc[t] = "destroy" => kind[t] = "lock"

SockInv ==
  /\ \A p \in Process, s \in Service : mgr[p][s].sock # None => conn[mgr[p][s].sock].cli
  /\ \A p, q \in Process, s, r \in Service :
       mgr[p][s].sock = mgr[q][r].sock /\ mgr[p][s].sock # None => p = q /\ s = r
  /\ \A c \in Conn : conn[c].cli => \E p \in Process, s \in Service : mgr[p][s].sock = c
  /\ \A t \in Thread : pc[t] = "read" => Sock(t) # None

(***************************************************************************)
(* The writing of a block.                                                 *)
(***************************************************************************)
IoInv ==
  \A t \in Thread : pc[t] = "send" =>
    LET b == io[t].blk
        len == BlockLen(cur[t], b)
    IN /\ b \in DOMAIN Blocks(cur[t])
       /\ io[t].written + io[t].remain = len /\ io[t].remain > 0
       /\ io[t].cuts = 0 => io[t].written = 0
       /\ io[t].cuts = 1 => io[t].written \in 1..(len - 1) \cup {-1}

(***************************************************************************)
(* The traffic of a connection.                                            *)
(***************************************************************************)
Sending(t) == pc[t] \in {"send", "efault", "read"}
Quiet(k) == k.in = <<>> /\ k.pend = {} /\ k.out = <<>>

\* Everything on the connection is of one message.
Only(k, l) ==
  /\ \A i \in DOMAIN k.in : k.in[i].of = l
  /\ \A i \in DOMAIN k.out : k.out[i].of = l
  /\ \A job \in k.pend : job.of = l

\* The first words of the message w of t.
Prefix(t, w, n) == [i \in 1..n |-> [of |-> <<t, w>>, i |-> i, n |-> Last(Blocks(w))]]

\* The n words written of it are on their way or, if they are all, taken up or
\* answered, and nothing else is there.
Exact(t, w, n, all, k) ==
  \/ k.in = Prefix(t, w, n) /\ k.pend = {} /\ k.out = <<>>
  \/ ~k.srv /\ Quiet(k)
  \/ all /\ k.in = <<>> /\ k.out = <<>> /\ k.pend = {[of |-> <<t, w>>, intact |-> TRUE]}
  \/ /\ all /\ k.in = <<>> /\ k.pend = {}
     /\ Len(k.out) = 1 /\ k.out[1].of = <<t, w>> /\ k.out[1].intact

\* What is on the connection k of a thread at p that is writing j of message w.
Carries(t, w, p, j, k) ==
  /\ Only(k, <<t, w>>)
  /\ p = "read" => Exact(t, w, Last(Blocks(w)), TRUE, k)
  /\ p = "send" /\ j.cuts = 0 => Exact(t, w, Before(w, j.blk), FALSE, k)

TrafficInv ==
  /\ \A c \in Conn : conn[c].cli /\ ~conn[c].cut =>
       Quiet(conn[c]) \/ \E t \in Thread : Sending(t) /\ Sock(t) = c
  /\ \A t \in Thread : Sending(t) /\ Sock(t) # None /\ ~conn[Sock(t)].cut =>
       Carries(t, cur[t], pc[t], io[t], conn[Sock(t)])

(***************************************************************************)
(* Answers.                                                                *)
(***************************************************************************)
\* A successful answer to a spawn request names an application.
Earned(apps, r) ==
  r.ok => \A t \in Thread : r.of = <<t, "req">> /\ IsSpawn(t) => r.app \in apps

Own(apps, t, r) == Earned(apps, r) /\ (r.ok /\ ~r.cut => r.of = <<t, "req">> /\ r.intact)

ReplyInv ==
  /\ \A c \in Conn : \A i \in DOMAIN conn[c].out : Earned(live, conn[c].out[i])
  /\ \A t \in Thread : Own(live, t, result[t])
  /\ \A t \in Thread : pc[t] = "done" /\ ~IsBroadcast(t) => Own(live, t, final[t])

\* An answer is kept once.
KeptInv ==
  \A t \in Thread :
    /\ result[t].app # NoApp =>
         IF IsBroadcast(t) THEN (pc[t] # "idle" /\ svc[t] = "df") \/ pc[t] \in {"sent", "destroy", "done"}
         ELSE pc[t] \in {"destroy", "done"} \/ (pc[t] = "sent" /\ ret[t])
    /\ dfRes[t].app # NoApp => IsBroadcast(t) /\ svc[t] = "df" /\ pc[t] \in {"sent", "destroy", "done"}

\* What was answered is known to someone, or was answered to nobody's ear.
LiveTraced ==
  \A a \in live :
    \/ a \in late
    \/ \E t \in Thread : a \in {result[t].app, dfRes[t].app}
    \/ \E c \in Conn : conn[c].cli /\ a \in Apps(conn[c].out)

ClientInv == TypeInv /\ LockInv /\ SockInv /\ IoInv /\ TrafficInv /\ ReplyInv /\ KeptInv /\ LiveTraced

(***************************************************************************)
(* What the operators of the model return.                                 *)
(***************************************************************************)
\* The blocks of a request or of a listen message.
LEMMA BlocksKnown ==
  ASSUME CallInv, NEW w \in What
  PROVE  BlocksInv(Blocks(w))
<1>1. BlocksInv(<<HdrLen + 1>>)
  <2>1. PICK h \in Nat : h = HdrLen + 1 /\ h >= 2
    BY ClientAssumption
  <2>2. /\ <<h>> \in Seq(Nat) /\ <<h>> # <<>> /\ <<h>>[1] >= 2
        /\ DOMAIN <<h>> \ {1} = {}
    BY <2>1
  <2>3. QED
    BY <2>1, <2>2 DEF BlocksInv
<1>2. QED
  BY <1>1 DEF Blocks, CallInv, What

LEMMA BlocksBounds ==
  ASSUME NEW e, BlocksInv(e)
  PROVE  /\ Len(e) \in Nat \ {0} /\ DOMAIN e = 1..Len(e) /\ 1 \in DOMAIN e
         /\ e[Len(e)] \in Nat \ {0}
         /\ \A b \in DOMAIN e : e[b] \in Nat
         /\ \A b \in DOMAIN e \ {1} : b - 1 \in DOMAIN e /\ e[b] >= e[b - 1] + 2
         /\ \A b \in DOMAIN e : b < Len(e) => e[b] < e[Len(e)]
<1>1. /\ Len(e) \in Nat \ {0} /\ DOMAIN e = 1..Len(e) /\ 1 \in DOMAIN e
      /\ \A b \in DOMAIN e : e[b] \in Nat
  BY DEF BlocksInv
<1>2. \A b \in DOMAIN e \ {1} : b - 1 \in DOMAIN e /\ e[b] >= e[b - 1] + 2
  BY <1>1 DEF BlocksInv
<1>3. e[Len(e)] >= 2
  <2>1. CASE Len(e) = 1
    BY <2>1 DEF BlocksInv
  <2>2. CASE Len(e) # 1
    <3>1. Len(e) \in DOMAIN e \ {1}
      BY <1>1, <2>2
    <3>2. e[Len(e)] >= e[Len(e) - 1] + 2 /\ e[Len(e) - 1] \in Nat /\ e[Len(e)] \in Nat
      BY <1>1, <1>2, <3>1
    <3>3. QED
      BY <3>2
  <2>3. QED
    BY <2>1, <2>2
<1>4. \A b \in DOMAIN e : b < Len(e) => e[b] < e[Len(e)]
  <2>1. ASSUME NEW b \in DOMAIN e, b < Len(e) PROVE e[b] < e[Len(e)]
    <3>1. Len(e) \in DOMAIN e
      BY <1>1
    <3>2. e[b] + 2 <= e[Len(e)] /\ e[b] \in Nat /\ e[Len(e)] \in Nat
      BY <1>1, <2>1, <3>1 DEF BlocksInv
    <3>3. QED
      BY <3>2
  <2>2. QED
    BY <2>1
<1>5. QED
  BY <1>1, <1>2, <1>3, <1>4

\* A block: where it begins, how long it is.
LEMMA BlockBounds ==
  ASSUME CallInv, NEW w \in What, NEW b \in DOMAIN Blocks(w)
  PROVE  /\ b \in Nat \ {0} /\ Before(w, b) \in Nat /\ BlockLen(w, b) \in Nat /\ BlockLen(w, b) >= 2
         /\ Before(w, b) + BlockLen(w, b) = Blocks(w)[b]
         /\ Before(w, b) < Last(Blocks(w)) /\ b <= Len(Blocks(w))
         /\ b < Len(Blocks(w)) => b + 1 \in DOMAIN Blocks(w) /\ Before(w, b + 1) = Blocks(w)[b]
         /\ b = Len(Blocks(w)) => Blocks(w)[b] = Last(Blocks(w))
         /\ Block(w, b) \in IoType
<1>1. PICK e : e = Blocks(w)
  OBVIOUS
<1>2. BlocksInv(e)
  BY <1>1, BlocksKnown
<1>3. /\ Len(e) \in Nat \ {0} /\ DOMAIN e = 1..Len(e)
      /\ \A x \in DOMAIN e : e[x] \in Nat
      /\ \A x \in DOMAIN e \ {1} : x - 1 \in DOMAIN e /\ e[x] >= e[x - 1] + 2
      /\ e[1] >= 2
  BY <1>2, BlocksBounds DEF BlocksInv
<1>4. /\ Before(w, b) \in Nat /\ BlockLen(w, b) \in Nat /\ BlockLen(w, b) >= 2
      /\ Before(w, b) + BlockLen(w, b) = e[b]
  BY <1>1, <1>3 DEF Before, BlockLen
<1>5. b < Len(e) => b + 1 \in DOMAIN e /\ Before(w, b + 1) = e[b]
  BY <1>1, <1>3 DEF Before
<1>6. Block(w, b) \in IoType
  <2>1. PICK l \in Nat : l = BlockLen(w, b)
    BY <1>4
  <2>2. b \in Nat
    BY <1>1, <1>3
  <2>3. QED
    BY <2>1, <2>2 DEF Block, IoType
<1>7. Before(w, b) < e[Len(e)] /\ b <= Len(e)
  <2>1. b \in DOMAIN e /\ b <= Len(e) /\ Before(w, b) < e[b]
    BY <1>1, <1>3, <1>4
  <2>2. e[b] <= e[Len(e)]
    <3>1. CASE b = Len(e)
      BY <1>3, <3>1
    <3>2. CASE b < Len(e)
      <4>1. e[b] < e[Len(e)]
        BY <1>2, <2>1, <3>2, BlocksBounds
      <4>2. e[b] \in Nat /\ e[Len(e)] \in Nat
        BY <1>2, <2>1, BlocksBounds
      <4>3. QED
        BY <4>1, <4>2
    <3>3. QED
      BY <1>1, <1>3, <3>1, <3>2
  <2>3. Before(w, b) \in Nat /\ e[b] \in Nat /\ e[Len(e)] \in Nat
    BY <1>1, <1>3, <1>4
  <2>4. QED
    BY <2>1, <2>2, <2>3
<1>8. QED
  BY <1>1, <1>3, <1>4, <1>5, <1>6, <1>7 DEF Last

LEMMA FirstBlockKnown ==
  ASSUME CallInv, NEW w \in What
  PROVE  1 \in DOMAIN Blocks(w) /\ Before(w, 1) = 0 /\ Last(Blocks(w)) \in Nat \ {0}
  BY BlocksKnown, BlocksBounds DEF Before, Last

LEMMA WordTyped ==
  ASSUME CallInv, cur \in [Thread -> What], NEW t \in Thread, NEW i \in Int
  PROVE  Word(t, i) \in Words
<1>1. cur[t] \in What /\ <<t, cur[t]>> \in Labels
  BY DEF Labels
<1>2. PICK n \in Nat \ {0} : n = Last(Blocks(cur[t]))
  BY <1>1, FirstBlockKnown
<1>3. QED
  BY <1>1, <1>2 DEF Word, Words

\* What a write adds to a connection.
LEMMA WrittenWords ==
  ASSUME CallInv, cur \in [Thread -> What], NEW t \in Thread, NEW a \in Nat, NEW n \in Nat \cup {-1}
  PROVE  /\ [i \in 1..n |-> Word(t, a + i)] \in Seq(Words)
         /\ \A i \in DOMAIN [j \in 1..n |-> Word(t, a + j)] :
              [j \in 1..n |-> Word(t, a + j)][i].of = <<t, cur[t]>>
<1>1. \A i \in 1..n : Word(t, a + i) \in Words /\ Word(t, a + i).of = <<t, cur[t]>>
  <2>1. \A i \in 1..n : a + i \in Int
    OBVIOUS
  <2>2. \A i \in 1..n : Word(t, a + i) \in Words
    BY <2>1, WordTyped
  <2>3. QED
    BY <2>2 DEF Word
<1>2. PICK k \in Nat : 1..n = 1..k
  <2>1. CASE n \in Nat
    BY <2>1
  <2>2. CASE n = -1
    <3>1. 1..n = 1..0
      BY <2>2
    <3>2. QED
      BY <3>1
  <2>3. QED
    BY <2>1, <2>2
<1>3. [i \in 1..n |-> Word(t, a + i)] \in [1..k -> Words]
  BY <1>1, <1>2
<1>4. [i \in 1..n |-> Word(t, a + i)] \in Seq(Words)
  BY <1>3
<1>5. QED
  BY <1>1, <1>4

LEMMA ClosedTyped ==
  ASSUME NEW k \in ConnType
  PROVE  /\ Unused \in ConnType
         /\ ClosedByClient(k) \in ConnType /\ ClosedByClient(k).cli = FALSE
         /\ ClosedByService(k) \in ConnType
<1>1. <<>> \in Seq(Words) /\ <<>> \in Seq(Replies) /\ {} \in SUBSET Jobs
  OBVIOUS
<1>2. Unused \in ConnType
  BY <1>1 DEF Unused, ConnType, Service
<1>3. [k EXCEPT !.cli = FALSE, !.in = <<>>, !.out = <<>>] \in ConnType
  BY <1>1 DEF ConnType
<1>4. [k EXCEPT !.srv = FALSE, !.in = <<>>, !.pend = {}] \in ConnType
  BY <1>1 DEF ConnType
<1>5. [k EXCEPT !.cli = FALSE, !.in = <<>>, !.out = <<>>].cli = FALSE /\ Unused.cli = FALSE
  BY DEF ConnType, Unused
<1>6. QED
  BY <1>2, <1>3, <1>4, <1>5 DEF ClosedByClient, ClosedByService

\* The answer ok about app to the request of job (SvcAnswer).
Answered(c, job, ok, app) ==
  /\ app = (IF ok THEN NewApp(job) ELSE NoApp)
  /\ conn' = [conn EXCEPT ![c].pend = @ \ {job},
                ![c].out = Append(@, [ok |-> ok, of |-> job.of, intact |-> job.intact, app |-> app, cut |-> FALSE])]
  /\ live' = live \cup ({app} \ {NoApp})

LEMMA NewAppNamed ==
  ASSUME TypeInv, NEW job \in Jobs
  PROVE  NewApp(job) \in Names
<1>1. \A t : Cardinality({a \in live : a[1] = t}) + 1 \in Nat
  <2>1. ASSUME NEW t PROVE Cardinality({a \in live : a[1] = t}) + 1 \in Nat
    <3>1. IsFiniteSet({a \in live : a[1] = t})
      BY FS_Subset DEF TypeInv
    <3>2. Cardinality({a \in live : a[1] = t}) \in Nat
      BY <3>1, FS_CardinalityType
    <3>3. QED
      BY <3>2
  <2>2. QED
    BY <2>1
<1>2. job.of[1] \in Thread
  BY DEF Jobs, Labels
<1>3. QED
  BY <1>1, <1>2 DEF NewApp, Names

(***************************************************************************)
(* What a step leaves alone.                                               *)
(***************************************************************************)
\* The callers and their messages are fixed.
LEMMA CallsFixed ==
  ASSUME [Next]_vars
  PROVE  /\ UNCHANGED cvars
         /\ CallInv => CallInv'
         /\ \A t \in Thread : /\ Proc(t)' = Proc(t) /\ IsSpawn(t)' = IsSpawn(t)
                              /\ IsBroadcast(t)' = IsBroadcast(t)
         /\ \A w, b : /\ Blocks(w)' = Blocks(w) /\ Before(w, b)' = Before(w, b)
                      /\ BlockLen(w, b)' = BlockLen(w, b)
<1>1. UNCHANGED cvars
  <2>1. ASSUME NEW t \in Thread, ThreadNext(t) PROVE UNCHANGED cvars
    BY <2>1 DEF ThreadNext, Begin, ClientSendMsgLocked, TryCreateSocket, CreateClientSocket, SpawnListen, StartSend,
         WriteMessage, WriteFails, ReadMessage, ReadFails, GiveUp, Onward, Return,
         AppSpawnClientDestroy, CloseAndRetry
  <2>2. ASSUME NEW c \in Conn, SvcAccept(c) \/ SvcRefuse(c) \/ SvcAnswer(c) \/ SvcClose(c)
        PROVE UNCHANGED cvars
    BY <2>2 DEF SvcAccept, SvcRefuse, SvcAnswer, SvcClose
  <2>3. ASSUME NEW s \in Service, SvcDies(s) \/ SvcStarts(s) PROVE UNCHANGED cvars
    BY <2>3 DEF SvcDies, SvcStarts
  <2>4. SpawnListenCloseSet => UNCHANGED cvars
    BY DEF SpawnListenCloseSet
  <2>5. UNCHANGED vars => UNCHANGED cvars
    BY DEF vars
  <2>6. QED
    BY <2>1, <2>2, <2>3, <2>4, <2>5 DEF Next
<1>2. kind' = kind /\ ends' = ends
  BY <1>1 DEF cvars
<1>3. QED
  BY <1>1, <1>2 DEF CallInv, Proc, IsSpawn, IsBroadcast, Blocks, Before, BlockLen

LEMMA ProcKnown ==
  ASSUME NEW t \in Thread
  PROVE  Proc(t) \in Process
  BY DEF Proc, Process

\* The manager of t gets an owner.
LEMMA SetsOwner ==
  ASSUME mgr \in [Process -> [Service -> MgrType]], NEW p \in Process, NEW s \in Service,
         NEW v \in Thread \cup {None}, mgr' = [mgr EXCEPT ![p][s].owner = v]
  PROVE  /\ mgr' \in [Process -> [Service -> MgrType]]
         /\ mgr'[p][s].owner = v
         /\ \A q \in Process, r \in Service :
              /\ mgr'[q][r].alive = mgr[q][r].alive /\ mgr'[q][r].sock = mgr[q][r].sock
              /\ q # p \/ r # s => mgr'[q][r].owner = mgr[q][r].owner
  BY DEF MgrType

\* The manager of t gets a socket.
LEMMA SetsSock ==
  ASSUME mgr \in [Process -> [Service -> MgrType]], NEW p \in Process, NEW s \in Service,
         NEW v \in Conn \cup {None}, mgr' = [mgr EXCEPT ![p][s].sock = v]
  PROVE  /\ mgr' \in [Process -> [Service -> MgrType]]
         /\ mgr'[p][s].sock = v
         /\ \A q \in Process, r \in Service :
              /\ mgr'[q][r].alive = mgr[q][r].alive /\ mgr'[q][r].owner = mgr[q][r].owner
              /\ q # p \/ r # s => mgr'[q][r].sock = mgr[q][r].sock
  BY DEF MgrType

\* AppSpawnClientInit makes what was missing.
LEMMA BeginKeeps ==
  ASSUME TypeInv, LockInv, NEW t \in Thread, Begin(t)
  PROVE  /\ mgr' \in [Process -> [Service -> MgrType]]
         /\ \A q \in Process, r \in Service :
              /\ mgr'[q][r].sock = mgr[q][r].sock /\ mgr'[q][r].owner = mgr[q][r].owner
              /\ mgr[q][r].alive \/ q = Proc(t) => mgr'[q][r].alive
              /\ ~mgr'[q][r].alive => ~mgr[q][r].alive
<1>1. mgr \in [Process -> [Service -> MgrType]] /\ Proc(t) \in Process
  BY ProcKnown DEF TypeInv
<1>2. FreshMgr \in MgrType /\ FreshMgr.alive /\ FreshMgr.sock = None /\ FreshMgr.owner = None
  BY DEF FreshMgr, MgrType
<1>3. mgr' = [mgr EXCEPT ![Proc(t)] = [s \in Service |-> InitClientInstance(mgr[Proc(t)][s])]]
  BY DEF Begin
<1>4. \A q \in Process, r \in Service :
        mgr'[q][r] = IF q = Proc(t) THEN InitClientInstance(mgr[q][r]) ELSE mgr[q][r]
  BY <1>1, <1>3
<1>5. \A m \in MgrType : InitClientInstance(m) \in MgrType /\ InitClientInstance(m).alive
  BY <1>2 DEF InitClientInstance, MgrType
<1>6. mgr' \in [Process -> [Service -> MgrType]]
  BY <1>1, <1>3, <1>5
<1>7. \A q \in Process, r \in Service :
        ~mgr[q][r].alive => mgr[q][r].sock = None /\ mgr[q][r].owner = None
  BY DEF LockInv
<1>8. ASSUME NEW q \in Process, NEW r \in Service
      PROVE  /\ mgr'[q][r].sock = mgr[q][r].sock /\ mgr'[q][r].owner = mgr[q][r].owner
             /\ mgr[q][r].alive \/ q = Proc(t) => mgr'[q][r].alive
             /\ ~mgr'[q][r].alive => ~mgr[q][r].alive
  <2>1. mgr[q][r] \in MgrType
    BY <1>1
  <2>2. QED
    BY <1>2, <1>4, <1>5, <1>7, <2>1 DEF InitClientInstance
<1>9. QED
  BY <1>6, <1>8

(***************************************************************************)
(* The initial states.                                                     *)
(***************************************************************************)
LEMMA RepliesTyped ==
  NoReply \in Replies /\ ZeroReply \in Replies /\ ~NoReply.ok /\ NoReply.app = NoApp /\ ZeroReply.app = NoApp
  BY DEF NoReply, ZeroReply, Replies, Names, NoApp

LEMMA InitClient == Init => ClientInv
<1> SUFFICES ASSUME Init PROVE ClientInv
  OBVIOUS
<1>1. CallInv
  <2>1. PICK call \in Callers : kind = call.kinds /\ ends = Ends(Build(call.tlvs))
    BY DEF Init
  <2>2. call.kinds \in [Thread -> Kinds]
    BY CallersAssumption DEF Kinds
  <2>3. \A t, u \in Thread : call.kinds[t] = "lock" /\ call.kinds[u] = "lock" => t = u
    BY CallersAssumption
  <2>4. BlocksInv(Ends(Build(call.tlvs)))
    BY CallersAssumption DEF BlocksInv
  <2>5. QED
    BY <2>1, <2>2, <2>3, <2>4 DEF CallInv
<1>2. IdleIo \in IoType /\ NoMgr \in MgrType /\ Unused \in ConnType
  <2>1. Unused \in ConnType
    BY DEF Unused, ConnType, Service
  <2>2. IdleIo \in IoType
    BY DEF IdleIo, IoType
  <2>3. NoMgr \in MgrType
    BY DEF NoMgr, FreshMgr, MgrType
  <2>4. QED
    BY <2>1, <2>2, <2>3
<1>3. /\ \A t \in Thread : /\ pc[t] = "idle" /\ svc[t] = "main" /\ cur[t] = "req" /\ io[t] = IdleIo
                          /\ result[t] = NoReply /\ dfRes[t] = ZeroReply
      /\ \A p \in Process, s \in Service : mgr[p][s] = NoMgr
      /\ \A c \in Conn : conn[c] = Unused
      /\ live = {}
  BY DEF Init
<1>4. ThreadTypes
  BY <1>2, RepliesTyped DEF Init, ThreadTypes, Steps, Service, What
<1>5. mgr \in [Process -> [Service -> MgrType]] /\ conn \in [Conn -> ConnType]
  BY <1>2 DEF Init
<1>6. TypeInv
  BY <1>1, <1>3, <1>4, <1>5, FS_EmptySet DEF TypeInv
<1>7. NoMgr.sock = None /\ NoMgr.owner = None
  BY DEF NoMgr, FreshMgr
<1>8. Unused.cli = FALSE /\ Unused.out = <<>>
  BY DEF Unused
<1>9. LockInv
  BY <1>3, <1>7, ClientAssumption DEF LockInv, Holding
<1>10. SockInv
  BY <1>3, <1>7, <1>8 DEF SockInv
<1>11. IoInv /\ TrafficInv
  BY <1>3, <1>8 DEF IoInv, TrafficInv, Sending
<1>12. ReplyInv
  <2>1. \A t \in Thread : Own(live, t, result[t])
    BY <1>3, RepliesTyped DEF Own, Earned
  <2>2. \A c \in Conn : DOMAIN conn[c].out = {}
    BY <1>3, <1>8
  <2>3. QED
    BY <1>3, <2>1, <2>2 DEF ReplyInv
<1>13. KeptInv /\ LiveTraced
  BY <1>3, RepliesTyped DEF KeptInv, LiveTraced
<1>14. QED
  BY <1>6, <1>9, <1>10, <1>11, <1>12, <1>13 DEF ClientInv

(***************************************************************************)
(* Every step keeps the types.                                             *)
(***************************************************************************)
\* The end of an attempt.
LEMMA CloseTyped ==
  ASSUME TypeInv, NEW t \in Thread, CloseAndRetry(t)
  PROVE  ThreadTypes' /\ mgr' \in [Process -> [Service -> MgrType]] /\ conn' \in [Conn -> ConnType]
<1>1. mgr \in [Process -> [Service -> MgrType]] /\ conn \in [Conn -> ConnType] /\ ThreadTypes
  BY DEF TypeInv
<1>2. Proc(t) \in Process /\ svc[t] \in Service /\ Sock(t) \in Conn \cup {None}
  BY <1>1, ProcKnown DEF ThreadTypes, Sock, Mgr, MgrType
<1>3. mgr' \in [Process -> [Service -> MgrType]]
  BY <1>1, <1>2, SetsSock DEF CloseAndRetry
<1>4. conn' \in [Conn -> ConnType]
  BY <1>1, <1>2, ClosedTyped DEF CloseAndRetry
<1>5. ThreadTypes'
  BY <1>1 DEF CloseAndRetry, ThreadTypes, Steps
<1>6. QED
  BY <1>3, <1>4, <1>5

LEMMA CompleteKnown ==
  ASSUME NEW q \in Seq(Words), Complete(q)
  PROVE  q[1] \in Words /\ q[1].n \in Nat \ {0} /\ q[1].n <= Len(q) /\ q[1].i = 1
<1>1. Len(q) >= 1
  BY DEF Complete
<1>2. q[1] \in Words
  BY <1>1
<1>3. QED
  BY <1>2 DEF Complete, Words

LEMMA ListenReturnsTyped ==
  ASSUME TypeInv, NEW t \in Thread, NEW ok, ListenReturns(t, ok)
  PROVE  /\ pc' \in [Thread -> Steps] /\ cur' \in [Thread -> What] /\ io' \in [Thread -> IoType]
<1>1. Block("req", 1) \in IoType
  BY FirstBlockKnown, BlockBounds DEF TypeInv, What
<1>2. QED
  BY <1>1 DEF TypeInv, ThreadTypes, ListenReturns, Steps, What

LEMMA TypeStep ==
  ASSUME TypeInv, LockInv, SockInv, IoInv, [Next]_vars
  PROVE  TypeInv'
<1>1. mgr \in [Process -> [Service -> MgrType]] /\ conn \in [Conn -> ConnType] /\ ThreadTypes /\ CallInv
  BY DEF TypeInv
<1> DEFINE Rest == /\ ThreadTypes' /\ mgr' \in [Process -> [Service -> MgrType]] /\ conn' \in [Conn -> ConnType]
                   /\ live' \subseteq Names \ {NoApp} /\ IsFiniteSet(live')
<1>2. SUFFICES Rest
  BY CallsFixed DEF TypeInv
<1>3. live \subseteq Names \ {NoApp} /\ IsFiniteSet(live)
  BY DEF TypeInv
<1>4. ASSUME NEW t \in Thread, ThreadNext(t) PROVE Rest
  <2>1. Proc(t) \in Process /\ svc[t] \in Service /\ cur[t] \in What /\ io[t] \in IoType
        /\ Sock(t) \in Conn \cup {None}
    BY <1>1, ProcKnown DEF ThreadTypes, Sock, Mgr, MgrType
  <2>2. live' = live
    BY <1>4 DEF ThreadNext, Begin, ClientSendMsgLocked, TryCreateSocket, CreateClientSocket, SpawnListen, StartSend,
         WriteMessage, WriteFails, ReadMessage, ReadFails, GiveUp, Onward, Return,
         AppSpawnClientDestroy, CloseAndRetry, svars
  <2>3. SUFFICES ThreadTypes' /\ mgr' \in [Process -> [Service -> MgrType]] /\ conn' \in [Conn -> ConnType]
    BY <1>3, <2>2
  <2>4. CASE Begin(t)
    <3>1. mgr' \in [Process -> [Service -> MgrType]]
      BY <2>4, BeginKeeps
    <3>2. QED
      BY <1>1, <2>4, <3>1 DEF Begin, ThreadTypes, Steps, Service
  <2>5. CASE ClientSendMsgLocked(t)
    <3>1. mgr' \in [Process -> [Service -> MgrType]]
      BY <1>1, <2>1, <2>5, SetsOwner DEF ClientSendMsgLocked
    <3>2. QED
      BY <1>1, <2>5, <3>1 DEF ClientSendMsgLocked, ThreadTypes, Steps
  <2>6. CASE TryCreateSocket(t)
    <3>1. ThreadTypes'
      BY <1>1, <2>6 DEF TryCreateSocket, CreateClientSocket, ThreadTypes
    <3>2. CASE UNCHANGED <<mgr, conn>>
      BY <1>1, <3>1, <3>2
    <3>3. ASSUME NEW c \in Conn,
                 conn' = [conn EXCEPT ![c] = [Unused EXCEPT !.svc = svc[t], !.cli = TRUE, !.srv = TRUE]],
                 mgr' = [mgr EXCEPT ![Proc(t)][svc[t]].sock = c]
          PROVE  mgr' \in [Process -> [Service -> MgrType]] /\ conn' \in [Conn -> ConnType]
      <4>1. mgr' \in [Process -> [Service -> MgrType]]
        BY <1>1, <2>1, <3>3, SetsSock
      <4>2. [Unused EXCEPT !.svc = svc[t], !.cli = TRUE, !.srv = TRUE] \in ConnType
        <5>1. Unused \in ConnType
          BY <1>1, ClosedTyped
        <5>2. QED
          BY <2>1, <5>1 DEF ConnType
      <4>3. QED
        BY <1>1, <3>3, <4>1, <4>2
    <3>4. \/ UNCHANGED <<mgr, conn>>
          \/ \E c \in Conn :
               /\ conn' = [conn EXCEPT ![c] = [Unused EXCEPT !.svc = svc[t], !.cli = TRUE, !.srv = TRUE]]
               /\ mgr' = [mgr EXCEPT ![Proc(t)][svc[t]].sock = c]
      BY <2>6 DEF TryCreateSocket, CreateClientSocket
    <3>5. QED
      BY <3>1, <3>2, <3>3, <3>4
  <2>7. CASE SpawnListen(t)
    BY <1>1, <2>7 DEF SpawnListen, ThreadTypes, What
  <2>8. CASE StartSend(t)
    <3>1. Block(cur[t], 1) \in IoType
      BY <1>1, <2>1, FirstBlockKnown, BlockBounds
    <3>2. QED
      BY <1>1, <2>8, <3>1 DEF StartSend, ThreadTypes, Steps
  <2>9. CASE WriteMessage(t)
    <3> DEFINE b == io[t].blk
               len == BlockLen(cur[t], b)
               pre == Before(cur[t], b)
    <3>1. /\ pc[t] = "send" /\ Sock(t) \in Conn /\ b \in DOMAIN Blocks(cur[t]) /\ len \in Nat
          /\ pre \in Nat /\ Block(cur[t], b) \in IoType
          /\ b < Len(Blocks(cur[t])) => Block(cur[t], b + 1) \in IoType
      <4>1. pc[t] = "send" /\ Sock(t) \in Conn
        BY <2>1, <2>9 DEF WriteMessage, Connected
      <4>2. b \in DOMAIN Blocks(cur[t])
        BY <4>1 DEF IoInv
      <4>3. QED
        BY <1>1, <2>1, <4>1, <4>2, BlockBounds
    <3>2. PICK n \in 1..len \cup {-1} :
            LET remain == io[t].remain - n
                written == io[t].written + n
                cuts == io[t].cuts + (IF n = len THEN 0 ELSE 1)
                again == [blk |-> b, written |-> written, remain |-> remain, cuts |-> cuts]
                sent == remain <= 0 /\ BlockSent(written, len)
            IN /\ conn' = [conn EXCEPT ![Sock(t)].in = @ \o [i \in 1..n |-> Word(t, pre + i)],
                                       ![Sock(t)].cut = @ \/ (sent /\ cuts >= 2)]
               /\ \/ remain > 0 /\ io' = [io EXCEPT ![t] = again] /\ UNCHANGED pc
                  \/ sent /\ b < Len(Blocks(cur[t])) /\ io' = [io EXCEPT ![t] = Block(cur[t], b + 1)] /\ UNCHANGED pc
                  \/ sent /\ b = Len(Blocks(cur[t])) /\ io' = [io EXCEPT ![t] = again] /\ pc' = [pc EXCEPT ![t] = "read"]
                  \/ /\ remain <= 0 /\ ~BlockSent(written, len)
                     /\ io' = [io EXCEPT ![t] = again] /\ pc' = [pc EXCEPT ![t] = "efault"]
      BY <2>9, Zenon DEF WriteMessage
    <3>3. PICK again \in IoType :
            again = [blk |-> b, written |-> io[t].written + n, remain |-> io[t].remain - n,
                     cuts |-> io[t].cuts + (IF n = len THEN 0 ELSE 1)]
      <4>1. io[t].written \in Int /\ io[t].remain \in Int /\ io[t].cuts \in Nat /\ b \in Nat
        BY <2>1 DEF IoType
      <4>2. n \in Int
        BY <3>1
      <4>3. PICK w \in Int : w = io[t].written + n
        BY <4>1, <4>2
      <4>4. PICK r \in Int : r = io[t].remain - n
        BY <4>1, <4>2
      <4>5. PICK k \in Nat : k = io[t].cuts + (IF n = len THEN 0 ELSE 1)
        BY <4>1
      <4>6. QED
        BY <4>1, <4>3, <4>4, <4>5 DEF IoType
    <3>4. io' \in [Thread -> IoType] /\ pc' \in [Thread -> Steps]
      <4>1. \/ io' = [io EXCEPT ![t] = again]
            \/ b < Len(Blocks(cur[t])) /\ io' = [io EXCEPT ![t] = Block(cur[t], b + 1)]
        BY <3>2, <3>3
      <4>2. pc' = pc \/ pc' = [pc EXCEPT ![t] = "read"] \/ pc' = [pc EXCEPT ![t] = "efault"]
        BY <3>2
      <4>3. io' \in [Thread -> IoType]
        BY <1>1, <3>1, <3>3, <4>1 DEF ThreadTypes
      <4>4. QED
        BY <1>1, <4>2, <4>3 DEF ThreadTypes, Steps
    <3>5. ThreadTypes'
      BY <1>1, <2>9, <3>4 DEF WriteMessage, ThreadTypes
    <3>6. conn' \in [Conn -> ConnType]
      <4>1. PICK words \in Seq(Words), x \in BOOLEAN :
              conn' = [conn EXCEPT ![Sock(t)].in = @ \o words, ![Sock(t)].cut = @ \/ x]
        <5>1. [i \in 1..n |-> Word(t, pre + i)] \in Seq(Words)
          <6>1. n \in Nat \cup {-1}
            BY <3>1
          <6>2. QED
            BY <1>1, <3>1, <6>1, WrittenWords DEF ThreadTypes
        <5>2. QED
          BY <3>2, <5>1
      <4>2. conn[Sock(t)].in \o words \in Seq(Words) /\ conn[Sock(t)].cut \in BOOLEAN
        BY <1>1, <3>1 DEF ConnType
      <4>3. PICK y \in Seq(Words), z \in BOOLEAN :
              y = conn[Sock(t)].in \o words /\ z = (conn[Sock(t)].cut \/ x)
        BY <4>2
      <4>4. conn' = [conn EXCEPT ![Sock(t)].in = y, ![Sock(t)].cut = z]
        BY <4>1, <4>3
      <4>5. QED
        BY <1>1, <3>1, <4>4, ZenonT(40) DEF ConnType
    <3>7. mgr' = mgr
      BY <2>9 DEF WriteMessage
    <3>8. QED
      BY <1>1, <3>5, <3>6, <3>7
  <2>10. CASE WriteFails(t) \/ ReadFails(t)
    BY <2>10, CloseTyped DEF WriteFails, ReadFails
  <2>11. CASE ReadMessage(t)
    <3>1. pc[t] = "read" /\ Sock(t) \in Conn
      BY <2>1, <2>11 DEF ReadMessage, SockInv
    <3>2. conn' \in [Conn -> ConnType]
      <4>1. conn' = [conn EXCEPT ![Sock(t)].out = <<>>] /\ <<>> \in Seq(Replies)
        BY <2>11 DEF ReadMessage
      <4>2. QED
        BY <1>1, <3>1, <4>1 DEF ConnType
    <3>3. CASE cur[t] = "listen"
      <4>1. ListenReturns(t, Head(conn[Sock(t)].out).ok)
            /\ UNCHANGED <<svc, ret, result, dfRes, final, mgr>>
        BY <2>11, <3>3 DEF ReadMessage
      <4>2. pc' \in [Thread -> Steps] /\ cur' \in [Thread -> What] /\ io' \in [Thread -> IoType]
        BY <4>1, ListenReturnsTyped
      <4>3. QED
        BY <1>1, <3>2, <4>1, <4>2 DEF ThreadTypes
    <3>4. CASE cur[t] # "listen"
      <4>1. PICK r : r = [Head(conn[Sock(t)].out) EXCEPT !.cut = conn[Sock(t)].cut]
        OBVIOUS
      <4>2. r \in Replies
        <5>1. conn[Sock(t)].out \in Seq(Replies) /\ conn[Sock(t)].out # <<>> /\ conn[Sock(t)].cut \in BOOLEAN
          BY <1>1, <2>11, <3>1 DEF ReadMessage, ConnType
        <5>2. Head(conn[Sock(t)].out) \in Replies
          BY <5>1
        <5>3. QED
          BY <4>1, <5>1, <5>2 DEF Replies
      <4>3. StoreResult(t, r) /\ StoreRet(t, TRUE) /\ Unlock(t) /\ pc' = [pc EXCEPT ![t] = "sent"]
            /\ UNCHANGED <<svc, cur, io, final>>
        BY <2>11, <3>4, <4>1 DEF ReadMessage
      <4>4. mgr' \in [Process -> [Service -> MgrType]]
        BY <1>1, <2>1, <4>3, SetsOwner DEF Unlock
      <4>5. result' \in [Thread -> Replies] /\ dfRes' \in [Thread -> Replies] /\ ret' \in [Thread -> BOOLEAN]
        BY <1>1, <4>2, <4>3 DEF ThreadTypes, StoreResult, StoreRet
      <4>6. QED
        BY <1>1, <3>2, <4>3, <4>4, <4>5 DEF ThreadTypes, Steps
    <3>5. QED
      BY <3>3, <3>4
  <2>12. CASE GiveUp(t)
    <3>1. CASE cur[t] = "listen"
      <4>1. ListenReturns(t, FALSE) /\ UNCHANGED <<svc, ret, result, dfRes, final, mgr, conn>>
        BY <2>12, <3>1 DEF GiveUp
      <4>2. pc' \in [Thread -> Steps] /\ cur' \in [Thread -> What] /\ io' \in [Thread -> IoType]
        BY <4>1, ListenReturnsTyped
      <4>3. QED
        BY <1>1, <4>1, <4>2 DEF ThreadTypes
    <3>2. CASE cur[t] # "listen"
      <4>1. StoreRet(t, FALSE) /\ Unlock(t) /\ pc' = [pc EXCEPT ![t] = "sent"]
            /\ UNCHANGED <<svc, cur, io, result, dfRes, final, conn>>
        BY <2>12, <3>2 DEF GiveUp
      <4>2. mgr' \in [Process -> [Service -> MgrType]]
        BY <1>1, <2>1, <4>1, SetsOwner DEF Unlock
      <4>3. QED
        BY <1>1, <4>1, <4>2 DEF ThreadTypes, Steps, StoreRet
    <3>3. QED
      BY <3>1, <3>2
  <2>13. CASE Onward(t)
    BY <1>1, <2>13 DEF Onward, ThreadTypes, Steps, Service
  <2>14. CASE Return(t)
    <3>1. PICK f : f = [result[t] EXCEPT !.ok = ret[t] /\ (IF IsBroadcast(t) THEN MergeBroadcastResult(t) ELSE @)]
      OBVIOUS
    <3>2. f \in Replies
      <4>1. result[t] \in Replies /\ dfRes[t] \in Replies /\ ret[t] \in BOOLEAN
        BY <1>1 DEF ThreadTypes
      <4>2. (ret[t] /\ (IF IsBroadcast(t) THEN MergeBroadcastResult(t) ELSE result[t].ok)) \in BOOLEAN
        OBVIOUS
      <4>3. QED
        BY <3>1, <4>1, <4>2 DEF Replies
    <3>3. IdleIo \in IoType
      BY DEF IdleIo, IoType
    <3>4. final' = [final EXCEPT ![t] = f] /\ io' = [io EXCEPT ![t] = IdleIo]
          /\ pc' = [pc EXCEPT ![t] = IF kind[t] = "lock" THEN "destroy" ELSE "done"]
          /\ UNCHANGED <<svc, cur, ret, result, dfRes, mgr, conn>>
      BY <2>14, <3>1 DEF Return
    <3>5. QED
      BY <1>1, <3>2, <3>3, <3>4 DEF ThreadTypes, Steps
  <2>15. CASE AppSpawnClientDestroy(t)
    <3>1. "storage" \in Process /\ "main" \in Service /\ NoMgr \in MgrType
      BY DEF Process, Service, NoMgr, FreshMgr, MgrType
    <3>2. mgr' \in [Process -> [Service -> MgrType]]
      BY <1>1, <2>15, <3>1 DEF AppSpawnClientDestroy
    <3>3. mgr["storage"]["main"].sock \in Conn \cup {None}
      BY <1>1, <3>1 DEF MgrType
    <3>4. conn' \in [Conn -> ConnType]
      BY <1>1, <2>15, <3>3, ClosedTyped, ZenonT(40) DEF AppSpawnClientDestroy
    <3>5. QED
      BY <1>1, <2>15, <3>2, <3>4 DEF AppSpawnClientDestroy, ThreadTypes, Steps
  <2>16. QED
    BY <1>4, <2>4, <2>5, <2>6, <2>7, <2>8, <2>9, <2>10, <2>11, <2>12, <2>13, <2>14, <2>15
    DEF ThreadNext
<1>5. ASSUME NEW c \in Conn, SvcAccept(c) PROVE Rest
  <2>1. conn[c].in \in Seq(Words) /\ Complete(conn[c].in)
    BY <1>1, <1>5 DEF SvcAccept, ConnType
  <2>2. PICK n \in Nat \ {0}, f \in Words : f = conn[c].in[1] /\ n = conn[c].in[1].n /\ n <= Len(conn[c].in)
    BY <2>1, CompleteKnown
  <2>3. SubSeq(conn[c].in, n + 1, Len(conn[c].in)) \in Seq(Words)
    BY <2>1, <2>2
  <2>4. PICK m : m = SubSeq(conn[c].in, 1, n) /\ m[1] = f
    <3>1. SubSeq(conn[c].in, 1, n)[1] = conn[c].in[1]
      <4>1. PICK q \in Seq(Words) : q = conn[c].in
        BY <2>1
      <4>2. n <= Len(q) /\ n \in Nat \ {0}
        BY <2>2, <4>1
      <4>3. SubSeq(q, 1, n)[1] = q[1]
        BY <4>2
      <4>4. QED
        BY <4>1, <4>3
    <3>2. QED
      BY <2>2, <3>1
  <2>5. [of |-> m[1].of, intact |-> IsIntact(m)] \in Jobs
    <3>1. IsIntact(m) \in BOOLEAN
      BY DEF IsIntact
    <3>2. f.of \in Labels
      BY <2>2 DEF Words
    <3>3. QED
      BY <2>4, <3>1, <3>2 DEF Jobs
  <2>6. conn' = [conn EXCEPT ![c].in = SubSeq(@, n + 1, Len(@)),
                             ![c].pend = @ \cup {[of |-> m[1].of, intact |-> IsIntact(m)]}]
    BY <1>5, <2>2, <2>4 DEF SvcAccept
  <2>7. conn' \in [Conn -> ConnType]
    BY <1>1, <2>3, <2>5, <2>6, ZenonT(40) DEF ConnType
  <2>8. QED
    BY <1>1, <1>3, <1>5, <2>7 DEF SvcAccept, tvars, svars, ThreadTypes
<1>6. ASSUME NEW c \in Conn, SvcRefuse(c) \/ SvcClose(c) PROVE Rest
  <2>1. conn' = [conn EXCEPT ![c] = ClosedByService(@)] \/ conn' = [conn EXCEPT ![c] = Unused]
    BY <1>6 DEF SvcRefuse, SvcClose
  <2>2. conn' \in [Conn -> ConnType]
    BY <1>1, <2>1, ClosedTyped
  <2>3. QED
    BY <1>1, <1>3, <1>6, <2>2 DEF SvcRefuse, SvcClose, tvars, svars, ThreadTypes
<1>7. ASSUME NEW c \in Conn, SvcAnswer(c) PROVE Rest
  <2>0. PICK job \in conn[c].pend, ok \in BOOLEAN : \E app : Answered(c, job, ok, app)
    BY <1>7, Zenon DEF SvcAnswer, Answered
  <2>1. PICK app : Answered(c, job, ok, app)
    BY <2>0
  <2>2. job \in Jobs
    BY <1>1 DEF ConnType
  <2>3. app \in Names
    BY <2>1, <2>2, NewAppNamed DEF Names, Answered
  <2>4. PICK r \in Replies : r = [ok |-> ok, of |-> job.of, intact |-> job.intact, app |-> app, cut |-> FALSE]
    BY <2>2, <2>3 DEF Replies, Jobs
  <2>5. conn[c].pend \ {job} \in SUBSET Jobs /\ Append(conn[c].out, r) \in Seq(Replies)
    BY <1>1 DEF ConnType
  <2>6. conn' \in [Conn -> ConnType]
    BY <1>1, <2>1, <2>4, <2>5, SMTT(30) DEF ConnType, Answered
  <2>7. live' \subseteq Names \ {NoApp}
    BY <1>3, <2>1, <2>3 DEF Answered
  <2>8. IsFiniteSet(live')
    <3>1. live' = live \/ live' = live \cup {app}
      BY <2>1 DEF Answered
    <3>2. QED
      BY <1>3, <3>1, FS_AddElement
  <2>9. QED
    BY <1>1, <1>7, <2>6, <2>7, <2>8 DEF SvcAnswer, tvars, ThreadTypes
<1>8. ASSUME NEW s \in Service, SvcDies(s) PROVE Rest
  <2>1. conn' \in [Conn -> ConnType]
    BY <1>1, <1>8, ClosedTyped DEF SvcDies
  <2>2. QED
    BY <1>1, <1>3, <1>8, <2>1 DEF SvcDies, tvars, ThreadTypes
<1>9. ASSUME SpawnListenCloseSet \/ (\E s \in Service : SvcStarts(s)) \/ UNCHANGED vars PROVE Rest
  BY <1>1, <1>3, <1>9 DEF SpawnListenCloseSet, SvcStarts, vars, tvars, svars, ThreadTypes
<1>10. QED
  BY <1>4, <1>5, <1>6, <1>7, <1>8, <1>9 DEF Next

(***************************************************************************)
(* The mutex.                                                              *)
(***************************************************************************)
\* A step of one thread is its own.
Kept(u) ==
  /\ pc'[u] = pc[u] /\ svc'[u] = svc[u] /\ cur'[u] = cur[u] /\ io'[u] = io[u] /\ ret'[u] = ret[u]
  /\ result'[u] = result[u] /\ dfRes'[u] = dfRes[u] /\ final'[u] = final[u]

LEMMA ThreadKeeps ==
  ASSUME TypeInv, NEW t \in Thread, ThreadNext(t), NEW u \in Thread \ {t}
  PROVE  Kept(u)
<1>1. ThreadTypes
  BY DEF TypeInv
<1>2. CASE Begin(t) \/ ClientSendMsgLocked(t) \/ TryCreateSocket(t) \/ SpawnListen(t) \/ StartSend(t)
  BY <1>1, <1>2 DEF ThreadTypes, Kept, Begin, ClientSendMsgLocked, TryCreateSocket, CreateClientSocket, SpawnListen, StartSend
<1>3. CASE WriteMessage(t)
  <2>1. /\ UNCHANGED <<svc, cur, ret, result, dfRes, final>>
        /\ \E x : io' = [io EXCEPT ![t] = x]
        /\ pc' = pc \/ \E x : pc' = [pc EXCEPT ![t] = x]
    BY <1>3 DEF WriteMessage
  <2>2. QED
    BY <1>1, <2>1 DEF ThreadTypes, Kept
<1>4. CASE WriteFails(t) \/ ReadFails(t)
  BY <1>1, <1>4 DEF ThreadTypes, Kept, WriteFails, ReadFails, CloseAndRetry
<1>5. CASE ReadMessage(t)
  BY <1>1, <1>5 DEF ThreadTypes, Kept, ReadMessage, ListenReturns, StoreResult, StoreRet
<1>6. CASE GiveUp(t)
  BY <1>1, <1>6 DEF ThreadTypes, Kept, GiveUp, ListenReturns, StoreRet
<1>7. CASE Onward(t) \/ Return(t) \/ AppSpawnClientDestroy(t)
  BY <1>1, <1>7 DEF ThreadTypes, Kept, Onward, Return, AppSpawnClientDestroy
<1>8. QED
  BY <1>2, <1>3, <1>4, <1>5, <1>6, <1>7 DEF ThreadNext

\* A step that leaves the owners alone.
LEMMA LockKept ==
  ASSUME LockInv, NEW t \in Thread, kind' = kind,
         \A u \in Thread : Proc(u) \in Process /\ Proc(u)' = Proc(u),
         \A u \in Thread \ {t} : pc'[u] = pc[u] /\ svc'[u] = svc[u],
         \A p \in Process, s \in Service :
           /\ mgr'[p][s].owner = mgr[p][s].owner
           /\ ~mgr'[p][s].alive => mgr'[p][s].sock = None /\ ~mgr[p][s].alive,
         Holding(t)' <=> Holding(t), Holding(t) => svc'[t] = svc[t],
         pc'[t] \notin {"idle", "done"} => \A s \in Service : mgr'[Proc(t)][s].alive,
         pc'[t] = "destroy" => kind[t] = "lock"
  PROVE  LockInv'
<1>1. ASSUME NEW p \in Process, NEW s \in Service, NEW u \in Thread
      PROVE  mgr'[p][s].owner = u <=> Holding(u)' /\ Proc(u)' = p /\ svc'[u] = s
  <2>1. mgr[p][s].owner = u <=> Holding(u) /\ Proc(u) = p /\ svc[u] = s
    BY DEF LockInv
  <2>2. Holding(u)' <=> Holding(u)
    BY DEF Holding
  <2>3. Holding(u) => svc'[u] = svc[u]
    OBVIOUS
  <2>4. QED
    BY <2>1, <2>2, <2>3
<1>2. ASSUME NEW p \in Process, NEW s \in Service, ~mgr'[p][s].alive
      PROVE  mgr'[p][s].sock = None /\ mgr'[p][s].owner = None
  BY <1>2 DEF LockInv
<1>3. ASSUME NEW u \in Thread, NEW s \in Service, pc'[u] \notin {"idle", "done"}
      PROVE  mgr'[Proc(u)'][s].alive
  <2>1. CASE u = t
    BY <1>3, <2>1
  <2>2. CASE u # t
    BY <1>3, <2>2 DEF LockInv
  <2>3. QED
    BY <2>1, <2>2
<1>4. ASSUME NEW u \in Thread, pc'[u] = "destroy" PROVE kind'[u] = "lock"
  BY <1>4 DEF LockInv
<1>5. QED
  BY <1>1, <1>2, <1>3, <1>4 DEF LockInv

\* t lets its manager go.
LEMMA LockReleased ==
  ASSUME TypeInv, LockInv, NEW t \in Thread, kind' = kind, Unlock(t), Holding(t),
         \A u \in Thread : Proc(u) \in Process /\ Proc(u)' = Proc(u),
         \A u \in Thread \ {t} : pc'[u] = pc[u] /\ svc'[u] = svc[u],
         pc'[t] = "sent", svc'[t] = svc[t]
  PROVE  LockInv'
<1>1. svc[t] \in Service /\ mgr[Proc(t)][svc[t]].owner = t /\ t # None
  BY ClientAssumption DEF TypeInv, ThreadTypes, LockInv
<1>2. /\ mgr'[Proc(t)][svc[t]].owner = None
      /\ \A q \in Process, r \in Service :
           /\ mgr'[q][r].alive = mgr[q][r].alive /\ mgr'[q][r].sock = mgr[q][r].sock
           /\ q # Proc(t) \/ r # svc[t] => mgr'[q][r].owner = mgr[q][r].owner
  BY <1>1, SetsOwner DEF TypeInv, Unlock
<1>3. ASSUME NEW p \in Process, NEW s \in Service, NEW u \in Thread
      PROVE  mgr'[p][s].owner = u <=> Holding(u)' /\ Proc(u)' = p /\ svc'[u] = s
  <2>1. mgr[p][s].owner = u <=> Holding(u) /\ Proc(u) = p /\ svc[u] = s
    BY DEF LockInv
  <2>2. u # None
    BY ClientAssumption
  <2>3. CASE u = t
    BY <1>1, <1>2, <2>1, <2>2, <2>3 DEF Holding
  <2>4. CASE u # t
    <3>1. Holding(u)' <=> Holding(u)
      BY <2>4 DEF Holding
    <3>2. QED
      BY <1>1, <1>2, <2>1, <2>2, <2>4, <3>1
  <2>5. QED
    BY <2>3, <2>4
<1>4. ASSUME NEW p \in Process, NEW s \in Service, ~mgr'[p][s].alive
      PROVE  mgr'[p][s].sock = None /\ mgr'[p][s].owner = None
  BY <1>2, <1>4 DEF LockInv
<1>5. ASSUME NEW u \in Thread, NEW s \in Service, pc'[u] \notin {"idle", "done"}
      PROVE  mgr'[Proc(u)'][s].alive
  <2>1. pc[u] \notin {"idle", "done"}
    BY <1>5 DEF Holding
  <2>2. QED
    BY <1>2, <2>1 DEF LockInv
<1>6. ASSUME NEW u \in Thread, pc'[u] = "destroy" PROVE kind'[u] = "lock"
  BY <1>6 DEF LockInv
<1>7. QED
  BY <1>3, <1>4, <1>5, <1>6 DEF LockInv

LEMMA LockStep ==
  ASSUME TypeInv, LockInv, SockInv, [Next]_vars
  PROVE  LockInv'
<1>1. mgr \in [Process -> [Service -> MgrType]] /\ ThreadTypes /\ CallInv
  BY DEF TypeInv
<1>2. kind' = kind /\ \A u \in Thread : Proc(u) \in Process /\ Proc(u)' = Proc(u)
  BY CallsFixed, ProcKnown DEF cvars
<1>3. ASSUME NEW t \in Thread, ThreadNext(t) PROVE LockInv'
  <2>1. \A u \in Thread \ {t} : pc'[u] = pc[u] /\ svc'[u] = svc[u]
    BY <1>3, ThreadKeeps DEF Kept
  <2>2. svc[t] \in Service /\ pc[t] \in Steps /\ Proc(t) \in Process
    BY <1>1, <1>2 DEF ThreadTypes
  <2>3. \A s \in Service : pc[t] \notin {"idle", "done"} => mgr[Proc(t)][s].alive
    BY DEF LockInv
  <2>4. \A p \in Process, s \in Service : ~mgr[p][s].alive => mgr[p][s].sock = None
    BY DEF LockInv
  <2>5. CASE Begin(t)
    <3>1. \A q \in Process, r \in Service :
            /\ mgr'[q][r].sock = mgr[q][r].sock /\ mgr'[q][r].owner = mgr[q][r].owner
            /\ q = Proc(t) => mgr'[q][r].alive
            /\ ~mgr'[q][r].alive => ~mgr[q][r].alive
      BY <2>5, BeginKeeps
    <3>2. pc[t] = "idle" /\ pc'[t] = "lock"
      BY <1>1, <2>5 DEF Begin, ThreadTypes
    <3>3. ~Holding(t) /\ ~Holding(t)'
      BY <3>2 DEF Holding
    <3>4. \A p \in Process, s \in Service :
           /\ mgr'[p][s].owner = mgr[p][s].owner
           /\ ~mgr'[p][s].alive => mgr'[p][s].sock = None /\ ~mgr[p][s].alive
      BY <2>4, <3>1
    <3>5. QED
      BY <1>2, <2>1, <2>2, <3>1, <3>2, <3>3, <3>4, LockKept
  <2>6. CASE ClientSendMsgLocked(t)
    <3>1. pc[t] = "lock" /\ pc'[t] = "loop" /\ mgr[Proc(t)][svc[t]].owner = None /\ svc' = svc
          /\ mgr' = [mgr EXCEPT ![Proc(t)][svc[t]].owner = t]
      BY <1>1, <2>6 DEF ClientSendMsgLocked, ThreadTypes, Mgr
    <3>2. /\ mgr'[Proc(t)][svc[t]].owner = t
          /\ \A q \in Process, r \in Service :
              /\ mgr'[q][r].alive = mgr[q][r].alive /\ mgr'[q][r].sock = mgr[q][r].sock
              /\ q # Proc(t) \/ r # svc[t] => mgr'[q][r].owner = mgr[q][r].owner
      BY <1>1, <2>2, <3>1, SetsOwner
    <3>3. ASSUME NEW p \in Process, NEW s \in Service, NEW u \in Thread
          PROVE  mgr'[p][s].owner = u <=> Holding(u)' /\ Proc(u)' = p /\ svc'[u] = s
      <4>1. mgr[p][s].owner = u <=> Holding(u) /\ Proc(u) = p /\ svc[u] = s
        BY DEF LockInv
      <4>2. u # None
        BY ClientAssumption
      <4>3. CASE u = t
        <5>1. Holding(u)' /\ ~Holding(u)
          BY <3>1, <4>3 DEF Holding
        <5>2. QED
          BY <1>2, <3>1, <3>2, <4>1, <4>3, <5>1
      <4>4. CASE u # t
        <5>1. Holding(u)' <=> Holding(u)
          BY <2>1, <4>4 DEF Holding
        <5>2. QED
          BY <1>2, <2>1, <3>1, <3>2, <4>1, <4>2, <4>4, <5>1
      <4>5. QED
        BY <4>3, <4>4
    <3>4. ASSUME NEW p \in Process, NEW s \in Service, ~mgr'[p][s].alive
          PROVE  mgr'[p][s].sock = None /\ mgr'[p][s].owner = None
      <4>1. ~mgr[p][s].alive /\ ~(p = Proc(t) /\ s = svc[t])
        BY <2>2, <2>3, <3>1, <3>2, <3>4
      <4>2. QED
        BY <3>2, <4>1 DEF LockInv
    <3>5. ASSUME NEW u \in Thread, NEW s \in Service, pc'[u] \notin {"idle", "done"}
          PROVE  mgr'[Proc(u)'][s].alive
      <4>1. pc[u] \notin {"idle", "done"}
        BY <2>1, <3>1, <3>5
      <4>2. QED
        BY <1>2, <3>2, <4>1 DEF LockInv
    <3>6. ASSUME NEW u \in Thread, pc'[u] = "destroy" PROVE kind'[u] = "lock"
      BY <1>2, <2>1, <3>1, <3>6 DEF LockInv
    <3>7. QED
      BY <3>3, <3>4, <3>5, <3>6 DEF LockInv
  <2>7. CASE TryCreateSocket(t) \/ WriteFails(t) \/ ReadFails(t)
    <3>1. pc[t] \in {"loop", "send", "efault", "read"} /\ svc'[t] = svc[t]
          /\ pc'[t] \in {"loop", "send", "efault", "read"}
      BY <1>1, <2>7 DEF TryCreateSocket, CreateClientSocket, WriteFails, ReadFails, CloseAndRetry, ThreadTypes
    <3>2. mgr' = mgr \/ \E v \in Conn \cup {None} : mgr' = [mgr EXCEPT ![Proc(t)][svc[t]].sock = v]
      BY <2>7 DEF TryCreateSocket, CreateClientSocket, WriteFails, ReadFails, CloseAndRetry
    <3>3. \A q \in Process, r \in Service :
            /\ mgr'[q][r].alive = mgr[q][r].alive /\ mgr'[q][r].owner = mgr[q][r].owner
            /\ q # Proc(t) \/ r # svc[t] => mgr'[q][r].sock = mgr[q][r].sock
      BY <1>1, <2>2, <3>2, SetsSock, ZenonT(40)
    <3>4. Holding(t) /\ Holding(t)'
      BY <3>1 DEF Holding
    <3>5. \A s \in Service : mgr'[Proc(t)][s].alive
      BY <2>2, <2>3, <3>1, <3>3
    <3>6. \A p \in Process, s \in Service :
           /\ mgr'[p][s].owner = mgr[p][s].owner
           /\ ~mgr'[p][s].alive => mgr'[p][s].sock = None /\ ~mgr[p][s].alive
      BY <2>4, <3>3, <3>5
    <3>7. QED
      BY <1>2, <2>1, <2>2, <3>1, <3>4, <3>5, <3>6, LockKept
  <2>8. CASE mgr' = mgr /\ Holding(t) /\ Holding(t)' /\ svc' = svc
    <3>1. \A s \in Service : mgr'[Proc(t)][s].alive
      BY <2>3, <2>8 DEF Holding
    <3>2. pc'[t] # "destroy"
      BY <2>8 DEF Holding
    <3>3. QED
      BY <1>2, <2>1, <2>4, <2>8, <3>1, <3>2, LockKept
  <2>9. CASE SpawnListen(t) \/ StartSend(t)
    <3>1. mgr' = mgr /\ Holding(t) /\ Holding(t)' /\ svc' = svc
      BY <1>1, <2>9 DEF SpawnListen, StartSend, HasSocket, Holding, ThreadTypes
    <3>2. QED
      BY <2>8, <3>1
  <2>10. CASE WriteMessage(t)
    <3>1. mgr' = mgr /\ svc' = svc /\ pc[t] = "send"
          /\ (pc' = pc \/ pc' = [pc EXCEPT ![t] = "read"] \/ pc' = [pc EXCEPT ![t] = "efault"])
      BY <2>10 DEF WriteMessage
    <3>2. Holding(t) /\ Holding(t)'
      BY <1>1, <3>1 DEF ThreadTypes, Holding
    <3>3. QED
      BY <2>8, <3>1, <3>2
  <2>11. CASE (ReadMessage(t) \/ GiveUp(t)) /\ cur[t] = "listen"
    <3>1. mgr' = mgr /\ Holding(t) /\ Holding(t)' /\ svc' = svc
      BY <1>1, <2>11 DEF ReadMessage, GiveUp, ListenReturns, Holding, ThreadTypes
    <3>2. QED
      BY <2>8, <3>1
  <2>12. CASE (ReadMessage(t) \/ GiveUp(t)) /\ cur[t] # "listen"
    <3>1. Unlock(t) /\ Holding(t) /\ pc'[t] = "sent" /\ svc'[t] = svc[t]
      BY <1>1, <2>12 DEF ReadMessage, GiveUp, Holding, ThreadTypes
    <3>2. QED
      BY <1>2, <2>1, <3>1, LockReleased
  <2>13. CASE Onward(t) \/ Return(t)
    <3>1. mgr' = mgr /\ pc[t] = "sent" /\ pc'[t] \in {"lock", "destroy", "done"}
          /\ (pc'[t] = "destroy" => kind[t] = "lock")
      BY <1>1, <2>13 DEF Onward, Return, ThreadTypes
    <3>2. ~Holding(t) /\ ~Holding(t)'
      BY <3>1 DEF Holding
    <3>3. \A s \in Service : mgr'[Proc(t)][s].alive
      BY <2>3, <3>1
    <3>4. QED
      BY <1>2, <2>1, <2>4, <3>1, <3>2, <3>3, LockKept
  <2>14. CASE AppSpawnClientDestroy(t)
    <3>1. pc[t] = "destroy" /\ pc'[t] = "done" /\ svc' = svc /\ kind[t] = "lock"
      BY <1>1, <2>14 DEF AppSpawnClientDestroy, ThreadTypes, LockInv
    <3>2. \A u \in Thread : Proc(u) = "storage" => u = t
      BY <1>1, <3>1 DEF Proc, CallInv
    <3>3. "storage" \in Process /\ "main" \in Service
      BY DEF Process, Service
    <3>4. mgr["storage"]["main"].owner = None
      <4>1. mgr["storage"]["main"].owner \in Thread \cup {None}
        BY <1>1, <3>3 DEF MgrType
      <4>2. ASSUME NEW u \in Thread, mgr["storage"]["main"].owner = u PROVE FALSE
        <5>1. Holding(u) /\ Proc(u) = "storage"
          BY <3>3, <4>2 DEF LockInv
        <5>2. QED
          BY <3>1, <3>2, <5>1 DEF Holding
      <4>3. QED
        BY <4>1, <4>2
    <3>5. NoMgr.owner = None /\ NoMgr.sock = None
      BY DEF NoMgr, FreshMgr
    <3>6. \A p \in Process, s \in Service :
            mgr'[p][s] = IF p = "storage" /\ s = "main" THEN NoMgr ELSE mgr[p][s]
      BY <1>1, <2>14, <3>3 DEF AppSpawnClientDestroy
    <3>7. \A p \in Process, s \in Service : mgr'[p][s].owner = mgr[p][s].owner
      BY <3>4, <3>5, <3>6
    <3>8. \A p \in Process, s \in Service :
            ~mgr'[p][s].alive => mgr'[p][s].sock = None /\ mgr'[p][s].owner = None
      BY <3>5, <3>6 DEF LockInv
    <3>9. ASSUME NEW p \in Process, NEW s \in Service, NEW u \in Thread
          PROVE  mgr'[p][s].owner = u <=> Holding(u)' /\ Proc(u)' = p /\ svc'[u] = s
      <4>1. mgr[p][s].owner = u <=> Holding(u) /\ Proc(u) = p /\ svc[u] = s
        BY DEF LockInv
      <4>2. Holding(u)' <=> Holding(u)
        <5>1. CASE u = t
          BY <3>1, <5>1 DEF Holding
        <5>2. CASE u # t
          BY <2>1, <5>2 DEF Holding
        <5>3. QED
          BY <5>1, <5>2
      <4>3. QED
        BY <1>2, <3>1, <3>7, <4>1, <4>2
    <3>10. ASSUME NEW u \in Thread, NEW s \in Service, pc'[u] \notin {"idle", "done"}
           PROVE  mgr'[Proc(u)'][s].alive
      <4>1. u # t
        BY <3>1, <3>10
      <4>2. Proc(u) # "storage" /\ pc[u] \notin {"idle", "done"}
        BY <2>1, <3>2, <3>10, <4>1
      <4>3. mgr[Proc(u)][s].alive
        BY <4>2 DEF LockInv
      <4>4. QED
        BY <1>2, <3>6, <4>2, <4>3
    <3>11. ASSUME NEW u \in Thread, pc'[u] = "destroy" PROVE kind'[u] = "lock"
      BY <1>2, <2>1, <3>1, <3>11 DEF LockInv
    <3>12. QED
      BY <3>8, <3>9, <3>10, <3>11 DEF LockInv
  <2>15. QED
    BY <1>3, <2>5, <2>6, <2>7, <2>9, <2>10, <2>11, <2>12, <2>13, <2>14 DEF ThreadNext
<1>4. ASSUME UNCHANGED <<tvars, mgr>> PROVE LockInv'
  BY <1>2, <1>4 DEF tvars, LockInv, Holding
<1>5. (\E t \in Thread : ThreadNext(t)) \/ UNCHANGED <<tvars, mgr>>
  BY DEF Next, SvcAccept, SvcRefuse, SvcAnswer, SvcClose, SvcDies, SvcStarts, SpawnListenCloseSet, vars
<1>6. QED
  BY <1>3, <1>4, <1>5

(***************************************************************************)
(* The sockets.                                                            *)
(***************************************************************************)
\* Taking or releasing the mutex leaves the sockets alone.
LEMMA OwnerOnly ==
  ASSUME mgr \in [Process -> [Service -> MgrType]], NEW p \in Process, NEW s \in Service,
         mgr' = mgr \/ \E v \in Thread \cup {None} : mgr' = [mgr EXCEPT ![p][s].owner = v]
  PROVE  \A q \in Process, r \in Service : mgr'[q][r].sock = mgr[q][r].sock
<1>1. CASE mgr' = mgr
  BY <1>1
<1>2. ASSUME NEW v \in Thread \cup {None}, mgr' = [mgr EXCEPT ![p][s].owner = v]
      PROVE  \A q \in Process, r \in Service : mgr'[q][r].sock = mgr[q][r].sock
  BY <1>2, SetsOwner
<1>3. QED
  BY <1>1, <1>2

\* A thread changes only the socket of its manager, and what is on it; a
\* connection it opens was unused.
LEMMA ThreadTouches ==
  ASSUME TypeInv, LockInv, SockInv, NEW t \in Thread, ThreadNext(t)
  PROVE  /\ \A p \in Process, s \in Service : mgr'[p][s].sock # mgr[p][s].sock =>
              \/ Holding(t) /\ p = Proc(t) /\ s = svc[t]
              \/ pc[t] = "destroy" /\ p = "storage" /\ s = "main"
         /\ \A c \in Conn : conn'[c] # conn[c] =>
              \/ Holding(t) /\ c = Sock(t)
              \/ pc[t] = "destroy" /\ c = mgr["storage"]["main"].sock
              \/ conn[c] = Unused
<1>1. mgr \in [Process -> [Service -> MgrType]] /\ conn \in [Conn -> ConnType] /\ ThreadTypes
  BY DEF TypeInv
<1>2. svc[t] \in Service /\ Proc(t) \in Process
  BY <1>1, ProcKnown DEF ThreadTypes
<1>3. CASE Begin(t)
  <2>1. conn' = conn
    BY <1>3 DEF Begin
  <2>2. QED
    BY <1>3, <2>1, BeginKeeps
<1>4. CASE ClientSendMsgLocked(t)
  <2>1. conn' = conn /\ mgr' = [mgr EXCEPT ![Proc(t)][svc[t]].owner = t]
    BY <1>4 DEF ClientSendMsgLocked
  <2>2. QED
    BY <1>1, <1>2, <2>1, SetsOwner
<1>5. CASE TryCreateSocket(t)
  <2>1. Holding(t)
    BY <1>5 DEF TryCreateSocket, CreateClientSocket, Holding
  <2>2. \/ mgr' = mgr /\ conn' = conn
        \/ \E c \in Conn : /\ conn[c] = Unused
                           /\ conn' = [conn EXCEPT ![c] = [Unused EXCEPT !.svc = svc[t], !.cli = TRUE, !.srv = TRUE]]
                           /\ mgr' = [mgr EXCEPT ![Proc(t)][svc[t]].sock = c]
    BY <1>5 DEF TryCreateSocket, CreateClientSocket
  <2>3. CASE mgr' = mgr /\ conn' = conn
    BY <2>3
  <2>4. ASSUME NEW c \in Conn, conn[c] = Unused,
               conn' = [conn EXCEPT ![c] = [Unused EXCEPT !.svc = svc[t], !.cli = TRUE, !.srv = TRUE]],
               mgr' = [mgr EXCEPT ![Proc(t)][svc[t]].sock = c]
        PROVE  /\ \A p \in Process, s \in Service : p # Proc(t) \/ s # svc[t] => mgr'[p][s].sock = mgr[p][s].sock
               /\ \A d \in Conn : d # c => conn'[d] = conn[d]
    <3>1. \A p \in Process, s \in Service : p # Proc(t) \/ s # svc[t] => mgr'[p][s].sock = mgr[p][s].sock
      BY <1>1, <1>2, <2>4, SetsSock
    <3>2. QED
      BY <1>1, <2>4, <3>1
  <2>5. QED
    BY <2>1, <2>2, <2>3, <2>4
<1>6. CASE SpawnListen(t) \/ StartSend(t) \/ Onward(t) \/ Return(t)
  BY <1>6 DEF SpawnListen, StartSend, Onward, Return
<1>7. CASE WriteMessage(t)
  <2>1. Holding(t) /\ mgr' = mgr
    BY <1>7 DEF WriteMessage, Holding
  <2>2. \E x, y : conn' = [conn EXCEPT ![Sock(t)].in = x, ![Sock(t)].cut = y]
    BY <1>7 DEF WriteMessage
  <2>3. QED
    BY <1>1, <2>1, <2>2
<1>8. CASE WriteFails(t) \/ ReadFails(t)
  <2>1. Holding(t) /\ CloseAndRetry(t)
    BY <1>8 DEF WriteFails, ReadFails, Holding
  <2>2. \A p \in Process, s \in Service : p # Proc(t) \/ s # svc[t] => mgr'[p][s].sock = mgr[p][s].sock
    BY <1>1, <1>2, <2>1, SetsSock DEF CloseAndRetry
  <2>3. \A c \in Conn : c # Sock(t) => conn'[c] = conn[c]
    BY <1>1, <2>1 DEF CloseAndRetry
  <2>4. QED
    BY <2>1, <2>2, <2>3
<1>9. CASE ReadMessage(t) \/ GiveUp(t)
  <2>1. Holding(t)
    BY <1>9 DEF ReadMessage, GiveUp, Holding
  <2>2. mgr' = mgr \/ \E v \in Thread \cup {None} : mgr' = [mgr EXCEPT ![Proc(t)][svc[t]].owner = v]
    BY <1>9 DEF ReadMessage, GiveUp, Unlock
  <2>3. \A p \in Process, s \in Service : mgr'[p][s].sock = mgr[p][s].sock
    BY <1>1, <1>2, <2>2, OwnerOnly
  <2>4. conn' = conn \/ conn' = [conn EXCEPT ![Sock(t)].out = <<>>]
    BY <1>9 DEF ReadMessage, GiveUp
  <2>5. QED
    BY <1>1, <2>1, <2>3, <2>4
<1>10. CASE AppSpawnClientDestroy(t)
  <2>1. pc[t] = "destroy" /\ mgr' = [mgr EXCEPT !["storage"]["main"] = NoMgr]
    BY <1>10 DEF AppSpawnClientDestroy
  <2>2. "storage" \in Process /\ "main" \in Service
    BY DEF Process, Service
  <2>3. \A p \in Process, s \in Service : p # "storage" \/ s # "main" => mgr'[p][s] = mgr[p][s]
    BY <1>1, <2>1, <2>2
  <2>4. conn' = conn \/ conn' = [conn EXCEPT ![mgr["storage"]["main"].sock] = ClosedByClient(@)]
    BY <1>10 DEF AppSpawnClientDestroy
  <2>5. QED
    BY <1>1, <2>1, <2>3, <2>4
<1>11. QED
  BY <1>3, <1>4, <1>5, <1>6, <1>7, <1>8, <1>9, <1>10 DEF ThreadNext

\* The mutex: a thread that holds its manager is not disturbed by the others.
LEMMA OthersUndisturbed ==
  ASSUME TypeInv, LockInv, SockInv, [Next]_vars, NEW t \in Thread, ThreadNext(t),
         NEW u \in Thread \ {t}, Holding(u)
  PROVE  /\ Kept(u) /\ Sock(u)' = Sock(u)
         /\ Sock(u) # None => conn'[Sock(u)] = conn[Sock(u)]
<1>1. Kept(u) /\ Proc(u)' = Proc(u)
  BY ThreadKeeps, CallsFixed
<1>2. mgr \in [Process -> [Service -> MgrType]] /\ ThreadTypes /\ CallInv
  BY DEF TypeInv
<1>3. /\ Proc(u) \in Process /\ svc[u] \in Service /\ Proc(t) \in Process /\ svc[t] \in Service
      /\ Sock(u) \in Conn \cup {None} /\ "storage" \in Process /\ "main" \in Service
  BY <1>2, ProcKnown DEF ThreadTypes, Sock, Mgr, MgrType, Process, Service
<1>4. ~(Holding(t) /\ Proc(u) = Proc(t) /\ svc[u] = svc[t])
  <2>1. mgr[Proc(u)][svc[u]].owner = u
    BY <1>3 DEF LockInv
  <2>2. Holding(t) => mgr[Proc(t)][svc[t]].owner = t
    BY <1>3 DEF LockInv
  <2>3. QED
    BY <2>1, <2>2
<1>5. ~(pc[t] = "destroy" /\ Proc(u) = "storage")
  BY <1>2 DEF LockInv, CallInv, Proc
<1>6. Sock(u)' = Sock(u)
  BY <1>1, <1>3, <1>4, <1>5, ThreadTouches DEF Sock, Mgr, Kept
<1>7. Sock(u) # None => conn[Sock(u)] # Unused
  BY <1>3 DEF SockInv, Sock, Mgr, Unused
<1>8. Sock(u) # None => ~(Holding(t) /\ Sock(u) = Sock(t))
  BY <1>3, <1>4 DEF SockInv, Sock, Mgr
<1>9. Sock(u) # None => ~(pc[t] = "destroy" /\ Sock(u) = mgr["storage"]["main"].sock)
  BY <1>3, <1>5 DEF SockInv, Sock, Mgr
<1>10. QED
  BY <1>1, <1>3, <1>6, <1>7, <1>8, <1>9, ThreadTouches

\* The steps of the services, as a thread sees them.
LEMMA ServiceSteps ==
  ASSUME [Next]_vars
  PROVE  \/ \E t \in Thread : ThreadNext(t)
         \/ /\ UNCHANGED <<tvars, mgr>>
            /\ \/ UNCHANGED <<conn, live, late>>
               \/ \E c \in Conn : SvcAccept(c) \/ SvcRefuse(c) \/ SvcAnswer(c) \/ SvcClose(c)
               \/ \E s \in Service : SvcDies(s)
  BY DEF Next, SvcAccept, SvcRefuse, SvcAnswer, SvcClose, SvcDies, SvcStarts, SpawnListenCloseSet,
         vars, svars

\* A service never opens or closes the client's end.
LEMMA ServiceKeepsClients ==
  ASSUME TypeInv, \/ UNCHANGED conn
                  \/ \E c \in Conn : SvcAccept(c) \/ SvcRefuse(c) \/ SvcAnswer(c) \/ SvcClose(c)
                  \/ \E s \in Service : SvcDies(s)
  PROVE  \A x \in Conn : conn'[x].cli = conn[x].cli /\ (conn[x].cli => conn'[x].cut = conn[x].cut)
<1>1. conn \in [Conn -> ConnType]
  BY DEF TypeInv
<1>2. \A k \in ConnType : /\ ClosedByService(k).cli = k.cli
                          /\ k.cli => ClosedByService(k).cut = k.cut
  BY DEF ClosedByService, Unused, ConnType
<1>3. ASSUME NEW c \in Conn, SvcRefuse(c) \/ SvcClose(c)
      PROVE \A x \in Conn : conn'[x] \in {conn[x], ClosedByService(conn[x])}
  <2>1. ~conn[c].cli => ClosedByService(conn[c]) = Unused
    BY DEF ClosedByService
  <2>2. QED
    BY <1>1, <1>3, <2>1 DEF SvcRefuse, SvcClose
<1>4. ASSUME NEW s \in Service, SvcDies(s)
      PROVE \A x \in Conn : conn'[x] \in {conn[x], ClosedByService(conn[x])}
  BY <1>1, <1>4 DEF SvcDies
<1>5. ASSUME NEW c \in Conn, SvcAccept(c) \/ SvcAnswer(c)
      PROVE \A x \in Conn : conn'[x].cli = conn[x].cli /\ conn'[x].cut = conn[x].cut
  <2>1. CASE SvcAccept(c)
    <3>1. \E a, b : conn' = [conn EXCEPT ![c].in = a, ![c].pend = b]
      BY <2>1 DEF SvcAccept
    <3>2. QED
      BY <1>1, <3>1 DEF ConnType
  <2>2. CASE SvcAnswer(c)
    <3>1. \E a, b : conn' = [conn EXCEPT ![c].pend = a, ![c].out = b]
      BY <2>2 DEF SvcAnswer
    <3>2. QED
      BY <1>1, <3>1 DEF ConnType
  <2>3. QED
    BY <1>5, <2>1, <2>2
<1>6. \A x \in Conn : conn[x] \in ConnType
  BY <1>1
<1>7. QED
  BY <1>2, <1>3, <1>4, <1>5, <1>6

\* The manager q, r has lost its socket, which is closed.
LEMMA SockDropped ==
  ASSUME SockInv, NEW q \in Process, NEW r \in Service, mgr'[q][r].sock = None,
         \A p \in Process, s \in Service : p # q \/ s # r => mgr'[p][s].sock = mgr[p][s].sock,
         mgr[q][r].sock # None => conn'[mgr[q][r].sock].cli = FALSE,
         \A c \in Conn : c # mgr[q][r].sock => conn'[c].cli = conn[c].cli,
         \A p \in Process, s \in Service : mgr[p][s].sock \in Conn \cup {None}, None \notin Conn,
         \A u \in Thread : pc'[u] = "read" => Sock(u)' # None
  PROVE  SockInv'
<1>1. ASSUME NEW p \in Process, NEW s \in Service, mgr'[p][s].sock # None
      PROVE  conn'[mgr'[p][s].sock].cli
  BY <1>1 DEF SockInv
<1>2. ASSUME NEW c \in Conn, conn'[c].cli
      PROVE  \E p \in Process, s \in Service : mgr'[p][s].sock = c
  <2>1. c # mgr[q][r].sock
    BY <1>2
  <2>2. PICK p \in Process, s \in Service : mgr[p][s].sock = c
    BY <1>2, <2>1 DEF SockInv
  <2>3. p # q \/ s # r
    BY <2>1, <2>2
  <2>4. QED
    BY <2>2, <2>3
<1>3. \A p, x \in Process, s, y \in Service :
        mgr'[p][s].sock = mgr'[x][y].sock /\ mgr'[p][s].sock # None => p = x /\ s = y
  BY DEF SockInv
<1>4. QED
  BY <1>1, <1>2, <1>3 DEF SockInv

\* No socket changes hands.
LEMMA SockSame ==
  ASSUME SockInv,
         \A p \in Process, s \in Service : mgr'[p][s].sock = mgr[p][s].sock /\ mgr[p][s].sock \in Conn \cup {None},
         \A c \in Conn : conn'[c].cli = conn[c].cli,
         \A u \in Thread : pc'[u] = "read" => Sock(u)' # None
  PROVE  SockInv'
<1>1. ASSUME NEW p \in Process, NEW s \in Service, mgr'[p][s].sock # None
      PROVE  conn'[mgr'[p][s].sock].cli
  BY <1>1 DEF SockInv
<1>2. QED
  BY <1>1 DEF SockInv

LEMMA SockStep ==
  ASSUME TypeInv, LockInv, SockInv, [Next]_vars
  PROVE  SockInv'
<1>1. mgr \in [Process -> [Service -> MgrType]] /\ conn \in [Conn -> ConnType] /\ ThreadTypes
  BY DEF TypeInv
<1>2. \A p \in Process, s \in Service : mgr[p][s].sock \in Conn \cup {None}
  BY <1>1 DEF MgrType
<1>3. None \notin Conn
  BY ClientAssumption
<1>4. \A u \in Thread : Proc(u) \in Process /\ Proc(u)' = Proc(u) /\ svc[u] \in Service
  BY <1>1, CallsFixed, ProcKnown DEF ThreadTypes
<1>5. ASSUME NEW t \in Thread, ThreadNext(t) PROVE SockInv'
  <2>1. \A u \in Thread \ {t} : pc'[u] = "read" => Sock(u)' # None
    <3>1. ASSUME NEW u \in Thread \ {t}, pc'[u] = "read" PROVE Sock(u)' # None
      <4>1. pc[u] = "read"
        BY <1>5, <3>1, ThreadKeeps DEF Kept
      <4>2. Holding(u) /\ Sock(u) # None
        BY <4>1 DEF Holding, SockInv
      <4>3. QED
        BY <1>5, <4>2, OthersUndisturbed
    <3>2. QED
      BY <3>1
  <2>2. CASE Begin(t) \/ ClientSendMsgLocked(t) \/ GiveUp(t) \/ SpawnListen(t) \/ StartSend(t)
             \/ Onward(t) \/ Return(t)
    <3>1. conn' = conn /\ pc'[t] # "read"
      BY <1>1, <2>2 DEF Begin, ClientSendMsgLocked, GiveUp, SpawnListen, StartSend, Onward, Return,
                        ListenReturns, HasSocket, ThreadTypes
    <3>2. \A p \in Process, s \in Service : mgr'[p][s].sock = mgr[p][s].sock
      <4>1. CASE Begin(t)
        BY <4>1, BeginKeeps
      <4>2. CASE ~Begin(t)
        <5>1. mgr' = mgr \/ \E v \in Thread \cup {None} : mgr' = [mgr EXCEPT ![Proc(t)][svc[t]].owner = v]
          BY <2>2, <4>2 DEF ClientSendMsgLocked, GiveUp, SpawnListen, StartSend, Onward, Return, Unlock
        <5>2. QED
          BY <1>1, <1>4, <5>1, OwnerOnly
      <4>3. QED
        BY <4>1, <4>2
    <3>3. QED
      BY <1>2, <2>1, <3>1, <3>2, SockSame
  <2>3. CASE ReadMessage(t)
    <3>1. pc'[t] # "read" /\ conn' = [conn EXCEPT ![Sock(t)].out = <<>>]
      BY <1>1, <2>3 DEF ReadMessage, ListenReturns, ThreadTypes
    <3>2. mgr' = mgr \/ \E v \in Thread \cup {None} : mgr' = [mgr EXCEPT ![Proc(t)][svc[t]].owner = v]
      BY <2>3 DEF ReadMessage, Unlock
    <3>3. \A p \in Process, s \in Service : mgr'[p][s].sock = mgr[p][s].sock
      BY <1>1, <1>4, <3>2, OwnerOnly
    <3>4. \A c \in Conn : conn'[c].cli = conn[c].cli
      BY <1>1, <3>1 DEF ConnType
    <3>5. QED
      BY <1>2, <2>1, <3>1, <3>3, <3>4, SockSame
  <2>4. CASE WriteMessage(t)
    <3>1. \E x, y : conn' = [conn EXCEPT ![Sock(t)].in = x, ![Sock(t)].cut = y]
      BY <2>4 DEF WriteMessage
    <3>2. mgr' = mgr /\ svc' = svc /\ Sock(t) # None
      BY <2>4 DEF WriteMessage, Connected
    <3>3. \A c \in Conn : conn'[c].cli = conn[c].cli
      BY <1>1, <3>1 DEF ConnType
    <3>4. Sock(t)' = Sock(t)
      BY <1>4, <3>2 DEF Sock, Mgr
    <3>5. QED
      BY <1>2, <2>1, <3>2, <3>3, <3>4, SockSame
  <2>5. CASE TryCreateSocket(t)
    <3>1. pc'[t] # "read" /\ mgr[Proc(t)][svc[t]].sock = None
      BY <1>1, <2>5 DEF TryCreateSocket, CreateClientSocket, Sock, Mgr
    <3>2. CASE mgr' = mgr /\ conn' = conn
      BY <1>2, <2>1, <3>1, <3>2, SockSame
    <3>3. ASSUME NEW c \in Conn, conn[c] = Unused,
                 conn' = [conn EXCEPT ![c] = [Unused EXCEPT !.svc = svc[t], !.cli = TRUE, !.srv = TRUE]],
                 mgr' = [mgr EXCEPT ![Proc(t)][svc[t]].sock = c]
          PROVE  SockInv'
      <4>1. /\ mgr'[Proc(t)][svc[t]].sock = c
            /\ \A p \in Process, s \in Service : p # Proc(t) \/ s # svc[t] => mgr'[p][s].sock = mgr[p][s].sock
        BY <1>1, <1>4, <3>3, SetsSock
      <4>2. conn[c].cli = FALSE /\ conn'[c].cli = TRUE /\ \A d \in Conn : d # c => conn'[d] = conn[d]
        BY <1>1, <3>3 DEF Unused
      <4>3. \A p \in Process, s \in Service : mgr[p][s].sock # c
        BY <1>3, <4>2 DEF SockInv
      <4>4. ASSUME NEW p \in Process, NEW s \in Service, mgr'[p][s].sock # None
            PROVE  conn'[mgr'[p][s].sock].cli
        <5>1. CASE p = Proc(t) /\ s = svc[t]
          BY <4>1, <4>2, <5>1
        <5>2. CASE ~(p = Proc(t) /\ s = svc[t])
          <6>1. mgr'[p][s].sock = mgr[p][s].sock /\ mgr[p][s].sock \in Conn
            BY <1>2, <4>1, <4>4, <5>2
          <6>2. conn[mgr[p][s].sock].cli
            BY <4>4, <6>1 DEF SockInv
          <6>3. QED
            BY <4>2, <4>3, <6>1, <6>2
        <5>3. QED
          BY <5>1, <5>2
      <4>5. \A p, x \in Process, s, y \in Service :
              mgr'[p][s].sock = mgr'[x][y].sock /\ mgr'[p][s].sock # None => p = x /\ s = y
        BY <1>4, <4>1, <4>3 DEF SockInv
      <4>6. ASSUME NEW d \in Conn, conn'[d].cli
            PROVE  \E p \in Process, s \in Service : mgr'[p][s].sock = d
        <5>1. CASE d = c
          BY <1>4, <4>1, <5>1
        <5>2. CASE d # c
          <6>1. PICK p \in Process, s \in Service : mgr[p][s].sock = d
            BY <4>2, <4>6, <5>2 DEF SockInv
          <6>2. p # Proc(t) \/ s # svc[t]
            BY <1>3, <3>1, <6>1
          <6>3. QED
            BY <4>1, <6>1, <6>2
        <5>3. QED
          BY <5>1, <5>2
      <4>7. \A u \in Thread : pc'[u] = "read" => Sock(u)' # None
        BY <2>1, <3>1
      <4>8. QED
        BY <4>4, <4>5, <4>6, <4>7 DEF SockInv
    <3>4. \/ mgr' = mgr /\ conn' = conn
          \/ \E c \in Conn : /\ conn[c] = Unused
                             /\ conn' = [conn EXCEPT ![c] = [Unused EXCEPT !.svc = svc[t], !.cli = TRUE, !.srv = TRUE]]
                             /\ mgr' = [mgr EXCEPT ![Proc(t)][svc[t]].sock = c]
      BY <2>5 DEF TryCreateSocket, CreateClientSocket
    <3>5. QED
      BY <3>2, <3>3, <3>4
  <2>6. CASE WriteFails(t) \/ ReadFails(t)
    <3>1. CloseAndRetry(t)
      BY <2>6 DEF WriteFails, ReadFails
    <3>2. pc'[t] # "read"
      BY <1>1, <3>1 DEF CloseAndRetry, ThreadTypes
    <3>3. /\ mgr'[Proc(t)][svc[t]].sock = None
          /\ \A p \in Process, s \in Service : p # Proc(t) \/ s # svc[t] => mgr'[p][s].sock = mgr[p][s].sock
      BY <1>1, <1>4, <3>1, SetsSock DEF CloseAndRetry
    <3>4. Sock(t) = mgr[Proc(t)][svc[t]].sock
      BY DEF Sock, Mgr
    <3>5. /\ Sock(t) # None => conn'[Sock(t)].cli = FALSE
          /\ \A c \in Conn : c # Sock(t) => conn'[c].cli = conn[c].cli
      <4>1. Sock(t) \in Conn \cup {None}
        BY <1>2, <1>4, <3>4
      <4>2. QED
        BY <1>1, <3>1, <4>1, ClosedTyped DEF CloseAndRetry
    <3>6. PICK q \in Process, r \in Service : q = Proc(t) /\ r = svc[t]
      BY <1>4
    <3>7. \A u \in Thread : pc'[u] = "read" => Sock(u)' # None
      BY <2>1, <3>2
    <3>8. /\ mgr'[q][r].sock = None
          /\ \A p \in Process, s \in Service : p # q \/ s # r => mgr'[p][s].sock = mgr[p][s].sock
          /\ mgr[q][r].sock # None => conn'[mgr[q][r].sock].cli = FALSE
          /\ \A c \in Conn : c # mgr[q][r].sock => conn'[c].cli = conn[c].cli
      BY <3>3, <3>4, <3>5, <3>6
    <3>9. QED
      BY <1>2, <1>3, <3>7, <3>8, SockDropped
  <2>7. CASE AppSpawnClientDestroy(t)
    <3>1. pc'[t] # "read"
      BY <1>1, <2>7 DEF AppSpawnClientDestroy, ThreadTypes
    <3>2. "storage" \in Process /\ "main" \in Service /\ NoMgr.sock = None
      BY DEF Process, Service, NoMgr, FreshMgr
    <3>3. /\ mgr'["storage"]["main"].sock = None
          /\ \A p \in Process, s \in Service : p # "storage" \/ s # "main" => mgr'[p][s].sock = mgr[p][s].sock
      BY <1>1, <2>7, <3>2 DEF AppSpawnClientDestroy
    <3>4. PICK d \in Conn \cup {None} : d = mgr["storage"]["main"].sock
      BY <1>2, <3>2
    <3>5. /\ d # None => conn'[d].cli = FALSE
          /\ \A c \in Conn : c # d => conn'[c].cli = conn[c].cli
      <4>1. IF d = None THEN conn' = conn ELSE conn' = [conn EXCEPT ![d] = ClosedByClient(@)]
        BY <2>7, <3>4 DEF AppSpawnClientDestroy
      <4>2. QED
        BY <1>1, <4>1, ClosedTyped
    <3>6. QED
      BY <1>2, <1>3, <2>1, <3>1, <3>2, <3>3, <3>4, <3>5, SockDropped
  <2>8. QED
    BY <1>5, <2>2, <2>3, <2>4, <2>5, <2>6, <2>7 DEF ThreadNext
<1>6. ASSUME UNCHANGED <<tvars, mgr>>, \A c \in Conn : conn'[c].cli = conn[c].cli PROVE SockInv'
  <2>1. \A u \in Thread : pc'[u] = "read" => Sock(u)' # None
    BY <1>4, <1>6 DEF SockInv, Sock, Mgr, tvars
  <2>2. QED
    BY <1>2, <1>6, <2>1, SockSame
<1>7. QED
  BY <1>5, <1>6, ServiceSteps, ServiceKeepsClients

(***************************************************************************)
(* Writing.                                                                *)
(***************************************************************************)
\* What a block in the making looks like.
InWriting(w, j) ==
  LET len == BlockLen(w, j.blk) IN
  /\ j.blk \in DOMAIN Blocks(w)
  /\ j.written + j.remain = len /\ j.remain > 0
  /\ j.cuts = 0 => j.written = 0
  /\ j.cuts = 1 => j.written \in 1..(len - 1) \cup {-1}

\* The words a sendmsg of n words puts on the connection.
Sent(t, n) == [i \in 1..n |-> Word(t, Before(cur[t], io[t].blk) + i)]

\* A sendmsg of n words; x: the connection is now a cut one.
WriteOutcome(t, n, x) ==
  LET b == io[t].blk
      k == conn[Sock(t)]
      last == Len(Blocks(cur[t]))
      whole == io[t].cuts = 0 /\ n = BlockLen(cur[t], b)
  IN /\ conn'[Sock(t)] = [k EXCEPT !.in = k.in \o Sent(t, n), !.cut = x]
     /\ k.cut => x
     /\ \/ pc'[t] = "send" /\ io'[t].cuts # 0 /\ InWriting(cur[t], io'[t])
        \/ pc'[t] = "send" /\ b < last /\ io'[t] = Block(cur[t], b + 1) /\ (x \/ whole)
        \/ pc'[t] = "read" /\ b = last /\ (x \/ whole)
        \/ pc'[t] = "efault"

\* The lengths add up for one whole write only, unless there were two cuts.
LEMMA WriteArithmetic ==
  ASSUME NEW len \in Nat, len >= 2, NEW w \in Int, NEW r \in Int, NEW k \in Nat, w + r = len,
         k = 0 => w = 0, k = 1 => w \in 1..(len - 1) \cup {-1},
         NEW n \in 1..len \cup {-1}, NEW k2 \in Nat, k2 = k + (IF n = len THEN 0 ELSE 1)
  PROVE  /\ (w + n) + (r - n) = len
         /\ w + n = len /\ k2 < 2 => k = 0 /\ n = len
         /\ r - n > 0 => k2 # 0
         /\ r - n > 0 /\ k2 = 1 => w + n \in 1..(len - 1) \cup {-1}
<1>1. n \in Int
  OBVIOUS
<1>2. CASE n = len
  BY <1>1, <1>2
<1>3. CASE n # len
  BY <1>1, <1>3
<1>4. QED
  BY <1>2, <1>3

LEMMA Writes ==
  ASSUME TypeInv, IoInv, NEW t \in Thread, WriteMessage(t)
  PROVE  /\ \E n \in 1..BlockLen(cur[t], io[t].blk) \cup {-1}, x \in BOOLEAN : WriteOutcome(t, n, x)
         /\ pc[t] = "send" /\ Sock(t) \in Conn /\ conn[Sock(t)].srv
         /\ UNCHANGED <<svc, cur, ret, result, dfRes, final, mgr, live, late>>
<1> DEFINE b == io[t].blk
           len == BlockLen(cur[t], b)
           pre == Before(cur[t], b)
           last == Len(Blocks(cur[t]))
<1>1. conn \in [Conn -> ConnType] /\ ThreadTypes /\ CallInv /\ mgr \in [Process -> [Service -> MgrType]]
  BY DEF TypeInv
<1>2. /\ cur[t] \in What /\ io[t] \in IoType /\ Sock(t) \in Conn \cup {None}
  BY <1>1, ProcKnown DEF ThreadTypes, Sock, Mgr, MgrType
<1>3. /\ pc[t] = "send" /\ Sock(t) \in Conn /\ conn[Sock(t)].srv
      /\ UNCHANGED <<svc, cur, ret, result, dfRes, final, mgr, live, late>>
  BY <1>2 DEF WriteMessage, Connected, svars
<1>4. InWriting(cur[t], io[t])
  BY <1>3 DEF IoInv, InWriting
<1>5. b \in DOMAIN Blocks(cur[t]) /\ len \in Nat /\ len >= 2
  BY <1>1, <1>2, <1>4, BlockBounds DEF InWriting
<1>6. PICK n \in 1..len \cup {-1} :
        LET remain == io[t].remain - n
            written == io[t].written + n
            cuts == io[t].cuts + (IF n = len THEN 0 ELSE 1)
            again == [blk |-> b, written |-> written, remain |-> remain, cuts |-> cuts]
            sent == remain <= 0 /\ BlockSent(written, len)
        IN /\ conn' = [conn EXCEPT ![Sock(t)].in = @ \o [i \in 1..n |-> Word(t, pre + i)],
                                   ![Sock(t)].cut = @ \/ (sent /\ cuts >= 2)]
           /\ \/ remain > 0 /\ io' = [io EXCEPT ![t] = again] /\ UNCHANGED pc
              \/ sent /\ b < last /\ io' = [io EXCEPT ![t] = Block(cur[t], b + 1)] /\ UNCHANGED pc
              \/ sent /\ b = last /\ io' = [io EXCEPT ![t] = again] /\ pc' = [pc EXCEPT ![t] = "read"]
              \/ /\ remain <= 0 /\ ~BlockSent(written, len)
                 /\ io' = [io EXCEPT ![t] = again] /\ pc' = [pc EXCEPT ![t] = "efault"]
  BY Zenon DEF WriteMessage
<1>7. PICK w \in Int, r \in Int, k \in Nat, k2 \in Nat :
        /\ w = io[t].written /\ r = io[t].remain /\ k = io[t].cuts
        /\ k2 = k + (IF n = len THEN 0 ELSE 1)
  BY <1>2 DEF IoType
<1>8. w + r = len /\ (k = 0 => w = 0) /\ (k = 1 => w \in 1..(len - 1) \cup {-1})
  BY <1>4, <1>7 DEF InWriting
<1>9. /\ (w + n) + (r - n) = len
      /\ w + n = len /\ k2 < 2 => k = 0 /\ n = len
      /\ r - n > 0 => k2 # 0
      /\ r - n > 0 /\ k2 = 1 => w + n \in 1..(len - 1) \cup {-1}
  <2>1. PICK l \in Nat : l = len
    BY <1>5
  <2>2. l >= 2 /\ w + r = l /\ (k = 0 => w = 0) /\ (k = 1 => w \in 1..(l - 1) \cup {-1})
        /\ n \in 1..l \cup {-1} /\ k2 = k + (IF n = l THEN 0 ELSE 1)
    BY <1>5, <1>7, <1>8, <2>1
  <2>3. /\ (w + n) + (r - n) = l
        /\ w + n = l /\ k2 < 2 => k = 0 /\ n = l
        /\ r - n > 0 => k2 # 0
        /\ r - n > 0 /\ k2 = 1 => w + n \in 1..(l - 1) \cup {-1}
    BY <2>2, WriteArithmetic
  <2>4. QED
    BY <2>1, <2>3
<1>10. PICK x \in BOOLEAN : x = (conn[Sock(t)].cut \/ (r - n <= 0 /\ BlockSent(w + n, len) /\ k2 >= 2))
  OBVIOUS
<1>11. conn'[Sock(t)] = [conn[Sock(t)] EXCEPT !.in = conn[Sock(t)].in \o Sent(t, n), !.cut = x]
  <2>1. conn' = [conn EXCEPT ![Sock(t)].in = @ \o Sent(t, n), ![Sock(t)].cut = @ \/ (r - n <= 0 /\ BlockSent(w + n, len) /\ k2 >= 2)]
    BY <1>6, <1>7, Zenon DEF Sent
  <2>2. conn[Sock(t)] \in ConnType /\ conn[Sock(t)].cut \in BOOLEAN
    BY <1>1, <1>3 DEF ConnType
  <2>3. QED
    BY <1>1, <1>3, <1>10, <2>1, <2>2 DEF ConnType
<1>12. \/ r - n > 0 /\ pc'[t] = "send" /\ io'[t] = [blk |-> b, written |-> w + n, remain |-> r - n, cuts |-> k2]
       \/ r - n <= 0 /\ w + n = len /\ b < last /\ pc'[t] = "send" /\ io'[t] = Block(cur[t], b + 1)
       \/ r - n <= 0 /\ w + n = len /\ b = last /\ pc'[t] = "read"
       \/ pc'[t] = "efault"
  BY <1>1, <1>3, <1>6, <1>7 DEF BlockSent, ThreadTypes
<1>13. ASSUME r - n > 0, pc'[t] = "send", io'[t] = [blk |-> b, written |-> w + n, remain |-> r - n, cuts |-> k2]
       PROVE  io'[t].cuts # 0 /\ InWriting(cur[t], io'[t])
  <2>1. io'[t].blk = b /\ io'[t].written = w + n /\ io'[t].remain = r - n /\ io'[t].cuts = k2
    BY <1>13
  <2>2. QED
    BY <1>5, <1>9, <1>13, <2>1 DEF InWriting
<1>14. ASSUME r - n <= 0, w + n = len
       PROVE  x \/ (io[t].cuts = 0 /\ n = len)
  <2>1. CASE k2 < 2
    BY <1>7, <1>9, <1>14, <2>1
  <2>2. CASE k2 >= 2
    BY <1>10, <1>14, <2>2, Zenon DEF BlockSent
  <2>3. QED
    BY <1>7, <2>1, <2>2
<1>15. WriteOutcome(t, n, x)
  BY <1>10, <1>11, <1>12, <1>13, <1>14 DEF WriteOutcome
<1>16. QED
  BY <1>3, <1>15

LEMMA FirstInWriting ==
  ASSUME CallInv, NEW w \in What, NEW b \in DOMAIN Blocks(w)
  PROVE  InWriting(w, Block(w, b)) /\ Block(w, b).blk = b /\ Block(w, b).cuts = 0
<1>1. BlockLen(w, b) \in Nat /\ BlockLen(w, b) >= 2
  BY BlockBounds
<1>2. Block(w, b).blk = b /\ Block(w, b).written = 0 /\ Block(w, b).remain = BlockLen(w, b)
      /\ Block(w, b).cuts = 0
  BY DEF Block
<1>3. QED
  BY <1>1, <1>2 DEF InWriting

LEMMA IoStep ==
  ASSUME TypeInv, LockInv, SockInv, IoInv, [Next]_vars
  PROVE  IoInv'
<1>1. ThreadTypes /\ CallInv
  BY DEF TypeInv
<1>2. \A w, b : /\ Blocks(w)' = Blocks(w) /\ BlockLen(w, b)' = BlockLen(w, b)
  BY CallsFixed
<1>3. SUFFICES \A u \in Thread : pc'[u] = "send" => InWriting(cur'[u], io'[u])
  BY <1>2 DEF IoInv, InWriting
<1>4. \A u \in Thread : pc[u] = "send" => InWriting(cur[u], io[u])
  BY DEF IoInv, InWriting
<1>5. ASSUME NEW t \in Thread, ThreadNext(t), pc'[t] = "send" PROVE InWriting(cur'[t], io'[t])
  <2>1. cur[t] \in What
    BY <1>1 DEF ThreadTypes
  <2>2. \A w \in What : InWriting(w, Block(w, 1))
    BY <1>1, FirstBlockKnown, FirstInWriting
  <2>3. CASE StartSend(t)
    BY <1>1, <2>1, <2>2, <2>3 DEF StartSend, ThreadTypes
  <2>4. CASE (ReadMessage(t) \/ GiveUp(t)) /\ cur[t] = "listen"
    BY <1>1, <2>2, <2>4 DEF ReadMessage, GiveUp, ListenReturns, ThreadTypes, What
  <2>5. CASE WriteMessage(t)
    <3>1. PICK n, x : WriteOutcome(t, n, x)
      BY <2>5, Writes
    <3>2. cur' = cur /\ InWriting(cur[t], io[t])
      BY <1>4, <2>5, Writes
    <3>3. CASE InWriting(cur[t], io'[t])
      BY <3>2, <3>3
    <3>4. CASE io[t].blk < Len(Blocks(cur[t])) /\ io'[t] = Block(cur[t], io[t].blk + 1)
      <4>1. io[t].blk + 1 \in DOMAIN Blocks(cur[t])
        BY <1>1, <2>1, <3>2, <3>4, BlockBounds DEF InWriting
      <4>2. QED
        BY <1>1, <2>1, <3>2, <3>4, <4>1, FirstInWriting
    <3>5. QED
      BY <1>5, <3>1, <3>3, <3>4 DEF WriteOutcome
  <2>6. CASE \/ Begin(t) \/ ClientSendMsgLocked(t) \/ TryCreateSocket(t) \/ SpawnListen(t)
             \/ WriteFails(t) \/ ReadFails(t) \/ Onward(t) \/ Return(t) \/ AppSpawnClientDestroy(t)
    BY <1>1, <1>5, <2>6 DEF Begin, ClientSendMsgLocked, TryCreateSocket, CreateClientSocket, SpawnListen, HasSocket, WriteFails,
       ReadFails, CloseAndRetry, Onward, Return, AppSpawnClientDestroy, ThreadTypes
  <2>7. CASE (ReadMessage(t) \/ GiveUp(t)) /\ cur[t] # "listen"
    BY <1>1, <1>5, <2>7 DEF ReadMessage, GiveUp, ThreadTypes
  <2>8. QED
    BY <1>5, <2>3, <2>4, <2>5, <2>6, <2>7 DEF ThreadNext
<1>6. ASSUME NEW t \in Thread, ThreadNext(t), NEW u \in Thread \ {t}, pc'[u] = "send"
      PROVE  InWriting(cur'[u], io'[u])
  BY <1>4, <1>6, ThreadKeeps DEF Kept
<1>7. CASE UNCHANGED tvars
  BY <1>4, <1>7 DEF tvars
<1>8. QED
  BY <1>5, <1>6, <1>7, ServiceSteps

(***************************************************************************)
(* The traffic.                                                            *)
(***************************************************************************)
\* A run of a function goes on where it stopped.
LEMMA RunsJoin ==
  ASSUME NEW S, NEW f \in [Nat -> S], NEW a \in Nat, NEW n \in Nat
  PROVE  [i \in 1..a |-> f[i]] \o [i \in 1..n |-> f[a + i]] = [i \in 1..(a + n) |-> f[i]]
<1>1. PICK p : p = [i \in 1..a |-> f[i]]
  OBVIOUS
<1>2. PICK q : q = [i \in 1..n |-> f[a + i]]
  OBVIOUS
<1>3. p \in Seq(S) /\ Len(p) = a /\ \A i \in 1..a : p[i] = f[i]
  <2>1. p \in [1..a -> S]
    BY <1>1
  <2>2. QED
    BY <1>1, <2>1
<1>4. q \in Seq(S) /\ Len(q) = n /\ \A i \in 1..n : q[i] = f[a + i]
  <2>1. \A i \in 1..n : a + i \in Nat
    OBVIOUS
  <2>2. q \in [1..n -> S]
    BY <1>2, <2>1
  <2>3. QED
    BY <1>2, <2>2
<1>5. PICK r \in Seq(S) :
        /\ r = p \o q /\ Len(r) = a + n
        /\ \A i \in 1..(a + n) : r[i] = IF i <= a THEN p[i] ELSE q[i - a]
  <2>1. PICK x \in Seq(S) : x = p
    BY <1>3
  <2>2. PICK y \in Seq(S) : y = q
    BY <1>4
  <2>3. Len(x) = a /\ Len(y) = n
    BY <1>3, <1>4, <2>1, <2>2
  <2>4. /\ x \o y \in Seq(S) /\ Len(x \o y) = a + n
        /\ \A i \in 1..(a + n) : (x \o y)[i] = IF i <= a THEN x[i] ELSE y[i - a]
    BY <2>3, SMTT(30)
  <2>5. QED
    BY <2>1, <2>2, <2>4
<1>6. Len(r) = a + n
  BY <1>5
<1>7. ASSUME NEW i \in 1..(a + n) PROVE r[i] = f[i]
  <2>1. CASE i <= a
    <3>1. r[i] = p[i]
      BY <1>5, <2>1
    <3>2. QED
      BY <1>3, <2>1, <3>1
  <2>2. CASE i > a
    <3>1. i - a \in 1..n /\ a + (i - a) = i
      BY <2>2
    <3>2. r[i] = q[i - a]
      BY <1>5, <2>2
    <3>3. QED
      BY <1>4, <3>1, <3>2
  <2>3. QED
    BY <2>1, <2>2
<1>8. r = [i \in 1..(a + n) |-> f[i]]
  <2>1. r \in [1..(a + n) -> S] /\ DOMAIN r = 1..(a + n)
    BY <1>6
  <2>2. QED
    BY <1>7, <2>1
<1>9. QED
  BY <1>1, <1>2, <1>5, <1>8

LEMMA PrefixKnown ==
  ASSUME NEW t, NEW w, NEW n \in Nat
  PROVE  /\ Prefix(t, w, n) \in [1..n -> {[of |-> <<t, w>>, i |-> i, n |-> Last(Blocks(w))] : i \in 1..n}]
         /\ Len(Prefix(t, w, n)) = n
         /\ \A i \in 1..n : Prefix(t, w, n)[i] = [of |-> <<t, w>>, i |-> i, n |-> Last(Blocks(w))]
         /\ n = 0 => Prefix(t, w, n) = <<>>
<1>1. Prefix(t, w, n) \in [1..n -> {[of |-> <<t, w>>, i |-> i, n |-> Last(Blocks(w))] : i \in 1..n}]
  BY DEF Prefix
<1>2. n = 0 => Prefix(t, w, n) = <<>>
  BY <1>1
<1>3. Len(Prefix(t, w, n)) = n
  BY <1>1
<1>4. \A i \in 1..n : Prefix(t, w, n)[i] = [of |-> <<t, w>>, i |-> i, n |-> Last(Blocks(w))]
  BY DEF Prefix
<1>5. QED
  BY <1>1, <1>2, <1>3, <1>4

\* A whole block after the blocks before it.
LEMMA PrefixGrows ==
  ASSUME TypeInv, NEW t \in Thread, NEW n \in Nat, NEW a \in Nat, a = Before(cur[t], io[t].blk)
  PROVE  Prefix(t, cur[t], a) \o Sent(t, n) = Prefix(t, cur[t], a + n)
<1>1. PICK f : f = [i \in Nat |-> [of |-> <<t, cur[t]>>, i |-> i, n |-> Last(Blocks(cur[t]))]]
  OBVIOUS
<1>2. PICK S : f \in [Nat -> S]
  <2>1. f \in [Nat -> {f[i] : i \in Nat}]
    BY <1>1
  <2>2. QED
    BY <2>1
<1>3. \A i \in Nat : f[i] = [of |-> <<t, cur[t]>>, i |-> i, n |-> Last(Blocks(cur[t]))]
  BY <1>1
<1>4. \A m \in Nat : Prefix(t, cur[t], m) = [i \in 1..m |-> f[i]]
  BY <1>3 DEF Prefix
<1>5. Sent(t, n) = [i \in 1..n |-> f[a + i]]
  <2>1. \A i \in 1..n : a + i \in Nat
    OBVIOUS
  <2>2. \A i \in 1..n : Word(t, a + i) = f[a + i]
    BY <1>3, <2>1 DEF Word
  <2>3. QED
    BY <2>2 DEF Sent
<1>6. a + n \in Nat
  OBVIOUS
<1>7. [i \in 1..a |-> f[i]] \o [i \in 1..n |-> f[a + i]] = [i \in 1..(a + n) |-> f[i]]
  BY <1>2, RunsJoin
<1>8. Prefix(t, cur[t], a) = [i \in 1..a |-> f[i]] /\ Prefix(t, cur[t], a + n) = [i \in 1..(a + n) |-> f[i]]
  BY <1>4, <1>6
<1>9. QED
  BY <1>5, <1>7, <1>8, Zenon

\* A manager has one holder.
LEMMA HolderOf ==
  ASSUME TypeInv, LockInv, SockInv, NEW t \in Thread, NEW u \in Thread, Holding(t), Holding(u),
         Sock(t) = Sock(u), Sock(t) # None
  PROVE  t = u
<1>1. Proc(t) \in Process /\ Proc(u) \in Process /\ svc[t] \in Service /\ svc[u] \in Service
  BY ProcKnown DEF TypeInv, ThreadTypes
<1>2. Proc(t) = Proc(u) /\ svc[t] = svc[u]
  BY <1>1 DEF SockInv, Sock, Mgr
<1>3. mgr[Proc(t)][svc[t]].owner = t /\ mgr[Proc(u)][svc[u]].owner = u
  BY <1>1 DEF LockInv
<1>4. QED
  BY <1>2, <1>3

LEMMA SockKnown ==
  ASSUME TypeInv, SockInv, NEW t \in Thread
  PROVE  /\ Proc(t) \in Process /\ svc[t] \in Service /\ Sock(t) \in Conn \cup {None}
         /\ Sock(t) # None => Sock(t) \in Conn /\ conn[Sock(t)].cli /\ conn[Sock(t)] \in ConnType
<1>1. Proc(t) \in Process /\ svc[t] \in Service
  BY ProcKnown DEF TypeInv, ThreadTypes
<1>2. Sock(t) \in Conn \cup {None}
  BY <1>1 DEF TypeInv, Sock, Mgr, MgrType
<1>3. Sock(t) # None => conn[Sock(t)].cli
  BY <1>1 DEF SockInv, Sock, Mgr
<1>4. QED
  BY <1>1, <1>2, <1>3 DEF TypeInv

\* Between two attempts the connection is quiet.
LEMMA LoopQuiet ==
  ASSUME TypeInv, LockInv, SockInv, TrafficInv, NEW t \in Thread, pc[t] = "loop",
         Sock(t) # None, ~conn[Sock(t)].cut
  PROVE  Quiet(conn[Sock(t)])
<1>1. Sock(t) \in Conn /\ conn[Sock(t)].cli
  BY SockKnown
<1>2. ASSUME NEW u \in Thread, Sending(u), Sock(u) = Sock(t) PROVE FALSE
  <2>1. Holding(u) /\ Holding(t)
    BY <1>2 DEF Sending, Holding
  <2>2. u = t
    BY <1>2, <2>1, HolderOf
  <2>3. QED
    BY <1>2, <2>2 DEF Sending
<1>3. QED
  BY <1>1, <1>2 DEF TrafficInv

\* A quiet connection is where a message begins.
LEMMA QuietCarries ==
  ASSUME CallInv, NEW t, NEW w \in What, NEW k, Quiet(k)
  PROVE  Carries(t, w, "send", Block(w, 1), k)
<1>1. Block(w, 1).blk = 1 /\ Before(w, 1) = 0
  BY FirstBlockKnown DEF Block
<1>2. Prefix(t, w, 0) = <<>>
  BY PrefixKnown
<1>3. Only(k, <<t, w>>)
  BY DEF Only, Quiet
<1>4. Exact(t, w, 0, FALSE, k)
  BY <1>2 DEF Exact, Quiet
<1>5. QED
  BY <1>1, <1>3, <1>4 DEF Carries

LEMMA TrafficFrame ==
  ASSUME [Next]_vars
  PROVE  /\ (\A t \in Thread : Sending(t)' /\ Sock(t)' # None /\ ~conn'[Sock(t)'].cut =>
                Carries(t, cur'[t], pc'[t], io'[t], conn'[Sock(t)']))
            /\ (\A c \in Conn : conn'[c].cli /\ ~conn'[c].cut =>
                  Quiet(conn'[c]) \/ \E t \in Thread : Sending(t)' /\ Sock(t)' = c)
         => TrafficInv'
<1>1. \A w, b : Blocks(w)' = Blocks(w) /\ Before(w, b)' = Before(w, b)
  BY CallsFixed
<1>2. \A t, w, n : Prefix(t, w, n)' = Prefix(t, w, n)
  BY <1>1 DEF Prefix
<1>3. \A t, w, n, all, k : Exact(t, w, n, all, k)' = Exact(t, w, n, all, k)
  BY <1>2 DEF Exact, Quiet
<1>4. ASSUME NEW t, NEW w, NEW p, NEW j, NEW k
      PROVE  Carries(t, w, p, j, k)' <=> Carries(t, w, p, j, k)
  <2>1. Only(k, <<t, w>>)' <=> Only(k, <<t, w>>)
    BY DEF Only
  <2>2. Exact(t, w, Last(Blocks(w)), TRUE, k)' <=> Exact(t, w, Last(Blocks(w)), TRUE, k)
    BY <1>1, <1>3
  <2>3. Exact(t, w, Before(w, j.blk), FALSE, k)' <=> Exact(t, w, Before(w, j.blk), FALSE, k)
    BY <1>1, <1>3
  <2>4. QED
    BY <2>1, <2>2, <2>3 DEF Carries
<1>5. QED
  BY <1>4 DEF TrafficInv, Quiet

\* What t owes when it makes a step: the connections it touches are quiet, or
\* its own, and its own carries its message.
OwnPart(t) ==
  /\ \A c \in Conn : (conn'[c] # conn[c] \/ (Sending(t) /\ c = Sock(t))) /\ conn'[c].cli /\ ~conn'[c].cut =>
       Quiet(conn'[c]) \/ (Sending(t)' /\ Sock(t)' = c)
  /\ Sending(t)' /\ Sock(t)' # None /\ ~conn'[Sock(t)'].cut =>
       Carries(t, cur'[t], pc'[t], io'[t], conn'[Sock(t)'])

LEMMA TrafficByThread ==
  ASSUME TypeInv, LockInv, SockInv, TrafficInv, [Next]_vars, NEW t \in Thread, ThreadNext(t), OwnPart(t)
  PROVE  TrafficInv'
<1>1. ASSUME NEW u \in Thread \ {t}
      PROVE  /\ Sending(u)' <=> Sending(u)
             /\ Sending(u) => Kept(u) /\ Sock(u)' = Sock(u) /\ (Sock(u) # None => conn'[Sock(u)] = conn[Sock(u)])
  <2>1. Kept(u)
    BY ThreadKeeps
  <2>2. Sending(u) => Holding(u)
    BY DEF Sending, Holding
  <2>3. QED
    BY <2>1, <2>2, OthersUndisturbed DEF Kept, Sending
<1>2. ASSUME NEW u \in Thread, Sending(u)', Sock(u)' # None, ~conn'[Sock(u)'].cut
      PROVE  Carries(u, cur'[u], pc'[u], io'[u], conn'[Sock(u)'])
  <2>1. CASE u = t
    BY <1>2, <2>1 DEF OwnPart
  <2>2. CASE u # t
    <3>1. Sending(u) /\ Kept(u) /\ Sock(u)' = Sock(u) /\ conn'[Sock(u)] = conn[Sock(u)] /\ Sock(u) # None
      BY <1>1, <1>2, <2>2
    <3>2. Carries(u, cur[u], pc[u], io[u], conn[Sock(u)])
      BY <1>2, <3>1 DEF TrafficInv
    <3>3. QED
      BY <3>1, <3>2 DEF Kept
  <2>3. QED
    BY <2>1, <2>2
<1>3. ASSUME NEW c \in Conn, conn'[c].cli, ~conn'[c].cut
      PROVE  Quiet(conn'[c]) \/ \E u \in Thread : Sending(u)' /\ Sock(u)' = c
  <2>1. CASE conn'[c] # conn[c] \/ (Sending(t) /\ c = Sock(t))
    BY <1>3, <2>1 DEF OwnPart
  <2>2. CASE conn'[c] = conn[c] /\ ~(Sending(t) /\ c = Sock(t))
    <3>1. Quiet(conn[c]) \/ \E u \in Thread : Sending(u) /\ Sock(u) = c
      BY <1>3, <2>2 DEF TrafficInv
    <3>2. ASSUME NEW u \in Thread, Sending(u), Sock(u) = c PROVE Sending(u)' /\ Sock(u)' = c
      BY <1>1, <2>2, <3>2
    <3>3. QED
      BY <2>2, <3>1, <3>2
  <2>3. QED
    BY <2>1, <2>2
<1>4. QED
  BY <1>2, <1>3, TrafficFrame

\* An attempt that ended left nothing behind.
LEMMA ClosedOwnPart ==
  ASSUME TypeInv, NEW t \in Thread, NEW d \in Conn \cup {None}, ~Sending(t)', d = Sock(t) \/ ~Sending(t),
         IF d = None THEN conn' = conn ELSE conn' = [conn EXCEPT ![d] = ClosedByClient(@)]
  PROVE  OwnPart(t)
<1>1. None \notin Conn /\ conn \in [Conn -> ConnType]
  BY ClientAssumption DEF TypeInv
<1>2. \A c \in Conn : c = d => conn'[c].cli = FALSE
  BY <1>1, ClosedTyped
<1>3. \A c \in Conn : c # d => conn'[c] = conn[c]
  BY <1>1
<1>4. QED
  BY <1>2, <1>3 DEF OwnPart

\* The answer is taken off the connection and nothing remains.
LEMMA ReadLeavesQuiet ==
  ASSUME NEW t, NEW w, NEW j, NEW k \in ConnType, Carries(t, w, "read", j, k), k.out # <<>>
  PROVE  /\ k.in = <<>> /\ k.pend = {} /\ Len(k.out) = 1
         /\ k.out[1].of = <<t, w>> /\ k.out[1].intact
         /\ Quiet([k EXCEPT !.out = <<>>])
<1>1. Exact(t, w, Last(Blocks(w)), TRUE, k)
  BY DEF Carries
<1>2. k.in = <<>> /\ k.pend = {} /\ Len(k.out) = 1 /\ k.out[1].of = <<t, w>> /\ k.out[1].intact
  BY <1>1 DEF Exact, Quiet
<1>3. QED
  BY <1>2 DEF Quiet, ConnType

\* A sendmsg keeps to the message.
LEMMA WriteOwnPart ==
  ASSUME TypeInv, LockInv, SockInv, IoInv, TrafficInv, [Next]_vars, NEW t \in Thread, WriteMessage(t)
  PROVE  OwnPart(t)
<1> DEFINE k == conn[Sock(t)]
           b == io[t].blk
           w == cur[t]
           len == BlockLen(w, b)
           pre == Before(w, b)
<1>1. PICK n \in 1..len \cup {-1}, x \in BOOLEAN : WriteOutcome(t, n, x)
  BY Writes
<1>2. /\ pc[t] = "send" /\ Sock(t) \in Conn /\ k.srv
      /\ cur' = cur /\ mgr' = mgr /\ svc' = svc /\ Sock(t) # None
  BY Writes, ClientAssumption
<1>3. ThreadTypes /\ CallInv /\ w \in What /\ k \in ConnType
  BY <1>2 DEF TypeInv, ThreadTypes
<1>4. Proc(t)' = Proc(t)
  BY CallsFixed
<1>5. Sock(t)' = Sock(t)
  BY <1>2, <1>4 DEF Sock, Mgr
<1>6. Sending(t)'
  BY <1>1 DEF WriteOutcome, Sending
<1>7. /\ b \in DOMAIN Blocks(w) /\ len \in Nat /\ pre \in Nat
      /\ pre + len = Blocks(w)[b]
      /\ b < Len(Blocks(w)) => b + 1 \in DOMAIN Blocks(w) /\ Before(w, b + 1) = Blocks(w)[b]
      /\ b = Len(Blocks(w)) => Blocks(w)[b] = Last(Blocks(w))
  <2>1. b \in DOMAIN Blocks(w)
    BY <1>2 DEF IoInv
  <2>2. QED
    BY <1>3, <2>1, BlockBounds
<1>8. PICK words : words = Sent(t, n) /\ words \in Seq(Words) /\ \A i \in DOMAIN words : words[i].of = <<t, w>>
  <2>1. n \in Nat \cup {-1}
    BY <1>7
  <2>2. PICK a \in Nat : a = pre
    BY <1>7
  <2>3. /\ [i \in 1..n |-> Word(t, a + i)] \in Seq(Words)
        /\ \A i \in DOMAIN [j \in 1..n |-> Word(t, a + j)] : [j \in 1..n |-> Word(t, a + j)][i].of = <<t, cur[t]>>
    BY <1>3, <2>1, WrittenWords DEF ThreadTypes
  <2>4. Sent(t, n) = [i \in 1..n |-> Word(t, a + i)]
    BY <2>2 DEF Sent
  <2>5. QED
    BY <2>3, <2>4, Zenon
<1>9. PICK k2 : k2 = conn'[Sock(t)] /\ k2.in = k.in \o words /\ k2.out = k.out /\ k2.pend = k.pend
                /\ k2.srv = k.srv /\ k2.cut = x
  BY <1>1, <1>3, <1>8 DEF WriteOutcome, ConnType
<1>10. ASSUME ~x PROVE Carries(t, w, pc'[t], io'[t], k2)
  <2>1. Carries(t, w, "send", io[t], k)
    <3>1. ~k.cut /\ Sending(t)
      BY <1>1, <1>2, <1>10 DEF WriteOutcome, Sending
    <3>2. QED
      BY <1>2, <3>1 DEF TrafficInv
  <2>2. Only(k2, <<t, w>>)
    <3>1. k.in \in Seq(Words) /\ \A i \in DOMAIN k.in : k.in[i].of = <<t, w>>
      BY <1>3, <2>1 DEF Carries, Only, ConnType
    <3>2. ASSUME NEW i \in DOMAIN k2.in PROVE k2.in[i].of = <<t, w>>
      <4>1. PICK p \in Seq(Words) : p = k.in
        BY <3>1
      <4>2. PICK q \in Seq(Words) : q = words
        BY <1>8
      <4>3. i \in 1..(Len(p) + Len(q)) /\ k2.in[i] = (IF i <= Len(p) THEN p[i] ELSE q[i - Len(p)])
        BY <1>9, <4>1, <4>2
      <4>4. CASE i <= Len(p)
        BY <3>1, <4>1, <4>3, <4>4
      <4>5. CASE i > Len(p)
        <5>1. i - Len(p) \in DOMAIN q
          BY <4>3, <4>5
        <5>2. QED
          BY <1>8, <4>2, <4>3, <4>5, <5>1
      <4>6. QED
        BY <4>3, <4>4, <4>5
    <3>3. QED
      BY <1>9, <2>1, <3>2 DEF Only, Carries
  <2>3. ASSUME io[t].cuts = 0, n = len
        PROVE  k2.in = Prefix(t, w, pre + len) /\ k2.pend = {} /\ k2.out = <<>>
    <3>1. Exact(t, w, pre, FALSE, k)
      BY <2>1, <2>3 DEF Carries
    <3>2. k.in = Prefix(t, w, pre) /\ k.pend = {} /\ k.out = <<>>
      BY <1>2, <3>1 DEF Exact
    <3>3. Prefix(t, w, pre) \o words = Prefix(t, w, pre + len)
      BY <1>7, <1>8, <2>3, PrefixGrows
    <3>4. QED
      BY <1>9, <3>2, <3>3, Zenon
  <2>4. CASE pc'[t] = "send" /\ io'[t].cuts # 0
    BY <2>2, <2>4 DEF Carries
  <2>5. CASE pc'[t] = "send" /\ b < Len(Blocks(w)) /\ io'[t] = Block(w, b + 1) /\ (x \/ (io[t].cuts = 0 /\ n = len))
    <3>1. Before(w, io'[t].blk) = pre + len
      BY <1>7, <2>5 DEF Block
    <3>2. Exact(t, w, Before(w, io'[t].blk), FALSE, k2)
      BY <1>10, <2>3, <2>5, <3>1 DEF Exact
    <3>3. QED
      BY <2>2, <2>5, <3>2 DEF Carries
  <2>6. CASE pc'[t] = "read" /\ b = Len(Blocks(w)) /\ (x \/ (io[t].cuts = 0 /\ n = len))
    <3>1. Last(Blocks(w)) = pre + len
      BY <1>7, <2>6
    <3>2. Exact(t, w, Last(Blocks(w)), TRUE, k2)
      BY <1>10, <2>3, <2>6, <3>1 DEF Exact
    <3>3. QED
      BY <2>2, <2>6, <3>2 DEF Carries
  <2>7. CASE pc'[t] = "efault"
    BY <2>2, <2>7 DEF Carries
  <2>8. QED
    BY <1>1, <2>4, <2>5, <2>6, <2>7 DEF WriteOutcome
<1>11. \A c \in Conn : c # Sock(t) => conn'[c] = conn[c]
  <2>1. \E y, z : conn' = [conn EXCEPT ![Sock(t)].in = y, ![Sock(t)].cut = z]
    BY DEF WriteMessage
  <2>2. QED
    BY <2>1 DEF TypeInv
<1>12. QED
  BY <1>2, <1>5, <1>6, <1>9, <1>10, <1>11 DEF OwnPart

LEMMA TrafficThread ==
  ASSUME TypeInv, LockInv, SockInv, IoInv, TrafficInv, [Next]_vars, NEW t \in Thread, ThreadNext(t)
  PROVE  TrafficInv'
<1>1. ThreadTypes /\ CallInv /\ conn \in [Conn -> ConnType] /\ mgr \in [Process -> [Service -> MgrType]]
  BY DEF TypeInv
<1>2. Proc(t) \in Process /\ svc[t] \in Service /\ cur[t] \in What /\ Proc(t)' = Proc(t)
  BY <1>1, SockKnown, CallsFixed DEF ThreadTypes
<1>3. SUFFICES OwnPart(t)
  BY TrafficByThread
<1>4. CASE \/ Begin(t) \/ ClientSendMsgLocked(t) \/ SpawnListen(t) \/ Onward(t) \/ Return(t)
           \/ (GiveUp(t) /\ cur[t] # "listen")
  <2>1. conn' = conn /\ ~Sending(t) /\ ~Sending(t)'
    BY <1>1, <1>4 DEF Begin, ClientSendMsgLocked, SpawnListen, Onward, Return, GiveUp, HasSocket, Sending, ThreadTypes
  <2>2. QED
    BY <2>1 DEF OwnPart
<1>5. CASE StartSend(t) \/ (GiveUp(t) /\ cur[t] = "listen")
  <2>1. /\ pc[t] = "loop" /\ conn' = conn /\ mgr' = mgr /\ svc' = svc
        /\ pc'[t] = "send" /\ io'[t] = Block(cur'[t], 1) /\ cur'[t] \in What
    BY <1>1, <1>2, <1>5 DEF StartSend, GiveUp, ListenReturns, HasSocket, ThreadTypes, What
  <2>2. Sock(t)' = Sock(t)
    BY <1>2, <2>1 DEF Sock, Mgr
  <2>3. Sock(t) # None /\ ~conn[Sock(t)].cut => Quiet(conn[Sock(t)])
    BY <2>1, LoopQuiet
  <2>4. ~Sending(t)
    BY <2>1 DEF Sending
  <2>5. Sock(t) # None /\ ~conn[Sock(t)].cut => Carries(t, cur'[t], "send", Block(cur'[t], 1), conn[Sock(t)])
    BY <1>1, <2>1, <2>3, QuietCarries
  <2>6. QED
    BY <2>1, <2>2, <2>4, <2>5 DEF OwnPart
<1>6. CASE TryCreateSocket(t)
  <2>1. ~Sending(t) /\ ~Sending(t)'
    BY <1>6 DEF TryCreateSocket, CreateClientSocket, Sending
  <2>2. Quiet([Unused EXCEPT !.svc = svc[t], !.cli = TRUE, !.srv = TRUE])
    BY DEF Quiet, Unused
  <2>3. conn' = conn \/ \E c \in Conn : conn' = [conn EXCEPT ![c] = [Unused EXCEPT !.svc = svc[t], !.cli = TRUE, !.srv = TRUE]]
    BY <1>6 DEF TryCreateSocket, CreateClientSocket
  <2>4. \A c \in Conn : conn'[c] # conn[c] => Quiet(conn'[c])
    BY <1>1, <2>2, <2>3
  <2>5. QED
    BY <2>1, <2>4 DEF OwnPart
<1>7. CASE WriteMessage(t)
  BY <1>7, WriteOwnPart
<1>8. CASE WriteFails(t) \/ ReadFails(t)
  <2>1. CloseAndRetry(t)
    BY <1>8 DEF WriteFails, ReadFails
  <2>2. PICK d \in Conn \cup {None} : d = Sock(t)
    BY SockKnown
  <2>3. IF d = None THEN conn' = conn ELSE conn' = [conn EXCEPT ![d] = ClosedByClient(@)]
    BY <2>1, <2>2 DEF CloseAndRetry
  <2>4. ~Sending(t)'
    BY <1>1, <2>1 DEF CloseAndRetry, Sending, ThreadTypes
  <2>5. QED
    BY <2>2, <2>3, <2>4, ClosedOwnPart
<1>9. CASE AppSpawnClientDestroy(t)
  <2>1. "storage" \in Process /\ "main" \in Service
    BY DEF Process, Service
  <2>2. PICK d \in Conn \cup {None} : d = mgr["storage"]["main"].sock
    BY <1>1, <2>1 DEF MgrType
  <2>3. IF d = None THEN conn' = conn ELSE conn' = [conn EXCEPT ![d] = ClosedByClient(@)]
    BY <1>9, <2>2 DEF AppSpawnClientDestroy
  <2>4. ~Sending(t) /\ ~Sending(t)'
    BY <1>1, <1>9 DEF AppSpawnClientDestroy, Sending, ThreadTypes
  <2>5. QED
    BY <2>3, <2>4, ClosedOwnPart
<1>10. CASE ReadMessage(t)
  <2>1. pc[t] = "read" /\ Sending(t) /\ Sock(t) # None /\ conn[Sock(t)].out # <<>>
    BY <1>10 DEF ReadMessage, SockInv, Sending
  <2>2. PICK k \in ConnType : k = conn[Sock(t)]
    BY <2>1, SockKnown
  <2>3. Sock(t) \in Conn
    BY <2>1, SockKnown
  <2>4. conn' = [conn EXCEPT ![Sock(t)].out = <<>>]
    BY <1>10 DEF ReadMessage
  <2>5. /\ conn'[Sock(t)] = [k EXCEPT !.out = <<>>] /\ conn'[Sock(t)].cut = k.cut
        /\ \A c \in Conn : c # Sock(t) => conn'[c] = conn[c]
    BY <1>1, <2>2, <2>3, <2>4 DEF ConnType
  <2>6. ~k.cut => Quiet(conn'[Sock(t)])
    <3>1. ~k.cut => Carries(t, cur[t], "read", io[t], k)
      BY <2>1, <2>2 DEF TrafficInv
    <3>2. QED
      BY <2>1, <2>2, <2>5, <3>1, ReadLeavesQuiet
  <2>7. CASE cur[t] = "listen"
    <3>1. /\ mgr' = mgr /\ svc' = svc /\ pc'[t] = "send" /\ cur'[t] = "req" /\ io'[t] = Block("req", 1)
      BY <1>1, <1>10, <2>7 DEF ReadMessage, ListenReturns, ThreadTypes
    <3>2. Sock(t)' = Sock(t) /\ Sending(t)'
      BY <1>2, <3>1 DEF Sock, Mgr, Sending
    <3>3. ~k.cut => Carries(t, "req", "send", Block("req", 1), conn'[Sock(t)])
      BY <1>1, <2>6, QuietCarries DEF What
    <3>4. QED
      BY <2>5, <3>1, <3>2, <3>3 DEF OwnPart
  <2>8. CASE cur[t] # "listen"
    <3>1. ~Sending(t)'
      BY <1>1, <1>10, <2>8 DEF ReadMessage, Sending, ThreadTypes
    <3>2. QED
      BY <2>5, <2>6, <3>1 DEF OwnPart
  <2>9. QED
    BY <2>7, <2>8
<1>11. QED
  BY <1>4, <1>5, <1>6, <1>7, <1>8, <1>9, <1>10 DEF ThreadNext

\* What the service does with a connection k, leaving k2.
Served(t, w, p, j, k, k2) ==
  /\ Quiet(k) => Quiet(k2)
  /\ Carries(t, w, p, j, k) => Carries(t, w, p, j, k2)

LEMMA ClosedServed ==
  ASSUME NEW t, NEW w, NEW p, NEW j, NEW k \in ConnType, k.cli,
         Carries(t, w, p, j, k) \/ Quiet(k)
  PROVE  Served(t, w, p, j, k, ClosedByService(k))
<1>1. PICK k2 : /\ k2 = ClosedByService(k) /\ k2.in = <<>> /\ k2.pend = {} /\ k2.out = k.out /\ ~k2.srv
  <2>1. ClosedByService(k) = [k EXCEPT !.srv = FALSE, !.in = <<>>, !.pend = {}]
    BY DEF ClosedByService
  <2>2. PICK x : x = [k EXCEPT !.srv = FALSE, !.in = <<>>, !.pend = {}]
    OBVIOUS
  <2>3. x.in = <<>> /\ x.pend = {} /\ x.out = k.out /\ x.srv = FALSE
    BY <2>2 DEF ConnType
  <2>4. QED
    BY <2>1, <2>2, <2>3
<1>2. Quiet(k) => Quiet(k2)
  BY <1>1 DEF Quiet
<1>3. Only(k, <<t, w>>) => Only(k2, <<t, w>>)
  BY <1>1 DEF Only
<1>4. ASSUME NEW n, NEW all, Exact(t, w, n, all, k) PROVE Exact(t, w, n, all, k2)
  BY <1>1, <1>4 DEF Exact, Quiet
<1>5. QED
  BY <1>1, <1>2, <1>3, <1>4 DEF Served, Carries

LEMMA SubSeqKnown ==
  ASSUME NEW S, NEW q \in Seq(S), NEW a \in Nat \ {0}, NEW b \in 0..Len(q), a <= b + 1
  PROVE  /\ SubSeq(q, a, b) \in Seq(S) /\ Len(SubSeq(q, a, b)) = b - a + 1
         /\ \A i \in 1..(b - a + 1) : SubSeq(q, a, b)[i] = q[a + i - 1]
<1>1. SubSeq(q, a, b) \in Seq(S)
  OBVIOUS
<1>2. Len(SubSeq(q, a, b)) = b - a + 1
  OBVIOUS
<1>3. \A i \in 1..(b - a + 1) : SubSeq(q, a, b)[i] = q[a + i - 1]
  OBVIOUS
<1>4. QED
  BY <1>1, <1>2, <1>3

\* OnReceiveRequest takes the message m off k, which becomes k2.
Accepts(k, m, k2) ==
  /\ Complete(k.in) /\ m = SubSeq(k.in, 1, k.in[1].n)
  /\ k2 = [k EXCEPT !.in = SubSeq(k.in, m[1].n + 1, Len(k.in)),
                    !.pend = k.pend \cup {[of |-> m[1].of, intact |-> IsIntact(m)]}]

\* The service takes up what is complete.
LEMMA AcceptServed ==
  ASSUME CallInv, NEW t \in Thread, NEW w \in What, NEW p \in {"send", "efault", "read"}, NEW j,
         p = "send" => j.blk \in DOMAIN Blocks(w),
         NEW k \in ConnType, NEW m, NEW k2, Accepts(k, m, k2)
  PROVE  Served(t, w, p, j, k, k2)
<1>0. /\ Complete(k.in) /\ m = SubSeq(k.in, 1, k.in[1].n)
      /\ k2 = [k EXCEPT !.in = SubSeq(k.in, m[1].n + 1, Len(k.in)),
                        !.pend = k.pend \cup {[of |-> m[1].of, intact |-> IsIntact(m)]}]
  BY DEF Accepts
<1>1. PICK q \in Seq(Words) : q = k.in
  BY DEF ConnType
<1>2. PICK n \in Nat \ {0} : n = q[1].n /\ n <= Len(q) /\ q[1].i = 1 /\ q[1] \in Words
  BY <1>0, <1>1, CompleteKnown
<1>3. m = SubSeq(q, 1, n) /\ m \in Seq(Words) /\ Len(m) = n /\ \A i \in 1..n : m[i] = q[i]
  <2>1. m = SubSeq(q, 1, n)
    BY <1>0, <1>1, <1>2
  <2>2. n \in 0..Len(q) /\ 1 <= n + 1 /\ n - 1 + 1 = n
    BY <1>2
  <2>3. PICK a \in Nat \ {0} : a = 1 /\ a <= n + 1
    BY <2>2
  <2>4. /\ SubSeq(q, a, n) \in Seq(Words) /\ Len(SubSeq(q, a, n)) = n - a + 1
        /\ \A i \in 1..(n - a + 1) : SubSeq(q, a, n)[i] = q[a + i - 1]
    BY <2>2, <2>3, SubSeqKnown
  <2>5. n - a + 1 = n /\ \A i \in 1..n : a + i - 1 = i
    BY <2>3
  <2>6. m = SubSeq(q, a, n)
    BY <2>1, <2>3
  <2>7. QED
    BY <2>1, <2>4, <2>5, <2>6
<1>4. m[1] = q[1]
  BY <1>2, <1>3
<1>5. PICK r \in Seq(Words) : /\ r = SubSeq(q, n + 1, Len(q)) /\ Len(r) = Len(q) - n
                              /\ \A i \in 1..Len(r) : r[i] = q[n + i]
  <2>1. PICK r : r = SubSeq(q, n + 1, Len(q))
    OBVIOUS
  <2>2. PICK l \in Nat, a \in Nat \ {0} : l = Len(q) /\ a = n + 1 /\ l \in 0..Len(q) /\ a <= l + 1 /\ l - a + 1 = l - n
    BY <1>2
  <2>3. r \in Seq(Words) /\ Len(r) = l - a + 1 /\ \A i \in 1..(l - a + 1) : r[i] = q[a + i - 1]
    BY <2>1, <2>2, SubSeqKnown
  <2>4. \A i \in Nat : a + i - 1 = n + i
    <3>1. a = n + 1
      BY <2>2
    <3>2. QED
      BY <3>1
  <2>5. Len(r) = Len(q) - n
    BY <2>2, <2>3
  <2>6. ASSUME NEW i \in 1..Len(r) PROVE r[i] = q[n + i]
    <3>1. i \in Nat /\ i \in 1..(l - a + 1)
      BY <2>3
    <3>2. QED
      BY <2>3, <2>4, <3>1
  <2>7. QED
    BY <2>1, <2>3, <2>5, <2>6
<1>6. /\ k2.in = r /\ k2.pend = k.pend \cup {[of |-> q[1].of, intact |-> IsIntact(m)]} /\ k2.out = k.out
  BY <1>0, <1>1, <1>2, <1>4, <1>5 DEF ConnType
<1>7. ~Quiet(k)
  BY <1>0, <1>1, <1>2 DEF Quiet, Complete
<1>8. ASSUME Only(k, <<t, w>>) PROVE Only(k2, <<t, w>>)
  <2>1. \A i \in 1..Len(q) : q[i].of = <<t, w>>
    BY <1>1, <1>8 DEF Only
  <2>2. q[1].of = <<t, w>>
    BY <1>2, <2>1
  <2>3. ASSUME NEW i \in DOMAIN k2.in PROVE k2.in[i].of = <<t, w>>
    <3>1. i \in 1..Len(r) /\ Len(r) \in Nat /\ Len(q) \in Nat
      <4>1. k2.in = r
        BY <1>6
      <4>2. i \in DOMAIN r
        BY <2>3, <4>1
      <4>3. QED
        BY <4>2
    <3>2. n + i \in 1..Len(q)
      <4>1. PICK x \in Nat, y \in Nat : x = Len(r) /\ y = Len(q)
        BY <3>1
      <4>2. x = y - n
        BY <1>5, <4>1
      <4>3. i \in 1..x
        BY <3>1, <4>1
      <4>4. n + i \in 1..y
        BY <4>2, <4>3
      <4>5. QED
        BY <4>1, <4>4
    <3>3. QED
      BY <1>5, <1>6, <2>1, <3>1, <3>2
  <2>4. ASSUME NEW job \in k2.pend PROVE job.of = <<t, w>>
    <3>1. CASE job \in k.pend
      BY <1>8, <3>1 DEF Only
    <3>2. CASE job = [of |-> q[1].of, intact |-> IsIntact(m)]
      BY <2>2, <3>2
    <3>3. QED
      BY <1>6, <2>4, <3>1, <3>2
  <2>5. QED
    BY <1>6, <1>8, <2>3, <2>4 DEF Only
<1>9. ASSUME NEW a \in Nat, NEW all, Exact(t, w, a, all, k)
      PROVE  q = Prefix(t, w, a) /\ k.pend = {} /\ k.out = <<>> /\ a >= Last(Blocks(w)) /\ n = Last(Blocks(w))
  <2>1. q = Prefix(t, w, a) /\ k.pend = {} /\ k.out = <<>>
    <3>1. q # <<>>
      BY <1>2
    <3>2. QED
      BY <1>1, <1>9, <3>1 DEF Exact, Quiet
  <2>2. Len(q) = a /\ \A i \in 1..a : q[i] = [of |-> <<t, w>>, i |-> i, n |-> Last(Blocks(w))]
    BY <2>1, PrefixKnown
  <2>3. 1 \in 1..a
    BY <1>2, <2>2
  <2>4. n = Last(Blocks(w))
    BY <1>2, <2>2, <2>3
  <2>5. QED
    BY <1>2, <2>1, <2>2, <2>4
<1>10. ASSUME p = "read", Exact(t, w, Last(Blocks(w)), TRUE, k)
       PROVE  Exact(t, w, Last(Blocks(w)), TRUE, k2)
  <2>1. Last(Blocks(w)) \in Nat \ {0}
    BY FirstBlockKnown
  <2>2. q = Prefix(t, w, n) /\ k.pend = {} /\ k.out = <<>> /\ n = Last(Blocks(w))
    BY <1>9, <1>10, <2>1
  <2>3. Len(q) = n /\ \A i \in 1..n : q[i] = [of |-> <<t, w>>, i |-> i, n |-> Last(Blocks(w))]
    BY <2>2, PrefixKnown
  <2>4. r = <<>>
    BY <1>5, <2>3
  <2>5. \A i \in 1..n : m[i].of = <<t, w>> /\ m[i].i = i
    BY <1>3, <2>3
  <2>6. IsIntact(m) = TRUE
    <3>1. DOMAIN m = 1..n /\ 1 \in 1..n
      BY <1>3, <1>2
    <3>2. \A i \in DOMAIN m : m[i].of = m[1].of /\ m[i].i = i
      BY <2>5, <3>1
    <3>3. IsIntact(m)
      BY <3>2 DEF IsIntact
    <3>4. IsIntact(m) \in BOOLEAN
      BY DEF IsIntact
    <3>5. QED
      BY <3>3, <3>4
  <2>7. q[1].of = <<t, w>>
    <3>1. 1 \in 1..n
      OBVIOUS
    <3>2. m[1].of = <<t, w>>
      BY <2>5, <3>1
    <3>3. QED
      BY <1>4, <3>2
  <2>8. k2.pend = {[of |-> <<t, w>>, intact |-> TRUE]}
    BY <1>6, <2>2, <2>6, <2>7
  <2>9. QED
    BY <1>6, <2>2, <2>4, <2>8 DEF Exact
<1>11. ASSUME p = "send", Exact(t, w, Before(w, j.blk), FALSE, k)
       PROVE  FALSE
  <2>1. Before(w, j.blk) \in Nat /\ Before(w, j.blk) < Last(Blocks(w)) /\ Last(Blocks(w)) \in Nat
    BY <1>11, BlockBounds, FirstBlockKnown
  <2>2. Before(w, j.blk) >= Last(Blocks(w))
    BY <1>9, <1>11, <2>1
  <2>3. QED
    BY <2>1, <2>2
<1>12. QED
  BY <1>7, <1>8, <1>10, <1>11 DEF Served, Carries

\* The service answers what it took up.
LEMMA AnswerServed ==
  ASSUME NEW t, NEW w, NEW p, NEW j, NEW k \in ConnType, NEW job \in k.pend, NEW r \in Replies, NEW k2,
         r.of = job.of, r.intact = job.intact,
         k2 = [k EXCEPT !.pend = k.pend \ {job}, !.out = Append(k.out, r)]
  PROVE  Served(t, w, p, j, k, k2)
<1>1. PICK o \in Seq(Replies) : o = k.out
  BY DEF ConnType
<1>2. k2.pend = k.pend \ {job} /\ k2.out = Append(o, r) /\ k2.in = k.in /\ k2.srv = k.srv
  BY <1>1 DEF ConnType
<1>3. ~Quiet(k)
  BY DEF Quiet
<1>4. ASSUME Only(k, <<t, w>>) PROVE Only(k2, <<t, w>>)
  <2>1. \A i \in 1..Len(o) : o[i].of = <<t, w>>
    BY <1>1, <1>4 DEF Only
  <2>2. r.of = <<t, w>>
    BY <1>4 DEF Only
  <2>3. \A i \in DOMAIN Append(o, r) : Append(o, r)[i].of = <<t, w>>
    BY <2>1, <2>2
  <2>4. QED
    BY <1>2, <1>4, <2>3 DEF Only
<1>5. ASSUME NEW n, NEW all, Exact(t, w, n, all, k) PROVE Exact(t, w, n, all, k2)
  <2>1. all /\ k.in = <<>> /\ o = <<>> /\ k.pend = {[of |-> <<t, w>>, intact |-> TRUE]}
    BY <1>1, <1>3, <1>5 DEF Exact
  <2>2. job = [of |-> <<t, w>>, intact |-> TRUE]
    BY <2>1
  <2>3. k2.pend = {} /\ k2.out = <<r>>
    BY <1>2, <2>1, <2>2
  <2>4. r.of = <<t, w>> /\ r.intact
    BY <2>2
  <2>5. Len(k2.out) = 1 /\ k2.out[1] = r
    BY <2>3, SMTT(30)
  <2>6. QED
    BY <1>2, <2>1, <2>3, <2>4, <2>5 DEF Exact
<1>6. QED
  BY <1>3, <1>4, <1>5 DEF Served, Carries

\* SendResponse.
LEMMA AnswerKnown ==
  ASSUME TypeInv, NEW c \in Conn, SvcAnswer(c)
  PROVE  \E job \in conn[c].pend, r \in Replies :
           /\ r.of = job.of /\ r.intact = job.intact
           /\ r.app = IF r.ok THEN NewApp(job) ELSE NoApp
           /\ conn' = [conn EXCEPT ![c].pend = @ \ {job}, ![c].out = Append(@, r)]
           /\ live' = live \cup ({r.app} \ {NoApp})
           /\ conn[c].cli /\ late' = late
<1>0. PICK job \in conn[c].pend, ok \in BOOLEAN : \E app : Answered(c, job, ok, app)
  BY Zenon DEF SvcAnswer, Answered
<1>1. PICK app : Answered(c, job, ok, app)
  BY <1>0
<1>2. job \in Jobs
  BY DEF TypeInv, ConnType
<1>3. app \in Names
  BY <1>1, <1>2, NewAppNamed DEF Names, Answered
<1>4. PICK r \in Replies : r = [ok |-> ok, of |-> job.of, intact |-> job.intact, app |-> app, cut |-> FALSE]
  BY <1>2, <1>3 DEF Replies, Jobs
<1>5. r.of = job.of /\ r.intact = job.intact /\ r.app = app /\ r.ok = ok
  BY <1>4
<1>6. conn[c].cli /\ late' = late
  BY DEF SvcAnswer
<1>7. QED
  BY <1>1, <1>4, <1>5, <1>6, Zenon DEF Answered

LEMMA OneConnection ==
  ASSUME TypeInv, NEW d \in Conn, SvcAccept(d) \/ SvcAnswer(d), NEW c \in Conn \ {d}
  PROVE  conn'[c] = conn[c]
<1>1. conn \in [Conn -> ConnType]
  BY DEF TypeInv
<1>2. CASE SvcAccept(d)
  <2>1. \E x, y : conn' = [conn EXCEPT ![d].in = x, ![d].pend = y]
    BY <1>2 DEF SvcAccept
  <2>2. QED
    BY <1>1, <2>1
<1>3. CASE SvcAnswer(d)
  <2>1. \E x, y : conn' = [conn EXCEPT ![d].pend = x, ![d].out = y]
    BY <1>3 DEF SvcAnswer
  <2>2. QED
    BY <1>1, <2>1
<1>4. QED
  BY <1>2, <1>3

LEMMA TrafficService ==
  ASSUME TypeInv, LockInv, SockInv, IoInv, TrafficInv, [Next]_vars, UNCHANGED <<tvars, mgr>>,
         \/ UNCHANGED <<conn, live, late>>
         \/ \E c \in Conn : SvcAccept(c) \/ SvcRefuse(c) \/ SvcAnswer(c) \/ SvcClose(c)
         \/ \E s \in Service : SvcDies(s)
  PROVE  TrafficInv'
<1>1. ThreadTypes /\ CallInv /\ conn \in [Conn -> ConnType]
  BY DEF TypeInv
<1>2. \A u \in Thread : /\ pc'[u] = pc[u] /\ cur'[u] = cur[u] /\ io'[u] = io[u] /\ Sock(u)' = Sock(u)
                        /\ Sending(u)' = Sending(u)
  BY CallsFixed DEF tvars, Sock, Mgr, Sending
<1>3. \A x \in Conn : conn'[x].cli = conn[x].cli /\ (conn[x].cli => conn'[x].cut = conn[x].cut)
  BY ServiceKeepsClients
<1>4. ASSUME NEW c \in Conn, conn[c].cli, NEW t \in Thread, Sending(t),
             Quiet(conn[c]) \/ Carries(t, cur[t], pc[t], io[t], conn[c])
      PROVE  Served(t, cur[t], pc[t], io[t], conn[c], conn'[c])
  <2>1. /\ cur[t] \in What /\ pc[t] \in {"send", "efault", "read"} /\ conn[c] \in ConnType
        /\ pc[t] = "send" => io[t].blk \in DOMAIN Blocks(cur[t])
    BY <1>1, <1>4 DEF ThreadTypes, Sending, IoInv
  <2>2. CASE conn'[c] = conn[c]
    BY <2>2 DEF Served
  <2>3. CASE conn'[c] = ClosedByService(conn[c])
    BY <1>4, <2>1, <2>3, ClosedServed
  <2>4. ASSUME SvcAccept(c) PROVE Served(t, cur[t], pc[t], io[t], conn[c], conn'[c])
    <3>1. PICK k \in ConnType : k = conn[c]
      BY <2>1
    <3>2. PICK m : m = SubSeq(k.in, 1, k.in[1].n)
      OBVIOUS
    <3>3. Accepts(k, m, conn'[c])
      BY <1>1, <2>4, <3>1, <3>2 DEF SvcAccept, ConnType, Accepts
    <3>0. PICK w \in What, p \in {"send", "efault", "read"} : w = cur[t] /\ p = pc[t]
      BY <2>1
    <3>4. PICK j, k2 : j = io[t] /\ k2 = conn'[c]
      OBVIOUS
    <3>5. Served(t, w, p, j, k, k2)
      <4>1. p = "send" => j.blk \in DOMAIN Blocks(w)
        BY <2>1, <3>0, <3>4
      <4>2. Accepts(k, m, k2)
        BY <3>3, <3>4
      <4>3. QED
        BY <1>1, <4>1, <4>2, AcceptServed
    <3>6. QED
      BY <3>0, <3>1, <3>4, <3>5
  <2>5. ASSUME SvcAnswer(c) PROVE Served(t, cur[t], pc[t], io[t], conn[c], conn'[c])
    <3>1. PICK k \in ConnType : k = conn[c]
      BY <2>1
    <3>2. PICK job \in k.pend, r \in Replies :
            /\ r.of = job.of /\ r.intact = job.intact
            /\ conn'[c] = [k EXCEPT !.pend = k.pend \ {job}, !.out = Append(k.out, r)]
      <4>1. PICK job \in conn[c].pend, r \in Replies :
              /\ r.of = job.of /\ r.intact = job.intact
              /\ r.app = IF r.ok THEN NewApp(job) ELSE NoApp
              /\ conn' = [conn EXCEPT ![c].pend = @ \ {job}, ![c].out = Append(@, r)]
              /\ live' = live \cup ({r.app} \ {NoApp})
              /\ conn[c].cli /\ late' = late
        BY <2>5, AnswerKnown, Zenon
      <4>2. QED
        BY <1>1, <3>1, <4>1 DEF ConnType
    <3>3. QED
      BY <3>1, <3>2, AnswerServed
  <2>6. ASSUME NEW d \in Conn, SvcRefuse(d) \/ SvcClose(d) PROVE conn'[c] \in {conn[c], ClosedByService(conn[c])}
    BY <1>1, <1>4, <2>6 DEF SvcRefuse, SvcClose
  <2>7. ASSUME NEW d \in Conn, SvcAccept(d) \/ SvcAnswer(d), d # c PROVE conn'[c] = conn[c]
    BY <2>7, OneConnection
  <2>8. ASSUME NEW s \in Service, SvcDies(s) PROVE conn'[c] \in {conn[c], ClosedByService(conn[c])}
    BY <1>1, <2>8 DEF SvcDies
  <2>9. QED
    BY <2>2, <2>3, <2>4, <2>5, <2>6, <2>7, <2>8
<1>5. ASSUME NEW c \in Conn, conn[c].cli, Quiet(conn[c]) PROVE Quiet(conn'[c])
  <2>1. /\ conn[c].in = <<>> /\ conn[c].pend = {} /\ conn[c].out = <<>> /\ conn[c] \in ConnType
    BY <1>1, <1>5 DEF Quiet
  <2>2. ASSUME NEW d \in Conn, SvcAccept(d) \/ SvcAnswer(d) PROVE conn'[c] = conn[c]
    <3>1. d # c
      BY <2>1, <2>2 DEF SvcAccept, SvcAnswer, Complete
    <3>2. QED
      BY <2>2, <3>1, OneConnection
  <2>3. ASSUME NEW d \in Conn, SvcRefuse(d) \/ SvcClose(d) PROVE conn'[c] \in {conn[c], ClosedByService(conn[c])}
    BY <1>1, <1>5, <2>3 DEF SvcRefuse, SvcClose
  <2>4. ASSUME NEW s \in Service, SvcDies(s) PROVE conn'[c] \in {conn[c], ClosedByService(conn[c])}
    BY <1>1, <2>4 DEF SvcDies
  <2>5. Quiet(ClosedByService(conn[c]))
    BY <1>5, <2>1 DEF ClosedByService, Quiet, ConnType
  <2>6. conn'[c] \in {conn[c], ClosedByService(conn[c])}
    BY <2>2, <2>3, <2>4
  <2>7. QED
    BY <1>5, <2>5, <2>6
<1>6. ASSUME NEW t \in Thread, Sending(t)', Sock(t)' # None, ~conn'[Sock(t)'].cut
      PROVE  Carries(t, cur'[t], pc'[t], io'[t], conn'[Sock(t)'])
  <2>1. PICK c \in Conn : c = Sock(t) /\ c # None /\ conn[c].cli
    BY <1>2, <1>6, SockKnown
  <2>2. Sending(t) /\ ~conn[c].cut /\ Sock(t)' = c
    BY <1>2, <1>3, <1>6, <2>1
  <2>3. Carries(t, cur[t], pc[t], io[t], conn[c])
    BY <2>1, <2>2 DEF TrafficInv
  <2>4. Carries(t, cur[t], pc[t], io[t], conn'[c])
    BY <1>4, <2>1, <2>2, <2>3 DEF Served
  <2>5. QED
    BY <1>2, <2>2, <2>4
<1>7. ASSUME NEW c \in Conn, conn'[c].cli, ~conn'[c].cut
      PROVE  Quiet(conn'[c]) \/ \E t \in Thread : Sending(t)' /\ Sock(t)' = c
  <2>1. conn[c].cli /\ ~conn[c].cut
    BY <1>3, <1>7
  <2>2. Quiet(conn[c]) \/ \E t \in Thread : Sending(t) /\ Sock(t) = c
    BY <2>1 DEF TrafficInv
  <2>3. QED
    BY <1>2, <1>5, <2>1, <2>2
<1>8. QED
  BY <1>6, <1>7, TrafficFrame

LEMMA TrafficStep ==
  ASSUME TypeInv, LockInv, SockInv, IoInv, TrafficInv, [Next]_vars
  PROVE  TrafficInv'
  BY ServiceSteps, TrafficThread, TrafficService

(***************************************************************************)
(* Answers.                                                                *)
(***************************************************************************)
\* Applications are only added, and what a request is stays.
LEMMA LiveGrows ==
  ASSUME TypeInv, [Next]_vars
  PROVE  /\ live \subseteq live'
         /\ \A r : Earned(live, r) => Earned(live', r)
         /\ \A t, r : Own(live, t, r) => Own(live', t, r)
<1>1. live \subseteq live'
  <2>1. ASSUME NEW t \in Thread, ThreadNext(t) PROVE live' = live
    BY <2>1 DEF ThreadNext, Begin, ClientSendMsgLocked, TryCreateSocket, CreateClientSocket, SpawnListen, StartSend,
         WriteMessage, WriteFails, ReadMessage, ReadFails, GiveUp, Onward, Return,
         AppSpawnClientDestroy, CloseAndRetry, svars
  <2>2. ASSUME NEW c \in Conn, SvcAccept(c) \/ SvcRefuse(c) \/ SvcAnswer(c) \/ SvcClose(c)
        PROVE live \subseteq live'
    BY <2>2 DEF SvcAccept, SvcRefuse, SvcAnswer, SvcClose, svars
  <2>3. ASSUME NEW s \in Service, SvcDies(s) PROVE live' = live
    BY <2>3 DEF SvcDies
  <2>4. QED
    BY <2>1, <2>2, <2>3, ServiceSteps
<1>2. \A r : Earned(live, r) => Earned(live', r)
  BY <1>1 DEF Earned
<1>3. QED
  BY <1>1, <1>2 DEF Own

LEMMA ReplyFrame ==
  ASSUME [Next]_vars,
         \A c \in Conn : \A i \in DOMAIN conn'[c].out : Earned(live', conn'[c].out[i]),
         \A t \in Thread : Own(live', t, result'[t]),
         \A t \in Thread : pc'[t] = "done" /\ ~IsBroadcast(t) => Own(live', t, final'[t])
  PROVE  ReplyInv'
<1>1. \A t \in Thread : IsBroadcast(t)' = IsBroadcast(t) /\ IsSpawn(t)' = IsSpawn(t)
  BY CallsFixed
<1>2. ASSUME NEW a, NEW r PROVE Earned(a, r)' <=> Earned(a, r)
  BY <1>1 DEF Earned
<1>3. ASSUME NEW a, NEW t, NEW r PROVE Own(a, t, r)' <=> Own(a, t, r)
  BY <1>2 DEF Own
<1>4. QED
  BY <1>1, <1>2, <1>3 DEF ReplyInv

\* The answers on the connections: a thread adds none.
LEMMA ThreadOut ==
  ASSUME TypeInv, SockInv, NEW t \in Thread, ThreadNext(t)
  PROVE  \A c \in Conn : conn'[c].out \in {conn[c].out, <<>>}
<1>1. conn \in [Conn -> ConnType]
  BY DEF TypeInv
<1>2. CASE \/ Begin(t) \/ ClientSendMsgLocked(t) \/ SpawnListen(t) \/ StartSend(t) \/ GiveUp(t) \/ Onward(t) \/ Return(t)
  BY <1>2 DEF Begin, ClientSendMsgLocked, SpawnListen, StartSend, GiveUp, Onward, Return
<1>3. CASE TryCreateSocket(t)
  <2>1. PICK k : k = [Unused EXCEPT !.svc = svc[t], !.cli = TRUE, !.srv = TRUE] /\ k.out = <<>>
    <3>1. PICK k : k = [Unused EXCEPT !.svc = svc[t], !.cli = TRUE, !.srv = TRUE]
      OBVIOUS
    <3>2. k.out = <<>>
      BY <3>1 DEF Unused
    <3>3. QED
      BY <3>1, <3>2
  <2>2. conn' = conn \/ \E c \in Conn : conn' = [conn EXCEPT ![c] = k]
    BY <1>3, <2>1 DEF TryCreateSocket, CreateClientSocket
  <2>3. QED
    BY <1>1, <2>1, <2>2
<1>4. CASE WriteMessage(t)
  <2>1. \E y, z : conn' = [conn EXCEPT ![Sock(t)].in = y, ![Sock(t)].cut = z]
    BY <1>4 DEF WriteMessage
  <2>2. QED
    BY <1>1, <2>1 DEF ConnType
<1>5. CASE WriteFails(t) \/ ReadFails(t) \/ AppSpawnClientDestroy(t)
  <2>1. conn' = conn \/ \E d : conn' = [conn EXCEPT ![d] = ClosedByClient(@)]
    BY <1>5 DEF WriteFails, ReadFails, CloseAndRetry, AppSpawnClientDestroy
  <2>2. \A k \in ConnType : ClosedByClient(k).out = <<>>
    BY DEF ClosedByClient, ConnType, Unused
  <2>3. QED
    BY <1>1, <2>1, <2>2
<1>6. CASE ReadMessage(t)
  <2>1. conn' = [conn EXCEPT ![Sock(t)].out = <<>>]
    BY <1>6 DEF ReadMessage
  <2>2. QED
    BY <1>1, <2>1 DEF ConnType
<1>7. QED
  BY <1>2, <1>3, <1>4, <1>5, <1>6 DEF ThreadNext

\* The steps of a service other than SendResponse.
LEMMA ServiceOut ==
  ASSUME TypeInv,
         \/ UNCHANGED conn
         \/ \E c \in Conn : SvcAccept(c) \/ SvcRefuse(c) \/ SvcClose(c)
         \/ \E s \in Service : SvcDies(s)
  PROVE  \A x \in Conn : conn'[x].out \in {conn[x].out, <<>>} /\ (conn[x].cli => conn'[x].out = conn[x].out)
<1>1. conn \in [Conn -> ConnType]
  BY DEF TypeInv
<1>2. \A k \in ConnType : ClosedByService(k).out \in {k.out, <<>>} /\ (k.cli => ClosedByService(k).out = k.out)
  BY DEF ClosedByService, Unused, ConnType
<1>3. ASSUME NEW c \in Conn, SvcRefuse(c) \/ SvcClose(c)
      PROVE \A x \in Conn : conn'[x] \in {conn[x], ClosedByService(conn[x])}
  <2>1. ~conn[c].cli => ClosedByService(conn[c]) = Unused
    BY DEF ClosedByService
  <2>2. QED
    BY <1>1, <1>3, <2>1 DEF SvcRefuse, SvcClose
<1>4. ASSUME NEW s \in Service, SvcDies(s)
      PROVE \A x \in Conn : conn'[x] \in {conn[x], ClosedByService(conn[x])}
  BY <1>1, <1>4 DEF SvcDies
<1>5. ASSUME NEW c \in Conn, SvcAccept(c) PROVE \A x \in Conn : conn'[x].out = conn[x].out
  <2>1. \E a, b : conn' = [conn EXCEPT ![c].in = a, ![c].pend = b]
    BY <1>5 DEF SvcAccept
  <2>2. QED
    BY <1>1, <2>1 DEF ConnType
<1>6. \A x \in Conn : conn[x] \in ConnType
  BY <1>1
<1>7. QED
  BY <1>2, <1>3, <1>4, <1>5, <1>6

\* SendResponse adds an answer that names what it started.
LEMMA AnswerEarned ==
  ASSUME TypeInv, [Next]_vars, NEW job \in Jobs, NEW r \in Replies, r.of = job.of,
         r.app = IF r.ok THEN NewApp(job) ELSE NoApp,
         live' = live \cup ({r.app} \ {NoApp})
  PROVE  Earned(live', r)
<1>1. SUFFICES ASSUME r.ok, NEW t \in Thread, r.of = <<t, "req">>, IsSpawn(t) PROVE r.app \in live'
  BY DEF Earned
<1>2. job.of[1] = t /\ job.of[2] = "req"
  BY <1>1
<1>3. PICK n : r.app = <<t, n>>
  BY <1>1, <1>2 DEF NewApp
<1>4. r.app # NoApp
  <2>1. PICK x : x = <<t, n>>
    OBVIOUS
  <2>2. 1 \in DOMAIN x /\ 1 \notin DOMAIN <<>>
    BY <2>1
  <2>3. x # <<>>
    BY <2>2, Zenon
  <2>4. QED
    BY <1>3, <2>1, <2>3 DEF NoApp
<1>5. QED
  BY <1>4

LEMMA ReplyStep ==
  ASSUME TypeInv, LockInv, SockInv, IoInv, TrafficInv, ReplyInv, [Next]_vars
  PROVE  ReplyInv'
<1>1. ThreadTypes /\ conn \in [Conn -> ConnType]
  BY DEF TypeInv
<1>3. \A c \in Conn : \A i \in DOMAIN conn[c].out : Earned(live', conn[c].out[i])
  BY LiveGrows DEF ReplyInv
<1>4. ASSUME NEW t \in Thread, ThreadNext(t) PROVE ReplyInv'
  <2>1. \A c \in Conn : \A i \in DOMAIN conn'[c].out : Earned(live', conn'[c].out[i])
    <3>1. ASSUME NEW c \in Conn, NEW i \in DOMAIN conn'[c].out PROVE Earned(live', conn'[c].out[i])
      <4>1. conn'[c].out = conn[c].out
        <5>1. conn'[c].out # <<>>
          BY <3>1
        <5>2. QED
          BY <1>4, <5>1, ThreadOut
      <4>2. i \in DOMAIN conn[c].out /\ conn'[c].out[i] = conn[c].out[i]
        BY <3>1, <4>1
      <4>3. QED
        BY <1>3, <4>2
    <3>2. QED
      BY <3>1
  <2>2. result'[t] = result[t] \/ Own(live, t, result'[t])
    <3>1. CASE ReadMessage(t) /\ cur[t] # "listen"
      <4>1. pc[t] = "read" /\ Sock(t) # None /\ conn[Sock(t)].out # <<>> /\ Sending(t) /\ cur[t] = "req"
        BY <1>1, <3>1 DEF ReadMessage, SockInv, Sending, ThreadTypes, What
      <4>2. PICK k \in ConnType : k = conn[Sock(t)]
        BY <4>1, SockKnown
      <4>3. PICK h \in Replies : h = Head(k.out) /\ h = k.out[1] /\ 1 \in DOMAIN k.out
        <5>1. PICK o \in Seq(Replies) : o = k.out /\ o # <<>>
          BY <4>1, <4>2 DEF ConnType
        <5>2. Head(o) \in Replies /\ Head(o) = o[1] /\ 1 \in DOMAIN o
          BY <5>1
        <5>3. QED
          BY <5>1, <5>2
      <4>4. PICK r : /\ r = [h EXCEPT !.cut = k.cut] /\ r.ok = h.ok /\ r.of = h.of /\ r.app = h.app
                     /\ r.intact = h.intact /\ r.cut = k.cut
        <5>1. PICK r : r = [h EXCEPT !.cut = k.cut]
          OBVIOUS
        <5>2. r.ok = h.ok /\ r.of = h.of /\ r.app = h.app /\ r.intact = h.intact /\ r.cut = k.cut
          BY <5>1 DEF Replies
        <5>3. QED
          BY <5>1, <5>2
      <4>5. Earned(live, h)
        BY <4>1, <4>2, <4>3, SockKnown DEF ReplyInv
      <4>6. Earned(live, r)
        BY <4>4, <4>5 DEF Earned
      <4>7. ~k.cut => h.of = <<t, "req">> /\ h.intact
        <5>1. ~k.cut => Carries(t, "req", "read", io[t], k)
          BY <4>1, <4>2 DEF TrafficInv
        <5>2. QED
          BY <4>1, <4>2, <4>3, <5>1, ReadLeavesQuiet
      <4>8. Own(live, t, r)
        BY <4>4, <4>6, <4>7 DEF Own
      <4>9. StoreResult(t, r)
        BY <3>1, <4>2, <4>3, <4>4 DEF ReadMessage
      <4>10. QED
        BY <1>1, <4>8, <4>9 DEF StoreResult, ThreadTypes
    <3>2. CASE ~(ReadMessage(t) /\ cur[t] # "listen")
      BY <1>4, <3>2 DEF ThreadNext, Begin, ClientSendMsgLocked, TryCreateSocket, CreateClientSocket, SpawnListen, StartSend,
         WriteMessage, WriteFails, ReadMessage, ReadFails, GiveUp, Onward, Return,
         AppSpawnClientDestroy, CloseAndRetry
    <3>3. QED
      BY <3>1, <3>2
  <2>3. \A u \in Thread \ {t} : Kept(u)
    BY <1>4, ThreadKeeps
  <2>4. \A u \in Thread : Own(live, u, result[u]) /\ Own(live', u, result[u])
    BY LiveGrows DEF ReplyInv
  <2>5. ASSUME NEW u \in Thread PROVE Own(live', u, result'[u])
    <3>1. CASE u = t /\ Own(live, t, result'[t])
      BY <3>1, LiveGrows
    <3>2. CASE result'[u] = result[u]
      BY <2>4, <3>2
    <3>3. QED
      BY <2>2, <2>3, <3>1, <3>2 DEF Kept
  <2>6. ASSUME NEW u \in Thread, pc'[u] = "done", ~IsBroadcast(u) PROVE Own(live', u, final'[u])
    <3>1. CASE pc[u] = "done" /\ final'[u] = final[u]
      <4>1. Own(live, u, final[u])
        BY <2>6, <3>1 DEF ReplyInv
      <4>2. QED
        BY <3>1, <4>1, LiveGrows
    <3>2. CASE u = t /\ Return(t)
      <4>1. PICK f : f = [result[t] EXCEPT !.ok = ret[t] /\ result[t].ok]
        OBVIOUS
      <4>2. result[t] \in Replies
        BY <1>1 DEF ThreadTypes
      <4>3. /\ f.ok => result[t].ok
            /\ f.of = result[t].of /\ f.app = result[t].app /\ f.intact = result[t].intact
            /\ f.cut = result[t].cut
        BY <4>1, <4>2 DEF Replies
      <4>4. Own(live, t, f)
        BY <2>4, <4>3 DEF Own, Earned
      <4>5. final'[t] = f
        BY <1>1, <2>6, <3>2, <4>1 DEF Return, ThreadTypes
      <4>6. QED
        BY <3>2, <4>4, <4>5, LiveGrows
    <3>3. CASE u = t /\ AppSpawnClientDestroy(t)
      BY <2>6, <3>3 DEF AppSpawnClientDestroy, LockInv, IsBroadcast
    <3>4. CASE u = t /\ ~Return(t) /\ ~AppSpawnClientDestroy(t)
      <4>1. pc'[t] # "done"
        <5>1. CASE WriteMessage(t)
          BY <5>1, Writes DEF WriteOutcome
        <5>2. CASE ~WriteMessage(t)
          BY <1>1, <1>4, <3>4, <5>2 DEF ThreadNext, Begin, ClientSendMsgLocked, TryCreateSocket, CreateClientSocket, SpawnListen,
             HasSocket, StartSend, WriteFails, ReadMessage, ReadFails, GiveUp, ListenReturns, Onward, CloseAndRetry, ThreadTypes
        <5>3. QED
          BY <5>1, <5>2
      <4>2. QED
        BY <2>6, <3>4, <4>1
    <3>5. QED
      BY <2>3, <2>6, <3>1, <3>2, <3>3, <3>4 DEF Kept
  <2>7. QED
    BY <2>1, <2>5, <2>6, ReplyFrame
<1>5. ASSUME UNCHANGED <<tvars, mgr>>, \A c \in Conn : \A i \in DOMAIN conn'[c].out : Earned(live', conn'[c].out[i])
      PROVE  ReplyInv'
  <2>1. pc' = pc /\ result' = result /\ final' = final
    BY <1>5 DEF tvars
  <2>2. \A t \in Thread : Own(live', t, result[t]) /\ (pc[t] = "done" /\ ~IsBroadcast(t) => Own(live', t, final[t]))
    BY LiveGrows DEF ReplyInv
  <2>3. QED
    BY <1>5, <2>1, <2>2, ReplyFrame
<1>6. ASSUME NEW c \in Conn, SvcAnswer(c) PROVE \A x \in Conn : \A i \in DOMAIN conn'[x].out : Earned(live', conn'[x].out[i])
  <2>1. PICK job \in conn[c].pend, r \in Replies :
           /\ r.of = job.of /\ r.intact = job.intact
           /\ r.app = IF r.ok THEN NewApp(job) ELSE NoApp
           /\ conn' = [conn EXCEPT ![c].pend = @ \ {job}, ![c].out = Append(@, r)]
           /\ live' = live \cup ({r.app} \ {NoApp})
           /\ conn[c].cli /\ late' = late
    BY <1>6, AnswerKnown, Zenon
  <2>2. job \in Jobs
    BY <1>1 DEF ConnType
  <2>3. Earned(live', r)
    BY <2>1, <2>2, AnswerEarned
  <2>4. PICK o \in Seq(Replies) : o = conn[c].out
    BY <1>1 DEF ConnType
  <2>5. conn'[c].out = Append(o, r) /\ \A x \in Conn : x # c => conn'[x] = conn[x]
    BY <1>1, <2>1, <2>4 DEF ConnType
  <2>6. ASSUME NEW i \in DOMAIN conn'[c].out PROVE Earned(live', conn'[c].out[i])
    <3>1. conn'[c].out[i] = r \/ (i \in DOMAIN o /\ conn'[c].out[i] = o[i])
      BY <2>5, <2>6
    <3>2. QED
      BY <1>3, <2>3, <2>4, <3>1
  <2>7. QED
    BY <1>3, <2>5, <2>6
<1>7. ASSUME \/ UNCHANGED conn
             \/ \E c \in Conn : SvcAccept(c) \/ SvcRefuse(c) \/ SvcClose(c)
             \/ \E s \in Service : SvcDies(s)
      PROVE \A x \in Conn : \A i \in DOMAIN conn'[x].out : Earned(live', conn'[x].out[i])
  <2>1. ASSUME NEW x \in Conn, NEW i \in DOMAIN conn'[x].out PROVE Earned(live', conn'[x].out[i])
    <3>1. conn'[x].out = conn[x].out
      <4>1. conn'[x].out # <<>>
        BY <2>1
      <4>2. QED
        BY <1>7, <4>1, ServiceOut
    <3>2. i \in DOMAIN conn[x].out /\ conn'[x].out[i] = conn[x].out[i]
      BY <2>1, <3>1
    <3>3. QED
      BY <1>3, <3>2
  <2>2. QED
    BY <2>1
<1>8. QED
  BY <1>4, <1>5, <1>6, <1>7, ServiceSteps

(***************************************************************************)
(* No application is lost.                                                 *)
(***************************************************************************)
LEMMA KeptStep ==
  ASSUME TypeInv, IoInv, KeptInv, [Next]_vars
  PROVE  KeptInv'
<1>1. ThreadTypes
  BY DEF TypeInv
<1> DEFINE K(b, r, d, p, s, ok) ==
             /\ r # NoApp => IF b THEN (p # "idle" /\ s = "df") \/ p \in {"sent", "destroy", "done"}
                             ELSE p \in {"destroy", "done"} \/ (p = "sent" /\ ok)
             /\ d # NoApp => b /\ s = "df" /\ p \in {"sent", "destroy", "done"}
<1>2. \A t \in Thread : IsBroadcast(t)' = IsBroadcast(t)
  BY CallsFixed
<1>3. \A t \in Thread : K(IsBroadcast(t), result[t].app, dfRes[t].app, pc[t], svc[t], ret[t])
  BY DEF KeptInv
<1>4. SUFFICES \A t \in Thread : K(IsBroadcast(t), result'[t].app, dfRes'[t].app, pc'[t], svc'[t], ret'[t])
  BY <1>2 DEF KeptInv
<1>5. ASSUME NEW t \in Thread, ThreadNext(t)
      PROVE  K(IsBroadcast(t), result'[t].app, dfRes'[t].app, pc'[t], svc'[t], ret'[t])
  <2>1. K(IsBroadcast(t), result[t].app, dfRes[t].app, pc[t], svc[t], ret[t])
    BY <1>3
  <2>2. svc[t] \in Service
    BY <1>1 DEF ThreadTypes
  <2>3. CASE Begin(t)
    <3>1. pc[t] = "idle" /\ pc'[t] = "lock" /\ result' = result /\ dfRes' = dfRes
      BY <1>1, <2>3 DEF Begin, ThreadTypes
    <3>2. QED
      BY <2>1, <3>1
  <2>4. CASE \/ ClientSendMsgLocked(t) \/ TryCreateSocket(t) \/ SpawnListen(t) \/ StartSend(t)
             \/ WriteFails(t) \/ ReadFails(t) \/ ((ReadMessage(t) \/ GiveUp(t)) /\ cur[t] = "listen")
    <3>1. /\ pc[t] \notin {"idle", "sent", "destroy", "done"} /\ pc'[t] # "idle"
          /\ svc' = svc /\ ret' = ret /\ result' = result /\ dfRes' = dfRes
      BY <1>1, <2>4 DEF ClientSendMsgLocked, TryCreateSocket, CreateClientSocket, SpawnListen, StartSend, HasSocket,
         WriteFails, ReadFails, CloseAndRetry, ReadMessage, GiveUp, ListenReturns, ThreadTypes
    <3>2. QED
      BY <2>1, <3>1
  <2>5. CASE WriteMessage(t)
    <3>1. PICK n, x : WriteOutcome(t, n, x)
      BY <2>5, Writes
    <3>2. /\ pc[t] = "send" /\ svc' = svc /\ ret' = ret /\ result' = result /\ dfRes' = dfRes
      BY <2>5, Writes
    <3>3. pc'[t] # "idle"
      BY <3>1 DEF WriteOutcome
    <3>4. QED
      BY <2>1, <3>2, <3>3
  <2>6. CASE (ReadMessage(t) \/ GiveUp(t)) /\ cur[t] # "listen"
    <3>1. pc[t] \in {"read", "loop"} /\ pc'[t] = "sent" /\ svc' = svc
      BY <1>1, <2>6 DEF ReadMessage, GiveUp, ThreadTypes
    <3>2. CASE GiveUp(t)
      <4>1. result' = result /\ dfRes' = dfRes
        BY <2>6, <3>2 DEF GiveUp
      <4>2. QED
        BY <2>1, <3>1, <4>1
    <3>3. CASE ReadMessage(t)
      <4>1. ret' = [ret EXCEPT ![t] = IF IsBroadcast(t) /\ svc[t] = "df" THEN @ ELSE TRUE]
        BY <2>6, <3>3 DEF ReadMessage, StoreRet
      <4>2. IsBroadcast(t) \/ ret'[t]
        BY <1>1, <4>1 DEF ThreadTypes
      <4>3. \E r : StoreResult(t, r)
        BY <2>6, <3>3 DEF ReadMessage
      <4>4. IF IsBroadcast(t) /\ svc[t] = "df" THEN result' = result ELSE dfRes' = dfRes
        BY <4>3 DEF StoreResult
      <4>5. QED
        BY <2>1, <3>1, <4>2, <4>4
    <3>4. QED
      BY <2>6, <3>2, <3>3
  <2>7. CASE Onward(t)
    <3>1. /\ pc[t] = "sent" /\ pc'[t] = "lock" /\ ret' = ret /\ result' = result /\ dfRes' = dfRes
          /\ \/ kind[t] = "listed" /\ svc[t] = "df" /\ ~ret[t] /\ svc'[t] = "main"
             \/ IsBroadcast(t) /\ svc[t] = "main" /\ svc'[t] = "df"
      BY <1>1, <2>7 DEF Onward, ThreadTypes
    <3>2. kind[t] = "listed" => ~IsBroadcast(t)
      BY DEF IsBroadcast
    <3>3. QED
      BY <2>1, <3>1, <3>2
  <2>8. CASE Return(t) \/ AppSpawnClientDestroy(t)
    <3>1. /\ pc[t] \in {"sent", "destroy"} /\ pc'[t] \in {"destroy", "done"}
          /\ svc' = svc /\ ret' = ret /\ result' = result /\ dfRes' = dfRes
      BY <1>1, <2>8 DEF Return, AppSpawnClientDestroy, ThreadTypes
    <3>2. QED
      BY <2>1, <3>1
  <2>9. QED
    BY <1>5, <2>3, <2>4, <2>5, <2>6, <2>7, <2>8 DEF ThreadNext
<1>6. ASSUME NEW t \in Thread, ThreadNext(t), NEW u \in Thread \ {t}
      PROVE  K(IsBroadcast(u), result'[u].app, dfRes'[u].app, pc'[u], svc'[u], ret'[u])
  <2>1. Kept(u)
    BY <1>6, ThreadKeeps
  <2>2. QED
    BY <1>3, <2>1 DEF Kept
<1>7. CASE UNCHANGED tvars
  BY <1>3, <1>7 DEF tvars
<1>8. QED
  BY <1>5, <1>6, <1>7, ServiceSteps


LEMMA AppsStep ==
  ASSUME TypeInv, LockInv, SockInv, IoInv, KeptInv, LiveTraced, [Next]_vars
  PROVE  LiveTraced'
<1>1. ThreadTypes /\ conn \in [Conn -> ConnType] /\ mgr \in [Process -> [Service -> MgrType]]
  BY DEF TypeInv
<1> DEFINE Told(a) == \E t \in Thread : a \in {result[t].app, dfRes[t].app}
           Told2(a) == \E t \in Thread : a \in {result'[t].app, dfRes'[t].app}
           Sits(a, k) == k.cli /\ a \in Apps(k.out)
           Safe(a) == a \in late' \/ Told2(a) \/ \E c \in Conn : Sits(a, conn'[c])
<1>2. SUFFICES \A a \in live' : Safe(a)
  BY DEF LiveTraced, Apps
<1>3. \A a \in live : a \in late \/ Told(a) \/ \E c \in Conn : Sits(a, conn[c])
  BY DEF LiveTraced
<1>4. NoApp \notin live
  BY DEF TypeInv
<1>5. ASSUME live' = live, late \subseteq late',
             \A a \in live : Told(a) => Safe(a),
             \A a \in live, c \in Conn : Sits(a, conn[c]) => Safe(a)
      PROVE  \A a \in live' : Safe(a)
  BY <1>3, <1>5
<1>6. ASSUME NEW t \in Thread, ThreadNext(t) PROVE \A a \in live' : Safe(a)
  <2>1. live' = live
    BY <1>6 DEF ThreadNext, Begin, ClientSendMsgLocked, TryCreateSocket, CreateClientSocket, SpawnListen, StartSend,
         WriteMessage, WriteFails, ReadMessage, ReadFails, GiveUp, Onward, Return,
         AppSpawnClientDestroy, CloseAndRetry, svars
  <2>2. \A u \in Thread \ {t} : result'[u] = result[u] /\ dfRes'[u] = dfRes[u]
    BY <1>6, ThreadKeeps DEF Kept
  <2>3. CASE \/ Begin(t) \/ ClientSendMsgLocked(t) \/ SpawnListen(t) \/ StartSend(t) \/ GiveUp(t) \/ Onward(t) \/ Return(t)
    <3>1. UNCHANGED <<conn, late, result, dfRes>>
      BY <2>3 DEF Begin, ClientSendMsgLocked, SpawnListen, StartSend, GiveUp, Onward, Return
    <3>2. QED
      BY <1>5, <2>1, <3>1
  <2>4. CASE TryCreateSocket(t)
    <3>1. UNCHANGED <<late, result, dfRes>>
      BY <2>4 DEF TryCreateSocket, CreateClientSocket
    <3>2. conn' = conn \/ \E d \in Conn : \E k : conn[d] = Unused /\ conn' = [conn EXCEPT ![d] = k]
      BY <2>4 DEF TryCreateSocket, CreateClientSocket
    <3>3. \A c \in Conn : conn[c].cli => conn'[c] = conn[c]
      BY <1>1, <3>2 DEF Unused
    <3>4. QED
      BY <1>5, <2>1, <3>1, <3>3
  <2>5. CASE WriteMessage(t)
    <3>1. UNCHANGED <<late, result, dfRes>>
      BY <2>5, Writes
    <3>2. \E y, z : conn' = [conn EXCEPT ![Sock(t)].in = y, ![Sock(t)].cut = z]
      BY <2>5 DEF WriteMessage
    <3>3. \A c \in Conn : conn'[c].cli = conn[c].cli /\ conn'[c].out = conn[c].out
      BY <1>1, <3>2 DEF ConnType
    <3>4. QED
      BY <1>5, <2>1, <3>1, <3>3
  <2>6. CASE WriteFails(t) \/ ReadFails(t) \/ AppSpawnClientDestroy(t)
    <3>1. UNCHANGED <<result, dfRes>>
      BY <2>6 DEF WriteFails, ReadFails, CloseAndRetry, AppSpawnClientDestroy
    <3>2. \/ UNCHANGED <<conn, late>>
          \/ \E d : conn' = [conn EXCEPT ![d] = ClosedByClient(@)] /\ late' = late \cup Apps(conn[d].out)
      BY <2>6 DEF WriteFails, ReadFails, CloseAndRetry, AppSpawnClientDestroy
    <3>3. \A c \in Conn : conn'[c] = conn[c] \/ Apps(conn[c].out) \subseteq late'
      BY <1>1, <3>2
    <3>4. late \subseteq late'
      BY <3>2
    <3>5. QED
      BY <1>5, <2>1, <3>1, <3>3, <3>4
  <2>7. CASE ReadMessage(t)
    <3>1. pc[t] = "read" /\ Sock(t) # None /\ conn[Sock(t)].out # <<>>
      BY <2>7 DEF ReadMessage, SockInv
    <3>2. PICK c \in Conn, k \in ConnType : c = Sock(t) /\ k = conn[c]
      BY <3>1, SockKnown
    <3>3. \A d \in Conn : d # c => conn'[d] = conn[d]
      <4>1. conn' = [conn EXCEPT ![c].out = <<>>]
        BY <2>7, <3>2 DEF ReadMessage
      <4>2. QED
        BY <1>1, <4>1
    <3>4. CASE cur[t] = "listen"
      <4>1. UNCHANGED <<result, dfRes>> /\ late' = late \cup Apps(k.out)
        BY <2>7, <3>2, <3>4 DEF ReadMessage
      <4>2. QED
        BY <1>5, <2>1, <3>2, <3>3, <4>1
    <3>5. CASE cur[t] # "listen"
      <4>1. PICK o \in Seq(Replies) : o = k.out /\ o # <<>>
        BY <3>1, <3>2 DEF ConnType
      <4>2. PICK r : r = [Head(o) EXCEPT !.cut = k.cut] /\ r.app = Head(o).app
        <5>1. Head(o) \in Replies
          BY <4>1
        <5>2. PICK r : r = [Head(o) EXCEPT !.cut = k.cut]
          OBVIOUS
        <5>3. r.app = Head(o).app
          BY <5>1, <5>2 DEF Replies
        <5>4. QED
          BY <5>2, <5>3
      <4>3. StoreResult(t, r) /\ late' = late \cup Apps(Tail(o))
        BY <2>7, <3>2, <3>5, <4>1, <4>2 DEF ReadMessage
      <4>4. Apps(o) \subseteq Apps(Tail(o)) \cup {r.app}
        <5>1. ASSUME NEW i \in DOMAIN o PROVE o[i].app = r.app \/ \E j \in DOMAIN Tail(o) : Tail(o)[j] = o[i]
          <6>1. CASE i = 1
            BY <4>1, <4>2, <6>1
          <6>2. CASE i # 1
            <7>1. i - 1 \in DOMAIN Tail(o) /\ Tail(o)[i - 1] = o[i]
              BY <4>1, <6>2
            <7>2. QED
              BY <7>1
          <6>3. QED
            BY <6>1, <6>2
        <5>2. QED
          BY <5>1 DEF Apps
      <4>5. Told2(r.app)
        BY <1>1, <4>3 DEF StoreResult, ThreadTypes
      <4>6. \A a \in live : Told(a) => Told2(a)
        <5>1. IF IsBroadcast(t) /\ svc[t] = "df" THEN result' = result /\ dfRes[t].app = NoApp
              ELSE dfRes' = dfRes /\ result[t].app = NoApp
          BY <3>1, <4>3 DEF StoreResult, KeptInv
        <5>2. \A a \in live : a # NoApp
          BY <1>4
        <5>3. QED
          BY <2>2, <5>1, <5>2
      <4>7. ASSUME NEW a \in live, NEW d \in Conn, Sits(a, conn[d]) PROVE Safe(a)
        <5>1. CASE d # c
          BY <3>3, <4>7, <5>1
        <5>2. CASE d = c
          <6>1. a \in Apps(Tail(o)) \/ a = r.app
            BY <3>2, <4>1, <4>4, <4>7, <5>2
          <6>2. QED
            BY <4>3, <4>5, <6>1
        <5>3. QED
          BY <5>1, <5>2
      <4>8. QED
        BY <1>5, <2>1, <4>3, <4>6, <4>7
    <3>6. QED
      BY <3>4, <3>5
  <2>8. QED
    BY <1>6, <2>3, <2>4, <2>5, <2>6, <2>7 DEF ThreadNext
<1>7. ASSUME UNCHANGED <<tvars, mgr>>,
             \/ UNCHANGED <<conn, live, late>>
             \/ \E c \in Conn : SvcAccept(c) \/ SvcRefuse(c) \/ SvcClose(c)
             \/ \E s \in Service : SvcDies(s)
      PROVE  \A a \in live' : Safe(a)
  <2>1. result' = result /\ dfRes' = dfRes
    BY <1>7 DEF tvars
  <2>2. live' = live /\ late' = late
    BY <1>7 DEF SvcAccept, SvcRefuse, SvcClose, SvcDies, svars
  <2>3. \A c \in Conn : conn[c].cli => conn'[c].cli = conn[c].cli /\ conn'[c].out = conn[c].out
    BY <1>7, ServiceOut, ServiceKeepsClients
  <2>4. QED
    BY <1>5, <2>1, <2>2, <2>3
<1>8. ASSUME NEW c \in Conn, SvcAnswer(c) PROVE \A a \in live' : Safe(a)
  <2>1. PICK job \in conn[c].pend, r \in Replies :
           /\ r.of = job.of /\ r.intact = job.intact
           /\ r.app = IF r.ok THEN NewApp(job) ELSE NoApp
           /\ conn' = [conn EXCEPT ![c].pend = @ \ {job}, ![c].out = Append(@, r)]
           /\ live' = live \cup ({r.app} \ {NoApp})
           /\ conn[c].cli /\ late' = late
    BY <1>8, AnswerKnown, Zenon
  <2>2. result' = result /\ dfRes' = dfRes
    BY <1>8 DEF SvcAnswer, tvars
  <2>3. PICK o \in Seq(Replies) : o = conn[c].out
    BY <1>1 DEF ConnType
  <2>4. conn'[c].out = Append(o, r) /\ conn'[c].cli /\ \A x \in Conn : x # c => conn'[x] = conn[x]
    BY <1>1, <2>1, <2>3 DEF ConnType
  <2>5. Apps(o) \subseteq Apps(Append(o, r)) /\ (r.app # NoApp => r.app \in Apps(Append(o, r)))
    <3>1. \A i \in DOMAIN o : i \in DOMAIN Append(o, r) /\ Append(o, r)[i] = o[i]
      OBVIOUS
    <3>2. Len(o) + 1 \in DOMAIN Append(o, r) /\ Append(o, r)[Len(o) + 1] = r
      OBVIOUS
    <3>3. QED
      BY <3>1, <3>2 DEF Apps
  <2>6. ASSUME NEW a \in live' PROVE Safe(a)
    <3>1. CASE a = r.app /\ a # NoApp
      BY <2>4, <2>5, <3>1
    <3>2. CASE a \in live
      <4>1. a \in late \/ Told(a) \/ \E x \in Conn : Sits(a, conn[x])
        BY <1>3, <3>2
      <4>2. ASSUME NEW x \in Conn, Sits(a, conn[x]) PROVE Sits(a, conn'[x])
        <5>1. CASE x # c
          BY <2>4, <4>2, <5>1
        <5>2. CASE x = c
          BY <2>3, <2>4, <2>5, <4>2, <5>2
        <5>3. QED
          BY <5>1, <5>2
      <4>3. QED
        BY <2>1, <2>2, <4>1, <4>2
    <3>3. QED
      BY <2>1, <3>1, <3>2
  <2>7. QED
    BY <2>6
<1>9. QED
  BY <1>6, <1>7, <1>8, ServiceSteps

(***************************************************************************)
(* The theorems.                                                           *)
(***************************************************************************)
LEMMA ClientStep == ClientInv /\ [Next]_vars => ClientInv'
  BY TypeStep, LockStep, SockStep, IoStep, TrafficStep, ReplyStep, KeptStep, AppsStep DEF ClientInv

LEMMA ClientInvariant == Spec => []ClientInv
  BY InitClient, ClientStep, PTL DEF Spec

\* The mutex of a manager and the close after every failure in ClientSendMsg
\* (appspawn_client.c) keep each connection to one message at a time, for any
\* number of threads, connections, faults, attempts and blocks.
THEOREM CallsNeverMeet == Spec => []OneMessagePerConnection
<1>1. ClientInv => OneMessagePerConnection
  <2> SUFFICES ASSUME ClientInv, NEW c \in Conn, conn[c].cli, ~conn[c].cut, Traffic(c) # {}
               PROVE  \E t \in Thread : Sock(t) = c /\ Mgr(t).owner = t /\ Traffic(c) = {<<t, cur[t]>>}
    BY DEF OneMessagePerConnection
  <2>1. TypeInv /\ LockInv /\ SockInv /\ TrafficInv
    BY DEF ClientInv
  <2>2. ~Quiet(conn[c])
    BY DEF Quiet, Traffic
  <2>3. PICK t \in Thread : Sending(t) /\ Sock(t) = c
    BY <2>1, <2>2 DEF TrafficInv
  <2>4. c # None
    BY ClientAssumption
  <2>5. Only(conn[c], <<t, cur[t]>>)
    BY <2>1, <2>3, <2>4 DEF TrafficInv, Carries
  <2>6. Traffic(c) = {<<t, cur[t]>>}
    <3>1. PICK k : k = conn[c]
      OBVIOUS
    <3>2. PICK l : l = <<t, cur[t]>>
      OBVIOUS
    <3>3. Only(k, l)
      BY <2>5, <3>1, <3>2
    <3>4. Traffic(c) = {k.in[i].of : i \in DOMAIN k.in} \cup {k.out[i].of : i \in DOMAIN k.out}
                         \cup {job.of : job \in k.pend}
      BY <3>1 DEF Traffic
    <3>5. \A x \in Traffic(c) : x = l
      <4> SUFFICES ASSUME NEW x \in Traffic(c)
                   PROVE  x = l
        OBVIOUS
      <4>1. CASE x \in {k.in[i].of : i \in DOMAIN k.in}
        BY <3>3, <4>1 DEF Only
      <4>2. CASE x \in {k.out[i].of : i \in DOMAIN k.out}
        BY <3>3, <4>2 DEF Only
      <4>3. CASE x \in {job.of : job \in k.pend}
        BY <3>3, <4>3 DEF Only
      <4>4. QED
        BY <3>4, <4>1, <4>2, <4>3
    <3>6. QED
      BY <3>2, <3>5
  <2>7. Mgr(t).owner = t
    <3>1. Proc(t) \in Process /\ svc[t] \in Service /\ Holding(t)
      BY <2>1, <2>3, SockKnown DEF Sending, Holding
    <3>2. QED
      BY <2>1, <3>1 DEF LockInv, Mgr
  <2>8. QED
    BY <2>3, <2>6, <2>7
<1>2. QED
  BY <1>1, ClientInvariant, PTL

\* AppSpawnClientSendMsg returns success for a spawn only with the answer to
\* its own request, as it was built, and for an application that runs.
THEOREM SuccessIsOwnApp == Spec => []OkIsOwnApp
<1>1. ClientInv => OkIsOwnApp
  <2> SUFFICES ASSUME ClientInv, NEW t \in Thread, pc[t] = "done", IsSpawn(t), final[t].ok, ~final[t].cut
               PROVE  final[t].of = <<t, "req">> /\ final[t].app \in live /\ final[t].intact
    BY DEF OkIsOwnApp
  <2>1. ~IsBroadcast(t)
    BY DEF IsSpawn, IsBroadcast
  <2>2. Own(live, t, final[t])
    BY <2>1 DEF ClientInv, ReplyInv
  <2>3. QED
    BY <2>2 DEF Own, Earned
<1>2. QED
  BY <1>1, ClientInvariant, PTL

\* Every application that was started is known to a caller, on its way to one,
\* answered on a connection its client had given up (ReadMessage,
\* CloseAndRetry), or was in flight when its service died (SvcDies, after
\* StopAppSpawn and SpawningQueueDestroy).  Needs ClientInv: what was answered
\* is traced through every retry.
THEOREM NoAppLost == Spec => []AppsAccountedFor
<1>1. ClientInv => AppsAccountedFor
  BY DEF ClientInv, LiveTraced, AppsAccountedFor
<1>2. QED
  BY <1>1, ClientInvariant, PTL

(***************************************************************************)
(* The message in its blocks.  The loops of the model are recursive        *)
(* functions; what they compute is shown by induction over a set of        *)
(* numbers.  Only the last block ever has room, so a TLV that goes into a  *)
(* block with room and one that is split over blocks both follow what was  *)
(* added before.                                                           *)
(***************************************************************************)
\* The least element of a set of numbers: the induction theorems of the library
\* have an operator as a parameter, this has none.
LEMMA NatLeast ==
  ASSUME NEW T, T \subseteq Nat, T # {}
  PROVE  \E n \in T : \A m \in T : n <= m
<1>1. \E R : IsWellFoundedOn(R, Nat) /\ \A m, n \in Nat : m < n => <<m, n>> \in R
  <2>1. \A m, n \in Nat : m < n => <<m, n>> \in OpToRel(<, Nat)
    BY Zenon DEF OpToRel
  <2>2. QED
    BY NatLessThanWellFounded, <2>1, Zenon
<1>2. PICK R : IsWellFoundedOn(R, Nat) /\ \A m, n \in Nat : m < n => <<m, n>> \in R
  BY <1>1
<1>3. PICK n \in T : \A m \in T : ~(<<m, n>> \in R)
  <2>1. IsWellFoundedOn(R, Nat) /\ T \subseteq Nat /\ T # {}
    BY <1>2
  <2>2. QED
    BY ONLY <2>1, WFMin
<1>4. ASSUME NEW m \in T PROVE n <= m
  <2>1. m \in Nat /\ n \in Nat
    OBVIOUS
  <2>2. ~(m < n)
    BY <1>2, <1>3, <2>1, Zenon
  <2>3. QED
    BY <2>1, <2>2
<1>5. QED
  BY <1>4

\* Induction for a property that is written as a set.
LEMMA NatInductionBySet ==
  ASSUME NEW S, 0 \in S, \A n \in Nat : n \in S => n + 1 \in S
  PROVE  Nat \subseteq S
<1>1. SUFFICES ASSUME Nat \ S # {} PROVE FALSE
  OBVIOUS
<1>2. PICK n \in Nat \ S : \A m \in Nat \ S : n <= m
  BY <1>1, NatLeast
<1>3. n - 1 \in Nat /\ n - 1 \in S /\ n - 1 + 1 = n
  BY <1>2
<1>4. QED
  BY <1>2, <1>3

\* The loop of Total.
LEMMA TotalLoop ==
  ASSUME NEW s, Len(s) \in Nat
  PROVE  \E f : /\ Total(s) = f[Len(s)]
               /\ f[0] = 0
               /\ \A k \in 1..Len(s) : f[k] = f[k - 1] + s[k]
<1>1. PICK N \in Nat : N = Len(s)
  OBVIOUS
<1> DEFINE St(x, k) == x + s[k]
           Loop(f, n) == f = [k \in 0..n |-> IF k = 0 THEN 0 ELSE St(f[k - 1], k)]
           E == {n \in Nat : \E f : Loop(f, n)}
<1>2. 0 \in E
  <2>1. Loop([k \in 0..0 |-> 0], 0)
    OBVIOUS
  <2>2. QED
    BY <2>1
<1>3. ASSUME NEW n \in Nat, n \in E PROVE n + 1 \in E
  <2> HIDE DEF Loop, St
  <2>1. PICK f : Loop(f, n)
    BY <1>3
  <2>2. PICK m \in Nat : m = n + 1 /\ m - 1 = n /\ m # 0
    OBVIOUS
  <2>3. PICK h : h = [k \in 0..m |-> IF k = m THEN St(f[n], m) ELSE f[k]]
    OBVIOUS
  <2>4. \A k \in 0..m : (k = m \/ k \in 0..n) /\ (k # 0 => k - 1 \in 0..m /\ k - 1 # m) /\ n \in 0..m /\ n # m
    BY <2>2
  <2>5. ASSUME NEW k \in 0..m PROVE h[k] = IF k = 0 THEN 0 ELSE St(h[k - 1], k)
    <3>1. CASE k = m
      <4>1. h[n] = f[n] /\ h[m] = St(f[n], m)
        BY <2>3, <2>4, <3>1
      <4>2. QED
        BY <2>2, <3>1, <4>1
    <3>2. CASE k # m
      <4>1. k \in 0..n /\ h[k] = f[k]
        BY <2>3, <2>4, <3>2
      <4>2. f[k] = IF k = 0 THEN 0 ELSE St(f[k - 1], k)
        BY <2>1, <4>1 DEF Loop
      <4>3. k # 0 => h[k - 1] = f[k - 1]
        BY <2>3, <2>4
      <4>4. QED
        BY <4>1, <4>2, <4>3
    <3>3. QED
      BY <3>1, <3>2
  <2>6. Loop(h, m)
    BY <2>3, <2>5 DEF Loop
  <2>7. QED
    BY <2>2, <2>6
<1>4. \E f : Loop(f, N)
  <2> HIDE DEF Loop
  <2>1. Nat \subseteq E
    <3> HIDE DEF E
    <3>1. QED
      BY <1>2, <1>3, NatInductionBySet
  <2>2. QED
    BY <2>1
<1>5. PICK fc : fc = CHOOSE f : Loop(f, N)
  OBVIOUS
<1>6. Loop(fc, N)
  <2> HIDE DEF Loop
  <2>1. QED
    BY <1>4, <1>5
<1>7. Total(s) = fc[N]
  BY <1>1, <1>5 DEF Total
<1>8. 0 \in 0..N /\ \A k \in 1..N : k \in 0..N /\ k # 0
  OBVIOUS
<1>9. fc[0] = 0 /\ \A k \in 1..N : fc[k] = St(fc[k - 1], k)
  <2> HIDE DEF St
  <2>1. QED
    BY <1>6, <1>8
<1>10. QED
  BY <1>1, <1>7, <1>9

\* The loop of AddAppDataToTail.
LEMMA TailLoop ==
  ASSUME NEW blocks, NEW words, Len(words) \in Nat
  PROVE  \E f : /\ AddAppDataToTail(blocks, words) = f[Len(words)]
               /\ f[0] = blocks
               /\ \A k \in 1..Len(words) : f[k] = AddWord(f[k - 1], words[k])
<1>1. PICK N \in Nat : N = Len(words)
  OBVIOUS
<1> DEFINE St(x, k) == AddWord(x, words[k])
           Loop(f, n) == f = [k \in 0..n |-> IF k = 0 THEN blocks ELSE St(f[k - 1], k)]
           E == {n \in Nat : \E f : Loop(f, n)}
<1>2. 0 \in E
  <2>1. Loop([k \in 0..0 |-> blocks], 0)
    OBVIOUS
  <2>2. QED
    BY <2>1
<1>3. ASSUME NEW n \in Nat, n \in E PROVE n + 1 \in E
  <2> HIDE DEF Loop, St
  <2>1. PICK f : Loop(f, n)
    BY <1>3
  <2>2. PICK m \in Nat : m = n + 1 /\ m - 1 = n /\ m # 0
    OBVIOUS
  <2>3. PICK h : h = [k \in 0..m |-> IF k = m THEN St(f[n], m) ELSE f[k]]
    OBVIOUS
  <2>4. \A k \in 0..m : (k = m \/ k \in 0..n) /\ (k # 0 => k - 1 \in 0..m /\ k - 1 # m) /\ n \in 0..m /\ n # m
    BY <2>2
  <2>5. ASSUME NEW k \in 0..m PROVE h[k] = IF k = 0 THEN blocks ELSE St(h[k - 1], k)
    <3>1. CASE k = m
      <4>1. h[n] = f[n] /\ h[m] = St(f[n], m)
        BY <2>3, <2>4, <3>1
      <4>2. QED
        BY <2>2, <3>1, <4>1
    <3>2. CASE k # m
      <4>1. k \in 0..n /\ h[k] = f[k]
        BY <2>3, <2>4, <3>2
      <4>2. f[k] = IF k = 0 THEN blocks ELSE St(f[k - 1], k)
        BY <2>1, <4>1 DEF Loop
      <4>3. k # 0 => h[k - 1] = f[k - 1]
        BY <2>3, <2>4
      <4>4. QED
        BY <4>1, <4>2, <4>3
    <3>3. QED
      BY <3>1, <3>2
  <2>6. Loop(h, m)
    BY <2>3, <2>5 DEF Loop
  <2>7. QED
    BY <2>2, <2>6
<1>4. \E f : Loop(f, N)
  <2> HIDE DEF Loop
  <2>1. Nat \subseteq E
    <3> HIDE DEF E
    <3>1. QED
      BY <1>2, <1>3, NatInductionBySet
  <2>2. QED
    BY <2>1
<1>5. PICK fc : fc = CHOOSE f : Loop(f, N)
  OBVIOUS
<1>6. Loop(fc, N)
  <2> HIDE DEF Loop
  <2>1. QED
    BY <1>4, <1>5
<1>7. AddAppDataToTail(blocks, words) = fc[N]
  BY <1>1, <1>5 DEF AddAppDataToTail
<1>8. 0 \in 0..N /\ \A k \in 1..N : k \in 0..N /\ k # 0
  OBVIOUS
<1>9. fc[0] = blocks /\ \A k \in 1..N : fc[k] = St(fc[k - 1], k)
  <2> HIDE DEF St
  <2>1. QED
    BY <1>6, <1>8
<1>10. QED
  BY <1>1, <1>7, <1>9

\* The loop of AddPartsToTail.
LEMMA PartsLoop ==
  ASSUME NEW blocks, NEW k0, NEW parts, Len(parts) \in Nat
  PROVE  \E f : /\ AddPartsToTail(blocks, k0, parts) = f[Len(parts)]
               /\ f[0] = blocks
               /\ \A k \in 1..Len(parts) : f[k] = AddAppDataToTail(f[k - 1], PartWords(k0, parts, k))
<1>1. PICK N \in Nat : N = Len(parts)
  OBVIOUS
<1> DEFINE St(x, k) == AddAppDataToTail(x, PartWords(k0, parts, k))
           Loop(f, n) == f = [k \in 0..n |-> IF k = 0 THEN blocks ELSE St(f[k - 1], k)]
           E == {n \in Nat : \E f : Loop(f, n)}
<1>2. 0 \in E
  <2>1. Loop([k \in 0..0 |-> blocks], 0)
    OBVIOUS
  <2>2. QED
    BY <2>1
<1>3. ASSUME NEW n \in Nat, n \in E PROVE n + 1 \in E
  <2> HIDE DEF Loop, St
  <2>1. PICK f : Loop(f, n)
    BY <1>3
  <2>2. PICK m \in Nat : m = n + 1 /\ m - 1 = n /\ m # 0
    OBVIOUS
  <2>3. PICK h : h = [k \in 0..m |-> IF k = m THEN St(f[n], m) ELSE f[k]]
    OBVIOUS
  <2>4. \A k \in 0..m : (k = m \/ k \in 0..n) /\ (k # 0 => k - 1 \in 0..m /\ k - 1 # m) /\ n \in 0..m /\ n # m
    BY <2>2
  <2>5. ASSUME NEW k \in 0..m PROVE h[k] = IF k = 0 THEN blocks ELSE St(h[k - 1], k)
    <3>1. CASE k = m
      <4>1. h[n] = f[n] /\ h[m] = St(f[n], m)
        BY <2>3, <2>4, <3>1
      <4>2. QED
        BY <2>2, <3>1, <4>1
    <3>2. CASE k # m
      <4>1. k \in 0..n /\ h[k] = f[k]
        BY <2>3, <2>4, <3>2
      <4>2. f[k] = IF k = 0 THEN blocks ELSE St(f[k - 1], k)
        BY <2>1, <4>1 DEF Loop
      <4>3. k # 0 => h[k - 1] = f[k - 1]
        BY <2>3, <2>4
      <4>4. QED
        BY <4>1, <4>2, <4>3
    <3>3. QED
      BY <3>1, <3>2
  <2>6. Loop(h, m)
    BY <2>3, <2>5 DEF Loop
  <2>7. QED
    BY <2>2, <2>6
<1>4. \E f : Loop(f, N)
  <2> HIDE DEF Loop
  <2>1. Nat \subseteq E
    <3> HIDE DEF E
    <3>1. QED
      BY <1>2, <1>3, NatInductionBySet
  <2>2. QED
    BY <2>1
<1>5. PICK fc : fc = CHOOSE f : Loop(f, N)
  OBVIOUS
<1>6. Loop(fc, N)
  <2> HIDE DEF Loop
  <2>1. QED
    BY <1>4, <1>5
<1>7. AddPartsToTail(blocks, k0, parts) = fc[N]
  BY <1>1, <1>5 DEF AddPartsToTail
<1>8. 0 \in 0..N /\ \A k \in 1..N : k \in 0..N /\ k # 0
  OBVIOUS
<1>9. fc[0] = blocks /\ \A k \in 1..N : fc[k] = St(fc[k - 1], k)
  <2> HIDE DEF St
  <2>1. QED
    BY <1>6, <1>8
<1>10. QED
  BY <1>1, <1>7, <1>9

\* The loop of Build.
LEMMA BuildLoop ==
  ASSUME NEW tlvs, Len(tlvs) \in Nat
  PROVE  \E f : /\ Build(tlvs) = f[Len(tlvs)]
               /\ f[0] = <<Header>>
               /\ \A k \in 1..Len(tlvs) : f[k] = AddTlv(f[k - 1], k, tlvs[k])
<1>1. PICK N \in Nat : N = Len(tlvs)
  OBVIOUS
<1> DEFINE St(x, k) == AddTlv(x, k, tlvs[k])
           Loop(f, n) == f = [k \in 0..n |-> IF k = 0 THEN <<Header>> ELSE St(f[k - 1], k)]
           E == {n \in Nat : \E f : Loop(f, n)}
<1>2. 0 \in E
  <2>1. Loop([k \in 0..0 |-> <<Header>>], 0)
    OBVIOUS
  <2>2. QED
    BY <2>1
<1>3. ASSUME NEW n \in Nat, n \in E PROVE n + 1 \in E
  <2> HIDE DEF Loop, St
  <2>1. PICK f : Loop(f, n)
    BY <1>3
  <2>2. PICK m \in Nat : m = n + 1 /\ m - 1 = n /\ m # 0
    OBVIOUS
  <2>3. PICK h : h = [k \in 0..m |-> IF k = m THEN St(f[n], m) ELSE f[k]]
    OBVIOUS
  <2>4. \A k \in 0..m : (k = m \/ k \in 0..n) /\ (k # 0 => k - 1 \in 0..m /\ k - 1 # m) /\ n \in 0..m /\ n # m
    BY <2>2
  <2>5. ASSUME NEW k \in 0..m PROVE h[k] = IF k = 0 THEN <<Header>> ELSE St(h[k - 1], k)
    <3>1. CASE k = m
      <4>1. h[n] = f[n] /\ h[m] = St(f[n], m)
        BY <2>3, <2>4, <3>1
      <4>2. QED
        BY <2>2, <3>1, <4>1
    <3>2. CASE k # m
      <4>1. k \in 0..n /\ h[k] = f[k]
        BY <2>3, <2>4, <3>2
      <4>2. f[k] = IF k = 0 THEN <<Header>> ELSE St(f[k - 1], k)
        BY <2>1, <4>1 DEF Loop
      <4>3. k # 0 => h[k - 1] = f[k - 1]
        BY <2>3, <2>4
      <4>4. QED
        BY <4>1, <4>2, <4>3
    <3>3. QED
      BY <3>1, <3>2
  <2>6. Loop(h, m)
    BY <2>3, <2>5 DEF Loop
  <2>7. QED
    BY <2>2, <2>6
<1>4. \E f : Loop(f, N)
  <2> HIDE DEF Loop
  <2>1. Nat \subseteq E
    <3> HIDE DEF E
    <3>1. QED
      BY <1>2, <1>3, NatInductionBySet
  <2>2. QED
    BY <2>1
<1>5. PICK fc : fc = CHOOSE f : Loop(f, N)
  OBVIOUS
<1>6. Loop(fc, N)
  <2> HIDE DEF Loop
  <2>1. QED
    BY <1>4, <1>5
<1>7. Build(tlvs) = fc[N]
  BY <1>1, <1>5 DEF Build
<1>8. 0 \in 0..N /\ \A k \in 1..N : k \in 0..N /\ k # 0
  OBVIOUS
<1>9. fc[0] = <<Header>> /\ \A k \in 1..N : fc[k] = St(fc[k - 1], k)
  <2> HIDE DEF St
  <2>1. QED
    BY <1>6, <1>8
<1>10. QED
  BY <1>1, <1>7, <1>9

\* The sum of a sequence of numbers is a number.
LEMMA TotalType ==
  ASSUME NEW s \in Seq(Nat)
  PROVE  Total(s) \in Nat /\ (s = <<>> => Total(s) = 0)
<1>1. PICK N \in Nat : N = Len(s) /\ \A k \in 1..N : s[k] \in Nat
  BY LenProperties, ElementOfSeq
<1>2. PICK f : /\ Total(s) = f[N] /\ f[0] = 0
               /\ \A k \in 1..N : f[k] = f[k - 1] + s[k]
  BY <1>1, TotalLoop
<1> DEFINE S == {n \in Nat : n <= N => f[n] \in Nat}
<1>3. 0 \in S
  BY <1>2
<1>4. ASSUME NEW n \in Nat, n \in S PROVE n + 1 \in S
  <2>1. SUFFICES ASSUME n + 1 <= N PROVE f[n + 1] \in Nat
    OBVIOUS
  <2>2. n + 1 \in 1..N /\ (n + 1) - 1 = n /\ n <= N
    BY <2>1
  <2>3. f[n] \in Nat /\ f[n + 1] = f[n] + s[n + 1] /\ s[n + 1] \in Nat
    BY <1>1, <1>2, <1>4, <2>2
  <2>4. QED
    BY <2>3
<1>5. Nat \subseteq S
  <2> HIDE DEF S
  <2>1. QED
    BY <1>3, <1>4, NatInductionBySet
<1>6. N \in S
  <2> HIDE DEF S
  <2>1. QED
    BY <1>5
<1>7. s = <<>> => N = 0
  BY <1>1, EmptySeq
<1>8. QED
  BY <1>2, <1>6, <1>7

\* One number more.
LEMMA TotalOneMore ==
  ASSUME NEW s \in Seq(Nat), NEW t \in Seq(Nat), Len(t) = Len(s) + 1,
         \A i \in 1..Len(s) : t[i] = s[i]
  PROVE  Total(t) = Total(s) + t[Len(t)]
<1>1. PICK N \in Nat : N = Len(s) /\ N + 1 = Len(t) /\ \A k \in 1..N : t[k] = s[k]
  BY LenProperties
<1>2. PICK f : /\ Total(s) = f[N] /\ f[0] = 0
               /\ \A k \in 1..N : f[k] = f[k - 1] + s[k]
  BY <1>1, TotalLoop
<1>3. PICK g : /\ Total(t) = g[N + 1] /\ g[0] = 0
               /\ \A k \in 1..(N + 1) : g[k] = g[k - 1] + t[k]
  <2>1. PICK M \in Nat : M = Len(t) /\ M = N + 1
    BY <1>1
  <2>2. \E g : Total(t) = g[M] /\ g[0] = 0 /\ \A k \in 1..M : g[k] = g[k - 1] + t[k]
    BY <2>1, TotalLoop
  <2>3. QED
    BY <2>1, <2>2
<1> DEFINE S == {n \in Nat : n <= N => f[n] = g[n]}
<1>4. 0 \in S
  BY <1>2, <1>3
<1>5. ASSUME NEW n \in Nat, n \in S PROVE n + 1 \in S
  <2>1. SUFFICES ASSUME n + 1 <= N PROVE f[n + 1] = g[n + 1]
    OBVIOUS
  <2>2. PICK m \in 1..N : m = n + 1 /\ m \in 1..(N + 1) /\ m - 1 = n /\ n <= N
    <3>1. n + 1 \in 1..N /\ n + 1 \in 1..(N + 1) /\ (n + 1) - 1 = n /\ n <= N
      BY <2>1
    <3>2. QED
      BY <3>1
  <2>3. f[m] = f[n] + s[m] /\ g[m] = g[n] + t[m] /\ s[m] = t[m] /\ f[n] = g[n]
    BY <1>1, <1>2, <1>3, <1>5, <2>2
  <2>4. QED
    BY <2>2, <2>3
<1>6. Nat \subseteq S
  <2> HIDE DEF S
  <2>1. QED
    BY <1>4, <1>5, NatInductionBySet
<1>7. f[N] = g[N]
  BY <1>6
<1>8. N + 1 \in 1..(N + 1) /\ (N + 1) - 1 = N
  OBVIOUS
<1>9. g[N + 1] = g[N] + t[N + 1]
  BY <1>3, <1>8
<1>10. QED
  BY <1>1, <1>2, <1>3, <1>7, <1>9

\* The loop of FlattenSeq, begun with the empty sequence.
LEMMA FlatLoop ==
  ASSUME NEW V, NEW ss \in Seq(Seq(V))
  PROVE  \E f : /\ FlattenSeq(ss) = f[Len(ss)]
                /\ f[0] = <<>>
                /\ \A k \in 1..Len(ss) : f[k] = f[k - 1] \o ss[k]
<1>1. PICK N \in Nat : N = Len(ss) /\ \A k \in 1..N : ss[k] \in Seq(V)
  BY LenProperties, ElementOfSeq
<1> DEFINE Flat(f, n) == f = [i \in 1..n |-> IF i = 1 THEN ss[i] ELSE f[i - 1] \o ss[i]]
           E == {n \in Nat : n <= N => \E f : Flat(f, n)}
<1>2. CASE N = 0
  <2>1. ss = <<>>
    BY <1>1, <1>2, EmptySeq
  <2>2. FlattenSeq(ss) = ss
    BY <1>1, <1>2 DEF FlattenSeq
  <2>3. PICK f : f = [k \in {0} |-> <<>>]
    OBVIOUS
  <2>4. f[0] = <<>> /\ 1..N = {}
    BY <1>2, <2>3
  <2>5. QED
    BY <1>1, <1>2, <2>1, <2>2, <2>4
<1>3. CASE N # 0
  <2>1. 0 \in E
    <3>1. Flat([i \in 1..0 |-> <<>>], 0)
      OBVIOUS
    <3>2. QED
      BY <3>1
  <2>2. ASSUME NEW n \in Nat, n \in E PROVE n + 1 \in E
    <3> HIDE DEF Flat
    <3>1. SUFFICES ASSUME n + 1 <= N PROVE \E f : Flat(f, n + 1)
      OBVIOUS
    <3>2. PICK f : Flat(f, n)
      BY <1>1, <2>2, <3>1
    <3>3. PICK m \in Nat : m = n + 1 /\ m - 1 = n
      OBVIOUS
    <3>4. PICK x : x = IF m = 1 THEN ss[m] ELSE f[n] \o ss[m]
      OBVIOUS
    <3>5. PICK g : g = [i \in 1..m |-> IF i = m THEN x ELSE f[i]]
      OBVIOUS
    <3>6. \A i \in 1..m : (i = m \/ i \in 1..n) /\ (i # 1 /\ i # m => i - 1 \in 1..m /\ i - 1 # m)
                          /\ (m # 1 => n \in 1..m /\ n # m)
      BY <3>3
    <3>7. ASSUME NEW i \in 1..m PROVE g[i] = IF i = 1 THEN ss[i] ELSE g[i - 1] \o ss[i]
      <4>1. CASE i = m
        <5>1. CASE m = 1
          BY <3>4, <3>5, <4>1, <5>1
        <5>2. CASE m # 1
          <6>1. g[n] = f[n] /\ g[m] = x
            BY <3>5, <3>6, <5>2
          <6>2. QED
            BY <3>3, <3>4, <4>1, <5>2, <6>1
        <5>3. QED
          BY <5>1, <5>2
      <4>2. CASE i # m
        <5>1. i \in 1..n /\ g[i] = f[i]
          BY <3>5, <3>6, <4>2
        <5>2. f[i] = IF i = 1 THEN ss[i] ELSE f[i - 1] \o ss[i]
          BY <3>2, <5>1 DEF Flat
        <5>3. i # 1 => g[i - 1] = f[i - 1]
          BY <3>5, <3>6, <4>2
        <5>4. QED
          BY <5>1, <5>2, <5>3
      <4>3. QED
        BY <4>1, <4>2
    <3>8. Flat(g, m)
      BY <3>5, <3>7 DEF Flat
    <3>9. QED
      BY <3>3, <3>8
  <2>3. N \in E
    <3> HIDE DEF E
    <3>1. Nat \subseteq E
      BY <2>1, <2>2, NatInductionBySet
    <3>2. QED
      BY <3>1
  <2>4. \E f : Flat(f, N)
    <3> HIDE DEF Flat
    <3>1. QED
      BY <2>3
  <2>5. PICK fc : fc = CHOOSE f : Flat(f, N)
    OBVIOUS
  <2>6. fc = [i \in 1..N |-> IF i = 1 THEN ss[i] ELSE fc[i - 1] \o ss[i]]
    BY <2>4, <2>5
  <2>7. FlattenSeq(ss) = fc[N]
    BY <1>1, <1>3, <2>5 DEF FlattenSeq
  <2>8. PICK g : g = [k \in 0..N |-> IF k = 0 THEN <<>> ELSE fc[k]]
    OBVIOUS
  <2>9. g[0] = <<>> /\ \A k \in 1..N : g[k] = fc[k] /\ (k # 1 => g[k - 1] = fc[k - 1])
    BY <2>8
  <2>10. ASSUME NEW k \in 1..N PROVE g[k] = g[k - 1] \o ss[k]
    <3>1. CASE k = 1
      <4>1. g[1] = ss[1] /\ ss[1] \in Seq(V)
        <5>1. 1 \in 1..N
          BY <3>1
        <5>2. fc[1] = ss[1]
          BY <2>6, <5>1
        <5>3. QED
          BY <1>1, <2>9, <5>1, <5>2
      <4>2. <<>> \o ss[1] = ss[1]
        BY <4>1, ConcatEmptySeq
      <4>3. g[k - 1] = <<>>
        BY <2>9, <3>1
      <4>4. QED
        BY <3>1, <4>1, <4>2, <4>3
    <3>2. CASE k # 1
      BY <2>6, <2>9, <3>2
    <3>3. QED
      BY <3>1, <3>2
  <2>11. N \in 1..N
    BY <1>3
  <2>12. QED
    BY <1>1, <2>7, <2>9, <2>10, <2>11
<1>4. QED
  BY <1>2, <1>3

\* What is concatenated.
LEMMA FlatType ==
  ASSUME NEW V, NEW ss \in Seq(Seq(V))
  PROVE  FlattenSeq(ss) \in Seq(V)
<1>1. PICK N \in Nat : N = Len(ss) /\ \A k \in 1..N : ss[k] \in Seq(V)
  BY LenProperties, ElementOfSeq
<1>2. PICK f : /\ FlattenSeq(ss) = f[N] /\ f[0] = <<>>
               /\ \A k \in 1..N : f[k] = f[k - 1] \o ss[k]
  BY <1>1, FlatLoop
<1> DEFINE S == {n \in Nat : n <= N => f[n] \in Seq(V)}
<1>3. 0 \in S
  BY <1>2, EmptySeq
<1>4. ASSUME NEW n \in Nat, n \in S PROVE n + 1 \in S
  <2>1. SUFFICES ASSUME n + 1 <= N PROVE f[n + 1] \in Seq(V)
    OBVIOUS
  <2>2. n + 1 \in 1..N /\ (n + 1) - 1 = n /\ n <= N
    BY <2>1
  <2>3. f[n] \in Seq(V) /\ f[n + 1] = f[n] \o ss[n + 1] /\ ss[n + 1] \in Seq(V)
    BY <1>1, <1>2, <1>4, <2>2
  <2>4. QED
    BY <2>3, ConcatProperties
<1>5. Nat \subseteq S
  <2> HIDE DEF S
  <2>1. QED
    BY <1>3, <1>4, NatInductionBySet
<1>6. N \in S
  <2> HIDE DEF S
  <2>1. QED
    BY <1>5
<1>7. QED
  BY <1>2, <1>6

\* One sequence more.
LEMMA FlatOneMore ==
  ASSUME NEW V, NEW s \in Seq(Seq(V)), NEW t \in Seq(Seq(V)), Len(t) = Len(s) + 1,
         \A i \in 1..Len(s) : t[i] = s[i]
  PROVE  FlattenSeq(t) = FlattenSeq(s) \o t[Len(t)]
<1>1. PICK N \in Nat : N = Len(s) /\ N + 1 = Len(t) /\ \A k \in 1..N : t[k] = s[k]
  BY LenProperties
<1>2. PICK f : /\ FlattenSeq(s) = f[N] /\ f[0] = <<>>
               /\ \A k \in 1..N : f[k] = f[k - 1] \o s[k]
  BY <1>1, FlatLoop
<1>3. PICK g : /\ FlattenSeq(t) = g[N + 1] /\ g[0] = <<>>
               /\ \A k \in 1..(N + 1) : g[k] = g[k - 1] \o t[k]
  <2>1. PICK M \in Nat : M = Len(t) /\ M = N + 1
    BY <1>1
  <2>2. PICK g : /\ FlattenSeq(t) = g[Len(t)] /\ g[0] = <<>>
                 /\ \A k \in 1..Len(t) : g[k] = g[k - 1] \o t[k]
    BY FlatLoop, Zenon
  <2>3. QED
    BY <2>1, <2>2, Zenon
<1> DEFINE S == {n \in Nat : n <= N => f[n] = g[n]}
<1>4. 0 \in S
  BY <1>2, <1>3
<1>5. ASSUME NEW n \in Nat, n \in S PROVE n + 1 \in S
  <2>1. SUFFICES ASSUME n + 1 <= N PROVE f[n + 1] = g[n + 1]
    OBVIOUS
  <2>2. PICK m \in 1..N : m = n + 1 /\ m \in 1..(N + 1) /\ m - 1 = n /\ n <= N
    <3>1. n + 1 \in 1..N /\ n + 1 \in 1..(N + 1) /\ (n + 1) - 1 = n /\ n <= N
      BY <2>1
    <3>2. QED
      BY <3>1
  <2>3. f[m] = f[n] \o s[m] /\ g[m] = g[n] \o t[m] /\ s[m] = t[m] /\ f[n] = g[n]
    BY <1>1, <1>2, <1>3, <1>5, <2>2
  <2>4. QED
    BY <2>2, <2>3
<1>6. Nat \subseteq S
  <2> HIDE DEF S
  <2>1. QED
    BY <1>4, <1>5, NatInductionBySet
<1>7. f[N] = g[N]
  BY <1>6
<1>8. N + 1 \in 1..(N + 1) /\ (N + 1) - 1 = N
  OBVIOUS
<1>9. g[N + 1] = g[N] \o t[N + 1]
  BY <1>3, <1>8
<1>10. QED
  BY <1>1, <1>2, <1>3, <1>7, <1>9

(***************************************************************************)
(* Blocks that are filled one after another.                               *)
(***************************************************************************)
MsgWord == Nat \X Nat

\* Concatenation of words, regrouped.
LEMMA Regroup ==
  ASSUME NEW a \in Seq(MsgWord), NEW b \in Seq(MsgWord), NEW c \in Seq(MsgWord)
  PROVE  (a \o b) \o c = a \o (b \o c)
  BY ConcatAssociative

\* The lengths of the blocks are numbers.
LEMMA BlockLens ==
  ASSUME NEW V, NEW s \in Seq(Seq(V)), NEW l, l = [b \in DOMAIN s |-> Len(s[b])]
  PROVE  l \in Seq(Nat) /\ Len(l) = Len(s) /\ \A b \in 1..Len(s) : l[b] = Len(s[b])
<1>1. PICK N \in Nat : N = Len(s) /\ DOMAIN s = 1..N /\ \A b \in 1..N : s[b] \in Seq(V)
  BY LenProperties, ElementOfSeq
<1>2. \A b \in 1..N : Len(s[b]) \in Nat
  BY <1>1, LenProperties
<1>3. l \in [1..N -> Nat] /\ \A b \in 1..N : l[b] = Len(s[b])
  BY <1>1, <1>2
<1>4. l \in Seq(Nat) /\ Len(l) = N
  BY ONLY <1>3, N \in Nat
<1>5. QED
  BY <1>1, <1>3, <1>4

\* One block more.
LEMMA MsgLenOneMore ==
  ASSUME NEW V, NEW s \in Seq(Seq(V)), NEW t \in Seq(Seq(V)), Len(t) = Len(s) + 1,
         \A i \in 1..Len(s) : t[i] = s[i]
  PROVE  MsgLen(t) = MsgLen(s) + Len(t[Len(t)]) /\ MsgLen(s) \in Nat
<1>1. PICK N \in Nat : N = Len(s) /\ N + 1 = Len(t) /\ \A i \in 1..N : t[i] = s[i]
  BY LenProperties
<1>2. PICK l : l = [b \in DOMAIN s |-> Len(s[b])]
  OBVIOUS
<1>3. PICK m : m = [b \in DOMAIN t |-> Len(t[b])]
  OBVIOUS
<1>4. l \in Seq(Nat) /\ Len(l) = N /\ \A b \in 1..N : l[b] = Len(s[b])
  BY <1>1, <1>2, BlockLens
<1>5. m \in Seq(Nat) /\ Len(m) = N + 1 /\ \A b \in 1..(N + 1) : m[b] = Len(t[b])
  BY <1>1, <1>3, BlockLens
<1>6. N + 1 \in 1..(N + 1) /\ \A b \in 1..N : b \in 1..(N + 1)
  OBVIOUS
<1>7. \A b \in 1..N : m[b] = l[b]
  BY <1>1, <1>4, <1>5, <1>6
<1>8. Total(m) = Total(l) + m[N + 1]
  BY <1>4, <1>5, <1>7, TotalOneMore
<1>9. MsgLen(t) = Total(m) /\ MsgLen(s) = Total(l)
  BY <1>2, <1>3 DEF MsgLen
<1>10. Total(l) \in Nat
  BY <1>4, TotalType
<1>11. QED
  BY <1>1, <1>5, <1>6, <1>8, <1>9, <1>10

\* The blocks hold the words w, in their order, and only the last has room.
Packed(bs, w) ==
  /\ bs \in Seq(Seq(MsgWord)) /\ bs # <<>> /\ w \in Seq(MsgWord)
  /\ \A b \in 1..Len(bs) : Len(bs[b]) \in 1..BlockSize
  /\ \A b \in 1..(Len(bs) - 1) : Len(bs[b]) = BlockSize
  /\ FlattenSeq(bs) = w /\ MsgLen(bs) = Len(w)

\* The blocks before the last, and the last.
LEMMA FrontAndLast ==
  ASSUME NEW V, NEW bs \in Seq(Seq(V)), bs # <<>>
  PROVE  \E n, front : /\ n \in Nat /\ Len(bs) = n + 1
                       /\ front \in Seq(Seq(V)) /\ Len(front) = n /\ \A b \in 1..n : front[b] = bs[b]
<1>1. Len(bs) \in Nat \ {0} /\ \A b \in 1..Len(bs) : bs[b] \in Seq(V)
  BY EmptySeq, LenProperties, ElementOfSeq
<1>2. PICK n \in Nat : Len(bs) = n + 1
  <2>1. Len(bs) - 1 \in Nat /\ Len(bs) = (Len(bs) - 1) + 1
    BY <1>1
  <2>2. QED
    BY <2>1
<1>3. PICK front : front = [b \in 1..n |-> bs[b]]
  OBVIOUS
<1>4. \A b \in 1..n : b \in 1..Len(bs)
  BY <1>2
<1>5. front \in [1..n -> Seq(V)] /\ \A b \in 1..n : front[b] = bs[b]
  BY <1>1, <1>3, <1>4
<1>6. PICK T : T = Seq(V)
  OBVIOUS
<1>7. front \in [1..n -> T]
  BY <1>5, <1>6
<1>8. front \in Seq(T) /\ Len(front) = n
  BY ONLY <1>7, n \in Nat
<1>9. QED
  BY <1>2, <1>5, <1>6, <1>8

\* Words that fit go into the last block.
LEMMA LastGrows ==
  ASSUME NEW bs, NEW w, NEW x \in Seq(MsgWord), NEW cs, Packed(bs, w),
         cs \in Seq(Seq(MsgWord)), Len(cs) = Len(bs), \A b \in 1..(Len(bs) - 1) : cs[b] = bs[b],
         cs[Len(bs)] = bs[Len(bs)] \o x, Len(bs[Len(bs)]) + Len(x) <= BlockSize
  PROVE  Packed(cs, w \o x)
<1>1. bs \in Seq(Seq(MsgWord)) /\ bs # <<>>
  BY DEF Packed
<1>2. PICK n, front : /\ n \in Nat /\ Len(bs) = n + 1
                      /\ front \in Seq(Seq(MsgWord)) /\ Len(front) = n /\ \A b \in 1..n : front[b] = bs[b]
  BY <1>1, FrontAndLast
<1>3. PICK N \in Nat : N = n + 1 /\ N \in 1..N /\ N - 1 = n /\ \A b \in 1..N : b \in 1..n \/ b = N
  <2>1. n + 1 \in Nat /\ n + 1 \in 1..(n + 1) /\ (n + 1) - 1 = n /\ \A b \in 1..(n + 1) : b \in 1..n \/ b = n + 1
    BY <1>2
  <2>2. QED
    BY <2>1
<1>4. Len(bs) = N /\ Len(cs) = N /\ \A b \in 1..n : cs[b] = bs[b] /\ cs[b] = front[b]
  BY <1>2, <1>3
<1>5. PICK last : last = bs[N] /\ last \in Seq(MsgWord) /\ cs[N] = last \o x
  BY <1>1, <1>3, <1>4, ElementOfSeq
<1>6. PICK f : f = FlattenSeq(front) /\ f \in Seq(MsgWord)
  BY <1>2, FlatType
<1>7. w = f \o last /\ FlattenSeq(cs) = f \o (last \o x)
  <2>1. FlattenSeq(bs) = f \o last
    <3>1. Len(bs) = Len(front) + 1 /\ \A b \in 1..Len(front) : bs[b] = front[b]
      BY <1>2
    <3>2. FlattenSeq(bs) = FlattenSeq(front) \o bs[Len(bs)]
      BY <1>1, <1>2, <3>1, FlatOneMore, Zenon
    <3>3. QED
      BY <1>4, <1>5, <1>6, <3>2, Zenon
  <2>2. FlattenSeq(cs) = f \o cs[N]
    <3>1. Len(cs) = Len(front) + 1 /\ \A b \in 1..Len(front) : cs[b] = front[b]
      BY <1>2, <1>3, <1>4
    <3>2. FlattenSeq(cs) = FlattenSeq(front) \o cs[Len(cs)]
      BY <1>2, <3>1, FlatOneMore, Zenon
    <3>3. QED
      BY <1>4, <1>6, <3>2, Zenon
  <2>3. QED
    BY <1>5, <2>1, <2>2 DEF Packed
<1>8. FlattenSeq(cs) = w \o x
  <2>1. (f \o last) \o x = f \o (last \o x)
    BY <1>5, <1>6, Regroup
  <2>2. QED
    BY <1>7, <2>1, Zenon
<1>9. w \o x \in Seq(MsgWord) /\ Len(w \o x) = Len(w) + Len(x) /\ Len(w) \in Nat /\ Len(x) \in Nat
  <2>1. w \in Seq(MsgWord)
    BY DEF Packed
  <2>2. QED
    BY <2>1, ConcatProperties, LenProperties
<1>10. Len(last \o x) = Len(last) + Len(x) /\ Len(last) \in Nat
  BY <1>5, ConcatProperties, LenProperties
<1>11. MsgLen(cs) = Len(w \o x)
  <2>1. MsgLen(bs) = MsgLen(front) + Len(last) /\ MsgLen(front) \in Nat
    <3>1. Len(bs) = Len(front) + 1 /\ \A b \in 1..Len(front) : bs[b] = front[b]
      BY <1>2
    <3>2. MsgLen(bs) = MsgLen(front) + Len(bs[Len(bs)]) /\ MsgLen(front) \in Nat
      BY <1>1, <1>2, <3>1, MsgLenOneMore, Zenon
    <3>3. QED
      BY <1>4, <1>5, <3>2
  <2>2. MsgLen(cs) = MsgLen(front) + Len(cs[N])
    <3>1. Len(cs) = Len(front) + 1 /\ \A b \in 1..Len(front) : cs[b] = front[b]
      BY <1>2, <1>3, <1>4
    <3>2. MsgLen(cs) = MsgLen(front) + Len(cs[Len(cs)])
      BY <1>2, <3>1, MsgLenOneMore, Zenon
    <3>3. QED
      BY <1>4, <3>2, Zenon
  <2>3. MsgLen(bs) = Len(w)
    BY DEF Packed
  <2>4. Len(cs[N]) = Len(last) + Len(x)
    BY <1>5, <1>10
  <2>5. PICK a, l, k : a = MsgLen(front) /\ l = Len(last) /\ k = Len(x)
    OBVIOUS
  <2>6. a \in Nat /\ l \in Nat /\ k \in Nat /\ MsgLen(cs) = a + (l + k) /\ Len(w) = a + l
    BY <1>9, <1>10, <2>1, <2>2, <2>3, <2>4, <2>5
  <2>7. a + (l + k) = (a + l) + k
    BY ONLY <2>6
  <2>8. QED
    BY <1>9, <2>5, <2>6, <2>7
<1>12. Len(cs[N]) \in 1..BlockSize
  <2>1. Len(last) \in 1..BlockSize
    BY <1>3, <1>4, <1>5 DEF Packed
  <2>2. Len(last) + Len(x) <= BlockSize
    BY <1>4, <1>5
  <2>3. Len(last) + Len(x) \in 1..BlockSize
    BY <1>9, <2>1, <2>2, ClientAssumption
  <2>4. QED
    BY <1>5, <1>10, <2>3
<1>13. \A b \in 1..n : Len(cs[b]) = BlockSize
  BY <1>3, <1>4 DEF Packed
<1>14. \A b \in 1..N : Len(cs[b]) \in 1..BlockSize
  <2>1. BlockSize \in 1..BlockSize
    BY ClientAssumption
  <2>2. QED
    BY <1>3, <1>12, <1>13, <2>1
<1>15. cs # <<>>
  BY <1>3, <1>4, EmptySeq
<1>16. QED
  BY <1>3, <1>4, <1>8, <1>9, <1>11, <1>13, <1>14, <1>15 DEF Packed

\* Behind a full block a new one begins.
LEMMA BlockBegins ==
  ASSUME NEW bs, NEW w, NEW x \in Seq(MsgWord), Packed(bs, w),
         Len(bs[Len(bs)]) = BlockSize, Len(x) \in 1..BlockSize
  PROVE  Packed(Append(bs, x), w \o x)
<1>1. bs \in Seq(Seq(MsgWord)) /\ bs # <<>> /\ w \in Seq(MsgWord)
  BY DEF Packed
<1>2. PICK N \in Nat \ {0} : N = Len(bs)
  BY <1>1, EmptySeq
<1>3. PICK T : T = Seq(MsgWord)
  OBVIOUS
<1>4. PICK cs : cs = Append(bs, x)
  OBVIOUS
<1>5. /\ cs \in Seq(T) /\ cs # <<>> /\ Len(cs) = N + 1
      /\ \A i \in 1..N : cs[i] = bs[i]
      /\ cs[N + 1] = x
  <2>1. bs \in Seq(T) /\ x \in T
    BY <1>1, <1>3
  <2>2. QED
    BY <1>2, <1>4, <2>1, AppendProperties
<1>6. FlattenSeq(cs) = w \o x
  <2>1. FlattenSeq(cs) = FlattenSeq(bs) \o x
    BY <1>1, <1>2, <1>3, <1>5, FlatOneMore
  <2>2. QED
    BY <2>1 DEF Packed
<1>7. w \o x \in Seq(MsgWord) /\ Len(w \o x) = Len(w) + Len(x)
  BY <1>1, ConcatProperties
<1>8. MsgLen(cs) = Len(w \o x)
  <2>1. MsgLen(cs) = MsgLen(bs) + Len(x)
    BY <1>1, <1>2, <1>3, <1>5, MsgLenOneMore
  <2>2. QED
    BY <1>7, <2>1 DEF Packed
<1>9. \A b \in 1..(N + 1) : b \in 1..N \/ b = N + 1
  OBVIOUS
<1>10. \A b \in 1..(N + 1) : Len(cs[b]) \in 1..BlockSize
  <2>1. \A b \in 1..N : Len(bs[b]) \in 1..BlockSize
    BY <1>2 DEF Packed
  <2>2. QED
    BY <1>5, <1>9, <2>1
<1>11. (N + 1) - 1 = N /\ \A b \in 1..N : b \in 1..(N - 1) \/ b = N
  OBVIOUS
<1>12. \A b \in 1..N : Len(cs[b]) = BlockSize
  <2>1. \A b \in 1..(N - 1) : Len(bs[b]) = BlockSize
    BY <1>2 DEF Packed
  <2>2. QED
    BY <1>2, <1>5, <1>11, <2>1
<1>13. Packed(cs, w \o x)
  BY <1>3, <1>5, <1>6, <1>7, <1>8, <1>10, <1>11, <1>12 DEF Packed
<1>14. QED
  BY <1>4, <1>13

\* A sequence of one word.
LEMMA OneWord ==
  ASSUME NEW v \in MsgWord
  PROVE  <<v>> \in Seq(MsgWord) /\ Len(<<v>>) = 1
  OBVIOUS

\* One word more at the tail.
LEMMA WordAdded ==
  ASSUME NEW bs, NEW w, NEW v \in MsgWord, Packed(bs, w)
  PROVE  Packed(AddWord(bs, v), w \o <<v>>)
<1>1. bs \in Seq(Seq(MsgWord)) /\ bs # <<>>
  BY DEF Packed
<1>2. PICK N \in Nat \ {0} : N = Len(bs) /\ N \in 1..N
  <2>1. Len(bs) \in Nat \ {0}
    BY <1>1, EmptySeq
  <2>2. QED
    BY <2>1
<1>3. PICK last : last = bs[N] /\ last \in Seq(MsgWord)
  BY <1>1, <1>2, ElementOfSeq
<1>4. Len(last) \in 1..BlockSize /\ Last(bs) = last
  BY <1>2, <1>3 DEF Packed, Last
<1>5. PICK x : x = <<v>> /\ x \in Seq(MsgWord) /\ Len(x) = 1
  BY OneWord
<1>6. CASE Room(last) > 0
  <2>1. PICK T : T = Seq(MsgWord)
    OBVIOUS
  <2>2. PICK new : new = Append(last, v) /\ new \in Seq(MsgWord) /\ new = last \o x
    BY <1>3, <1>5, AppendProperties, AppendIsConcat
  <2>3. PICK cs : cs = [bs EXCEPT ![N] = new]
    OBVIOUS
  <2>4. bs \in [1..N -> T] /\ DOMAIN bs = 1..N /\ new \in T
    BY <1>1, <1>2, <2>1, <2>2, LenProperties
  <2>5. cs \in [1..N -> T] /\ cs[N] = new /\ \A b \in 1..(N - 1) : cs[b] = bs[b]
    BY <1>2, <2>3, <2>4
  <2>6. cs \in Seq(T) /\ Len(cs) = N
    BY ONLY <2>5, N \in Nat \ {0}
  <2>7. Len(last) + Len(x) <= BlockSize
    BY <1>4, <1>5, <1>6, ClientAssumption DEF Room
  <2>8. Packed(cs, w \o x)
    <3>1. cs \in Seq(Seq(MsgWord)) /\ Len(cs) = Len(bs)
      BY <1>2, <2>1, <2>6
    <3>2. /\ \A b \in 1..(Len(bs) - 1) : cs[b] = bs[b]
          /\ cs[Len(bs)] = bs[Len(bs)] \o x
          /\ Len(bs[Len(bs)]) + Len(x) <= BlockSize
      BY <1>2, <1>3, <2>2, <2>5, <2>7
    <3>3. QED
      BY <1>5, <3>1, <3>2, LastGrows
  <2>9. AddWord(bs, v) = cs
    BY <1>2, <1>3, <1>4, <1>6, <2>2, <2>3 DEF AddWord
  <2>10. QED
    BY <1>5, <2>8, <2>9
<1>7. CASE ~(Room(last) > 0)
  <2>1. Len(last) = BlockSize
    BY <1>4, <1>7, ClientAssumption DEF Room
  <2>2. Len(x) \in 1..BlockSize
    BY <1>5, ClientAssumption
  <2>3. Packed(Append(bs, x), w \o x)
    BY <1>2, <1>3, <1>5, <2>1, <2>2, BlockBegins
  <2>4. AddWord(bs, v) = Append(bs, x)
    BY <1>4, <1>5, <1>7 DEF AddWord
  <2>5. QED
    BY <1>5, <2>3, <2>4
<1>8. QED
  BY <1>6, <1>7

\* A run of words at the tail, over as many blocks as it takes.
LEMMA TailAdded ==
  ASSUME NEW bs, NEW w, NEW words \in Seq(MsgWord), Packed(bs, w)
  PROVE  Packed(AddAppDataToTail(bs, words), w \o words)
<1>1. PICK N \in Nat : N = Len(words) /\ \A k \in 1..N : words[k] \in MsgWord
  BY LenProperties, ElementOfSeq
<1>2. PICK f : /\ AddAppDataToTail(bs, words) = f[N] /\ f[0] = bs
               /\ \A k \in 1..N : f[k] = AddWord(f[k - 1], words[k])
  BY <1>1, TailLoop
<1>3. w \in Seq(MsgWord)
  BY DEF Packed
<1> DEFINE Upto(x, n) == x \in Seq(MsgWord) /\ Len(x) = n /\ \A i \in 1..n : x[i] = words[i]
           S == {n \in Nat : n <= N => \E x : Upto(x, n) /\ Packed(f[n], w \o x)}
<1>4. 0 \in S
  <2>1. Upto(<<>>, 0)
    BY EmptySeq
  <2>2. w \o <<>> = w
    BY <1>3, ConcatEmptySeq
  <2>3. Packed(f[0], w \o <<>>)
    BY <1>2, <2>2
  <2>4. QED
    BY <2>1, <2>3
<1>5. ASSUME NEW n \in Nat, n \in S PROVE n + 1 \in S
  <2>1. SUFFICES ASSUME n + 1 <= N PROVE \E x : Upto(x, n + 1) /\ Packed(f[n + 1], w \o x)
    OBVIOUS
  <2>2. PICK m \in 1..N : m = n + 1 /\ m - 1 = n /\ n <= N
    <3>1. n + 1 \in 1..N /\ (n + 1) - 1 = n /\ n <= N
      BY <2>1
    <3>2. QED
      BY <3>1
  <2>3. PICK x : Upto(x, n) /\ Packed(f[n], w \o x)
    BY <1>5, <2>2
  <2>4. PICK v : v = words[m] /\ v \in MsgWord /\ f[m] = AddWord(f[n], v)
    BY <1>1, <1>2, <2>2
  <2>5. PICK y : y = Append(x, v) /\ y = x \o <<v>>
    BY <2>3, <2>4, AppendIsConcat
  <2>6. Upto(y, m)
    <3>1. y \in Seq(MsgWord) /\ Len(y) = m /\ (\A i \in 1..n : y[i] = x[i]) /\ y[m] = v
      BY <2>2, <2>3, <2>4, <2>5, AppendProperties
    <3>2. \A i \in 1..m : i \in 1..n \/ i = m
      BY <2>2
    <3>3. QED
      BY <2>3, <2>4, <3>1, <3>2
  <2>7. (w \o x) \o <<v>> = w \o y
    <3>1. x \in Seq(MsgWord) /\ <<v>> \in Seq(MsgWord)
      BY <2>3, <2>4, OneWord
    <3>2. (w \o x) \o <<v>> = w \o (x \o <<v>>)
      BY <1>3, <3>1, Regroup
    <3>3. QED
      BY <2>5, <3>2, Zenon
  <2>8. Packed(f[m], (w \o x) \o <<v>>)
    BY <2>3, <2>4, WordAdded
  <2>9. Packed(f[m], w \o y)
    BY <2>7, <2>8, Zenon
  <2>10. QED
    BY <2>2, <2>6, <2>9
<1>6. Nat \subseteq S
  <2> HIDE DEF S
  <2>1. QED
    BY <1>4, <1>5, NatInductionBySet
<1>7. PICK x : Upto(x, N) /\ Packed(f[N], w \o x)
  <2>1. N \in S
    <3> HIDE DEF S
    <3>1. QED
      BY <1>6
  <2>2. QED
    BY <2>1
<1>8. x = words
  BY <1>1, <1>7, SeqEqual
<1>9. QED
  BY <1>2, <1>7, <1>8

\* A prefix of a sequence of numbers, and the next one.
LEMMA PrefixTotal ==
  ASSUME NEW parts \in Seq(Nat), NEW n \in Nat, n + 1 <= Len(parts)
  PROVE  /\ Total(SubSeq(parts, 1, n)) \in Nat
         /\ Total(SubSeq(parts, 1, n + 1)) = Total(SubSeq(parts, 1, n)) + parts[n + 1]
<1>1. PICK N \in Nat : N = Len(parts) /\ \A i \in 1..N : parts[i] \in Nat
  BY LenProperties, ElementOfSeq
<1>2. PICK m \in Nat : m = n + 1 /\ m <= N
  BY <1>1
<1>3. PICK s : s = SubSeq(parts, 1, n)
  OBVIOUS
<1>4. PICK t : t = SubSeq(parts, 1, m)
  OBVIOUS
<1>5. s \in Seq(Nat) /\ Len(s) = n /\ \A i \in 1..n : s[i] = parts[i]
  <2>1. \A i \in 1..n : parts[i] \in Nat
    BY <1>1, <1>2
  <2>2. /\ s \in Seq(Nat) /\ Len(s) = (IF 1 <= n THEN n - 1 + 1 ELSE 0)
        /\ \A i \in 1..(n - 1 + 1) : s[i] = parts[1 + i - 1]
    BY <1>3, <2>1, SubSeqProperties
  <2>3. QED
    BY <2>2
<1>6. t \in Seq(Nat) /\ Len(t) = m /\ \A i \in 1..m : t[i] = parts[i]
  <2>1. \A i \in 1..m : parts[i] \in Nat
    BY <1>1, <1>2
  <2>2. /\ t \in Seq(Nat) /\ Len(t) = (IF 1 <= m THEN m - 1 + 1 ELSE 0)
        /\ \A i \in 1..(m - 1 + 1) : t[i] = parts[1 + i - 1]
    BY <1>4, <2>1, SubSeqProperties
  <2>3. QED
    BY <2>2
<1>7. m \in 1..m /\ \A i \in 1..n : i \in 1..m
  BY <1>2
<1>8. Len(t) = Len(s) + 1 /\ \A i \in 1..Len(s) : t[i] = s[i]
  BY <1>2, <1>5, <1>6, <1>7
<1>9. Total(t) = Total(s) + t[m]
  BY <1>5, <1>6, <1>8, TotalOneMore
<1>10. t[m] = parts[m]
  BY <1>6, <1>7
<1>11. Total(s) \in Nat
  BY <1>5, TotalType
<1>12. QED
  BY <1>2, <1>3, <1>4, <1>9, <1>10, <1>11

\* x is what the first n parts of TLV k hold.
Begun(x, k, parts, n) ==
  /\ x \in Seq(MsgWord) /\ Len(x) = Total(SubSeq(parts, 1, n))
  /\ \A i \in 1..Len(x) : x[i] = <<k, i>>

\* Nothing of the TLV yet.
LEMMA BegunNone ==
  ASSUME NEW k, NEW parts
  PROVE  Begun(<<>>, k, parts, 0)
<1>1. SubSeq(parts, 1, 0) = <<>>
  BY SubSeqEmpty
<1>2. <<>> \in Seq(Nat)
  BY EmptySeq
<1>3. Total(<<>>) = 0
  BY <1>2, TotalType
<1>4. <<>> \in Seq(MsgWord) /\ Len(<<>>) = 0
  BY EmptySeq
<1>5. PICK e : e = <<>>
  OBVIOUS
<1>6. e \in Seq(MsgWord) /\ Len(e) = 0 /\ Total(SubSeq(parts, 1, 0)) = 0
  BY <1>1, <1>3, <1>4, <1>5
<1>7. Begun(e, k, parts, 0)
  BY <1>6 DEF Begun
<1>8. QED
  BY <1>5, <1>7

\* One part more.
LEMMA BegunNext ==
  ASSUME NEW k \in Nat, NEW parts \in Seq(Nat), NEW n \in Nat, n + 1 <= Len(parts),
         NEW x, Begun(x, k, parts, n)
  PROVE  /\ PartWords(k, parts, n + 1) \in Seq(MsgWord)
         /\ Begun(x \o PartWords(k, parts, n + 1), k, parts, n + 1)
<1>1. PICK m \in Nat : m = n + 1 /\ m - 1 = n /\ m \in 1..Len(parts)
  <2>1. Len(parts) \in Nat
    BY LenProperties
  <2>2. n + 1 \in Nat /\ (n + 1) - 1 = n /\ n + 1 \in 1..Len(parts)
    BY <2>1
  <2>3. QED
    BY <2>2
<1>2. PICK before \in Nat : before = Total(SubSeq(parts, 1, n))
  BY PrefixTotal
<1>3. PICK len \in Nat : len = parts[m]
  BY <1>1, ElementOfSeq
<1>4. PICK p : p = [i \in 1..len |-> <<k, before + i>>]
  OBVIOUS
<1>5. PartWords(k, parts, m) = p
  BY <1>1, <1>2, <1>3, <1>4 DEF PartWords
<1>6. p \in Seq(MsgWord) /\ Len(p) = len /\ \A i \in 1..len : p[i] = <<k, before + i>>
  <2>1. \A i \in 1..len : <<k, before + i>> \in MsgWord
    BY DEF MsgWord
  <2>2. p \in [1..len -> MsgWord] /\ \A i \in 1..len : p[i] = <<k, before + i>>
    BY <1>4, <2>1
  <2>3. p \in Seq(MsgWord) /\ Len(p) = len
    BY ONLY <2>2, len \in Nat
  <2>4. QED
    BY <2>2, <2>3
<1>7. x \in Seq(MsgWord) /\ Len(x) = before /\ \A i \in 1..before : x[i] = <<k, i>>
  BY <1>2 DEF Begun
<1>8. PICK y : y = x \o p
  OBVIOUS
<1>9. /\ y \in Seq(MsgWord) /\ Len(y) = before + len
      /\ \A i \in 1..(before + len) : y[i] = IF i <= before THEN x[i] ELSE p[i - before]
  <2>1. /\ x \o p \in Seq(MsgWord) /\ Len(x \o p) = Len(x) + Len(p)
        /\ \A i \in 1..(Len(x) + Len(p)) : (x \o p)[i] = IF i <= Len(x) THEN x[i] ELSE p[i - Len(x)]
    BY <1>6, <1>7, ConcatProperties
  <2>2. QED
    BY <1>6, <1>7, <1>8, <2>1
<1>10. Total(SubSeq(parts, 1, m)) = before + len
  BY <1>1, <1>2, <1>3, PrefixTotal
<1>11. ASSUME NEW i \in 1..(before + len) PROVE y[i] = <<k, i>>
  <2>1. CASE i <= before
    <3>1. i \in 1..before
      BY <2>1
    <3>2. QED
      BY <1>7, <1>9, <2>1, <3>1
  <2>2. CASE ~(i <= before)
    <3>1. i - before \in 1..len /\ before + (i - before) = i
      BY <2>2
    <3>2. QED
      BY <1>6, <1>9, <2>2, <3>1
  <2>3. QED
    BY <2>1, <2>2
<1>12. Begun(y, k, parts, m)
  BY <1>9, <1>10, <1>11 DEF Begun
<1>13. QED
  BY <1>1, <1>5, <1>6, <1>8, <1>12

\* All parts make the TLV.
LEMMA BegunAll ==
  ASSUME NEW k \in Nat, NEW parts \in Seq(Nat), NEW x, Begun(x, k, parts, Len(parts))
  PROVE  x = TlvWords(k, parts)
<1>1. PICK N \in Nat : N = Len(parts) /\ \A i \in 1..N : parts[i] \in Nat
  BY LenProperties, ElementOfSeq
<1>2. SubSeq(parts, 1, N) = parts
  <2>1. /\ SubSeq(parts, 1, N) \in Seq(Nat) /\ Len(SubSeq(parts, 1, N)) = (IF 1 <= N THEN N - 1 + 1 ELSE 0)
        /\ \A i \in 1..(N - 1 + 1) : SubSeq(parts, 1, N)[i] = parts[1 + i - 1]
    BY <1>1, SubSeqProperties
  <2>2. PICK t : t = SubSeq(parts, 1, N)
    OBVIOUS
  <2>3. t \in Seq(Nat) /\ Len(t) = N /\ \A i \in 1..N : t[i] = parts[i]
    BY <2>1, <2>2
  <2>4. t = parts
    BY <1>1, <2>3, SeqEqual
  <2>5. QED
    BY <2>2, <2>4
<1>3. PICK len \in Nat : len = Total(parts)
  BY TotalType
<1>4. x \in Seq(MsgWord) /\ Len(x) = len /\ \A i \in 1..len : x[i] = <<k, i>>
  BY <1>1, <1>2, <1>3 DEF Begun
<1>5. x = [i \in 1..len |-> x[i]]
  BY <1>4, LenProperties
<1>6. [i \in 1..len |-> x[i]] = [i \in 1..len |-> <<k, i>>]
  BY <1>4
<1>7. QED
  BY <1>3, <1>5, <1>6 DEF TlvWords

\* The parts of a TLV, copied into one block.
LEMMA PartsJoined ==
  ASSUME NEW k \in Nat, NEW parts \in Seq(Nat)
  PROVE  FlattenSeq([p \in 1..Len(parts) |-> PartWords(k, parts, p)]) = TlvWords(k, parts)
<1>1. PICK N \in Nat : N = Len(parts) /\ \A i \in 1..N : parts[i] \in Nat
  BY LenProperties, ElementOfSeq
<1>2. PICK ss : ss = [p \in 1..N |-> PartWords(k, parts, p)]
  OBVIOUS
<1>3. ASSUME NEW p \in 1..N PROVE PartWords(k, parts, p) \in Seq(MsgWord)
  <2>1. PICK n \in Nat : p = n + 1 /\ n + 1 <= Len(parts) /\ p - 1 = n /\ (n = 0 \/ n \in 1..N) /\ n <= N
    <3>1. p - 1 \in Nat /\ p = (p - 1) + 1 /\ (p - 1) + 1 <= N /\ (p - 1 = 0 \/ p - 1 \in 1..N) /\ p - 1 <= N
      OBVIOUS
    <3>2. QED
      BY <1>1, <3>1
  <2>2. PICK before \in Nat : before = Total(SubSeq(parts, 1, n))
    BY <2>1, PrefixTotal
  <2>3. PICK len \in Nat : len = parts[p]
    BY <1>1
  <2>4. PICK q : q = [i \in 1..len |-> <<k, before + i>>]
    OBVIOUS
  <2>5. \A i \in 1..len : <<k, before + i>> \in MsgWord
    BY DEF MsgWord
  <2>6. q \in [1..len -> MsgWord]
    BY <2>4, <2>5
  <2>7. q \in Seq(MsgWord)
    BY ONLY <2>6, len \in Nat
  <2>8. PartWords(k, parts, p) = q
    BY <2>1, <2>2, <2>3, <2>4 DEF PartWords
  <2>9. QED
    BY <2>7, <2>8
<1>4. ss \in Seq(Seq(MsgWord)) /\ Len(ss) = N /\ \A p \in 1..N : ss[p] = PartWords(k, parts, p)
  <2>1. PICK T : T = Seq(MsgWord)
    OBVIOUS
  <2>2. ss \in [1..N -> T] /\ \A p \in 1..N : ss[p] = PartWords(k, parts, p)
    BY <1>2, <1>3, <2>1
  <2>3. ss \in Seq(T) /\ Len(ss) = N
    BY ONLY <2>2, N \in Nat
  <2>4. QED
    BY <2>1, <2>2, <2>3
<1>5. PICK f : /\ FlattenSeq(ss) = f[N] /\ f[0] = <<>>
               /\ \A p \in 1..N : f[p] = f[p - 1] \o PartWords(k, parts, p)
  <2>1. \E f : FlattenSeq(ss) = f[N] /\ f[0] = <<>> /\ \A p \in 1..N : f[p] = f[p - 1] \o ss[p]
    BY <1>4, FlatLoop
  <2>2. QED
    BY <1>4, <2>1
<1> DEFINE S == {n \in Nat : n <= N => Begun(f[n], k, parts, n)}
<1>6. 0 \in S
  BY <1>5, BegunNone
<1>7. ASSUME NEW n \in Nat, n \in S PROVE n + 1 \in S
  <2>1. SUFFICES ASSUME n + 1 <= N PROVE Begun(f[n + 1], k, parts, n + 1)
    OBVIOUS
  <2>2. n + 1 \in 1..N /\ (n + 1) - 1 = n /\ n <= N
    BY <2>1
  <2>3. Begun(f[n], k, parts, n) /\ f[n + 1] = f[n] \o PartWords(k, parts, n + 1)
    BY <1>5, <1>7, <2>2
  <2>4. Begun(f[n] \o PartWords(k, parts, n + 1), k, parts, n + 1)
    BY <1>1, <2>1, <2>3, BegunNext
  <2>5. QED
    BY <2>3, <2>4
<1>8. Nat \subseteq S
  <2> HIDE DEF S
  <2>1. QED
    BY <1>6, <1>7, NatInductionBySet
<1>9. Begun(f[N], k, parts, N)
  BY <1>8
<1>10. f[N] = TlvWords(k, parts)
  BY <1>1, <1>9, BegunAll
<1>11. QED
  BY <1>1, <1>2, <1>5, <1>10

\* The parts of a TLV, added at the tail.
LEMMA PartsAdded ==
  ASSUME NEW bs, NEW w, NEW k \in Nat, NEW parts \in Seq(Nat), Packed(bs, w)
  PROVE  Packed(AddPartsToTail(bs, k, parts), w \o TlvWords(k, parts))
<1>1. PICK N \in Nat : N = Len(parts)
  BY LenProperties
<1>2. PICK f : /\ AddPartsToTail(bs, k, parts) = f[N] /\ f[0] = bs
               /\ \A p \in 1..N : f[p] = AddAppDataToTail(f[p - 1], PartWords(k, parts, p))
  BY <1>1, PartsLoop
<1>3. w \in Seq(MsgWord)
  BY DEF Packed
<1> DEFINE S == {n \in Nat : n <= N => \E x : Begun(x, k, parts, n) /\ Packed(f[n], w \o x)}
<1>4. 0 \in S
  <2>1. w \o <<>> = w
    BY <1>3, ConcatEmptySeq
  <2>2. Packed(f[0], w \o <<>>)
    BY <1>2, <2>1
  <2>3. QED
    BY <2>2, BegunNone
<1>5. ASSUME NEW n \in Nat, n \in S PROVE n + 1 \in S
  <2>1. SUFFICES ASSUME n + 1 <= N PROVE \E x : Begun(x, k, parts, n + 1) /\ Packed(f[n + 1], w \o x)
    OBVIOUS
  <2>2. n + 1 \in 1..N /\ (n + 1) - 1 = n /\ n <= N
    BY <2>1
  <2>3. PICK x : Begun(x, k, parts, n) /\ Packed(f[n], w \o x)
    BY <1>5, <2>2
  <2>4. PICK p : p = PartWords(k, parts, n + 1)
    OBVIOUS
  <2>5. p \in Seq(MsgWord) /\ Begun(x \o p, k, parts, n + 1)
    BY <1>1, <2>1, <2>3, <2>4, BegunNext
  <2>6. Packed(f[n + 1], (w \o x) \o p)
    <3>1. f[n + 1] = AddAppDataToTail(f[n], p)
      BY <1>2, <2>2, <2>4
    <3>2. QED
      BY <2>3, <2>5, <3>1, TailAdded
  <2>7. (w \o x) \o p = w \o (x \o p)
    <3>1. x \in Seq(MsgWord)
      BY <2>3 DEF Begun
    <3>2. QED
      BY <1>3, <2>5, <3>1, Regroup
  <2>8. Packed(f[n + 1], w \o (x \o p))
    BY <2>6, <2>7, Zenon
  <2>9. QED
    BY <2>5, <2>8
<1>6. Nat \subseteq S
  <2> HIDE DEF S
  <2>1. QED
    BY <1>4, <1>5, NatInductionBySet
<1>7. PICK x : Begun(x, k, parts, N) /\ Packed(f[N], w \o x)
  <2>1. N \in S
    <3> HIDE DEF S
    <3>1. QED
      BY <1>6
  <2>2. QED
    BY <2>1
<1>8. x = TlvWords(k, parts)
  BY <1>1, <1>7, BegunAll
<1>9. QED
  BY <1>2, <1>7, <1>8

\* A TLV is a sequence of words.
LEMMA TlvType ==
  ASSUME NEW k \in Nat, NEW parts \in Seq(Nat)
  PROVE  TlvWords(k, parts) \in Seq(MsgWord) /\ Len(TlvWords(k, parts)) = Total(parts)
<1>1. PICK len \in Nat : len = Total(parts)
  BY TotalType
<1>2. PICK q : q = [i \in 1..len |-> <<k, i>>]
  OBVIOUS
<1>3. \A i \in 1..len : <<k, i>> \in MsgWord
  BY DEF MsgWord
<1>4. q \in [1..len -> MsgWord]
  BY <1>2, <1>3
<1>5. q \in Seq(MsgWord) /\ Len(q) = len
  BY ONLY <1>4, len \in Nat
<1>6. TlvWords(k, parts) = q
  BY <1>1, <1>2 DEF TlvWords
<1>7. QED
  BY <1>1, <1>5, <1>6

\* A TLV is refused and changes nothing, or it follows what is there already:
\* when it goes into a block that has room, that block is the last.
LEMMA TlvAdded ==
  ASSUME NEW bs, NEW w, NEW k \in Nat, NEW parts \in Seq(Nat), Total(parts) > 0, Packed(bs, w)
  PROVE  \/ AddTlv(bs, k, parts) = bs
         \/ Packed(AddTlv(bs, k, parts), w \o TlvWords(k, parts))
<1>1. PICK len \in Nat : len = Total(parts) /\ len > 0
  BY TotalType
<1>2. bs \in Seq(Seq(MsgWord)) /\ bs # <<>>
  BY DEF Packed
<1>3. PICK N \in Nat \ {0} : N = Len(bs) /\ N \in 1..N /\ DOMAIN bs = 1..N
  <2>1. Len(bs) \in Nat \ {0} /\ DOMAIN bs = 1..Len(bs)
    BY <1>2, EmptySeq, LenProperties
  <2>2. Len(bs) \in 1..Len(bs)
    BY <2>1
  <2>3. QED
    BY <2>1, <2>2
<1>4. PICK last : last = bs[N] /\ last \in Seq(MsgWord)
  BY <1>2, <1>3, ElementOfSeq
<1>5. PICK x : x = TlvWords(k, parts) /\ x \in Seq(MsgWord) /\ Len(x) = len
  BY <1>1, TlvType
<1>6. CASE MsgLen(bs) + len > MaxTotal
  BY <1>1, <1>6 DEF AddTlv
<1>7. CASE ~(MsgLen(bs) + len > MaxTotal) /\ ValidBlocks(bs, len) = {}
  <2>1. AddTlv(bs, k, parts) = AddPartsToTail(bs, k, parts)
    BY <1>1, <1>7 DEF AddTlv
  <2>2. QED
    BY <2>1, PartsAdded
<1>8. CASE ~(MsgLen(bs) + len > MaxTotal) /\ ValidBlocks(bs, len) # {}
  <2>1. ASSUME NEW b \in ValidBlocks(bs, len) PROVE b = N /\ Len(last) + len <= BlockSize
    <3>1. b \in 1..N /\ BlockSize - Len(bs[b]) >= len
      BY <1>3 DEF ValidBlocks, Room
    <3>2. Len(bs[b]) \in 1..BlockSize
      BY <1>3, <3>1 DEF Packed
    <3>3. BlockSize \in Nat
      BY ClientAssumption
    <3>4. Len(bs[b]) # BlockSize /\ Len(bs[b]) + len <= BlockSize
      BY <1>1, <3>1, <3>2, <3>3
    <3>5. b \notin 1..(N - 1)
      BY <1>3, <3>4 DEF Packed
    <3>6. b = N
      BY <3>1, <3>5
    <3>7. QED
      BY <1>4, <3>4, <3>6
  <2>2. ValidBlocks(bs, len) = {N} /\ Len(last) + len <= BlockSize
    BY <1>8, <2>1
  <2>3. GetValidMsgBlock(bs, len) = N
    BY <2>2 DEF GetValidMsgBlock
  <2>4. PICK new : new = last \o x /\ new \in Seq(MsgWord)
    BY <1>4, <1>5, ConcatProperties
  <2>5. PICK cs : cs = [bs EXCEPT ![N] = new]
    OBVIOUS
  <2>6. PICK T : T = Seq(MsgWord)
    OBVIOUS
  <2>7. bs \in [1..N -> T] /\ new \in T
    BY <1>2, <1>3, <2>4, <2>6, LenProperties
  <2>8. cs \in [1..N -> T] /\ cs[N] = new /\ \A b \in 1..(N - 1) : cs[b] = bs[b]
    BY <1>3, <2>5, <2>7
  <2>9. cs \in Seq(T) /\ Len(cs) = N
    BY ONLY <2>8, N \in Nat \ {0}
  <2>10. Packed(cs, w \o x)
    <3>1. cs \in Seq(Seq(MsgWord)) /\ Len(cs) = Len(bs)
      BY <1>3, <2>6, <2>9
    <3>2. /\ \A b \in 1..(Len(bs) - 1) : cs[b] = bs[b]
          /\ cs[Len(bs)] = bs[Len(bs)] \o x
          /\ Len(bs[Len(bs)]) + Len(x) <= BlockSize
      BY <1>3, <1>4, <1>5, <2>2, <2>4, <2>8
    <3>3. QED
      BY <1>5, <3>1, <3>2, LastGrows
  <2>11. AddTlv(bs, k, parts) = cs
    <3>1. AddTlv(bs, k, parts) =
            [bs EXCEPT ![GetValidMsgBlock(bs, len)] =
               @ \o FlattenSeq([p \in 1..Len(parts) |-> PartWords(k, parts, p)])]
      BY <1>1, <1>8 DEF AddTlv
    <3>2. FlattenSeq([p \in 1..Len(parts) |-> PartWords(k, parts, p)]) = x
      BY <1>5, PartsJoined
    <3>3. [bs EXCEPT ![GetValidMsgBlock(bs, len)] =
               @ \o FlattenSeq([p \in 1..Len(parts) |-> PartWords(k, parts, p)])] = [bs EXCEPT ![N] = @ \o x]
      BY <2>3, <3>2, Zenon
    <3>4. [bs EXCEPT ![N] = @ \o x] = cs
      BY <1>4, <2>4, <2>5
    <3>5. QED
      BY <3>1, <3>3, <3>4, Zenon
  <2>12. QED
    BY <1>5, <2>10, <2>11
<1>9. QED
  BY <1>6, <1>7, <1>8

\* The message before the first TLV.
LEMMA HeaderPacked ==
  /\ Header \in Seq(MsgWord) /\ Len(Header) = HdrLen
  /\ Packed(<<Header>>, Header)
<1>1. HdrLen \in Nat /\ HdrLen \in 1..BlockSize
  BY ClientAssumption
<1>2. PICK h : h = Header
  OBVIOUS
<1>3. h \in Seq(MsgWord) /\ Len(h) = HdrLen
  <2>1. \A i \in 1..HdrLen : <<0, i>> \in MsgWord
    BY <1>1 DEF MsgWord
  <2>2. h \in [1..HdrLen -> MsgWord]
    BY <1>2, <2>1 DEF Header
  <2>3. QED
    BY ONLY <1>1, <2>2
<1>4. PICK e, bs : e = <<>> /\ bs = <<h>>
  OBVIOUS
<1>5. PICK T : T = Seq(MsgWord)
  OBVIOUS
<1>6. bs \in Seq(T) /\ Len(bs) = 1 /\ bs[1] = h /\ bs # <<>>
  BY <1>3, <1>4, <1>5
<1>7. e \in Seq(T) /\ Len(e) = 0 /\ e \in Seq(MsgWord)
  BY <1>4, EmptySeq
<1>8. Len(bs) = Len(e) + 1 /\ \A i \in 1..Len(e) : bs[i] = e[i]
  BY <1>6, <1>7
<1>9. FlattenSeq(e) = <<>> /\ MsgLen(e) = 0
  <2>1. FlattenSeq(e) = e
    BY <1>7 DEF FlattenSeq
  <2>2. PICK l : l = [b \in DOMAIN e |-> Len(e[b])]
    OBVIOUS
  <2>3. l \in Seq(Nat) /\ Len(l) = 0
    BY <1>5, <1>7, <2>2, BlockLens
  <2>4. l = <<>>
    BY <2>3, EmptySeq
  <2>5. Total(l) = 0
    BY <2>3, <2>4, TotalType
  <2>6. QED
    BY <1>4, <2>1, <2>2, <2>5 DEF MsgLen
<1>10. FlattenSeq(bs) = h
  <2>1. FlattenSeq(bs) = FlattenSeq(e) \o bs[Len(bs)]
    BY <1>5, <1>6, <1>7, <1>8, FlatOneMore
  <2>2. <<>> \o h = h
    BY <1>3, ConcatEmptySeq
  <2>3. QED
    BY <1>6, <1>9, <2>1, <2>2
<1>11. MsgLen(bs) = HdrLen
  <2>1. MsgLen(bs) = MsgLen(e) + Len(bs[Len(bs)])
    BY <1>5, <1>6, <1>7, <1>8, MsgLenOneMore
  <2>2. QED
    BY <1>1, <1>3, <1>6, <1>9, <2>1
<1>12. Packed(bs, h)
  BY <1>1, <1>3, <1>5, <1>6, <1>10, <1>11 DEF Packed
<1>13. QED
  BY <1>2, <1>3, <1>4, <1>12

\* The lengths and the words of the first n TLVs.
FirstLens(tlvs, n) == [k \in 1..n |-> Total(tlvs[k])]
FirstWords(tlvs, n) == <<Header>> \o [k \in 1..n |-> TlvWords(k, tlvs[k])]

\* A sequence of one element.
LEMMA Singleton ==
  ASSUME NEW T, NEW h \in T
  PROVE  <<h>> \in Seq(T) /\ Len(<<h>>) = 1 /\ <<h>>[1] = h
  OBVIOUS

\* What they are, one by one.
LEMMA FirstType ==
  ASSUME NEW tlvs \in Seq(Seq(Nat)), NEW n \in Nat, n <= Len(tlvs)
  PROVE  /\ FirstLens(tlvs, n) \in Seq(Nat) /\ Len(FirstLens(tlvs, n)) = n
         /\ \A k \in 1..n : FirstLens(tlvs, n)[k] = Total(tlvs[k])
         /\ FirstWords(tlvs, n) \in Seq(Seq(MsgWord)) /\ Len(FirstWords(tlvs, n)) = n + 1
         /\ FirstWords(tlvs, n)[1] = Header
         /\ \A k \in 1..n : FirstWords(tlvs, n)[k + 1] = TlvWords(k, tlvs[k])
<1>1. \A k \in 1..n : tlvs[k] \in Seq(Nat)
  <2>1. PICK N \in Nat : N = Len(tlvs) /\ \A k \in 1..N : tlvs[k] \in Seq(Nat)
    BY LenProperties, ElementOfSeq
  <2>2. \A k \in 1..n : k \in 1..N
    BY <2>1
  <2>3. QED
    BY <2>1, <2>2
<1>2. PICK l : l = [k \in 1..n |-> Total(tlvs[k])]
  OBVIOUS
<1>3. l \in Seq(Nat) /\ Len(l) = n /\ \A k \in 1..n : l[k] = Total(tlvs[k])
  <2>1. \A k \in 1..n : Total(tlvs[k]) \in Nat
    BY <1>1, TotalType
  <2>2. l \in [1..n -> Nat] /\ \A k \in 1..n : l[k] = Total(tlvs[k])
    BY <1>2, <2>1
  <2>3. l \in Seq(Nat) /\ Len(l) = n
    BY ONLY <2>2, n \in Nat
  <2>4. QED
    BY <2>2, <2>3
<1>4. PICK T : T = Seq(MsgWord)
  OBVIOUS
<1>5. PICK s : s = [k \in 1..n |-> TlvWords(k, tlvs[k])]
  OBVIOUS
<1>6. s \in Seq(T) /\ Len(s) = n /\ \A k \in 1..n : s[k] = TlvWords(k, tlvs[k])
  <2>1. \A k \in 1..n : k \in Nat
    OBVIOUS
  <2>2. \A k \in 1..n : TlvWords(k, tlvs[k]) \in T
    BY <1>1, <1>4, <2>1, TlvType
  <2>3. s \in [1..n -> T] /\ \A k \in 1..n : s[k] = TlvWords(k, tlvs[k])
    BY <1>5, <2>2
  <2>4. s \in Seq(T) /\ Len(s) = n
    BY ONLY <2>3, n \in Nat
  <2>5. QED
    BY <2>3, <2>4
<1>7. PICK h : h = Header /\ h \in T
  BY <1>4, HeaderPacked
<1>8. PICK o : o = <<h>> /\ o \in Seq(T) /\ Len(o) = 1 /\ o[1] = h
  BY <1>7, Singleton, Zenon
<1>9. PICK u : /\ u = o \o s /\ u \in Seq(T) /\ Len(u) = 1 + n
               /\ \A i \in 1..(1 + n) : u[i] = IF i <= 1 THEN o[i] ELSE s[i - 1]
  <2>1. /\ o \o s \in Seq(T) /\ Len(o \o s) = Len(o) + Len(s)
        /\ \A i \in 1..(Len(o) + Len(s)) : (o \o s)[i] = IF i <= Len(o) THEN o[i] ELSE s[i - Len(o)]
    BY <1>6, <1>8, ConcatProperties
  <2>2. PICK u : u = o \o s
    OBVIOUS
  <2>3. QED
    BY <1>6, <1>8, <2>1, <2>2
<1>10. u[1] = h
  BY <1>8, <1>9
<1>11. ASSUME NEW k \in 1..n PROVE u[k + 1] = TlvWords(k, tlvs[k])
  <2>1. k + 1 \in 1..(1 + n) /\ ~(k + 1 <= 1) /\ (k + 1) - 1 = k
    OBVIOUS
  <2>2. QED
    BY <1>6, <1>9, <2>1
<1>12. FirstLens(tlvs, n) = l /\ FirstWords(tlvs, n) = u
  BY <1>2, <1>5, <1>7, <1>8, <1>9, Zenon DEF FirstLens, FirstWords
<1>13. 1 + n = n + 1
  OBVIOUS
<1>14. QED
  BY <1>3, <1>4, <1>7, <1>9, <1>10, <1>11, <1>12, <1>13

\* No TLV yet.
LEMMA FirstNone ==
  ASSUME NEW tlvs \in Seq(Seq(Nat))
  PROVE  Total(FirstLens(tlvs, 0)) = 0 /\ FlattenSeq(FirstWords(tlvs, 0)) = Header
<1>1. PICK l, u : l = FirstLens(tlvs, 0) /\ u = FirstWords(tlvs, 0)
  OBVIOUS
<1>2. 0 \in Nat /\ 0 <= Len(tlvs)
  BY LenProperties
<1>3. l \in Seq(Nat) /\ Len(l) = 0 /\ u \in Seq(Seq(MsgWord)) /\ Len(u) = 1 /\ u[1] = Header
  <2>1. l \in Seq(Nat) /\ Len(l) = 0 /\ u \in Seq(Seq(MsgWord)) /\ Len(u) = 0 + 1 /\ u[1] = Header
    BY <1>1, <1>2, FirstType, Zenon
  <2>2. 0 + 1 = 1
    OBVIOUS
  <2>3. QED
    BY <2>1, <2>2, Zenon
<1>4. Total(l) = 0
  BY <1>3, EmptySeq, TotalType
<1>5. PICK T : T = Seq(MsgWord)
  OBVIOUS
<1>6. PICK h : h = Header /\ h \in T /\ FlattenSeq(<<h>>) = h
  BY <1>5, HeaderPacked DEF Packed
<1>7. PICK o : o = <<h>> /\ o \in Seq(T) /\ Len(o) = 1 /\ o[1] = h
  BY <1>6, Singleton, Zenon
<1>8. u = o
  <2>1. u \in Seq(T) /\ Len(u) = Len(o) /\ \A i \in 1..Len(u) : u[i] = o[i]
    BY <1>3, <1>5, <1>6, <1>7
  <2>2. QED
    BY <1>7, <2>1, SeqEqual
<1>9. QED
  BY <1>1, <1>4, <1>6, <1>7, <1>8

\* One TLV more.
LEMMA FirstNext ==
  ASSUME NEW tlvs \in Seq(Seq(Nat)), NEW n \in Nat, n + 1 <= Len(tlvs)
  PROVE  /\ Total(FirstLens(tlvs, n)) \in Nat
         /\ Total(FirstLens(tlvs, n + 1)) = Total(FirstLens(tlvs, n)) + Total(tlvs[n + 1])
         /\ FlattenSeq(FirstWords(tlvs, n + 1)) = FlattenSeq(FirstWords(tlvs, n)) \o TlvWords(n + 1, tlvs[n + 1])
<1>1. PICK N \in Nat : N = Len(tlvs)
  BY LenProperties
<1>2. PICK m \in Nat : m = n + 1 /\ m <= N /\ n <= N /\ m \in 1..m /\ \A k \in 1..n : k \in 1..m
  <2>1. n + 1 \in Nat /\ n + 1 <= N /\ n <= N /\ n + 1 \in 1..(n + 1) /\ \A k \in 1..n : k \in 1..(n + 1)
    BY <1>1
  <2>2. QED
    BY <2>1
<1>3. PICK l, u : l = FirstLens(tlvs, n) /\ u = FirstWords(tlvs, n)
  OBVIOUS
<1>4. PICK lm, um : lm = FirstLens(tlvs, m) /\ um = FirstWords(tlvs, m)
  OBVIOUS
<1>5. /\ l \in Seq(Nat) /\ Len(l) = n /\ \A k \in 1..n : l[k] = Total(tlvs[k])
      /\ u \in Seq(Seq(MsgWord)) /\ Len(u) = n + 1 /\ u[1] = Header
      /\ \A k \in 1..n : u[k + 1] = TlvWords(k, tlvs[k])
  BY <1>1, <1>2, <1>3, FirstType
<1>6. /\ lm \in Seq(Nat) /\ Len(lm) = m /\ \A k \in 1..m : lm[k] = Total(tlvs[k])
      /\ um \in Seq(Seq(MsgWord)) /\ Len(um) = m + 1 /\ um[1] = Header
      /\ \A k \in 1..m : um[k + 1] = TlvWords(k, tlvs[k])
  BY <1>1, <1>2, <1>4, FirstType
<1>7. Total(lm) = Total(l) + Total(tlvs[m])
  <2>1. Len(lm) = Len(l) + 1 /\ \A k \in 1..Len(l) : lm[k] = l[k]
    BY <1>2, <1>5, <1>6
  <2>2. lm[Len(lm)] = Total(tlvs[m])
    BY <1>2, <1>6
  <2>3. QED
    BY <1>5, <1>6, <2>1, <2>2, TotalOneMore
<1>8. FlattenSeq(um) = FlattenSeq(u) \o TlvWords(m, tlvs[m])
  <2>1. ASSUME NEW i \in 1..Len(u) PROVE um[i] = u[i]
    <3>1. CASE i = 1
      BY <1>5, <1>6, <3>1
    <3>2. CASE i # 1
      <4>1. PICK k \in 1..n : i = k + 1
        <5>1. i - 1 \in 1..n /\ i = (i - 1) + 1
          BY <1>5, <3>2
        <5>2. QED
          BY <5>1
      <4>2. k \in 1..m
        BY <1>2
      <4>3. QED
        BY <1>5, <1>6, <4>1, <4>2
    <3>3. QED
      BY <3>1, <3>2
  <2>2. Len(um) = Len(u) + 1
    BY <1>2, <1>5, <1>6
  <2>3. um[Len(um)] = TlvWords(m, tlvs[m])
    BY <1>2, <1>6
  <2>4. FlattenSeq(um) = FlattenSeq(u) \o um[Len(um)]
    BY <1>5, <1>6, <2>1, <2>2, FlatOneMore
  <2>5. QED
    BY <2>3, <2>4, Zenon
<1>9. Total(l) \in Nat
  BY <1>5, TotalType
<1>10. QED
  BY <1>2, <1>3, <1>4, <1>7, <1>8, <1>9

\* What the blocks hold after the first TLVs: no more words than those have,
\* and, when it is as many, exactly those.
Held(bs, tlvs, n) ==
  \E w : /\ Packed(bs, w) /\ Len(w) <= HdrLen + Total(FirstLens(tlvs, n))
         /\ Len(w) = HdrLen + Total(FirstLens(tlvs, n)) => w = FlattenSeq(FirstWords(tlvs, n))

\* One TLV more, whether it is refused or added.
LEMMA HeldNext ==
  ASSUME NEW tlvs \in Seq(Seq(Nat)), NEW n \in Nat, n + 1 <= Len(tlvs), Total(tlvs[n + 1]) > 0,
         NEW bs, Held(bs, tlvs, n)
  PROVE  Held(AddTlv(bs, n + 1, tlvs[n + 1]), tlvs, n + 1)
<1>1. PICK k \in Nat : k = n + 1 /\ k \in 1..Len(tlvs)
  <2>1. Len(tlvs) \in Nat
    BY LenProperties
  <2>2. n + 1 \in Nat /\ n + 1 \in 1..Len(tlvs)
    BY <2>1
  <2>3. QED
    BY <2>2
<1>2. PICK parts : parts = tlvs[k] /\ parts \in Seq(Nat)
  BY <1>1, ElementOfSeq
<1>3. PICK len \in Nat : len = Total(parts) /\ len > 0
  BY <1>1, <1>2, TotalType
<1>4. PICK sum \in Nat : sum = Total(FirstLens(tlvs, n)) /\ Total(FirstLens(tlvs, k)) = sum + len
  BY <1>1, <1>2, <1>3, FirstNext
<1>5. PICK all : all = FlattenSeq(FirstWords(tlvs, n))
                 /\ FlattenSeq(FirstWords(tlvs, k)) = all \o TlvWords(k, parts)
  BY <1>1, <1>2, FirstNext
<1>6. PICK w : Packed(bs, w) /\ Len(w) <= HdrLen + sum /\ (Len(w) = HdrLen + sum => w = all)
  BY <1>4, <1>5 DEF Held
<1>7. w \in Seq(MsgWord) /\ Len(w) \in Nat /\ HdrLen \in Nat
  <2>1. w \in Seq(MsgWord)
    BY <1>6 DEF Packed
  <2>2. QED
    BY <2>1, LenProperties, ClientAssumption
<1>8. CASE AddTlv(bs, k, parts) = bs
  <2>1. Len(w) <= HdrLen + (sum + len) /\ Len(w) # HdrLen + (sum + len)
    BY <1>3, <1>6, <1>7
  <2>2. Held(bs, tlvs, k)
    BY <1>4, <1>6, <2>1 DEF Held
  <2>3. QED
    BY <1>1, <1>2, <1>8, <2>2
<1>9. CASE Packed(AddTlv(bs, k, parts), w \o TlvWords(k, parts))
  <2>1. PICK x : x = TlvWords(k, parts) /\ x \in Seq(MsgWord) /\ Len(x) = len
    BY <1>2, <1>3, TlvType
  <2>2. PICK v : v = w \o x /\ Len(v) = Len(w) + len
    BY <1>7, <2>1, ConcatProperties
  <2>3. Len(v) <= HdrLen + (sum + len)
    BY <1>6, <1>7, <2>2
  <2>4. ASSUME Len(v) = HdrLen + (sum + len) PROVE v = FlattenSeq(FirstWords(tlvs, k))
    <3>1. Len(w) = HdrLen + sum
      BY <1>7, <2>2, <2>4
    <3>2. w = all
      BY <1>6, <3>1
    <3>3. QED
      BY <1>5, <2>1, <2>2, <3>2, Zenon
  <2>5. Held(AddTlv(bs, k, parts), tlvs, k)
    <3>1. Packed(AddTlv(bs, k, parts), v)
      BY <1>9, <2>1, <2>2, Zenon
    <3>2. QED
      BY <1>4, <2>3, <2>4, <3>1 DEF Held
  <2>6. QED
    BY <1>1, <1>2, <2>5
<1>10. QED
  BY <1>2, <1>3, <1>6, <1>8, <1>9, TlvAdded

\* Every message that the client library built without refusing a TLV is, block
\* after block, the header and the TLVs in the order they were added, and no
\* block is empty or overfull, for every list of TLVs and parts and every size
\* of a block (CreateBaseMsg, AddAppDataEx, AddAppDataToTail).
THEOREM MessageBuiltInOrder ==
  ASSUME NEW tlvs \in Seq(Seq(Nat)), \A k \in 1..Len(tlvs) : Total(tlvs[k]) > 0
  PROVE  Accepted(tlvs) => InBlocks(tlvs)
<1>1. PICK N \in Nat : N = Len(tlvs) /\ DOMAIN tlvs = 1..N /\ \A k \in 1..N : Total(tlvs[k]) > 0
  BY LenProperties
<1>2. PICK f : /\ Build(tlvs) = f[N] /\ f[0] = <<Header>>
               /\ \A k \in 1..N : f[k] = AddTlv(f[k - 1], k, tlvs[k])
  BY <1>1, BuildLoop
<1> DEFINE S == {n \in Nat : n <= N => Held(f[n], tlvs, n)}
<1>3. 0 \in S
  <2>1. PICK h : h = Header /\ Packed(<<h>>, h) /\ Len(h) = HdrLen
    BY HeaderPacked
  <2>2. PICK sum, all : sum = Total(FirstLens(tlvs, 0)) /\ all = FlattenSeq(FirstWords(tlvs, 0))
    OBVIOUS
  <2>3. sum = 0 /\ all = h
    BY <2>1, <2>2, FirstNone
  <2>4. HdrLen \in Nat
    BY ClientAssumption
  <2>5. Len(h) <= HdrLen + sum
    BY <2>1, <2>3, <2>4
  <2>6. Held(<<h>>, tlvs, 0)
    BY <2>1, <2>2, <2>3, <2>5 DEF Held
  <2>7. QED
    BY <1>2, <2>1, <2>6
<1>4. ASSUME NEW n \in Nat, n \in S PROVE n + 1 \in S
  <2>1. SUFFICES ASSUME n + 1 <= N PROVE Held(f[n + 1], tlvs, n + 1)
    OBVIOUS
  <2>2. n + 1 \in 1..N /\ (n + 1) - 1 = n /\ n <= N
    BY <2>1
  <2>3. Held(f[n], tlvs, n) /\ f[n + 1] = AddTlv(f[n], n + 1, tlvs[n + 1]) /\ Total(tlvs[n + 1]) > 0
    BY <1>1, <1>2, <1>4, <2>2
  <2>4. QED
    BY <1>1, <2>1, <2>3, HeldNext
<1>5. Nat \subseteq S
  <2> HIDE DEF S
  <2>1. QED
    BY <1>3, <1>4, NatInductionBySet
<1>6. PICK bs : bs = Build(tlvs) /\ Held(bs, tlvs, N)
  BY <1>2, <1>5
<1>7. PICK w : /\ Packed(bs, w)
               /\ Len(w) = HdrLen + Total(FirstLens(tlvs, N)) => w = FlattenSeq(FirstWords(tlvs, N))
  BY <1>6 DEF Held
<1>8. SUFFICES ASSUME Accepted(tlvs) PROVE InBlocks(tlvs)
  OBVIOUS
<1>9. Len(w) = HdrLen + Total(FirstLens(tlvs, N))
  BY <1>1, <1>6, <1>7, <1>8 DEF Packed, Accepted, FirstLens
<1>10. FlattenSeq(bs) = FlattenSeq(FirstWords(tlvs, N))
  BY <1>7, <1>9 DEF Packed
<1>11. \A b \in DOMAIN bs : Len(bs[b]) \in 1..BlockSize
  <2>1. bs \in Seq(Seq(MsgWord)) /\ \A b \in 1..Len(bs) : Len(bs[b]) \in 1..BlockSize
    BY <1>7 DEF Packed
  <2>2. DOMAIN bs = 1..Len(bs)
    BY <2>1, LenProperties
  <2>3. QED
    BY <2>1, <2>2
<1>12. FirstWords(tlvs, N) = <<Header>> \o [k \in DOMAIN tlvs |-> TlvWords(k, tlvs[k])]
  BY <1>1 DEF FirstWords
<1>13. QED
  BY <1>6, <1>10, <1>11, <1>12, Zenon DEF InBlocks

\* The messages of the run are of that kind.
LEMMA SmallTlvsAreTlvs ==
  ASSUME NEW tlvs \in SmallTlvs
  PROVE  tlvs \in Seq(Seq(Nat)) /\ \A k \in 1..Len(tlvs) : Total(tlvs[k]) > 0
<1>1. PICK n \in 1..4 : tlvs \in [1..n -> SmallParts]
  BY DEF SmallTlvs
<1>2. ASSUME NEW p \in SmallParts PROVE p \in Seq(Nat) /\ Total(p) > 0
  <2>1. /\ p \in Seq(Nat) /\ Len(p) \in {1, 2, 3} /\ p[1] = 1
        /\ Len(p) >= 2 => p[2] \in Nat
        /\ Len(p) = 3 => p[3] \in Nat
    <3>1. CASE p = <<1>>
      BY <3>1
    <3>2. CASE p = <<1, 1>>
      BY <3>2
    <3>3. CASE p = <<1, 2>>
      BY <3>3
    <3>4. CASE p = <<1, 3, 1>>
      BY <3>4
    <3>5. QED
      BY <1>2, <3>1, <3>2, <3>3, <3>4, Zenon DEF SmallParts
  <2>2. PICK L : L = Len(p) /\ L \in {1, 2, 3}
    BY <2>1
  <2>3. PICK f : Total(p) = f[L] /\ f[0] = 0 /\ \A k \in 1..L : f[k] = f[k - 1] + p[k]
    BY <2>1, <2>2, TotalLoop
  <2>4. f[1] = 1
    <3>1. 1 \in 1..L /\ 1 - 1 = 0
      BY <2>2
    <3>2. f[1] = 0 + 1
      BY <2>1, <2>3, <3>1
    <3>3. QED
      BY <3>2
  <2>5. ASSUME L >= 2 PROVE f[2] = 1 + p[2]
    <3>1. 2 \in 1..L /\ 2 - 1 = 1
      BY <2>2, <2>5
    <3>2. QED
      BY <2>3, <2>4, <3>1
  <2>6. ASSUME L = 3 PROVE f[3] = (1 + p[2]) + p[3]
    <3>1. 3 \in 1..L /\ 3 - 1 = 2
      BY <2>6
    <3>2. QED
      BY <2>3, <2>5, <2>6, <3>1
  <2>7. f[L] > 0
    <3>1. CASE L = 1
      BY <2>4, <3>1
    <3>2. CASE L = 2
      BY <2>1, <2>2, <2>5, <3>2
    <3>3. CASE L = 3
      BY <2>1, <2>2, <2>6, <3>3
    <3>4. QED
      BY <2>2, <3>1, <3>2, <3>3
  <2>8. QED
    BY <2>1, <2>3, <2>7
<1>3. PICK T : T = Seq(Nat)
  OBVIOUS
<1>4. n \in Nat /\ tlvs \in [1..n -> T]
  <2>1. \A p \in SmallParts : p \in T
    BY <1>2, <1>3, Zenon
  <2>2. tlvs \in [1..n -> T]
    BY <1>1, <2>1
  <2>3. n \in Nat
    OBVIOUS
  <2>4. QED
    BY <2>2, <2>3
<1>5. tlvs \in Seq(T) /\ Len(tlvs) = n
  BY ONLY <1>4
<1>6. \A k \in 1..n : tlvs[k] \in SmallParts
  BY <1>1
<1>7. QED
  BY <1>2, <1>3, <1>5, <1>6, Zenon

\* The messages the callers build before they send are in order in their
\* blocks, whatever the size of a block and of the header and the limit of the
\* message (AppSpawnReqMsgCreate to AppSpawnReqMsgAddExtInfo).
THEOREM BlocksInOrder == Spec => []BlocksAreTheMessage
<1>1. BlocksAreTheMessage
  BY SmallTlvsAreTlvs, MessageBuiltInOrder DEF BlocksAreTheMessage
<1>2. QED
  BY <1>1, PTL

=============================================================================
