---------------------------- MODULE MsgReceiver ----------------------------
(***************************************************************************)
(* How the service cuts the byte stream of one connection into messages    *)
(* (standard/appspawn_service.c OnReceiveRequest, appspawn_msgmgr.c        *)
(* GetAppSpawnMsgFromBuffer), the timer of the incomplete message, and the *)
(* descriptors that travel beside the stream.                              *)
(*                                                                         *)
(* The stream is a sequence of cells <<m, i>>: unit i of message m.  A     *)
(* message is Header cells followed by its body.  The client writes and    *)
(* the service reads any number of cells at a time.  The do-while loop of  *)
(* OnReceiveRequest is one action per iteration: while buf is not empty    *)
(* the handler is running and nothing else of the service happens.         *)
(***************************************************************************)
EXTENDS Naturals, Sequences

CONSTANTS
  Header,     \* units of sizeof(AppSpawnMsg)
  Body,       \* the body lengths that occur
  Kinds,      \* what messages may be, see AllKinds
  MaxMsgs     \* bound: messages the client sends

\* "spawn" is a spawn that reaches STAGE_PARENT_POST_FORK, "refused" one that
\* does not, "observe" hands over the signal descriptor, "other" leaves the
\* descriptors alone; the rest fail a check.
AllKinds == {"spawn", "refused", "observe", "other",
             "bad_header", "bad_tlv", "denied"}

ASSUME ReceiverAssumption ==
  /\ Header \in Nat \ {0}
  /\ Body \subseteq Nat
  /\ Kinds \subseteq AllKinds
  /\ MaxMsgs \in Nat

VARIABLES
  waits,     \* the client waits for each answer, as the client library does
  sent,      \* the messages the client has begun to send
  out,       \* cells of them not yet written to the socket
  wire,      \* cells written and not yet read
  buf,       \* cells read that OnReceiveRequest has still to consume
  node,      \* cells in the message being assembled (msgRecvLen = Len(node))
  timer,     \* receiverCtx.timer is running
  rfds,      \* receiverCtx.fds: the message they came with, 0 if fdCount = 0
  handled,   \* messages given to ProcessRecvMsg, with the rfds they saw
  open       \* the connection

vars == <<waits, sent, out, wire, buf, node, timer, rfds, handled, open>>

Message == [body : Body, kind : Kinds, fds : BOOLEAN]
Cells(m, body) == [i \in 1..(Header + body) |-> <<m, i>>]

\* The client library: a signal descriptor always comes with its message.
WellFormed(msg) == msg.kind = "observe" => msg.fds
-----------------------------------------------------------------------------
Init ==
  /\ waits \in BOOLEAN
  /\ sent = <<>> /\ out = <<>> /\ wire = <<>> /\ buf = <<>> /\ node = <<>>
  /\ timer = FALSE /\ rfds = 0 /\ handled = <<>> /\ open = TRUE

\* The client starts a message; ClientSendMsgLocked holds the mutex until the
\* answer of the last one is read.
SendMsg ==
  /\ open /\ out = <<>> /\ Len(sent) < MaxMsgs
  /\ waits => Len(handled) = Len(sent)
  /\ \E msg \in Message :
       /\ WellFormed(msg)
       /\ sent' = Append(sent, msg)
       /\ out' = Cells(Len(sent) + 1, msg.body)
  /\ UNCHANGED <<waits, wire, buf, node, timer, rfds, handled, open>>

\* HandleMsgSend writes block after block; the reader sees what the kernel
\* has taken of them so far.  (A write that is cut short and sent again:
\* WriteMessage of SpawnClient.)
WriteMessage ==
  /\ open
  /\ \E k \in 1..Len(out) :
       /\ wire' = wire \o SubSeq(out, 1, k)
       /\ out' = SubSeq(out, k + 1, Len(out))
  /\ UNCHANGED <<waits, sent, buf, node, timer, rfds, handled, open>>
-----------------------------------------------------------------------------
\* Descriptors arrive with the first unit of their message, and the kernel
\* ends a read after the write that carried them.
CarriesFds(cell) == cell[2] = 1 /\ sent[cell[1]].fds

Readable(k) ==
  \A i \in 1..k : CarriesFds(wire[i]) => \A j \in i..k : wire[j][1] = wire[i][1]

\* Mistake: descriptors of an earlier message are kept.
FdsAfterRecvFirst(k) ==
  IF rfds = 0 /\ \E i \in 1..k : CarriesFds(wire[i])
  THEN wire[CHOOSE i \in 1..k : CarriesFds(wire[i])][1]
  ELSE rfds

\* Mistake: the count is added to instead of set.
FdsAfterRecvAdds(k) ==
  IF \E i \in 1..k : CarriesFds(wire[i])
  THEN rfds + wire[CHOOSE i \in 1..k : CarriesFds(wire[i])][1]
  ELSE rfds

\* HandleRecvMessage: what comes replaces what was there.
FdsAfterRecv(k) ==
  IF \E i \in 1..k : CarriesFds(wire[i])
  THEN wire[CHOOSE i \in 1..k : CarriesFds(wire[i])][1]
  ELSE rfds

\* The loop reads the socket and calls OnReceiveRequest.
HandleRecvMessage ==
  /\ open /\ buf = <<>>
  /\ \E k \in 1..Len(wire) :
       /\ Readable(k)
       /\ buf' = SubSeq(wire, 1, k)
       /\ wire' = SubSeq(wire, k + 1, Len(wire))
       /\ rfds' = FdsAfterRecv(k)
  /\ UNCHANGED <<waits, sent, out, node, timer, handled, open>>

\* OnClose: stops the timer and frees the incomplete message.
OnClose ==
  /\ open' = FALSE /\ timer' = FALSE /\ node' = <<>> /\ buf' = <<>>
-----------------------------------------------------------------------------
\* One iteration.  All that was received of the current message is got.
got == node \o buf

\* CheckRecvMsg accepts the units only if they are a header.
IsHeader(cells) ==
  LET m == cells[1][1] IN
  /\ \A i \in 1..Header : cells[i] = <<m, i>>
  /\ sent[m].kind # "bad_header"

HeaderOk == Len(got) >= Header /\ IsHeader(got)
Current == got[1][1]
MsgLen == Header + sent[Current].body

\* Mistake: the rest of a read is forgotten.
ReminderLost == <<>>

\* What is left of the read after a complete message.  A message without a
\* body returns before *reminder is computed.
Reminder == IF MsgLen = Header THEN <<>> ELSE SubSeq(got, MsgLen + 1, Len(got))

\* Mistake: the timer is never started.
TimerForIncompleteNever == timer

\* StartTimerForCheckMsg: a running timer is kept.
TimerForIncomplete == TRUE

\* The read ends inside the message: it is kept and the timer guards it.
\* When the timer cannot be started the connection is closed.
Incomplete ==
  /\ open /\ buf # <<>>
  /\ Len(got) < Header \/ (HeaderOk /\ Len(got) < MsgLen)
  /\ \/ node' = got /\ buf' = <<>> /\ timer' = TimerForIncomplete
        /\ UNCHANGED open
     \/ ~timer /\ OnClose
  /\ UNCHANGED <<waits, sent, out, wire, rfds, handled>>

\* AppSpawnMsgRebuild refuses the header: the message is freed.
BadHeader ==
  /\ open /\ buf # <<>> /\ Len(got) >= Header /\ ~IsHeader(got)
  /\ OnClose
  /\ UNCHANGED <<waits, sent, out, wire, rfds, handled>>

Completes(kinds) ==
  /\ open /\ buf # <<>> /\ HeaderOk /\ Len(got) >= MsgLen
  /\ sent[Current].kind \in kinds

\* DecodeAppSpawnMsg refuses the TLVs.
BadTlv ==
  /\ Completes({"bad_tlv"})
  /\ OnClose
  /\ UNCHANGED <<waits, sent, out, wire, rfds, handled>>

\* MsgDevicedebugCheck refuses the sender.  The handler returns without
\* freeing the message, which no property here is about.
Denied ==
  /\ Completes({"denied"})
  /\ OnClose
  /\ UNCHANGED <<waits, sent, out, wire, rfds, handled>>

\* What the handler of a message leaves in receiverCtx: CloseFdArgs after a
\* fork, ProcessObserveProcessSignalMsg after taking the descriptor.
FdsAfter(kind) == IF kind \in {"spawn", "observe"} THEN 0 ELSE rfds

\* Mistake: the timer outlives its message.
TimerAfterCompleteRuns == timer

\* receiverCtx.timer is stopped when its message is complete.
TimerAfterComplete == FALSE

\* ProcessRecvMsg, then the next iteration if anything is left.
ProcessRecvMsg ==
  /\ Completes({"spawn", "refused", "observe", "other"})
  /\ handled' = Append(handled, [msg |-> Current, fds |-> rfds])
  /\ rfds' = FdsAfter(sent[Current].kind)
  /\ node' = <<>> /\ buf' = Reminder /\ timer' = TimerAfterComplete
  /\ UNCHANGED <<waits, sent, out, wire, open>>

OnReceiveRequest == Incomplete \/ BadHeader \/ BadTlv \/ Denied \/ ProcessRecvMsg

\* The message stayed incomplete for MAX_WAIT_MSG_COMPLETE.
WaitMsgCompleteTimeOut ==
  /\ open /\ buf = <<>> /\ timer
  /\ OnClose
  /\ UNCHANGED <<waits, sent, out, wire, rfds, handled>>

\* OnDisConnect: the client is gone.
OnDisConnect ==
  /\ open /\ buf = <<>>
  /\ OnClose
  /\ UNCHANGED <<waits, sent, out, wire, rfds, handled>>

Next ==
  \/ SendMsg \/ WriteMessage \/ HandleRecvMessage
  \/ Incomplete \/ BadHeader \/ BadTlv \/ Denied \/ ProcessRecvMsg
  \/ WaitMsgCompleteTimeOut \/ OnDisConnect

Spec == Init /\ [][Next]_vars

\* The event loop polls the socket, finishes its handlers and fires its
\* timers; the client owes nothing.
FairSpec ==
  /\ Spec
  /\ WF_vars(HandleRecvMessage)
  /\ WF_vars(OnReceiveRequest)
  /\ WF_vars(WaitMsgCompleteTimeOut)
-----------------------------------------------------------------------------
\* What each variable may hold.
TypeOK ==
  /\ sent \in Seq(Message)
  /\ \A s \in {out, wire, buf, node} :
       s \in Seq((1..Len(sent)) \X (Nat \ {0}))
  /\ waits \in BOOLEAN /\ timer \in BOOLEAN /\ open \in BOOLEAN
  /\ rfds \in 0..Len(sent)
  /\ handled \in Seq([msg : 1..Len(sent), fds : 0..Len(sent)])

\* The cells between the socket's two ends, and the one the client writes next
\* after a cell.
pending == node \o buf \o wire \o out
Size(m) == Header + sent[m].body
NextCell(cell) ==
  IF cell[2] < Size(cell[1]) THEN <<cell[1], cell[2] + 1>> ELSE <<cell[1] + 1, 1>>

\* The case left out below: a client that does not wait for its answers and
\* sends a message without a body, behind which the rest of a read is lost.
Delivers == open /\ (waits \/ \A i \in 1..Len(sent) : sent[i].body > 0)

\* As long as the connection is open the handled messages are the first ones
\* sent, in order, and every cell after them is still on its way: however the
\* stream is cut into reads, no byte is lost, repeated or given to another
\* message (reminder and msgRecvLen in OnReceiveRequest).
NothingDropped ==
  Delivers =>
    /\ \A i \in 1..Len(handled) : handled[i].msg = i
    /\ IF pending = <<>> THEN Len(handled) = Len(sent)
       ELSE /\ pending[1] = <<Len(handled) + 1, 1>>
            /\ NextCell(pending[Len(pending)]) = <<Len(sent) + 1, 1>>
    /\ \A i \in 1..Len(pending) - 1 : pending[i + 1] = NextCell(pending[i])

\* Between two reads the timer of receiverCtx runs exactly when a message is
\* incomplete: half a message cannot stay for ever and an idle connection is
\* never closed.
TimerGuardsIncomplete ==
  open /\ buf = <<>> => (timer <=> node # <<>>)

\* A message that was sent with descriptors is handled with them, and not with
\* what an earlier message left in receiverCtx: SetFdEnv and
\* AppSpawnReqMsgFdGet read receiverCtx.fds long after recvmsg.  It needs a
\* client that waits for its answers, as the client library does.
FdsReachTheirMessage ==
  waits => \A i \in 1..Len(handled) :
    sent[handled[i].msg].fds => handled[i].fds = handled[i].msg

\* A client that stops in the middle of a message does not hold the service's
\* buffer: WaitMsgCompleteTimeOut ends it.
HalfMessageEnds == [](node # <<>> => <>(node = <<>>))
=============================================================================
