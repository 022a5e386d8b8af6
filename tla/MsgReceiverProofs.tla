-------------------------- MODULE MsgReceiverProofs --------------------------
(***************************************************************************)
(* Proofs about MsgReceiver, for headers and bodies of every length, every *)
(* number of messages and every way to cut the stream into writes and      *)
(* reads.                                                                  *)
(***************************************************************************)
EXTENDS MsgReceiver, Integers, SequenceTheorems, TLAPS

(***************************************************************************)
(* Sequences.                                                              *)
(***************************************************************************)
\* A sequence cut in two.
LEMMA Cut ==
  ASSUME NEW S, NEW s \in Seq(S), NEW k \in 1 .. Len(s)
  PROVE  /\ SubSeq(s, 1, k) \in Seq(S) /\ Len(SubSeq(s, 1, k)) = k
         /\ SubSeq(s, k + 1, Len(s)) \in Seq(S)
         /\ \A i \in 1 .. k : SubSeq(s, 1, k)[i] = s[i]
         /\ SubSeq(s, 1, k) \o SubSeq(s, k + 1, Len(s)) = s
<1>1. Len(s) \in Nat /\ \A i \in 1 .. Len(s) : s[i] \in S
  BY LenProperties, ElementOfSeq
<1>2. /\ SubSeq(s, 1, k) \in Seq(S)
      /\ Len(SubSeq(s, 1, k)) = IF 1 <= k THEN k - 1 + 1 ELSE 0
      /\ \A i \in 1 .. k - 1 + 1 : SubSeq(s, 1, k)[i] = s[1 + i - 1]
  <2>1. \A i \in 1 .. k : s[i] \in S
    BY <1>1
  <2>2. 1 \in Int /\ k \in Int
    BY <1>1
  <2>3. QED
    BY <2>1, <2>2, SubSeqProperties
<1>3. SubSeq(s, k + 1, Len(s)) \in Seq(S)
  <2>1. \A i \in k + 1 .. Len(s) : s[i] \in S
    BY <1>1
  <2>2. k + 1 \in Int /\ Len(s) \in Int
    BY <1>1
  <2>3. QED
    BY <2>1, <2>2, SubSeqProperties
<1>4. SubSeq(s, 1, k) \o SubSeq(s, k + 1, Len(s)) = s
  <2>1. 1 \in 1 .. Len(s) + 1 /\ k \in 1 - 1 .. Len(s) /\ Len(s) \in k .. Len(s)
    BY <1>1
  <2>2. SubSeq(s, 1, k) \o SubSeq(s, k + 1, Len(s)) = SubSeq(s, 1, Len(s))
    BY <2>1, ConcatAdjacentSubSeq
  <2>3. QED
    BY <2>2, SubSeqFull
<1>5. \A i \in 1 .. k : SubSeq(s, 1, k)[i] = s[i]
  BY <1>1, <1>2
<1>6. QED
  BY <1>1, <1>2, <1>3, <1>4, <1>5

\* A message has a body of some length.
LEMMA BodyType == \A msg \in Message : msg.body \in Nat
<1> SUFFICES ASSUME NEW msg \in Message PROVE msg.body \in Nat
  OBVIOUS
<1>1. msg.body \in Body
  BY DEF Message
<1>2. QED
  BY <1>1, ReceiverAssumption

(***************************************************************************)
(* Types.                                                                  *)
(***************************************************************************)
\* A connection starts empty.
LEMMA TypeInit == Init => TypeOK
<1> SUFFICES ASSUME Init PROVE TypeOK
  OBVIOUS
<1>1. \A S : <<>> \in Seq(S)
  BY EmptySeq
<1>2. Len(sent) = 0
  BY EmptySeq DEF Init
<1>3. \A s \in {out, wire, buf, node} : s \in Seq((1..Len(sent)) \X (Nat \ {0}))
  BY <1>1 DEF Init
<1>4. rfds \in 0..Len(sent)
  BY <1>2 DEF Init
<1>5. sent \in Seq(Message) /\ handled \in Seq([msg : 1..Len(sent), fds : 0..Len(sent)])
  BY <1>1 DEF Init
<1>6. QED
  BY <1>3, <1>4, <1>5 DEF Init, TypeOK

\* The cell the first iteration starts with belongs to a message that was sent.
LEMMA GotType ==
  ASSUME TypeOK
  PROVE  /\ got \in Seq((1..Len(sent)) \X (Nat \ {0})) /\ Len(got) = Len(node) + Len(buf)
         /\ Len(got) > 0 => Current \in 1..Len(sent)
<1> DEFINE S == (1..Len(sent)) \X (Nat \ {0})
<1>1. node \in Seq(S) /\ buf \in Seq(S)
  BY DEF TypeOK
<1> HIDE DEF S
<1>2. got \in Seq(S) /\ Len(got) = Len(node) + Len(buf)
  BY <1>1, ConcatProperties DEF got
<1>3. Len(got) > 0 => got[1] \in S
  BY <1>2, LenProperties, ElementOfSeq
<1>4. QED
  BY <1>2, <1>3 DEF S, Current

\* A complete message was sent, and is as long as its header says.
LEMMA CompleteType ==
  ASSUME TypeOK, NEW kinds, Completes(kinds)
  PROVE  /\ Len(got) \in Nat /\ MsgLen \in Nat /\ MsgLen >= Header
         /\ Len(got) >= MsgLen /\ Current \in 1..Len(sent)
<1>1. Len(got) \in Nat
  BY GotType, LenProperties
<1>2. Len(got) >= Header /\ Len(got) >= MsgLen
  BY DEF Completes, HeaderOk
<1>3. Current \in 1..Len(sent)
  BY <1>1, <1>2, GotType, ReceiverAssumption
<1>4. sent[Current] \in Message
  BY <1>3, ElementOfSeq DEF TypeOK
<1>5. sent[Current].body \in Nat
  BY <1>4, BodyType
<1>6. QED
  BY <1>1, <1>2, <1>3, <1>5, ReceiverAssumption DEF MsgLen

\* No step of the client or of the loop breaks a type.
LEMMA TypeNext == TypeOK /\ [Next]_vars => TypeOK'
<1> SUFFICES ASSUME TypeOK, [Next]_vars PROVE TypeOK'
  OBVIOUS
<1> DEFINE S == (1..Len(sent)) \X (Nat \ {0})
<1>a. out \in Seq(S) /\ wire \in Seq(S) /\ buf \in Seq(S) /\ node \in Seq(S)
  BY DEF TypeOK
<1>b. <<>> \in Seq(S)
  BY EmptySeq
<1>1. CASE SendMsg
  <2>1. PICK msg \in Message : sent' = Append(sent, msg) /\ out' = Cells(Len(sent) + 1, msg.body)
    BY <1>1 DEF SendMsg
  <2>2. sent' \in Seq(Message) /\ Len(sent') = Len(sent) + 1 /\ Len(sent) \in Nat
    BY <2>1, AppendProperties, LenProperties DEF TypeOK
  <2> DEFINE T == (1..Len(sent')) \X (Nat \ {0})
  <2>3. S \subseteq T
    BY <2>2
  <2>4. out' \in Seq(T)
    <3>1. Header + msg.body \in Nat
      BY BodyType, ReceiverAssumption
    <3>2. out' \in [1..(Header + msg.body) -> T]
      BY <2>1, <2>2, <3>1 DEF Cells
    <3> HIDE DEF T
    <3>3. QED
      BY <3>1, <3>2, SeqDef
  <2> HIDE DEF S, T
  <2>5. wire' \in Seq(T) /\ buf' \in Seq(T) /\ node' \in Seq(T)
    BY <1>1, <1>a, <2>3, SeqMonotonic DEF SendMsg
  <2>6. rfds' \in 0..Len(sent')
    BY <1>1, <2>2 DEF SendMsg, TypeOK
  <2>7. handled' \in Seq([msg : 1..Len(sent'), fds : 0..Len(sent')])
    <3>1. [msg : 1..Len(sent), fds : 0..Len(sent)] \subseteq [msg : 1..Len(sent'), fds : 0..Len(sent')]
      BY <2>2
    <3>2. QED
      BY <1>1, <3>1, SeqMonotonic DEF SendMsg, TypeOK
  <2>8. QED
    BY <1>1, <2>2, <2>4, <2>5, <2>6, <2>7 DEF SendMsg, TypeOK, T
<1>2. CASE WriteMessage
  <2>1. PICK k \in 1..Len(out) : /\ wire' = wire \o SubSeq(out, 1, k)
                                 /\ out' = SubSeq(out, k + 1, Len(out))
    BY <1>2 DEF WriteMessage
  <2> HIDE DEF S
  <2>2. wire' \in Seq(S) /\ out' \in Seq(S)
    BY <1>a, <2>1, Cut, ConcatProperties
  <2>3. QED
    BY <1>2, <1>a, <2>2 DEF WriteMessage, TypeOK, S
<1>3. CASE HandleRecvMessage
  <2>1. PICK k \in 1..Len(wire) : /\ buf' = SubSeq(wire, 1, k)
                                  /\ wire' = SubSeq(wire, k + 1, Len(wire))
                                  /\ rfds' = FdsAfterRecv(k)
    BY <1>3 DEF HandleRecvMessage
  <2>2. buf' \in Seq(S) /\ wire' \in Seq(S)
    <3> HIDE DEF S
    <3>1. QED
      BY <1>a, <2>1, Cut
  <2>3. \A i \in 1..k : wire[i][1] \in 1..Len(sent)
    <3>1. \A i \in 1..k : wire[i] \in S
      <4> HIDE DEF S
      <4>1. QED
        BY <1>a, <2>1, ElementOfSeq, LenProperties
    <3>2. QED
      BY <3>1
  <2>4. rfds' \in 0..Len(sent)
    <3>1. CASE \E i \in 1..k : CarriesFds(wire[i])
      <4>1. PICK c : c = CHOOSE i \in 1..k : CarriesFds(wire[i])
        OBVIOUS
      <4>2. c \in 1..k
        BY <3>1, <4>1
      <4>3. rfds' = wire[c][1]
        BY <2>1, <3>1, <4>1 DEF FdsAfterRecv
      <4>4. QED
        BY <2>3, <4>2, <4>3
    <3>2. CASE ~\E i \in 1..k : CarriesFds(wire[i])
      BY <2>1, <3>2 DEF FdsAfterRecv, TypeOK
    <3>3. QED
      BY <3>1, <3>2
  <2>5. QED
    BY <1>3, <1>a, <2>2, <2>4 DEF HandleRecvMessage, TypeOK
<1>4. CASE Incomplete
  BY <1>4, <1>a, <1>b, GotType DEF Incomplete, OnClose, TypeOK, TimerForIncomplete
<1>5. CASE BadHeader \/ BadTlv \/ Denied \/ WaitMsgCompleteTimeOut \/ OnDisConnect
  BY <1>5, <1>a, <1>b DEF BadHeader, BadTlv, Denied, WaitMsgCompleteTimeOut, OnDisConnect, OnClose, TypeOK
<1>6. CASE ProcessRecvMsg
  <2>1. /\ Len(got) \in Nat /\ MsgLen \in Nat /\ MsgLen >= Header
        /\ Len(got) >= MsgLen /\ Current \in 1..Len(sent)
    BY <1>6, CompleteType DEF ProcessRecvMsg
  <2>2. Reminder \in Seq(S)
    <3>1. \A i \in MsgLen + 1 .. Len(got) : got[i] \in S
      BY <2>1, GotType, ElementOfSeq
    <3> HIDE DEF S
    <3>2. SubSeq(got, MsgLen + 1, Len(got)) \in Seq(S)
      BY <2>1, <3>1, SubSeqProperties
    <3>3. QED
      BY <1>b, <3>2 DEF Reminder
  <2>3. [msg |-> Current, fds |-> rfds] \in [msg : 1..Len(sent), fds : 0..Len(sent)]
    BY <2>1 DEF TypeOK
  <2>4. handled' \in Seq([msg : 1..Len(sent), fds : 0..Len(sent)])
    BY <1>6, <2>3, AppendProperties DEF ProcessRecvMsg, TypeOK
  <2>5. rfds' \in 0..Len(sent)
    BY <1>6, LenProperties DEF ProcessRecvMsg, FdsAfter, TypeOK
  <2>6. QED
    BY <1>6, <1>a, <1>b, <2>2, <2>4, <2>5 DEF ProcessRecvMsg, TypeOK, TimerAfterComplete
<1>7. CASE UNCHANGED vars
  BY <1>7 DEF vars, TypeOK
<1>8. QED
  BY <1>1, <1>2, <1>3, <1>4, <1>5, <1>6, <1>7 DEF Next

\* Every variable of the receiver model always has its type.
THEOREM ReceiverTypeCorrect == Spec => []TypeOK
  BY TypeInit, TypeNext, PTL DEF Spec

(***************************************************************************)
(* The timer.  While a handler runs (buf # <<>>) the timer is still that   *)
(* of the message kept from earlier reads, so the invariant does not need  *)
(* the handler to have ended.                                              *)
(***************************************************************************)
TimerInv == open => (timer <=> node # <<>>)

\* No message, no timer.
LEMMA TimerInit == Init => TimerInv
  BY DEF Init, TimerInv

\* The iteration that keeps a message starts its timer, the one that completes it stops it.
LEMMA TimerNext == TypeOK /\ TimerInv /\ [Next]_vars => TimerInv'
<1> SUFFICES ASSUME TypeOK, TimerInv, [Next]_vars PROVE TimerInv'
  OBVIOUS
<1>1. CASE Incomplete
  <2>1. buf # <<>> => Len(got) > 0
    BY GotType, EmptySeq, LenProperties DEF TypeOK
  <2>2. buf # <<>> => got # <<>>
    BY <2>1, EmptySeq
  <2>3. QED
    BY <1>1, <2>2 DEF Incomplete, OnClose, TimerInv, TimerForIncomplete
<1>2. CASE ProcessRecvMsg
  BY <1>2 DEF ProcessRecvMsg, TimerInv, TimerAfterComplete
<1>3. CASE SendMsg \/ WriteMessage \/ HandleRecvMessage
  BY <1>3 DEF SendMsg, WriteMessage, HandleRecvMessage, TimerInv
<1>4. CASE BadHeader \/ BadTlv \/ Denied \/ WaitMsgCompleteTimeOut \/ OnDisConnect
  BY <1>4 DEF BadHeader, BadTlv, Denied, WaitMsgCompleteTimeOut, OnDisConnect, OnClose, TimerInv
<1>5. CASE UNCHANGED vars
  BY <1>5 DEF vars, TimerInv
<1>6. QED
  BY <1>1, <1>2, <1>3, <1>4, <1>5 DEF Next

\* Between two reads the timer runs exactly when a message is incomplete.
THEOREM TimerRunsWhileIncomplete == Spec => []TimerGuardsIncomplete
<1>1. TimerInv => TimerGuardsIncomplete
  BY DEF TimerInv, TimerGuardsIncomplete
<1>2. QED
  BY TypeInit, TypeNext, TimerInit, TimerNext, <1>1, PTL DEF Spec

(***************************************************************************)
(* The stream: l cells, cell i being unit J[i] of message M[i], and        *)
(* message m having size[m] units.  That each cell is followed by the next *)
(* one would need an induction over the cells to tell where the first      *)
(* message ends, so the invariant says of every cell where its message     *)
(* ends, that it is contiguous up to there, and what comes after it.       *)
(***************************************************************************)
\* The last cell of the message that cell i belongs to.
MsgEnd(M, J, i, size) == i + size[M[i]] - J[i]
\* What cell i says of the cells behind it.
Run(M, J, l, n, size, i) ==
       /\ M[i] \in 1..n /\ J[i] \in 1..size[M[i]]
       /\ MsgEnd(M, J, i, size) <= l
       /\ \A k \in i..MsgEnd(M, J, i, size) : M[k] = M[i] /\ J[k] = J[i] + (k - i)
       /\ MsgEnd(M, J, i, size) < l =>
            M[MsgEnd(M, J, i, size) + 1] = M[i] + 1 /\ J[MsgEnd(M, J, i, size) + 1] = 1
\* The stream holds messages h + 1 .. n, complete and in order.
InOrder(M, J, l, h, n, size) ==
  /\ l \in Nat /\ h \in Nat /\ n \in Nat /\ M \in [1..l -> Nat] /\ J \in [1..l -> Nat]
  /\ size \in [1..n -> Nat \ {0}]
  /\ l = 0 => h = n
  /\ l > 0 => /\ M[1] = h + 1 /\ J[1] = 1
              /\ M[l] = n /\ J[l] = size[n]
  /\ \A i \in 1..l : Run(M, J, l, n, size, i)

\* The stream (M2, J2) of l2 cells is (M, J) without its first d cells.
Dropped(M, J, l, d, M2, J2, l2) ==
  /\ l2 \in Nat /\ l2 = l - d /\ M2 \in [1..l2 -> Nat] /\ J2 \in [1..l2 -> Nat]
  /\ \A i \in 1..l2 : M2[i] = M[i + d] /\ J2[i] = J[i + d]

\* It is (M, J) with message n2 behind it.
Extended(M, J, l, n, size, M2, J2, l2, n2, size2) ==
  /\ n2 = n + 1 /\ size2 \in [1..n2 -> Nat \ {0}]
  /\ \A m \in 1..n : size2[m] = size[m]
  /\ l2 \in Nat /\ l2 = l + size2[n2] /\ M2 \in [1..l2 -> Nat] /\ J2 \in [1..l2 -> Nat]
  /\ \A i \in 1..l : M2[i] = M[i] /\ J2[i] = J[i]
  /\ \A i \in l + 1 .. l2 : M2[i] = n2 /\ J2[i] = i - l

\* Where the first message lies, and what comes behind it.
LEMMA FirstMessage ==
  ASSUME NEW M, NEW J, NEW l, NEW h, NEW n, NEW size, InOrder(M, J, l, h, n, size), l > 0
  PROVE  /\ h + 1 \in 1..n /\ size[h + 1] \in Nat \ {0} /\ size[h + 1] <= l
         /\ \A k \in 1..size[h + 1] : M[k] = h + 1 /\ J[k] = k
         /\ size[h + 1] < l => M[size[h + 1] + 1] = h + 2 /\ J[size[h + 1] + 1] = 1
<1>1. 1 \in 1..l
  BY DEF InOrder
<1>2. M[1] = h + 1 /\ J[1] = 1 /\ h + 1 \in 1..n
  BY <1>1 DEF InOrder, Run
<1>3. size[h + 1] \in Nat \ {0} /\ MsgEnd(M, J, 1, size) = size[h + 1]
  BY <1>2 DEF MsgEnd, InOrder
<1>4. QED
  BY <1>1, <1>2, <1>3 DEF InOrder, Run

\* The message of a cell ends inside the stream.
LEMMA RunEnd ==
  ASSUME NEW M, NEW J, NEW l, NEW h, NEW n, NEW size, InOrder(M, J, l, h, n, size), NEW i \in 1..l
  PROVE  /\ M[i] \in 1..n /\ J[i] \in Nat /\ size[M[i]] \in Nat /\ J[i] \in 1..size[M[i]]
         /\ MsgEnd(M, J, i, size) \in i..l
<1>1. M[i] \in 1..n /\ J[i] \in Nat /\ J[i] \in 1..size[M[i]] /\ MsgEnd(M, J, i, size) <= l
  BY DEF InOrder, Run
<1>2. size[M[i]] \in Nat
  BY <1>1 DEF InOrder
<1>3. QED
  BY <1>1, <1>2 DEF MsgEnd, InOrder

\* The stream without its first message is in order.
LEMMA DropFirst ==
  ASSUME NEW M, NEW J, NEW l, NEW h, NEW n, NEW size, InOrder(M, J, l, h, n, size), l > 0,
         NEW M2, NEW J2, NEW l2, Dropped(M, J, l, size[h + 1], M2, J2, l2)
  PROVE  InOrder(M2, J2, l2, h + 1, n, size)
<1>u. /\ l2 \in Nat /\ l2 = l - size[h + 1] /\ M2 \in [1..l2 -> Nat] /\ J2 \in [1..l2 -> Nat]
      /\ \A i \in 1..l2 : M2[i] = M[i + size[h + 1]] /\ J2[i] = J[i + size[h + 1]]
  BY DEF Dropped
<1>f. /\ h + 1 \in 1..n /\ size[h + 1] \in Nat \ {0} /\ size[h + 1] <= l
      /\ size[h + 1] < l => M[size[h + 1] + 1] = h + 2 /\ J[size[h + 1] + 1] = 1
  BY FirstMessage
<1>0. PICK d \in Nat \ {0} : d = size[h + 1]
  BY <1>f
<1>1. /\ d <= l /\ h + 1 \in 1..n
      /\ d < l => M[d + 1] = h + 2 /\ J[d + 1] = 1
  BY <1>0, <1>f
<1>t. l \in Nat /\ h \in Nat /\ n \in Nat
  BY DEF InOrder
<1>b. l2 \in Nat /\ l2 = l - d /\ M2 \in [1..l2 -> Nat] /\ J2 \in [1..l2 -> Nat]
  BY <1>0, <1>u
<1>a. l2 = l - d /\ \A i \in 1..l2 : i + d \in 1..l /\ M2[i] = M[i + d] /\ J2[i] = J[i + d]
  BY <1>0, <1>1, <1>b, <1>t, <1>u
<1>2. l2 = 0 => h + 1 = n
  <2>1. l2 = 0 => M[l] = h + 1
    BY FirstMessage, <1>0, <1>1, <1>t, <1>b
  <2>2. QED BY <2>1, <1>t DEF InOrder
<1>3. l2 > 0 => /\ M2[1] = h + 2 /\ J2[1] = 1
                    /\ M2[l2] = n /\ J2[l2] = size[n]
  <2>1. l2 > 0 => d < l /\ l > 0 /\ 1 \in 1..l2 /\ l2 \in 1..l2 /\ 1 + d = d + 1 /\ l2 + d = l
    BY <1>t, <1>b
  <2>2. l2 > 0 => M2[1] = M[d + 1] /\ J2[1] = J[d + 1] /\ M2[l2] = M[l] /\ J2[l2] = J[l]
    BY <1>a, <2>1
  <2>3. l > 0 => M[l] = n /\ J[l] = size[n]
    BY DEF InOrder
  <2>4. QED
    BY <1>1, <2>1, <2>2, <2>3
<1>4. ASSUME NEW i \in 1..l2
      PROVE  Run(M2, J2, l2, n, size, i)
  <2>1. i + d \in 1..l
    BY <1>1, <1>a
  <2>2. PICK e : e = MsgEnd(M, J, i + d, size)
    OBVIOUS
  <2>3. /\ M2[i] \in 1..n /\ J2[i] \in 1..size[M2[i]] /\ size[M2[i]] \in Nat
        /\ e \in i + d .. l
    <3>1. /\ M[i + d] \in 1..n /\ size[M[i + d]] \in Nat /\ J[i + d] \in 1..size[M[i + d]]
          /\ MsgEnd(M, J, i + d, size) \in i + d .. l
      BY <2>1, RunEnd
    <3>2. M2[i] = M[i + d] /\ J2[i] = J[i + d]
      BY <1>a
    <3>3. QED
      BY <2>2, <3>1, <3>2
  <2>9. /\ \A k \in i + d .. e : M[k] = M2[i] /\ J[k] = J2[i] + (k - (i + d))
        /\ e < l => M[e + 1] = M2[i] + 1 /\ J[e + 1] = 1
    BY <1>a, <2>1, <2>2 DEF InOrder, Run
  <2>4. MsgEnd(M2, J2, i, size) = e - d
    BY <1>a, <2>2, <2>3 DEF MsgEnd
  <2>5. \A k \in i .. e - d : k \in 1..l2 /\ k + d \in i + d .. e 
    BY <1>1, <1>b, <1>t, <2>3
  <2>6. \A k \in i .. e - d : M2[k] = M2[i] /\ J2[k] = J2[i] + (k - i)
    BY <1>a, <2>9, <2>5
  <2>7. e - d < l2 => (e - d) + 1 \in 1..l2 /\ ((e - d) + 1) + d = e + 1 /\ e < l
    BY <1>1, <1>b, <1>t, <2>3
  <2>8. e - d <= l2
    BY <1>b, <1>t, <2>3
  <2>10. e - d < l2 => M2[(e - d) + 1] = M2[i] + 1 /\ J2[(e - d) + 1] = 1
    BY <1>a, <2>9, <2>7
  <2>11. QED
    BY <2>3, <2>4, <2>6, <2>8, <2>10 DEF Run
<1>5. h + 1 \in Nat /\ h + 2 = (h + 1) + 1 /\ size \in [1..n -> Nat \ {0}]
  BY <1>t DEF InOrder
<1>6. QED
  BY <1>2, <1>3, <1>4, <1>5, <1>b, <1>t DEF InOrder

\* A stream of one message is that message.
LEMMA OneMessage ==
  ASSUME NEW M, NEW J, NEW l, NEW h, NEW n, NEW size, InOrder(M, J, l, h, n, size), l > 0,
         n <= h + 1
  PROVE  n = h + 1 /\ l = size[h + 1]
<1>1. l \in Nat /\ h \in Nat /\ n \in Nat
  BY DEF InOrder
<1>2. /\ h + 1 \in 1..n /\ size[h + 1] \in Nat \ {0} /\ size[h + 1] <= l
      /\ size[h + 1] < l => M[size[h + 1] + 1] = h + 2
  BY FirstMessage
<1>3. size[h + 1] < l => size[h + 1] + 1 \in 1..l
  BY <1>1, <1>2
<1>4. size[h + 1] < l => M[size[h + 1] + 1] \in 1..n
  BY <1>3, RunEnd
<1>5. QED
  BY <1>1, <1>2, <1>4

\* So is the stream with one more message behind it.
LEMMA AddLast ==
  ASSUME NEW M, NEW J, NEW l, NEW h, NEW n, NEW size, InOrder(M, J, l, h, n, size),
         NEW M2, NEW J2, NEW l2, NEW n2, NEW size2,
         Extended(M, J, l, n, size, M2, J2, l2, n2, size2)
  PROVE  InOrder(M2, J2, l2, h, n2, size2)
<1>u. /\ n2 = n + 1 /\ size2 \in [1..n2 -> Nat \ {0}]
      /\ \A m \in 1..n : size2[m] = size[m]
      /\ l2 \in Nat /\ l2 = l + size2[n2] /\ M2 \in [1..l2 -> Nat] /\ J2 \in [1..l2 -> Nat]
      /\ \A i \in 1..l : M2[i] = M[i] /\ J2[i] = J[i]
      /\ \A i \in l + 1 .. l2 : M2[i] = n2 /\ J2[i] = i - l
  BY DEF Extended
<1> USE <1>u
<1>t. l \in Nat /\ h \in Nat /\ n \in Nat
  BY DEF InOrder
<1>z. PICK z \in Nat \ {0} : z = size2[n2]
  BY <1>t
<1>1. l + 1 \in l + 1 .. l2 /\ l2 \in l + 1 .. l2 /\ l2 > 0 /\ (l + 1) - l = 1 /\ l2 - l = z
  BY <1>t, <1>z
<1>2. M2[l2] = n2 /\ J2[l2] = size2[n2] /\ M2[l + 1] = n2 /\ J2[l + 1] = 1
  BY <1>1, <1>z
<1>3. M2[1] = h + 1 /\ J2[1] = 1
  <2>1. CASE l = 0
    <3>1. h = n
      BY <2>1 DEF InOrder
    <3>2. l + 1 = 1
      BY <2>1
    <3>3. QED
      BY <1>2, <3>1, <3>2
  <2>2. CASE l > 0
    <3>1. M[1] = h + 1 /\ J[1] = 1
      BY <2>2 DEF InOrder
    <3>2. 1 \in 1..l
      BY <1>t, <2>2
    <3>3. QED
      BY <3>1, <3>2
  <2>3. QED
    BY <1>t, <2>1, <2>2
<1>4. ASSUME NEW i \in 1..l2
      PROVE  Run(M2, J2, l2, n2, size2, i)
  <2>1. CASE i <= l
    <3>1. i \in 1..l /\ M2[i] = M[i] /\ J2[i] = J[i]
      BY <1>t, <2>1
    <3>2. PICK e : e = MsgEnd(M, J, i, size)
      OBVIOUS
    <3>3. /\ M[i] \in 1..n /\ J[i] \in 1..size[M[i]] /\ size[M[i]] \in Nat
          /\ e \in i .. l
      BY <3>1, <3>2, RunEnd
    <3>4. /\ \A k \in i .. e : M[k] = M[i] /\ J[k] = J[i] + (k - i)
          /\ e < l => M[e + 1] = M[i] + 1 /\ J[e + 1] = 1
      BY <3>1, <3>2 DEF InOrder, Run
    <3>5. MsgEnd(M2, J2, i, size2) = e
      BY <3>1, <3>2, <3>3 DEF MsgEnd
    <3>6. \A k \in i .. e : M2[k] = M2[i] /\ J2[k] = J2[i] + (k - i)
      <4>1. \A k \in i .. e : k \in 1..l
        BY <1>t, <3>1, <3>3
      <4>2. QED
        BY <3>1, <3>4, <4>1
    <3>7. M2[e + 1] = M2[i] + 1 /\ J2[e + 1] = 1
      <4>1. CASE e < l
        <5>1. e + 1 \in 1..l
          BY <1>t, <3>1, <3>3, <4>1
        <5>2. QED
          BY <3>1, <3>4, <4>1, <5>1
      <4>2. CASE e = l
        <5>1. M[l] = n
          BY <1>t, <3>1 DEF InOrder
        <5>2. l \in i .. e
          BY <1>t, <3>1, <4>2
        <5>3. M[l] = M[i]
          BY <3>4, <5>2
        <5>4. QED
          BY <1>2, <3>1, <4>2, <5>1, <5>3
      <4>3. QED
        BY <1>t, <3>1, <3>3, <4>1, <4>2
    <3>8. M2[i] \in 1..n2 /\ size2[M2[i]] = size[M[i]] /\ e <= l2
      BY <1>t, <3>1, <3>3
    <3>9. QED
      BY <3>1, <3>3, <3>5, <3>6, <3>7, <3>8 DEF Run
  <2>2. CASE i > l
    <3>1. \A k \in i .. l2 : k \in l + 1 .. l2 /\ k - l \in 1..z
      BY <1>t, <1>z, <2>2
    <3>2. i \in i .. l2
      OBVIOUS
    <3>3. M2[i] = n2 /\ J2[i] = i - l /\ i - l \in 1..z
      BY <3>1, <3>2
    <3>4. MsgEnd(M2, J2, i, size2) = l2
      BY <1>t, <1>z, <3>3 DEF MsgEnd
    <3>5. \A k \in i .. l2 : M2[k] = M2[i] /\ J2[k] = J2[i] + (k - i)
      <4>1. \A k \in i .. l2 : M2[k] = n2 /\ J2[k] = k - l
        BY <3>1
      <4>2. \A k \in i .. l2 : k - l = (i - l) + (k - i)
        BY <1>t
      <4>3. QED
        BY <3>3, <4>1, <4>2
    <3>6. QED
      BY <1>t, <1>z, <3>3, <3>4, <3>5 DEF Run
  <2>3. QED
    BY <1>t, <2>1, <2>2
<1>5. n2 \in Nat /\ ~(l2 = 0)
  BY <1>t, <1>1
<1>6. QED
  BY <1>2, <1>3, <1>4, <1>5, <1>t DEF InOrder

(***************************************************************************)
(* NothingDropped.                                                         *)
(***************************************************************************)
Cell == (1..Len(sent)) \X (Nat \ {0})
Messages(P) == [i \in 1..Len(P) |-> P[i][1]]
Units(P) == [i \in 1..Len(P) |-> P[i][2]]
Sizes == [m \in 1..Len(sent) |-> Size(m)]

\* The handled messages are the first ones, what is on its way are the others,
\* and a client that waits is at most one message ahead.
StreamInv ==
  Delivers =>
    /\ \A i \in 1..Len(handled) : handled[i].msg = i
    /\ waits => Len(sent) <= Len(handled) + 1
    /\ InOrder(Messages(pending), Units(pending), Len(pending), Len(handled), Len(sent), Sizes)

\* The two projections of a stream of cells.
LEMMA Projections ==
  ASSUME NEW n \in Nat, NEW P \in Seq((1..n) \X (Nat \ {0}))
  PROVE  /\ Len(P) \in Nat
         /\ Messages(P) \in [1..Len(P) -> Nat] /\ Units(P) \in [1..Len(P) -> Nat]
         /\ \A i \in 1..Len(P) : /\ Messages(P)[i] = P[i][1] /\ Units(P)[i] = P[i][2]
                                 /\ P[i] = <<Messages(P)[i], Units(P)[i]>>
<1> DEFINE S == (1..n) \X (Nat \ {0})
<1>1. Len(P) \in Nat /\ \A i \in 1..Len(P) : P[i] \in S
  <2> HIDE DEF S
  <2>1. P \in Seq(S)
    BY DEF S
  <2>2. QED
    BY <2>1, LenProperties, ElementOfSeq
<1>2. \A i \in 1..Len(P) : P[i][1] \in Nat /\ P[i][2] \in Nat /\ P[i] = <<P[i][1], P[i][2]>>
  BY <1>1
<1>3. QED
  BY <1>1, <1>2 DEF Messages, Units

\* The stream is the iteration's cells, those of the socket and those to be written.
LEMMA PendingType ==
  ASSUME TypeOK
  PROVE  /\ pending \in Seq(Cell) /\ Len(sent) \in Nat /\ Len(handled) \in Nat
         /\ pending = got \o (wire \o out)
         /\ Len(pending) = Len(got) + Len(wire \o out)
         /\ Len(got) \in Nat /\ Len(wire \o out) \in Nat
         /\ \A i \in 1..Len(got) : pending[i] = got[i]
         /\ \A i \in 1..Len(wire \o out) : pending[Len(got) + i] = (wire \o out)[i]
<1>1. out \in Seq(Cell) /\ wire \in Seq(Cell) /\ buf \in Seq(Cell) /\ node \in Seq(Cell)
  BY DEF TypeOK, Cell
<1>2. Len(sent) \in Nat /\ Len(handled) \in Nat
  BY LenProperties DEF TypeOK
<1>3. got \in Seq(Cell) /\ wire \o out \in Seq(Cell)
  BY <1>1, ConcatProperties DEF got
<1>4. pending = got \o (wire \o out)
  BY <1>1, <1>3, ConcatAssociative DEF pending, got
<1>5. Len(got) \in Nat /\ Len(wire \o out) \in Nat
  BY <1>3, LenProperties
<1>6. QED
  <2> DEFINE w == wire \o out
  <2>1. w \in Seq(Cell) /\ Len(w) \in Nat
    BY <1>3, <1>5
  <2> HIDE DEF w
  <2>2. /\ got \o w \in Seq(Cell) /\ Len(got \o w) = Len(got) + Len(w)
        /\ \A i \in 1 .. Len(got) + Len(w) :
             (got \o w)[i] = IF i <= Len(got) THEN got[i] ELSE w[i - Len(got)]
    BY <1>3, <2>1, ConcatProperties
  <2>3. \A i \in 1..Len(got) : (got \o w)[i] = got[i]
    BY <1>5, <2>1, <2>2
  <2>4. \A i \in 1..Len(w) : Len(got) + i \in 1 .. Len(got) + Len(w) /\ ~(Len(got) + i <= Len(got)) /\ (Len(got) + i) - Len(got) = i
    BY <1>5, <2>1
  <2>5. \A i \in 1..Len(w) : (got \o w)[Len(got) + i] = w[i]
    BY <2>2, <2>4
  <2>6. QED
    BY <1>2, <1>4, <1>5, <2>1, <2>2, <2>3, <2>5 DEF w

\* A message has a header, so its size is positive.
LEMMA SizesType ==
  ASSUME NEW s \in Seq(Message)
  PROVE  \A m \in 1..Len(s) : Header + s[m].body \in Nat \ {0}
<1>1. \A m \in 1..Len(s) : s[m] \in Message
  BY ElementOfSeq
<1>2. QED
  BY <1>1, BodyType, ReceiverAssumption

\* A new connection.
LEMMA StreamInit == Init => StreamInv
<1> SUFFICES ASSUME Init PROVE StreamInv
  OBVIOUS
<1>1. TypeOK
  BY TypeInit
<1>2. Len(sent) = 0 /\ Len(handled) = 0 /\ Len(pending) = 0
  <2>1. \A S : <<>> \in Seq(S) /\ Len(<<>>) = 0
    BY EmptySeq
  <2>2. pending = <<>>
    BY <2>1, ConcatEmptySeq DEF Init, pending
  <2>3. QED
    BY <2>1, <2>2 DEF Init
<1>3. Messages(pending) \in [1..0 -> Nat] /\ Units(pending) \in [1..0 -> Nat]
  BY <1>2 DEF Messages, Units
<1>4. Sizes \in [1..0 -> Nat \ {0}]
  BY <1>2 DEF Sizes
<1>5. QED
  BY <1>2, <1>3, <1>4 DEF StreamInv, InOrder

\* A step that moves no cell out of the stream, and no message into it.
LEMMA StreamKept ==
  ASSUME StreamInv, pending' = pending, UNCHANGED <<waits, sent, handled>>, open' => open
  PROVE  StreamInv'
<1>1. Delivers' => Delivers
  BY DEF Delivers
<1>2. Sizes' = Sizes /\ Messages(pending)' = Messages(pending) /\ Units(pending)' = Units(pending)
  BY DEF Sizes, Size, Messages, Units
<1>3. Len(pending)' = Len(pending) /\ Len(sent)' = Len(sent) /\ Len(handled)' = Len(handled)
  OBVIOUS
<1>4. QED
  BY <1>1, <1>2, <1>3 DEF StreamInv

\* HandleMsgSend moves cells into the socket.
LEMMA StreamWrite == TypeOK /\ StreamInv /\ WriteMessage => StreamInv'
<1> SUFFICES ASSUME TypeOK, StreamInv, WriteMessage PROVE StreamInv'
  OBVIOUS
<1>1. out \in Seq(Cell) /\ wire \in Seq(Cell) /\ buf \in Seq(Cell) /\ node \in Seq(Cell)
  BY DEF TypeOK, Cell
<1>2. \E a, b \in Seq(Cell) : wire' = wire \o a /\ out' = b /\ a \o b = out
  <2>1. PICK k \in 1..Len(out) : /\ wire' = wire \o SubSeq(out, 1, k)
                                 /\ out' = SubSeq(out, k + 1, Len(out))
    BY DEF WriteMessage
  <2>2. /\ SubSeq(out, 1, k) \in Seq(Cell) /\ SubSeq(out, k + 1, Len(out)) \in Seq(Cell)
        /\ SubSeq(out, 1, k) \o SubSeq(out, k + 1, Len(out)) = out
    BY <1>1, Cut
  <2>3. QED
    BY <2>1, <2>2, Zenon
<1>3. PICK a \in Seq(Cell), b \in Seq(Cell) : wire' = wire \o a /\ out' = b /\ a \o b = out
  BY <1>2
<1>4. pending' = pending
  <2>1. PICK x \in Seq(Cell) : x = node \o buf
    BY <1>1, ConcatProperties
  <2>w. wire \in Seq(Cell)
    BY <1>1
  <2>2. (x \o (wire \o a)) \o b = (x \o wire) \o (a \o b)
    <3>1. (x \o wire) \o a = x \o (wire \o a)
      BY <2>w, ConcatAssociative
    <3>2. x \o wire \in Seq(Cell)
      BY <2>w, ConcatProperties
    <3>3. ((x \o wire) \o a) \o b = (x \o wire) \o (a \o b)
      BY <3>2, ConcatAssociative, SMTT(30)
    <3>4. QED
      BY <3>1, <3>3, Zenon
  <2>3. pending' = ((node \o buf) \o wire') \o out'
    BY DEF pending, WriteMessage
  <2>4. QED
    BY <1>3, <2>1, <2>2, <2>3, Zenon DEF pending
<1>5. QED
  BY <1>4, StreamKept DEF WriteMessage

\* The loop moves cells out of the socket.
LEMMA StreamRecv == TypeOK /\ StreamInv /\ HandleRecvMessage => StreamInv'
<1> SUFFICES ASSUME TypeOK, StreamInv, HandleRecvMessage PROVE StreamInv'
  OBVIOUS
<1>1. node \in Seq(Cell) /\ wire \in Seq(Cell)
  BY DEF TypeOK, Cell
<1>2. \E a, b \in Seq(Cell) : buf' = a /\ wire' = b /\ a \o b = wire
  <2>1. PICK k \in 1..Len(wire) : /\ buf' = SubSeq(wire, 1, k)
                                  /\ wire' = SubSeq(wire, k + 1, Len(wire))
    BY DEF HandleRecvMessage
  <2>2. /\ SubSeq(wire, 1, k) \in Seq(Cell) /\ SubSeq(wire, k + 1, Len(wire)) \in Seq(Cell)
        /\ SubSeq(wire, 1, k) \o SubSeq(wire, k + 1, Len(wire)) = wire
    BY <1>1, Cut
  <2>3. QED
    BY <2>1, <2>2, Zenon
<1>3. PICK a \in Seq(Cell), b \in Seq(Cell) : buf' = a /\ wire' = b /\ a \o b = wire
  BY <1>2
<1>4. pending' = pending
  <2>1. (node \o a) \o b = node \o (a \o b)
    BY <1>1, ConcatAssociative
  <2>2. node \o buf = node
    BY <1>1, ConcatEmptySeq DEF HandleRecvMessage
  <2>3. pending' = ((node \o buf') \o wire') \o out
    BY DEF pending, HandleRecvMessage
  <2>4. QED
    BY <1>3, <2>1, <2>2, <2>3, Zenon DEF pending
<1>5. QED
  BY <1>4, StreamKept DEF HandleRecvMessage

\* The read that ends inside a message moves its cells to the message.
LEMMA StreamIncomplete == TypeOK /\ StreamInv /\ Incomplete => StreamInv'
<1> SUFFICES ASSUME TypeOK, StreamInv, Incomplete PROVE StreamInv'
  OBVIOUS
<1>1. CASE ~open'
  BY <1>1 DEF StreamInv, Delivers
<1>2. CASE open'
  <2>1. node' = node \o buf /\ buf' = <<>> /\ UNCHANGED <<waits, sent, out, wire, handled>> /\ open
    BY <1>2 DEF Incomplete, OnClose, got
  <2>2. node \o buf \in Seq(Cell)
    BY ConcatProperties DEF TypeOK, Cell
  <2>3. (node \o buf) \o <<>> = node \o buf
    BY <2>2, ConcatEmptySeq
  <2>4. pending' = pending
    BY <2>1, <2>3 DEF pending
  <2>5. QED
    BY <2>1, <2>4, StreamKept
<1>3. QED
  BY <1>1, <1>2

\* A new message goes behind the others.
LEMMA StreamSend == TypeOK /\ StreamInv /\ SendMsg => StreamInv'
<1> SUFFICES ASSUME TypeOK, StreamInv, SendMsg, Delivers' PROVE StreamInv'
  BY DEF StreamInv
<1>1. PICK msg \in Message : sent' = Append(sent, msg) /\ out' = Cells(Len(sent) + 1, msg.body)
  BY DEF SendMsg
<1>2. /\ Len(sent) \in Nat /\ Len(sent') = Len(sent) + 1 /\ sent'[Len(sent) + 1] = msg
      /\ \A m \in 1..Len(sent) : sent'[m] = sent[m]
  BY <1>1, AppendProperties, LenProperties DEF TypeOK
<1>3. Delivers
  <2>1. open /\ waits' = waits
    BY DEF SendMsg
  <2>2. \A m \in 1..Len(sent) : m \in 1..Len(sent')
    BY <1>2
  <2>3. QED
    BY <1>2, <2>1, <2>2 DEF Delivers
<1>4. /\ \A i \in 1..Len(handled) : handled[i].msg = i
      /\ InOrder(Messages(pending), Units(pending), Len(pending), Len(handled), Len(sent), Sizes)
  BY <1>3 DEF StreamInv
<1>5. waits' => Len(sent') <= Len(handled') + 1
  BY <1>2 DEF SendMsg
<1>6. TypeOK'
  BY TypeNext DEF Next
<1> DEFINE z == Header + msg.body
           P == pending
           Q == pending'
<1>7. z \in Nat \ {0}
  BY BodyType, ReceiverAssumption
<1>8. /\ Sizes' \in [1..(Len(sent) + 1) -> Nat \ {0}]
      /\ Sizes'[Len(sent) + 1] = z /\ \A m \in 1..Len(sent) : Sizes'[m] = Sizes[m]
  <2>1. sent' \in Seq(Message)
    BY <1>6 DEF TypeOK
  <2>2. /\ Sizes' \in [1..Len(sent') -> Nat \ {0}]
        /\ \A m \in 1..Len(sent') : Sizes'[m] = Header + sent'[m].body
    BY <2>1, SizesType DEF Sizes, Size
  <2>3. \A m \in 1..Len(sent) : Sizes[m] = Header + sent[m].body
    BY DEF Sizes, Size
  <2>4. QED
    BY <1>2, <2>2, <2>3
<1>9. /\ P \in Seq(Cell) /\ Q \in Seq((1..(Len(sent) + 1)) \X (Nat \ {0}))
      /\ Q = P \o out'
  <2>1. P \in Seq(Cell)
    BY PendingType
  <2>2. Q \in Seq((1..(Len(sent) + 1)) \X (Nat \ {0}))
    <3> DEFINE T == (1..(Len(sent) + 1)) \X (Nat \ {0})
    <3>1. out' \in Seq(T) /\ wire' \in Seq(T) /\ buf' \in Seq(T) /\ node' \in Seq(T)
      BY <1>2, <1>6 DEF TypeOK
    <3> HIDE DEF T
    <3>2. node' \o buf' \in Seq(T)
      BY <3>1, ConcatProperties
    <3>3. node' \o buf' \o wire' \in Seq(T)
      BY <3>1, <3>2, ConcatProperties
    <3>4. QED
      BY <3>1, <3>3, ConcatProperties DEF pending, T
  <2>3. node \o buf \o wire \in Seq(Cell) /\ out = <<>>
    BY ConcatProperties DEF TypeOK, Cell, SendMsg
  <2>4. P = node \o buf \o wire
    BY <2>3, ConcatEmptySeq DEF pending
  <2>5. Q = (node \o buf \o wire) \o out'
    BY DEF pending, SendMsg
  <2>6. QED
    BY <2>1, <2>2, <2>4, <2>5
<1>10. /\ Len(P) \in Nat /\ Len(Q) = Len(P) + z
       /\ \A i \in 1..Len(P) : Q[i] = P[i]
       /\ \A i \in Len(P) + 1 .. Len(P) + z : Q[i] = <<Len(sent) + 1, i - Len(P)>>
  <2> DEFINE T == (1..(Len(sent) + 1)) \X (Nat \ {0})
  <2>1. out' \in [1..z -> T] /\ \A j \in 1..z : out'[j] = <<Len(sent) + 1, j>>
    BY <1>1, <1>2, <1>7 DEF Cells
  <2>2. Cell \subseteq T
    BY <1>2 DEF Cell
  <2> HIDE DEF T, P, Q, z
  <2>3. out' \in Seq(T) /\ Len(out') = z
    <3>1. out' \in Seq(T)
      BY <1>7, <2>1, SeqDef
    <3>2. Len(out') \in Nat /\ DOMAIN out' = 1..Len(out')
      BY <3>1, LenProperties
    <3>3. 1..Len(out') = 1..z
      BY <2>1, <3>2
    <3>4. \A p, q \in Nat : 1..p = 1..q => p = q
      OBVIOUS
    <3>5. QED
      BY <1>7, <3>1, <3>2, <3>3, <3>4
  <2>4. P \in Seq(T) /\ Len(P) \in Nat
    BY <1>9, <2>2, SeqMonotonic, LenProperties
  <2>5. /\ Len(Q) = Len(P) + z
        /\ \A i \in 1..Len(P) + z : Q[i] = IF i <= Len(P) THEN P[i] ELSE out'[i - Len(P)]
    BY <1>9, <2>3, <2>4, ConcatProperties
  <2>6. \A i \in 1..Len(P) : i \in 1..Len(P) + z /\ i <= Len(P)
    BY <1>7, <2>4
  <2>7. \A i \in Len(P) + 1 .. Len(P) + z : i \in 1..Len(P) + z /\ ~(i <= Len(P)) /\ i - Len(P) \in 1..z
    BY <1>7, <2>4
  <2>8. QED
    BY <2>1, <2>4, <2>5, <2>6, <2>7
<1>11. /\ Len(Q) \in Nat
       /\ Messages(Q) \in [1..Len(Q) -> Nat] /\ Units(Q) \in [1..Len(Q) -> Nat]
       /\ \A i \in 1..Len(P) : Messages(Q)[i] = Messages(P)[i] /\ Units(Q)[i] = Units(P)[i]
       /\ \A i \in Len(P) + 1 .. Len(Q) : Messages(Q)[i] = Len(sent) + 1 /\ Units(Q)[i] = i - Len(P)
  <2> HIDE DEF P, Q, z
  <2>0. Len(sent) + 1 \in Nat /\ Q \in Seq((1..(Len(sent) + 1)) \X (Nat \ {0}))
    BY <1>2, <1>9
  <2>1. /\ Len(Q) \in Nat
        /\ Messages(Q) \in [1..Len(Q) -> Nat] /\ Units(Q) \in [1..Len(Q) -> Nat]
        /\ \A i \in 1..Len(Q) : Messages(Q)[i] = Q[i][1] /\ Units(Q)[i] = Q[i][2]
    BY <2>0, Projections
  <2>2. \A i \in 1..Len(P) : Messages(P)[i] = P[i][1] /\ Units(P)[i] = P[i][2]
    BY <1>2, <1>9, Projections DEF Cell
  <2>3. /\ \A i \in 1..Len(P) : i \in 1..Len(Q)
        /\ \A i \in Len(P) + 1 .. Len(Q) : i \in 1..Len(Q)
    BY <1>7, <1>10
  <2>4. \A i \in Len(P) + 1 .. Len(Q) : Q[i][1] = Len(sent) + 1 /\ Q[i][2] = i - Len(P)
    BY <1>10
  <2>5. \A i \in 1..Len(P) : Q[i] = P[i]
    BY <1>10
  <2>6. QED
    BY <2>1, <2>2, <2>3, <2>4, <2>5, ZenonT(40)
<1>12. InOrder(Messages(Q), Units(Q), Len(Q), Len(handled), Len(sent) + 1, Sizes')
  <2> HIDE DEF P, Q, z
  <2>1. InOrder(Messages(P), Units(P), Len(P), Len(handled), Len(sent), Sizes)
    BY <1>4 DEF P
  <2>2. PICK n2 : n2 = Len(sent) + 1
    OBVIOUS
  <2>3. /\ Sizes' \in [1..n2 -> Nat \ {0}] /\ Sizes'[n2] = z
        /\ \A m \in 1..Len(sent) : Sizes'[m] = Sizes[m]
    BY <1>8, <2>2
  <2>4. Len(Q) = Len(P) + Sizes'[n2]
    BY <1>10, <2>3
  <2>5. Extended(Messages(P), Units(P), Len(P), Len(sent), Sizes,
                 Messages(Q), Units(Q), Len(Q), n2, Sizes')
    BY <1>11, <2>2, <2>3, <2>4 DEF Extended
  <2>7. InOrder(Messages(Q), Units(Q), Len(Q), Len(handled), n2, Sizes')
    BY <2>1, <2>5, AddLast
  <2>6. QED
    BY <2>2, <2>7
<1>13. Messages(pending)' = Messages(Q) /\ Units(pending)' = Units(Q) /\ Len(pending)' = Len(Q)
  BY DEF Messages, Units
<1>14. handled' = handled
  BY DEF SendMsg
<1>15. QED
  BY <1>2, <1>4, <1>5, <1>12, <1>13, <1>14 DEF StreamInv

\* What starts the current iteration is the first message that was not handled.
LEMMA CurrentIsFirst ==
  ASSUME TypeOK, StreamInv, Delivers, Len(got) > 0
  PROVE  /\ Len(pending) > 0 /\ Current = Len(handled) + 1
         /\ Len(handled) + 1 \in 1..Len(sent) /\ Sizes[Len(handled) + 1] = MsgLen
         /\ got[1][2] = 1
<1>1. InOrder(Messages(pending), Units(pending), Len(pending), Len(handled), Len(sent), Sizes)
  BY DEF StreamInv
<1>2. Len(got) \in Nat /\ 1 \in 1..Len(got) /\ Len(pending) > 0 /\ pending[1] = got[1]
  BY PendingType
<1>3. /\ Len(handled) + 1 \in 1..Len(sent) /\ Messages(pending)[1] = Len(handled) + 1
      /\ Units(pending)[1] = 1
  <2>1. /\ Len(handled) + 1 \in 1..Len(sent) /\ Sizes[Len(handled) + 1] \in Nat \ {0}
        /\ \A k \in 1..Sizes[Len(handled) + 1] :
             Messages(pending)[k] = Len(handled) + 1 /\ Units(pending)[k] = k
    BY <1>1, <1>2, FirstMessage
  <2>2. 1 \in 1..Sizes[Len(handled) + 1]
    BY <2>1
  <2>3. QED
    BY <2>1, <2>2
<1>4. Messages(pending)[1] = pending[1][1] /\ Units(pending)[1] = pending[1][2]
  <2>1. Len(pending) \in Nat
    BY PendingType, LenProperties
  <2>2. 1 \in 1..Len(pending)
    BY <1>2, <2>1
  <2>3. QED
    BY <2>2 DEF Messages, Units
<1>5. QED
  BY <1>2, <1>3, <1>4 DEF Current, MsgLen, Sizes, Size

\* A client that waits has only the current message on its way.
LEMMA OnlyCurrent ==
  ASSUME TypeOK, StreamInv, Delivers, waits, Len(pending) > 0
  PROVE  /\ Len(sent) = Len(handled) + 1 /\ Len(pending) = Sizes[Len(handled) + 1]
         /\ \A i \in 1..Len(pending) : pending[i][1] = Len(handled) + 1
<1>1. InOrder(Messages(pending), Units(pending), Len(pending), Len(handled), Len(sent), Sizes)
  BY DEF StreamInv
<1>2. Len(sent) = Len(handled) + 1 /\ Len(pending) = Sizes[Len(handled) + 1]
  BY <1>1, OneMessage DEF StreamInv
<1>3. \A i \in 1..Sizes[Len(handled) + 1] : Messages(pending)[i] = Len(handled) + 1
  BY <1>1, FirstMessage
<1>4. QED
  BY <1>2, <1>3 DEF Messages

\* What is left of a read is what follows the message: a message without a
\* body, behind which nothing is looked for, ends the stream of a client that waits.
LEMMA ReminderIsRest ==
  ASSUME TypeOK, StreamInv, Delivers, NEW kinds, Completes(kinds)
  PROVE  /\ Reminder \in Seq(Cell) /\ Len(Reminder) = Len(got) - MsgLen
         /\ \A i \in 1..Len(Reminder) : Reminder[i] = got[i + MsgLen]
<1>1. /\ Len(got) \in Nat /\ MsgLen \in Nat /\ MsgLen >= Header
      /\ Len(got) >= MsgLen /\ Current \in 1..Len(sent)
  BY CompleteType
<1>2. CASE MsgLen # Header
  <2>1. \A i \in MsgLen + 1 .. Len(got) : i \in 1..Len(got)
    BY <1>1
  <2>2. \A i \in MsgLen + 1 .. Len(got) : got[i] \in Cell
    BY <2>1, GotType, ElementOfSeq DEF Cell
  <2>3. PICK g : g = SubSeq(got, MsgLen + 1, Len(got))
    OBVIOUS
  <2>4. /\ g \in Seq(Cell)
        /\ Len(g) = IF MsgLen + 1 <= Len(got) THEN Len(got) - (MsgLen + 1) + 1 ELSE 0
        /\ \A i \in 1 .. Len(got) - (MsgLen + 1) + 1 : g[i] = got[MsgLen + 1 + i - 1]
    BY <1>1, <2>2, <2>3, SubSeqProperties
  <2>5. Len(g) = Len(got) - MsgLen
    BY <1>1, <2>4
  <2>6. \A i \in 1..Len(g) : i \in 1 .. Len(got) - (MsgLen + 1) + 1 /\ MsgLen + 1 + i - 1 = i + MsgLen
    BY <1>1, <2>5
  <2>7. QED
    BY <1>2, <2>3, <2>4, <2>5, <2>6 DEF Reminder
<1>3. CASE MsgLen = Header
  <2>1. Reminder = <<>> /\ sent[Current].body = 0
    <3>1. sent[Current].body \in Nat
      BY <1>1, ElementOfSeq, BodyType DEF TypeOK
    <3>2. QED
      BY <1>3, <3>1, ReceiverAssumption DEF Reminder, MsgLen
  <2>2. waits
    BY <1>1, <2>1 DEF Delivers
  <2>3. Len(got) > 0
    BY <1>1, ReceiverAssumption
  <2>4. Len(pending) = MsgLen
    BY <2>2, <2>3, CurrentIsFirst, OnlyCurrent
  <2>5. Len(got) = MsgLen
    BY <1>1, <2>4, PendingType
  <2>6. <<>> \in Seq(Cell) /\ Len(<<>>) = 0
    BY EmptySeq
  <2>7. QED
    BY <1>1, <2>1, <2>5, <2>6
<1>4. QED
  BY <1>2, <1>3

\* A handled message leaves the stream from its front.
LEMMA StreamProcess == TypeOK /\ StreamInv /\ ProcessRecvMsg => StreamInv'
<1> SUFFICES ASSUME TypeOK, StreamInv, ProcessRecvMsg, Delivers' PROVE StreamInv'
  BY DEF StreamInv
<1>1. Delivers
  BY DEF ProcessRecvMsg, Delivers
<1>2. /\ Len(got) \in Nat /\ MsgLen \in Nat /\ Len(got) >= MsgLen /\ Len(got) > 0
  BY CompleteType, ReceiverAssumption DEF ProcessRecvMsg
<1>3. /\ Len(pending) > 0 /\ Current = Len(handled) + 1
      /\ Len(handled) + 1 \in 1..Len(sent) /\ Sizes[Len(handled) + 1] = MsgLen
  BY <1>1, <1>2, CurrentIsFirst
<1>4. PICK r : r = Reminder
  OBVIOUS
<1>5. /\ r \in Seq(Cell) /\ Len(r) = Len(got) - MsgLen /\ Len(r) \in Nat
      /\ \A i \in 1..Len(r) : r[i] = got[i + MsgLen]
  BY <1>1, <1>2, <1>4, ReminderIsRest DEF ProcessRecvMsg
<1>6. PICK w : w = wire \o out
  OBVIOUS
<1>7. /\ Len(w) \in Nat /\ Len(pending) = Len(got) + Len(w)
      /\ \A i \in 1..Len(got) : pending[i] = got[i]
      /\ \A i \in 1..Len(w) : pending[Len(got) + i] = w[i]
  BY <1>6, PendingType
<1>8. wire \in Seq(Cell) /\ out \in Seq(Cell) /\ w \in Seq(Cell)
  BY <1>6, ConcatProperties DEF TypeOK, Cell
<1>9. pending' = r \o w
  <2>1. pending' = ((<<>> \o r) \o wire) \o out
    BY <1>4 DEF pending, ProcessRecvMsg
  <2>2. <<>> \o r = r
    BY <1>5, ConcatEmptySeq
  <2>3. r \in Seq(Cell) /\ wire \in Seq(Cell) /\ out \in Seq(Cell)
    BY <1>5, <1>8
  <2>4. (r \o wire) \o out = r \o (wire \o out)
    BY <2>3, ConcatAssociative
  <2>5. QED
    BY <1>6, <2>1, <2>2, <2>4, Zenon
<1>10. PICK Q : Q = pending'
  OBVIOUS
<1>11. /\ Q \in Seq(Cell) /\ Len(Q) = Len(r) + Len(w)
       /\ \A i \in 1 .. Len(r) + Len(w) : Q[i] = IF i <= Len(r) THEN r[i] ELSE w[i - Len(r)]
  <2>1. r \in Seq(Cell) /\ w \in Seq(Cell)
    BY <1>5, <1>8
  <2>2. QED
    BY <1>9, <1>10, <2>1, ConcatProperties
<1>12. Len(Q) \in Nat /\ Len(Q) = Len(pending) - MsgLen
  BY <1>2, <1>5, <1>7, <1>11
<1>13. \A i \in 1..Len(Q) : Q[i] = pending[i + MsgLen]
  <2> SUFFICES ASSUME NEW i \in 1..Len(Q) PROVE Q[i] = pending[i + MsgLen]
    OBVIOUS
  <2>1. CASE i <= Len(r)
    <3>1. i \in 1..Len(r) /\ i + MsgLen \in 1..Len(got)
      BY <1>2, <1>5, <1>12, <2>1
    <3>2. QED
      BY <1>5, <1>7, <1>11, <2>1, <3>1
  <2>2. CASE ~(i <= Len(r))
    <3>1. i - Len(r) \in 1..Len(w) /\ Len(got) + (i - Len(r)) = i + MsgLen
      BY <1>2, <1>5, <1>7, <1>11, <2>2
    <3>2. Q[i] = w[i - Len(r)]
      BY <1>11, <2>2
    <3>3. pending[Len(got) + (i - Len(r))] = w[i - Len(r)]
      BY <1>7, <3>1
    <3>4. QED
      BY <3>1, <3>2, <3>3
  <2>3. QED
    BY <2>1, <2>2
<1>14. PICK P : P = pending
  OBVIOUS
<1>15. Dropped(Messages(P), Units(P), Len(P), MsgLen, Messages(Q), Units(Q), Len(Q))
  <2>1. Len(sent) \in Nat /\ Q \in Seq((1..Len(sent)) \X (Nat \ {0}))
    BY <1>11, PendingType DEF Cell
  <2>2. /\ Messages(Q) \in [1..Len(Q) -> Nat] /\ Units(Q) \in [1..Len(Q) -> Nat]
        /\ \A i \in 1..Len(Q) : Messages(Q)[i] = Q[i][1] /\ Units(Q)[i] = Q[i][2]
    BY <2>1, Projections
  <2>3. \A i \in 1..Len(Q) : i + MsgLen \in 1..Len(P)
    BY <1>2, <1>7, <1>12, <1>14
  <2>4. \A i \in 1..Len(P) : Messages(P)[i] = P[i][1] /\ Units(P)[i] = P[i][2]
    BY DEF Messages, Units
  <2>5. Len(Q) = Len(P) - MsgLen /\ \A i \in 1..Len(Q) : Q[i] = P[i + MsgLen]
    BY <1>12, <1>13, <1>14
  <2>6. \A i \in 1..Len(Q) : /\ Messages(Q)[i] = Messages(P)[i + MsgLen]
                             /\ Units(Q)[i] = Units(P)[i + MsgLen]
    BY <2>2, <2>3, <2>4, <2>5
  <2>7. QED
    BY <1>12, <2>2, <2>5, <2>6 DEF Dropped
<1>16. InOrder(Messages(Q), Units(Q), Len(Q), Len(handled) + 1, Len(sent), Sizes)
  <2>1. InOrder(Messages(P), Units(P), Len(P), Len(handled), Len(sent), Sizes) /\ Len(P) > 0
    BY <1>1, <1>3, <1>14 DEF StreamInv
  <2>2. Dropped(Messages(P), Units(P), Len(P), Sizes[Len(handled) + 1], Messages(Q), Units(Q), Len(Q))
    BY <1>3, <1>15
  <2>3. QED
    BY <2>1, <2>2, DropFirst
<1>17. /\ Len(handled') = Len(handled) + 1
       /\ \A i \in 1..Len(handled') : handled'[i].msg = i
  <2>1. PICK e : e = [msg |-> Current, fds |-> rfds]
    OBVIOUS
  <2>2. e \in [msg : 1..Len(sent), fds : 0..Len(sent)] /\ e.msg = Len(handled) + 1
    BY <1>3, <2>1 DEF TypeOK
  <2>3. /\ Len(handled) \in Nat /\ Len(handled') = Len(handled) + 1
        /\ \A i \in 1..Len(handled) : handled'[i] = handled[i]
        /\ handled'[Len(handled) + 1] = e
    BY <2>1, <2>2, AppendProperties, LenProperties DEF ProcessRecvMsg, TypeOK
  <2>4. \A i \in 1..Len(handled) : handled[i].msg = i
    BY <1>1 DEF StreamInv
  <2>5. \A i \in 1..Len(handled') : i \in 1..Len(handled) \/ i = Len(handled) + 1
    BY <2>3
  <2>6. QED
    BY <2>2, <2>3, <2>4, <2>5
<1>18. waits' => Len(sent') <= Len(handled') + 1
  BY <1>1, <1>17, PendingType DEF StreamInv, ProcessRecvMsg
<1>19. /\ Messages(pending)' = Messages(Q) /\ Units(pending)' = Units(Q) /\ Len(pending)' = Len(Q)
       /\ Sizes' = Sizes /\ Len(sent)' = Len(sent)
  BY <1>10 DEF Messages, Units, Sizes, Size, ProcessRecvMsg
<1>20. QED
  BY <1>16, <1>17, <1>18, <1>19 DEF StreamInv

\* No step drops, repeats or reorders a cell.
LEMMA StreamNext == TypeOK /\ StreamInv /\ [Next]_vars => StreamInv'
<1> SUFFICES ASSUME TypeOK, StreamInv, [Next]_vars PROVE StreamInv'
  OBVIOUS
<1>1. CASE BadHeader \/ BadTlv \/ Denied \/ WaitMsgCompleteTimeOut \/ OnDisConnect
  BY <1>1 DEF BadHeader, BadTlv, Denied, WaitMsgCompleteTimeOut, OnDisConnect, OnClose,
              StreamInv, Delivers
<1>2. CASE UNCHANGED vars
  <2>1. pending' = pending
    BY <1>2 DEF vars, pending
  <2>2. QED
    BY <1>2, <2>1, StreamKept DEF vars
<1>3. QED
  BY <1>1, <1>2, StreamSend, StreamWrite, StreamRecv, StreamIncomplete, StreamProcess DEF Next

\* What the invariant says of neighbouring cells.
LEMMA StreamIsNext ==
  ASSUME TypeOK, StreamInv
  PROVE  NothingDropped
<1> SUFFICES ASSUME Delivers
             PROVE  /\ \A i \in 1..Len(handled) : handled[i].msg = i
                    /\ IF pending = <<>> THEN Len(handled) = Len(sent)
                       ELSE /\ pending[1] = <<Len(handled) + 1, 1>>
                            /\ NextCell(pending[Len(pending)]) = <<Len(sent) + 1, 1>>
                    /\ \A i \in 1..Len(pending) - 1 : pending[i + 1] = NextCell(pending[i])
  BY DEF NothingDropped
<1>1. PICK P : P = pending
  OBVIOUS
<1>2. InOrder(Messages(P), Units(P), Len(P), Len(handled), Len(sent), Sizes)
  BY <1>1 DEF StreamInv
<1>3. Len(sent) \in Nat /\ Len(handled) \in Nat /\ P \in Seq((1..Len(sent)) \X (Nat \ {0}))
  BY <1>1, PendingType DEF Cell
<1>4. /\ Len(P) \in Nat
      /\ \A i \in 1..Len(P) : P[i] = <<Messages(P)[i], Units(P)[i]>>
  BY <1>3, Projections
<1>5. \A i \in 1..Len(P) :
        /\ Messages(P)[i] \in 1..Len(sent) /\ Size(Messages(P)[i]) \in Nat
        /\ Units(P)[i] \in 1..Size(Messages(P)[i])
  <2>1. \A i \in 1..Len(P) : /\ Messages(P)[i] \in 1..Len(sent)
                             /\ Sizes[Messages(P)[i]] \in Nat
                             /\ Units(P)[i] \in 1..Sizes[Messages(P)[i]]
    BY <1>2, RunEnd
  <2>2. \A m \in 1..Len(sent) : Sizes[m] = Size(m)
    BY DEF Sizes
  <2>3. QED
    BY <2>1, <2>2
<1>6. P = <<>> => Len(handled) = Len(sent)
  BY <1>2, EmptySeq DEF InOrder
<1>7. P # <<>> => /\ P[1] = <<Len(handled) + 1, 1>>
                  /\ NextCell(P[Len(P)]) = <<Len(sent) + 1, 1>>
  <2> SUFFICES ASSUME P # <<>>
               PROVE  P[1] = <<Len(handled) + 1, 1>> /\ NextCell(P[Len(P)]) = <<Len(sent) + 1, 1>>
    OBVIOUS
  <2>1. Len(P) > 0
    BY <1>3, <1>4, EmptySeq
  <2>2. 1 \in 1..Len(P) /\ Len(P) \in 1..Len(P)
    BY <1>4, <2>1
  <2>3. /\ Messages(P)[1] = Len(handled) + 1 /\ Units(P)[1] = 1
        /\ Messages(P)[Len(P)] = Len(sent) /\ Units(P)[Len(P)] = Sizes[Len(sent)]
    BY <1>2, <2>1 DEF InOrder
  <2>4. Len(sent) \in 1..Len(sent)
    BY <1>5, <2>2, <2>3
  <2>5. Sizes[Len(sent)] = Size(Len(sent)) /\ Size(Len(sent)) \in Nat
    BY <1>5, <2>2, <2>3, <2>4 DEF Sizes
  <2>6. P[Len(P)] = <<Len(sent), Size(Len(sent))>>
    BY <1>4, <2>2, <2>3, <2>5
  <2>7. NextCell(P[Len(P)]) = <<Len(sent) + 1, 1>>
    BY <2>5, <2>6 DEF NextCell
  <2>8. QED
    BY <1>4, <2>2, <2>3, <2>7
<1>8. ASSUME NEW i \in 1..Len(P) - 1
      PROVE  P[i + 1] = NextCell(P[i])
  <2>1. i \in 1..Len(P) /\ i + 1 \in 1..Len(P)
    BY <1>4
  <2>2. PICK m, j : m = Messages(P)[i] /\ j = Units(P)[i]
    OBVIOUS
  <2>3. /\ m \in 1..Len(sent) /\ Size(m) \in Nat /\ j \in 1..Size(m)
        /\ P[i] = <<m, j>>
        /\ P[i + 1] = <<Messages(P)[i + 1], Units(P)[i + 1]>>
    BY <1>4, <1>5, <2>1, <2>2
  <2>4. MsgEnd(Messages(P), Units(P), i, Sizes) = i + Size(m) - j
    BY <2>2, <2>3 DEF MsgEnd, Sizes
  <2>5. Run(Messages(P), Units(P), Len(P), Len(sent), Sizes, i)
    BY <1>2, <2>1 DEF InOrder
  <2>6. CASE j < Size(m)
    <3>1. i + 1 \in i .. i + Size(m) - j
      BY <2>3, <2>6
    <3>2. Messages(P)[i + 1] = m /\ Units(P)[i + 1] = j + ((i + 1) - i)
      BY <2>2, <2>4, <2>5, <3>1 DEF Run
    <3>3. NextCell(P[i]) = <<m, j + 1>>
      BY <2>3, <2>6 DEF NextCell
    <3>4. j + ((i + 1) - i) = j + 1
      BY <2>3
    <3>5. QED
      BY <2>3, <3>2, <3>3, <3>4
  <2>7. CASE j = Size(m)
    <3>1. i + Size(m) - j = i /\ i < Len(P)
      BY <1>4, <2>3, <2>7
    <3>2. Messages(P)[i + 1] = m + 1 /\ Units(P)[i + 1] = 1
      BY <2>2, <2>4, <2>5, <3>1 DEF Run
    <3>3. NextCell(P[i]) = <<m + 1, 1>>
      BY <2>3, <2>7 DEF NextCell
    <3>4. QED
      BY <2>3, <3>2, <3>3
  <2>8. QED
    BY <2>3, <2>6, <2>7
<1>9. QED
  BY <1>1, <1>6, <1>7, <1>8 DEF StreamInv

\* Messages of any length, cut into writes and reads in any way: while the
\* connection is open the handled ones are the first, in order, and every later
\* cell is still on its way (reminder and msgRecvLen in OnReceiveRequest).
THEOREM StreamIntact == Spec => []NothingDropped
<1>1. TypeOK /\ StreamInv => NothingDropped
  BY StreamIsNext
<1>2. QED
  BY TypeInit, TypeNext, StreamInit, StreamNext, <1>1, PTL DEF Spec

(***************************************************************************)
(* The descriptors.  Between recvmsg and the handler receiverCtx.fds is    *)
(* that of the message being assembled, if that message came with any.     *)
(***************************************************************************)
FdsInv ==
  waits /\ open /\ Len(got) > 0 /\ sent[Len(handled) + 1].fds => rfds = Len(handled) + 1

\* A new connection has received nothing.
LEMMA FdsInit == Init => FdsInv /\ FdsReachTheirMessage
<1> SUFFICES ASSUME Init PROVE FdsInv /\ FdsReachTheirMessage
  OBVIOUS
<1>1. Len(<<>>) = 0 /\ <<>> \o <<>> = <<>>
  BY EmptySeq, ConcatEmptySeq
<1>2. QED
  BY <1>1 DEF Init, FdsInv, FdsReachTheirMessage, got

\* Handling a message never disturbs the messages handled before.
LEMMA FdsKept ==
  ASSUME TypeOK, FdsReachTheirMessage, handled' = handled, waits' = waits,
         \A m \in 1..Len(sent) : sent'[m] = sent[m]
  PROVE  FdsReachTheirMessage'
<1>1. \A i \in 1..Len(handled) : handled[i] \in [msg : 1..Len(sent), fds : 0..Len(sent)]
  BY ElementOfSeq DEF TypeOK
<1>2. QED
  BY <1>1 DEF FdsReachTheirMessage

\* What a read brings of the descriptors.
LEMMA FdsRecv == TypeOK /\ StreamInv /\ FdsInv /\ HandleRecvMessage => FdsInv'
<1> SUFFICES ASSUME TypeOK, StreamInv, FdsInv, HandleRecvMessage,
                    waits, open, sent[Len(handled) + 1].fds
             PROVE  rfds' = Len(handled) + 1
  BY DEF FdsInv, HandleRecvMessage
<1>1. PICK k \in 1..Len(wire) : rfds' = FdsAfterRecv(k)
  BY DEF HandleRecvMessage
<1>2. Delivers
  BY DEF Delivers
<1>3. node \in Seq(Cell) /\ wire \in Seq(Cell) /\ out \in Seq(Cell) /\ buf = <<>>
  BY DEF HandleRecvMessage, TypeOK, Cell
<1>4. got = node
  BY <1>3, ConcatEmptySeq DEF got
<1>5. PICK w : w = wire \o out
  OBVIOUS
<1>6. /\ Len(w) \in Nat /\ Len(got) \in Nat /\ Len(pending) = Len(got) + Len(w)
      /\ \A i \in 1..Len(w) : pending[Len(got) + i] = w[i]
  BY <1>5, PendingType
<1>7. /\ Len(wire) \in Nat /\ Len(wire) <= Len(w)
      /\ \A i \in 1..Len(wire) : w[i] = wire[i]
  BY <1>3, <1>5, ConcatProperties, LenProperties
<1>8. Len(pending) > 0 /\ \A i \in 1..k : pending[Len(got) + i] = wire[i] /\ Len(got) + i \in 1..Len(pending)
  BY <1>6, <1>7
<1>9. \A i \in 1..k : wire[i][1] = Len(handled) + 1
  BY <1>2, <1>8, OnlyCurrent
<1>10. CASE \E i \in 1..k : CarriesFds(wire[i])
  <2>1. PICK c : c = CHOOSE i \in 1..k : CarriesFds(wire[i])
    OBVIOUS
  <2>2. c \in 1..k
    BY <1>10, <2>1
  <2>3. rfds' = wire[c][1]
    BY <1>1, <1>10, <2>1 DEF FdsAfterRecv
  <2>4. QED
    BY <1>9, <2>2, <2>3
<1>11. CASE ~\E i \in 1..k : CarriesFds(wire[i])
  <2>1. rfds' = rfds
    BY <1>1, <1>11 DEF FdsAfterRecv
  <2>2. Len(got) > 0
    <3> SUFFICES ASSUME Len(got) = 0 PROVE FALSE
      BY <1>6
    <3>1. 1 \in 1..k /\ Len(got) + 1 = 1
      BY <1>7
    <3>2. pending[1] = wire[1]
      BY <1>8, <3>1
    <3>3. pending[1] = <<Len(handled) + 1, 1>>
      <4>1. pending # <<>>
        BY <1>8, EmptySeq
      <4>2. QED
        BY <1>2, <4>1, StreamIsNext DEF NothingDropped
    <3>4. CarriesFds(wire[1])
      BY <3>2, <3>3 DEF CarriesFds
    <3>5. QED
      BY <1>11, <3>1, <3>4
  <2>3. QED
    BY <2>1, <2>2 DEF FdsInv
<1>12. QED
  BY <1>10, <1>11

\* The handler of a message sees the descriptors of that message.
LEMMA FdsProcess ==
  TypeOK /\ StreamInv /\ FdsInv /\ FdsReachTheirMessage /\ ProcessRecvMsg
    => FdsInv' /\ FdsReachTheirMessage'
<1> SUFFICES ASSUME TypeOK, StreamInv, FdsInv, FdsReachTheirMessage, ProcessRecvMsg, waits
             PROVE  FdsInv' /\ FdsReachTheirMessage'
  BY DEF FdsInv, FdsReachTheirMessage, ProcessRecvMsg
<1>1. Delivers
  BY DEF Delivers, ProcessRecvMsg, Completes
<1>2. /\ Len(got) \in Nat /\ MsgLen \in Nat /\ Len(got) >= MsgLen /\ Len(got) > 0
  BY CompleteType, ReceiverAssumption DEF ProcessRecvMsg
<1>3. /\ Len(pending) > 0 /\ Current = Len(handled) + 1
      /\ Len(handled) + 1 \in 1..Len(sent) /\ Sizes[Len(handled) + 1] = MsgLen
  BY <1>1, <1>2, CurrentIsFirst
<1>4. FdsInv'
  <2>1. Len(pending) = MsgLen
    BY <1>1, <1>3, OnlyCurrent
  <2>2. Len(got) = MsgLen
    BY <1>2, <2>1, PendingType
  <2>3. Reminder \in Seq(Cell) /\ Len(Reminder) = 0
    BY <1>1, <1>2, <2>2, ReminderIsRest DEF ProcessRecvMsg
  <2>4. got' = Reminder
    BY <2>3, ConcatEmptySeq DEF got, ProcessRecvMsg
  <2>5. QED
    BY <2>3, <2>4 DEF FdsInv
<1>5. FdsReachTheirMessage'
  <2>1. PICK e : e = [msg |-> Current, fds |-> rfds]
    OBVIOUS
  <2>2. /\ e \in [msg : 1..Len(sent), fds : 0..Len(sent)] /\ e.msg = Len(handled) + 1
        /\ e.fds = rfds
    BY <1>3, <2>1 DEF TypeOK
  <2>3. /\ Len(handled) \in Nat /\ Len(handled') = Len(handled) + 1
        /\ \A i \in 1..Len(handled) : handled'[i] = handled[i]
        /\ handled'[Len(handled) + 1] = e
    BY <2>1, <2>2, AppendProperties, LenProperties DEF ProcessRecvMsg, TypeOK
  <2>4. sent[Len(handled) + 1].fds => rfds = Len(handled) + 1
    BY <1>1, <1>2 DEF FdsInv, Delivers
  <2>5. \A i \in 1..Len(handled') : i \in 1..Len(handled) \/ i = Len(handled) + 1
    BY <2>3
  <2>6. sent' = sent /\ waits' = waits
    BY DEF ProcessRecvMsg
  <2>7. QED
    BY <2>2, <2>3, <2>4, <2>5, <2>6 DEF FdsReachTheirMessage
<1>6. QED
  BY <1>4, <1>5

\* A client that waits sends when nothing is on its way.
LEMMA FdsSend == TypeOK /\ StreamInv /\ SendMsg => FdsInv'
<1> SUFFICES ASSUME TypeOK, StreamInv, SendMsg, waits, open, Len(got) > 0 PROVE FALSE
  BY DEF FdsInv, SendMsg, got
<1>1. Delivers /\ Len(handled) = Len(sent)
  BY DEF Delivers, SendMsg
<1>2. Len(handled) + 1 \in 1..Len(sent) /\ Len(sent) \in Nat
  BY <1>1, CurrentIsFirst, PendingType
<1>3. QED
  BY <1>1, <1>2

\* No step gives a message the descriptors of another one.
LEMMA FdsNext ==
  TypeOK /\ StreamInv /\ FdsInv /\ FdsReachTheirMessage /\ [Next]_vars
    => FdsInv' /\ FdsReachTheirMessage'
<1> SUFFICES ASSUME TypeOK, StreamInv, FdsInv, FdsReachTheirMessage, [Next]_vars
             PROVE  FdsInv' /\ FdsReachTheirMessage'
  OBVIOUS
<1>1. CASE SendMsg
  <2>1. \A m \in 1..Len(sent) : sent'[m] = sent[m]
    BY <1>1, AppendProperties DEF SendMsg, TypeOK
  <2>2. QED
    BY <1>1, <2>1, FdsSend, FdsKept DEF SendMsg
<1>2. CASE WriteMessage
  <2>1. FdsInv'
    BY <1>2 DEF WriteMessage, FdsInv, got
  <2>2. QED
    BY <1>2, <2>1, FdsKept DEF WriteMessage
<1>3. CASE HandleRecvMessage
  BY <1>3, FdsRecv, FdsKept DEF HandleRecvMessage
<1>4. CASE Incomplete
  <2>1. open' => got' = got
    <3>1. got \in Seq(Cell)
      BY GotType DEF Cell
    <3>2. got \o <<>> = got
      BY <3>1, ConcatEmptySeq
    <3>3. open' => node' = got /\ buf' = <<>>
      BY <1>4 DEF Incomplete, OnClose
    <3>4. QED
      BY <3>2, <3>3 DEF got
  <2>2. FdsInv'
    BY <1>4, <2>1 DEF Incomplete, FdsInv
  <2>3. QED
    BY <1>4, <2>2, FdsKept DEF Incomplete
<1>5. CASE BadHeader \/ BadTlv \/ Denied \/ WaitMsgCompleteTimeOut \/ OnDisConnect
  <2>1. ~open' /\ UNCHANGED <<waits, sent, handled>>
    BY <1>5 DEF BadHeader, BadTlv, Denied, WaitMsgCompleteTimeOut, OnDisConnect, OnClose
  <2>2. FdsInv'
    BY <2>1 DEF FdsInv
  <2>3. QED
    BY <2>1, <2>2, FdsKept
<1>6. CASE ProcessRecvMsg
  BY <1>6, FdsProcess
<1>7. CASE UNCHANGED vars
  BY <1>7, FdsKept DEF vars, FdsInv, got
<1>8. QED
  BY <1>1, <1>2, <1>3, <1>4, <1>5, <1>6, <1>7 DEF Next

\* The handler of a message that was sent with descriptors finds them, and not
\* those an earlier message left in receiverCtx, if the client waits for its answers.
THEOREM DescriptorsFindTheirMessage == Spec => []FdsReachTheirMessage
  BY TypeInit, TypeNext, StreamInit, StreamNext, FdsInit, FdsNext, PTL DEF Spec
=============================================================================
