--------------------------- MODULE TftpSend_proofs ---------------------------
(***************************************************************************)
(* Proofs about TftpSend, for every file length, wrap modulus, packet      *)
(* lifetime and number of alarms.                                          *)
(***************************************************************************)
EXTENDS TftpSend, NumberLemmas, TLAPS

\* The types, that an armed alarm never finds timeout at its maximum, and that
\* what is sent has a size.
TypeInv ==
    /\ TypeOK
    /\ pc # "exited" => timeout < MaxAlarms
    /\ pc \in {"send", "wait", "got"} => size \in 0..SEGSIZE

LEMMA SizeType == \A k \in Int : Size(k) \in 0..SEGSIZE
BY DEF Size, SEGSIZE

LEMMA WrapType == \A b \in Nat : NextBlock(b) \in 0..BlockMod-1
BY TransferAssumption DEF NextBlock

LEMMA FreshType == \A S, q : Fresh(S, q) \subseteq S
BY DEF Fresh

LEMMA TypeInit == Init => TypeInv
<1> SUFFICES ASSUME Init PROVE TypeInv
  OBVIOUS
<1>1. sendblock \in 0..BlockMod-1
  <2>1. 1 % BlockMod \in 0..BlockMod-1
    BY TransferAssumption
  <2> QED BY <2>1 DEF Init, RwInit
<1>2. bfs \in [0..1 -> BufferType]
  BY DEF Init, RwInit, BufferType, BF_ALLOC, BF_FREE, SEGSIZE
<1>3. ackbuf \in Reply
  BY TransferAssumption DEF Init, RwInit, Reply, NoPacket
<1>4. rcvd \in Seq(Nat)
  BY DEF Init, RwInit
<1>5. lastblock \in 0..BlockMod-1 /\ seg \in Nat \ {0} /\ rptr \in 0..N
  BY TransferAssumption DEF Init, RwInit
<1>6. timeout \in 0..MaxAlarms /\ timeout < MaxAlarms
  BY TransferAssumption DEF Init, RwInit
<1>7. size \in 0..SEGSIZE
  BY DEF Init, RwInit, SEGSIZE
<1>8. got_exit_signal \in BOOLEAN
  BY Zenon DEF Init, RwInit
<1>9. pc = "readit" /\ client = "run" /\ current \in 0..1 /\ nextone \in 0..1
  BY DEF Init, RwInit
<1>10. inbox \subseteq Reply /\ toServer \subseteq Reply /\ toClient \subseteq Packet
  BY DEF Init, RwInit
<1> QED
  BY <1>1, <1>2, <1>3, <1>4, <1>5, <1>6, <1>7, <1>8, <1>9, <1>10
  DEF TypeInv, TypeOK, Terminal

\* Filling a buffer keeps the types of the ring.
LEMMA FillType ==
    ASSUME TypeInv, NEW b \in [0..1 -> BufferType], Fill(b)
    PROVE  bfs' \in [0..1 -> BufferType] /\ nextone' \in 0..1 /\ rptr' \in 0..N
<1>1. rptr \in 0..N /\ nextone \in 0..1
  BY DEF TypeInv, TypeOK
<1>2. [counter |-> Size(rptr + 1), data |-> rptr + 1] \in BufferType
  <2>1. rptr + 1 \in Nat /\ Size(rptr + 1) \in 0..SEGSIZE
    BY <1>1, TransferAssumption, SizeType
  <2> QED BY <2>1 DEF BufferType
<1>3. bfs' \in [0..1 -> BufferType]
  BY <1>2 DEF Fill
<1>4. nextone' \in 0..1 /\ rptr' \in 0..N
  BY <1>1, TransferAssumption DEF Fill
<1> QED BY <1>3, <1>4

LEMMA ReadAheadType ==
    ASSUME TypeInv, NEW b \in [0..1 -> BufferType], ReadAhead(b)
    PROVE  bfs' \in [0..1 -> BufferType] /\ nextone' \in 0..1 /\ rptr' \in 0..N
<1>1. CASE Fill(b) BY <1>1, FillType
<1>2. CASE bfs' = b /\ UNCHANGED <<nextone, rptr>> BY <1>2 DEF TypeInv, TypeOK
<1> QED BY <1>1, <1>2 DEF ReadAhead

LEMMA TypeStep == TypeInv /\ [Next]_vars => TypeInv'
<1> SUFFICES ASSUME TypeInv, [Next]_vars PROVE TypeInv'
  OBVIOUS
<1> USE DEF TypeInv, TypeOK, Terminal
<1>1. CASE ReadIt
  <2> DEFINE freed == [bfs EXCEPT ![current].counter = BF_FREE]
             next == 1 - current
  <2>1. freed \in [0..1 -> BufferType] /\ next \in 0..1
    BY DEF BufferType
  <2>2. bfs' \in [0..1 -> BufferType] /\ nextone' \in 0..1 /\ rptr' \in 0..N
    <3>1. CASE ReadAhead(freed) BY <3>1, <2>1, ReadAheadType
    <3>2. CASE bfs' = freed /\ UNCHANGED <<nextone, rptr>> BY <3>2, <2>1
    <3> QED BY <3>1, <3>2, <1>1 DEF ReadIt, NextBuffer
  <2>3. size' = bfs'[next].counter /\ current' = next
    BY <1>1 DEF ReadIt, NextBuffer
  <2>4. size' \in {BF_ALLOC, BF_FREE} \cup (0..SEGSIZE)
    BY <2>1, <2>2, <2>3 DEF BufferType
  <2>5. /\ pc' \in {"nak", "send"}
        /\ pc' = "send" => size' \in 0..SEGSIZE
        /\ timeout' \in 0..MaxAlarms /\ timeout' < MaxAlarms
    BY <1>1, <2>4, TransferAssumption DEF ReadIt, NextBuffer, BF_ALLOC, BF_FREE
  <2>6. UNCHANGED <<sendblock, ackbuf, got_exit_signal, network, clientVars, seg>>
    BY <1>1 DEF ReadIt, NextBuffer
  <2> QED
    BY <2>1, <2>2, <2>3, <2>4, <2>5, <2>6 DEF network, clientVars
<1>2. CASE SendData
  <2>1. bfs' \in [0..1 -> BufferType] /\ nextone' \in 0..1 /\ rptr' \in 0..N
    BY <1>2, ReadAheadType DEF SendData
  <2>2. Data(sendblock, bfs[current].data, size, seg) \in Packet
    BY <1>2 DEF SendData, Data, Packet, BufferType
  <2> QED BY <1>2, <2>1, <2>2 DEF SendData, clientVars
<1>3. CASE PeerFails
  BY <1>3 DEF PeerFails, buffers, network, clientVars
<1>4. ASSUME NEW m \in inbox, Receive(m) PROVE TypeInv'
  BY <1>4 DEF Receive, buffers, clientVars
<1>5. CASE Alarm
  BY <1>5, TransferAssumption DEF Alarm, AlarmTo, buffers, network, clientVars
<1>6. CASE GiveUp
  BY <1>6 DEF GiveUp, buffers, network, clientVars
<1>7. CASE AckExpected
  <2>1. sendblock' \in 0..BlockMod-1
    BY <1>7, WrapType, TransferAssumption DEF AckExpected, Acknowledged
  <2>2. inbox' \subseteq Reply /\ toServer' \subseteq Reply /\ toClient' \subseteq Packet
    BY <1>7, FreshType DEF AckExpected, Acknowledged
  <2> QED BY <1>7, <2>1, <2>2 DEF AckExpected, Acknowledged, buffers, clientVars
<1>8. CASE AckOther
  BY <1>8 DEF AckOther, SynchNet, buffers, clientVars
<1>9. CASE ExitSignal
  BY <1>9 DEF ExitSignal, buffers, network, clientVars
<1>10. ASSUME NEW m \in toServer, Arrive(m) PROVE TypeInv'
  BY <1>10 DEF Arrive, buffers, clientVars
<1>11. ASSUME NEW m \in toServer \cup toClient, Lose(m) PROVE TypeInv'
  BY <1>11 DEF Lose, buffers, clientVars
<1>12. ASSUME NEW m \in toClient, ClientData(m) PROVE TypeInv'
  <2>1. toClient' \subseteq Packet
    BY <1>12 DEF ClientData
  <2>2. Ack(m.block, m.seq) \in Reply
    BY DEF Ack, Reply, Packet
  <2>3. toServer' \subseteq Reply
    BY <1>12, <2>2 DEF ClientData, clientVars
  <2>4. m.data \in Nat /\ m.block \in 0..BlockMod-1
    BY DEF Packet
  <2>5. rcvd' \in Seq(Nat)
    <3>1. CASE rcvd' = Append(rcvd, m.data) BY <3>1, <2>4
    <3> QED BY <3>1, <1>12 DEF ClientData, clientVars
  <2>6. lastblock' \in 0..BlockMod-1 /\ client' \in {"run", "fin", "gone"}
    BY <1>12, <2>4 DEF ClientData, clientVars
  <2> QED BY <1>12, <2>1, <2>3, <2>5, <2>6 DEF ClientData, buffers
<1>13. CASE ClientResend
  <2>1. Ack(lastblock, Len(rcvd)) \in Reply
    BY DEF Ack, Reply
  <2> QED BY <1>13, <2>1 DEF ClientResend, buffers, clientVars
<1>14. CASE ClientAborts
  <2>1. Error(seg) \in Reply
    BY TransferAssumption DEF Error, Reply
  <2> QED BY <1>14, <2>1 DEF ClientAborts, buffers
<1>15. CASE UNCHANGED vars
  BY <1>15 DEF vars, buffers, network, clientVars
<1>16. CASE Ignore
  BY <1>16 DEF Ignore, buffers, network, clientVars
<1>17. CASE ClientBabbles
  <2>1. Other(seg) \in Reply
    BY TransferAssumption DEF Other, Reply
  <2> QED BY <1>17, <2>1 DEF ClientBabbles, Receive, buffers, clientVars
<1> QED
  BY <1>1, <1>2, <1>3, <1>4, <1>5, <1>6, <1>7, <1>8, <1>9, <1>10, <1>11, <1>12,
     <1>13, <1>14, <1>15, <1>16, <1>17 DEF Next, Server, Environment

LEMMA TypeInvariant == Spec => []TypeInv
BY TypeInit, TypeStep, PTL DEF Spec

\* Every variable keeps its type: the block numbers stay unsigned shorts and
\* the buffers' counters sizes or flags.
THEOREM TypeCorrect == Spec => []TypeOK
BY TypeInvariant, PTL DEF TypeInv

-----------------------------------------------------------------------------
(* The read-ahead ring *)

Holds(i, k) == bfs[i] = [counter |-> Size(k), data |-> k]

\* Buffer i is free and is the one read_ahead fills next, with block k + 1.
NotAhead(i, k) == bfs[i].counter = BF_FREE /\ nextone = i /\ rptr = k

\* Buffer i holds block k already; the other one comes next.
Ahead(i, k) ==
    /\ Holds(i, k)
    /\ nextone = 1 - i
    /\ rptr = IF k <= N THEN k ELSE N

\* What makes BufferHoldsBlock inductive: which buffer is filled next and how
\* much of the file was read, at each place sendtftp can be.
RingInv ==
    /\ pc # "nak"
    /\ Sending => seg <= N /\ size = Size(seg) /\ Holds(current, seg)
    /\ pc = "send" => NotAhead(1 - current, seg) \/ Ahead(1 - current, seg + 1)
    /\ pc \in {"wait", "got"} => Ahead(1 - current, seg + 1)
    /\ pc = "readit" =>
        /\ seg <= N
        /\ NotAhead(1 - current, seg - 1) \/ Ahead(1 - current, seg)

LEMMA RingInit == Init => RingInv
BY TransferAssumption
DEF Init, RwInit, RingInv, NotAhead, Sending, BF_ALLOC, BF_FREE

\* A step that leaves the buffers and the block alone keeps the ring, if it
\* only goes back to send_data or to the read.
LEMMA RingKept ==
    ASSUME TypeInv, RingInv, UNCHANGED <<size, buffers, seg>>,
           \/ pc' = pc
           \/ pc' \in {"aborted", "exited"}
           \/ pc \in {"wait", "got"} /\ pc' \in {"send", "wait", "got"}
    PROVE  RingInv'
BY DEF RingInv, Sending, Holds, NotAhead, Ahead, buffers

LEMMA RingStep == TypeInv /\ RingInv /\ [Next]_vars => RingInv'
<1> SUFFICES ASSUME TypeInv, RingInv, [Next]_vars PROVE RingInv'
  OBVIOUS
<1>1. CASE ReadIt
  <2> DEFINE next == 1 - current
             freed == [bfs EXCEPT ![current].counter = BF_FREE]
  <2>1. /\ seg \in Nat /\ seg >= 1 /\ seg <= N /\ current \in 0..1 /\ seg' = seg
        /\ N \in Nat /\ rptr \in Nat /\ nextone \in 0..1
    BY <1>1, TransferAssumption DEF ReadIt, NextBuffer, RingInv, TypeInv, TypeOK
  <2>2. freed[current].counter = BF_FREE /\ freed[next] = bfs[next]
    BY <2>1 DEF TypeInv, TypeOK, BufferType
  <2>3. current' = next /\ 1 - current' = current /\ next \in 0..1
    BY <1>1, <2>1 DEF ReadIt, NextBuffer
  <2>4. /\ bfs'[next] = [counter |-> Size(seg), data |-> seg]
        /\ bfs'[current].counter = BF_FREE /\ nextone' = current /\ rptr' = seg
    <3>1. CASE NotAhead(next, seg - 1)
      <4>1. Fill(freed)
        BY <1>1, <3>1, <2>2 DEF ReadIt, NextBuffer, NotAhead, ReadAhead
      <4>2. freed \in [0..1 -> BufferType] /\ nextone = next /\ rptr = seg - 1
        BY <2>1, <3>1 DEF NotAhead, TypeInv, TypeOK, BufferType
      <4> HIDE DEF freed
      <4> QED BY <4>1, <4>2, <2>1, <2>2 DEF Fill
    <3>2. CASE Ahead(next, seg)
      <4>1. bfs[next].counter = Size(seg) /\ Size(seg) # BF_FREE
        BY <3>2 DEF Ahead, Holds, Size, SEGSIZE, BF_FREE
      <4>2. bfs' = freed /\ nextone' = nextone /\ rptr' = rptr
        BY <1>1, <2>2, <4>1 DEF ReadIt, NextBuffer
      <4> HIDE DEF freed
      <4> QED BY <4>2, <3>2, <2>1, <2>2 DEF Ahead, Holds
    <3> QED BY <1>1, <3>1, <3>2 DEF ReadIt, NextBuffer, RingInv
  <2>5. size' = Size(seg) /\ pc' = "send"
    <3>1. size' = bfs'[next].counter /\ pc' = IF size' < 0 THEN "nak" ELSE "send"
      BY <1>1 DEF ReadIt, NextBuffer
    <3> QED BY <3>1, <2>4 DEF Size, SEGSIZE
  <2> HIDE DEF next, freed
  <2> QED BY <2>1, <2>3, <2>4, <2>5 DEF RingInv, Sending, Holds, NotAhead
<1>2. CASE SendData
  <2>1. /\ seg \in Nat /\ seg >= 1 /\ seg <= N /\ current \in 0..1 /\ N \in Nat
        /\ bfs \in [0..1 -> BufferType]
        /\ UNCHANGED <<seg, size, current>> /\ pc' = "wait"
    BY <1>2, TransferAssumption DEF SendData, RingInv, Sending, TypeInv, TypeOK
  <2>2. size = Size(seg) /\ Holds(current, seg)
    BY <1>2 DEF SendData, RingInv, Sending
  <2>3. Ahead(1 - current, seg + 1)' /\ bfs'[current] = bfs[current]
    <3>1. CASE NotAhead(1 - current, seg)
      <4>1. Fill(bfs)
        BY <1>2, <3>1 DEF SendData, ReadAhead, NotAhead
      <4>2. nextone = 1 - current /\ rptr = seg
        BY <3>1 DEF NotAhead
      <4> QED BY <4>1, <4>2, <2>1 DEF Fill, Ahead, Holds
    <3>2. CASE Ahead(1 - current, seg + 1)
      <4>1. nextone = current /\ bfs[current].counter # BF_FREE
        BY <3>2, <2>1, <2>2 DEF Ahead, Holds, Size, SEGSIZE, BF_FREE
      <4>2. bfs' = bfs /\ UNCHANGED <<nextone, rptr>>
        BY <1>2, <4>1 DEF SendData, ReadAhead
      <4> QED BY <4>2, <3>2, <2>1 DEF Ahead, Holds
    <3> QED BY <1>2, <3>1, <3>2 DEF SendData, RingInv
  <2> QED BY <2>1, <2>2, <2>3 DEF RingInv, Sending, Holds
<1>3. CASE PeerFails
  BY <1>3, RingKept DEF PeerFails
<1>4. ASSUME NEW m \in inbox, Receive(m) PROVE RingInv'
  BY <1>4, RingKept DEF Receive
<1>5. CASE Alarm
  BY <1>5, RingKept DEF Alarm, AlarmTo
<1>6. CASE GiveUp
  BY <1>6, RingKept DEF GiveUp
<1>7. CASE AckExpected
  <2>1. /\ seg \in Nat /\ seg >= 1 /\ seg <= N /\ N \in Nat /\ seg' = seg + 1
        /\ size = Size(seg) /\ Ahead(1 - current, seg + 1)
        /\ UNCHANGED buffers
        /\ pc' = IF size = SEGSIZE THEN "readit" ELSE "done"
    BY <1>7, TransferAssumption
    DEF AckExpected, Acknowledged, RingInv, Sending, TypeInv, TypeOK
  <2>2. Ahead(1 - current, seg)'
    BY <2>1 DEF Ahead, Holds, buffers
  <2>3. pc' = "readit" => seg' <= N
    BY <2>1 DEF Size, SEGSIZE
  <2> QED BY <2>1, <2>2, <2>3 DEF RingInv, Sending
<1>8. CASE AckOther
  BY <1>8, RingKept DEF AckOther, SynchNet
<1>9. CASE ExitSignal
  BY <1>9, RingKept DEF ExitSignal
<1>10. ASSUME NEW m \in toServer, Arrive(m) PROVE RingInv'
  BY <1>10, RingKept DEF Arrive
<1>11. ASSUME NEW m \in toServer \cup toClient, Lose(m) PROVE RingInv'
  BY <1>11, RingKept DEF Lose
<1>12. ASSUME NEW m \in toClient, ClientData(m) PROVE RingInv'
  BY <1>12, RingKept DEF ClientData
<1>13. CASE ClientResend
  BY <1>13, RingKept DEF ClientResend
<1>14. CASE ClientAborts
  BY <1>14, RingKept DEF ClientAborts
<1>15. CASE UNCHANGED vars
  BY <1>15, RingKept DEF vars
<1>16. CASE Ignore
  BY <1>16, RingKept DEF Ignore
<1>17. CASE ClientBabbles
  BY <1>17, RingKept DEF ClientBabbles, Receive
<1> QED
  BY <1>1, <1>2, <1>3, <1>4, <1>5, <1>6, <1>7, <1>8, <1>9, <1>10, <1>11, <1>12,
     <1>13, <1>14, <1>15, <1>16, <1>17 DEF Next, Server, Environment

LEMMA RingInvariant == Spec => []RingInv
BY TypeInvariant, RingInit, RingStep, PTL DEF Spec

\* The buffer in use holds the block on its way whatever the timer and stale
\* ACKs do, and no flag is ever taken for a size.
THEOREM BuffersCorrect == Spec => []BufferHoldsBlock
<1>1. TypeInv /\ RingInv => BufferHoldsBlock
  <2> SUFFICES ASSUME TypeInv, RingInv PROVE BufferHoldsBlock
    OBVIOUS
  <2>1. CASE Sending
    <3>1. pc # "nak" /\ size = Size(seg) /\ Holds(current, seg)
      BY <2>1 DEF RingInv
    <3>2. \/ bfs[1 - current].counter = BF_FREE
          \/ Holds(1 - current, seg + 1)
      BY <2>1 DEF RingInv, Sending, NotAhead, Ahead
    <3> QED BY <3>1, <3>2 DEF BufferHoldsBlock, Holds
  <2> QED BY <2>1 DEF BufferHoldsBlock, RingInv
<1> QED BY <1>1, TypeInvariant, RingInvariant, PTL

-----------------------------------------------------------------------------
(* The protocol *)

\* A DATA packet under way is a block the server did send, not after the one
\* on its way now and not older than PacketLife allows.
PacketOK(m) ==
    /\ m.block = m.seq % BlockMod
    /\ m.data = m.seq /\ m.size = Size(m.seq)
    /\ m.seq <= seg /\ seg < m.seq + PacketLife

\* An ACK under way is for a block the client has stored.
ReplyOK(m) ==
    m.op = "ACK" =>
        /\ m.block = m.seq % BlockMod
        /\ m.seq <= Len(rcvd) /\ seg <= m.seq + PacketLife

\* What makes InOrder and StepByStep inductive: the wrapped counters follow
\* the blocks, and so does every datagram under way.
ProtocolInv ==
    /\ sendblock = seg % BlockMod
    /\ lastblock = Len(rcvd) % BlockMod
    /\ StepByStep
    /\ InOrder
    /\ Len(rcvd) <= N
    /\ client = "run" => Len(rcvd) < N
    /\ client = "gone" => Len(rcvd) < N
    /\ pc = "done" => Len(rcvd) = N
    /\ \A m \in toClient : PacketOK(m)
    /\ \A m \in toServer \cup inbox : ReplyOK(m)
    /\ pc = "got" => ReplyOK(ackbuf)

LEMMA ProtocolInit == Init => ProtocolInv
<1> SUFFICES ASSUME Init PROVE ProtocolInv
  OBVIOUS
<1>1. Len(rcvd) = 0 /\ seg = 1 /\ sendblock = seg % BlockMod /\ lastblock = 0
  BY DEF Init, RwInit
<1>2. 0 % BlockMod = 0
  BY TransferAssumption
<1>3. /\ pc = "readit" /\ client = "run"
      /\ inbox = {} /\ toServer = {} /\ toClient = {}
  BY DEF Init, RwInit
<1> QED BY <1>1, <1>2, <1>3, TransferAssumption DEF ProtocolInv, StepByStep, InOrder

\* A step that neither advances the block nor the client and adds no datagram
\* keeps the invariant.
LEMMA ProtocolKept ==
    ASSUME ProtocolInv, UNCHANGED <<sendblock, lastblock, rcvd, client, seg>>,
           toClient' \subseteq toClient,
           toServer' \cup inbox' \subseteq toServer \cup inbox,
           pc' = "done" => pc = "done",
           pc' = "got" => (pc = "got" /\ ackbuf' = ackbuf) \/ ackbuf' \in inbox
    PROVE  ProtocolInv'
<1>1. \A m : (PacketOK(m) <=> PacketOK(m)') /\ (ReplyOK(m) <=> ReplyOK(m)')
  BY DEF PacketOK, ReplyOK
<1> QED BY <1>1 DEF ProtocolInv, StepByStep, InOrder

LEMMA ProtocolStep == TypeInv /\ RingInv /\ ProtocolInv /\ [Next]_vars => ProtocolInv'
<1> SUFFICES ASSUME TypeInv, RingInv, ProtocolInv, [Next]_vars PROVE ProtocolInv'
  OBVIOUS
<1> DEFINE n == Len(rcvd)
<1>0. /\ seg \in Nat /\ seg >= 1 /\ n \in Nat /\ n <= seg /\ seg <= n + 1
      /\ N \in Nat /\ BlockMod \in Nat /\ BlockMod > 0
      /\ PacketLife \in Nat /\ PacketLife < BlockMod /\ PacketLife >= 1
      /\ rcvd \in Seq(Nat)
  <2>1. seg \in Nat /\ seg >= 1 /\ rcvd \in Seq(Nat)
    BY DEF TypeInv, TypeOK
  <2>2. n \in Nat
    BY <2>1
  <2>3. n \in {seg - 1, seg}
    BY DEF ProtocolInv, StepByStep
  <2> QED BY <2>1, <2>2, <2>3, TransferAssumption
<1>1. CASE ReadIt
  BY <1>1, ProtocolKept DEF ReadIt, NextBuffer, network, clientVars
<1>2. CASE SendData
  <2> DEFINE p == Data(sendblock, bfs[current].data, size, seg)
  <2>1. PacketOK(p)
    BY <1>2, <1>0 DEF SendData, RingInv, Sending, Holds, PacketOK, Data, ProtocolInv
  <2>2. UNCHANGED <<sendblock, lastblock, rcvd, client, seg, inbox, toServer>>
        /\ pc' = "wait" /\ toClient' = toClient \cup {p}
    BY <1>2 DEF SendData, clientVars
  <2>3. \A m : (PacketOK(m) <=> PacketOK(m)') /\ (ReplyOK(m) <=> ReplyOK(m)')
    BY <2>2 DEF PacketOK, ReplyOK
  <2> HIDE DEF p
  <2> QED BY <2>1, <2>2, <2>3 DEF ProtocolInv, StepByStep, InOrder
<1>3. CASE PeerFails
  BY <1>3, ProtocolKept DEF PeerFails, network, clientVars
<1>4. ASSUME NEW m \in inbox, Receive(m) PROVE ProtocolInv'
  BY <1>4, ProtocolKept DEF Receive, clientVars
<1>5. CASE Alarm
  BY <1>5, ProtocolKept DEF Alarm, AlarmTo, network, clientVars
<1>6. CASE GiveUp
  BY <1>6, ProtocolKept DEF GiveUp, network, clientVars
<1>7. CASE AckExpected
  <2>1. /\ ackbuf.block = ackbuf.seq % BlockMod /\ ackbuf.seq <= n
        /\ seg <= ackbuf.seq + PacketLife /\ ackbuf.seq \in Nat
        /\ sendblock = seg % BlockMod /\ ackbuf.block = sendblock
    BY <1>7 DEF AckExpected, Acknowledged, ProtocolInv, ReplyOK, TypeInv, TypeOK, Reply
  <2>2. ackbuf.seq = seg
    <3>1. ackbuf.seq % BlockMod = seg % BlockMod
      BY <2>1
    <3>2. ackbuf.seq - seg < BlockMod /\ seg - ackbuf.seq < BlockMod
      BY <2>1, <1>0
    <3> QED BY <3>1, <3>2, <2>1, <1>0, SameBlock
  <2>3. n = seg
    BY <2>1, <2>2, <1>0
  <2>4. /\ seg' = seg + 1 /\ UNCHANGED <<rcvd, lastblock, client>>
        /\ sendblock' = NextBlock(sendblock)
        /\ pc' = IF size = SEGSIZE THEN "readit" ELSE "done"
        /\ inbox' = Fresh(inbox, seg + 1) /\ toServer' = Fresh(toServer, seg + 1)
        /\ toClient' = Fresh(toClient, seg + 1)
    BY <1>7 DEF AckExpected, Acknowledged, clientVars
  <2>5. sendblock' = seg' % BlockMod
    BY <2>1, <2>4, <1>0, NextWraps DEF NextBlock
  <2>6. pc' = "done" => n = N
    BY <1>7, <2>3, <2>4, <1>0
    DEF AckExpected, Acknowledged, RingInv, Sending, Size, SEGSIZE
  <2>7. ASSUME NEW m \in toClient' PROVE PacketOK(m)'
    <3>1. m \in toClient /\ m.seq > (seg + 1) - PacketLife /\ m.seq \in Nat /\ PacketOK(m)
      BY <2>4 DEF Fresh, ProtocolInv, TypeInv, TypeOK, Packet
    <3> QED BY <3>1, <2>4, <1>0 DEF PacketOK
  <2>8. ASSUME NEW m \in (toServer \cup inbox)' PROVE ReplyOK(m)'
    <3>1. /\ m \in toServer \cup inbox /\ m.seq > (seg + 1) - PacketLife
          /\ m.seq \in Nat /\ ReplyOK(m)
      BY <2>4 DEF Fresh, ProtocolInv, TypeInv, TypeOK, Reply
    <3> QED BY <3>1, <2>4, <1>0 DEF ReplyOK
  <2> QED
    BY <1>0, <2>3, <2>4, <2>5, <2>6, <2>7, <2>8 DEF ProtocolInv, StepByStep, InOrder
<1>8. CASE AckOther
  BY <1>8, ProtocolKept DEF AckOther, SynchNet, clientVars
<1>9. CASE ExitSignal
  BY <1>9, ProtocolKept DEF ExitSignal, network, clientVars
<1>10. ASSUME NEW m \in toServer, Arrive(m) PROVE ProtocolInv'
  BY <1>10, ProtocolKept DEF Arrive, clientVars
<1>11. ASSUME NEW m \in toServer \cup toClient, Lose(m) PROVE ProtocolInv'
  BY <1>11, ProtocolKept DEF Lose, clientVars
<1>12. ASSUME NEW m \in toClient, ClientData(m) PROVE ProtocolInv'
  <2>1. /\ m.seq \in Nat /\ m.block = m.seq % BlockMod /\ m.data = m.seq
        /\ m.size = Size(m.seq) /\ m.seq <= seg /\ seg < m.seq + PacketLife
    BY DEF ProtocolInv, PacketOK, TypeInv, TypeOK, Packet
  <2>2. lastblock = n % BlockMod /\ n < N /\ client = "run"
    BY <1>12 DEF ClientData, ProtocolInv
  <2>3. NextBlock(lastblock) = (n + 1) % BlockMod
    BY <2>2, <1>0, NextWraps DEF NextBlock
  <2>4. toClient' \subseteq toClient /\ UNCHANGED <<pc, sendblock, ackbuf, inbox, seg>>
    BY <1>12 DEF ClientData
  <2>5. CASE /\ m.block = NextBlock(lastblock)
             /\ rcvd' = Append(rcvd, m.data)
             /\ lastblock' = m.block
             /\ client' = IF m.size = SEGSIZE THEN "run" ELSE "fin"
             /\ toServer' = toServer \cup {Ack(m.block, m.seq)}
    <3>1. m.seq = n + 1
      <4>1. m.seq % BlockMod = (n + 1) % BlockMod
        BY <2>1, <2>3, <2>5
      <4>2. m.seq - (n + 1) < BlockMod /\ (n + 1) - m.seq < BlockMod /\ n + 1 \in Nat
        BY <2>1, <1>0
      <4> QED BY <4>1, <4>2, <2>1, <1>0, SameBlock
    <3>2. Len(rcvd') = n + 1 /\ n + 1 = seg
      BY <2>1, <2>5, <3>1, <1>0
    <3>3. InOrder'
      BY <2>1, <2>5, <3>1, <1>0 DEF InOrder, ProtocolInv
    <3>4. ReplyOK(Ack(m.block, m.seq))'
      BY <2>1, <2>4, <3>1, <3>2, <1>0 DEF ReplyOK, Ack
    <3>5. ASSUME NEW r, ReplyOK(r), r.seq \in Nat PROVE ReplyOK(r)'
      BY <3>2, <3>5, <2>4, <1>0 DEF ReplyOK
    <3>6. \A r \in (toServer \cup inbox)' : ReplyOK(r)'
      BY <2>4, <2>5, <3>4, <3>5 DEF ProtocolInv, TypeInv, TypeOK, Reply
    <3>7. pc' = "got" => ReplyOK(ackbuf)'
      BY <2>4, <3>5 DEF ProtocolInv, TypeInv, TypeOK, Reply
    <3>8. \A r \in toClient' : PacketOK(r)'
      BY <2>4 DEF ProtocolInv, PacketOK
    <3>9. /\ client' = "run" => n + 1 < N
          /\ client' # "gone" /\ n + 1 <= N /\ pc' # "done"
      BY <2>1, <2>2, <2>4, <2>5, <3>1, <1>0 DEF Size, SEGSIZE, ProtocolInv
    <3>10. lastblock' = Len(rcvd') % BlockMod /\ sendblock' = seg' % BlockMod /\ StepByStep'
      BY <2>1, <2>4, <2>5, <3>1, <3>2, <1>0 DEF ProtocolInv, StepByStep
    <3> QED
      BY <3>2, <3>3, <3>6, <3>7, <3>8, <3>9, <3>10 DEF ProtocolInv
  <2>6. CASE /\ UNCHANGED clientVars
             /\ toServer' \subseteq toServer \cup {Ack(m.block, m.seq)}
             /\ m.block = lastblock \/ toServer' = toServer
    <3>1. \A r : (PacketOK(r) <=> PacketOK(r)') /\ (ReplyOK(r) <=> ReplyOK(r)')
      BY <2>4, <2>6 DEF PacketOK, ReplyOK, clientVars
    <3>2. \A r \in toServer' : ReplyOK(r)
      <4>1. CASE m.block = lastblock
        <5>1. m.seq % BlockMod = n % BlockMod
          BY <4>1, <2>1, <2>2
        <5>2. m.seq - n < BlockMod /\ n - m.seq < BlockMod
          BY <2>1, <1>0
        <5>3. m.seq = n
          BY <5>1, <5>2, <2>1, <1>0, SameBlock
        <5>4. ReplyOK(Ack(m.block, m.seq))
          BY <2>1, <5>3, <1>0 DEF ReplyOK, Ack
        <5> QED BY <5>4, <2>6 DEF ProtocolInv
      <4>2. CASE toServer' = toServer
        BY <4>2 DEF ProtocolInv
      <4> QED BY <4>1, <4>2, <2>6
    <3> QED BY <2>4, <2>6, <3>1, <3>2 DEF ProtocolInv, StepByStep, InOrder, clientVars
  <2> QED BY <1>12, <2>5, <2>6 DEF ClientData
<1>13. CASE ClientResend
  <2>1. UNCHANGED <<pc, ackbuf, sendblock, lastblock, rcvd, client, seg, inbox, toClient>>
        /\ toServer' = toServer \cup {Ack(lastblock, n)}
    BY <1>13 DEF ClientResend, clientVars
  <2>2. ReplyOK(Ack(lastblock, n))
    BY <1>0 DEF ReplyOK, Ack, ProtocolInv
  <2>3. \A m : (PacketOK(m) <=> PacketOK(m)') /\ (ReplyOK(m) <=> ReplyOK(m)')
    BY <2>1 DEF PacketOK, ReplyOK
  <2> QED BY <2>1, <2>2, <2>3 DEF ProtocolInv, StepByStep, InOrder
<1>14. CASE ClientAborts
  <2>1. /\ UNCHANGED <<pc, ackbuf, sendblock, lastblock, rcvd, seg, inbox, toClient>>
        /\ toServer' \subseteq toServer \cup {Error(seg)}
        /\ client = "run" /\ client' = "gone"
    BY <1>14 DEF ClientAborts
  <2>2. ReplyOK(Error(seg))
    BY DEF ReplyOK, Error
  <2>3. \A m : (PacketOK(m) <=> PacketOK(m)') /\ (ReplyOK(m) <=> ReplyOK(m)')
    BY <2>1 DEF PacketOK, ReplyOK
  <2> QED BY <2>1, <2>2, <2>3 DEF ProtocolInv, StepByStep, InOrder
<1>15. CASE UNCHANGED vars
  BY <1>15, ProtocolKept DEF vars, network, clientVars
<1>16. CASE Ignore
  BY <1>16, ProtocolKept DEF Ignore, network, clientVars
<1>17. CASE ClientBabbles
  <2>1. ReplyOK(Other(seg))
    BY DEF ReplyOK, Other
  <2>2. /\ UNCHANGED <<sendblock, lastblock, rcvd, client, seg, toServer, toClient>>
        /\ inbox' \subseteq inbox /\ pc' = "got" /\ ackbuf' = Other(seg)
    BY <1>17 DEF ClientBabbles, Receive, clientVars
  <2>3. \A m : (PacketOK(m) <=> PacketOK(m)') /\ (ReplyOK(m) <=> ReplyOK(m)')
    BY <2>2 DEF PacketOK, ReplyOK
  <2> QED BY <2>1, <2>2, <2>3 DEF ProtocolInv, StepByStep, InOrder
<1> QED
  BY <1>1, <1>2, <1>3, <1>4, <1>5, <1>6, <1>7, <1>8, <1>9, <1>10, <1>11, <1>12,
     <1>13, <1>14, <1>15, <1>16, <1>17 DEF Next, Server, Environment

LEMMA ProtocolInvariant == Spec => []ProtocolInv
BY TypeInvariant, RingInvariant, ProtocolInit, ProtocolStep, PTL DEF Spec

\* The client's file is always the first segments of the served one, for any
\* length, also beyond the wrap of the block number.
THEOREM DeliveredInOrder == Spec => []InOrder
BY ProtocolInvariant, PTL DEF ProtocolInv

\* sendtftp never goes on before the client has stored the block.
THEOREM OneBlockAtATime == Spec => []StepByStep
BY ProtocolInvariant, PTL DEF ProtocolInv
-----------------------------------------------------------------------------
(* The refinement *)

LEMMA FileInit == Init => FT!Init
BY DEF Init, RwInit, FT!Init, SenderState, ReceiverState

\* A step of the server that leaves the client alone either changes nothing the
\* abstract transfer sees or ends it on the sender's side.
LEMMA SenderMoves ==
    ASSUME UNCHANGED clientVars, pc \notin Terminal,
           pc' \in {"send", "wait", "got", "readit", "aborted", "nak", "exited"}
    PROVE  [FT!Next]_FT!ftvars
<1>1. SenderState = "busy" /\ SenderState' \in {"busy", "failed"}
  BY DEF SenderState, Terminal
<1>2. ReceiverState' = ReceiverState /\ rcvd' = rcvd
  BY DEF ReceiverState, clientVars
<1> QED BY <1>1, <1>2 DEF FT!Next, FT!SenderFails, FT!ftvars

LEMMA SameView ==
    ASSUME UNCHANGED <<rcvd, client, pc>>
    PROVE  [FT!Next]_FT!ftvars
BY DEF FT!ftvars, SenderState, ReceiverState

LEMMA FileStep ==
    TypeInv /\ ProtocolInv /\ ProtocolInv' /\ [Next]_vars => [FT!Next]_FT!ftvars
<1> SUFFICES ASSUME TypeInv, ProtocolInv, ProtocolInv', [Next]_vars
             PROVE  [FT!Next]_FT!ftvars
  OBVIOUS
<1>1. CASE ReadIt
  BY <1>1, SenderMoves DEF ReadIt, NextBuffer, Terminal
<1>2. CASE SendData
  BY <1>2, SenderMoves DEF SendData, Terminal
<1>3. CASE PeerFails
  BY <1>3, SenderMoves DEF PeerFails, Terminal
<1>4. ASSUME NEW m \in inbox, Receive(m) PROVE [FT!Next]_FT!ftvars
  BY <1>4, SenderMoves DEF Receive, Terminal
<1>5. CASE Alarm
  BY <1>5, SenderMoves DEF Alarm, AlarmTo, Terminal
<1>6. CASE GiveUp
  BY <1>6, SenderMoves DEF GiveUp, Terminal
<1>7. CASE AckExpected
  <2>1. pc = "got" /\ pc' \in {"readit", "done"} /\ UNCHANGED clientVars
    BY <1>7 DEF AckExpected, Acknowledged
  <2>2. CASE pc' = "readit"
    BY <2>1, <2>2, SenderMoves DEF Terminal
  <2>3. CASE pc' = "done"
    <3>1. Len(rcvd) = N /\ client = "fin"
      <4>1. rcvd' = rcvd /\ client' = client
        BY <2>1 DEF clientVars
      <4>2. Len(rcvd) = N
        BY <2>3, <4>1 DEF ProtocolInv
      <4>3. client \in {"run", "fin", "gone"}
        BY DEF TypeInv, TypeOK
      <4> QED BY <4>2, <4>3, TransferAssumption DEF ProtocolInv
    <3>2. SenderState = "busy" /\ SenderState' = "complete"
      BY <2>1, <2>3 DEF SenderState
    <3>3. ReceiverState = "complete" /\ ReceiverState' = ReceiverState /\ rcvd' = rcvd
      BY <2>1, <3>1 DEF ReceiverState, clientVars
    <3> QED BY <3>2, <3>3 DEF FT!Next, FT!SenderDone
  <2> QED BY <2>1, <2>2, <2>3
<1>8. CASE AckOther
  BY <1>8, SenderMoves DEF AckOther, SynchNet, Terminal
<1>9. CASE ExitSignal
  BY <1>9, SameView DEF ExitSignal, clientVars
<1>10. ASSUME NEW m \in toServer, Arrive(m) PROVE [FT!Next]_FT!ftvars
  BY <1>10, SameView DEF Arrive, clientVars
<1>11. ASSUME NEW m \in toServer \cup toClient, Lose(m) PROVE [FT!Next]_FT!ftvars
  BY <1>11, SameView DEF Lose, clientVars
<1>12. ASSUME NEW m \in toClient, ClientData(m) PROVE [FT!Next]_FT!ftvars
  <2>1. pc' = pc /\ client = "run" /\ rcvd \in Seq(Nat) /\ N \in Nat
    BY <1>12, TransferAssumption DEF ClientData, TypeInv, TypeOK
  <2>2. CASE UNCHANGED clientVars
    BY <2>1, <2>2, SameView DEF clientVars
  <2>3. CASE /\ rcvd' = Append(rcvd, m.data)
             /\ client' = IF m.size = SEGSIZE THEN "run" ELSE "fin"
    <3>1. m.size \in 0..SEGSIZE /\ m.data \in Nat
      BY DEF TypeInv, TypeOK, Packet
    <3>2. m.data = m.seq /\ m.size = Size(m.seq)
      BY DEF ProtocolInv, PacketOK
    <3>3. /\ Len(rcvd') = Len(rcvd) + 1 /\ Len(rcvd) + 1 <= N
          /\ rcvd'[Len(rcvd) + 1] = m.data
      BY <2>1, <2>3, <3>1 DEF ProtocolInv
    <3>4. m.data = Len(rcvd) + 1
      <4>1. Len(rcvd) + 1 \in 1..Len(rcvd')
        BY <2>1, <3>3
      <4>2. \A k \in 1..Len(rcvd') : rcvd'[k] = k
        BY DEF ProtocolInv, InOrder
      <4> QED BY <4>1, <4>2, <3>3
    <3>5. client' = "run" \/ (client' = "fin" /\ Len(rcvd') = N)
      BY <2>1, <2>3, <3>2, <3>3, <3>4 DEF Size, SEGSIZE
    <3>6. SenderState' = SenderState /\ ReceiverState = "busy"
          /\ \/ ReceiverState' = ReceiverState
             \/ Len(rcvd') = N /\ ReceiverState' = "complete"
      BY <2>1, <3>5 DEF SenderState, ReceiverState
    <3>7. Len(rcvd) < N /\ rcvd' = Append(rcvd, Len(rcvd) + 1)
      BY <2>1, <2>3, <3>3, <3>4
    <3> QED BY <3>6, <3>7 DEF FT!Next, FT!Deliver
  <2> QED BY <1>12, <2>2, <2>3 DEF ClientData
<1>13. CASE ClientResend
  BY <1>13, SameView DEF ClientResend, clientVars
<1>14. CASE ClientAborts
  <2>1. SenderState' = SenderState /\ rcvd' = rcvd
    BY <1>14 DEF ClientAborts, SenderState
  <2>2. ReceiverState = "busy" /\ ReceiverState' = "failed"
    BY <1>14 DEF ClientAborts, ReceiverState
  <2> QED BY <2>1, <2>2 DEF FT!Next, FT!ReceiverFails
<1>15. CASE UNCHANGED vars
  BY <1>15, SameView DEF vars, clientVars
<1>16. CASE Ignore
  BY <1>16, SenderMoves DEF Ignore, Terminal
<1>17. CASE ClientBabbles
  BY <1>17, SenderMoves DEF ClientBabbles, Receive, Terminal
<1> QED
  BY <1>1, <1>2, <1>3, <1>4, <1>5, <1>6, <1>7, <1>8, <1>9, <1>10, <1>11, <1>12,
     <1>13, <1>14, <1>15, <1>16, <1>17 DEF Next, Server, Environment

\* Every download is a file transfer: what the two ends see is a behaviour of
\* FileTransfer, for any file length, wrap modulus and number of alarms.
THEOREM DownloadIsFileTransfer == Spec => ImplementsFileTransfer
<1>1. ProtocolInv /\ TypeInv /\ ProtocolInv' /\ [Next]_vars => [FT!Next]_FT!ftvars
  BY FileStep
<1> QED
  BY <1>1, FileInit, TypeInvariant, ProtocolInvariant, PTL
  DEF Spec, ImplementsFileTransfer, FT!Spec
=============================================================================
