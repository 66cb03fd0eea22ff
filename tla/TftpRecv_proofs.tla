--------------------------- MODULE TftpRecv_proofs ---------------------------
(***************************************************************************)
(* Proofs about TftpRecv, for every file length, wrap modulus, packet      *)
(* lifetime and number of alarms: what was acknowledged is saved, in       *)
(* order, the file is closed before the client has the final ACK, and an   *)
(* upload is a FileTransfer.                                               *)
(***************************************************************************)
EXTENDS TftpRecv, NumberLemmas, TLAPS

Packet == [op : {"DATA", "ERROR", "OTHER", "none"}, block : Nat, data : Nat, size : Nat,
           seq : Nat]

Buffers == [0..1 -> [counter : Int, pkt : Packet]]

\* The buffers and the file.
TypeInv ==
    /\ bfs \in Buffers
    /\ current \in 0..1 /\ nextone \in 0..1
    /\ disk \in Seq(Nat)

\* The final ACK has been sent: only then are the two numbers the same.
Late == ackblock = recvblock

\* A DATA packet on its way to recvtftp is a block the client did send, and not
\* older than PacketLife allows.
DataOK(m) ==
    /\ m \in Packet
    /\ m.op = "DATA" => /\ m = Data(m.seq)
                        /\ m.seq <= sent
                        /\ m.seq >= seg - PacketLife

\* An ACK on its way to the client is of a block that was accepted.
AckOK(a) ==
    /\ a.seq \in Nat
    /\ a = Ack(a.seq % BlockMod, a.seq)
    /\ a.seq >= seg - PacketLife
    /\ a.seq <= IF Late THEN seg ELSE seg - 1

\* The wrapped numbers follow the blocks; the client is at the block awaited or
\* at the one before; nothing under way can be taken for another block.
ProtocolInv ==
    /\ seg \in 1..N
    /\ recvblock = seg % BlockMod
    /\ ~Late => ackblock = (seg - 1) % BlockMod
    /\ Late => pc \in {"dally", "dallied", "done", "aborted"}
    /\ pc \in {"dally", "dallied", "done"} => Late
    /\ Late \/ pc \in {"finish", "close", "lastack"} => seg = N /\ sent = N
    /\ sent \in (seg - 1)..seg
    /\ sentblock = sent % BlockMod
    /\ client = "fin" => Late
    /\ pc = "got" => DataOK(bfs[current].pkt)
    /\ \A m \in inbox \cup toServer : DataOK(m)
    /\ \A a \in toClient : AckOK(a)

\* Nothing waits to be written.
UpToDate ==
    /\ nextone = current
    /\ bfs[1 - current].counter = BF_FREE
    /\ bfs[current].counter = BF_ALLOC
    /\ Len(disk) = seg - 1

\* Block k waits in the other buffer, and is the next one to be written.
Behind(k) ==
    /\ nextone = 1 - current
    /\ bfs[1 - current].counter >= -1
    /\ bfs[1 - current].pkt.data = k
    /\ bfs[current].counter = BF_ALLOC
    /\ Len(disk) = k - 1

\* The block before was accepted and its ACK not yet sent.
Quiet == sent = seg - 1 /\ \A a \in toClient : a.seq < seg - 1

\* As long as no open and no write has failed.  A block may be acknowledged and
\* not yet written only between send_ack and write_behind, where nothing ends
\* the transfer.
DiskInv ==
    ~diskError =>
      /\ ofile \in {"none", "open"}
      /\ DiskInOrder
      /\ pc \in {"wait", "got", "exited"} => UpToDate
      /\ pc = "flush" => UpToDate \/ Behind(seg - 1)
      /\ pc \in {"ack", "aborted"} /\ ~Late => UpToDate \/ (Behind(seg - 1) /\ Quiet)
      /\ pc = "finish" => Behind(N)
      /\ Late \/ pc \in {"close", "lastack"} => Len(disk) = N
      /\ Late \/ pc = "lastack" => ofile = "none"

\* The inductive invariant.
IInv == TypeInv /\ ProtocolInv /\ DiskInv

-----------------------------------------------------------------------------
(* Types *)

LEMMA WrapType == \A k \in Nat : k % BlockMod \in 0..BlockMod-1
BY UploadAssumption

LEMMA DataType == \A k \in Nat : Data(k) \in Packet
BY UploadAssumption DEF Data, Packet, Size, SEGSIZE

\* A packet of another kind is never taken for a block.
LEMMA OtherOK == seg \in Nat => DataOK(Other(seg))
BY DEF Other, DataOK, Packet

LEMMA FreshPart == \A S, q : Fresh(S, q) = {m \in S : m.seq > q - PacketLife}
BY DEF Fresh

LEMMA TypeInit == Init => TypeInv
<1> SUFFICES ASSUME Init PROVE TypeInv
  OBVIOUS
<1>1. NoPacket \in Packet /\ Data(1) \in Packet
  BY DataType DEF NoPacket, Packet
<1>2. bfs \in Buffers
  BY <1>1 DEF Init, RwInit, Buffers, BF_ALLOC, BF_FREE
<1> QED BY <1>2 DEF Init, RwInit, TypeInv

\* write_behind keeps the types.
LEMMA WriteBehindType ==
    ASSUME TypeInv, NEW b \in Buffers, NEW r, WriteBehind(b, r)
    PROVE  r \in Buffers /\ nextone' \in 0..1 /\ disk' \in Seq(Nat)
<1>1. r \in Buffers
  BY DEF WriteBehind, Buffers, BF_FREE
<1>2. nextone' \in 0..1
  BY DEF WriteBehind, TypeInv
<1>3. disk' \in Seq(Nat)
  <2>1. b[nextone].pkt.data \in Nat
    BY DEF TypeInv, Buffers, Packet
  <2>2. disk' = disk \/ disk' = Append(disk, b[nextone].pkt.data)
    BY DEF WriteBehind, file
  <2> QED BY <2>1, <2>2 DEF TypeInv
<1> QED BY <1>1, <1>2, <1>3

\* The same of the flush that follows an acknowledgement.
LEMMA FlushType ==
    ASSUME TypeInv, \E r \in {bfs, Freed(bfs)} : WriteBehind(bfs, r) /\ bfs' = r,
           current' = current
    PROVE  TypeInv'
BY WriteBehindType DEF TypeInv

LEMMA TypeStep == TypeInv /\ ProtocolInv /\ [Next]_vars => TypeInv'
<1> SUFFICES ASSUME TypeInv, ProtocolInv, [Next]_vars PROVE TypeInv'
  OBVIOUS
<1> USE DEF TypeInv
<1>1. CASE SendAck
  BY <1>1 DEF SendAck, buffers, file
<1>2. CASE FlushBuffer
  BY <1>2, FlushType DEF FlushBuffer
<1>3. CASE GiveUp
  BY <1>3 DEF GiveUp, buffers
<1>4. CASE DataExpected
  <2> DEFINE queued == [bfs EXCEPT ![current].counter = bfs[current].pkt.size]
  <2>1. WriteIt
    BY <1>4 DEF DataExpected, Accept
  <2>2. queued \in Buffers
    <3>1. current \in 0..1 /\ bfs[current].pkt.size \in Int
      BY DEF Buffers, Packet
    <3> QED BY <3>1 DEF Buffers
  <2>3. PICK r :
          /\ WriteBehind(queued, r) \/ (r = queued /\ UNCHANGED <<nextone, file>>)
          /\ bfs' = [r EXCEPT ![1 - current].counter = BF_ALLOC]
          /\ current' = 1 - current
    BY <2>1 DEF WriteIt
  <2> HIDE DEF queued
  <2>4. r \in Buffers /\ nextone' \in 0..1 /\ disk' \in Seq(Nat)
    BY <2>2, <2>3, WriteBehindType DEF file
  <2>5. bfs' \in Buffers
    BY <2>3, <2>4 DEF Buffers, BF_ALLOC
  <2> QED BY <2>3, <2>4, <2>5
<1>5. CASE DataOther
  BY <1>5 DEF DataOther, buffers, file
<1>6. CASE FinalFlush
  BY <1>6, FlushType DEF FinalFlush
<1>7. CASE FinalClose
  BY <1>7 DEF FinalClose, buffers
<1>8. CASE FinalAck
  BY <1>8 DEF FinalAck, buffers, file
<1>9. CASE DallyEnd
  BY <1>9 DEF DallyEnd, buffers, file
<1>10. ASSUME NEW m \in inbox \cup {Other(seg)}, Receive(m) PROVE TypeInv'
  <2>1. m \in Packet
    BY OtherOK, UploadAssumption DEF ProtocolInv, DataOK
  <2>2. bfs' \in Buffers
    BY <1>10, <2>1 DEF Receive, Buffers
  <2> QED BY <1>10, <2>2 DEF Receive, file
<1>11. ASSUME NEW m \in inbox \cup {Other(seg)}, DallyRead(m) PROVE TypeInv'
  BY <1>11 DEF DallyRead, buffers, file
<1>12. CASE PeerFails
  BY <1>12 DEF PeerFails, buffers
<1>13. CASE DallyFails
  BY <1>13 DEF DallyFails, buffers, file
<1>14. CASE Alarm
  BY <1>14 DEF Alarm, AlarmCounts, buffers, file
<1>15. ASSUME NEW m \in toServer \cup toClient, Lose(m) PROVE TypeInv'
  BY <1>15 DEF Lose, buffers, file
<1>16. ASSUME NEW m \in toServer, Arrive(m) PROVE TypeInv'
  BY <1>16 DEF Arrive, buffers, file
<1>17. ASSUME NEW m \in toClient, ClientAck(m) PROVE TypeInv'
  BY <1>17 DEF ClientAck, buffers, file
<1>18. CASE ClientResend
  BY <1>18 DEF ClientResend, buffers, file
<1>19. CASE ClientAborts
  BY <1>19 DEF ClientAborts, buffers, file
<1>20. CASE ExitSignal
  BY <1>20 DEF ExitSignal, buffers, file
<1>21. CASE UNCHANGED vars
  BY <1>21 DEF vars, buffers, file
<1>22. CASE Ignore
  BY <1>22 DEF Ignore, buffers, file
<1> QED
  BY <1>1, <1>2, <1>3, <1>4, <1>5, <1>6, <1>7, <1>8, <1>9, <1>10, <1>11, <1>12,
     <1>13, <1>14, <1>15, <1>16, <1>17, <1>18, <1>19, <1>20, <1>21, <1>22
  DEF Next, Server, Environment, ClientBabbles

-----------------------------------------------------------------------------
(* The protocol *)

LEMMA Constants ==
    /\ N \in Nat /\ N >= 1 /\ BlockMod \in Nat /\ BlockMod >= 2
    /\ PacketLife \in Nat /\ PacketLife >= 1 /\ PacketLife < BlockMod
BY UploadAssumption

\* The block numbers of two blocks in a row differ.
LEMMA NotPrevious == \A k \in Nat : k % BlockMod # (k + 1) % BlockMod
<1> SUFFICES ASSUME NEW k \in Nat, k % BlockMod = (k + 1) % BlockMod PROVE FALSE
  OBVIOUS
<1>1. k - (k + 1) < BlockMod /\ (k + 1) - k < BlockMod /\ k + 1 \in Nat /\ BlockMod > 0
  BY Constants
<1> QED BY <1>1, Constants, SameBlock

LEMMA ProtocolInit == Init => ProtocolInv
<1> SUFFICES ASSUME Init PROVE ProtocolInv
  OBVIOUS
<1>1. 0 % BlockMod = 0 /\ 0 \in Nat
  BY UploadAssumption
<1>2. /\ seg = 1 /\ sent = 0 /\ recvblock = 1 % BlockMod /\ ackblock = 0
      /\ sentblock = 0 /\ client = "run" /\ pc = "ack"
      /\ inbox = {} /\ toServer = {} /\ toClient = {}
  BY DEF Init
<1>3. ~Late
  <2>1. 0 % BlockMod # (0 + 1) % BlockMod
    BY NotPrevious, <1>1
  <2> QED BY <1>1, <1>2, <2>1 DEF Late
<1> QED BY <1>1, <1>2, <1>3, Constants DEF ProtocolInv

\* A step that advances neither end and adds no datagram keeps the invariant.
LEMMA ProtocolKept ==
    ASSUME ProtocolInv,
           UNCHANGED <<seg, recvblock, ackblock, sent, sentblock, client>>,
           toClient' \subseteq toClient,
           inbox' \cup toServer' \subseteq inbox \cup toServer,
           \/ UNCHANGED <<pc, bfs, current>>
           \/ pc' = "got" /\ pc = "wait" /\ DataOK(bfs'[current'].pkt)
           \/ pc \in {"ack", "flush", "wait", "got"} /\
              pc' \in {"ack", "flush", "wait", "aborted", "exited"}
           \/ pc = "finish" /\ pc' = "close"
           \/ pc = "close" /\ pc' = "lastack"
           \/ pc = "dally" /\ pc' \in {"dallied", "done", "aborted"}
           \/ pc = "dallied" /\ pc' \in {"done", "aborted"}
    PROVE  ProtocolInv'
<1>1. (Late <=> Late') /\ \A m : (DataOK(m) <=> DataOK(m)') /\ (AckOK(m) <=> AckOK(m)')
  BY DEF Late, DataOK, AckOK
<1> USE DEF ProtocolInv
<1>2. pc' = "got" => DataOK(bfs[current].pkt)'
  <2>1. CASE UNCHANGED <<pc, bfs, current>> BY <2>1, <1>1
  <2>2. CASE pc' = "got" /\ pc = "wait" /\ DataOK(bfs'[current'].pkt) BY <2>2, <1>1
  <2> QED BY <2>1, <2>2
<1> HIDE DEF ProtocolInv
<1>3. /\ Late' => pc' \in {"dally", "dallied", "done", "aborted"}
      /\ pc' \in {"dally", "dallied", "done"} => Late'
      /\ Late' \/ pc' \in {"finish", "close", "lastack"} => seg' = N /\ sent' = N
  BY <1>1 DEF ProtocolInv
<1>4. /\ seg' \in 1..N
      /\ recvblock' = seg' % BlockMod
      /\ ~Late' => ackblock' = (seg' - 1) % BlockMod
      /\ sent' \in (seg' - 1)..seg'
      /\ sentblock' = sent' % BlockMod
      /\ client' = "fin" => Late'
  BY <1>1 DEF ProtocolInv
<1>5. /\ \A m \in (inbox \cup toServer)' : DataOK(m)'
      /\ \A a \in toClient' : AckOK(a)'
  BY <1>1 DEF ProtocolInv
<1> QED
  BY <1>2, <1>3, <1>4, <1>5 DEF ProtocolInv

\* What the steps below use of the invariant: block numbers and blocks.
LEMMA Positions ==
    ASSUME ProtocolInv
    PROVE  /\ seg \in Nat /\ seg >= 1 /\ seg <= N
           /\ sent \in Nat /\ sent <= seg /\ seg <= sent + 1
           /\ recvblock = seg % BlockMod /\ sentblock = sent % BlockMod
BY Constants DEF ProtocolInv

\* A packet with the number awaited is the block awaited, and no other ACK has
\* the number the client waits for.
LEMMA ExpectedBlock ==
    ASSUME ProtocolInv, NEW m, DataOK(m), m.op = "DATA", m.block = recvblock
    PROVE  m = Data(seg) /\ m.seq = seg /\ sent = seg
<1>1. /\ m.seq \in Nat /\ m = Data(m.seq) /\ m.seq <= sent /\ m.seq >= seg - PacketLife
  BY DEF DataOK, Packet
<1>2. m.block = m.seq % BlockMod
  <2> DEFINE q == m.seq
  <2>1. m = Data(q) BY <1>1
  <2> HIDE DEF q
  <2>2. m.block = q % BlockMod BY <2>1 DEF Data
  <2> QED BY <2>2 DEF q
<1>3. m.seq = seg
  <2>1. m.seq % BlockMod = seg % BlockMod
    BY <1>2, Positions
  <2>2. m.seq - seg < BlockMod /\ seg - m.seq < BlockMod /\ seg \in Nat /\ BlockMod > 0
    BY <1>1, Positions, Constants
  <2> QED BY <2>1, <2>2, <1>1, Constants, SameBlock
<1> QED BY <1>1, <1>3, Positions

LEMMA ExpectedAck ==
    ASSUME ProtocolInv, NEW a, AckOK(a), a.block = sentblock
    PROVE  a.seq = sent
<1>1. a.seq \in Nat /\ a.seq >= seg - PacketLife /\ a.seq <= seg
  BY Positions DEF AckOK
<1>2. a.block = a.seq % BlockMod
  <2> DEFINE q == a.seq
  <2>1. a = Ack(q % BlockMod, q) BY DEF AckOK
  <2> HIDE DEF q
  <2>2. a.block = q % BlockMod BY <2>1 DEF Ack
  <2> QED BY <2>2 DEF q
<1>3. a.seq % BlockMod = sent % BlockMod
  BY <1>2, Positions
<1>4. a.seq - sent < BlockMod /\ sent - a.seq < BlockMod /\ sent \in Nat /\ BlockMod > 0
  BY <1>1, Positions, Constants
<1> QED BY <1>1, <1>3, <1>4, Constants, SameBlock

LEMMA ProtocolStep == TypeInv /\ ProtocolInv /\ [Next]_vars => ProtocolInv'
<1> SUFFICES ASSUME TypeInv, ProtocolInv, [Next]_vars PROVE ProtocolInv'
  OBVIOUS
<1>0. /\ seg \in Nat /\ seg >= 1 /\ seg <= N
      /\ sent \in Nat /\ sent <= seg /\ seg <= sent + 1
      /\ recvblock = seg % BlockMod /\ sentblock = sent % BlockMod
  BY Positions
<1>1. CASE SendAck
  <2> DEFINE new == Ack(ackblock, seg - 1)
  <2>1. /\ UNCHANGED <<seg, recvblock, ackblock, sent, sentblock, client>>
        /\ UNCHANGED <<inbox, toServer>> /\ toClient' = toClient \cup {new}
        /\ pc = "ack" /\ pc' = "flush"
    BY <1>1 DEF SendAck, clientVars
  <2>2. ~Late /\ ackblock = (seg - 1) % BlockMod
    BY <2>1 DEF ProtocolInv
  <2>3. AckOK(new)
    BY <2>2, <1>0, Constants DEF AckOK, Ack
  <2>4. (Late <=> Late') /\ \A m : (DataOK(m) <=> DataOK(m)') /\ (AckOK(m) <=> AckOK(m)')
    BY <2>1 DEF Late, DataOK, AckOK
  <2> HIDE DEF new
  <2>5. \A a \in toClient' : AckOK(a)'
    BY <2>1, <2>3, <2>4 DEF ProtocolInv
  <2> QED BY <2>1, <2>2, <2>4, <2>5 DEF ProtocolInv
<1>2. CASE FlushBuffer
  BY <1>2, ProtocolKept DEF FlushBuffer, network, clientVars
<1>3. CASE GiveUp
  BY <1>3, ProtocolKept DEF GiveUp, network, clientVars
<1>4. CASE DataExpected
  <2>1. /\ pc = "got" /\ Got.op = "DATA" /\ Got.block = recvblock /\ DataOK(Got)
        /\ UNCHANGED <<sent, sentblock, client>>
        /\ inbox' = Fresh(inbox, seg')
        /\ toServer' = Fresh(toServer, seg')
        /\ toClient' = Fresh(toClient, seg' - 1)
    BY <1>4 DEF DataExpected, Accept, ProtocolInv, Got, clientVars
  <2>2. Got = Data(seg) /\ sent = seg /\ ~Late
    <3>1. ~Late BY <2>1 DEF ProtocolInv
    <3> QED BY <2>1, <3>1, ExpectedBlock
  <2>3. Got.size = Size(seg)
    BY <2>2 DEF Data
  <2>4. CASE /\ Got.size = SEGSIZE /\ ackblock' = recvblock
             /\ recvblock' = NextBlock(recvblock) /\ seg' = seg + 1 /\ pc' = "ack"
    <3>1. seg' \in 1..N
      BY <2>3, <2>4, <1>0, Constants DEF Size, SEGSIZE
    <3>2. recvblock' = seg' % BlockMod /\ ackblock' = (seg' - 1) % BlockMod
      <4>1. ((seg % BlockMod) + 1) % BlockMod = (seg + 1) % BlockMod
        <5>1. BlockMod \in Nat /\ BlockMod > 0
          BY Constants
        <5> QED BY <5>1, <1>0, NextWraps
      <4>2. recvblock' = (seg + 1) % BlockMod
        BY <4>1, <2>4, <1>0 DEF NextBlock
      <4>3. seg' - 1 = seg
        BY <2>4, <1>0
      <4> QED BY <4>2, <4>3, <2>4, <1>0
    <3>3. ~Late'
      BY <3>2, <2>4, <1>0, NotPrevious DEF Late
    <3>4. ASSUME NEW m \in (inbox \cup toServer)' PROVE DataOK(m)'
      <4>1. m \in inbox \cup toServer /\ m.seq > seg' - PacketLife
        BY <2>1, FreshPart
      <4>2. DataOK(m) BY <4>1 DEF ProtocolInv
      <4> QED BY <4>1, <4>2, <2>1, <2>4, <1>0, Constants DEF DataOK, Packet
    <3>5. ASSUME NEW a \in toClient' PROVE AckOK(a)'
      <4>1. a \in toClient /\ a.seq > (seg' - 1) - PacketLife
        BY <2>1, FreshPart
      <4>2. AckOK(a) BY <4>1 DEF ProtocolInv
      <4>3. a.seq >= seg' - PacketLife /\ a.seq <= seg' - 1
        BY <4>1, <4>2, <2>2, <2>4, <1>0, Constants DEF AckOK
      <4> QED BY <4>2, <4>3, <3>3 DEF AckOK
    <3>6. sent' \in (seg' - 1)..seg' /\ sentblock' = sent' % BlockMod
      BY <2>1, <2>2, <2>4, <1>0
    <3>7. client' # "fin"
      BY <2>1, <2>2 DEF ProtocolInv
    <3> QED BY <2>4, <3>1, <3>2, <3>3, <3>4, <3>5, <3>6, <3>7 DEF ProtocolInv
  <2>5. CASE /\ Got.size # SEGSIZE /\ pc' = "finish"
             /\ UNCHANGED <<ackblock, recvblock, seg>>
    <3>1. seg = N
      BY <2>3, <2>5, <1>0, Constants DEF Size
    <3>2. /\ Late <=> Late'
          /\ \A m : (DataOK(m) <=> DataOK(m)') /\ (AckOK(m) <=> AckOK(m)')
      BY <2>1, <2>5 DEF Late, DataOK, AckOK
    <3>3. \A m \in (inbox \cup toServer)' : DataOK(m)'
      BY <2>1, <3>2, FreshPart DEF ProtocolInv
    <3>4. \A a \in toClient' : AckOK(a)'
      BY <2>1, <3>2, FreshPart DEF ProtocolInv
    <3> QED
      BY <2>1, <2>2, <2>5, <3>1, <3>2, <3>3, <3>4 DEF ProtocolInv
  <2> QED BY <1>4, <2>4, <2>5 DEF DataExpected, Accept
<1>5. CASE DataOther
  BY <1>5, ProtocolKept DEF DataOther, SynchNet, clientVars
<1>6. CASE FinalFlush
  BY <1>6, ProtocolKept DEF FinalFlush, network, clientVars
<1>7. CASE FinalClose
  BY <1>7, ProtocolKept DEF FinalClose, network, clientVars
<1>8. CASE FinalAck
  <2>1. /\ UNCHANGED <<seg, recvblock, sent, sentblock, client, inbox, toServer>>
        /\ toClient' = toClient \cup {Ack(recvblock, seg)}
        /\ pc = "lastack" /\ pc' = "dally" /\ ackblock' = recvblock
    BY <1>8 DEF FinalAck, clientVars
  <2>2. Late' /\ seg = N /\ sent = N
    BY <2>1 DEF Late, ProtocolInv
  <2>3. \A m : DataOK(m) <=> DataOK(m)'
    BY <2>1 DEF DataOK
  <2>4. ASSUME NEW a \in toClient PROVE AckOK(a)'
    <3>1. AckOK(a) BY DEF ProtocolInv
    <3> QED BY <3>1, <2>1, <2>2, <1>0 DEF AckOK
  <2>5. AckOK(Ack(recvblock, seg))'
    BY <2>1, <2>2, <1>0, Constants DEF AckOK, Ack
  <2>6. \A a \in toClient' : AckOK(a)'
    BY <2>1, <2>4, <2>5
  <2> QED BY <2>1, <2>2, <2>3, <2>6 DEF ProtocolInv
<1>9. CASE DallyEnd
  <2>1. /\ UNCHANGED <<seg, recvblock, ackblock, sent, sentblock, client>>
        /\ UNCHANGED <<inbox, toServer>> /\ pc = "dallied" /\ pc' \in {"done", "aborted"}
        /\ toClient' \subseteq toClient \cup {Ack(ackblock, seg)}
    BY <1>9 DEF DallyEnd, clientVars
  <2>2. Late /\ Late'
    BY <2>1 DEF ProtocolInv, Late
  <2>3. \A m : (DataOK(m) <=> DataOK(m)') /\ (AckOK(m) <=> AckOK(m)')
    BY <2>1, <2>2 DEF DataOK, AckOK
  <2>4. AckOK(Ack(ackblock, seg))
    BY <2>2, <1>0, Constants DEF AckOK, Ack, Late
  <2>5. \A a \in toClient' : AckOK(a)'
    BY <2>1, <2>3, <2>4 DEF ProtocolInv
  <2> QED BY <2>1, <2>2, <2>3, <2>5 DEF ProtocolInv
<1>10. ASSUME NEW m \in inbox \cup {Other(seg)}, Receive(m) PROVE ProtocolInv'
  <2>1. bfs'[current'].pkt = m
    BY <1>10 DEF Receive, TypeInv, Buffers
  <2>2. DataOK(m)
    BY <1>0, OtherOK DEF ProtocolInv
  <2> QED BY <1>10, <2>1, <2>2, ProtocolKept DEF Receive, clientVars
<1>11. ASSUME NEW m \in inbox \cup {Other(seg)}, DallyRead(m) PROVE ProtocolInv'
  BY <1>11, ProtocolKept DEF DallyRead, clientVars
<1>12. CASE PeerFails
  BY <1>12, ProtocolKept DEF PeerFails, network, clientVars
<1>13. CASE DallyFails
  BY <1>13, ProtocolKept DEF DallyFails, network, clientVars
<1>14. CASE Alarm
  BY <1>14, ProtocolKept DEF Alarm, AlarmCounts, network, clientVars
<1>15. ASSUME NEW m \in toServer \cup toClient, Lose(m) PROVE ProtocolInv'
  BY <1>15, ProtocolKept DEF Lose, clientVars, buffers
<1>16. ASSUME NEW m \in toServer, Arrive(m) PROVE ProtocolInv'
  BY <1>16, ProtocolKept DEF Arrive, clientVars, buffers
<1>17. ASSUME NEW m \in toClient, ClientAck(m) PROVE ProtocolInv'
  <2>1. /\ client = "run" /\ toClient' \subseteq toClient
        /\ UNCHANGED <<pc, recvblock, ackblock, bfs, current, inbox, seg>>
    BY <1>17 DEF ClientAck, buffers
  <2>2. AckOK(m) BY DEF ProtocolInv
  <2>3. (Late <=> Late') /\ \A a : AckOK(a) <=> AckOK(a)'
    BY <2>1 DEF Late, AckOK
  <2>4. \A a \in toClient' : AckOK(a)'
    BY <2>1, <2>3 DEF ProtocolInv
  <2>5. CASE /\ m.block = sentblock /\ sent < N
             /\ sent' = sent + 1
             /\ sentblock' = NextBlock(sentblock)
             /\ toServer' = toServer \cup {Data(sent + 1)}
             /\ UNCHANGED client
    <3>1. ~Late /\ pc \notin {"finish", "close", "lastack"}
      BY <2>5, <1>0, Constants DEF ProtocolInv
    <3>2. sent' = seg
      BY <2>2, <2>5, <3>1, <1>0, ExpectedAck DEF AckOK
    <3>3. sentblock' = sent' % BlockMod
      BY <2>5, <1>0, Constants, NextWraps DEF NextBlock
    <3>4. ASSUME NEW d, DataOK(d) PROVE DataOK(d)'
      BY <3>4, <2>1, <2>5, <1>0 DEF DataOK, Packet
    <3>5. DataOK(Data(seg))'
      <4>1. Data(seg) \in Packet /\ Data(seg).seq = seg
        BY <1>0, DataType DEF Data
      <4> QED BY <4>1, <3>2, <2>1, <1>0, Constants DEF DataOK
    <3>6. \A d \in (inbox \cup toServer)' : DataOK(d)'
      BY <2>1, <2>5, <3>2, <3>4, <3>5 DEF ProtocolInv
    <3>7. pc' = "got" => DataOK(bfs[current].pkt)'
      BY <2>1, <3>4 DEF ProtocolInv
    <3>8. sent' \in (seg' - 1)..seg'
      BY <3>2, <2>1, <1>0
    <3> QED
      BY <2>1, <2>3, <2>4, <2>5, <3>1, <3>3, <3>6, <3>7, <3>8 DEF ProtocolInv
  <2>6. CASE /\ m.block = sentblock /\ sent = N
             /\ client' = "fin"
             /\ UNCHANGED <<sent, sentblock, toServer>>
    <3>1. Late
      BY <2>2, <2>6, <1>0, ExpectedAck DEF AckOK
    <3>2. \A d : DataOK(d) <=> DataOK(d)'
      BY <2>1, <2>6 DEF DataOK
    <3> QED BY <2>1, <2>3, <2>4, <2>6, <3>1, <3>2 DEF ProtocolInv
  <2>7. CASE m.block # sentblock /\ UNCHANGED <<toServer, clientVars>>
    BY <2>1, <2>7, ProtocolKept DEF clientVars
  <2> QED BY <1>17, <2>5, <2>6, <2>7 DEF ClientAck
<1>18. CASE ClientResend
  <2>1. /\ UNCHANGED <<pc, recvblock, ackblock, bfs, current, inbox, seg, toClient>>
        /\ UNCHANGED <<sent, sentblock, client>>
        /\ toServer' = toServer \cup {Data(sent)}
    BY <1>18 DEF ClientResend, buffers, clientVars
  <2>2. (Late <=> Late') /\ \A m : (DataOK(m) <=> DataOK(m)') /\ (AckOK(m) <=> AckOK(m)')
    BY <2>1 DEF Late, DataOK, AckOK
  <2>3. DataOK(Data(sent))
    <3>1. Data(sent) \in Packet /\ Data(sent).seq = sent
      BY <1>0, DataType DEF Data
    <3> QED BY <3>1, <1>0, Constants DEF DataOK
  <2>4. \A m \in (inbox \cup toServer)' : DataOK(m)'
    BY <2>1, <2>2, <2>3 DEF ProtocolInv
  <2> QED BY <2>1, <2>2, <2>4 DEF ProtocolInv
<1>19. CASE ClientAborts
  <2>1. /\ UNCHANGED <<pc, recvblock, ackblock, bfs, current, inbox, seg, toClient>>
        /\ UNCHANGED <<sent, sentblock>> /\ client' = "gone"
        /\ toServer' \subseteq toServer \cup {Error(seg)}
    BY <1>19 DEF ClientAborts, buffers
  <2>2. (Late <=> Late') /\ \A m : (DataOK(m) <=> DataOK(m)') /\ (AckOK(m) <=> AckOK(m)')
    BY <2>1 DEF Late, DataOK, AckOK
  <2>3. DataOK(Error(seg))
    BY <1>0 DEF DataOK, Error, Packet
  <2>4. \A m \in (inbox \cup toServer)' : DataOK(m)'
    BY <2>1, <2>2, <2>3 DEF ProtocolInv
  <2> QED BY <2>1, <2>2, <2>4 DEF ProtocolInv
<1>20. CASE ExitSignal
  BY <1>20, ProtocolKept DEF ExitSignal, network, clientVars, buffers
<1>21. CASE UNCHANGED vars
  BY <1>21, ProtocolKept DEF vars, network, clientVars, buffers
<1>22. CASE Ignore
  BY <1>22, ProtocolKept DEF Ignore, network, clientVars
<1> QED
  BY <1>1, <1>2, <1>3, <1>4, <1>5, <1>6, <1>7, <1>8, <1>9, <1>10, <1>11, <1>12,
     <1>13, <1>14, <1>15, <1>16, <1>17, <1>18, <1>19, <1>20, <1>21, <1>22
  DEF Next, Server, Environment, ClientBabbles

-----------------------------------------------------------------------------
(* The file *)

\* write_behind has nothing to do.
LEMMA NothingToWrite ==
    ASSUME NEW b, NEW r, WriteBehind(b, r), b[nextone].counter < -1, b \in Buffers,
           nextone \in 0..1
    PROVE  r = b /\ UNCHANGED <<nextone, file>>
<1>1. b[nextone].counter \in Int BY DEF Buffers
<1> QED BY <1>1 DEF WriteBehind

\* It writes the block that waits, if nothing fails.
LEMMA BlockWritten ==
    ASSUME NEW b, NEW r, WriteBehind(b, r), b[nextone].counter >= -1, b \in Buffers,
           nextone \in 0..1, ofile \in {"none", "open"}, ~diskError'
    PROVE  /\ ~diskError
           /\ ofile' = "open"
           /\ r = [b EXCEPT ![nextone].counter = BF_FREE]
           /\ nextone' = 1 - nextone
           /\ disk' = Append(disk, b[nextone].pkt.data)
<1>1. b[nextone].counter \in Int BY DEF Buffers
<1> QED BY <1>1 DEF WriteBehind

LEMMA DiskInit == Init => DiskInv
BY Constants
DEF Init, RwInit, DiskInv, DiskInOrder, UpToDate, Late, BF_ALLOC, BF_FREE

\* A step that neither advances an end nor writes.
LEMMA DiskKept ==
    ASSUME DiskInv,
           UNCHANGED <<seg, recvblock, ackblock, current, nextone, disk, diskError>>,
           bfs'[current].counter = bfs[current].counter,
           bfs'[1 - current] = bfs[1 - current],
           sent' = sent,
           ofile' = ofile \/ CloseFile,
           \/ Late /\ pc' \in {"dally", "dallied", "done", "aborted"}
           \/ /\ toClient' \subseteq toClient
              /\ \/ pc' = pc
                 \/ pc \in {"wait", "got"} /\
                    pc' \in {"ack", "wait", "got", "aborted", "exited"}
                 \/ pc = "ack" /\ pc' = "aborted"
                 \/ pc = "close" /\ pc' = "lastack" /\ CloseFile
    PROVE  DiskInv'
<1> SUFFICES ASSUME ~diskError' PROVE DiskInv'
  BY DEF DiskInv
<1>1. ~diskError /\ (Late <=> Late') /\ (DiskInOrder => DiskInOrder')
  BY DEF Late, DiskInOrder
<1>2. (UpToDate => UpToDate') /\ \A k : Behind(k) => Behind(k)'
  BY DEF UpToDate, Behind
<1>3. toClient' \subseteq toClient => (Quiet => Quiet')
  BY DEF Quiet
<1>4. ofile' \in {"none", "open"} /\ DiskInOrder'
  BY <1>1 DEF DiskInv, CloseFile
<1>5. CASE Late /\ pc' \in {"dally", "dallied", "done", "aborted"}
  BY <1>1, <1>4, <1>5 DEF DiskInv, CloseFile
<1>6. CASE toClient' \subseteq toClient /\ pc' = pc
  BY <1>1, <1>2, <1>3, <1>4, <1>6 DEF DiskInv, CloseFile
<1>7. CASE /\ toClient' \subseteq toClient /\ pc \in {"wait", "got"}
           /\ pc' \in {"ack", "wait", "got", "aborted", "exited"}
  BY <1>1, <1>2, <1>4, <1>7 DEF DiskInv, CloseFile
<1>8. CASE toClient' \subseteq toClient /\ pc = "ack" /\ pc' = "aborted"
  BY <1>1, <1>2, <1>3, <1>4, <1>8 DEF DiskInv, CloseFile
<1>9. CASE pc = "close" /\ pc' = "lastack" /\ CloseFile
  BY <1>1, <1>4, <1>9 DEF DiskInv, CloseFile
<1> QED BY <1>5, <1>6, <1>7, <1>8, <1>9

\* A block is appended to those before it.
LEMMA InOrderAppend ==
    ASSUME TypeInv, DiskInOrder, ~diskError, NEW k \in Nat,
           disk' = Append(disk, k), Len(disk) = k - 1
    PROVE  DiskInOrder' /\ Len(disk') = k
BY DEF TypeInv, DiskInOrder

\* writeit finds the other buffer free: it writes nothing.
LEMMA QueueOnly ==
    ASSUME TypeInv, DiskInv, pc = "got", WriteIt, ~diskError'
    PROVE  /\ UNCHANGED <<nextone, file>>
           /\ current' = 1 - current
           /\ bfs' = [[bfs EXCEPT ![current].counter = bfs[current].pkt.size]
                        EXCEPT ![1 - current].counter = BF_ALLOC]
<1> DEFINE queued == [bfs EXCEPT ![current].counter = bfs[current].pkt.size]
           next == 1 - current
<1>1. ~diskError
  <2>1. diskError' = diskError \/ diskError' = TRUE
    BY DEF WriteIt, WriteBehind, file
  <2> QED BY <2>1
<1>2. queued[next].counter = BF_FREE
  <2>1. queued[next] = bfs[next]
    BY DEF TypeInv, Buffers
  <2> QED BY <1>1, <2>1 DEF DiskInv, UpToDate
<1> HIDE DEF queued
<1> QED BY <1>2 DEF WriteIt, queued

LEMMA DiskStep ==
    TypeInv /\ ProtocolInv /\ ProtocolInv' /\ DiskInv /\ [Next]_vars => DiskInv'
<1> SUFFICES ASSUME TypeInv, ProtocolInv, ProtocolInv', DiskInv, [Next]_vars
             PROVE  DiskInv'
  OBVIOUS
<1>0. /\ seg \in Nat /\ seg >= 1 /\ seg <= N
      /\ sent \in Nat /\ sent <= seg /\ seg <= sent + 1
      /\ bfs \in Buffers /\ current \in 0..1 /\ nextone \in 0..1 /\ disk \in Seq(Nat)
  BY Positions DEF TypeInv
<1>1. CASE SendAck
  <2>1. /\ UNCHANGED <<seg, recvblock, ackblock, buffers, file, sent>>
        /\ pc = "ack" /\ pc' = "flush"
    BY <1>1 DEF SendAck, clientVars
  <2>2. (UpToDate => UpToDate') /\ (Behind(seg - 1) => Behind(seg - 1)')
    BY <2>1 DEF UpToDate, Behind, buffers, file
  <2>3. ~Late /\ ~Late'
    BY <2>1 DEF ProtocolInv, Late
  <2> QED BY <2>1, <2>2, <2>3 DEF DiskInv, DiskInOrder, file
<1>2. CASE FlushBuffer
  <2> SUFFICES ASSUME ~diskError' PROVE DiskInv'
    BY DEF DiskInv
  <2>1. PICK r \in {bfs, Freed(bfs)} : WriteBehind(bfs, r) /\ bfs' = r
    BY <1>2 DEF FlushBuffer
  <2>2. /\ UNCHANGED <<seg, recvblock, ackblock, current>>
        /\ pc = "flush" /\ pc' = "wait" /\ ~Late /\ ~Late'
    BY <1>2 DEF FlushBuffer, ProtocolInv, Late
  <2>3. ~diskError
    BY <2>1 DEF WriteBehind, file
  <2>4. ofile \in {"none", "open"} /\ DiskInOrder /\ (UpToDate \/ Behind(seg - 1))
    BY <2>2, <2>3 DEF DiskInv
  <2>5. CASE UpToDate
    <3>1. bfs[nextone].counter < -1
      BY <2>5 DEF UpToDate, BF_ALLOC
    <3>2. bfs' = bfs /\ UNCHANGED <<nextone, ofile, disk, diskError>>
      BY <2>1, <3>1, <1>0, NothingToWrite DEF file
    <3>3. UpToDate'
      BY <2>2, <2>5, <3>2 DEF UpToDate
    <3> QED BY <2>2, <2>4, <3>2, <3>3 DEF DiskInv, DiskInOrder
  <2>6. CASE Behind(seg - 1)
    <3>1. bfs[nextone].counter >= -1 /\ bfs[nextone].pkt.data = seg - 1
      BY <2>6 DEF Behind
    <3>2. /\ ofile' = "open" /\ bfs' = [bfs EXCEPT ![nextone].counter = BF_FREE]
          /\ nextone' = 1 - nextone /\ disk' = Append(disk, seg - 1)
      BY <2>1, <2>4, <3>1, <1>0, BlockWritten
    <3>3. DiskInOrder' /\ Len(disk') = seg - 1
      BY <2>3, <2>4, <2>6, <3>2, <1>0, InOrderAppend DEF Behind
    <3>4. nextone' = current /\ nextone = 1 - current
      BY <2>6, <3>2, <1>0 DEF Behind
    <3>5. bfs'[1 - current].counter = BF_FREE /\ bfs'[current].counter = BF_ALLOC
      BY <2>6, <3>2, <3>4, <1>0 DEF Behind, Buffers
    <3>6. UpToDate'
      BY <2>2, <3>3, <3>4, <3>5 DEF UpToDate
    <3> QED BY <2>2, <3>2, <3>3, <3>6 DEF DiskInv
  <2> QED BY <2>4, <2>5, <2>6
<1>3. CASE GiveUp
  BY <1>3, DiskKept DEF GiveUp, buffers, network, clientVars
<1>4. CASE DataExpected
  <2> SUFFICES ASSUME ~diskError' PROVE DiskInv'
    BY DEF DiskInv
  <2> DEFINE queued == [bfs EXCEPT ![current].counter = bfs[current].pkt.size]
             next == 1 - current
  <2>1. /\ pc = "got" /\ Got.op = "DATA" /\ Got.block = recvblock /\ DataOK(Got)
        /\ WriteIt /\ sent' = sent /\ ~Late
        /\ toClient' = Fresh(toClient, seg' - 1)
    BY <1>4 DEF DataExpected, Accept, ProtocolInv, Got, clientVars
  <2>2. Got = Data(seg) /\ sent = seg
    BY <2>1, ExpectedBlock
  <2>3. Got.data = seg /\ Got.size = Size(seg) /\ Size(seg) \in 0..1
    BY <2>2 DEF Data, Size, SEGSIZE
  <2>4. /\ queued \in Buffers /\ next \in 0..1 /\ next # current
        /\ queued[current].pkt = Got /\ queued[current].counter = Size(seg)
        /\ queued[next] = bfs[next]
    <3>1. bfs[current].pkt.size = Size(seg) /\ Size(seg) \in Int
      BY <2>3 DEF Got
    <3> QED BY <3>1, <1>0 DEF Buffers, Got
  <2>5. /\ bfs' = [queued EXCEPT ![next].counter = BF_ALLOC]
        /\ current' = next /\ UNCHANGED <<nextone, file>>
    BY <2>1, QueueOnly
  <2>6. ~diskError /\ DiskInOrder' /\ ofile' \in {"none", "open"} /\ UpToDate
    BY <2>1, <2>5 DEF DiskInv, DiskInOrder, file
  <2>7. /\ nextone' = 1 - current'
        /\ bfs'[1 - current'].counter >= -1
        /\ bfs'[1 - current'].pkt.data = seg
        /\ bfs'[current'].counter = BF_ALLOC
        /\ Len(disk') = seg - 1
    <3>1. bfs'[current].pkt.data = seg /\ bfs'[current].counter >= -1
      <4> HIDE DEF queued
      <4>1. bfs'[current] = queued[current]
        BY <2>4, <2>5, <1>0 DEF Buffers
      <4> QED BY <4>1, <2>3, <2>4
    <3>2. bfs'[next].counter = BF_ALLOC
      BY <2>4, <2>5 DEF Buffers
    <3>3. 1 - current' = current /\ nextone' = current /\ Len(disk') = seg - 1
      BY <2>5, <2>6, <1>0 DEF UpToDate, file
    <3> QED BY <2>5, <3>1, <3>2, <3>3
  <2>8. CASE /\ Got.size = SEGSIZE /\ ackblock' = recvblock
             /\ recvblock' = NextBlock(recvblock) /\ seg' = seg + 1 /\ pc' = "ack"
    <3>1. ~Late'
      BY <2>8 DEF ProtocolInv
    <3>2. seg' - 1 = seg
      BY <2>8, <1>0
    <3>3. Quiet'
      <4>1. sent' = seg' - 1
        BY <2>1, <2>2, <3>2
      <4>2. ASSUME NEW a \in toClient' PROVE a.seq < seg' - 1
        <5>1. a \in toClient /\ AckOK(a)
          BY <2>1, FreshPart DEF ProtocolInv
        <5> QED BY <5>1, <2>1, <3>2, <1>0 DEF AckOK
      <4> QED BY <4>1, <4>2 DEF Quiet
    <3>4. Behind(seg - 1)'
      BY <2>7, <3>2 DEF Behind
    <3> QED BY <2>6, <2>8, <3>1, <3>3, <3>4 DEF DiskInv
  <2>9. CASE /\ Got.size # SEGSIZE /\ pc' = "finish"
             /\ UNCHANGED <<ackblock, recvblock, seg>>
    <3>1. seg = N
      BY <2>3, <2>9, <1>0, Constants DEF Size
    <3>2. ~Late'
      BY <2>1, <2>9 DEF Late
    <3>3. Behind(N)'
      BY <2>7, <3>1 DEF Behind
    <3> QED BY <2>6, <2>9, <3>2, <3>3 DEF DiskInv
  <2> QED BY <1>4, <2>8, <2>9 DEF DataExpected, Accept
<1>5. CASE DataOther
  BY <1>5, DiskKept DEF DataOther, buffers, file, clientVars
<1>6. CASE FinalFlush
  <2> SUFFICES ASSUME ~diskError' PROVE DiskInv'
    BY DEF DiskInv
  <2>1. PICK r \in {bfs, Freed(bfs)} : WriteBehind(bfs, r) /\ bfs' = r
    BY <1>6 DEF FinalFlush
  <2>2. /\ UNCHANGED <<seg, recvblock, ackblock, current>>
        /\ pc = "finish" /\ pc' = "close" /\ ~Late /\ ~Late' /\ seg = N
    BY <1>6 DEF FinalFlush, ProtocolInv, Late
  <2>3. ~diskError
    BY <2>1 DEF WriteBehind, file
  <2>4. ofile \in {"none", "open"} /\ DiskInOrder /\ Behind(N)
    BY <2>2, <2>3 DEF DiskInv
  <2>5. bfs[nextone].counter >= -1 /\ bfs[nextone].pkt.data = N
    BY <2>4 DEF Behind
  <2>6. ofile' = "open" /\ disk' = Append(disk, N)
    BY <2>1, <2>4, <2>5, <1>0, BlockWritten
  <2>7. DiskInOrder' /\ Len(disk') = N
    BY <2>3, <2>4, <2>6, Constants, InOrderAppend DEF Behind
  <2> QED BY <2>2, <2>6, <2>7 DEF DiskInv
<1>7. CASE FinalClose
  BY <1>7, DiskKept DEF FinalClose, buffers, network, clientVars
<1>8. CASE FinalAck
  BY <1>8 DEF FinalAck, DiskInv, DiskInOrder, file
<1>9. CASE DallyEnd
  <2>1. Late /\ pc' \in {"done", "aborted"}
    BY <1>9 DEF DallyEnd, ProtocolInv
  <2> QED BY <1>9, <2>1, DiskKept DEF DallyEnd, buffers, file, clientVars
<1>10. ASSUME NEW m \in inbox \cup {Other(seg)}, Receive(m) PROVE DiskInv'
  <2>1. bfs' = [bfs EXCEPT ![current].pkt = m]
    BY <1>10 DEF Receive
  <2>2. /\ bfs'[current].counter = bfs[current].counter
        /\ bfs'[1 - current] = bfs[1 - current]
    BY <2>1, <1>0 DEF Buffers
  <2> QED BY <1>10, <2>2, DiskKept DEF Receive, file, clientVars
<1>11. ASSUME NEW m \in inbox \cup {Other(seg)}, DallyRead(m) PROVE DiskInv'
  <2>1. Late
    BY <1>11 DEF DallyRead, ProtocolInv
  <2> QED BY <1>11, <2>1, DiskKept DEF DallyRead, buffers, file, clientVars
<1>12. CASE PeerFails
  BY <1>12, DiskKept DEF PeerFails, buffers, network, clientVars
<1>13. CASE DallyFails
  <2>1. Late
    BY <1>13 DEF DallyFails, ProtocolInv
  <2> QED BY <1>13, <2>1, DiskKept DEF DallyFails, buffers, file, clientVars
<1>14. CASE Alarm
  BY <1>14, DiskKept DEF Alarm, AlarmCounts, buffers, file, network, clientVars
<1>15. ASSUME NEW m \in toServer \cup toClient, Lose(m) PROVE DiskInv'
  BY <1>15, DiskKept DEF Lose, buffers, file, clientVars
<1>16. ASSUME NEW m \in toServer, Arrive(m) PROVE DiskInv'
  BY <1>16, DiskKept DEF Arrive, buffers, file, clientVars
<1>17. ASSUME NEW m \in toClient, ClientAck(m) PROVE DiskInv'
  <2>1. /\ UNCHANGED <<pc, seg, recvblock, ackblock, buffers, file>>
        /\ toClient' \subseteq toClient
    BY <1>17 DEF ClientAck
  <2>2. CASE sent' = sent
    BY <2>1, <2>2, DiskKept DEF buffers, file
  <2>3. CASE sent' # sent
    <3>1. m.block = sentblock /\ AckOK(m)
      BY <1>17, <2>3 DEF ClientAck, clientVars, ProtocolInv
    <3>2. m.seq = sent
      BY <3>1, ExpectedAck
    <3>3. ~Quiet
      BY <3>2, <1>0 DEF Quiet
    <3>4. (Late <=> Late') /\ (UpToDate => UpToDate') /\ \A k : Behind(k) => Behind(k)'
      BY <2>1 DEF Late, UpToDate, Behind, buffers, file
    <3> QED BY <2>1, <3>3, <3>4 DEF DiskInv, DiskInOrder, file
  <2> QED BY <2>2, <2>3
<1>18. CASE ClientResend
  BY <1>18, DiskKept DEF ClientResend, buffers, file, clientVars
<1>19. CASE ClientAborts
  BY <1>19, DiskKept DEF ClientAborts, buffers, file
<1>20. CASE ExitSignal
  BY <1>20, DiskKept DEF ExitSignal, buffers, file, network, clientVars
<1>21. CASE UNCHANGED vars
  BY <1>21, DiskKept DEF vars, buffers, file, network, clientVars
<1>22. CASE Ignore
  BY <1>22, DiskKept DEF Ignore, buffers, file, network, clientVars
<1> QED
  BY <1>1, <1>2, <1>3, <1>4, <1>5, <1>6, <1>7, <1>8, <1>9, <1>10, <1>11, <1>12,
     <1>13, <1>14, <1>15, <1>16, <1>17, <1>18, <1>19, <1>20, <1>21, <1>22
  DEF Next, Server, Environment, ClientBabbles

LEMMA Invariant == Spec => []IInv
BY TypeInit, TypeStep, ProtocolInit, ProtocolStep, DiskInit, DiskStep, PTL DEF Spec, IInv

\* Unless an open or a write fails, the upload file is at all times the first
\* blocks the client sent, in order and once each (recvtftp, writeit and
\* write_behind), for any length, also beyond the wrap of recvblock.
THEOREM UploadInOrder == Spec => []DiskInOrder
<1>1. IInv => DiskInOrder
  BY DEF IInv, DiskInv, DiskInOrder
<1> QED BY <1>1, Invariant, PTL

\* Write-behind is never more than one block late, and no way out of recvtftp
\* leaves an acknowledged block in a buffer.
THEOREM SavedWhenAcknowledged == Spec => []AckedIsSaved
<1>1. IInv => AckedIsSaved
  <2> SUFFICES ASSUME IInv, ~diskError PROVE AckedIsSaved
    BY DEF AckedIsSaved
  <2>0. /\ TypeInv /\ ProtocolInv /\ DiskInv /\ seg \in Nat /\ seg >= 1 /\ seg <= N
        /\ sent \in Nat /\ sent <= seg /\ seg <= sent + 1
        /\ Len(disk) \in Nat /\ N \in Nat
    BY Positions, Constants DEF IInv, TypeInv
  <2>1. pc \in {"wait", "got"} =>
          bfs[1 - current].counter = BF_FREE /\ Len(disk) = seg - 1
    BY <2>0 DEF DiskInv, UpToDate
  <2>2. CASE Late
    <3>1. Len(disk) = N /\ sent = N
      BY <2>0, <2>2 DEF DiskInv, ProtocolInv
    <3>2. Acked <= N
      BY <2>0, <3>1 DEF Acked
    <3> QED BY <2>1, <3>1, <3>2 DEF AckedIsSaved
  <2>3. CASE ~Late /\ pc \in Terminal
    <3>1. Acked = sent - 1 /\ pc \in {"aborted", "exited"}
      BY <2>0, <2>3 DEF Acked, Terminal, ProtocolInv
    <3>2. UpToDate \/ (Behind(seg - 1) /\ Quiet)
      BY <2>0, <2>3, <3>1 DEF DiskInv
    <3>3. Acked <= Len(disk)
      BY <2>0, <3>1, <3>2 DEF UpToDate, Behind, Quiet
    <3> QED BY <2>1, <3>3 DEF AckedIsSaved
  <2> QED BY <2>1, <2>2, <2>3 DEF AckedIsSaved
<1> QED BY <1>1, Invariant, PTL

\* A client that has the final ACK finds the whole file, and closed: the file is
\* flushed and closed before that ACK is sent.
THEOREM ClosedBeforeFinalAck == Spec => []FinalAckMeansClosed
<1>1. IInv => FinalAckMeansClosed
  BY DEF IInv, ProtocolInv, DiskInv, FinalAckMeansClosed
<1> QED BY <1>1, Invariant, PTL
-----------------------------------------------------------------------------
(* The refinement *)

FileMove == FT!Next \/ UNCHANGED FT!ftvars

Busy == {"ack", "flush", "wait", "got", "finish", "close"}

LEMMA FileInit == Init => FT!Init
BY DEF Init, FT!Init, SenderState, ReceiverState

\* A step neither end of the abstract transfer sees.
LEMMA SameView ==
    ASSUME UNCHANGED <<client, pc, ackblock, recvblock, disk>>
    PROVE  FileMove
BY DEF FileMove, FT!ftvars, SenderState, ReceiverState

\* A step of recvtftp that writes nothing: it goes on, or gives up.
LEMMA ReceiverMoves ==
    ASSUME UNCHANGED <<client, disk>>, pc \in Busy,
           pc' \in Busy \/ pc' = "exited" \/ (pc' = "aborted" /\ ~Late')
    PROVE  FileMove
<1>1. ReceiverState = "busy" /\ ReceiverState' \in {"busy", "failed"}
  BY DEF ReceiverState, Busy, Late
<1>2. SenderState' = SenderState
  BY DEF SenderState
<1> QED BY <1>1, <1>2 DEF FileMove, FT!Next, FT!ReceiverFails, FT!ftvars

\* After the whole file was stored recvtftp is done with the transfer.
LEMMA ReceiverStays ==
    ASSUME UNCHANGED <<client, disk>>,
           pc \in {"lastack", "dally", "dallied"},
           pc' \in {"dally", "dallied", "done"} \/ (pc' = "aborted" /\ Late')
    PROVE  FileMove
BY DEF FileMove, FT!ftvars, SenderState, ReceiverState, Late

\* A step that writes a block.
LEMMA Writes ==
    ASSUME UNCHANGED client, pc \in Busy, pc' \in Busy, Len(disk) < N,
           NEW k, k = Len(disk) + 1, disk' = Append(disk, k)
    PROVE  FileMove
<1>1. ReceiverState = "busy" /\ ReceiverState' = "busy" /\ SenderState' = SenderState
  BY DEF ReceiverState, SenderState, Busy
<1> QED BY <1>1 DEF FileMove, FT!Next, FT!Deliver

LEMMA FileStep ==
    IInv /\ [Next]_vars /\ ~diskError' => FileMove
<1> SUFFICES ASSUME TypeInv, ProtocolInv, DiskInv, [Next]_vars, ~diskError'
             PROVE  FileMove
  BY DEF IInv
<1>0. /\ seg \in Nat /\ seg >= 1 /\ seg <= N /\ N \in Nat
      /\ bfs \in Buffers /\ nextone \in 0..1 /\ disk \in Seq(Nat)
  BY Positions, Constants DEF TypeInv
<1>1. CASE SendAck
  BY <1>1, ReceiverMoves DEF SendAck, Busy, file, clientVars
<1>2. CASE FlushBuffer
  <2>1. PICK r \in {bfs, Freed(bfs)} : WriteBehind(bfs, r)
    BY <1>2 DEF FlushBuffer
  <2>2. pc = "flush" /\ pc' = "wait" /\ client' = client
    BY <1>2 DEF FlushBuffer, clientVars
  <2>3. ~diskError
    BY <2>1 DEF WriteBehind, file
  <2>4. CASE UpToDate
    <3>1. disk' = disk
      BY <2>1, <2>4, <1>0, NothingToWrite DEF UpToDate, BF_ALLOC, file
    <3> QED BY <2>2, <3>1, ReceiverMoves DEF Busy
  <2>5. CASE Behind(seg - 1)
    <3>1. ofile \in {"none", "open"}
      BY <2>3 DEF DiskInv
    <3>2. disk' = Append(disk, seg - 1)
      BY <2>1, <2>5, <3>1, <1>0, BlockWritten DEF Behind
    <3>3. Len(disk) < N /\ seg - 1 = Len(disk) + 1
      BY <2>5, <1>0 DEF Behind
    <3> QED BY <2>2, <3>2, <3>3, Writes DEF Busy
  <2> QED BY <2>2, <2>3, <2>4, <2>5 DEF DiskInv
<1>3. CASE GiveUp
  <2>1. ~Late /\ ~Late'
    BY <1>3 DEF GiveUp, ProtocolInv, Late
  <2> QED BY <1>3, <2>1, ReceiverMoves DEF GiveUp, Busy, clientVars
<1>4. CASE DataExpected
  <2>1. /\ pc = "got" /\ pc' \in {"ack", "finish"} /\ client' = client /\ WriteIt
    BY <1>4 DEF DataExpected, Accept, clientVars
  <2>2. disk' = disk
    BY <2>1, QueueOnly DEF file
  <2> QED BY <2>1, <2>2, ReceiverMoves DEF Busy
<1>5. CASE DataOther
  BY <1>5, ReceiverMoves DEF DataOther, Busy, file, clientVars
<1>6. CASE FinalFlush
  <2>1. PICK r \in {bfs, Freed(bfs)} : WriteBehind(bfs, r)
    BY <1>6 DEF FinalFlush
  <2>2. pc = "finish" /\ pc' = "close" /\ client' = client
    BY <1>6 DEF FinalFlush, clientVars
  <2>3. ~diskError
    BY <2>1 DEF WriteBehind, file
  <2>4. ofile \in {"none", "open"} /\ Behind(N)
    BY <2>2, <2>3 DEF DiskInv
  <2>5. disk' = Append(disk, N)
    BY <2>1, <2>4, <1>0, BlockWritten DEF Behind
  <2>6. Len(disk) < N /\ N = Len(disk) + 1
    BY <2>4, <1>0 DEF Behind
  <2> QED BY <2>2, <2>5, <2>6, Writes DEF Busy
<1>7. CASE FinalClose
  <2>1. /\ pc = "close" /\ pc' = "lastack"
        /\ UNCHANGED <<client, disk, diskError>>
    BY <1>7 DEF FinalClose, clientVars
  <2>2. Len(disk) = N
    BY <2>1 DEF DiskInv
  <2>3. ReceiverState = "busy" /\ ReceiverState' = "complete"
    BY <2>1 DEF ReceiverState
  <2>4. SenderState' = SenderState
    BY <2>1 DEF SenderState
  <2> QED BY <2>1, <2>2, <2>3, <2>4 DEF FileMove, FT!Next, FT!ReceiverDone
<1>8. CASE FinalAck
  BY <1>8, ReceiverStays DEF FinalAck, file, clientVars
<1>9. CASE DallyEnd
  <2>1. Late /\ Late'
    BY <1>9 DEF DallyEnd, ProtocolInv, Late
  <2> QED BY <1>9, <2>1, ReceiverStays DEF DallyEnd, file, clientVars
<1>10. ASSUME NEW m \in inbox \cup {Other(seg)}, Receive(m) PROVE FileMove
  BY <1>10, ReceiverMoves DEF Receive, Busy, file, clientVars
<1>11. ASSUME NEW m \in inbox \cup {Other(seg)}, DallyRead(m) PROVE FileMove
  BY <1>11, ReceiverStays DEF DallyRead, file, clientVars
<1>12. CASE PeerFails
  <2>1. ~Late /\ ~Late'
    BY <1>12 DEF PeerFails, ProtocolInv, Late
  <2> QED BY <1>12, <2>1, ReceiverMoves DEF PeerFails, Busy, clientVars
<1>13. CASE DallyFails
  <2>1. Late /\ Late'
    BY <1>13 DEF DallyFails, ProtocolInv, Late
  <2> QED BY <1>13, <2>1, ReceiverStays DEF DallyFails, file, clientVars
<1>14. CASE Alarm
  BY <1>14, ReceiverMoves DEF Alarm, AlarmCounts, Busy, file, clientVars
<1>15. ASSUME NEW m \in toServer \cup toClient, Lose(m) PROVE FileMove
  BY <1>15, SameView DEF Lose, file, clientVars
<1>16. ASSUME NEW m \in toServer, Arrive(m) PROVE FileMove
  BY <1>16, SameView DEF Arrive, file, clientVars
<1>17. ASSUME NEW m \in toClient, ClientAck(m) PROVE FileMove
  <2>1. client = "run" /\ UNCHANGED <<pc, ackblock, recvblock, disk>>
    BY <1>17 DEF ClientAck, file
  <2>2. CASE client' = client
    BY <2>1, <2>2, SameView
  <2>3. CASE client' # client
    <3>1. client' = "fin" /\ m.block = sentblock /\ sent = N /\ AckOK(m)
      BY <1>17, <2>3 DEF ClientAck, clientVars, ProtocolInv
    <3>2. Late
      BY <3>1, <1>0, ExpectedAck DEF AckOK
    <3>3. ReceiverState = "complete" /\ ReceiverState' = "complete"
      BY <2>1, <3>2 DEF ReceiverState, ProtocolInv, Late
    <3>4. SenderState = "busy" /\ SenderState' = "complete"
      BY <2>1, <3>1 DEF SenderState
    <3> QED BY <2>1, <3>3, <3>4 DEF FileMove, FT!Next, FT!SenderDone
  <2> QED BY <2>2, <2>3
<1>18. CASE ClientResend
  BY <1>18, SameView DEF ClientResend, file, clientVars
<1>19. CASE ClientAborts
  <2>1. ReceiverState' = ReceiverState /\ disk' = disk
    BY <1>19 DEF ClientAborts, ReceiverState, file
  <2>2. SenderState = "busy" /\ SenderState' = "failed"
    BY <1>19 DEF ClientAborts, SenderState
  <2> QED BY <2>1, <2>2 DEF FileMove, FT!Next, FT!SenderFails
<1>20. CASE ExitSignal
  BY <1>20, SameView DEF ExitSignal, file, clientVars
<1>21. CASE UNCHANGED vars
  BY <1>21, SameView DEF vars, file, clientVars
<1>22. CASE Ignore
  BY <1>22, ReceiverMoves DEF Ignore, Busy, file, clientVars
<1> QED
  BY <1>1, <1>2, <1>3, <1>4, <1>5, <1>6, <1>7, <1>8, <1>9, <1>10, <1>11, <1>12,
     <1>13, <1>14, <1>15, <1>16, <1>17, <1>18, <1>19, <1>20, <1>21, <1>22
  DEF Next, Server, Environment, ClientBabbles

\* Every upload whose file can be opened and written is a file transfer: what
\* the client and the file see is a behaviour of FileTransfer, for any length,
\* wrap modulus and number of alarms.
THEOREM UploadIsFileTransfer == Spec => ImplementsFileTransfer
<1>1. IInv /\ [Next]_vars => [~diskError' => FT!Next \/ UNCHANGED FT!ftvars]_vars
  BY FileStep DEF FileMove
<1> QED BY <1>1, FileInit, Invariant, PTL DEF Spec, ImplementsFileTransfer
=============================================================================
