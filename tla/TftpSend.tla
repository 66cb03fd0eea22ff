------------------------------ MODULE TftpSend ------------------------------
(***************************************************************************)
(* A download served by tests/server/tftpd.c: sendtftp() with the          *)
(* double-buffered read-ahead it drives (readit, read_ahead, rw_init), its *)
(* retransmission timer (a SIGALRM handler that longjmps) and the socket   *)
(* flush of synchnet().  The client and the network are external: the      *)
(* client is any RFC 1350 receiver, the network may lose, duplicate and    *)
(* reorder datagrams, but none outlives PacketLife blocks.                 *)
(*                                                                         *)
(* A file is abstracted to its segments 1..N: all but the last one fill a  *)
(* packet, the last one is short (it may be empty).                        *)
(***************************************************************************)
EXTENDS Integers, Sequences

CONSTANTS
    N,                  \* segments of the file
    BlockMod,           \* values of the unsigned short sendblock: 65536
    PacketLife,         \* blocks a datagram may survive in the network
    MaxAlarms           \* maxtimeout / rexmtval: 5

ASSUME TransferAssumption ==
    /\ N \in Nat \ {0}
    /\ BlockMod \in Nat
    /\ PacketLife \in Nat
    /\ 1 <= PacketLife /\ PacketLife < BlockMod
    /\ MaxAlarms \in Nat \ {0}

BF_ALLOC == -3
BF_FREE  == -2
SEGSIZE  == 1           \* a full packet; 0 stands for every shorter size

VARIABLES
    pc,                 \* where sendtftp is
    sendblock,          \* block number of the packet being sent
    size,               \* what readit returned for it
    bfs,                \* the two buffers: [counter, data]
    current, nextone,   \* buffer in use, buffer read_ahead fills next
    rptr,               \* segments of the file read so far
    timeout,            \* alarms since the block was first sent
    ackbuf,             \* last datagram read
    got_exit_signal,
    inbox,              \* datagrams queued on the peer socket
    toServer, toClient, \* datagrams under way
    rcvd, lastblock,    \* client: segments stored, block number acknowledged
    client,             \* "run", "fin" (has the short block) or "gone"
    seg                 \* history: blocks of this transfer, not wrapped

buffers == <<bfs, current, nextone, rptr>>
network == <<inbox, toServer, toClient>>
clientVars == <<rcvd, lastblock, client>>
vars == <<pc, sendblock, size, buffers, timeout, ackbuf, got_exit_signal,
          network, clientVars, seg>>

Terminal == {"done", "aborted", "nak", "exited"}

\* Size class of segment k; past the end read_ahead finds no data.
Size(k) == IF k < N THEN SEGSIZE ELSE 0

\* The unsigned short wraps.
NextBlock(b) == (b + 1) % BlockMod

\* A datagram: block and data travel, seq is the unwrapped block number.
Data(b, d, s, q) == [op |-> "DATA", block |-> b, data |-> d, size |-> s, seq |-> q]
Ack(b, q) == [op |-> "ACK", block |-> b, seq |-> q]
Error(q)  == [op |-> "ERROR", block |-> 0, seq |-> q]
Other(q)  == [op |-> "OTHER", block |-> 0, seq |-> q]
NoPacket  == [op |-> "none", block |-> 0, seq |-> 0]

\* What is left of a set of datagrams when the transfer is at block q.
Fresh(msgs, q) == {m \in msgs : m.seq > q - PacketLife}

ClientClosed == client # "run"

\* rw_init(1), by way of r_init: the first buffer is handed out.
RwInit ==
    /\ bfs = [i \in 0..1 |-> [counter |-> IF i = 0 THEN BF_ALLOC ELSE BF_FREE,
                              data |-> 0]]
    /\ current = 0
    /\ nextone = 1

Init ==
    /\ pc = "readit"
    /\ sendblock = 1 % BlockMod
    /\ size = 0
    /\ RwInit
    /\ rptr = 0
    /\ timeout = 0
    /\ ackbuf = NoPacket
    /\ got_exit_signal = FALSE
    /\ inbox = {} /\ toServer = {} /\ toClient = {}
    /\ rcvd = << >> /\ lastblock = 0 /\ client = "run"
    /\ seg = 1

-----------------------------------------------------------------------------
(* The read-ahead buffers *)

\* Put the next segment of the file into buffer nextone of b.
Fill(b) ==
    /\ bfs' = [b EXCEPT ![nextone] = [counter |-> Size(rptr + 1),
                                      data |-> rptr + 1]]
    /\ nextone' = 1 - nextone
    /\ rptr' = IF rptr < N THEN rptr + 1 ELSE rptr

\* Mutant: "nop if not free" is missing.
ReadAheadUnguarded(b) == Fill(b)

\* Fill the buffer nextone of b if it is free, else leave b as it is.
ReadAhead(b) ==
    \/ b[nextone].counter = BF_FREE /\ Fill(b)
    \/ b[nextone].counter # BF_FREE /\ bfs' = b /\ UNCHANGED <<nextone, rptr>>

\* readit: free the buffer just acknowledged and take the other one, filling
\* it if read_ahead has not.
NextBuffer ==
    LET freed == [bfs EXCEPT ![current].counter = BF_FREE]
        next  == 1 - current
    IN /\ current' = next
       /\ \/ freed[next].counter = BF_FREE /\ ReadAhead(freed)
          \/ /\ freed[next].counter # BF_FREE
             /\ bfs' = freed
             /\ UNCHANGED <<nextone, rptr>>
       /\ size' = bfs'[next].counter

-----------------------------------------------------------------------------
(* sendtftp *)

\* Top of the loop: the next block, or a nak if there is no size to send.
ReadIt ==
    /\ pc = "readit"
    /\ NextBuffer
    /\ pc' = IF size' < 0 THEN "nak" ELSE "send"
    /\ timeout' = IF size' < 0 THEN timeout ELSE 0
    /\ UNCHANGED <<sendblock, ackbuf, got_exit_signal, network, clientVars, seg>>

\* send_data: write the packet, then read ahead while it travels.
SendData ==
    /\ pc = "send"
    /\ toClient' = toClient \cup {Data(sendblock, bfs[current].data, size, seg)}
    /\ ReadAhead(bfs)
    /\ pc' = "wait"
    /\ UNCHANGED <<sendblock, size, current, timeout, ackbuf, got_exit_signal,
                   inbox, toServer, clientVars, seg>>

\* swrite or sread on the connected socket fails: the client's port is closed.
PeerFails ==
    /\ pc \in {"send", "wait"}
    /\ ClientClosed
    /\ pc' = "aborted"
    /\ UNCHANGED <<sendblock, size, buffers, timeout, ackbuf, got_exit_signal,
                   network, clientVars, seg>>

\* sread returns; the alarm is still armed.
Receive(m) ==
    /\ pc = "wait"
    /\ ackbuf' = m
    /\ inbox' = inbox \ {m}
    /\ pc' = "got"
    /\ UNCHANGED <<sendblock, size, buffers, timeout, got_exit_signal, toServer,
                   toClient, clientVars, seg>>

AlarmTo(label, count) ==
    /\ pc \in {"wait", "got"}
    /\ timeout' = count
    /\ pc' = IF timeout + 1 >= MaxAlarms THEN "exited" ELSE label
    /\ UNCHANGED <<sendblock, size, buffers, ackbuf, got_exit_signal, network,
                   clientVars, seg>>

\* Mutants: sigsetjmp above readit; timeout reset below sigsetjmp.
AlarmRereads == AlarmTo("readit", timeout + 1)
AlarmResets  == AlarmTo("send", 0)

\* SIGALRM before alarm(0): timer() gives up, or jumps back to send_data and
\* drops a packet that sread may just have returned.
Alarm == AlarmTo("send", timeout + 1)

GiveUp ==
    /\ pc = "got"
    /\ got_exit_signal \/ ackbuf.op = "ERROR"
    /\ pc' = "aborted"
    /\ UNCHANGED <<sendblock, size, buffers, timeout, ackbuf, got_exit_signal,
                   network, clientVars, seg>>

Acknowledged(accepted, more) ==
    /\ pc = "got"
    /\ ~got_exit_signal
    /\ ackbuf.op = "ACK"
    /\ accepted
    /\ sendblock' = NextBlock(sendblock)
    /\ seg' = seg + 1
    /\ pc' = IF more THEN "readit" ELSE "done"
    /\ inbox' = Fresh(inbox, seg')
    /\ toServer' = Fresh(toServer, seg')
    /\ toClient' = Fresh(toClient, seg')
    /\ UNCHANGED <<size, buffers, timeout, ackbuf, got_exit_signal,
                   clientVars>>

\* Mutants: the block number is not compared; the loop looks at the block
\* read ahead.
AnyAckAccepted == Acknowledged(TRUE, size = SEGSIZE)
EndsOneEarly   == Acknowledged(ackbuf.block = sendblock,
                               bfs[1 - current].counter = SEGSIZE)

\* The expected ACK: on to the next block, or out of the loop.
AckExpected == Acknowledged(ackbuf.block = sendblock, size = SEGSIZE)

\* Everything queued on the socket is thrown away.
SynchNet == inbox' = {}

\* Any other ACK: flush the socket, resend if it is the previous block's.
\* sendblock - 1 is an int: at block 0 it is -1 and equals no ACK.
AckOther ==
    /\ pc = "got"
    /\ ~got_exit_signal
    /\ ackbuf.op = "ACK"
    /\ ackbuf.block # sendblock
    /\ SynchNet
    /\ pc' = IF ackbuf.block = sendblock - 1 THEN "send" ELSE "wait"
    /\ UNCHANGED <<sendblock, size, buffers, timeout, ackbuf, got_exit_signal,
                   toServer, toClient, clientVars, seg>>

\* Any other packet: back to sread, for which the alarm is set anew.
Ignore ==
    /\ pc = "got"
    /\ ~got_exit_signal
    /\ ackbuf.op = "OTHER"
    /\ pc' = "wait"
    /\ UNCHANGED <<sendblock, size, buffers, timeout, ackbuf, got_exit_signal,
                   network, clientVars, seg>>

\* exit_signal_handler: SIGTERM or SIGINT only sets a flag; the handler is
\* restartable, so a blocked sread goes on.
ExitSignal ==
    /\ pc \notin Terminal
    /\ ~got_exit_signal
    /\ got_exit_signal' = TRUE
    /\ UNCHANGED <<pc, sendblock, size, buffers, timeout, ackbuf, network,
                   clientVars, seg>>

-----------------------------------------------------------------------------
(* The network and the client *)

\* A datagram is lost.
Lose(m) ==
    /\ \/ toServer' = toServer \ {m} /\ UNCHANGED toClient
       \/ toClient' = toClient \ {m} /\ UNCHANGED toServer
    /\ UNCHANGED <<pc, sendblock, size, buffers, timeout, ackbuf,
                   got_exit_signal, inbox, clientVars, seg>>

\* A datagram is consumed when it is delivered, or duplicated and delivered
\* again later.
Arrive(m) ==
    /\ pc \notin Terminal
    /\ inbox' = inbox \cup {m}
    /\ toServer' = toServer \ {m} \/ UNCHANGED toServer
    /\ UNCHANGED <<pc, sendblock, size, buffers, timeout, ackbuf,
                   got_exit_signal, toClient, clientVars, seg>>

\* The client gets a DATA packet: stores the next block, acknowledges it and,
\* if it is short, closes its port; acknowledges its last block again;
\* ignores any other.
ClientData(m) ==
    /\ client = "run"
    /\ toClient' = toClient \ {m} \/ UNCHANGED toClient
    /\ \/ /\ m.block = NextBlock(lastblock)
          /\ rcvd' = Append(rcvd, m.data)
          /\ lastblock' = m.block
          /\ client' = IF m.size = SEGSIZE THEN "run" ELSE "fin"
          /\ toServer' = toServer \cup {Ack(m.block, m.seq)}
       \/ /\ m.block = lastblock
          /\ toServer' = toServer \cup {Ack(m.block, m.seq)}
          /\ UNCHANGED clientVars
       \/ /\ m.block \notin {lastblock, NextBlock(lastblock)}
          /\ UNCHANGED <<toServer, clientVars>>
    /\ UNCHANGED <<pc, sendblock, size, buffers, timeout, ackbuf,
                   got_exit_signal, inbox, seg>>

\* The client's own timeout: its last ACK again.
ClientResend ==
    /\ client = "run"
    /\ rcvd # << >>
    /\ pc \notin Terminal
    /\ toServer' = toServer \cup {Ack(lastblock, Len(rcvd))}
    /\ UNCHANGED <<pc, sendblock, size, buffers, timeout, ackbuf,
                   got_exit_signal, inbox, toClient, clientVars, seg>>

\* The client sends a packet that has no place in a download.  It is read as
\* it is sent: one that is late or lost is one sent later or never.
ClientBabbles == Receive(Other(seg))

\* The client gives up, with or without an ERROR packet.
ClientAborts ==
    /\ client = "run"
    /\ client' = "gone"
    /\ \/ pc \notin Terminal /\ toServer' = toServer \cup {Error(seg)}
       \/ UNCHANGED toServer
    /\ UNCHANGED <<pc, sendblock, size, buffers, timeout, ackbuf,
                   got_exit_signal, inbox, toClient, rcvd, lastblock, seg>>

-----------------------------------------------------------------------------
Server ==
    \/ ReadIt \/ SendData \/ GiveUp \/ AckExpected \/ AckOther \/ Ignore
    \/ \E m \in inbox : Receive(m)

Environment ==
    \/ \E m \in toServer \cup toClient : Lose(m)
    \/ \E m \in toServer : Arrive(m)
    \/ \E m \in toClient : ClientData(m)
    \/ ClientResend \/ ClientBabbles \/ ClientAborts \/ ExitSignal

Next == Server \/ PeerFails \/ Alarm \/ Environment

Spec == Init /\ [][Next]_vars

\* The process runs and its armed alarm goes off: nothing is asked of the
\* network or of the client, which may stay silent for ever.
FairSpec == Spec /\ WF_vars(Server) /\ WF_vars(Alarm)
-----------------------------------------------------------------------------
(* What a download guarantees *)

Packet == [op : {"DATA"}, block : 0..BlockMod-1, data : Nat, size : 0..SEGSIZE, seq : Nat]
Reply  == [op : {"ACK", "ERROR", "OTHER", "none"}, block : 0..BlockMod-1, seq : Nat]
BufferType == [counter : {BF_ALLOC, BF_FREE} \cup (0..SEGSIZE), data : Nat]

\* The type of every variable: the wrapped block number stays an unsigned
\* short and a buffer's counter a size or a flag (struct bf).
TypeOK ==
    /\ pc \in {"readit", "send", "wait", "got"} \cup Terminal
    /\ sendblock \in 0..BlockMod-1
    /\ size \in {BF_ALLOC, BF_FREE} \cup (0..SEGSIZE)
    /\ bfs \in [0..1 -> BufferType]
    /\ current \in 0..1 /\ nextone \in 0..1
    /\ rptr \in 0..N
    /\ timeout \in 0..MaxAlarms
    /\ ackbuf \in Reply
    /\ got_exit_signal \in BOOLEAN
    /\ inbox \subseteq Reply /\ toServer \subseteq Reply
    /\ toClient \subseteq Packet
    /\ rcvd \in Seq(Nat)
    /\ lastblock \in 0..BlockMod-1
    /\ client \in {"run", "fin", "gone"}
    /\ seg \in Nat \ {0}

Sending == pc \in {"send", "wait", "got"}

\* While a block is on its way the buffer in use holds exactly that block,
\* full unless it is the last, and the other one is free or holds the block
\* after it: however often the timer or a stale ACK jumps back to send_data,
\* read_ahead never overwrites the packet that is to be sent again, and
\* readit never hands out a flag for a size.
BufferHoldsBlock ==
    /\ pc # "nak"
    /\ Sending =>
        /\ bfs[current] = [counter |-> Size(seg), data |-> seg]
        /\ size = Size(seg)
        /\ \/ bfs[1 - current].counter = BF_FREE
           \/ bfs[1 - current] = [counter |-> Size(seg + 1), data |-> seg + 1]

\* The client's file is at all times the first segments of the served file, in
\* order and without repetition, across lost, duplicated and late packets and
\* the wrap of the 16-bit block number.
InOrder == \A k \in 1..Len(rcvd) : rcvd[k] = k

\* sendtftp goes on to a block only when the client has stored every block
\* before it, and the client is never ahead of it.
StepByStep == Len(rcvd) \in {seg - 1, seg}

\* What the two ends make of the transfer.
SenderState ==
    CASE pc = "done" -> "complete"
      [] pc \in {"aborted", "nak", "exited"} -> "failed"
      [] OTHER -> "busy"

ReceiverState ==
    CASE client = "fin" -> "complete"
      [] client = "gone" -> "failed"
      [] OTHER -> "busy"

FT == INSTANCE FileTransfer WITH
        Total <- N,
        delivered <- rcvd,
        sender <- SenderState,
        receiver <- ReceiverState

\* A download is a file transfer: the server returns normally only after the
\* client has the whole file, and the client sees the end of the file only
\* when it has every segment.
ImplementsFileTransfer == FT!Spec

\* A datagram more than the protocol asks for: the network delivers one and
\* keeps it, or the client says something unasked.
Repetition ==
    \/ \E m \in toServer : Arrive(m) /\ m \in toServer'
    \/ \E m \in toClient : ClientData(m) /\ m \in toClient'
    \/ ClientResend \/ ClientBabbles

\* sendtftp comes to an end whatever is lost and however often the client says
\* things again, unless it never stops: five alarms on one block end the
\* process, since timeout is reset only when a block is sent for the first
\* time.  A packet sendtftp ignores sets the alarm anew and counts for nothing
\* (tftpd.c:1191), so a client that repeats its last ACK for ever, each time
\* before the alarm, is waited for for ever: that case is left out by name.
Termination == []<><<Repetition>>_vars \/ <>(pc \in Terminal)
=============================================================================
