------------------------------ MODULE TftpRecv ------------------------------
(***************************************************************************)
(* An upload served by tests/server/tftpd.c: recvtftp() with the           *)
(* double-buffered write-behind it drives (writeit, write_behind,          *)
(* rw_init), its retransmission timer, synchnet() and the wait for a lost  *)
(* final ACK.  The client and the network are external: the client is any  *)
(* RFC 1350 sender, the network may lose, duplicate and reorder datagrams, *)
(* but none outlives PacketLife blocks.                                    *)
(*                                                                         *)
(* A file is abstracted to its segments 1..N: all but the last one fill a  *)
(* packet, the last one is short (it may be empty: then there is nothing   *)
(* to write, and it counts as written).                                    *)
(***************************************************************************)
EXTENDS Integers, Sequences

CONSTANTS
    N,                  \* segments of the file
    BlockMod,           \* values of the unsigned short recvblock: 65536
    PacketLife,         \* blocks a datagram may survive in the network
    MaxAlarms           \* maxtimeout / rexmtval: 5

ASSUME UploadAssumption ==
    /\ N \in Nat \ {0}
    /\ BlockMod \in Nat
    /\ PacketLife \in Nat
    /\ 1 <= PacketLife /\ PacketLife < BlockMod
    /\ MaxAlarms \in Nat \ {0}

BF_ALLOC == -3
BF_FREE  == -2
SEGSIZE  == 1           \* a full packet; 0 stands for every shorter size

VARIABLES
    pc,                 \* where recvtftp is
    recvblock,          \* block number it waits for
    ackblock,           \* block number in ackbuf
    bfs,                \* the two buffers: [counter, pkt]
    current, nextone,   \* buffer read into, buffer write_behind looks at
    timeout,            \* alarms since the block before was acknowledged
    trsbuf,             \* datagram read while waiting for a lost final ACK
    ofile,              \* "none" (0), "open" or "failed" (-1)
    disk,               \* segments written to the upload file
    diskError,          \* history: an open or a write failed
    got_exit_signal,
    inbox,              \* datagrams queued on the peer socket
    toServer, toClient, \* datagrams under way
    sent, sentblock,    \* client: block awaiting its ACK, unwrapped and wrapped
    client,             \* "run", "fin" (last block acknowledged) or "gone"
    seg                 \* history: recvblock, not wrapped

buffers == <<bfs, current, nextone>>
file == <<ofile, disk, diskError>>
network == <<inbox, toServer, toClient>>
clientVars == <<sent, sentblock, client>>
vars == <<pc, recvblock, ackblock, buffers, timeout, trsbuf, file,
          got_exit_signal, network, clientVars, seg>>

Terminal == {"done", "aborted", "exited"}

Size(k) == IF k < N THEN SEGSIZE ELSE 0

\* The unsigned short wraps.
NextBlock(b) == (b + 1) % BlockMod

\* A datagram: block and data travel, seq is the unwrapped block number.
Data(k) == [op |-> "DATA", block |-> k % BlockMod, data |-> k,
            size |-> Size(k), seq |-> k]
Error(q) == [op |-> "ERROR", block |-> 0, data |-> 0, size |-> 0, seq |-> q]
Other(q) == [op |-> "OTHER", block |-> 0, data |-> 0, size |-> 0, seq |-> q]
NoPacket == [op |-> "none", block |-> 0, data |-> 0, size |-> 0, seq |-> 0]
Ack(b, q) == [block |-> b, seq |-> q]

\* What is left of a set of datagrams when the transfer is at block q.
Fresh(msgs, q) == {m \in msgs : m.seq > q - PacketLife}

ClientClosed == client # "run"

\* rw_init(0), by way of w_init: it resets the counters, not the packets an
\* earlier transfer left in the static buffers.
RwInit ==
    /\ \E left \in {NoPacket, Data(1)} :
         bfs = [i \in 0..1 |-> [counter |-> IF i = 0 THEN BF_ALLOC ELSE BF_FREE,
                                pkt |-> left]]
    /\ current = 0 /\ nextone = 0

\* recvtftp has gone past the top of its loop.
Init ==
    /\ pc = "ack"
    /\ ackblock = 0 /\ recvblock = 1 % BlockMod
    /\ RwInit
    /\ timeout = 0
    /\ trsbuf = NoPacket
    /\ ofile = "none" /\ disk = << >> /\ diskError = FALSE
    /\ got_exit_signal = FALSE
    /\ inbox = {} /\ toServer = {} /\ toClient = {}
    /\ sent = 0 /\ sentblock = 0 /\ client = "run"
    /\ seg = 1

-----------------------------------------------------------------------------
(* The write-behind buffers *)

\* write_behind on the buffers b, leaving them as r.  A failed open keeps the
\* buffer and is not tried again; a failed write loses it; neither is told.
WriteBehind(b, r) ==
    \/ /\ b[nextone].counter < -1
       /\ r = b
       /\ UNCHANGED <<nextone, file>>
    \/ /\ b[nextone].counter >= -1
       /\ r = b
       /\ \/ ofile = "none" /\ ofile' = "failed" /\ diskError' = TRUE
          \/ ofile = "failed" /\ UNCHANGED <<ofile, diskError>>
       /\ UNCHANGED <<nextone, disk>>
    \/ /\ b[nextone].counter >= -1
       /\ ofile # "failed"
       /\ ofile' = "open"
       /\ r = [b EXCEPT ![nextone].counter = BF_FREE]
       /\ nextone' = 1 - nextone
       /\ \/ disk' = Append(disk, b[nextone].pkt.data) /\ UNCHANGED diskError
          \/ diskError' = TRUE /\ UNCHANGED disk

Freed(b) == [b EXCEPT ![nextone].counter = BF_FREE]

\* writeit: queue the packet just read, flush the other buffer unless it is
\* free, and take that one.
WriteIt ==
    LET queued == [bfs EXCEPT ![current].counter = bfs[current].pkt.size]
        next   == 1 - current
    IN \E r \in {queued, Freed(queued)} :
         /\ \/ queued[next].counter # BF_FREE /\ WriteBehind(queued, r)
            \/ /\ queued[next].counter = BF_FREE
               /\ r = queued
               /\ UNCHANGED <<nextone, file>>
         /\ bfs' = [r EXCEPT ![next].counter = BF_ALLOC]
         /\ current' = next

\* Mutant: the file is left to the end of the process.
CloseNothing == UNCHANGED ofile

\* The file is closed on every way out of recvtftp.
CloseFile == ofile' = IF ofile = "open" THEN "none" ELSE ofile

-----------------------------------------------------------------------------
(* recvtftp *)

\* send_ack: swrite, then write_behind.
SendAck ==
    /\ pc = "ack"
    /\ toClient' = toClient \cup {Ack(ackblock, seg - 1)}
    /\ pc' = "flush"
    /\ UNCHANGED <<recvblock, ackblock, buffers, timeout, trsbuf, file,
                   got_exit_signal, inbox, toServer, clientVars, seg>>

FlushBuffer ==
    /\ pc = "flush"
    /\ \E r \in {bfs, Freed(bfs)} : WriteBehind(bfs, r) /\ bfs' = r
    /\ pc' = "wait"
    /\ UNCHANGED <<recvblock, ackblock, current, timeout, trsbuf,
                   got_exit_signal, network, clientVars, seg>>

\* swrite or sread on the connected socket fails: the client's port is closed.
PeerFails ==
    /\ pc \in {"ack", "wait"}
    /\ ClientClosed
    /\ pc' = "aborted"
    /\ CloseFile
    /\ UNCHANGED <<recvblock, ackblock, buffers, timeout, trsbuf, disk,
                   diskError, got_exit_signal, network, clientVars, seg>>

\* sread into the current buffer returns; the alarm is still armed.
Receive(m) ==
    /\ pc = "wait"
    /\ bfs' = [bfs EXCEPT ![current].pkt = m]
    /\ inbox' = inbox \ {m}
    /\ pc' = "got"
    /\ UNCHANGED <<recvblock, ackblock, current, nextone, timeout, trsbuf, file,
                   got_exit_signal, toServer, toClient, clientVars, seg>>

AlarmCounts(count) ==
    /\ pc \in {"wait", "got"}
    /\ timeout' = count
    /\ pc' = IF timeout + 1 >= MaxAlarms THEN "exited" ELSE "ack"
    /\ UNCHANGED <<recvblock, ackblock, buffers, trsbuf, file, got_exit_signal,
                   network, clientVars, seg>>

\* Mutant: timeout reset below sigsetjmp.
AlarmResets == AlarmCounts(0)

\* SIGALRM before alarm(0): timer() exits the process, or jumps back to
\* send_ack and drops a packet that sread may just have returned.
Alarm == AlarmCounts(timeout + 1)

Got == bfs[current].pkt

GiveUp ==
    /\ pc = "got"
    /\ got_exit_signal \/ Got.op = "ERROR"
    /\ pc' = "aborted"
    /\ CloseFile
    /\ UNCHANGED <<recvblock, ackblock, buffers, timeout, trsbuf, disk,
                   diskError, got_exit_signal, network, clientVars, seg>>

Accept(accepted) ==
    /\ pc = "got"
    /\ ~got_exit_signal
    /\ Got.op = "DATA"
    /\ accepted
    /\ WriteIt
    /\ \/ /\ Got.size = SEGSIZE
          /\ ackblock' = recvblock
          /\ recvblock' = NextBlock(recvblock)
          /\ seg' = seg + 1
          /\ timeout' = 0
          /\ pc' = "ack"
       \/ /\ Got.size # SEGSIZE
          /\ pc' = "finish"
          /\ UNCHANGED <<ackblock, recvblock, seg, timeout>>
    /\ inbox' = Fresh(inbox, seg')
    /\ toServer' = Fresh(toServer, seg')
    /\ toClient' = Fresh(toClient, seg' - 1)
    /\ UNCHANGED <<trsbuf, got_exit_signal, clientVars>>

\* Mutant: the previous block is taken for a new one.
AcceptsPrevious == Accept(Got.block \in {recvblock, ackblock})

\* The expected block: queue it, and to the top of the loop unless it is short.
DataExpected == Accept(Got.block = recvblock)

\* Everything queued on the socket is thrown away.
SynchNet == inbox' = {}

\* Any other DATA: flush the socket, acknowledge again if it is the previous
\* block.  recvblock - 1 is an int: at block 0 it is -1.
DataOther ==
    /\ pc = "got"
    /\ ~got_exit_signal
    /\ Got.op = "DATA"
    /\ Got.block # recvblock
    /\ SynchNet
    /\ pc' = IF Got.block = recvblock - 1 THEN "ack" ELSE "wait"
    /\ UNCHANGED <<recvblock, ackblock, buffers, timeout, trsbuf, file,
                   got_exit_signal, toServer, toClient, clientVars, seg>>

\* Any other packet: back to sread, for which the alarm is set anew.
Ignore ==
    /\ pc = "got"
    /\ ~got_exit_signal
    /\ Got.op = "OTHER"
    /\ pc' = "wait"
    /\ UNCHANGED <<recvblock, ackblock, buffers, timeout, trsbuf, file,
                   got_exit_signal, network, clientVars, seg>>

-----------------------------------------------------------------------------
(* After the last block *)

\* Mutant: the last packet is left in its buffer.
FinalFlushMissing ==
    /\ pc = "finish"
    /\ pc' = "close"
    /\ UNCHANGED <<recvblock, ackblock, buffers, timeout, trsbuf, file,
                   got_exit_signal, network, clientVars, seg>>

FinalFlush ==
    /\ pc = "finish"
    /\ \E r \in {bfs, Freed(bfs)} : WriteBehind(bfs, r) /\ bfs' = r
    /\ pc' = "close"
    /\ UNCHANGED <<recvblock, ackblock, current, timeout, trsbuf,
                   got_exit_signal, network, clientVars, seg>>

FinalClose ==
    /\ pc = "close"
    /\ CloseFile
    /\ pc' = "lastack"
    /\ UNCHANGED <<recvblock, ackblock, buffers, timeout, trsbuf, disk,
                   diskError, got_exit_signal, network, clientVars, seg>>

\* The "final" ack, whose failure is ignored; SIGALRM now only ends the read.
FinalAck ==
    /\ pc = "lastack"
    /\ ackblock' = recvblock
    /\ toClient' = toClient \cup {Ack(recvblock, seg)}
    /\ pc' = "dally"
    /\ UNCHANGED <<recvblock, buffers, timeout, trsbuf, file, got_exit_signal,
                   inbox, toServer, clientVars, seg>>

DallyRead(m) ==
    /\ pc = "dally"
    /\ trsbuf' = m
    /\ inbox' = inbox \ {m}
    /\ pc' = "dallied"
    /\ UNCHANGED <<recvblock, ackblock, buffers, timeout, file, got_exit_signal,
                   toServer, toClient, clientVars, seg>>

\* The read fails: the alarm, or the client's port is closed.
DallyFails ==
    /\ pc = "dally"
    /\ pc' = IF got_exit_signal THEN "aborted" ELSE "done"
    /\ UNCHANGED <<recvblock, ackblock, buffers, timeout, trsbuf, file,
                   got_exit_signal, network, clientVars, seg>>

\* Something was read into trsbuf.  The test that follows looks at rdp, the
\* buffer writeit left current, and not at what was read.
DallyEnd ==
    /\ pc = "dallied"
    /\ \/ /\ got_exit_signal
          /\ pc' = "aborted"
          /\ UNCHANGED toClient
       \/ /\ ~got_exit_signal
          /\ pc' = "done"
          /\ toClient' = IF Got.op = "DATA" /\ Got.block = recvblock
                         THEN toClient \cup {Ack(ackblock, seg)}
                         ELSE toClient
    /\ UNCHANGED <<recvblock, ackblock, buffers, timeout, trsbuf, file,
                   got_exit_signal, inbox, toServer, clientVars, seg>>

\* exit_signal_handler: SIGTERM or SIGINT only sets a flag; the handler is
\* restartable, so a blocked sread goes on.
ExitSignal ==
    /\ pc \notin Terminal
    /\ ~got_exit_signal
    /\ got_exit_signal' = TRUE
    /\ UNCHANGED <<pc, recvblock, ackblock, buffers, timeout, trsbuf, file,
                   network, clientVars, seg>>

-----------------------------------------------------------------------------
(* The network and the client *)

\* A datagram is lost.
Lose(m) ==
    /\ \/ toServer' = toServer \ {m} /\ UNCHANGED toClient
       \/ toClient' = toClient \ {m} /\ UNCHANGED toServer
    /\ UNCHANGED <<pc, recvblock, ackblock, buffers, timeout, trsbuf, file,
                   got_exit_signal, inbox, clientVars, seg>>

\* A datagram is consumed when it is delivered, or duplicated and delivered
\* again later.
Arrive(m) ==
    /\ pc \notin Terminal
    /\ inbox' = inbox \cup {m}
    /\ toServer' = toServer \ {m} \/ UNCHANGED toServer
    /\ UNCHANGED <<pc, recvblock, ackblock, buffers, timeout, trsbuf, file,
                   got_exit_signal, toClient, clientVars, seg>>

\* The client gets the ACK it waits for: it sends the next block, or is done
\* and closes its port.  It ignores any other ACK.
ClientAck(m) ==
    /\ client = "run"
    /\ toClient' = toClient \ {m} \/ UNCHANGED toClient
    /\ \/ /\ m.block = sentblock /\ sent < N
          /\ sent' = sent + 1
          /\ sentblock' = NextBlock(sentblock)
          /\ toServer' = toServer \cup {Data(sent + 1)}
          /\ UNCHANGED client
       \/ /\ m.block = sentblock /\ sent = N
          /\ client' = "fin"
          /\ UNCHANGED <<sent, sentblock, toServer>>
       \/ /\ m.block # sentblock
          /\ UNCHANGED <<toServer, clientVars>>
    /\ UNCHANGED <<pc, recvblock, ackblock, buffers, timeout, trsbuf, file,
                   got_exit_signal, inbox, seg>>

\* The client's timeout, or its answer to an ACK it did not expect: the block
\* again.
ClientResend ==
    /\ client = "run"
    /\ sent > 0
    /\ pc \notin Terminal
    /\ toServer' = toServer \cup {Data(sent)}
    /\ UNCHANGED <<pc, recvblock, ackblock, buffers, timeout, trsbuf, file,
                   got_exit_signal, inbox, toClient, clientVars, seg>>

\* The client sends a packet that has no place in an upload.  It is read as it
\* is sent: one that is late or lost is one sent later or never.
ClientBabbles == Receive(Other(seg)) \/ DallyRead(Other(seg))

\* The client gives up, with or without an ERROR packet.
ClientAborts ==
    /\ client = "run"
    /\ client' = "gone"
    /\ \/ pc \notin Terminal /\ toServer' = toServer \cup {Error(seg)}
       \/ UNCHANGED toServer
    /\ UNCHANGED <<pc, recvblock, ackblock, buffers, timeout, trsbuf, file,
                   got_exit_signal, inbox, toClient, sent, sentblock, seg>>

-----------------------------------------------------------------------------
Server ==
    \/ SendAck \/ FlushBuffer \/ GiveUp \/ DataExpected \/ DataOther \/ Ignore
    \/ FinalFlush \/ FinalClose \/ FinalAck \/ DallyEnd
    \/ \E m \in inbox : Receive(m) \/ DallyRead(m)

Environment ==
    \/ \E m \in toServer \cup toClient : Lose(m)
    \/ \E m \in toServer : Arrive(m)
    \/ \E m \in toClient : ClientAck(m)
    \/ ClientResend \/ ClientBabbles \/ ClientAborts \/ ExitSignal

Next == Server \/ PeerFails \/ DallyFails \/ Alarm \/ Environment

Spec == Init /\ [][Next]_vars

\* The process runs and its armed alarms go off: nothing is asked of the
\* network or of the client, which may stay silent for ever.
FairSpec == Spec /\ WF_vars(Server) /\ WF_vars(Alarm) /\ WF_vars(DallyFails)

-----------------------------------------------------------------------------
(* What an upload guarantees *)

\* Blocks the client knows the server has acknowledged.
Acked == IF client = "fin" THEN N ELSE sent - 1

\* Unless an open or a write failed, the upload file is at all times the first
\* segments the client sent, in order and without repetition, across lost,
\* duplicated and late packets and the wrap of the 16-bit block number.
DiskInOrder == ~diskError => \A k \in 1..Len(disk) : disk[k] = k

\* write_behind never falls behind by more than the block just read, so writeit
\* finds the buffer it turns to free; and every block the client was told is
\* received is in the file once the server has left recvtftp, also when it
\* leaves by the timer's exit(1), by a signal or because the client is gone.
AckedIsSaved ==
    ~diskError =>
        /\ pc \in {"wait", "got"} =>
             bfs[1 - current].counter = BF_FREE /\ Len(disk) = seg - 1
        /\ pc \in Terminal => Acked <= Len(disk)

\* A client that has the final ACK finds the whole file on disk, and closed:
\* the test suite compares the file as soon as the client returns.
FinalAckMeansClosed ==
    client = "fin" /\ ~diskError => Len(disk) = N /\ ofile = "none"

SenderState ==
    CASE client = "fin" -> "complete"
      [] client = "gone" -> "failed"
      [] OTHER -> "busy"

\* A signal during the wait for a lost final ACK comes after the end.
ReceiverState ==
    CASE pc \in {"lastack", "dally", "dallied", "done"} -> "complete"
      [] pc = "exited" -> "failed"
      [] pc = "aborted" -> IF ackblock = recvblock THEN "complete" ELSE "failed"
      [] OTHER -> "busy"

FT == INSTANCE FileTransfer WITH
        Total <- N,
        delivered <- disk,
        sender <- SenderState,
        receiver <- ReceiverState

\* An upload whose file could be opened and written is a file transfer.
ImplementsFileTransfer ==
    FT!Init /\ [][~diskError' => FT!Next \/ UNCHANGED FT!ftvars]_vars

\* A datagram more than the protocol asks for: the network delivers one and
\* keeps it, or the client says something unasked.
Repetition ==
    \/ \E m \in toServer : Arrive(m) /\ m \in toServer'
    \/ \E m \in toClient : ClientAck(m) /\ m \in toClient'
    \/ ClientResend \/ ClientBabbles

\* recvtftp comes to an end whatever is lost and however often the client says
\* things again, unless it never stops: five alarms on one block end the
\* process, and the wait for a lost final ACK is one read long.  A packet
\* recvtftp ignores sets the alarm anew and counts for nothing (tftpd.c:1263),
\* so a client that repeats a packet for ever, each time before the alarm, is
\* waited for for ever: that case is left out by name.
Termination == []<><<Repetition>>_vars \/ <>(pc \in Terminal)

\* "then my last ack was lost": when the last block arrives again while the
\* server waits for just that, the final ACK goes out again
\* (tftpd.c:1322-1326).
FinalAckResent ==
    [][/\ pc = "dallied" /\ pc' = "done"
       /\ trsbuf.op = "DATA" /\ trsbuf.block = recvblock
       => Ack(recvblock, seg) \in toClient']_vars
=============================================================================
