------------------------------ MODULE FtpData -------------------------------
(***************************************************************************)
(* One data connection of tests/tests.c/ftpserver.pl: a second sockfilt    *)
(* process, started by PASV (it listens) or PORT (it connects), used by    *)
(* one RETR or STOR, and shut down by close_dataconn.                      *)
(*                                                                         *)
(* A file is the sequence of blocks 1..NBlocks.                            *)
(***************************************************************************)
EXTENDS Sockfilt, SequencesExt

CONSTANT NBlocks        \* blocks of the file

ASSUME BlocksAssumption == NBlocks \in Nat

VARIABLES
    dpc,                \* where PASV_ftp, PORT_ftp, RETR_ftp, STOR_ftp are
    command,            \* the transfer that follows: RETR or STOR
    storeresp,          \* the test wants STOR to stop after the first block
    file,               \* what RETR has sent, what STOR has stored
    peer,               \* history: the client the connection was made with
    sent                \* history: how many blocks each client has sent

transfer == <<command, storeresp, file, peer>>
vars == <<sockfiltVars, dpc, transfer, sent>>

File == [i \in 1..NBlocks |-> i]

\* open2: the process has been started.
Init ==
    /\ SockfiltInit
    /\ Listening \/ \E c \in Clients : Connected(c)
    /\ peer = conn
    /\ spc = "start" /\ stdout = << >>
    /\ dpc = "start"
    /\ command \in {"RETR", "STOR"}
    /\ storeresp \in BOOLEAN /\ (storeresp => command = "STOR")
    /\ file = << >>
    /\ sent = [c \in Clients |-> 0]

-----------------------------------------------------------------------------
(* PASV_ftp and PORT_ftp *)

SysRead(label) == dpc = label /\ ParentReads

PrintTo(block, label) == ParentPrints(block) /\ dpc' = label

\* killsockfilters: SIGKILL.
KillSockfilt ==
    /\ Goto("ended")
    /\ dpc' = "stopped"
    /\ UNCHANGED <<mode, conn, pipes, got_exit_signal, parent, client,
                   backlog, streams, transfer, sent>>

StartPing ==
    /\ dpc = "start" /\ parent = "alive"
    /\ PrintTo(Bare("PING"), "ping")
    /\ UNCHANGED <<process, stdout, got_exit_signal, client, backlog, streams,
                   transfer, sent>>

\* PONG: a passive server is asked for its port, an active one is connected.
Pong ==
    /\ SysRead("ping")
    /\ Read = "PONG"
    /\ IF peer = NoClient
         THEN PrintTo(Bare("PORT"), "port")
         ELSE dpc' = "open" /\ UNCHANGED <<stdin, parent>>
    /\ UNCHANGED <<process, got_exit_signal, client, backlog, streams,
                   transfer, sent>>

\* FAIL, or the DISC of a client that closed at once: no data connection.  In
\* the second case the process is killed; in the first it ends by itself.
NoPong ==
    /\ SysRead("ping")
    /\ Read # "PONG"
    /\ dpc' = "stopped"
    /\ Goto("ended")
    /\ UNCHANGED <<mode, conn, stdin, got_exit_signal, parent, client,
                   backlog, streams, transfer, sent>>

\* The port, which the client is told.
AwaitPort ==
    /\ SysRead("port")
    /\ dpc' = "cnct"
    /\ UNCHANGED <<process, got_exit_signal, stdin, parent, client, backlog,
                   streams, transfer, sent>>

AwaitConnect ==
    /\ SysRead("cnct")
    /\ Read = "CNCT"
    /\ peer' = Head(stdout).data[1]
    /\ dpc' = "open"
    /\ UNCHANGED <<command, storeresp, file, process, got_exit_signal, stdin,
                   parent, client, backlog, streams, sent>>

\* Nobody connects in time: SIGALRM.
ConnectTimeout ==
    /\ dpc = "cnct" /\ parent = "alive"
    /\ KillSockfilt

-----------------------------------------------------------------------------
(* RETR_ftp, STOR_ftp and close_dataconn *)

\* The command that uses the connection.
Begin ==
    /\ dpc = "open" /\ parent = "alive"
    /\ dpc' = command
    /\ UNCHANGED <<sockfiltVars, transfer, sent>>

\* The session ends, or another PASV or PORT comes first.
Abandon ==
    /\ dpc = "open" /\ parent = "alive"
    /\ KillSockfilt

\* senddata
RetrSend ==
    /\ dpc = "RETR" /\ parent = "alive"
    /\ Len(file) < NBlocks
    /\ PrintTo(Block("DATA", <<Len(file) + 1>>), "RETR")
    /\ file' = Append(file, Len(file) + 1)
    /\ UNCHANGED <<command, storeresp, peer, process, stdout, got_exit_signal,
                   client, backlog, streams, sent>>

\* Everything is sent: close_dataconn(0).
RetrClose ==
    /\ dpc = "RETR" /\ parent = "alive"
    /\ Len(file) = NBlocks
    /\ PrintTo(Bare("DISC"), "closing")
    /\ UNCHANGED <<process, stdout, got_exit_signal, client, backlog, streams,
                   transfer, sent>>

\* Mutant: eXsysread is content with what one sysread has returned.
StorDataShort ==
    /\ SysRead("STOR")
    /\ Read = "DATA"
    /\ file' = Append(file, Head(Head(stdout).data))
    /\ IF storeresp
         THEN PrintTo(Bare("DISC"), "closing")
         ELSE UNCHANGED <<dpc, stdin, parent>>
    /\ UNCHANGED <<command, storeresp, peer, process, got_exit_signal, client,
                   backlog, streams, sent>>

\* A block of an upload is stored; storeresp makes it the last.
StorData ==
    /\ SysRead("STOR")
    /\ Read = "DATA"
    /\ file' = file \o Head(stdout).data
    /\ IF storeresp
         THEN PrintTo(Bare("DISC"), "closing")
         ELSE UNCHANGED <<dpc, stdin, parent>>
    /\ UNCHANGED <<command, storeresp, peer, process, got_exit_signal, client,
                   backlog, streams, sent>>

\* The client's end of the upload: close_dataconn(1).
StorDisc ==
    /\ SysRead("STOR")
    /\ Read = "DISC"
    /\ PrintTo(Bare("ACKD"), "quit")
    /\ UNCHANGED <<process, got_exit_signal, client, backlog, streams,
                   transfer, sent>>

\* disc_handshake: throw away data, acknowledge the client's DISC, and wait
\* for the answer to the DISC sent.
Closing ==
    /\ SysRead("closing")
    /\ IF Read = "DISC"
         THEN PrintTo(Bare("ACKD"), "closing")
         ELSE /\ dpc' = IF Read = "ACKD" THEN "quit" ELSE "closing"
              /\ UNCHANGED <<stdin, parent>>
    /\ UNCHANGED <<process, got_exit_signal, client, backlog, streams,
                   transfer, sent>>

Quit ==
    /\ dpc = "quit" /\ parent = "alive"
    /\ PrintTo(Bare("QUIT"), "pidwait")
    /\ UNCHANGED <<process, stdout, got_exit_signal, client, backlog, streams,
                   transfer, sent>>

\* The process is gone: "226 File transfer complete".
PidWait ==
    /\ dpc = "pidwait" /\ Ended
    /\ dpc' = "done"
    /\ UNCHANGED <<sockfiltVars, transfer, sent>>

Harness ==
    \/ StartPing \/ Pong \/ NoPong \/ AwaitPort \/ AwaitConnect
    \/ ConnectTimeout \/ Begin \/ Abandon \/ RetrSend \/ RetrClose \/ StorData \/ StorDisc
    \/ Closing \/ Quit \/ PidWait

-----------------------------------------------------------------------------
(* The client's data socket *)

\* Data is sent after the reply to STOR.
Send(c) ==
    /\ command = "STOR" /\ dpc \in {"STOR", "closing", "quit", "pidwait"}
    /\ client[c] = "open" /\ ~Ended
    /\ sent[c] < NBlocks
    /\ sent' = [sent EXCEPT ![c] = @ + 1]
    /\ up' = [up EXCEPT ![c] = Append(@, sent[c] + 1)]
    /\ UNCHANGED <<dpc, transfer, process, got_exit_signal, pipes, parent,
                   client, backlog, down>>

\* The port is known once the reply to PASV is sent.
PortKnown == dpc \notin {"start", "ping", "port"}

Hangs(c) == Close(c) /\ UNCHANGED <<dpc, transfer, sent>>

-----------------------------------------------------------------------------

Next ==
    \/ SockfiltStep /\ UNCHANGED <<dpc, transfer, sent>>
    \/ Harness
    \/ \E c \in Clients :
         \/ Send(c)
         \/ Hangs(c)
         \/ PortKnown /\ Connect(c) /\ UNCHANGED <<dpc, transfer, sent>>

Spec == Init /\ [][Next]_vars

\* Both processes run, and the control connection goes on or ends.  A client
\* that uploads closes in the end; one that downloads need not do anything.
FairSpec ==
    /\ Spec
    /\ WF_vars(SockfiltStep /\ UNCHANGED <<dpc, transfer, sent>>)
    /\ WF_vars(Harness)
    /\ \A c \in Clients : WF_vars(command = "STOR" /\ Hangs(c))

-----------------------------------------------------------------------------
(* What the two promise together *)

\* What is stored of an upload is what its client sent, in order; and if the
\* client, not the server, ended it, all of it: not a block is lost between
\* the end of the stream and the handshake.
StoredAll ==
    command = "STOR" /\ dpc \in {"STOR", "closing", "quit", "pidwait", "done"} =>
        /\ IsPrefix(file, File) /\ Len(file) <= sent[peer]
        /\ dpc = "done" /\ ~storeresp => Len(file) = sent[peer]

\* What a downloading client has received is the beginning of the file; it is
\* all of it when the server says that the transfer is complete, unless the
\* client closed; and no other client receives any of it.
SentAll ==
    /\ \A c \in Clients : IsPrefix(down[c], File)
    /\ \A c \in Clients \ {peer} : down[c] = << >>
    /\ dpc = "done" /\ command = "RETR" /\ client[peer] = "open"
         => down[peer] = File

\* The two ends of the stream.  The server closes its own when it has sent the
\* file, or, for storeresp, when it has stored as much as it wants.
ServerEnd ==
    IF dpc \in {"closing", "quit", "pidwait", "done"} /\ (command = "STOR" => storeresp)
      THEN "closed" ELSE "open"

OfPeer(f, nobody) == IF peer = NoClient THEN nobody ELSE f[peer]
ClientEnd == OfPeer(client, "open")

Written == IF command = "RETR" THEN Len(file) ELSE OfPeer(sent, 0)
Received == IF command = "RETR" THEN OfPeer(down, << >>) ELSE file

BS == INSTANCE ByteStream WITH
        written <- Written,
        writer <- IF command = "RETR" THEN ServerEnd ELSE ClientEnd,
        received <- Received,
        reader <- IF command = "RETR" THEN ClientEnd ELSE ServerEnd,
        over <- dpc = "done"

\* A data connection is a stream of bytes: whatever sockfilt, the pipes and the
\* handshakes do to the blocks of a RETR or STOR, no step of theirs loses,
\* repeats, reorders or takes back one of them, and "226 File transfer
\* complete" comes only after the end of the stream has reached the reader.
ImplementsByteStream == BS!Spec

\* Harness and sockfilt never wait for each other, also when both want to
\* disconnect: every data connection comes to its end, and with it the
\* process that served it.
Finishes ==
    <>((dpc \in {"done", "stopped"} /\ Ended) \/ parent = "dead")
=============================================================================
