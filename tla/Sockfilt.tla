------------------------------ MODULE Sockfilt ------------------------------
(***************************************************************************)
(* tests/server/sockfilt.c: the process that owns the TCP side of the test *)
(* suite's FTP, IMAP, POP3 and SMTP servers.  It talks TCP to one client   *)
(* at a time and a block protocol, over its stdin and stdout, to the       *)
(* program that started it (ftpserver.pl); FtpControl and FtpData compose  *)
(* it with that program.                                                   *)
(*                                                                         *)
(* spc is where the process is: opening its socket ("start"), at the top   *)
(* of juggle ("juggle"), about to serve the descriptor select has reported *)
(* ("stdin", then "socket"), in disc_handshake's read ("handshake"), or    *)
(* gone ("ended").                                                         *)
(***************************************************************************)
EXTENDS Naturals, Sequences

CONSTANTS
    Clients,            \* TCP clients
    NoClient            \* CURL_SOCKET_BAD

ASSUME ClientsAssumption == NoClient \notin Clients

VARIABLES
    spc,
    mode,               \* enum sockmode
    conn,               \* *sockfdp: the client connected to
    ready,              \* select reported the socket as well as stdin
    got_exit_signal,
    stdin, stdout,      \* the two pipes
    parent,             \* is the process at their other end alive?
    client,             \* the clients' sockets
    backlog,            \* clients waiting to be accepted
    up, down            \* bytes under way to, and received from, sockfilt

process == <<spc, mode, conn, ready>>
pipes == <<stdin, stdout>>
streams == <<up, down>>
sockfiltVars == <<process, got_exit_signal, pipes, parent, client, backlog,
                  streams>>

\* A block of the protocol: a command, and data where it has any.
Block(cmd, data) == [cmd |-> cmd, data |-> data]
Bare(cmd) == Block(cmd, << >>)

Ended == spc = "ended"

-----------------------------------------------------------------------------
(* Helpers *)

\* The fd_sets are juggle's own: once it has gone on they are forgotten.
Goto(label) ==
    /\ spc' = label
    /\ ready' = (ready /\ label \in {"stdin", "handshake"})

\* write_stdout: fails when nobody can read any more, and the process ends.
WriteStdout(block, label) ==
    IF parent = "alive"
      THEN stdout' = Append(stdout, block) /\ Goto(label)
      ELSE UNCHANGED stdout /\ Goto("ended")

\* read_stdin at the program point label: the next block.
ReadStdin(label) ==
    /\ spc = label
    /\ ~got_exit_signal
    /\ stdin # << >>
    /\ stdin' = Tail(stdin)

Command == Head(stdin).cmd

\* Juggle goes on to the socket if select reported it as well.
AfterStdin == IF ready THEN "socket" ELSE "juggle"

\* Mutant: a server that has lost its client behaves like an active one.
NeverListensAgain == conn' = NoClient /\ mode' = "ACTIVE_DISCONNECT"

\* Mutant: the mode is not brought back to listening.
KeepsItsMode == conn' = NoClient /\ UNCHANGED mode

\* sclose(sockfd) and the mode that follows.
CloseSocket ==
    /\ conn' = NoClient
    /\ mode' = IF mode = "PASSIVE_CONNECT" THEN "PASSIVE_LISTEN"
                                           ELSE "ACTIVE_DISCONNECT"

StdinReadable == stdin # << >> \/ parent = "dead"

SocketReadable ==
    IF mode = "PASSIVE_LISTEN"
      THEN backlog # << >>
      ELSE conn # NoClient /\ (up[conn] # << >> \/ client[conn] = "closed")

-----------------------------------------------------------------------------
(* main and juggle *)

\* Bind and listen, or connect; and the pid and port files.
Start ==
    /\ spc = "start"
    /\ Goto("juggle")
    /\ UNCHANGED <<mode, conn, pipes, client, backlog, streams>>

StartFails ==
    /\ spc = "start"
    /\ WriteStdout(Bare("FAIL"), "ended")
    /\ UNCHANGED <<mode, conn, stdin, client, backlog, streams>>

Select ==
    /\ spc = "juggle"
    /\ ~got_exit_signal /\ parent = "alive"
    /\ StdinReadable \/ SocketReadable
    /\ spc' = IF StdinReadable THEN "stdin" ELSE "socket"
    /\ ready' = (StdinReadable /\ SocketReadable)
    /\ UNCHANGED <<mode, conn, pipes, client, backlog, streams>>

\* PING and PORT are answered.
StdinQuery ==
    /\ ReadStdin("stdin")
    /\ Command \in {"PING", "PORT"}
    /\ WriteStdout(Bare(IF Command = "PING" THEN "PONG" ELSE "PORT"),
                   AfterStdin)
    /\ UNCHANGED <<mode, conn, client, backlog, streams>>

StdinQuit ==
    /\ ReadStdin("stdin")
    /\ Command = "QUIT"
    /\ Goto("ended")
    /\ UNCHANGED <<mode, conn, stdout, client, backlog, streams>>

\* DATA goes to the client: swrite, whose failure is only logged.
StdinData ==
    /\ ReadStdin("stdin")
    /\ Command = "DATA" /\ mode # "PASSIVE_LISTEN"
    /\ down' = IF conn # NoClient /\ client[conn] = "open"
                 THEN [down EXCEPT ![conn] = @ \o Head(stdin).data]
                 ELSE down
    /\ Goto(AfterStdin)
    /\ UNCHANGED <<mode, conn, stdout, client, backlog, up>>

\* DATA without a client: the parent has to be told that it is gone.
StdinDataDisconnected ==
    /\ ReadStdin("stdin")
    /\ Command = "DATA" /\ mode = "PASSIVE_LISTEN"
    /\ WriteStdout(Bare("DISC"), "handshake")
    /\ UNCHANGED <<mode, conn, client, backlog, streams>>

\* DISC: the parent closes the connection, if there still is one.
StdinDisc ==
    /\ ReadStdin("stdin")
    /\ Command = "DISC"
    /\ WriteStdout(Bare("ACKD"), "juggle")
    /\ CloseSocket
    /\ UNCHANGED <<client, backlog, streams>>

AtSocket == spc = "socket" /\ ~got_exit_signal

Accept ==
    /\ AtSocket
    /\ mode = "PASSIVE_LISTEN" /\ backlog # << >>
    /\ WriteStdout(Block("CNCT", <<Head(backlog)>>), "juggle")
    /\ conn' = Head(backlog) /\ mode' = "PASSIVE_CONNECT"
    /\ backlog' = Tail(backlog)
    /\ UNCHANGED <<stdin, client, streams>>

\* accept fails: the client has gone in the meantime.
AcceptFails ==
    /\ AtSocket
    /\ mode = "PASSIVE_LISTEN" /\ backlog # << >>
    /\ client[Head(backlog)] = "closed"
    /\ backlog' = Tail(backlog)
    /\ Goto("juggle")
    /\ UNCHANGED <<mode, conn, pipes, client, streams>>

\* sread returns some of what has arrived.
SocketData ==
    /\ AtSocket
    /\ mode # "PASSIVE_LISTEN" /\ up[conn] # << >>
    /\ \E n \in 1..Len(up[conn]) :
         /\ WriteStdout(Block("DATA", SubSeq(up[conn], 1, n)), "juggle")
         /\ up' = [up EXCEPT ![conn] = SubSeq(@, n + 1, Len(@))]
    /\ UNCHANGED <<mode, conn, stdin, client, backlog, down>>

\* Mutant: the connection is closed without waiting for the parent.
NoHandshake ==
    /\ AtSocket
    /\ mode # "PASSIVE_LISTEN" /\ up[conn] = << >>
    /\ client[conn] = "closed"
    /\ WriteStdout(Bare("DISC"), "juggle")
    /\ CloseSocket
    /\ UNCHANGED <<stdin, client, backlog, streams>>

\* Mutant: what has not been read when the client closes is forgotten.
EofOvertakesData ==
    /\ AtSocket
    /\ mode # "PASSIVE_LISTEN" /\ client[conn] = "closed"
    /\ WriteStdout(Bare("DISC"), "handshake")
    /\ UNCHANGED <<mode, conn, stdin, client, backlog, streams>>

\* sread finds the end of the stream.
SocketEof ==
    /\ AtSocket
    /\ mode # "PASSIVE_LISTEN" /\ up[conn] = << >>
    /\ client[conn] = "closed"
    /\ WriteStdout(Bare("DISC"), "handshake")
    /\ UNCHANGED <<mode, conn, stdin, client, backlog, streams>>

-----------------------------------------------------------------------------
(* disc_handshake *)

\* ACKD: back in juggle, which closes the socket unless it was without one.
HandshakeAckd ==
    /\ ReadStdin("handshake")
    /\ Command = "ACKD"
    /\ IF mode = "PASSIVE_LISTEN"
         THEN Goto(AfterStdin) /\ UNCHANGED <<conn, mode>>
         ELSE Goto("juggle") /\ CloseSocket
    /\ UNCHANGED <<stdout, client, backlog, streams>>

\* Mutant: the parent's DISC is dropped like everything else.
HandshakeDropsDisc ==
    /\ ReadStdin("handshake")
    /\ Command = "DISC"
    /\ UNCHANGED <<process, stdout, client, backlog, streams>>

\* DISC: the parent wants to disconnect, too.
HandshakeDisc ==
    /\ ReadStdin("handshake")
    /\ Command = "DISC"
    /\ WriteStdout(Bare("ACKD"), "handshake")
    /\ UNCHANGED <<mode, conn, client, backlog, streams>>

\* Data is thrown away; anything else is an unclean shutdown.
HandshakeOther ==
    /\ ReadStdin("handshake")
    /\ Command \notin {"ACKD", "DISC"}
    /\ Goto(IF Command = "DATA" THEN "handshake" ELSE "ended")
    /\ UNCHANGED <<mode, conn, stdout, client, backlog, streams>>

-----------------------------------------------------------------------------
(* The end *)

\* The parent is gone: getppid at the top of juggle, or a read at the end of
\* the pipe.  (A failing write is in WriteStdout.)
Orphan ==
    /\ parent = "dead"
    /\ \/ spc = "juggle"
       \/ spc \in {"stdin", "handshake"} /\ stdin = << >>
    /\ Goto("ended")
    /\ UNCHANGED <<mode, conn, pipes, client, backlog, streams>>

\* Mutant: select is restarted without a look at the flag.
SelectRestarted ==
    /\ got_exit_signal
    /\ \/ spc \in {"stdin", "socket"}
       \/ spc = "handshake" /\ StdinReadable
    /\ Goto("ended")
    /\ UNCHANGED <<mode, conn, pipes, client, backlog, streams>>

\* got_exit_signal is looked at before and after select, which it interrupts,
\* and after each read and write.  The read of disc_handshake blocks, and is
\* restarted.  (What a block under way on stdout loses is left out.)
Signalled ==
    /\ got_exit_signal
    /\ \/ spc \in {"juggle", "stdin", "socket"}
       \/ spc = "handshake" /\ StdinReadable
    /\ Goto("ended")
    /\ UNCHANGED <<mode, conn, pipes, client, backlog, streams>>

ExitSignal ==
    /\ ~Ended
    /\ ~got_exit_signal /\ got_exit_signal' = TRUE
    /\ UNCHANGED <<process, pipes, parent, client, backlog, streams>>

Step ==
    \/ Start \/ StartFails
    \/ Select \/ StdinQuery \/ StdinQuit \/ StdinData \/ StdinDataDisconnected
    \/ StdinDisc \/ Accept \/ AcceptFails \/ SocketData \/ SocketEof
    \/ HandshakeAckd \/ HandshakeDisc \/ HandshakeOther \/ Orphan \/ Signalled

\* A step of the process.
SockfiltStep == Step /\ UNCHANGED <<got_exit_signal, parent>>

-----------------------------------------------------------------------------
(* The other end of the pipes *)

\* sysread: the next block.  (Five bytes for the command, five for the size,
\* and the data, are three reads; the writer's blocks are whole.)
ParentReads ==
    /\ parent = "alive"
    /\ stdout # << >>
    /\ stdout' = Tail(stdout)

Read == Head(stdout).cmd

\* print; without a reader that is the end (SIGPIPE).
ParentPrints(block) ==
    IF Ended
      THEN parent' = "dead" /\ UNCHANGED stdin
      ELSE stdin' = Append(stdin, block) /\ UNCHANGED parent

-----------------------------------------------------------------------------
(* The network *)

\* A client connects to the listening socket.
Connect(c) ==
    /\ client[c] = "new"
    /\ ~Ended /\ mode \in {"PASSIVE_LISTEN", "PASSIVE_CONNECT"}
    /\ client' = [client EXCEPT ![c] = "open"]
    /\ backlog' = Append(backlog, c)
    /\ UNCHANGED <<process, got_exit_signal, pipes, parent, streams>>

Close(c) ==
    /\ client[c] = "open"
    /\ client' = [client EXCEPT ![c] = "closed"]
    /\ UNCHANGED <<process, got_exit_signal, pipes, parent, backlog, streams>>

\* A client that was sent something and closes may cause a reset, which
\* destroys what it had sent.
Reset(c) ==
    /\ client[c] = "closed" /\ up[c] # << >> /\ down[c] # << >>
    /\ up' = [up EXCEPT ![c] = << >>]
    /\ UNCHANGED <<process, got_exit_signal, pipes, parent, client, backlog,
                   down>>

Network == \E c \in Clients : Connect(c) \/ Close(c) \/ Reset(c)

-----------------------------------------------------------------------------

\* sockfilt --port: listening; sockfilt --connect: connected to c.
Listening ==
    /\ mode = "PASSIVE_LISTEN" /\ conn = NoClient
    /\ client = [c \in Clients |-> "new"]

Connected(c) ==
    /\ mode = "ACTIVE" /\ conn = c
    /\ client = [d \in Clients |-> IF d = c THEN "open" ELSE "new"]

SockfiltInit ==
    /\ ready = FALSE /\ got_exit_signal = FALSE
    /\ stdin = << >>
    /\ parent = "alive"
    /\ backlog = << >>
    /\ up = [c \in Clients |-> << >>] /\ down = [c \in Clients |-> << >>]

Commands == {"PING", "PONG", "PORT", "CNCT", "DATA", "DISC", "ACKD", "QUIT",
             "FAIL"}

\* The types; and while the process lives it has a stream in exactly the
\* modes that say so, is in a handshake only with the pipe or the client's
\* end to wait for, and waits in the socket's branch only with a socket.
SockfiltTypeOK ==
    /\ spc \in {"start", "juggle", "stdin", "socket", "handshake", "ended"}
    /\ mode \in {"PASSIVE_LISTEN", "PASSIVE_CONNECT", "ACTIVE",
                 "ACTIVE_DISCONNECT"}
    /\ conn \in Clients \cup {NoClient}
    /\ ready \in BOOLEAN
    /\ got_exit_signal \in BOOLEAN
    /\ \A p \in {stdin, stdout} : \A i \in DOMAIN p : p[i].cmd \in Commands
    /\ parent \in {"alive", "dead"}
    /\ client \in [Clients -> {"new", "open", "closed"}]
    /\ backlog \in Seq(Clients)
    /\ DOMAIN up = Clients /\ DOMAIN down = Clients
    /\ ready => spc \in {"stdin", "handshake"}
    /\ ~Ended => (mode \in {"PASSIVE_CONNECT", "ACTIVE"} <=> conn # NoClient)
    /\ spc = "socket" => SocketReadable
=============================================================================
