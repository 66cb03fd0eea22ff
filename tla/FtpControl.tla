----------------------------- MODULE FtpControl -----------------------------
(***************************************************************************)
(* The control connection of tests/tests.c/ftpserver.pl: its main loop     *)
(* with DATA_smtp for the commands that read from the client themselves,   *)
(* on top of a sockfilt process that listens.                              *)
(*                                                                         *)
(* A client's byte stream is a sequence of pieces: "part" is a piece that  *)
(* does not end a line, "known" ends a line with a command the server      *)
(* answers, "unknown" one that its regular expressions do not accept,      *)
(* "mail" one with the SMTP command DATA, and "eob" ends the mail.         *)
(***************************************************************************)
EXTENDS Sockfilt, FiniteSets

CONSTANTS
    Pieces,             \* what the clients send
    MaxLines            \* lines of one client

ASSUME PiecesAssumption ==
    Pieces \subseteq {"part", "known", "unknown", "mail"} /\ MaxLines \in Nat

VARIABLES
    hpc,                \* where the main loop is
    full,               \* $full, the command so far
    serverlogslocked,
    session,            \* history: the client of the CNCT answered last
    said                \* history: what each client has sent

harness == <<hpc, full, serverlogslocked, session>>
vars == <<sockfiltVars, harness, said>>

Init ==
    /\ SockfiltInit /\ Listening
    /\ spc = "juggle" /\ stdout = << >>
    /\ hpc = "idle" /\ full = << >> /\ serverlogslocked = FALSE
    /\ session = NoClient
    /\ said = [c \in Clients |-> << >>]

\* The pieces that end a line.
Lines(pieces) == {i \in DOMAIN pieces : pieces[i] # "part"}

\* The text is one line, this one.
OneLine(pieces, line) ==
    \E i \in DOMAIN pieces : pieces[i] = line /\ Lines(pieces) = {i}

-----------------------------------------------------------------------------
(* ftpserver.pl *)

SysRead(label) == hpc = label /\ ParentReads

PrintTo(block, label) == ParentPrints(block) /\ hpc' = label

\* sendcontrol
SendControl(text, to, label) ==
    PrintTo(Block("DATA", <<[to |-> to, text |-> text]>>), label)

\* Mutant: the lock is forgotten.
ServesUnlocked ==
    /\ SysRead("idle")
    /\ Read = "CNCT"
    /\ session' = Head(stdout).data[1]
    /\ full' = << >>
    /\ SendControl("welcome", session', "session")
    /\ UNCHANGED <<serverlogslocked, got_exit_signal, process, client,
                   backlog, streams, said>>

\* CNCT: take the lock, welcome the client.
ClientConnects ==
    /\ SysRead("idle")
    /\ Read = "CNCT"
    /\ session' = Head(stdout).data[1]
    /\ serverlogslocked' = TRUE
    /\ full' = << >>
    /\ SendControl("welcome", session', "session")
    /\ UNCHANGED <<got_exit_signal, process, client, backlog, streams, said>>

\* Anything else is ignored while waiting for a client.
IdleIgnores ==
    /\ SysRead("idle")
    /\ Read # "CNCT"
    /\ UNCHANGED <<harness, got_exit_signal, stdin, parent, process, client,
                   backlog, streams, said>>

\* DATA in a session: a command may come in several pieces, and is done once
\* the text ends a line.
ReplyTo(text) ==
    CASE OneLine(text, "known") -> SendControl("reply", session, "session")
      [] OneLine(text, "mail") -> SendControl("reply", session, "mail")
      [] OTHER -> SendControl("500", session, "over")

\* Mutant: a command is looked at before its line has ended.
DoesNotAwaitEnd ==
    /\ SysRead("session")
    /\ Read = "DATA"
    /\ LET text == full \o Head(stdout).data
       IN ReplyTo(text) /\ full' = << >>
    /\ UNCHANGED <<session, serverlogslocked, got_exit_signal, process,
                   client, backlog, streams, said>>

SessionData ==
    /\ SysRead("session")
    /\ Read = "DATA"
    /\ LET text == full \o Head(stdout).data
       IN IF text[Len(text)] = "part"
            THEN full' = text /\ UNCHANGED <<hpc, stdin, parent>>
            ELSE full' = << >> /\ ReplyTo(text)
    /\ UNCHANGED <<session, serverlogslocked, got_exit_signal, process,
                   client, backlog, streams, said>>

\* Mutant: the client's end is not acknowledged.
SessionDiscUnacknowledged ==
    /\ SysRead("session")
    /\ Read = "DISC"
    /\ hpc' = "over"
    /\ UNCHANGED <<full, session, serverlogslocked, got_exit_signal, stdin,
                   parent, process, client, backlog, streams, said>>

SessionDisc ==
    /\ SysRead("session")
    /\ Read = "DISC"
    /\ PrintTo(Bare("ACKD"), "over")
    /\ UNCHANGED <<full, session, serverlogslocked, got_exit_signal, process,
                   client, backlog, streams, said>>

SessionIgnores ==
    /\ SysRead("session")
    /\ Read \notin {"DATA", "DISC"}
    /\ UNCHANGED <<harness, got_exit_signal, stdin, parent, process, client,
                   backlog, streams, said>>

\* DATA_smtp reads until the end of data.
MailData ==
    /\ SysRead("mail")
    /\ Read = "DATA"
    /\ hpc' = IF "eob" \in {Head(stdout).data[i] : i \in DOMAIN Head(stdout).data}
                THEN "received" ELSE "mail"
    /\ UNCHANGED <<full, session, serverlogslocked, got_exit_signal, stdin,
                   parent, process, client, backlog, streams, said>>

\* Or until the client disconnects.
MailDisc ==
    /\ SysRead("mail")
    /\ Read = "DISC"
    /\ PrintTo(Bare("ACKD"), "received")
    /\ UNCHANGED <<full, session, serverlogslocked, got_exit_signal, process,
                   client, backlog, streams, said>>

\* "250 OK, data received!", whatever ended the loop.
MailReply ==
    /\ hpc = "received" /\ parent = "alive"
    /\ SendControl("reply", session, "session")
    /\ UNCHANGED <<full, session, serverlogslocked, stdout, got_exit_signal,
                   process, client, backlog, streams, said>>

\* Mutant: only an orderly session gives the lock back.
KeepsLock ==
    /\ hpc = "over" /\ parent = "alive"
    /\ hpc' = "idle"
    /\ UNCHANGED <<full, session, serverlogslocked, pipes, got_exit_signal,
                   parent, process, client, backlog, streams, said>>

\* After the session: give up the lock.
Unlock ==
    /\ hpc = "over" /\ parent = "alive"
    /\ serverlogslocked' = FALSE
    /\ hpc' = "idle"
    /\ UNCHANGED <<full, session, pipes, got_exit_signal, parent, process,
                   client, backlog, streams, said>>

\* The pipe is at its end: sysread_or_die gives up the lock and exits; the
\* loop of DATA_smtp goes on to its reply.
PipeEof ==
    /\ Ended /\ stdout = << >> /\ parent = "alive"
    /\ IF hpc = "mail"
         THEN hpc' = "received" /\ UNCHANGED <<parent, serverlogslocked>>
         ELSE /\ hpc \in {"idle", "session"}
              /\ parent' = "dead" /\ serverlogslocked' = FALSE
              /\ UNCHANGED hpc
    /\ UNCHANGED <<full, session, pipes, got_exit_signal, process, client,
                   backlog, streams, said>>

\* The test suite kills the server: SIGKILL.
Killed ==
    /\ parent = "alive" /\ parent' = "dead"
    /\ UNCHANGED <<harness, pipes, got_exit_signal, process, client, backlog,
                   streams, said>>

\* exit_signal_handler: the sockfilt process is killed first.
HarnessSignal ==
    /\ parent = "alive" /\ parent' = "dead"
    /\ Goto("ended")
    /\ serverlogslocked' = FALSE
    /\ UNCHANGED <<hpc, full, session, pipes, got_exit_signal, mode, conn,
                   client, backlog, streams, said>>

MainLoop ==
    \/ ClientConnects \/ IdleIgnores
    \/ SessionData \/ SessionDisc \/ SessionIgnores
    \/ MailData \/ MailDisc \/ MailReply
    \/ Unlock \/ PipeEof

-----------------------------------------------------------------------------
(* The clients *)

\* A client waits for the welcome and then for the reply to each line.
MayTalk(c) ==
    /\ client[c] = "open" /\ ~Ended
    /\ Len(down[c]) > Cardinality(Lines(said[c]))
    /\ Cardinality(Lines(said[c])) < MaxLines

LastLine(c, line) ==
    \E i \in Lines(said[c]) :
        said[c][i] = line /\ \A j \in Lines(said[c]) : j <= i

InMail(c) == LastLine(c, "mail")

LineBegun(c) == said[c] # << >> /\ said[c][Len(said[c])] = "part"

Send(c) ==
    /\ MayTalk(c)
    /\ \E p \in IF InMail(c) THEN (Pieces \cap {"part"}) \cup {"eob"}
                             ELSE Pieces :
         /\ p = "part" => ~LineBegun(c)
         /\ up' = [up EXCEPT ![c] = Append(@, p)]
         /\ said' = [said EXCEPT ![c] = Append(@, p)]
    /\ UNCHANGED <<harness, process, got_exit_signal, pipes, parent, client,
                   backlog, down>>

\* Something has reached the client.
Reached(c) == down[c] # << >>

Welcomed(c) == \E i \in DOMAIN down[c] : down[c][i] = [to |-> c, text |-> "welcome"]

-----------------------------------------------------------------------------

Next ==
    \/ SockfiltStep /\ UNCHANGED <<harness, said>>
    \/ ExitSignal /\ UNCHANGED <<harness, said>>
    \/ MainLoop
    \/ Killed
    \/ HarnessSignal
    \/ Network /\ UNCHANGED <<harness, said>>
    \/ \E c \in Clients : Send(c)

Spec == Init /\ [][Next]_vars

\* Both processes run; a client that something has reached does not stay for
\* ever (the program under test has timeouts); nobody else need do anything.
FairSpec ==
    /\ Spec
    /\ WF_vars(SockfiltStep /\ UNCHANGED <<harness, said>>)
    /\ WF_vars(MainLoop)
    /\ \A c \in Clients :
         WF_vars(Reached(c) /\ Close(c) /\ UNCHANGED <<harness, said>>)

-----------------------------------------------------------------------------
(* What the two promise together *)

TypeOK ==
    /\ SockfiltTypeOK
    /\ hpc \in {"idle", "session", "mail", "received", "over"}
    /\ serverlogslocked \in BOOLEAN
    /\ session \in Clients \cup {NoClient}
    /\ \A i \in DOMAIN full : full[i] = "part"

\* A client receives the welcome first, and only replies to itself: what the
\* harness still had to say to a client that is gone (in the pipe, or said
\* before DISC was read) is never delivered to the next one.
OwnReplies ==
    \A c \in Clients : \A i \in DOMAIN down[c] :
        /\ down[c][i].to = c
        /\ down[c][i].text = "welcome" <=> i = 1

\* Only a line that the server does not know is refused: where TCP, sockfilt or
\* the pipe cut a command in two makes no difference.
Understood ==
    \A c \in Clients :
        (\E i \in DOMAIN down[c] : down[c][i].text = "500")
      => \E i \in DOMAIN said[c] : said[c][i] = "unknown"

\* The test suite does not look at the server's files while a client is
\* being served: the lock is held from the welcome until the client closes.
LockHeld ==
    conn # NoClient /\ Reached(conn) /\ client[conn] = "open"
        /\ ~Ended /\ parent = "alive"
      => serverlogslocked

\* And it is given up again, however the session went, unless the server is
\* killed.
LockReleased == serverlogslocked ~> ~serverlogslocked \/ parent = "dead"

\* The client has sent a command the server does not know.
Refused(c) == \E i \in 1..Len(said[c]) : said[c][i] = "unknown"

\* Every client that connects is welcomed, after all those before it, unless it
\* closes before anything has reached it: each session leaves sockfilt listening
\* and the harness waiting for the next CNCT.  Not so once a command was refused
\* (the harness leaves the session, sockfilt does not); and not with mails: see
\* MailReply, after which the next CNCT may be ignored (SessionIgnores), and all
\* that its client gets is another's reply.
Answered ==
    \A c \in Clients :
        client[c] = "open" ~>
            \/ Welcomed(c) \/ (client[c] = "closed" /\ ~Reached(c)) \/ Ended
            \/ \E d \in Clients : Refused(d)

\* sockfilt.c:886-890, of disc_handshake: it waits for the acknowledgment
\* after DISC; the wait ends.
HandshakeEnds == spc = "handshake" ~> spc # "handshake"

\* sockfilt.c:977-978: sockfilt quits if its parent has died "without killing
\* its sockfilt children", whatever it was doing; so does a signal end it, also
\* one that comes in the middle of a handshake, whose read it does not interrupt.
SockfiltEnds == parent = "dead" \/ got_exit_signal ~> Ended
=============================================================================
