----------------------------- MODULE TftpServer -----------------------------
(***************************************************************************)
(* The process of tests/server/tftpd.c: main() from the installation of    *)
(* its signal handlers to its end, with do_tftp(), the exit path of the    *)
(* SIGALRM handler timer(), and from util.c the pid and port files, the    *)
(* advisor lock and exit_signal_handler().  A transfer is one step here:   *)
(* TftpSend and TftpRecv say how it goes, and that it ends.                *)
(***************************************************************************)
EXTENDS Integers, Sequences

CONSTANTS
    MaxRequests         \* datagrams sent to the server's port

ASSUME RequestsAssumption == MaxRequests \in Nat

VARIABLES
    pc,                \* where main is
    sock, peer,        \* are the two sockets open?
    files,             \* which of the pid, port and lock files exist
    wrotepidfile, wroteportfile,
    serverlogslocked,
    got_exit_signal,
    exit_signal,       \* the first signal handled
    queue,             \* datagrams on the server's port
    arrived,           \* how many were sent so far
    own                 \* history: the files this process created

flags == <<wrotepidfile, wroteportfile, serverlogslocked>>
sockets == <<sock, peer>>
signal == <<got_exit_signal, exit_signal>>
clients == <<queue, arrived>>
vars == <<pc, sockets, files, flags, signal, clients, own>>

\* A request for a transfer, one that is turned down with a nak (no mode, an
\* unknown mode, or nothing validate_access knows), and a datagram that is
\* neither RRQ nor WRQ.
Request == {"transfer", "refused", "other"}

Signal == {"SIGINT", "SIGTERM"}

\* A killed predecessor may have left its files.
Init ==
    /\ pc = "socket"
    /\ sock = FALSE /\ peer = FALSE
    /\ files \in SUBSET {"pid", "port", "lock"}
    /\ wrotepidfile = FALSE /\ wroteportfile = FALSE
    /\ serverlogslocked = FALSE
    /\ got_exit_signal = FALSE /\ exit_signal = "none"
    /\ queue = << >> /\ arrived = 0
    /\ own = {}

Goto(label) == pc' = label

\* write_pidfile, write_portfile and set_advisor_read_lock open with "wb": a
\* file that was left there is taken over.
Creates(f) == files' = files \cup {f} /\ own' = own \cup {f}

-----------------------------------------------------------------------------
(* Start *)

\* socket, setsockopt, bind and getsockname, or cleanup from any of them.
OpenSocket ==
    /\ pc = "socket"
    /\ \/ sock' = TRUE /\ Goto("pidfile")
       \/ sock' \in BOOLEAN /\ Goto("cleanup")
    /\ UNCHANGED <<peer, files, flags, signal, clients, own>>

WritePidFile ==
    /\ pc = "pidfile"
    /\ \/ Creates("pid") /\ wrotepidfile' = TRUE /\ Goto("portfile")
       \/ Goto("cleanup") /\ UNCHANGED <<files, own, wrotepidfile>>
    /\ UNCHANGED <<sockets, wroteportfile, serverlogslocked, signal,
                   clients>>

\* The port file is optional.
WritePortFile ==
    /\ pc = "portfile"
    /\ \/ Creates("port") /\ wroteportfile' = TRUE /\ Goto("recvfrom")
       \/ Goto("recvfrom") /\ UNCHANGED <<files, own, wroteportfile>>
       \/ Goto("cleanup") /\ UNCHANGED <<files, own, wroteportfile>>
    /\ UNCHANGED <<sockets, wrotepidfile, serverlogslocked, signal,
                   clients>>

-----------------------------------------------------------------------------
(* The loop of main *)

\* recvfrom returns a datagram.  A signal does not make it return: the
\* handler is installed restartable.
RecvFrom ==
    /\ pc = "recvfrom"
    /\ queue # << >>
    /\ pc' = IF got_exit_signal THEN "cleanup" ELSE "lock"
    /\ UNCHANGED <<sockets, files, flags, signal, clients, own>>

RecvFails ==
    /\ pc = "recvfrom"
    /\ Goto("cleanup")
    /\ UNCHANGED <<sockets, files, flags, signal, clients, own>>

\* set_advisor_read_lock; whether the file could be created is not asked.
SetLock ==
    /\ pc = "lock"
    /\ Creates("lock") \/ UNCHANGED <<files, own>>
    /\ serverlogslocked' = TRUE
    /\ Goto("peer")
    /\ UNCHANGED <<sockets, wrotepidfile, wroteportfile, signal,
                   clients>>

ConnectPeer ==
    /\ pc = "peer"
    /\ \/ peer' = TRUE /\ Goto("dispatch")
       \/ peer' \in BOOLEAN /\ Goto("cleanup")
    /\ UNCHANGED <<sock, files, flags, signal, clients, own>>

\* do_tftp fails if it cannot open the dump file, sends a nak, or starts the
\* transfer.
DoTftp(request) ==
    \/ Goto("cleanup")
    \/ request = "refused" /\ Goto("closepeer")
    \/ request = "transfer" /\ Goto("transfer")

Dispatch ==
    /\ pc = "dispatch"
    /\ queue' = Tail(queue)
    /\ \/ Head(queue) # "other" /\ DoTftp(Head(queue))
       \/ Head(queue) = "other" /\ Goto("closepeer")
    /\ UNCHANGED <<sockets, files, flags, signal, arrived, own>>

TransferReturns ==
    /\ pc = "transfer"
    /\ Goto("closepeer")
    /\ UNCHANGED <<sockets, files, flags, signal, clients, own>>

\* What is left of the files when those whose flag is set are removed.
Unlinked ==
    files \ ((IF wrotepidfile THEN {"pid"} ELSE {})
             \cup (IF wroteportfile THEN {"port"} ELSE {})
             \cup (IF serverlogslocked THEN {"lock"} ELSE {}))

ProcessEnds(left) ==
    /\ files' = left
    /\ wrotepidfile' = FALSE /\ wroteportfile' = FALSE
    /\ serverlogslocked' = FALSE
    /\ sock' = FALSE /\ peer' = FALSE
    /\ Goto("ended")

\* Mutant: the handler just exits.
TimerJustExits ==
    /\ pc = "transfer"
    /\ ProcessEnds(files)
    /\ UNCHANGED <<signal, clients, own>>

\* The timer's last alarm: exit(1) from the signal handler, which removes
\* what the process created.
TimerExits ==
    /\ pc = "transfer"
    /\ ProcessEnds(Unlinked)
    /\ UNCHANGED <<signal, clients, own>>

\* Mutant: the signal is not looked at between two transfers.
ClosePeerGoesOn ==
    /\ pc = "closepeer"
    /\ peer' = FALSE
    /\ Goto("unlock")
    /\ UNCHANGED <<sock, files, flags, signal, clients, own>>

ClosePeer ==
    /\ pc = "closepeer"
    /\ peer' = FALSE
    /\ pc' = IF got_exit_signal THEN "cleanup" ELSE "unlock"
    /\ UNCHANGED <<sock, files, flags, signal, clients, own>>

\* Mutant: the lock is taken for granted to be the next transfer's too.
ClearLockSkipped ==
    /\ pc = "unlock"
    /\ Goto("recvfrom")
    /\ UNCHANGED <<sockets, files, flags, signal, clients, own>>

ClearLock ==
    /\ pc = "unlock"
    /\ files' = files \ {"lock"}
    /\ serverlogslocked' = FALSE
    /\ Goto("recvfrom")
    /\ UNCHANGED <<sockets, wrotepidfile, wroteportfile, signal,
                   clients, own>>

-----------------------------------------------------------------------------
(* The end *)

\* tftpd_cleanup: sockets, files and lock; then main returns, or raises the
\* signal it caught for the old handler.
Cleanup ==
    /\ pc = "cleanup"
    /\ ProcessEnds(Unlinked)
    /\ UNCHANGED <<signal, clients, own>>

\* exit_signal_handler: the first signal sets the flag and is remembered, to
\* be raised again at the end; any later one changes nothing.
ExitSignal ==
    /\ pc # "ended"
    /\ ~got_exit_signal
    /\ got_exit_signal' = TRUE
    /\ exit_signal' \in Signal
    /\ UNCHANGED <<pc, sockets, files, flags, clients, own>>

\* A client sends a datagram to the server's port (or sends it again).
ClientSends ==
    /\ sock
    /\ arrived < MaxRequests
    /\ arrived' = arrived + 1
    /\ \E r \in Request : queue' = Append(queue, r)
    /\ UNCHANGED <<pc, sockets, files, flags, signal, own>>

Server ==
    \/ OpenSocket \/ WritePidFile \/ WritePortFile
    \/ RecvFrom \/ SetLock \/ ConnectPeer \/ Dispatch
    \/ TransferReturns \/ TimerExits \/ ClosePeer \/ ClearLock \/ Cleanup

Next == Server \/ RecvFails \/ ExitSignal \/ ClientSends

Spec == Init /\ [][Next]_vars

\* The process runs and its transfers end (Termination of TftpSend and
\* TftpRecv); recvfrom need not fail and nobody need send a request.
FairSpec == Spec /\ WF_vars(Server)

-----------------------------------------------------------------------------
(* What the process guarantees *)

\* Whatever ends the process (an error at start, a failed call, a signal, or
\* exit(1) inside the SIGALRM handler), none of the files it created is left
\* behind for the test suite to trip over.
LeavesNoFiles == pc = "ended" => own \cap files = {}

\* A waiting server holds no lock of its own and no client's socket: the test
\* suite, which waits for the lock to go away, is never held up by an idle
\* server; and once the lock is taken the flag stays with it to the end.
IdleHoldsNothing ==
    /\ pc = "recvfrom" => ~peer /\ ~serverlogslocked /\ "lock" \notin own \cap files
    /\ "lock" \in own \cap files => serverlogslocked

\* A signal that comes during a transfer ends the process after it, although
\* another request may already be waiting.
SignalEndsTransfer == pc = "transfer" /\ got_exit_signal ~> pc = "ended"
=============================================================================
