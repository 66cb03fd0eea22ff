---------------------------- MODULE FtpData_proofs ----------------------------
(***************************************************************************)
(* Proofs about FtpData: a data connection delivers a file whole and in    *)
(* order, in both directions, and is a ByteStream.                         *)
(*                                                                         *)
(* The invariant has three parts.  Typed adds to the types what juggle     *)
(* knows where it is.  EarlyInv says, for every place PASV_ftp and         *)
(* PORT_ftp wait at, what the two processes have told each other, so that  *)
(* a transfer begins with empty pipes but for the DISC of a client that    *)
(* has closed.  TransferInv accounts for every block of the file: it is    *)
(* with the client, or in a pipe in its place, or not sent yet.            *)
(***************************************************************************)
EXTENDS FtpData, NumberLemmas, TLAPS

-----------------------------------------------------------------------------
(* Types *)

Items == Nat \cup Clients

Message == [cmd : Commands, data : Seq(Items)]

Modes == {"PASSIVE_LISTEN", "PASSIVE_CONNECT", "ACTIVE", "ACTIVE_DISCONNECT"}

\* The socket's branch of juggle is gone into only with a socket, and
\* disc_handshake only when the client has closed its end, or there is none.
ProcessOK ==
  /\ spc \in {"start", "juggle", "stdin", "socket", "handshake", "ended"}
  /\ mode \in Modes /\ conn \in Clients \cup {NoClient} /\ ready \in BOOLEAN
  /\ ~got_exit_signal
  /\ conn \in Clients <=> mode \in {"PASSIVE_CONNECT", "ACTIVE"}
  /\ (spc = "socket" \/ ready) /\ mode # "PASSIVE_LISTEN" => conn \in Clients
  /\ spc = "handshake" /\ conn \in Clients => client[conn] = "closed"

PipesOK ==
  /\ stdin \in Seq(Message) /\ stdout \in Seq(Message) /\ parent \in {"alive", "dead"}

\* A client the two processes know has connected.
ClientsOK ==
  /\ client \in [Clients -> {"new", "open", "closed"}]
  /\ backlog \in Seq(Clients)
  /\ up \in [Clients -> Seq(Items)] /\ down \in [Clients -> Seq(Items)]
  /\ \A i \in 1..Len(backlog) : client[backlog[i]] # "new"
  /\ conn \in Clients => client[conn] # "new"

HarnessOK ==
  /\ dpc \in {"start", "ping", "port", "cnct", "open", "RETR", "STOR", "closing", "quit",
              "pidwait", "done", "stopped"}
  /\ command \in {"RETR", "STOR"} /\ storeresp \in BOOLEAN
  /\ storeresp => command = "STOR"
  /\ file \in Seq(Items) /\ peer \in Clients \cup {NoClient}
  /\ peer \in Clients => client[peer] # "new"
  /\ sent \in [Clients -> 0..NBlocks]

Typed == ProcessOK /\ PipesOK /\ ClientsOK /\ HarnessOK

LEMMA BareMessage == \A cmd \in Commands : Bare(cmd) \in Message
BY DEF Bare, Block, Message

LEMMA Nothing == \A S : << >> \in Seq(S) /\ Len(<< >>) = 0
BY EmptySeq

LEMMA InitTyped == Init => Typed
<1> SUFFICES ASSUME Init PROVE Typed
  OBVIOUS
<1> USE DEF Init, SockfiltInit
<1>1. /\ \/ conn = NoClient /\ mode = "PASSIVE_LISTEN"
         \/ conn \in Clients /\ mode = "ACTIVE"
      /\ client \in [Clients -> {"new", "open", "closed"}]
      /\ conn \in Clients => client[conn] = "open"
  <2>1. CASE Listening
    <3>1. /\ conn = NoClient /\ mode = "PASSIVE_LISTEN" /\ client = [c \in Clients |-> "new"]
      BY <2>1 DEF Listening
    <3> QED BY ONLY <3>1, ClientsAssumption
  <2>2. ASSUME NEW c \in Clients, Connected(c)
        PROVE  conn \in Clients /\ mode = "ACTIVE" /\ client[conn] = "open"
               /\ client \in [Clients -> {"new", "open", "closed"}]
    <3>1. /\ conn = c /\ mode = "ACTIVE"
          /\ client = [d \in Clients |-> IF d = c THEN "open" ELSE "new"]
      BY <2>2 DEF Connected
    <3> QED BY ONLY <3>1, c \in Clients
  <2> QED BY <2>1, <2>2, ClientsAssumption DEF Listening
<1>2. ProcessOK
  BY <1>1, ClientsAssumption DEF ProcessOK, Modes
<1>3. PipesOK
  BY Nothing DEF PipesOK
<1>4. ClientsOK
  <2>1. \A s \in {up, down} : s \in [Clients -> Seq(Items)]
    BY Nothing
  <2>2. backlog \in Seq(Clients) /\ Len(backlog) = 0
    BY Nothing
  <2> QED BY <1>1, <2>1, <2>2 DEF ClientsOK
<1>5. HarnessOK
  BY <1>1, Nothing, BlocksAssumption DEF HarnessOK
<1> QED BY <1>2, <1>3, <1>4, <1>5 DEF Typed

LEMMA AppendedIn ==
  ASSUME NEW S, NEW s \in Seq(S), NEW x \in S
  PROVE  /\ Append(s, x) \in Seq(S) /\ Append(s, x) # << >>
         /\ Len(Append(s, x)) = Len(s) + 1
BY AppendProperties

LEMMA TailIn ==
  ASSUME NEW S, NEW s \in Seq(S), s # << >>
  PROVE  /\ Tail(s) \in Seq(S) /\ Head(s) \in S
         /\ Len(Tail(s)) = Len(s) - 1
         /\ \A i \in 1..(Len(s) - 1) : Tail(s)[i] = s[i + 1]
BY HeadTailProperties

\* What the process reports is well-formed.
LEMMA WrittenTyped ==
  ASSUME Typed, NEW m \in Message, NEW label, WriteStdout(m, label)
  PROVE  stdout' \in Seq(Message)
BY AppendedIn DEF WriteStdout, Typed, PipesOK

LEMMA ReadTyped ==
  ASSUME Typed, NEW label, ReadStdin(label)
  PROVE  stdin' \in Seq(Message) /\ Head(stdin) \in Message /\ stdin # << >>
BY TailIn DEF ReadStdin, Typed, PipesOK

LEMMA GotoIs ==
  ASSUME Typed, NEW label, Goto(label)
  PROVE  /\ spc' = label /\ ready' \in BOOLEAN
         /\ ready' => ready /\ label \in {"stdin", "handshake"}
BY DEF Goto, Typed, ProcessOK

LEMMA WriteGoes ==
  ASSUME Typed, NEW m, NEW label, WriteStdout(m, label)
  PROVE  /\ spc' \in {label, "ended"} /\ ready' \in BOOLEAN
         /\ ready' => ready /\ spc' \in {"stdin", "handshake"}
         /\ stdout' = stdout \/ stdout' = Append(stdout, m)
         /\ parent = "alive" => spc' = label /\ stdout' = Append(stdout, m)
BY GotoIs DEF WriteStdout

LEMMA CloseTyped ==
  ASSUME Typed, CloseSocket
  PROVE  mode' \in {"PASSIVE_LISTEN", "ACTIVE_DISCONNECT"} /\ mode' \in Modes
         /\ conn' = NoClient /\ conn' \notin Clients
BY ClientsAssumption DEF CloseSocket, Modes

LEMMA CommandsAre ==
  /\ \A x \in {"PING", "PONG", "PORT", "DISC", "ACKD", "QUIT", "FAIL"} : Bare(x) \in Message
  /\ \A x \in Items : Block("CNCT", <<x>>) \in Message /\ Block("DATA", <<x>>) \in Message
  /\ \A s \in Seq(Items) : Block("DATA", s) \in Message
BY DEF Bare, Block, Message, Commands

LEMMA SockfiltTyped == ASSUME Typed, SockfiltStep PROVE PipesOK' /\ ClientsOK' /\ ProcessOK'
<1> USE DEF SockfiltStep
<1>0. /\ client' = client /\ got_exit_signal' = got_exit_signal /\ parent' = parent
  BY DEF Step, Start, StartFails, Select, StdinQuery, StdinQuit, StdinData,
     StdinDataDisconnected, StdinDisc, Accept, AcceptFails, SocketData, SocketEof,
     HandshakeAckd, HandshakeDisc, HandshakeOther, Orphan, Signalled
<1>n. NoClient \notin Clients
  BY ClientsAssumption
<1>1. CASE Start \/ StartFails \/ Select \/ Orphan \/ StdinQuery \/ StdinQuit
  <2>1. UNCHANGED <<mode, conn, client, backlog, up, down>>
    BY <1>0, <1>1 DEF Start, StartFails, Select, Orphan, StdinQuery, StdinQuit, streams
  <2>2. ClientsOK'
    BY <2>1 DEF Typed, ClientsOK
  <2>3. PipesOK'
    BY <1>0, <1>1, WrittenTyped, ReadTyped, CommandsAre
    DEF Typed, PipesOK, Start, StartFails, Select, Orphan, StdinQuery, StdinQuit, pipes
  <2>4. ProcessOK'
    <3>1. CASE Start \/ StartFails \/ Orphan \/ StdinQuery \/ StdinQuit
      <4>1. \/ \E l \in {"juggle", "ended"} : Goto(l)
            \/ \E m, l : l \in {"ended", AfterStdin} /\ WriteStdout(m, l)
        BY <3>1 DEF Start, StartFails, Orphan, StdinQuery, StdinQuit
      <4>2. /\ spc' \in {"juggle", "ended", AfterStdin} /\ ready' \in BOOLEAN
            /\ ready' => ready
        BY <4>1, GotoIs, WriteGoes
      <4>3. AfterStdin \in {"socket", "juggle"} /\ (AfterStdin = "socket" => ready)
        BY DEF AfterStdin
      <4> QED BY <1>0, <2>1, <4>2, <4>3 DEF Typed, ProcessOK
    <3>2. CASE Select
      <4>1. /\ spc' \in {"stdin", "socket"} /\ (spc' = "socket" => SocketReadable)
            /\ ready' \in BOOLEAN /\ (ready' => SocketReadable)
        BY <3>2 DEF Select
      <4>2. SocketReadable /\ mode # "PASSIVE_LISTEN" => conn \in Clients
        BY DEF SocketReadable, Typed, ProcessOK
      <4> QED BY <1>0, <2>1, <4>1, <4>2 DEF Typed, ProcessOK
    <3> QED BY <1>1, <3>1, <3>2
  <2> QED BY <2>2, <2>3, <2>4
<1>2. CASE StdinData
  <2>1. ReadStdin("stdin") /\ UNCHANGED <<mode, conn, stdout, client, backlog, up>>
    BY <1>0, <1>2 DEF StdinData
  <2>2. PipesOK'
    BY <1>0, <2>1, ReadTyped DEF Typed, PipesOK
  <2>3. down' \in [Clients -> Seq(Items)]
    <3>1. down \in [Clients -> Seq(Items)] /\ Head(stdin).data \in Seq(Items)
      BY <2>1, ReadTyped DEF Typed, ClientsOK, Message
    <3>2. CASE conn # NoClient
      <4>1. conn \in Clients
        BY <3>2 DEF Typed, ProcessOK
      <4>2. down[conn] \o Head(stdin).data \in Seq(Items)
        BY <3>1, <4>1, ConcatProperties
      <4> QED BY <1>2, <3>1, <4>1, <4>2 DEF StdinData
    <3> QED BY <1>2, <3>1, <3>2 DEF StdinData
  <2>4. ClientsOK'
    BY <2>1, <2>3 DEF Typed, ClientsOK
  <2>5. ProcessOK'
    <3>1. Goto(AfterStdin)
      BY <1>2 DEF StdinData
    <3>2. AfterStdin \in {"socket", "juggle"} /\ (AfterStdin = "socket" => ready)
      BY DEF AfterStdin
    <3> QED BY <1>0, <2>1, <3>1, <3>2, GotoIs DEF Typed, ProcessOK
  <2> QED BY <2>2, <2>4, <2>5
<1>3. CASE StdinDataDisconnected \/ StdinDisc \/ HandshakeAckd \/ HandshakeDisc
           \/ HandshakeOther
  <2>1. /\ UNCHANGED <<client, backlog, up, down>>
        /\ UNCHANGED <<mode, conn>> \/ CloseSocket
    BY <1>0, <1>3 DEF StdinDataDisconnected, StdinDisc, HandshakeAckd, HandshakeDisc,
                      HandshakeOther, streams
  <2>2. ClientsOK'
    BY <1>n, <2>1, CloseTyped DEF Typed, ClientsOK
  <2>3. PipesOK'
    <3>1. stdin' \in Seq(Message)
      BY <1>3, ReadTyped DEF StdinDataDisconnected, StdinDisc, HandshakeAckd, HandshakeDisc,
                             HandshakeOther
    <3>2. stdout' \in Seq(Message)
      <4>1. \/ stdout' = stdout
            \/ \E l : WriteStdout(Bare("DISC"), l)
            \/ \E l : WriteStdout(Bare("ACKD"), l)
        BY <1>3 DEF StdinDataDisconnected, StdinDisc, HandshakeAckd, HandshakeDisc,
                    HandshakeOther
      <4> QED BY <4>1, WrittenTyped, CommandsAre DEF Typed, PipesOK
    <3> QED BY <1>0, <3>1, <3>2 DEF Typed, PipesOK
  <2>4. ProcessOK'
    <3>1. CASE StdinDataDisconnected
      <4>1. mode = "PASSIVE_LISTEN" /\ UNCHANGED <<mode, conn, client>>
        BY <1>0, <3>1 DEF StdinDataDisconnected
      <4>2. WriteStdout(Bare("DISC"), "handshake") /\ spc = "stdin"
        BY <3>1 DEF StdinDataDisconnected, ReadStdin
      <4>3. conn \notin Clients
        BY <4>1 DEF Typed, ProcessOK
      <4> QED BY <1>0, <4>1, <4>2, <4>3, WriteGoes DEF Typed, ProcessOK
    <3>2. CASE StdinDisc
      <4>1. WriteStdout(Bare("ACKD"), "juggle") /\ CloseSocket
        BY <3>2 DEF StdinDisc
      <4> QED BY <1>0, <4>1, CloseTyped, WriteGoes DEF Typed, ProcessOK
    <3>3. CASE HandshakeAckd
      <4>1. CASE mode = "PASSIVE_LISTEN"
        <5>1. Goto(AfterStdin) /\ UNCHANGED <<conn, mode>>
          BY <3>3, <4>1 DEF HandshakeAckd
        <5>2. AfterStdin \in {"socket", "juggle"} /\ (AfterStdin = "socket" => ready)
          BY DEF AfterStdin
        <5> QED BY <1>0, <4>1, <5>1, <5>2, GotoIs DEF Typed, ProcessOK
      <4>2. CASE mode # "PASSIVE_LISTEN"
        <5>1. Goto("juggle") /\ CloseSocket
          BY <3>3, <4>2 DEF HandshakeAckd
        <5> QED BY <1>0, <5>1, CloseTyped, GotoIs DEF Typed, ProcessOK
      <4> QED BY <4>1, <4>2
    <3>4. CASE HandshakeDisc
      <4>1. WriteStdout(Bare("ACKD"), "handshake") /\ UNCHANGED <<mode, conn>>
            /\ spc = "handshake"
        BY <3>4 DEF HandshakeDisc, ReadStdin
      <4> QED BY <1>0, <4>1, WriteGoes DEF Typed, ProcessOK
    <3>5. CASE HandshakeOther
      <4>1. \E l \in {"handshake", "ended"} : Goto(l)
        BY <3>5 DEF HandshakeOther
      <4>2. UNCHANGED <<mode, conn>> /\ spc = "handshake"
        BY <3>5 DEF HandshakeOther, ReadStdin
      <4> QED BY <1>0, <4>1, <4>2, GotoIs DEF Typed, ProcessOK
    <3> QED BY <1>3, <3>1, <3>2, <3>3, <3>4, <3>5
  <2> QED BY <2>2, <2>3, <2>4
<1>4. CASE Accept
  <2>1. /\ mode' = "PASSIVE_CONNECT" /\ conn' = Head(backlog) /\ backlog' = Tail(backlog)
        /\ backlog # << >> /\ UNCHANGED <<stdin, client, up, down>>
        /\ WriteStdout(Block("CNCT", <<Head(backlog)>>), "juggle")
    BY <1>4 DEF Accept, streams
  <2>2. /\ Head(backlog) \in Clients /\ client[Head(backlog)] # "new"
        /\ backlog' \in Seq(Clients) /\ \A i \in 1..Len(backlog') : client[backlog'[i]] # "new"
    <3>1. backlog \in Seq(Clients) /\ \A i \in 1..Len(backlog) : client[backlog[i]] # "new"
      BY DEF Typed, ClientsOK
    <3> QED BY <2>1, <3>1, TailIn
  <2>3. ClientsOK'
    BY <2>1, <2>2 DEF Typed, ClientsOK
  <2>4. PipesOK'
    <3>1. Head(backlog) \in Items
      BY <2>2 DEF Items
    <3> QED BY <1>0, <2>1, <3>1, WrittenTyped, CommandsAre DEF Typed, PipesOK
  <2>5. ProcessOK'
    BY <1>0, <2>1, <2>2, WriteGoes DEF Typed, ProcessOK, Modes
  <2> QED BY <2>3, <2>4, <2>5
<1>5. CASE AcceptFails
  <2>1. /\ UNCHANGED <<mode, conn, stdin, stdout, client, up, down>> /\ backlog' = Tail(backlog)
        /\ backlog # << >> /\ Goto("juggle")
    BY <1>5 DEF AcceptFails, streams, pipes
  <2>2. backlog' \in Seq(Clients) /\ \A i \in 1..Len(backlog') : client[backlog'[i]] # "new"
    <3>1. backlog \in Seq(Clients) /\ \A i \in 1..Len(backlog) : client[backlog[i]] # "new"
      BY DEF Typed, ClientsOK
    <3> QED BY <2>1, <3>1, TailIn
  <2> QED BY <1>0, <2>1, <2>2, GotoIs DEF Typed, ClientsOK, PipesOK, ProcessOK
<1>6. CASE SocketData
  <2>1. conn \in Clients /\ up[conn] \in Seq(Items) /\ up[conn] # << >>
    BY <1>6 DEF SocketData, AtSocket, Typed, ProcessOK, ClientsOK
  <2>2. PICK n \in 1..Len(up[conn]) :
          /\ WriteStdout(Block("DATA", SubSeq(up[conn], 1, n)), "juggle")
          /\ up' = [up EXCEPT ![conn] = SubSeq(@, n + 1, Len(@))]
    BY <1>6 DEF SocketData
  <2>3. UNCHANGED <<mode, conn, stdin, client, backlog, down>>
    BY <1>6 DEF SocketData
  <2>4. SubSeq(up[conn], 1, n) \in Seq(Items) /\ SubSeq(up[conn], n + 1, Len(up[conn])) \in Seq(Items)
    <3>1. PICK s \in Seq(Items) : s = up[conn]
      BY <2>1
    <3>2. n \in Nat /\ n + 1 \in Int /\ Len(s) \in Nat /\ \A i \in 1..Len(s) : s[i] \in Items
      BY <2>2, <3>1, LenProperties, ElementOfSeq
    <3>3. SubSeq(s, 1, n) \in Seq(Items) /\ SubSeq(s, n + 1, Len(s)) \in Seq(Items)
      <4>1. \A i \in 1..n : s[i] \in Items
        BY <2>2, <3>1, <3>2
      <4>2. \A i \in (n + 1)..Len(s) : s[i] \in Items
        BY <3>2
      <4> QED BY <3>2, <4>1, <4>2, SubSeqProperties
    <3> QED BY <3>1, <3>3
  <2>5. ClientsOK'
    BY <2>1, <2>2, <2>3, <2>4 DEF Typed, ClientsOK
  <2>6. PipesOK'
    BY <1>0, <2>2, <2>3, <2>4, WrittenTyped, CommandsAre DEF Typed, PipesOK
  <2>7. ProcessOK'
    BY <1>0, <2>2, <2>3, WriteGoes DEF Typed, ProcessOK
  <2> QED BY <2>5, <2>6, <2>7
<1>7. CASE SocketEof
  <2>1. UNCHANGED <<mode, conn, stdin, client, backlog, up, down>>
    BY <1>7 DEF SocketEof, streams
  <2>2. WriteStdout(Bare("DISC"), "handshake") /\ client[conn] = "closed"
    BY <1>7 DEF SocketEof
  <2>3. ClientsOK'
    BY <2>1 DEF Typed, ClientsOK
  <2>4. PipesOK'
    BY <1>0, <2>1, <2>2, WrittenTyped, CommandsAre DEF Typed, PipesOK
  <2>5. ProcessOK'
    BY <1>0, <2>1, <2>2, WriteGoes DEF Typed, ProcessOK
  <2> QED BY <2>3, <2>4, <2>5
<1>8. ~Signalled
  BY DEF Typed, ProcessOK, Signalled
<1> QED BY <1>1, <1>2, <1>3, <1>4, <1>5, <1>6, <1>7, <1>8 DEF Step

LEMMA PrintsTyped ==
  ASSUME Typed, NEW m \in Message, ParentPrints(m)
  PROVE  stdin' \in Seq(Message) /\ parent' \in {"alive", "dead"}
BY AppendedIn DEF ParentPrints, Typed, PipesOK

LEMMA TakenTyped ==
  ASSUME Typed, ParentReads
  PROVE  stdout' \in Seq(Message) /\ Head(stdout) \in Message /\ stdout # << >>
BY TailIn DEF ParentReads, Typed, PipesOK

\* AwaitConnect takes the client from the CNCT block: see Accepts below.
LEMMA HarnessTyped ==
  ASSUME Typed, Harness, AwaitConnect => peer' = conn /\ conn \in Clients
  PROVE  Typed'
<1>1. /\ UNCHANGED <<mode, conn, got_exit_signal, client, backlog, up, down, command,
                     storeresp, sent>>
      /\ UNCHANGED <<spc, ready>> \/ Goto("ended")
  <2> USE DEF process, transfer, streams, sockfiltVars, pipes
  <2>1. CASE StartPing \/ Pong \/ NoPong \/ AwaitPort \/ AwaitConnect \/ ConnectTimeout
    BY <2>1 DEF StartPing, Pong, NoPong, AwaitPort, AwaitConnect, ConnectTimeout, KillSockfilt
  <2>2. CASE Begin \/ Abandon \/ RetrSend \/ RetrClose \/ StorData \/ StorDisc
    BY <2>2 DEF Begin, Abandon, RetrSend, RetrClose, StorData, StorDisc, KillSockfilt
  <2>3. CASE Closing \/ Quit \/ PidWait
    BY <2>3 DEF Closing, Quit, PidWait
  <2> QED BY <2>1, <2>2, <2>3 DEF Harness
<1>2. ProcessOK'
  BY <1>1, GotoIs DEF Typed, ProcessOK
<1>3. ClientsOK'
  BY <1>1 DEF Typed, ClientsOK
<1>4. /\ UNCHANGED stdout \/ ParentReads
      /\ \/ UNCHANGED <<stdin, parent>>
         \/ \E x \in {"PING", "PORT", "DISC", "ACKD", "QUIT"} : ParentPrints(Bare(x))
         \/ RetrSend
      /\ UNCHANGED <<file, peer>> \/ AwaitConnect \/ RetrSend \/ StorData
  <2> USE DEF SysRead, PrintTo, process, transfer, streams, sockfiltVars, pipes
  <2>1. CASE StartPing \/ Pong \/ NoPong \/ AwaitPort \/ AwaitConnect \/ ConnectTimeout
    BY <2>1 DEF StartPing, Pong, NoPong, AwaitPort, AwaitConnect, ConnectTimeout,
                KillSockfilt, ParentReads
  <2>2. CASE Begin \/ Abandon \/ RetrSend \/ RetrClose \/ StorData \/ StorDisc
    BY <2>2 DEF Begin, Abandon, RetrSend, RetrClose, StorData, StorDisc, KillSockfilt
  <2>3. CASE Closing \/ Quit \/ PidWait
    BY <2>3 DEF Closing, Quit, PidWait
  <2> QED BY <2>1, <2>2, <2>3 DEF Harness
<1>5. file' \in Seq(Items) /\ stdin' \in Seq(Message) /\ parent' \in {"alive", "dead"}
  <2>1. CASE RetrSend
    <3>1. /\ file' = Append(file, Len(file) + 1)
          /\ ParentPrints(Block("DATA", <<Len(file) + 1>>))
      BY <2>1 DEF RetrSend, PrintTo
    <3>2. file \in Seq(Items) /\ Len(file) + 1 \in Items
      BY LenProperties DEF Typed, HarnessOK, Items
    <3> QED BY <3>1, <3>2, AppendedIn, PrintsTyped, CommandsAre
  <2>2. CASE ~RetrSend
    <3>1. stdin' \in Seq(Message) /\ parent' \in {"alive", "dead"}
      <4>1. CASE UNCHANGED <<stdin, parent>>
        BY <4>1 DEF Typed, PipesOK
      <4>2. CASE \E x \in {"PING", "PORT", "DISC", "ACKD", "QUIT"} : ParentPrints(Bare(x))
        BY <4>2, PrintsTyped, CommandsAre
      <4> QED BY <1>4, <2>2, <4>1, <4>2
    <3>2. file' \in Seq(Items)
      <4>1. CASE StorData
        <5>1. file' = file \o Head(stdout).data /\ ParentReads
          BY <4>1 DEF StorData, SysRead
        <5>2. file \in Seq(Items) /\ Head(stdout).data \in Seq(Items)
          BY <5>1, TakenTyped DEF Typed, HarnessOK, Message
        <5> QED BY <5>1, <5>2, ConcatProperties
      <4>2. CASE AwaitConnect
        BY <4>2 DEF AwaitConnect, Typed, HarnessOK
      <4> QED BY <1>4, <2>2, <4>1, <4>2 DEF Typed, HarnessOK
    <3> QED BY <3>1, <3>2
  <2> QED BY <2>1, <2>2
<1>6. stdout' \in Seq(Message)
  BY <1>4, TakenTyped DEF Typed, PipesOK
<1>7. peer' \in Clients \cup {NoClient} /\ (peer' \in Clients => client[peer'] # "new")
  <2>1. CASE AwaitConnect
    BY <2>1 DEF Typed, ClientsOK
  <2>2. CASE ~AwaitConnect
    <3>1. peer' = peer
      BY <1>4, <2>2 DEF RetrSend, StorData
    <3> QED BY <3>1 DEF Typed, HarnessOK
  <2> QED BY <2>1, <2>2
<1>8. dpc' \in {"start", "ping", "port", "cnct", "open", "RETR", "STOR", "closing", "quit",
                "pidwait", "done", "stopped"}
  <2> USE DEF Typed, HarnessOK, SysRead, PrintTo
  <2>1. CASE StartPing \/ Pong \/ NoPong \/ AwaitPort \/ AwaitConnect \/ ConnectTimeout
    BY <2>1 DEF StartPing, Pong, NoPong, AwaitPort, AwaitConnect, ConnectTimeout, KillSockfilt
  <2>2. CASE Begin \/ Abandon \/ RetrSend \/ RetrClose \/ StorData \/ StorDisc
    BY <2>2 DEF Begin, Abandon, RetrSend, RetrClose, StorData, StorDisc, KillSockfilt
  <2>3. CASE Closing \/ Quit \/ PidWait
    BY <2>3 DEF Closing, Quit, PidWait
  <2> QED BY <2>1, <2>2, <2>3 DEF Harness
<1>9. HarnessOK'
  BY <1>1, <1>5, <1>7, <1>8 DEF Typed, HarnessOK
<1> QED BY <1>2, <1>3, <1>5, <1>6, <1>9 DEF Typed, PipesOK

\* The clients.
ClientStep ==
  \E c \in Clients :
     \/ Send(c)
     \/ Hangs(c)
     \/ PortKnown /\ Connect(c) /\ UNCHANGED <<dpc, transfer, sent>>

LEMMA ClientTyped == ASSUME Typed, ClientStep PROVE Typed'
<1> USE DEF process, pipes, transfer
<1>1. ASSUME NEW c \in Clients, Send(c) PROVE Typed'
  <2>1. /\ UNCHANGED <<spc, mode, conn, ready, got_exit_signal, stdin, stdout, parent, client,
                       backlog, down, dpc, command, storeresp, file, peer>>
        /\ sent' = [sent EXCEPT ![c] = @ + 1] /\ sent[c] < NBlocks
        /\ up' = [up EXCEPT ![c] = Append(@, sent[c] + 1)]
    BY <1>1 DEF Send
  <2>2. sent' \in [Clients -> 0..NBlocks] /\ sent[c] + 1 \in Items
    BY <2>1, BlocksAssumption DEF Typed, HarnessOK, Items
  <2>3. up' \in [Clients -> Seq(Items)]
    <3>1. up \in [Clients -> Seq(Items)] /\ Append(up[c], sent[c] + 1) \in Seq(Items)
      BY <2>2, AppendedIn DEF Typed, ClientsOK
    <3> QED BY <2>1, <3>1
  <2>4. ProcessOK' /\ PipesOK'
    BY <2>1 DEF Typed, ProcessOK, PipesOK
  <2>5. ClientsOK'
    BY <2>1, <2>3 DEF Typed, ClientsOK
  <2>6. HarnessOK'
    BY <2>1, <2>2 DEF Typed, HarnessOK
  <2> QED BY <2>4, <2>5, <2>6 DEF Typed
<1>2. ASSUME NEW c \in Clients, Hangs(c) PROVE Typed'
  <2>1. /\ UNCHANGED <<spc, mode, conn, ready, got_exit_signal, stdin, stdout, parent,
                       backlog, up, down, dpc, command, storeresp, file, peer, sent>>
        /\ client' = [client EXCEPT ![c] = "closed"]
    BY <1>2 DEF Hangs, Close, streams
  <2>2. /\ client' \in [Clients -> {"new", "open", "closed"}]
        /\ \A d \in Clients : /\ client[d] # "new" => client'[d] # "new"
                              /\ client[d] = "closed" => client'[d] = "closed"
    BY <2>1 DEF Typed, ClientsOK
  <2>3. \A i \in 1..Len(backlog) : backlog[i] \in Clients
    BY ElementOfSeq DEF Typed, ClientsOK
  <2> QED BY <2>1, <2>2, <2>3 DEF Typed, ProcessOK, PipesOK, ClientsOK, HarnessOK
<1>3. ASSUME NEW c \in Clients, Connect(c), UNCHANGED <<dpc, transfer, sent>> PROVE Typed'
  <2>1. /\ UNCHANGED <<spc, mode, conn, ready, got_exit_signal, stdin, stdout, parent,
                       up, down, dpc, command, storeresp, file, peer, sent>>
        /\ client' = [client EXCEPT ![c] = "open"] /\ client[c] = "new"
        /\ backlog' = Append(backlog, c)
    BY <1>3 DEF Connect, streams
  <2>2. /\ client' \in [Clients -> {"new", "open", "closed"}]
        /\ \A d \in Clients : /\ client[d] # "new" => client'[d] # "new"
                              /\ client[d] = "closed" => client'[d] = "closed"
        /\ client'[c] # "new"
    BY <2>1 DEF Typed, ClientsOK
  <2>3. backlog' \in Seq(Clients) /\ \A i \in 1..Len(backlog') : client'[backlog'[i]] # "new"
    <3>1. backlog \in Seq(Clients) /\ \A i \in 1..Len(backlog) : client[backlog[i]] # "new"
      BY DEF Typed, ClientsOK
    <3>2. \A i \in 1..Len(backlog) : backlog[i] \in Clients
      BY <3>1, ElementOfSeq
    <3>3. PICK n \in Nat : n = Len(backlog)
      BY <3>1, LenProperties
    <3>4. /\ backlog' \in Seq(Clients) /\ Len(backlog') = n + 1
          /\ \A i \in 1..n : backlog'[i] = backlog[i]
          /\ backlog'[n + 1] = c
      BY <2>1, <3>1, <3>3, AppendProperties
    <3>5. \A i \in 1..(n + 1) : i \in 1..n \/ i = n + 1
      BY <3>3
    <3> QED BY <2>2, <3>1, <3>2, <3>3, <3>4, <3>5
  <2> QED BY SMTT(30), <2>1, <2>2, <2>3 DEF Typed, ProcessOK, PipesOK, ClientsOK, HarnessOK
<1> QED BY <1>1, <1>2, <1>3 DEF ClientStep

-----------------------------------------------------------------------------
(* Before the transfer *)

\* Nothing of a file has been sent or stored.
Quiet ==
  /\ file = << >>
  /\ \A c \in Clients : up[c] = << >> /\ down[c] = << >> /\ sent[c] = 0

Listens == mode = "PASSIVE_LISTEN" /\ conn = NoClient /\ spc # "handshake"

Linked == conn = peer /\ peer \in Clients /\ mode \in {"PASSIVE_CONNECT", "ACTIVE"}

\* What is left on stdout when nothing was asked: the DISC of a client that has closed.
Rest(s) ==
  \/ s = << >> /\ spc # "handshake"
  \/ s = <<Bare("DISC")>> /\ spc = "handshake"

NoneYet(s) ==
  \/ Listens /\ peer = NoClient /\ s = << >>
  \/ Linked /\ Rest(s)

Runs == parent = "alive" /\ ~Ended

AtStart ==
  /\ parent = "alive" /\ stdin = << >> /\ backlog = << >>
  /\ \/ ~Ended /\ NoneYet(stdout)
     \/ Ended /\ stdout = <<Bare("FAIL")>>

AtPing ==
  \/ Ended /\ (parent = "dead" \/ (stdout # << >> /\ Head(stdout).cmd # "PONG"))
  \/ Runs /\ backlog = << >> /\ stdin = <<Bare("PING")>> /\ NoneYet(stdout)
  \/ /\ Runs /\ backlog = << >> /\ stdin = << >> /\ spc # "start"
     /\ stdout # << >> /\ Head(stdout) = Bare("PONG") /\ NoneYet(Tail(stdout))

AtPort ==
  /\ Runs /\ spc # "start" /\ backlog = << >> /\ peer = NoClient /\ Listens
  /\ \/ stdin = <<Bare("PORT")>> /\ stdout = << >>
     \/ stdin = << >> /\ stdout = <<Bare("PORT")>>

AtCnct ==
  /\ Runs /\ spc # "start" /\ peer = NoClient /\ stdin = << >>
  /\ \/ Listens /\ stdout = << >>
     \/ /\ mode = "PASSIVE_CONNECT" /\ conn \in Clients
        /\ stdout # << >> /\ Head(stdout) = Block("CNCT", <<conn>>) /\ Rest(Tail(stdout))

AtOpen == Runs /\ spc # "start" /\ stdin = << >> /\ Linked /\ Rest(stdout)

Early == {"start", "ping", "port", "cnct", "open", "stopped"}

EarlyInv ==
  /\ dpc \in Early => Quiet
  /\ dpc = "start" => AtStart
  /\ dpc = "ping" => AtPing
  /\ dpc = "port" => AtPort
  /\ dpc = "cnct" => AtCnct
  /\ dpc = "open" => AtOpen
  /\ dpc = "stopped" => Ended

\* A process that has ended does nothing any more.
LEMMA EndedStops == ASSUME Typed, Ended PROVE ~SockfiltStep
BY DEF Typed, ProcessOK, Ended, SockfiltStep, Step, Start, StartFails, Select, StdinQuery,
   StdinQuit, StdinData, StdinDataDisconnected, StdinDisc, Accept, AcceptFails, SocketData,
   SocketEof, HandshakeAckd, HandshakeDisc, HandshakeOther, Orphan, Signalled, ReadStdin,
   AtSocket

\* With an empty stdin only the socket can move the process.
SocketStep ==
  Start \/ StartFails \/ Select \/ Accept \/ AcceptFails \/ SocketData \/ SocketEof

LEMMA IdleStep ==
  ASSUME Typed, stdin = << >>, parent = "alive", SockfiltStep
  PROVE  SocketStep
BY DEF Typed, ProcessOK, SockfiltStep, Step, StdinQuery, SocketStep,
   StdinQuit, StdinData, StdinDataDisconnected, StdinDisc,
   HandshakeAckd, HandshakeDisc, HandshakeOther, Orphan, Signalled, ReadStdin

LEMMA HeadOne == \A x : Head(<<x>>) = x /\ Tail(<<x>>) = << >> /\ <<x>> # << >>
OBVIOUS

\* With a question on stdin it can be answered, or found in disc_handshake.
LEMMA AskedStep ==
  ASSUME Typed, NEW x \in {"PING", "PORT"}, stdin = <<Bare(x)>>, parent = "alive", SockfiltStep
  PROVE  SocketStep \/ StdinQuery \/ HandshakeOther
<1>1. stdin # << >> /\ Command = x
  BY HeadOne DEF Command, Bare, Block
<1> QED BY <1>1 DEF Typed, ProcessOK, SockfiltStep, Step, SocketStep,
   StdinQuit, StdinData, StdinDataDisconnected, StdinDisc,
   HandshakeAckd, HandshakeDisc, HandshakeOther, Orphan, Signalled, ReadStdin

\* The moves of the process while nothing of a file is under way.
Moved ==
  /\ UNCHANGED <<stdin, stdout, mode, conn>> /\ spc \notin {"handshake", "ended"}
  /\ spc' \notin {"start", "handshake", "ended"}
  /\ backlog = << >> => backlog' = << >>

Failed ==
  /\ UNCHANGED <<stdin, mode, conn, backlog>>
  /\ spc = "start" /\ spc' = "ended" /\ stdout' = Append(stdout, Bare("FAIL"))

Accepted ==
  /\ UNCHANGED stdin /\ mode = "PASSIVE_LISTEN" /\ backlog # << >>
  /\ conn' \in Clients /\ mode' = "PASSIVE_CONNECT"
  /\ spc = "socket" /\ spc' = "juggle" /\ stdout' = Append(stdout, Block("CNCT", <<conn'>>))

SawEnd ==
  /\ UNCHANGED <<stdin, mode, conn, backlog>> /\ mode # "PASSIVE_LISTEN"
  /\ spc = "socket" /\ spc' = "handshake" /\ stdout' = Append(stdout, Bare("DISC"))

Answered(x) ==
  /\ UNCHANGED <<mode, conn, backlog>>
  /\ spc = "stdin" /\ spc' \in {"socket", "juggle"}
  /\ stdin' = << >> /\ stdout' = Append(stdout, Bare(IF x = "PING" THEN "PONG" ELSE "PORT"))

Broke ==
  /\ UNCHANGED <<stdout, mode, conn, backlog>>
  /\ spc = "handshake" /\ spc' = "ended" /\ stdin' = << >>

LEMMA QuietSocketStep ==
  ASSUME Typed, Quiet, parent = "alive", SocketStep, UNCHANGED <<file, sent>>
  PROVE  Quiet' /\ (Moved \/ Failed \/ Accepted \/ SawEnd)
<1>1. CASE Start \/ Select \/ AcceptFails
  <2>1. UNCHANGED <<stdin, stdout, mode, conn, up, down>> /\ spc \notin {"handshake", "ended"}
    BY <1>1 DEF Start, Select, AcceptFails, pipes, streams, AtSocket
  <2>2. spc' \notin {"start", "handshake", "ended"}
    BY <1>1 DEF Start, Select, AcceptFails, Goto
  <2>3. backlog = << >> => backlog' = << >>
    BY <1>1 DEF Start, Select, AcceptFails
  <2> QED BY <2>1, <2>2, <2>3 DEF Moved, Quiet
<1>2. CASE StartFails
  BY <1>2, WriteGoes DEF StartFails, Failed, Quiet, streams
<1>3. CASE Accept
  <2>1. WriteStdout(Block("CNCT", <<Head(backlog)>>), "juggle") /\ backlog # << >>
        /\ conn' = Head(backlog) /\ mode' = "PASSIVE_CONNECT" /\ mode = "PASSIVE_LISTEN"
        /\ UNCHANGED <<stdin, up, down>> /\ spc = "socket"
    BY <1>3 DEF Accept, AtSocket, streams
  <2>2. Head(backlog) \in Clients
    BY <2>1, TailIn DEF Typed, ClientsOK
  <2> QED BY <2>1, <2>2, WriteGoes DEF Accepted, Quiet
<1>4. ~SocketData
  <2>1. SocketData => conn \in Clients /\ up[conn] # << >>
    BY DEF SocketData, AtSocket, Typed, ProcessOK
  <2> QED BY <2>1 DEF Quiet
<1>5. CASE SocketEof
  BY <1>5, WriteGoes DEF SocketEof, SawEnd, Quiet, streams, AtSocket
<1> QED BY <1>1, <1>2, <1>3, <1>4, <1>5 DEF SocketStep

LEMMA QuietIdle ==
  ASSUME Typed, Quiet, stdin = << >>, parent = "alive", SockfiltStep, UNCHANGED <<file, sent>>
  PROVE  Quiet' /\ (Moved \/ Failed \/ Accepted \/ SawEnd)
BY IdleStep, QuietSocketStep

LEMMA QuietAsked ==
  ASSUME Typed, Quiet, NEW x \in {"PING", "PORT"}, stdin = <<Bare(x)>>, parent = "alive",
         SockfiltStep, UNCHANGED <<file, sent>>
  PROVE  Quiet' /\ (Moved \/ Failed \/ Accepted \/ SawEnd \/ Answered(x) \/ Broke)
<1>1. Head(stdin) = Bare(x) /\ Tail(stdin) = << >> /\ Command = x
  BY HeadOne DEF Command, Bare, Block
<1>2. CASE SocketStep
  BY <1>2, QuietSocketStep
<1>3. CASE StdinQuery
  <2>1. /\ WriteStdout(Bare(IF x = "PING" THEN "PONG" ELSE "PORT"), AfterStdin)
        /\ stdin' = << >> /\ spc = "stdin" /\ UNCHANGED <<mode, conn, backlog, up, down>>
    BY <1>1, <1>3 DEF StdinQuery, ReadStdin, streams
  <2>2. AfterStdin \in {"socket", "juggle"}
    BY DEF AfterStdin
  <2> QED BY <2>1, <2>2, WriteGoes DEF Answered, Quiet
<1>4. CASE HandshakeOther
  <2>1. /\ Goto("ended") /\ UNCHANGED <<mode, conn, stdout, backlog, up, down>>
        /\ stdin' = << >> /\ spc = "handshake"
    BY <1>1, <1>4 DEF HandshakeOther, ReadStdin, streams
  <2> QED BY <2>1, GotoIs DEF Broke, Quiet
<1> QED BY <1>2, <1>3, <1>4, AskedStep

LEMMA AppendNone == \A x : Append(<< >>, x) = <<x>>
OBVIOUS

LEMMA NoneYetMoves ==
  ASSUME NEW s, NoneYet(s), peer' = peer
  PROVE  /\ Moved => NoneYet(s)'
         /\ SawEnd => NoneYet(Append(s, Bare("DISC")))'
         /\ backlog = << >> => ~Accepted
<1>1. Moved => NoneYet(s)'
  BY DEF Moved, NoneYet, Listens, Linked, Rest
<1>2. ASSUME SawEnd PROVE NoneYet(Append(s, Bare("DISC")))'
  <2>1. Linked /\ s = << >>
    BY <1>2 DEF SawEnd, NoneYet, Listens, Rest
  <2>2. Append(s, Bare("DISC")) = <<Bare("DISC")>>
    BY <2>1, AppendNone
  <2>3. Linked' /\ spc' = "handshake"
    BY <1>2, <2>1 DEF SawEnd, Linked
  <2> QED BY <2>2, <2>3 DEF NoneYet, Rest
<1> QED BY <1>1, <1>2 DEF Accepted

LEMMA TailGrows ==
  ASSUME NEW S, NEW s \in Seq(S), s # << >>, NEW x \in S
  PROVE  /\ Append(s, x) # << >> /\ Head(Append(s, x)) = Head(s)
         /\ Tail(Append(s, x)) = Append(Tail(s), x)
BY HeadTailAppend, AppendProperties

LEMMA SockfiltEarly ==
  ASSUME Typed, EarlyInv, SockfiltStep, UNCHANGED <<dpc, transfer, sent>>
  PROVE  EarlyInv'
<1>0. UNCHANGED <<dpc, peer, file, sent, parent>> /\ ~Ended
  BY EndedStops DEF transfer, SockfiltStep
<1>d. Bare("DISC") \in Message /\ stdout \in Seq(Message)
  BY CommandsAre DEF Typed, PipesOK
<1>1. CASE dpc = "start"
  <2>1. parent = "alive" /\ stdin = << >> /\ backlog = << >> /\ NoneYet(stdout) /\ Quiet
    BY <1>0, <1>1 DEF EarlyInv, AtStart, Early
  <2>2. Quiet' /\ (Moved \/ Failed \/ Accepted \/ SawEnd)
    BY <1>0, <2>1, QuietIdle
  <2>3. PICK s : s = stdout /\ NoneYet(s)
    BY <2>1
  <2>4. CASE Moved
    <3>1. NoneYet(s)' /\ stdout' = s
      BY <1>0, <2>3, <2>4, NoneYetMoves DEF Moved
    <3>2. NoneYet(stdout)'
      BY <3>1 DEF NoneYet, Listens, Linked, Rest
    <3> QED BY <1>0, <1>1, <2>1, <2>2, <2>4, <3>2 DEF EarlyInv, AtStart, Moved, Ended
  <2>5. CASE Failed
    <3>1. stdout = << >>
      BY <2>1, <2>5 DEF Failed, NoneYet, Rest
    <3>2. stdout' = <<Bare("FAIL")>> /\ spc' = "ended" /\ stdin' = << >> /\ backlog' = << >>
      BY <2>1, <2>5, <3>1, AppendNone DEF Failed
    <3> QED BY <1>0, <1>1, <2>1, <2>2, <3>2 DEF EarlyInv, AtStart, Ended
  <2>6. CASE SawEnd
    <3>1. NoneYet(Append(s, Bare("DISC")))' /\ stdout' = Append(s, Bare("DISC"))
      BY <1>0, <2>3, <2>6, NoneYetMoves DEF SawEnd
    <3>2. NoneYet(stdout)'
      <4>1. PICK r : r = Append(s, Bare("DISC"))
        OBVIOUS
      <4>2. NoneYet(r)' /\ stdout' = r
        BY <3>1, <4>1
      <4> QED BY <4>2 DEF NoneYet, Listens, Linked, Rest
    <3> QED BY <1>0, <1>1, <2>1, <2>2, <2>6, <3>2 DEF EarlyInv, AtStart, SawEnd, Ended
  <2> QED BY <1>0, <2>1, <2>2, <2>3, <2>4, <2>5, <2>6, NoneYetMoves
<1>2. CASE dpc = "ping"
  <2>0. Quiet
    BY <1>2 DEF EarlyInv, Early
  <2>1. CASE Runs /\ backlog = << >> /\ stdin = <<Bare("PING")>> /\ NoneYet(stdout)
    <3>1. Quiet' /\ (Moved \/ Failed \/ Accepted \/ SawEnd \/ Answered("PING") \/ Broke)
      <4>1. "PING" \in {"PING", "PORT"} /\ parent = "alive"
        BY <2>1 DEF Runs
      <4> QED BY <1>0, <2>0, <2>1, <4>1, QuietAsked
    <3>2. PICK s : s = stdout /\ NoneYet(s)
      BY <2>1
    <3>3. CASE Moved
      <4>1. NoneYet(s)' /\ stdout' = s
        BY <1>0, <3>2, <3>3, NoneYetMoves DEF Moved
      <4>2. NoneYet(stdout)'
        BY <4>1 DEF NoneYet, Listens, Linked, Rest
      <4> QED BY <1>0, <1>2, <2>1, <3>1, <3>3, <4>2 DEF EarlyInv, AtPing, Moved, Runs, Ended
    <3>4. CASE Failed
      <4>1. stdout = << >>
        BY <2>1, <3>4 DEF Failed, NoneYet, Rest
      <4>2. stdout' = <<Bare("FAIL")>> /\ Ended'
        BY <3>4, <4>1, AppendNone DEF Failed, Ended
      <4>3. stdout' # << >> /\ Head(stdout').cmd # "PONG"
        BY <4>2, HeadOne DEF Bare, Block
      <4> QED BY <1>0, <1>2, <3>1, <4>2, <4>3 DEF EarlyInv, AtPing
    <3>5. CASE SawEnd
      <4>1. PICK r : r = Append(s, Bare("DISC"))
        OBVIOUS
      <4>2. NoneYet(r)' /\ stdout' = r
        BY <1>0, <3>2, <3>5, <4>1, NoneYetMoves DEF SawEnd
      <4>3. NoneYet(stdout)'
        BY <4>2 DEF NoneYet, Listens, Linked, Rest
      <4> QED BY <1>0, <1>2, <2>1, <3>1, <3>5, <4>3 DEF EarlyInv, AtPing, SawEnd, Runs, Ended
    <3>6. CASE Answered("PING")
      <4>1. stdout = << >>
        BY <2>1, <3>6 DEF Answered, NoneYet, Rest
      <4>2. stdout' = <<Bare("PONG")>>
        BY <3>6, <4>1, AppendNone DEF Answered
      <4>3. stdout' # << >> /\ Head(stdout') = Bare("PONG") /\ Tail(stdout') = << >>
        BY <4>2, HeadOne
      <4>4. NoneYet(Tail(stdout))'
        BY <1>0, <2>1, <3>6, <4>3 DEF Answered, NoneYet, Listens, Linked, Rest
      <4> QED BY <1>0, <1>2, <2>1, <3>1, <3>6, <4>3, <4>4
          DEF EarlyInv, AtPing, Answered, Runs, Ended
    <3>7. CASE Broke
      <4>1. stdout = <<Bare("DISC")>> /\ stdout' = stdout /\ Ended'
        BY <2>1, <3>7 DEF Broke, NoneYet, Listens, Rest, Ended
      <4>2. stdout' # << >> /\ Head(stdout').cmd # "PONG"
        BY <4>1, HeadOne DEF Bare, Block
      <4> QED BY <1>0, <1>2, <3>1, <4>1, <4>2 DEF EarlyInv, AtPing
    <3> QED BY <1>0, <2>1, <3>1, <3>2, <3>3, <3>4, <3>5, <3>6, <3>7, NoneYetMoves
  <2>2. CASE /\ Runs /\ backlog = << >> /\ stdin = << >> /\ spc # "start"
             /\ stdout # << >> /\ Head(stdout) = Bare("PONG") /\ NoneYet(Tail(stdout))
    <3>1. Quiet' /\ (Moved \/ Failed \/ Accepted \/ SawEnd)
      BY <1>0, <2>0, <2>2, QuietIdle DEF Runs
    <3>2. PICK s : s = Tail(stdout) /\ NoneYet(s)
      BY <2>2
    <3>3. CASE Moved
      <4>1. NoneYet(s)' /\ Tail(stdout') = s /\ stdout' = stdout
        BY <1>0, <3>2, <3>3, NoneYetMoves DEF Moved
      <4>2. NoneYet(Tail(stdout))'
        BY <4>1 DEF NoneYet, Listens, Linked, Rest
      <4> QED BY <1>0, <1>2, <2>2, <3>1, <3>3, <4>1, <4>2
          DEF EarlyInv, AtPing, Moved, Runs, Ended
    <3>4. CASE SawEnd
      <4>1. PICK r : r = Append(s, Bare("DISC"))
        OBVIOUS
      <4>2. NoneYet(r)' /\ stdout' = Append(stdout, Bare("DISC"))
        BY <1>0, <3>2, <3>4, <4>1, NoneYetMoves DEF SawEnd
      <4>3. stdout' # << >> /\ Head(stdout') = Bare("PONG") /\ Tail(stdout') = r
        BY <1>d, <2>2, <3>2, <4>1, <4>2, TailGrows
      <4>4. NoneYet(Tail(stdout))'
        BY <4>2, <4>3 DEF NoneYet, Listens, Linked, Rest
      <4> QED BY <1>0, <1>2, <2>2, <3>1, <3>4, <4>3, <4>4
          DEF EarlyInv, AtPing, SawEnd, Runs, Ended
    <3> QED BY <1>0, <2>2, <3>1, <3>2, <3>3, <3>4, NoneYetMoves DEF Failed
  <2> QED BY <1>0, <1>2, <2>1, <2>2 DEF EarlyInv, AtPing
<1>3. CASE dpc = "port"
  <2>1. /\ Runs /\ spc # "start" /\ backlog = << >> /\ peer = NoClient /\ Listens /\ Quiet
        /\ \/ stdin = <<Bare("PORT")>> /\ stdout = << >>
           \/ stdin = << >> /\ stdout = <<Bare("PORT")>>
    BY <1>3 DEF EarlyInv, AtPort, Early
  <2>2. "PORT" \in {"PING", "PORT"} /\ parent = "alive"
    BY <2>1 DEF Runs
  <2>3. Quiet' /\ (Moved \/ (stdin = <<Bare("PORT")>> /\ Answered("PORT")))
    <3>1. CASE stdin = << >>
      BY <1>0, <2>1, <2>2, <3>1, QuietIdle DEF Failed, Accepted, SawEnd, Listens
    <3>2. CASE stdin = <<Bare("PORT")>>
      <4>1. Quiet' /\ (Moved \/ Failed \/ Accepted \/ SawEnd \/ Answered("PORT") \/ Broke)
        BY <1>0, <2>1, <2>2, <3>2, QuietAsked
      <4> QED BY <2>1, <3>2, <4>1 DEF Failed, Accepted, SawEnd, Broke, Listens
    <3> QED BY <2>1, <3>1, <3>2
  <2>4. CASE Moved
    BY <1>0, <1>3, <2>1, <2>3, <2>4 DEF EarlyInv, AtPort, Moved, Runs, Ended, Listens
  <2>5. CASE stdin = <<Bare("PORT")>> /\ Answered("PORT")
    <3>1. stdout = << >>
      BY <2>1, <2>5, HeadOne
    <3>2. stdout' = <<Bare("PORT")>> /\ stdin' = << >>
      BY <2>5, <3>1, AppendNone DEF Answered
    <3> QED BY <1>0, <1>3, <2>1, <2>3, <2>5, <3>2
        DEF EarlyInv, AtPort, Answered, Runs, Ended, Listens
  <2> QED BY <2>3, <2>4, <2>5
<1>4. CASE dpc = "cnct"
  <2>1. /\ Runs /\ spc # "start" /\ peer = NoClient /\ stdin = << >> /\ Quiet
        /\ \/ Listens /\ stdout = << >>
           \/ /\ mode = "PASSIVE_CONNECT" /\ conn \in Clients
              /\ stdout # << >> /\ Head(stdout) = Block("CNCT", <<conn>>) /\ Rest(Tail(stdout))
    BY <1>4 DEF EarlyInv, AtCnct, Early
  <2>2. Quiet' /\ (Moved \/ Failed \/ Accepted \/ SawEnd)
    BY <1>0, <2>1, QuietIdle DEF Runs
  <2>3. ~Failed
    BY <2>1 DEF Failed
  <2>4. CASE Moved
    BY <1>0, <1>4, <2>1, <2>2, <2>4
    DEF EarlyInv, AtCnct, Moved, Runs, Ended, Listens, Rest
  <2>5. CASE Accepted
    <3>1. stdout = << >>
      BY <2>1, <2>5 DEF Accepted
    <3>2. stdout' = <<Block("CNCT", <<conn'>>)>>
      BY <2>5, <3>1, AppendNone DEF Accepted
    <3>3. stdout' # << >> /\ Head(stdout') = Block("CNCT", <<conn'>>) /\ Tail(stdout') = << >>
      BY <3>2, HeadOne
    <3> QED BY <1>0, <1>4, <2>1, <2>2, <2>5, <3>3
        DEF EarlyInv, AtCnct, Accepted, Runs, Ended, Rest
  <2>6. CASE SawEnd
    <3>1. /\ mode = "PASSIVE_CONNECT" /\ conn \in Clients /\ stdout # << >>
          /\ Head(stdout) = Block("CNCT", <<conn>>) /\ Tail(stdout) = << >>
      BY <2>1, <2>6 DEF SawEnd, Listens, Rest
    <3>2. stdout' = Append(stdout, Bare("DISC"))
      BY <2>6 DEF SawEnd
    <3>3. stdout' # << >> /\ Head(stdout') = Head(stdout) /\ Tail(stdout') = <<Bare("DISC")>>
      <4>1. /\ stdout' # << >> /\ Head(stdout') = Head(stdout)
            /\ Tail(stdout') = Append(Tail(stdout), Bare("DISC"))
        BY <1>d, <3>1, <3>2, TailGrows
      <4>2. Append(Tail(stdout), Bare("DISC")) = <<Bare("DISC")>>
        BY <3>1, AppendNone
      <4> QED BY <4>1, <4>2
    <3> QED BY <1>0, <1>4, <2>1, <2>2, <2>6, <3>1, <3>3
        DEF EarlyInv, AtCnct, SawEnd, Runs, Ended, Rest
  <2> QED BY <2>2, <2>3, <2>4, <2>5, <2>6
<1>5. CASE dpc = "open"
  <2>1. Runs /\ spc # "start" /\ stdin = << >> /\ Linked /\ Rest(stdout) /\ Quiet
    BY <1>5 DEF EarlyInv, AtOpen, Early
  <2>2. Quiet' /\ (Moved \/ SawEnd)
    <3>1. Quiet' /\ (Moved \/ Failed \/ Accepted \/ SawEnd)
      BY <1>0, <2>1, QuietIdle DEF Runs
    <3> QED BY <2>1, <3>1 DEF Failed, Accepted, Linked
  <2>3. CASE Moved
    BY <1>0, <1>5, <2>1, <2>2, <2>3
    DEF EarlyInv, AtOpen, Moved, Runs, Ended, Linked, Rest
  <2>4. CASE SawEnd
    <3>1. stdout = << >>
      BY <2>1, <2>4 DEF SawEnd, Rest
    <3>2. stdout' = <<Bare("DISC")>>
      BY <2>4, <3>1, AppendNone DEF SawEnd
    <3> QED BY <1>0, <1>5, <2>1, <2>2, <2>4, <3>2
        DEF EarlyInv, AtOpen, SawEnd, Runs, Ended, Linked, Rest
  <2> QED BY <2>2, <2>3, <2>4
<1>6. dpc # "stopped"
  BY <1>0 DEF EarlyInv
<1>7. CASE dpc \notin Early
  BY <1>0, <1>7 DEF EarlyInv, Early
<1> QED BY <1>1, <1>2, <1>3, <1>4, <1>5, <1>6, <1>7 DEF Early

LEMMA QuietStays ==
  Quiet /\ UNCHANGED <<file, up, down, sent>> => Quiet'
BY DEF Quiet

LEMMA KillStops ==
  ASSUME Typed, EarlyInv, dpc \in Early, KillSockfilt
  PROVE  EarlyInv'
<1>1. dpc' = "stopped" /\ Ended' /\ UNCHANGED <<file, up, down, sent>>
  BY GotoIs DEF KillSockfilt, Ended, streams, transfer
<1>2. Quiet'
  BY <1>1, QuietStays DEF EarlyInv
<1> QED BY <1>1, <1>2 DEF EarlyInv

LEMMA HarnessEarly ==
  ASSUME Typed, EarlyInv, Harness
  PROVE  EarlyInv' /\ (AwaitConnect => peer' = conn /\ conn \in Clients)
<1> USE DEF SysRead, process, transfer, streams, sockfiltVars, pipes
<1>n. NoClient \notin Clients
  BY ClientsAssumption
<1>1. CASE StartPing
  <2>1. dpc = "start" /\ AtStart /\ Quiet /\ dpc' = "ping"
        /\ ParentPrints(Bare("PING"))
        /\ UNCHANGED <<spc, mode, conn, stdout, backlog, up, down, file, peer, sent>>
    BY <1>1 DEF StartPing, EarlyInv, Early, PrintTo
  <2>2. Quiet'
    BY <2>1, QuietStays
  <2>3. CASE Ended
    <3>1. parent' = "dead" /\ Ended'
      BY <2>1, <2>3 DEF ParentPrints, Ended
    <3> QED BY <2>1, <2>2, <3>1 DEF EarlyInv, AtPing, AwaitConnect
  <2>4. CASE ~Ended
    <3>1. stdin' = <<Bare("PING")>> /\ parent' = "alive"
      BY <2>1, <2>4, AppendNone DEF ParentPrints, AtStart
    <3>2. NoneYet(stdout)'
      BY <2>1, <2>4 DEF AtStart, NoneYet, Listens, Linked, Rest
    <3> QED BY <2>1, <2>2, <2>4, <3>1, <3>2
        DEF EarlyInv, AtPing, AtStart, Runs, Ended, AwaitConnect
  <2> QED BY <2>3, <2>4
<1>2. CASE Pong
  <2>1. dpc = "ping" /\ AtPing /\ Quiet /\ parent = "alive" /\ stdout # << >>
        /\ stdout' = Tail(stdout) /\ Head(stdout).cmd = "PONG"
        /\ UNCHANGED <<spc, mode, conn, backlog, up, down, file, peer, sent>>
    BY <1>2 DEF Pong, EarlyInv, Early, ParentReads, Read
  <2>2. Quiet'
    BY <2>1, QuietStays
  <2>3. /\ Runs /\ backlog = << >> /\ stdin = << >> /\ spc # "start"
        /\ NoneYet(Tail(stdout))
    <3>1. ~(NoneYet(stdout))
      <4>1. stdout # <<Bare("DISC")>>
        BY <2>1, HeadOne DEF Bare, Block
      <4> QED BY <2>1, <4>1 DEF NoneYet, Rest
    <3> QED BY <2>1, <3>1 DEF AtPing
  <2>4. CASE peer = NoClient
    <3>1. dpc' = "port" /\ ParentPrints(Bare("PORT"))
      BY <1>2, <2>4 DEF Pong, PrintTo
    <3>2. stdin' = <<Bare("PORT")>> /\ parent' = parent
      BY <2>3, <3>1, AppendNone DEF ParentPrints, Runs
    <3>3. Listens /\ stdout' = << >>
      BY <1>n, <2>1, <2>3, <2>4 DEF NoneYet, Linked
    <3> QED BY <2>1, <2>2, <2>3, <2>4, <3>1, <3>2, <3>3
        DEF EarlyInv, AtPort, Runs, Ended, Listens, AwaitConnect
  <2>5. CASE peer # NoClient
    <3>1. dpc' = "open" /\ UNCHANGED <<stdin, parent>>
      BY <1>2, <2>5 DEF Pong
    <3>2. Linked /\ Rest(stdout')
      BY <2>1, <2>3, <2>5 DEF NoneYet
    <3>3. Linked' /\ Rest(stdout)'
      BY <2>1, <3>2 DEF Linked, Rest
    <3> QED BY <2>1, <2>2, <2>3, <3>1, <3>3 DEF EarlyInv, AtOpen, Runs, Ended, AwaitConnect
  <2> QED BY <2>4, <2>5
<1>3. CASE NoPong
  <2>1. dpc = "ping" /\ dpc' = "stopped" /\ Ended' /\ Quiet /\ UNCHANGED <<file, up, down, sent>>
    BY <1>3, GotoIs DEF NoPong, EarlyInv, Early, Ended
  <2> QED BY <2>1, QuietStays DEF EarlyInv, AwaitConnect
<1>4. CASE AwaitPort
  <2>1. dpc = "port" /\ dpc' = "cnct" /\ AtPort /\ Quiet /\ stdout # << >>
        /\ stdout' = Tail(stdout)
        /\ UNCHANGED <<spc, mode, conn, stdin, parent, backlog, up, down, file, peer, sent>>
    BY <1>4 DEF AwaitPort, EarlyInv, Early, ParentReads
  <2>2. stdin = << >> /\ stdout' = << >>
    BY <2>1, HeadOne DEF AtPort
  <2> QED BY <2>1, <2>2, QuietStays
      DEF EarlyInv, AtPort, AtCnct, Runs, Ended, Listens, AwaitConnect
<1>5. CASE AwaitConnect
  <2>1. dpc = "cnct" /\ dpc' = "open" /\ AtCnct /\ Quiet /\ stdout # << >>
        /\ stdout' = Tail(stdout) /\ peer' = Head(stdout).data[1]
        /\ UNCHANGED <<spc, mode, conn, stdin, parent, backlog, up, down, file, sent>>
    BY <1>5 DEF AwaitConnect, EarlyInv, Early, ParentReads
  <2>2. mode = "PASSIVE_CONNECT" /\ conn \in Clients /\ Rest(Tail(stdout)) /\ peer' = conn
    BY <2>1 DEF AtCnct, Block
  <2>3. Linked' /\ Rest(stdout)'
    BY <2>1, <2>2 DEF Linked, Rest
  <2> QED BY <2>1, <2>2, <2>3, QuietStays DEF EarlyInv, AtCnct, AtOpen, Runs, Ended
<1>6. CASE ConnectTimeout \/ Abandon
  <2>1. KillSockfilt /\ dpc \in {"cnct", "open"} /\ dpc' = "stopped"
    BY <1>6 DEF ConnectTimeout, Abandon, KillSockfilt
  <2>2. dpc \in Early
    BY <2>1 DEF Early
  <2>3. EarlyInv'
    BY <2>1, <2>2, KillStops
  <2> QED BY <2>1, <2>3 DEF AwaitConnect
<1>7. CASE Begin
  BY <1>7 DEF Begin, EarlyInv, Early, Typed, HarnessOK, AwaitConnect
<1>8. CASE RetrSend \/ RetrClose \/ StorData \/ StorDisc \/ Closing \/ Quit \/ PidWait
  <2>1. dpc' \in {"RETR", "STOR", "closing", "quit", "pidwait", "done"}
    BY <1>8 DEF RetrSend, RetrClose, StorData, StorDisc, Closing, Quit, PidWait, PrintTo
  <2>2. dpc # "cnct"
    BY <1>8 DEF RetrSend, RetrClose, StorData, StorDisc, Closing, Quit, PidWait
  <2> QED BY <2>1, <2>2 DEF EarlyInv, Early, AwaitConnect
<1> QED BY <1>1, <1>2, <1>3, <1>4, <1>5, <1>6, <1>7, <1>8 DEF Harness

LEMMA ClientEarly ==
  ASSUME Typed, EarlyInv, ClientStep
  PROVE  EarlyInv'
<1> USE DEF process, transfer, streams, sockfiltVars, pipes
<1>1. ASSUME NEW c \in Clients, Send(c) PROVE EarlyInv'
  BY <1>1 DEF Send, EarlyInv, Early
<1>2. ASSUME NEW c \in Clients, Hangs(c) PROVE EarlyInv'
  <2>1. UNCHANGED <<spc, mode, conn, stdin, stdout, parent, backlog, up, down, dpc, file, peer,
                    sent>>
    BY <1>2 DEF Hangs, Close
  <2>2. NoneYet(stdout) <=> NoneYet(stdout)'
    BY <2>1 DEF NoneYet, Listens, Linked, Rest
  <2>3. NoneYet(Tail(stdout)) <=> NoneYet(Tail(stdout))'
    BY <2>1 DEF NoneYet, Listens, Linked, Rest
  <2> QED BY <2>1, <2>2, <2>3, QuietStays
      DEF EarlyInv, Early, AtStart, AtPing, AtPort, AtCnct, AtOpen, Runs, Ended, Listens,
          Linked, Rest
<1>3. ASSUME NEW c \in Clients, PortKnown, Connect(c), UNCHANGED <<dpc, transfer, sent>>
      PROVE  EarlyInv'
  <2>1. UNCHANGED <<spc, mode, conn, stdin, stdout, parent, up, down, dpc, file, peer, sent>>
    BY <1>3 DEF Connect
  <2>2. dpc \notin {"start", "ping", "port"}
    BY <1>3 DEF PortKnown
  <2> QED BY <2>1, <2>2, QuietStays
      DEF EarlyInv, Early, AtCnct, AtOpen, Runs, Ended, Listens, Linked, Rest
<1> QED BY <1>1, <1>2, <1>3 DEF ClientStep

LEMMA InitEarly == Init => EarlyInv
<1> SUFFICES ASSUME Init PROVE EarlyInv
  OBVIOUS
<1>1. Quiet
  BY DEF Init, SockfiltInit, Quiet
<1>2. NoneYet(stdout)
  BY ClientsAssumption
  DEF Init, SockfiltInit, NoneYet, Listens, Linked, Rest, Listening, Connected
<1> QED BY <1>1, <1>2 DEF Init, SockfiltInit, EarlyInv, AtStart, Ended

-----------------------------------------------------------------------------
(* What is under way on stdin while a file is sent *)

\* The last m of the n blocks sent are still in the pipe, and after them only the
\* commands of the shutdown.
Waits(s, n, m) ==
  /\ m \in 0..Len(s)
  /\ \A i \in 1..m : s[i] = Block("DATA", <<n - m + i>>)
  /\ \A i \in (m + 1)..Len(s) : s[i].cmd \in {"DISC", "ACKD", "QUIT"}

Without(s, x) == \A i \in 1..Len(s) : s[i].cmd # x

LEMMA AppendAt ==
  ASSUME NEW S, NEW s \in Seq(S), NEW x \in S
  PROVE  /\ Append(s, x) \in Seq(S) /\ Len(s) \in Nat
         /\ Len(Append(s, x)) = Len(s) + 1
         /\ \A i \in 1..Len(s) : Append(s, x)[i] = s[i]
         /\ Append(s, x)[Len(s) + 1] = x
BY AppendProperties, LenProperties

LEMMA WaitsData ==
  ASSUME NEW s \in Seq(Message), NEW n \in Nat, Waits(s, n, Len(s))
  PROVE  Waits(Append(s, Block("DATA", <<n + 1>>)), n + 1, Len(s) + 1)
<1>1. PICK x : x = Block("DATA", <<n + 1>>) /\ x \in Message
  <2>1. n + 1 \in Items
    BY DEF Items
  <2> QED BY <2>1, CommandsAre
<1>2. PICK t, l : t = Append(s, x) /\ l = Len(s)
  OBVIOUS
<1>3. /\ t \in Seq(Message) /\ l \in Nat /\ Len(t) = l + 1
      /\ \A i \in 1..l : t[i] = s[i]
      /\ t[l + 1] = x
  BY <1>1, <1>2, AppendAt
<1>4. ASSUME NEW i \in 1..(l + 1) PROVE t[i] = Block("DATA", <<(n + 1) - (l + 1) + i>>)
  <2>1. CASE i \in 1..l
    <3>1. s[i] = Block("DATA", <<n - l + i>>)
      BY <1>2, <2>1 DEF Waits
    <3>2. n - l + i = (n + 1) - (l + 1) + i
      BY <1>3, <2>1
    <3> QED BY <1>3, <2>1, <3>1, <3>2
  <2>2. CASE i = l + 1
    <3>1. n + 1 = (n + 1) - (l + 1) + i
      BY <1>3, <2>2
    <3> QED BY <1>1, <1>3, <2>2, <3>1
  <2> QED BY <1>3, <2>1, <2>2
<1>5. l + 1 \in 0..Len(t) /\ (l + 2)..Len(t) = {}
  BY <1>3
<1>6. \A i \in (l + 1 + 1)..Len(t) : t[i].cmd \in {"DISC", "ACKD", "QUIT"}
  BY <1>3
<1>7. Waits(t, n + 1, l + 1)
  BY ONLY <1>4, <1>5, <1>6 DEF Waits
<1> QED BY <1>1, <1>2, <1>7

LEMMA WaitsBare ==
  ASSUME NEW s \in Seq(Message), NEW n, NEW m, Waits(s, n, m),
         NEW x \in {"DISC", "ACKD", "QUIT"}
  PROVE  Waits(Append(s, Bare(x)), n, m)
<1>1. Bare(x) \in Message /\ Bare(x).cmd = x
  BY CommandsAre DEF Bare, Block
<1>2. PICK t, l : t = Append(s, Bare(x)) /\ l = Len(s)
  OBVIOUS
<1>3. /\ t \in Seq(Message) /\ l \in Nat /\ Len(t) = l + 1
      /\ \A i \in 1..l : t[i] = s[i]
      /\ t[l + 1] = Bare(x)
  BY <1>1, <1>2, AppendAt
<1>4. /\ m \in 0..l
      /\ \A i \in 1..m : s[i] = Block("DATA", <<n - m + i>>)
      /\ \A i \in (m + 1)..l : s[i].cmd \in {"DISC", "ACKD", "QUIT"}
  BY <1>2 DEF Waits
<1>5. \A i \in 1..m : t[i] = Block("DATA", <<n - m + i>>)
  BY <1>3, <1>4
<1>6. ASSUME NEW i \in (m + 1)..(l + 1) PROVE t[i].cmd \in {"DISC", "ACKD", "QUIT"}
  <2>1. i \in (m + 1)..l \/ i = l + 1
    BY <1>3, <1>4
  <2>2. i \in (m + 1)..l => i \in 1..l
    BY <1>3, <1>4
  <2> QED BY <1>1, <1>3, <1>4, <2>1, <2>2
<1>7. m \in 0..Len(t)
  BY <1>3, <1>4
<1> QED BY <1>2, <1>3, <1>5, <1>6, <1>7 DEF Waits

LEMMA WaitsTail ==
  ASSUME NEW s \in Seq(Message), s # << >>, NEW n \in Nat, NEW m \in Nat, Waits(s, n, m)
  PROVE  /\ m > 0 => Head(s) = Block("DATA", <<n - m + 1>>) /\ Waits(Tail(s), n, m - 1)
         /\ m = 0 => Head(s).cmd \in {"DISC", "ACKD", "QUIT"} /\ Waits(Tail(s), n, 0)
<1>1. PICK t, l : t = Tail(s) /\ l = Len(s)
  OBVIOUS
<1>2. /\ t \in Seq(Message) /\ l \in Nat /\ l > 0 /\ Len(t) = l - 1
      /\ Head(s) = s[1]
      /\ \A i \in 1..(l - 1) : t[i] = s[i + 1]
  <2>1. l \in Nat /\ l > 0 /\ Head(s) = s[1]
    BY <1>1, LenProperties, EmptySeq
  <2> QED BY <1>1, <2>1, TailIn
<1>3. /\ m \in 0..l
      /\ \A i \in 1..m : s[i] = Block("DATA", <<n - m + i>>)
      /\ \A i \in (m + 1)..l : s[i].cmd \in {"DISC", "ACKD", "QUIT"}
  BY <1>1 DEF Waits
<1>4. ASSUME m > 0
      PROVE  Head(s) = Block("DATA", <<n - m + 1>>) /\ Waits(t, n, m - 1)
  <2>1. s[1] = Block("DATA", <<n - m + 1>>)
    BY <1>3, <1>4
  <2>2. ASSUME NEW i \in 1..(m - 1) PROVE t[i] = Block("DATA", <<n - (m - 1) + i>>)
    <3>1. i \in 1..(l - 1) /\ i + 1 \in 1..m /\ n - m + (i + 1) = n - (m - 1) + i
      BY <1>2, <1>3
    <3>2. s[i + 1] = Block("DATA", <<n - m + (i + 1)>>)
      BY <1>3, <3>1
    <3> QED BY <1>2, <3>1, <3>2
  <2>3. ASSUME NEW i \in (m - 1 + 1)..(l - 1) PROVE t[i].cmd \in {"DISC", "ACKD", "QUIT"}
    <3>1. i \in 1..(l - 1) /\ i + 1 \in (m + 1)..l
      BY <1>2, <1>3, <1>4
    <3> QED BY <1>2, <1>3, <3>1
  <2>4. m - 1 \in 0..(l - 1)
    BY <1>2, <1>3, <1>4
  <2>5. Waits(t, n, m - 1)
    BY <1>2, <2>2, <2>3, <2>4 DEF Waits
  <2> QED BY <1>2, <2>1, <2>5
<1>5. ASSUME m = 0
      PROVE  Head(s).cmd \in {"DISC", "ACKD", "QUIT"} /\ Waits(t, n, 0)
  <2>1. \A i \in 1..l : s[i].cmd \in {"DISC", "ACKD", "QUIT"}
    BY <1>3, <1>5
  <2>2. ASSUME NEW i \in (0 + 1)..(l - 1) PROVE t[i].cmd \in {"DISC", "ACKD", "QUIT"}
    <3>1. i \in 1..(l - 1) /\ i + 1 \in 1..l
      BY <1>2
    <3> QED BY <1>2, <2>1, <3>1
  <2>3. 0 \in 0..(l - 1) /\ 1 \in 1..l
    BY <1>2
  <2>4. \A i \in 1..0 : t[i] = Block("DATA", <<n - 0 + i>>)
    OBVIOUS
  <2>5. Waits(t, n, 0)
    BY <1>2, <2>2, <2>3, <2>4 DEF Waits
  <2> QED BY <1>2, <2>1, <2>3, <2>5
<1> QED BY <1>1, <1>4, <1>5

LEMMA WithoutTail ==
  ASSUME NEW s \in Seq(Message), s # << >>, NEW x, Without(s, x)
  PROVE  Without(Tail(s), x) /\ Head(s).cmd # x
<1>1. /\ Tail(s) \in Seq(Message) /\ Len(s) \in Nat /\ Len(s) > 0 /\ Len(Tail(s)) = Len(s) - 1
      /\ \A i \in 1..(Len(s) - 1) : Tail(s)[i] = s[i + 1]
      /\ Head(s) = s[1]
  <2>1. Len(s) \in Nat /\ Len(s) > 0 /\ Head(s) = s[1]
    BY LenProperties, EmptySeq
  <2> QED BY <2>1, TailIn
<1>2. 1 \in 1..Len(s) /\ \A i \in 1..(Len(s) - 1) : i + 1 \in 1..Len(s)
  BY <1>1
<1> QED BY <1>1, <1>2 DEF Without

LEMMA WithoutAppend ==
  ASSUME NEW s \in Seq(Message), NEW x, Without(s, x), NEW y \in Message, y.cmd # x
  PROVE  Without(Append(s, y), x)
<1>1. PICK t, l : t = Append(s, y) /\ l = Len(s)
  OBVIOUS
<1>2. /\ l \in Nat /\ Len(t) = l + 1
      /\ \A i \in 1..l : t[i] = s[i]
      /\ t[l + 1] = y
  BY <1>1, AppendAt
<1>3. \A i \in 1..(l + 1) : i \in 1..l \/ i = l + 1
  BY <1>2
<1> QED BY <1>1, <1>2, <1>3 DEF Without

-----------------------------------------------------------------------------
(* What is under way on stdout while a file is stored *)

\* DATA blocks with the blocks of the file after a, up to b, in order.
Cuts(s) == [0..Len(s) -> 0..NBlocks]

Cut(s, g, a, b) ==
  /\ g[0] = a /\ g[Len(s)] = b
  /\ \A i \in 1..Len(s) :
        g[i - 1] <= g[i] /\ g[i] <= b /\ s[i] = Block("DATA", Run(g[i - 1], g[i]))

Chain(s, a, b) == \E g \in Cuts(s) : Cut(s, g, a, b)

LEMMA ChainNone ==
  \A a, b \in 0..NBlocks : Chain(<< >>, a, b) <=> a = b
<1> SUFFICES ASSUME NEW a \in 0..NBlocks, NEW b \in 0..NBlocks
             PROVE  Chain(<< >>, a, b) <=> a = b
  OBVIOUS
<1>1. Len(<< >>) = 0
  BY Nothing
<1>2. ASSUME a = b PROVE Chain(<< >>, a, b)
  <2>1. PICK g : g = [i \in 0..0 |-> a]
    OBVIOUS
  <2>2. g \in Cuts(<< >>) /\ g[0] = a
    BY <1>1, <2>1 DEF Cuts
  <2>3. Cut(<< >>, g, a, b)
    BY <1>1, <1>2, <2>2 DEF Cut
  <2> QED BY <2>2, <2>3 DEF Chain
<1>3. ASSUME Chain(<< >>, a, b) PROVE a = b
  BY <1>1, <1>3 DEF Chain, Cut
<1> QED BY <1>2, <1>3

LEMMA ChainAppend ==
  ASSUME NEW s \in Seq(Message), NEW a, NEW b \in 0..NBlocks, NEW c \in 0..NBlocks, b <= c,
         Chain(s, a, b)
  PROVE  Chain(Append(s, Block("DATA", Run(b, c))), a, c)
<1>1. PICK x : x = Block("DATA", Run(b, c)) /\ x \in Message
  <2>1. Run(b, c) \in Seq(Nat)
    BY BlocksAssumption, RunSeq
  <2>2. Run(b, c) \in Seq(Items)
    BY <2>1 DEF Items
  <2> QED BY <2>2, CommandsAre
<1>2. PICK t, l : t = Append(s, x) /\ l = Len(s)
  OBVIOUS
<1>3. /\ t \in Seq(Message) /\ l \in Nat /\ Len(t) = l + 1
      /\ \A i \in 1..l : t[i] = s[i]
      /\ t[l + 1] = x
  BY <1>1, <1>2, AppendAt
<1>4. PICK g \in Cuts(s) : Cut(s, g, a, b)
  BY DEF Chain
<1>5. PICK h : h = [i \in 0..(l + 1) |-> IF i = l + 1 THEN c ELSE g[i]]
  OBVIOUS
<1>6. /\ g \in [0..l -> 0..NBlocks] /\ g[0] = a /\ g[l] = b
      /\ \A i \in 1..l : g[i - 1] <= g[i] /\ g[i] <= b
                         /\ s[i] = Block("DATA", Run(g[i - 1], g[i]))
  BY <1>2, <1>4 DEF Cuts, Cut
<1>7. h[l + 1] = c /\ \A i \in 0..l : h[i] = g[i]
  BY <1>3, <1>5
<1>8. h \in Cuts(t)
  BY <1>3, <1>5, <1>6 DEF Cuts
<1>9. ASSUME NEW i \in 1..(l + 1)
      PROVE  h[i - 1] <= h[i] /\ h[i] <= c /\ t[i] = Block("DATA", Run(h[i - 1], h[i]))
  <2>1. CASE i \in 1..l
    <3>1. i - 1 \in 0..l /\ i \in 0..l
      BY <1>3, <2>1
    <3>2. h[i - 1] = g[i - 1] /\ h[i] = g[i] /\ g[i] \in 0..NBlocks
      BY <1>6, <1>7, <3>1
    <3>3. g[i - 1] <= g[i] /\ g[i] <= b /\ s[i] = Block("DATA", Run(g[i - 1], g[i]))
      BY <1>6, <2>1
    <3>4. g[i] <= c
      BY <3>2, <3>3, BlocksAssumption
    <3> QED BY <1>3, <2>1, <3>2, <3>3, <3>4
  <2>2. CASE i = l + 1
    <3>1. i - 1 = l /\ l \in 0..l
      BY <1>3, <2>2
    <3>2. h[i - 1] = b /\ h[i] = c
      BY <1>6, <1>7, <2>2, <3>1
    <3> QED BY <1>1, <1>3, <2>2, <3>2
  <2> QED BY <1>3, <2>1, <2>2
<1>10. h[0] = a
  BY <1>3, <1>6, <1>7
<1>11. Cut(t, h, a, c)
  BY <1>3, <1>7, <1>9, <1>10 DEF Cut
<1> QED BY <1>1, <1>2, <1>8, <1>11 DEF Chain

LEMMA ChainTail ==
  ASSUME NEW s \in Seq(Message), s # << >>, NEW a, NEW b \in 0..NBlocks, Chain(s, a, b)
  PROVE  \E x \in 0..NBlocks :
            /\ a \in 0..NBlocks /\ a <= x /\ x <= b
            /\ Head(s) = Block("DATA", Run(a, x)) /\ Chain(Tail(s), x, b)
<1>1. PICK t, l : t = Tail(s) /\ l = Len(s)
  OBVIOUS
<1>2. /\ t \in Seq(Message) /\ l \in Nat /\ l > 0 /\ Len(t) = l - 1
      /\ Head(s) = s[1]
      /\ \A i \in 1..(l - 1) : t[i] = s[i + 1]
  <2>1. l \in Nat /\ l > 0 /\ Head(s) = s[1]
    BY <1>1, LenProperties, EmptySeq
  <2> QED BY <1>1, <2>1, TailIn
<1>3. PICK g \in Cuts(s) : Cut(s, g, a, b)
  BY DEF Chain
<1>4. /\ g \in [0..l -> 0..NBlocks] /\ g[0] = a /\ g[l] = b
      /\ \A i \in 1..l : g[i - 1] <= g[i] /\ g[i] <= b
                         /\ s[i] = Block("DATA", Run(g[i - 1], g[i]))
  BY <1>1, <1>3 DEF Cuts, Cut
<1>5. PICK x, h : x = g[1] /\ h = [i \in 0..(l - 1) |-> g[i + 1]]
  OBVIOUS
<1>6. 1 \in 1..l /\ 1 - 1 = 0 /\ 0 \in 0..l /\ 1 \in 0..l
  BY <1>2
<1>7. x \in 0..NBlocks /\ a \in 0..NBlocks /\ a <= x /\ x <= b
      /\ Head(s) = Block("DATA", Run(a, x))
  BY <1>2, <1>4, <1>5, <1>6
<1>8. h \in Cuts(t)
  <2>1. \A i \in 0..(l - 1) : i + 1 \in 0..l
    BY <1>2
  <2> QED BY <1>2, <1>4, <1>5, <2>1 DEF Cuts
<1>9. ASSUME NEW i \in 1..(l - 1)
      PROVE  h[i - 1] <= h[i] /\ h[i] <= b /\ t[i] = Block("DATA", Run(h[i - 1], h[i]))
  <2>1. /\ i - 1 \in 0..(l - 1) /\ i \in 0..(l - 1) /\ i + 1 \in 1..l
        /\ (i - 1) + 1 = i /\ (i + 1) - 1 = i
    BY <1>2
  <2>2. h[i - 1] = g[i] /\ h[i] = g[i + 1]
    BY <1>5, <2>1
  <2>3. g[i] <= g[i + 1] /\ g[i + 1] <= b /\ s[i + 1] = Block("DATA", Run(g[i], g[i + 1]))
    BY <1>4, <2>1
  <2> QED BY <1>2, <2>2, <2>3
<1>10. h[0] = x /\ h[Len(t)] = b
  <2>1. 0 \in 0..(l - 1) /\ l - 1 \in 0..(l - 1) /\ 0 + 1 = 1 /\ (l - 1) + 1 = l
    BY <1>2
  <2> QED BY <1>2, <1>4, <1>5, <2>1
<1>11. Cut(t, h, x, b)
  BY <1>2, <1>9, <1>10 DEF Cut
<1> QED BY <1>1, <1>7, <1>8, <1>11 DEF Chain

-----------------------------------------------------------------------------
(* A file is sent *)

Going == {"RETR", "STOR", "closing", "quit"}
Ending == {"pidwait", "done"}

\* n blocks are sent, of which m are in the pipe.  While there are any, the process has
\* its client: it lets go of it only when told to, and that is written after them.
SentPipe(n, m) ==
  /\ parent = "alive" /\ spc # "start"
  /\ Waits(stdin, n, m) /\ m <= n
  /\ dpc \in Going => ~Ended /\ Without(stdin, "QUIT")
  /\ dpc = "RETR" => m = Len(stdin)
  /\ dpc = "RETR" \/ m > 0 => Linked
  /\ Ended => m = 0

\* Of the others the client has k: all of them, unless it has closed.
SentDown(n, m, k) ==
  /\ down[peer] = Run(0, k) /\ k <= n - m
  /\ client[peer] = "open" => k = n - m
  /\ \A c \in Clients \ {peer} : down[c] = << >>

SentFile(n) ==
  /\ dpc # "STOR" /\ file = Run(0, n)
  /\ dpc # "RETR" => n = NBlocks

Retr(n, m, k) == SentPipe(n, m) /\ SentDown(n, m, k) /\ SentFile(n)

RetrInv == \E n, m, k \in 0..NBlocks : Retr(n, m, k)

\* What is read is the oldest of the m blocks, or a command of the shutdown.
LEMMA RetrRead ==
  ASSUME Typed, NEW n \in Nat, NEW m \in Nat, SentPipe(n, m), NEW label, ReadStdin(label),
         UNCHANGED dpc
  PROVE  /\ m > 0 => /\ Head(stdin) = Block("DATA", <<n - m + 1>>) /\ Command = "DATA"
                     /\ Waits(stdin', n, m - 1)
         /\ m = 0 => /\ Command \in {"DISC", "ACKD", "QUIT"} /\ Waits(stdin', n, 0)
                     /\ dpc # "RETR"
         /\ dpc \in Going => Command # "QUIT" /\ Without(stdin', "QUIT")
         /\ dpc = "RETR" => m - 1 = Len(stdin')
<1>1. PICK s \in Seq(Message) : s = stdin
  BY DEF Typed, PipesOK
<1>2. s # << >> /\ stdin' = Tail(s) /\ Len(s) \in Nat /\ Len(Tail(s)) = Len(s) - 1
  <2>1. s # << >> /\ stdin' = Tail(s)
    BY <1>1 DEF ReadStdin
  <2> QED BY <2>1, TailIn, LenProperties
<1>3. /\ m > 0 => Head(s) = Block("DATA", <<n - m + 1>>) /\ Waits(Tail(s), n, m - 1)
      /\ m = 0 => Head(s).cmd \in {"DISC", "ACKD", "QUIT"} /\ Waits(Tail(s), n, 0)
  BY <1>1, <1>2, WaitsTail DEF SentPipe
<1>4. dpc \in Going => Head(s).cmd # "QUIT" /\ Without(Tail(s), "QUIT")
  BY <1>1, <1>2, WithoutTail DEF SentPipe
<1>5. dpc = "RETR" => m = Len(s) /\ m > 0
  <2>1. Len(s) > 0
    BY <1>2, EmptySeq
  <2> QED BY <1>1, <2>1 DEF SentPipe
<1>6. Block("DATA", <<n - m + 1>>).cmd = "DATA"
  BY DEF Block
<1>7. Command = Head(s).cmd /\ Head(stdin) = Head(s) /\ stdin' = Tail(s)
  BY <1>1, <1>2 DEF Command
<1>8. dpc = "RETR" => m - 1 = Len(stdin')
  BY <1>2, <1>5, <1>7
<1>9. m = 0 => dpc # "RETR"
  BY <1>5
<1> QED BY ONLY <1>3, <1>4, <1>6, <1>7, <1>8, <1>9

LEMMA RunOne ==
  ASSUME NEW k \in Nat
  PROVE  Run(0, k) \o <<k + 1>> = Run(0, k + 1)
<1>1. Run(k, k + 1) = <<k + 1>>
  <2>1. Append(Run(k, k), k + 1) = Run(k, k + 1)
    BY RunAppend
  <2>2. Run(k, k) = << >>
    BY RunSeq
  <2> QED BY <2>1, <2>2, AppendNone
<1>2. Run(0, k) \o Run(k, k + 1) = Run(0, k + 1)
  <2>1. 0 \in Nat /\ k + 1 \in Nat /\ 0 <= k /\ k <= k + 1
    OBVIOUS
  <2> QED BY <2>1, RunConcat
<1> QED BY <1>1, <1>2

LEMMA RetrSockfilt ==
  ASSUME Typed, peer \in Clients, NEW n \in Nat, NEW m \in Nat, NEW k \in Nat, Retr(n, m, k),
         SockfiltStep, UNCHANGED <<dpc, transfer, sent>>
  PROVE  \/ Retr(n, m, k)'
         \/ m > 0 /\ Retr(n, m - 1, k)'
         \/ m > 0 /\ k + 1 <= n /\ Retr(n, m - 1, k + 1)'
<1>0. UNCHANGED <<dpc, peer, file, parent, client>> /\ parent = "alive" /\ ~Ended /\ spc # "start"
  <2>1. UNCHANGED <<dpc, peer, file, parent>> /\ parent = "alive" /\ ~Ended /\ spc # "start"
    BY EndedStops DEF transfer, SockfiltStep, Retr, SentPipe
  <2>2. UNCHANGED client
    BY DEF SockfiltStep, Step, Start, StartFails, Select, StdinQuery, StdinQuit, StdinData,
       StdinDataDisconnected, StdinDisc, Accept, AcceptFails, SocketData, SocketEof,
       HandshakeAckd, HandshakeDisc, HandshakeOther, Orphan, Signalled
  <2> QED BY <2>1, <2>2
<1>1. SentPipe(n, m) /\ SentDown(n, m, k) /\ SentFile(n)'
  BY <1>0 DEF Retr, SentFile
<1>2. UNCHANGED down => SentDown(n, m, k)'
  BY <1>0, <1>1 DEF SentDown
<1>3. ASSUME Select \/ Accept \/ AcceptFails \/ SocketData \/ SocketEof
      PROVE  Retr(n, m, k)'
  <2>1. UNCHANGED <<stdin, down>>
    BY <1>3 DEF Select, Accept, AcceptFails, SocketData, SocketEof, pipes, streams
  <2>2. spc' \notin {"start", "ended"}
    <3>1. CASE Select
      BY <3>1 DEF Select
    <3>2. CASE AcceptFails
      BY <3>2, GotoIs DEF AcceptFails
    <3>3. CASE Accept
      BY <1>0, <3>3, WriteGoes DEF Accept
    <3>4. CASE SocketData
      BY <1>0, <3>4, WriteGoes DEF SocketData
    <3>5. CASE SocketEof
      BY <1>0, <3>5, WriteGoes DEF SocketEof
    <3> QED BY <1>3, <3>1, <3>2, <3>3, <3>4, <3>5
  <2>3. Linked => Linked'
    BY <1>0, <1>3 DEF Linked, Select, Accept, AcceptFails, SocketData, SocketEof
  <2>4. SentPipe(n, m)'
    BY <1>0, <1>1, <2>1, <2>2, <2>3 DEF SentPipe, Ended
  <2> QED BY <1>1, <1>2, <2>1, <2>4 DEF Retr
\* A step that takes a DATA block.
<1>4. ASSUME m > 0, Command = "DATA", Waits(stdin', n, m - 1), spc' \notin {"start", "ended"},
             dpc \in Going => Without(stdin', "QUIT"), dpc = "RETR" => m - 1 = Len(stdin'),
             UNCHANGED <<mode, conn>>
      PROVE  SentPipe(n, m - 1)'
  <2>1. Linked'
    BY <1>0, <1>1, <1>4 DEF Linked, SentPipe
  <2>2. m - 1 <= n
    BY <1>1 DEF SentPipe
  <2> QED BY <1>0, <1>4, <2>1, <2>2 DEF SentPipe, Ended
<1>5. ASSUME StdinData
      PROVE  m > 0 /\ (Retr(n, m - 1, k)' \/ (k + 1 <= n /\ Retr(n, m - 1, k + 1)'))
  <2>1. /\ ReadStdin("stdin") /\ Command = "DATA" /\ Goto(AfterStdin)
        /\ UNCHANGED <<mode, conn>>
        /\ down' = IF conn # NoClient /\ client[conn] = "open"
                     THEN [down EXCEPT ![conn] = @ \o Head(stdin).data] ELSE down
    BY <1>5 DEF StdinData
  <2>2. /\ m > 0 /\ Head(stdin).data = <<n - m + 1>> /\ Waits(stdin', n, m - 1)
        /\ dpc \in Going => Without(stdin', "QUIT")
        /\ dpc = "RETR" => m - 1 = Len(stdin')
    BY <1>0, <1>1, <2>1, RetrRead DEF Block
  <2>3. spc' \notin {"start", "ended"}
    BY <2>1, GotoIs DEF AfterStdin
  <2>4. SentPipe(n, m - 1)'
    BY <1>4, <2>1, <2>2, <2>3
  <2>5. conn = peer /\ peer # NoClient
    BY <1>1, <2>2, ClientsAssumption DEF SentPipe, Linked
  <2>6. CASE client[peer] = "open"
    <3>1. k = n - m /\ down[peer] = Run(0, k)
      BY <1>1, <2>6 DEF SentDown
    <3>2. k + 1 = n - m + 1 /\ k + 1 = n - (m - 1) /\ k + 1 <= n
      BY <2>2, <3>1
    <3>3. down' = [down EXCEPT ![peer] = @ \o <<k + 1>>]
      BY <2>1, <2>2, <2>5, <2>6, <3>2
    <3>4. Run(0, k) \o <<k + 1>> = Run(0, k + 1)
      BY RunOne
    <3>5. down'[peer] = Run(0, k + 1) /\ \A c \in Clients \ {peer} : down'[c] = << >>
      BY <1>1, <3>1, <3>3, <3>4 DEF SentDown, Typed, ClientsOK
    <3>6. SentDown(n, m - 1, k + 1)'
      BY <1>0, <3>2, <3>5 DEF SentDown
    <3> QED BY <1>1, <2>2, <2>4, <3>2, <3>6 DEF Retr
  <2>7. CASE client[peer] # "open"
    <3>1. down' = down
      BY <2>1, <2>5, <2>7
    <3>2. k <= n - m => k <= n - (m - 1)
      OBVIOUS
    <3>3. SentDown(n, m - 1, k)'
      BY <1>0, <1>1, <2>7, <3>1, <3>2 DEF SentDown
    <3> QED BY <1>1, <2>2, <2>4, <3>3 DEF Retr
  <2> QED BY <2>6, <2>7
\* The parent's DATA in a handshake: only a client that has closed misses it.
<1>6. ASSUME HandshakeOther, Command = "DATA"
      PROVE  m > 0 /\ Retr(n, m - 1, k)'
  <2>1. /\ ReadStdin("handshake") /\ Goto("handshake") /\ spc = "handshake"
        /\ UNCHANGED <<mode, conn, down>>
    BY <1>6 DEF HandshakeOther, streams, ReadStdin
  <2>2. /\ m > 0 /\ Waits(stdin', n, m - 1)
        /\ dpc \in Going => Without(stdin', "QUIT")
        /\ dpc = "RETR" => m - 1 = Len(stdin')
    BY <1>0, <1>1, <1>6, <2>1, RetrRead DEF Block
  <2>3. SentPipe(n, m - 1)'
    BY <1>4, <1>6, <2>1, <2>2, GotoIs
  <2>4. client[peer] = "closed"
    BY <1>1, <2>1, <2>2 DEF SentPipe, Linked, Typed, ProcessOK
  <2>5. k <= n - m => k <= n - (m - 1)
    OBVIOUS
  <2>6. SentDown(n, m - 1, k)'
    BY <1>0, <1>1, <2>1, <2>4, <2>5 DEF SentDown
  <2> QED BY <1>1, <2>2, <2>3, <2>6 DEF Retr
<1>7. ASSUME StdinDisc \/ HandshakeAckd \/ HandshakeDisc
      PROVE  Retr(n, m, k)'
  <2>1. /\ \E l : ReadStdin(l)
        /\ Command \in {"DISC", "ACKD"} /\ UNCHANGED down
    BY <1>7 DEF StdinDisc, HandshakeAckd, HandshakeDisc, streams
  <2>2. /\ m = 0 /\ Waits(stdin', n, 0) /\ dpc # "RETR"
        /\ dpc \in Going => Without(stdin', "QUIT")
    BY <1>0, <1>1, <2>1, RetrRead DEF Block
  <2>3. spc' \notin {"start", "ended"}
    <3>1. CASE StdinDisc
      BY <1>0, <3>1, WriteGoes DEF StdinDisc
    <3>2. CASE HandshakeDisc
      BY <1>0, <3>2, WriteGoes DEF HandshakeDisc
    <3>3. CASE HandshakeAckd
      BY <3>3, GotoIs DEF HandshakeAckd, AfterStdin
    <3> QED BY <1>7, <3>1, <3>2, <3>3
  <2>4. SentPipe(n, m)'
    BY <1>0, <1>1, <2>2, <2>3 DEF SentPipe, Ended
  <2> QED BY <1>1, <1>2, <2>1, <2>4 DEF Retr
<1>8. ASSUME StdinQuit \/ (HandshakeOther /\ Command # "DATA")
      PROVE  Retr(n, m, k)'
  <2>1. /\ \E l : ReadStdin(l)
        /\ Command # "DATA" /\ UNCHANGED down /\ spc' = "ended"
    BY <1>8, GotoIs DEF StdinQuit, HandshakeOther, streams
  <2>2. Command \in {"DISC", "ACKD"} => ~(StdinQuit \/ HandshakeOther)
    BY DEF StdinQuit, HandshakeOther
  <2>3. /\ m = 0 /\ Waits(stdin', n, 0) /\ dpc # "RETR" /\ dpc \notin Going
    BY <1>0, <1>1, <1>8, <2>1, <2>2, RetrRead DEF Block
  <2>4. SentPipe(n, m)'
    BY <1>0, <1>1, <2>1, <2>3 DEF SentPipe, Ended
  <2> QED BY <1>1, <1>2, <2>1, <2>4 DEF Retr
<1>9. ~StdinQuery /\ ~StdinDataDisconnected
  <2>1. ~StdinQuery
    <3>1. ASSUME StdinQuery PROVE FALSE
      <4>1. ReadStdin("stdin") /\ Command \in {"PING", "PORT"}
        BY <3>1 DEF StdinQuery
      <4> QED BY <1>0, <1>1, <4>1, RetrRead DEF Block
    <3> QED BY <3>1
  <2>2. ~StdinDataDisconnected
    <3>1. ASSUME StdinDataDisconnected PROVE FALSE
      <4>1. ReadStdin("stdin") /\ Command = "DATA" /\ mode = "PASSIVE_LISTEN"
        BY <3>1 DEF StdinDataDisconnected
      <4>2. m > 0
        BY <1>0, <1>1, <4>1, RetrRead DEF Block
      <4> QED BY <1>1, <4>1, <4>2 DEF SentPipe, Linked
    <3> QED BY <3>1
  <2> QED BY <2>1, <2>2
<1>10. ~Start /\ ~StartFails /\ ~Orphan /\ ~Signalled
  BY <1>0 DEF Start, StartFails, Orphan, Signalled, Typed, ProcessOK
<1> QED BY <1>3, <1>5, <1>6, <1>7, <1>8, <1>9, <1>10 DEF SockfiltStep, Step

LEMMA PrintsGoes ==
  ASSUME ~Ended, NEW x, NEW label, PrintTo(x, label)
  PROVE  stdin' = Append(stdin, x) /\ parent' = parent /\ dpc' = label
BY DEF PrintTo, ParentPrints

\* Another command of the shutdown is written.
LEMMA RetrPrints ==
  ASSUME Typed, NEW n, NEW m, SentPipe(n, m), NEW x \in {"DISC", "ACKD", "QUIT"},
         stdin' = Append(stdin, Bare(x)), dpc' \in {"closing", "quit", "pidwait"},
         dpc \in Going, x = "QUIT" => dpc' = "pidwait",
         UNCHANGED <<parent, spc, mode, conn, peer>>
  PROVE  SentPipe(n, m)'
<1>1. PICK s \in Seq(Message) : s = stdin
  BY DEF Typed, PipesOK
<1>2. Waits(Append(s, Bare(x)), n, m)
  BY <1>1, WaitsBare DEF SentPipe
<1>3. dpc' \in Going => Without(Append(s, Bare(x)), "QUIT")
  <2>1. CASE x = "QUIT"
    BY <2>1 DEF Going
  <2>2. CASE x # "QUIT"
    <3>1. Bare(x) \in Message /\ Bare(x).cmd # "QUIT"
      BY <2>2, CommandsAre DEF Bare, Block
    <3>2. Without(s, "QUIT")
      BY <1>1 DEF SentPipe
    <3> QED BY <3>1, <3>2, WithoutAppend
  <2> QED BY <2>1, <2>2
<1>4. Waits(stdin', n, m) /\ (dpc' \in Going => Without(stdin', "QUIT"))
  BY <1>1, <1>2, <1>3
<1>5. parent' = "alive" /\ spc' # "start" /\ ~Ended' /\ dpc' # "RETR" /\ m <= n
  BY DEF SentPipe, Ended
<1>6. m > 0 => Linked'
  BY DEF SentPipe, Linked
<1> QED BY <1>4, <1>5, <1>6 DEF SentPipe

LEMMA RetrHarness ==
  ASSUME Typed, peer \in Clients, NEW n \in 0..NBlocks, NEW m \in 0..NBlocks,
         NEW k \in 0..NBlocks, Retr(n, m, k), Harness, dpc \in Going \cup Ending
  PROVE  /\ UNCHANGED <<command, peer>> /\ dpc' \in Going \cup Ending
         /\ \/ Retr(n, m, k)'
            \/ n < NBlocks /\ m < NBlocks /\ Retr(n + 1, m + 1, k)'
<1>0. /\ SentPipe(n, m) /\ SentDown(n, m, k) /\ SentFile(n) /\ dpc # "STOR"
      /\ n \in Nat /\ m \in Nat /\ k \in Nat
  BY BlocksAssumption DEF Retr, SentFile
<1>1. RetrSend \/ RetrClose \/ Closing \/ Quit \/ PidWait
  BY <1>0 DEF Going, Ending, Harness, StartPing, Pong, NoPong, AwaitPort, AwaitConnect,
     ConnectTimeout, Begin, Abandon, StorData, StorDisc, SysRead
<1>2. /\ UNCHANGED <<spc, mode, conn, client, down, command, peer>>
      /\ dpc' \in Going \cup Ending
  BY <1>1 DEF RetrSend, RetrClose, Closing, Quit, PidWait, PrintTo, Going, Ending,
     process, streams, transfer, sockfiltVars
<1>3. CASE RetrSend
  <2>1. /\ dpc = "RETR" /\ Len(file) < NBlocks
        /\ PrintTo(Block("DATA", <<Len(file) + 1>>), "RETR")
        /\ file' = Append(file, Len(file) + 1)
    BY <1>3 DEF RetrSend
  <2>2. file = Run(0, n) /\ Len(file) = n
    BY <1>0, RunSeq DEF SentFile
  <2>3. m = Len(stdin) /\ ~Ended /\ Without(stdin, "QUIT") /\ Linked /\ Waits(stdin, n, m)
    BY <1>0, <2>1 DEF SentPipe, Going
  <2>4. /\ stdin' = Append(stdin, Block("DATA", <<n + 1>>)) /\ parent' = parent
        /\ dpc' = "RETR"
    BY <2>1, <2>2, <2>3, PrintsGoes
  <2>5. /\ Waits(stdin', n + 1, m + 1) /\ Without(stdin', "QUIT") /\ Len(stdin') = m + 1
    <3>1. PICK s \in Seq(Message) : s = stdin
      BY DEF Typed, PipesOK
    <3>2. PICK x : x = Block("DATA", <<n + 1>>)
      OBVIOUS
    <3>3. x \in Message /\ x.cmd # "QUIT"
      <4>1. n + 1 \in Items
        BY <1>0 DEF Items
      <4> QED BY <3>2, <4>1, CommandsAre DEF Block
    <3>4. Waits(Append(s, x), n + 1, Len(s) + 1)
      <4>1. n \in Nat /\ Waits(s, n, Len(s))
        BY <1>0, <2>3, <3>1
      <4> QED BY <3>2, <4>1, WaitsData
    <3>5. Without(Append(s, x), "QUIT")
      BY <2>3, <3>1, <3>3, WithoutAppend
    <3>6. Len(Append(s, x)) = Len(s) + 1
      BY <3>3, AppendAt
    <3> QED BY <2>3, <2>4, <3>1, <3>2, <3>4, <3>5, <3>6
  <2>6. Linked' /\ ~Ended' /\ parent' = "alive" /\ spc' # "start" /\ m <= n
    BY <1>0, <1>2, <2>3, <2>4 DEF Linked, Ended, SentPipe
  <2>7. m + 1 <= n + 1 /\ n < NBlocks /\ m < NBlocks /\ n - m = (n + 1) - (m + 1)
    BY <1>0, <2>1, <2>2, <2>6, BlocksAssumption
  <2>8. SentPipe(n + 1, m + 1)'
    BY <2>4, <2>5, <2>6, <2>7 DEF SentPipe
  <2>9. SentDown(n + 1, m + 1, k)'
    BY <1>0, <1>2, <2>7 DEF SentDown
  <2>10. file' = Run(0, n + 1)
    <3>1. 0 \in Nat /\ 0 <= n
      BY <1>0
    <3> QED BY <1>0, <2>1, <2>2, <3>1, RunAppend
  <2>11. SentFile(n + 1)'
    BY <2>4, <2>10 DEF SentFile
  <2> QED BY <1>2, <2>7, <2>8, <2>9, <2>11 DEF Retr
<1>4. ASSUME ~RetrSend
      PROVE  file' = file /\ dpc' \in {"closing", "quit", "pidwait", "done"} /\ n = NBlocks
             /\ SentDown(n, m, k)' /\ SentFile(n)'
  <2>1. file' = file /\ dpc' \in {"closing", "quit", "pidwait", "done"}
    BY <1>1, <1>4 DEF RetrClose, Closing, Quit, PidWait, PrintTo, transfer
  <2>2. n = NBlocks
    <3>1. CASE RetrClose
      <4>1. Len(file) = NBlocks
        BY <3>1 DEF RetrClose
      <4>2. Len(file) = n
        BY <1>0, RunSeq DEF SentFile
      <4> QED BY <4>1, <4>2
    <3>2. CASE ~RetrClose
      <4>1. dpc # "RETR"
        BY <1>1, <1>4, <3>2 DEF Closing, Quit, PidWait, SysRead
      <4> QED BY <1>0, <4>1 DEF SentFile
    <3> QED BY <3>1, <3>2
  <2>3. SentDown(n, m, k)'
    BY <1>0, <1>2 DEF SentDown
  <2>4. SentFile(n)'
    BY <1>0, <2>1, <2>2 DEF SentFile
  <2> QED BY <2>1, <2>2, <2>3, <2>4
<1>5. ASSUME NEW x \in {"DISC", "ACKD", "QUIT"}, NEW l \in {"closing", "quit", "pidwait"},
             PrintTo(Bare(x), l), dpc \in Going, x = "QUIT" => l = "pidwait", ~RetrSend
      PROVE  Retr(n, m, k)'
  <2>1. ~Ended
    BY <1>0, <1>5 DEF SentPipe
  <2>2. stdin' = Append(stdin, Bare(x)) /\ parent' = parent /\ dpc' = l
    BY <1>5, <2>1, PrintsGoes
  <2>3. SentPipe(n, m)'
    BY <1>0, <1>2, <1>5, <2>2, RetrPrints
  <2> QED BY <1>4, <1>5, <2>3 DEF Retr
<1>6. ASSUME UNCHANGED <<stdin, parent>>, ~RetrSend, dpc # "RETR",
             dpc' \in Going => dpc \in Going
      PROVE  Retr(n, m, k)'
  <2>1. Linked => Linked'
    BY <1>2 DEF Linked
  <2>2. dpc' # "RETR"
    BY <1>4, <1>6
  <2>3. SentPipe(n, m)'
    BY <1>0, <1>2, <1>6, <2>1, <2>2 DEF SentPipe, Ended
  <2> QED BY <1>4, <1>6, <2>3 DEF Retr
<1>7. CASE RetrClose
  <2>1. dpc \in Going /\ PrintTo(Bare("DISC"), "closing") /\ ~RetrSend
    BY <1>7 DEF RetrClose, RetrSend, Going
  <2> QED BY <1>2, <1>5, <2>1
<1>8. CASE Closing
  <2>1. dpc = "closing" /\ ~RetrSend /\ dpc \in Going
    BY <1>8 DEF Closing, SysRead, RetrSend, Going
  <2>2. CASE Read = "DISC"
    <3>1. PrintTo(Bare("ACKD"), "closing")
      BY <1>8, <2>2 DEF Closing
    <3> QED BY <1>2, <1>5, <2>1, <3>1
  <2>3. CASE Read # "DISC"
    <3>1. UNCHANGED <<stdin, parent>>
      BY <1>8, <2>3 DEF Closing
    <3> QED BY <1>2, <1>6, <2>1, <3>1
  <2> QED BY <2>2, <2>3
<1>9. CASE Quit
  <2>1. dpc \in Going /\ PrintTo(Bare("QUIT"), "pidwait") /\ ~RetrSend
    BY <1>9 DEF Quit, RetrSend, Going
  <2> QED BY <1>2, <1>5, <2>1
<1>10. CASE PidWait
  <2>1. dpc = "pidwait" /\ dpc' = "done" /\ UNCHANGED <<stdin, parent>> /\ ~RetrSend
    BY <1>10 DEF PidWait, RetrSend, sockfiltVars, pipes
  <2>2. dpc' \notin Going
    BY <2>1 DEF Going
  <2> QED BY <1>2, <1>6, <2>1, <2>2
<1> QED BY <1>1, <1>3, <1>7, <1>8, <1>9, <1>10

LEMMA RetrClient ==
  ASSUME Typed, peer \in Clients, command = "RETR", NEW n, NEW m, NEW k, Retr(n, m, k), ClientStep
  PROVE  Retr(n, m, k)' /\ UNCHANGED <<dpc, command, peer>>
<1> USE DEF process, transfer, streams, pipes
<1>1. PICK c \in Clients : Hangs(c) \/ (Connect(c) /\ UNCHANGED <<dpc, transfer, sent>>)
  BY DEF ClientStep, Send
<1>2. /\ UNCHANGED <<spc, mode, conn, stdin, parent, down, dpc, command, file, peer>>
      /\ \/ client[c] = "open" /\ client' = [client EXCEPT ![c] = "closed"]
         \/ client[c] = "new" /\ client' = [client EXCEPT ![c] = "open"]
  BY <1>1 DEF Hangs, Close, Connect
<1>3. client'[peer] = "open" => client[peer] = "open"
  BY <1>2 DEF Typed, ClientsOK, HarnessOK
<1>4. SentPipe(n, m)'
  BY <1>2 DEF Retr, SentPipe, Linked, Ended
<1>5. SentDown(n, m, k)' /\ SentFile(n)'
  BY <1>2, <1>3 DEF Retr, SentDown, SentFile
<1> QED BY <1>2, <1>4, <1>5 DEF Retr

-----------------------------------------------------------------------------
(* A file is stored *)

LEMMA ChainGrows ==
  ASSUME NEW s \in Seq(Message), NEW a, NEW b \in 0..NBlocks, Chain(s, a, b)
  PROVE  a \in 0..NBlocks /\ a <= b
<1>1. CASE s = << >>
  <2>1. PICK g \in Cuts(s) : Cut(s, g, a, b)
    BY DEF Chain
  <2>2. Len(s) = 0
    BY <1>1, Nothing
  <2> QED BY <2>1, <2>2, BlocksAssumption DEF Cut
<1>2. CASE s # << >>
  <2>1. \E x \in 0..NBlocks : a \in 0..NBlocks /\ a <= x /\ x <= b
    BY <1>2, ChainTail
  <2> QED BY <2>1, BlocksAssumption
<1> QED BY <1>1, <1>2

\* n blocks are stored, those up to r are on their way through stdout, and the socket
\* has the rest of what the client has sent; DISC comes after the last of them.
Storing(n, r, s) ==
  /\ dpc = "STOR" /\ Runs /\ spc # "start" /\ stdin = << >> /\ Linked
  /\ file = Run(0, n) /\ Chain(s, n, r)
  /\ up[peer] = Run(r, sent[peer]) /\ r <= sent[peer]
  /\ \/ stdout = s /\ spc # "handshake"
     \/ stdout = Append(s, Bare("DISC")) /\ spc = "handshake" /\ r = sent[peer]

\* The server ends the upload only for storeresp; else the client has.
Stored(n) ==
  /\ dpc \in {"closing", "quit", "pidwait", "done"}
  /\ file = Run(0, n) /\ n <= sent[peer]
  /\ Without(stdin, "DATA")
  /\ ~storeresp => dpc # "closing" /\ n = sent[peer] /\ client[peer] = "closed"

StorInv ==
  /\ \A c \in Clients : down[c] = << >>
  /\ \/ \E n, r \in 0..NBlocks, s \in Seq(Message) : Storing(n, r, s)
     \/ \E n \in 0..NBlocks : Stored(n)

LEMMA StoringSockfilt ==
  ASSUME Typed, peer \in Clients, NEW n \in 0..NBlocks, NEW r \in 0..NBlocks,
         NEW s \in Seq(Message), Storing(n, r, s), SockfiltStep,
         UNCHANGED <<dpc, transfer, sent>>
  PROVE  /\ down' = down
         /\ \E r1 \in 0..NBlocks, s1 \in Seq(Message) : Storing(n, r1, s1)'
<1>0. UNCHANGED <<dpc, peer, file, parent, sent>> /\ parent = "alive" /\ ~Ended /\ spc # "start"
      /\ stdin = << >> /\ Linked
  BY DEF transfer, SockfiltStep, Storing, Runs
<1>1. Select \/ SocketData \/ SocketEof
  <2>1. SocketStep
    BY <1>0, IdleStep
  <2>2. ~Start /\ ~StartFails /\ ~Accept /\ ~AcceptFails
    BY <1>0 DEF Start, StartFails, Accept, AcceptFails, Linked
  <2> QED BY <2>1, <2>2 DEF SocketStep
<1>2. UNCHANGED <<mode, conn, stdin, down>> /\ spc # "handshake" /\ stdout = s
      /\ spc' \notin {"start", "ended"}
  <2>1. UNCHANGED <<mode, conn, stdin, down>> /\ spc # "handshake"
    BY <1>1 DEF Select, SocketData, SocketEof, AtSocket, pipes, streams
  <2>2. spc' \notin {"start", "ended"}
    <3>1. CASE Select
      BY <3>1 DEF Select
    <3>2. CASE SocketData
      BY <1>0, <3>2, WriteGoes DEF SocketData
    <3>3. CASE SocketEof
      BY <1>0, <3>3, WriteGoes DEF SocketEof
    <3> QED BY <1>1, <3>1, <3>2, <3>3
  <2> QED BY <2>1, <2>2 DEF Storing
<1>3. Runs' /\ Linked' /\ stdin' = << >>
  BY <1>0, <1>2 DEF Runs, Linked, Ended
<1>4. /\ file' = Run(0, n) /\ Chain(s, n, r) /\ dpc' = "STOR" /\ spc' # "start"
      /\ up[peer] = Run(r, sent[peer]) /\ r <= sent[peer] /\ sent[peer] \in 0..NBlocks
  BY <1>0, <1>2 DEF Storing, Typed, HarnessOK
<1>5. CASE Select
  <2>1. UNCHANGED <<stdout, up>> /\ spc' # "handshake"
    BY <1>5 DEF Select, pipes, streams
  <2>2. Storing(n, r, s)'
    BY <1>0, <1>2, <1>3, <1>4, <2>1 DEF Storing
  <2> QED BY <1>2, <2>2
<1>6. CASE SocketData
  <2>1. conn = peer
    BY <1>0 DEF Linked
  <2>2. PICK i \in 1..Len(up[peer]) :
          /\ WriteStdout(Block("DATA", SubSeq(up[peer], 1, i)), "juggle")
          /\ up' = [up EXCEPT ![peer] = SubSeq(@, i + 1, Len(@))]
    BY <1>6, <2>1 DEF SocketData
  <2>3. PICK a \in Nat, b \in Nat, c \in Nat : a = r /\ b = sent[peer] /\ c = r + i
    <3>1. Len(up[peer]) \in Nat
      BY LenProperties DEF Typed, ClientsOK
    <3> QED BY <1>4, <3>1, BlocksAssumption
  <2>4. a <= b /\ up[peer] = Run(a, b) /\ Len(up[peer]) = b - a /\ c <= b /\ a <= c /\ i \in Nat
    <3>1. a <= b /\ up[peer] = Run(a, b)
      BY <1>4, <2>3
    <3>2. Len(up[peer]) = b - a
      BY <3>1, RunSeq
    <3> QED BY <2>2, <2>3, <3>1, <3>2
  <2>5. SubSeq(up[peer], 1, i) = Run(a, c) /\ SubSeq(up[peer], i + 1, Len(up[peer])) = Run(c, b)
    <3>1. 1 \in 1..(b - a + 1) /\ i \in (1 - 1)..(b - a)
          /\ i + 1 \in 1..(b - a + 1) /\ b - a \in ((i + 1) - 1)..(b - a)
      BY <2>2, <2>4
    <3>2. SubSeq(Run(a, b), 1, i) = Run(a + 1 - 1, a + i)
      BY <2>4, <3>1, RunSubSeq
    <3>3. SubSeq(Run(a, b), i + 1, b - a) = Run(a + (i + 1) - 1, a + (b - a))
      <4>1. PICK j, d : j = i + 1 /\ d = b - a
        OBVIOUS
      <4>2. SubSeq(Run(a, b), j, d) = Run(a + j - 1, a + d)
        BY <2>4, <3>1, <4>1, RunSubSeq
      <4> QED BY <4>1, <4>2
    <3>4. a + 1 - 1 = a /\ a + i = c /\ a + (i + 1) - 1 = c /\ a + (b - a) = b
      BY <2>3, <2>4
    <3> QED BY <2>4, <3>2, <3>3, <3>4
  <2>6. stdout' = Append(s, Block("DATA", Run(a, c))) /\ spc' = "juggle"
    BY <1>0, <1>2, <2>2, <2>5, WriteGoes
  <2>7. c \in 0..NBlocks /\ a \in 0..NBlocks
    BY <1>4, <2>3, <2>4, BlocksAssumption
  <2>8. PICK t : t = Append(s, Block("DATA", Run(a, c)))
    OBVIOUS
  <2>9. Chain(t, n, c)
    BY <1>4, <2>3, <2>4, <2>7, <2>8, ChainAppend
  <2>10. t \in Seq(Message)
    <3>1. Run(a, c) \in Seq(Nat)
      BY <2>4, RunSeq
    <3>2. Run(a, c) \in Seq(Items)
      BY <3>1 DEF Items
    <3> QED BY <2>8, <3>2, CommandsAre, AppendedIn
  <2>11. up'[peer] = Run(c, b) /\ c <= sent'[peer] /\ sent'[peer] = b
    BY <1>0, <2>2, <2>3, <2>4, <2>5 DEF Typed, ClientsOK
  <2>12. Storing(n, c, t)'
    BY <1>0, <1>3, <1>4, <2>6, <2>8, <2>9, <2>11 DEF Storing
  <2> QED BY <1>2, <2>7, <2>10, <2>12
<1>7. CASE SocketEof
  <2>1. /\ WriteStdout(Bare("DISC"), "handshake") /\ up[peer] = << >>
        /\ UNCHANGED <<up, down>>
    BY <1>0, <1>7 DEF SocketEof, Linked, streams
  <2>2. stdout' = Append(s, Bare("DISC")) /\ spc' = "handshake"
    BY <1>0, <1>2, <2>1, WriteGoes
  <2>3. r = sent[peer]
    <3>1. PICK a \in Nat, b \in Nat : a = r /\ b = sent[peer]
      BY <1>4, BlocksAssumption
    <3>2. a <= b /\ Run(a, b) = << >>
      BY <1>4, <2>1, <3>1
    <3>3. Len(Run(a, b)) = b - a
      BY <3>2, RunSeq
    <3>4. b - a = 0
      BY <3>2, <3>3, Nothing
    <3> QED BY <3>1, <3>2, <3>4
  <2>4. Storing(n, r, s)'
    BY <1>0, <1>2, <1>3, <1>4, <2>1, <2>2, <2>3 DEF Storing
  <2> QED BY <1>2, <2>4
<1> QED BY <1>1, <1>5, <1>6, <1>7

LEMMA StoredSockfilt ==
  ASSUME Typed, NEW n, Stored(n), SockfiltStep, UNCHANGED <<dpc, transfer, sent>>
  PROVE  down' = down /\ Stored(n)'
<1>0. UNCHANGED <<dpc, file, peer, sent, storeresp>> /\ stdin \in Seq(Message)
  BY DEF transfer, Typed, PipesOK
<1>1. UNCHANGED client
  BY DEF SockfiltStep, Step, Start, StartFails, Select, StdinQuery, StdinQuit, StdinData,
     StdinDataDisconnected, StdinDisc, Accept, AcceptFails, SocketData, SocketEof,
     HandshakeAckd, HandshakeDisc, HandshakeOther, Orphan, Signalled
<1>2. UNCHANGED stdin \/ (stdin # << >> /\ stdin' = Tail(stdin))
  BY DEF SockfiltStep, Step, Start, StartFails, Select, StdinQuery, StdinQuit, StdinData,
     StdinDataDisconnected, StdinDisc, Accept, AcceptFails, SocketData, SocketEof,
     HandshakeAckd, HandshakeDisc, HandshakeOther, Orphan, Signalled, ReadStdin, pipes
<1>3. Without(stdin', "DATA")
  <2>1. PICK s \in Seq(Message) : s = stdin /\ Without(s, "DATA")
    BY <1>0 DEF Stored
  <2>2. s # << >> => Without(Tail(s), "DATA")
    BY <2>1, WithoutTail
  <2> QED BY <1>2, <2>1, <2>2
<1>4. ~StdinData
  <2>1. PICK s \in Seq(Message) : s = stdin /\ Without(s, "DATA")
    BY <1>0 DEF Stored
  <2>2. s # << >> => Head(s).cmd # "DATA"
    BY <2>1, WithoutTail
  <2> QED BY <2>1, <2>2 DEF StdinData, ReadStdin, Command
<1>5. down' = down
  BY <1>4 DEF SockfiltStep, Step, Start, StartFails, Select, StdinQuery, StdinQuit,
     StdinDataDisconnected, StdinDisc, Accept, AcceptFails, SocketData, SocketEof,
     HandshakeAckd, HandshakeDisc, HandshakeOther, Orphan, Signalled, streams
<1> QED BY <1>0, <1>1, <1>3, <1>5 DEF Stored

LEMMA StoringHarness ==
  ASSUME Typed, peer \in Clients, NEW n \in 0..NBlocks, NEW r \in 0..NBlocks,
         NEW s \in Seq(Message), Storing(n, r, s), Harness
  PROVE  /\ UNCHANGED <<command, peer, down>>
         /\ \/ \E n1 \in 0..NBlocks, s1 \in Seq(Message) : Storing(n1, r, s1)'
            \/ \E n1 \in 0..NBlocks : Stored(n1)'
<1>0. /\ dpc = "STOR" /\ Runs /\ spc # "start" /\ stdin = << >> /\ Linked /\ file = Run(0, n)
      /\ Chain(s, n, r) /\ up[peer] = Run(r, sent[peer]) /\ r <= sent[peer]
      /\ sent[peer] \in 0..NBlocks
  BY DEF Storing, Typed, HarnessOK
<1>1. StorData \/ StorDisc
  BY <1>0 DEF Harness, StartPing, Pong, NoPong, AwaitPort, AwaitConnect,
     ConnectTimeout, Begin, Abandon, RetrSend, RetrClose, Closing, Quit, PidWait, SysRead
<1>2. /\ UNCHANGED <<spc, mode, conn, client, up, down, command, storeresp, peer, sent>>
      /\ stdout # << >> /\ stdout' = Tail(stdout)
  BY <1>1 DEF StorData, StorDisc, SysRead, ParentReads, process, streams, transfer
<1>3. Bare("DISC") \in Message /\ Bare("DISC").cmd = "DISC"
  BY CommandsAre DEF Bare, Block
<1>4. CASE StorData
  <2>1. /\ Head(stdout).cmd = "DATA" /\ file' = file \o Head(stdout).data
        /\ IF storeresp THEN PrintTo(Bare("DISC"), "closing")
                        ELSE UNCHANGED <<dpc, stdin, parent>>
    BY <1>4 DEF StorData, Read
  <2>2. s # << >>
    <3>1. ASSUME s = << >> PROVE FALSE
      <4>1. stdout = <<Bare("DISC")>>
        BY <1>2, <3>1, AppendNone DEF Storing
      <4> QED BY <1>3, <2>1, <4>1, HeadOne
    <3> QED BY <3>1
  <2>3. PICK x \in 0..NBlocks : /\ n <= x /\ x <= r
                                /\ Head(s) = Block("DATA", Run(n, x)) /\ Chain(Tail(s), x, r)
    BY <1>0, <2>2, ChainTail
  <2>4. PICK t \in Seq(Message) : t = Tail(s)
    BY <2>2, TailIn
  <2>5. /\ Head(stdout) = Head(s)
        /\ \/ stdout' = t /\ spc # "handshake"
           \/ stdout' = Append(t, Bare("DISC")) /\ spc = "handshake" /\ r = sent[peer]
    <3>1. CASE stdout = s /\ spc # "handshake"
      BY <1>2, <2>4, <3>1
    <3>2. CASE stdout = Append(s, Bare("DISC")) /\ spc = "handshake" /\ r = sent[peer]
      BY <1>2, <1>3, <2>2, <2>4, <3>2, TailGrows
    <3> QED BY <3>1, <3>2 DEF Storing
  <2>6. file' = Run(0, x)
    <3>1. Head(stdout).data = Run(n, x)
      BY <2>3, <2>5 DEF Block
    <3>2. 0 \in Nat /\ n \in Nat /\ x \in Nat /\ 0 <= n /\ n <= x
      BY <2>3, BlocksAssumption
    <3>3. Run(0, n) \o Run(n, x) = Run(0, x)
      BY <3>2, RunConcat
    <3> QED BY <1>0, <2>1, <3>1, <3>3
  <2>7. CASE ~storeresp
    <3>1. UNCHANGED <<dpc, stdin, parent>>
      BY <2>1, <2>7
    <3>2. Linked' /\ Runs'
      BY <1>0, <1>2, <3>1 DEF Linked, Runs, Ended
    <3>3. Chain(t, x, r)
      BY <2>3, <2>4
    <3>4. Storing(x, r, t)'
      BY <1>0, <1>2, <2>5, <2>6, <3>1, <3>2, <3>3 DEF Storing
    <3> QED BY <1>2, <3>4
  <2>8. CASE storeresp
    <3>1. PrintTo(Bare("DISC"), "closing")
      BY <2>1, <2>8
    <3>2. stdin' = <<Bare("DISC")>> /\ dpc' = "closing"
      BY <1>0, <3>1, PrintsGoes, AppendNone DEF Runs
    <3>3. Without(<<Bare("DISC")>>, "DATA")
      BY <1>3 DEF Without
    <3>4. x <= sent[peer]
      BY <1>0, <2>3, BlocksAssumption
    <3>5. Stored(x)'
      BY <1>2, <2>6, <2>8, <3>2, <3>3, <3>4 DEF Stored
    <3> QED BY <1>2, <3>5
  <2> QED BY <2>7, <2>8
<1>5. CASE StorDisc
  <2>1. Head(stdout).cmd = "DISC" /\ PrintTo(Bare("ACKD"), "quit") /\ file' = file
    BY <1>5 DEF StorDisc, Read, transfer
  <2>2. s = << >>
    <3>1. ASSUME s # << >> PROVE FALSE
      <4>1. Head(s).cmd = "DATA"
        <5>1. \E x \in 0..NBlocks : Head(s) = Block("DATA", Run(n, x))
          BY <1>0, <3>1, ChainTail
        <5> QED BY <5>1 DEF Block
      <4>2. Head(stdout) = Head(s)
        BY <1>3, <3>1, TailGrows DEF Storing
      <4> QED BY <2>1, <4>1, <4>2
    <3> QED BY <3>1
  <2>3. spc = "handshake" /\ r = sent[peer]
    BY <1>2, <2>2 DEF Storing
  <2>4. n = r
    BY <1>0, <2>2, ChainNone
  <2>5. client[peer] = "closed"
    BY <1>0, <2>3 DEF Linked, Typed, ProcessOK
  <2>6. stdin' = <<Bare("ACKD")>> /\ dpc' = "quit"
    BY <1>0, <2>1, PrintsGoes, AppendNone DEF Runs
  <2>7. Without(<<Bare("ACKD")>>, "DATA")
    <3>1. Bare("ACKD").cmd = "ACKD"
      BY DEF Bare, Block
    <3> QED BY <3>1 DEF Without
  <2>8. Stored(n)'
    BY <1>0, <1>2, <2>1, <2>3, <2>4, <2>5, <2>6, <2>7 DEF Stored
  <2> QED BY <1>2, <2>8
<1> QED BY <1>1, <1>4, <1>5

LEMMA StoredHarness ==
  ASSUME Typed, NEW n, Stored(n), Harness
  PROVE  UNCHANGED <<command, peer, down>> /\ Stored(n)'
<1>1. Closing \/ Quit \/ PidWait
  BY DEF Stored, Harness, StartPing, Pong, NoPong, AwaitPort, AwaitConnect,
     ConnectTimeout, Begin, Abandon, RetrSend, RetrClose, StorData, StorDisc, SysRead
<1>2. /\ UNCHANGED <<client, down, command, storeresp, file, peer, sent>>
      /\ dpc' \in {"closing", "quit", "pidwait", "done"}
      /\ dpc' = "closing" => dpc = "closing"
      /\ \/ UNCHANGED stdin
         \/ \E x \in {"ACKD", "QUIT"} : ParentPrints(Bare(x))
  BY <1>1 DEF Closing, Quit, PidWait, PrintTo, SysRead, streams, transfer, sockfiltVars, pipes
<1>3. Without(stdin', "DATA")
  <2>1. PICK s \in Seq(Message) : s = stdin /\ Without(s, "DATA")
    BY DEF Stored, Typed, PipesOK
  <2>2. ASSUME NEW x \in {"ACKD", "QUIT"} PROVE Without(Append(s, Bare(x)), "DATA")
    <3>1. Bare(x) \in Message /\ Bare(x).cmd # "DATA"
      BY CommandsAre DEF Bare, Block
    <3> QED BY <2>1, <3>1, WithoutAppend
  <2> QED BY <1>2, <2>1, <2>2 DEF ParentPrints
<1> QED BY <1>2, <1>3 DEF Stored

LEMMA StorClient ==
  ASSUME Typed, peer \in Clients, ClientStep
  PROVE  /\ UNCHANGED <<dpc, command, peer, down>>
         /\ \A n, r \in 0..NBlocks, s \in Seq(Message) :
               Storing(n, r, s) => Storing(n, r, s)'
         /\ \A n \in 0..NBlocks : Stored(n) => Stored(n)'
<1> USE DEF process, transfer, streams, pipes
<1>1. ASSUME NEW c \in Clients, Send(c)
      PROVE  /\ UNCHANGED <<spc, mode, conn, stdin, stdout, parent, client, down, dpc, command,
                            storeresp, file, peer>>
             /\ client[c] = "open"
             /\ sent' = [sent EXCEPT ![c] = @ + 1]
             /\ up' = [up EXCEPT ![c] = Append(@, sent[c] + 1)]
  BY <1>1 DEF Send
<1>2. ASSUME NEW c \in Clients, Hangs(c) \/ (Connect(c) /\ UNCHANGED <<dpc, transfer, sent>>)
      PROVE  /\ UNCHANGED <<spc, mode, conn, stdin, stdout, parent, up, down, dpc, command,
                            storeresp, file, peer, sent>>
             /\ \/ client[c] = "open" /\ client' = [client EXCEPT ![c] = "closed"]
                \/ client[c] = "new" /\ client' = [client EXCEPT ![c] = "open"]
  BY <1>2 DEF Hangs, Close, Connect
<1>3. PICK c \in Clients :
        Send(c) \/ Hangs(c) \/ (Connect(c) /\ UNCHANGED <<dpc, transfer, sent>>)
  BY DEF ClientStep
<1>4. UNCHANGED <<dpc, command, peer, down>>
  BY <1>1, <1>2, <1>3
<1>5. client[peer] = "closed" => client'[peer] = "closed"
  BY <1>1, <1>2, <1>3 DEF Typed, ClientsOK
<1>6. sent \in [Clients -> 0..NBlocks] /\ sent[peer] \in Nat
  BY BlocksAssumption DEF Typed, HarnessOK
<1>7. ASSUME NEW n \in 0..NBlocks, NEW r \in 0..NBlocks, NEW s \in Seq(Message),
             Storing(n, r, s)
      PROVE  Storing(n, r, s)'
  <2>1. UNCHANGED <<spc, mode, conn, stdin, stdout, parent, dpc, file, peer>>
    BY <1>1, <1>2, <1>3
  <2>2. Runs' /\ Linked'
    BY <1>7, <2>1 DEF Storing, Runs, Linked, Ended
  <2>3. CASE UNCHANGED <<up, sent>> \/ (Send(c) /\ c # peer)
    <3>1. up'[peer] = up[peer] /\ sent'[peer] = sent[peer]
      BY <1>1, <1>6, <2>3 DEF Typed, ClientsOK
    <3> QED BY <1>7, <2>1, <2>2, <3>1 DEF Storing
  <2>4. CASE Send(c) /\ c = peer
    <3>1. spc # "handshake"
      BY <1>1, <1>7, <2>4 DEF Storing, Linked, Typed, ProcessOK
    <3>2. up'[peer] = Append(up[peer], sent[peer] + 1) /\ sent'[peer] = sent[peer] + 1
      BY <1>1, <1>6, <2>4 DEF Typed, ClientsOK
    <3>3. PICK a \in Nat, b \in Nat : a = r /\ b = sent[peer] /\ a <= b
      <4>1. r \in Nat /\ sent[peer] \in Nat /\ r <= sent[peer]
        BY <1>6, <1>7, BlocksAssumption DEF Storing
      <4> QED BY ONLY <4>1
    <3>4. up[peer] = Run(a, b) /\ Append(Run(a, b), b + 1) = Run(a, b + 1)
      BY <1>7, <3>3, RunAppend DEF Storing
    <3>5. up'[peer] = Run(r, sent'[peer]) /\ r <= sent'[peer]
      BY <3>2, <3>3, <3>4
    <3> QED BY <1>7, <2>1, <2>2, <3>1, <3>5 DEF Storing
  <2> QED BY <1>2, <1>3, <2>3, <2>4
<1>8. ASSUME NEW n \in 0..NBlocks, Stored(n) PROVE Stored(n)'
  <2>1. /\ UNCHANGED <<dpc, file, stdin, storeresp, peer>>
        /\ n <= sent[peer] => n <= sent'[peer]
        /\ client[peer] = "closed" => sent'[peer] = sent[peer]
    <3>1. CASE Send(c)
      <4>1. sent'[peer] = IF c = peer THEN sent[peer] + 1 ELSE sent[peer]
        BY <1>1, <1>6, <3>1
      <4> QED BY <1>1, <1>6, <3>1, <4>1, BlocksAssumption
    <3>2. CASE ~Send(c)
      BY <1>2, <1>3, <3>2
    <3> QED BY <3>1, <3>2
  <2> QED BY <1>5, <1>8, <2>1 DEF Stored
<1> QED BY <1>4, <1>7, <1>8

-----------------------------------------------------------------------------
(* The inductive invariant *)

TransferInv ==
  /\ dpc \in Going \cup Ending =>
       /\ peer \in Clients
       /\ command = "RETR" => RetrInv
       /\ command = "STOR" => StorInv
  /\ dpc = "done" => Ended

IInv == Typed /\ EarlyInv /\ TransferInv

LEMMA RunNone == Run(0, 0) = << >>
BY RunSeq

LEMMA BeginTransfers ==
  ASSUME Typed, EarlyInv, Begin
  PROVE  TransferInv'
<1>1. /\ Quiet /\ AtOpen /\ dpc' = command /\ command \in {"RETR", "STOR"}
      /\ UNCHANGED <<spc, mode, conn, stdin, stdout, parent, client, up, down, command,
                     storeresp, file, peer, sent>>
  BY DEF Begin, EarlyInv, Early, Typed, HarnessOK, sockfiltVars, process, pipes, streams, transfer
<1>2. /\ file = << >> /\ stdin = << >> /\ Linked /\ Runs /\ spc # "start" /\ Rest(stdout)
      /\ peer \in Clients
      /\ \A c \in Clients : up[c] = << >> /\ down[c] = << >> /\ sent[c] = 0
  BY <1>1 DEF Quiet, AtOpen, Linked
<1>3. 0 \in 0..NBlocks /\ 0 <= 0 /\ 0 - 0 = 0
  BY BlocksAssumption
<1>4. ASSUME command = "RETR" PROVE RetrInv'
  <2>1. Waits(<< >>, 0, 0) /\ Without(<< >>, "QUIT")
    BY Nothing DEF Waits, Without
  <2>2. SentPipe(0, 0)'
    <3>1. Linked' /\ Len(<< >>) = 0
      BY <1>1, <1>2, Nothing DEF Linked
    <3> QED BY <1>1, <1>2, <1>3, <2>1, <3>1 DEF SentPipe, Runs, Ended
  <2>3. SentDown(0, 0, 0)'
    BY <1>1, <1>2, <1>3, RunNone DEF SentDown
  <2>4. SentFile(0)'
    BY <1>1, <1>2, <1>4, RunNone DEF SentFile
  <2> QED BY <1>3, <2>2, <2>3, <2>4 DEF RetrInv, Retr
<1>5. ASSUME command = "STOR" PROVE StorInv'
  <2>1. Chain(<< >>, 0, 0)
    BY <1>3, ChainNone
  <2>2. Runs' /\ Linked'
    BY <1>1, <1>2 DEF Runs, Linked, Ended
  <2>3. \/ stdout = << >> /\ spc # "handshake"
        \/ stdout = Append(<< >>, Bare("DISC")) /\ spc = "handshake"
    BY <1>2, AppendNone DEF Rest
  <2>4. Storing(0, 0, << >>)'
    BY <1>1, <1>2, <1>3, <1>5, <2>1, <2>2, <2>3, RunNone DEF Storing
  <2>5. << >> \in Seq(Message)
    BY Nothing
  <2> QED BY <1>1, <1>2, <1>3, <2>4, <2>5 DEF StorInv
<1> QED BY <1>1, <1>2, <1>4, <1>5 DEF TransferInv

LEMMA SockfiltTransfers ==
  ASSUME Typed, TransferInv, SockfiltStep, UNCHANGED <<dpc, transfer, sent>>
  PROVE  TransferInv'
<1>1. UNCHANGED <<dpc, command, peer>> /\ dpc # "done"
  BY EndedStops DEF transfer, TransferInv
<1>2. ASSUME peer \in Clients, RetrInv PROVE RetrInv'
  <2>1. PICK n \in 0..NBlocks, m \in 0..NBlocks, k \in 0..NBlocks : Retr(n, m, k)
    BY <1>2 DEF RetrInv
  <2>2. n \in Nat /\ m \in Nat /\ k \in Nat
    BY BlocksAssumption
  <2>3. \/ Retr(n, m, k)'
        \/ m > 0 /\ Retr(n, m - 1, k)'
        \/ m > 0 /\ k + 1 <= n /\ Retr(n, m - 1, k + 1)'
    BY <1>2, <2>1, <2>2, RetrSockfilt
  <2>4. /\ m > 0 => m - 1 \in 0..NBlocks
        /\ k + 1 <= n => k + 1 \in 0..NBlocks
    BY BlocksAssumption
  <2> QED BY <2>3, <2>4 DEF RetrInv
<1>3. ASSUME peer \in Clients, StorInv PROVE StorInv'
  <2>1. CASE \E n, r \in 0..NBlocks, s \in Seq(Message) : Storing(n, r, s)
    <3>1. PICK n \in 0..NBlocks, r \in 0..NBlocks, s \in Seq(Message) : Storing(n, r, s)
      BY <2>1
    <3>2. /\ down' = down
          /\ \E r1 \in 0..NBlocks, s1 \in Seq(Message) : Storing(n, r1, s1)'
      BY <1>3, <3>1, StoringSockfilt
    <3> QED BY <1>3, <3>2 DEF StorInv
  <2>2. CASE \E n \in 0..NBlocks : Stored(n)
    <3>1. PICK n \in 0..NBlocks : Stored(n)
      BY <2>2
    <3>2. down' = down /\ Stored(n)'
      BY <3>1, StoredSockfilt
    <3> QED BY <1>3, <3>2 DEF StorInv
  <2> QED BY <1>3, <2>1, <2>2 DEF StorInv
<1> QED BY <1>1, <1>2, <1>3 DEF TransferInv

LEMMA HarnessTransfers ==
  ASSUME Typed, EarlyInv, TransferInv, Harness
  PROVE  TransferInv'
<1>1. CASE dpc \notin Going \cup Ending
  <2>1. CASE Begin
    BY <2>1, BeginTransfers
  <2>2. CASE ~Begin
    <3>1. StartPing \/ Pong \/ NoPong \/ AwaitPort \/ AwaitConnect \/ ConnectTimeout \/ Abandon
      BY <1>1, <2>2 DEF Harness, RetrSend, RetrClose, StorData, StorDisc, Closing, Quit,
                        PidWait, SysRead, Going, Ending
    <3>2. dpc' \in Early
      BY <3>1 DEF StartPing, Pong, NoPong, AwaitPort, AwaitConnect, ConnectTimeout, Abandon,
                  KillSockfilt, PrintTo, Early
    <3> QED BY <3>2 DEF TransferInv, Early, Going, Ending
  <2> QED BY <2>1, <2>2
<1>2. CASE dpc \in Going \cup Ending /\ command = "RETR"
  <2>1. peer \in Clients /\ RetrInv
    BY <1>2 DEF TransferInv
  <2>2. PICK n \in 0..NBlocks, m \in 0..NBlocks, k \in 0..NBlocks : Retr(n, m, k)
    BY <2>1 DEF RetrInv
  <2>3. /\ UNCHANGED <<command, peer>> /\ dpc' \in Going \cup Ending
        /\ \/ Retr(n, m, k)'
           \/ n < NBlocks /\ m < NBlocks /\ Retr(n + 1, m + 1, k)'
    BY <1>2, <2>1, <2>2, RetrHarness
  <2>4. /\ n < NBlocks => n + 1 \in 0..NBlocks
        /\ m < NBlocks => m + 1 \in 0..NBlocks
    BY BlocksAssumption
  <2>5. RetrInv'
    BY <2>3, <2>4 DEF RetrInv
  <2>6. dpc' = "done" => Ended'
    <3>1. dpc # "STOR" /\ dpc \in {"RETR", "STOR", "closing", "quit", "pidwait", "done"}
      BY <1>2, <2>2 DEF Retr, SentFile, Going, Ending
    <3>2. RetrSend \/ RetrClose \/ Closing \/ Quit \/ PidWait
      BY <3>1 DEF Harness, StartPing, Pong, NoPong, AwaitPort, AwaitConnect,
         ConnectTimeout, Begin, Abandon, StorData, StorDisc, SysRead
    <3> QED BY <3>2 DEF RetrSend, RetrClose, Closing, Quit, PidWait, PrintTo, Ended,
               sockfiltVars, process
  <2> QED BY <1>2, <2>1, <2>3, <2>5, <2>6 DEF TransferInv
<1>3. CASE dpc \in Going \cup Ending /\ command = "STOR"
  <2>1. peer \in Clients /\ StorInv
    BY <1>3 DEF TransferInv
  <2>2. UNCHANGED <<command, peer>> /\ StorInv'
    <3>1. CASE \E n, r \in 0..NBlocks, s \in Seq(Message) : Storing(n, r, s)
      <4>1. PICK n \in 0..NBlocks, r \in 0..NBlocks, s \in Seq(Message) : Storing(n, r, s)
        BY <3>1
      <4>2. /\ UNCHANGED <<command, peer, down>>
            /\ \/ \E n1 \in 0..NBlocks, s1 \in Seq(Message) : Storing(n1, r, s1)'
               \/ \E n1 \in 0..NBlocks : Stored(n1)'
        BY <2>1, <4>1, StoringHarness
      <4> QED BY <2>1, <4>2 DEF StorInv
    <3>2. CASE \E n \in 0..NBlocks : Stored(n)
      <4>1. PICK n \in 0..NBlocks : Stored(n)
        BY <3>2
      <4>2. UNCHANGED <<command, peer, down>> /\ Stored(n)'
        BY <4>1, StoredHarness
      <4> QED BY <2>1, <4>2 DEF StorInv
    <3> QED BY <2>1, <3>1, <3>2 DEF StorInv
  <2>3. dpc' = "done" => Ended'
    <3>1. dpc \notin Early
      BY <1>3 DEF Going, Ending, Early
    <3>2. RetrSend \/ RetrClose \/ StorData \/ StorDisc \/ Closing \/ Quit \/ PidWait
      BY <3>1 DEF Harness, StartPing, Pong, NoPong, AwaitPort, AwaitConnect,
         ConnectTimeout, Begin, Abandon, SysRead, Early
    <3>3. dpc # "done"
      BY <3>2 DEF RetrSend, RetrClose, StorData, StorDisc, Closing, Quit, PidWait, SysRead
    <3> QED BY <3>2, <3>3 DEF RetrSend, RetrClose, StorData, StorDisc, Closing, Quit, PidWait,
               PrintTo, Ended, sockfiltVars, process
  <2> QED BY <1>3, <2>1, <2>2, <2>3 DEF TransferInv
<1> QED BY <1>1, <1>2, <1>3 DEF Typed, HarnessOK

LEMMA ClientTransfers ==
  ASSUME Typed, TransferInv, ClientStep
  PROVE  TransferInv'
<1>1. UNCHANGED <<dpc, command, peer, spc, down>>
  BY DEF ClientStep, Send, Hangs, Connect, Close, transfer, process, streams
<1>2. ASSUME peer \in Clients, command = "RETR", RetrInv PROVE RetrInv'
  <2>1. PICK n \in 0..NBlocks, m \in 0..NBlocks, k \in 0..NBlocks : Retr(n, m, k)
    BY <1>2 DEF RetrInv
  <2>2. Retr(n, m, k)'
    BY <1>2, <2>1, RetrClient
  <2> QED BY <2>2 DEF RetrInv
<1>3. ASSUME peer \in Clients, StorInv PROVE StorInv'
  <2>1. /\ \A n, r \in 0..NBlocks, s \in Seq(Message) : Storing(n, r, s) => Storing(n, r, s)'
        /\ \A n \in 0..NBlocks : Stored(n) => Stored(n)'
    BY <1>3, StorClient
  <2> QED BY <1>1, <1>3, <2>1 DEF StorInv
<1> QED BY <1>1, <1>2, <1>3 DEF TransferInv, Ended

LEMMA Stutters == IInv /\ UNCHANGED vars => IInv'
<1> SUFFICES ASSUME IInv, UNCHANGED vars PROVE IInv'
  OBVIOUS
<1>1. UNCHANGED <<spc, mode, conn, ready, got_exit_signal, stdin, stdout, parent, client,
                  backlog, up, down, dpc, command, storeresp, file, peer, sent>>
  BY DEF vars, sockfiltVars, process, pipes, streams, transfer
<1>2. Typed'
  BY <1>1 DEF IInv, Typed, ProcessOK, PipesOK, ClientsOK, HarnessOK
<1>3. EarlyInv'
  BY <1>1 DEF IInv, EarlyInv, Quiet, AtStart, AtPing, AtPort, AtCnct, AtOpen, NoneYet, Rest,
              Linked, Listens, Runs, Ended
<1>4. RetrInv => RetrInv'
  BY <1>1 DEF RetrInv, Retr, SentPipe, SentDown, SentFile, Linked, Ended
<1>5. StorInv => StorInv'
  BY <1>1 DEF StorInv, Storing, Stored, Linked, Runs, Ended
<1>6. TransferInv'
  BY <1>1, <1>4, <1>5 DEF IInv, TransferInv, Ended
<1> QED BY <1>2, <1>3, <1>6 DEF IInv

LEMMA Inductive == Spec => []IInv
<1>1. Init => IInv
  <2>1. Init => dpc = "start"
    BY DEF Init
  <2> QED BY <2>1, InitTyped, InitEarly DEF IInv, TransferInv, Going, Ending
<1>2. IInv /\ [Next]_vars => IInv'
  <2> SUFFICES ASSUME IInv, [Next]_vars PROVE IInv'
    OBVIOUS
  <2> USE DEF IInv
  <2>1. CASE SockfiltStep /\ UNCHANGED <<dpc, transfer, sent>>
    <3>1. HarnessOK'
      <4>1. UNCHANGED <<dpc, command, storeresp, file, peer, sent>>
        BY <2>1 DEF transfer
      <4>2. UNCHANGED client
        BY <2>1 DEF SockfiltStep, Step, Start, StartFails, Select, StdinQuery, StdinQuit,
           StdinData, StdinDataDisconnected, StdinDisc, Accept, AcceptFails, SocketData,
           SocketEof, HandshakeAckd, HandshakeDisc, HandshakeOther, Orphan, Signalled
      <4> QED BY <4>1, <4>2 DEF Typed, HarnessOK
    <3>2. Typed'
      BY <2>1, <3>1, SockfiltTyped DEF Typed
    <3> QED BY <2>1, <3>2, SockfiltEarly, SockfiltTransfers
  <2>2. CASE Harness
    BY <2>2, HarnessEarly, HarnessTyped, HarnessTransfers
  <2>3. CASE ClientStep
    BY <2>3, ClientTyped, ClientEarly, ClientTransfers
  <2>4. CASE UNCHANGED vars
    BY <2>4, Stutters
  <2> QED BY <2>1, <2>2, <2>3, <2>4 DEF Next, ClientStep
<1> QED BY <1>1, <1>2, PTL DEF Spec

-----------------------------------------------------------------------------
(* What the two promise together *)

LEMMA RunIsPrefix ==
  ASSUME NEW k \in 0..NBlocks
  PROVE  IsPrefix(Run(0, k), File) /\ Len(Run(0, k)) = k /\ Run(0, NBlocks) = File
<1>1. File = Run(0, NBlocks)
  BY BlocksAssumption DEF File, Run
<1>2. /\ k \in Nat /\ NBlocks \in Nat /\ k <= NBlocks /\ 0 \in Nat /\ 0 <= k /\ 0 <= NBlocks
      /\ k - 0 = k /\ NBlocks - 0 = NBlocks
  BY BlocksAssumption
<1>3. Len(Run(0, k)) = k /\ Len(Run(0, NBlocks)) = NBlocks
  BY <1>2, RunSeq
<1>4. ASSUME NEW b \in Nat, k <= b PROVE SubSeq(Run(0, b), 1, k) = Run(0, k)
  <2>1. 0 <= b /\ 1 \in 1..(b - 0 + 1) /\ k \in (1 - 1)..(b - 0)
    BY <1>2, <1>4
  <2>2. SubSeq(Run(0, b), 1, k) = Run(0 + 1 - 1, 0 + k)
    BY <1>2, <2>1, RunSubSeq
  <2>3. 0 + 1 - 1 = 0 /\ 0 + k = k
    BY <1>2
  <2> QED BY <2>2, <2>3
<1>5. SubSeq(Run(0, k), 1, k) = Run(0, k) /\ SubSeq(Run(0, NBlocks), 1, k) = Run(0, k)
  BY <1>2, <1>4
<1> QED BY <1>1, <1>2, <1>3, <1>5 DEF IsPrefix

\* A client that downloads receives the file's blocks in order, each once, and no other
\* client receives any; and unless it closed it has all of them when the server reports
\* the end: senddata and close_dataconn of ftpserver.pl with sockfilt's juggle and
\* disc_handshake, whichever of the two ends disconnects first.
THEOREM FilesAreSent == Spec => []SentAll
<1>1. IInv => SentAll
  <2> SUFFICES ASSUME IInv PROVE SentAll
    OBVIOUS
  <2>0. 0 \in 0..NBlocks
    BY BlocksAssumption
  <2>1. IsPrefix(<< >>, File)
    BY <2>0, RunIsPrefix, RunNone
  <2>2. CASE dpc \in Early
    BY <2>1, <2>2 DEF IInv, EarlyInv, Quiet, SentAll, Early
  <2>3. CASE dpc \in Going \cup Ending /\ command = "RETR"
    <3>1. PICK n \in 0..NBlocks, m \in 0..NBlocks, k \in 0..NBlocks : Retr(n, m, k)
      BY <2>3 DEF IInv, TransferInv, RetrInv
    <3>2. /\ down[peer] = Run(0, k) /\ peer \in Clients
          /\ \A c \in Clients \ {peer} : down[c] = << >>
      BY <2>3, <3>1 DEF IInv, TransferInv, Retr, SentDown
    <3>3. \A c \in Clients : IsPrefix(down[c], File)
      BY <2>1, <3>2, RunIsPrefix
    <3>4. ASSUME dpc = "done", client[peer] = "open" PROVE down[peer] = File
      <4>1. m = 0 /\ n = NBlocks /\ k = n - m
        BY <3>1, <3>4 DEF IInv, TransferInv, Retr, SentPipe, SentDown, SentFile
      <4>2. k = NBlocks
        BY <4>1, BlocksAssumption
      <4> QED BY <3>2, <4>2, RunIsPrefix
    <3> QED BY <3>2, <3>3, <3>4 DEF SentAll
  <2>4. CASE dpc \in Going \cup Ending /\ command = "STOR"
    <3>1. \A c \in Clients : down[c] = << >>
      BY <2>4 DEF IInv, TransferInv, StorInv
    <3> QED BY <2>1, <2>4, <3>1 DEF SentAll
  <2> QED BY <2>2, <2>3, <2>4 DEF IInv, Typed, HarnessOK, Early, Going, Ending
<1> QED BY <1>1, Inductive, PTL

\* What STOR stores is what the client has sent so far, in order and without a gap; and
\* when the client has ended the upload, all of it: the DISC that sockfilt reports comes
\* after the last DATA block, and STOR_ftp takes both in that order.
THEOREM UploadsAreStored == Spec => []StoredAll
<1>1. IInv => StoredAll
  <2> SUFFICES ASSUME IInv, command = "STOR",
                      dpc \in {"STOR", "closing", "quit", "pidwait", "done"}
               PROVE  /\ IsPrefix(file, File) /\ Len(file) <= sent[peer]
                      /\ dpc = "done" /\ ~storeresp => Len(file) = sent[peer]
    BY DEF StoredAll
  <2>1. peer \in Clients /\ StorInv /\ sent[peer] \in 0..NBlocks
    BY DEF IInv, TransferInv, Going, Ending, Typed, HarnessOK
  <2>2. CASE \E n, r \in 0..NBlocks, s \in Seq(Message) : Storing(n, r, s)
    <3>1. PICK n \in 0..NBlocks, r \in 0..NBlocks, s \in Seq(Message) : Storing(n, r, s)
      BY <2>2
    <3>2. file = Run(0, n) /\ dpc = "STOR" /\ Chain(s, n, r) /\ r <= sent[peer]
      BY <3>1 DEF Storing
    <3>3. n <= sent[peer]
      BY <2>1, <3>2, ChainGrows, BlocksAssumption
    <3> QED BY <3>2, <3>3, RunIsPrefix
  <2>3. CASE \E n \in 0..NBlocks : Stored(n)
    <3>1. PICK n \in 0..NBlocks : Stored(n)
      BY <2>3
    <3> QED BY <3>1, RunIsPrefix DEF Stored
  <2> QED BY <2>1, <2>2, <2>3 DEF StorInv
<1> QED BY <1>1, Inductive, PTL

-----------------------------------------------------------------------------
(* A data connection is a stream of bytes *)

WriterEnd == IF command = "RETR" THEN ServerEnd ELSE ClientEnd
ReaderEnd == IF command = "RETR" THEN ClientEnd ELSE ServerEnd

\* The reader has the beginning of what was written, and all of it at the end.
Placed ==
  /\ \E n, k \in 0..NBlocks : Written = n /\ Received = Run(0, k) /\ k <= n
  /\ dpc = "done" /\ ReaderEnd = "open" => WriterEnd = "closed" /\ Len(Received) = Written

StreamStep == BS!Next \/ UNCHANGED BS!streamVars

LEMMA EndsAre ==
  ASSUME Typed
  PROVE  /\ ServerEnd \in {"open", "closed"} /\ ClientEnd \in {"open", "closed"}
         /\ peer \in Clients => ClientEnd = client[peer]
<1>1. peer \in Clients => client[peer] \in {"open", "closed"} /\ peer # NoClient
  BY ClientsAssumption DEF Typed, ClientsOK, HarnessOK
<1> QED BY <1>1 DEF ServerEnd, ClientEnd, OfPeer, Typed, HarnessOK

\* Until the transfer begins nothing is in the stream.
LEMMA EarlyIsEmpty ==
  ASSUME Typed, Quiet
  PROVE  Written = 0 /\ Received = << >>
<1>1. Len(file) = 0 /\ file = << >>
  BY Nothing DEF Quiet
<1>2. peer \in Clients => sent[peer] = 0 /\ down[peer] = << >>
  BY DEF Quiet
<1> QED BY <1>1, <1>2 DEF Written, Received, OfPeer, Typed, HarnessOK

LEMMA LengthOfRun ==
  ASSUME NEW k \in 0..NBlocks
  PROVE  Len(Run(0, k)) = k /\ Run(0, k) = [i \in 1..k |-> i]
<1>1. k \in Nat /\ 0 \in Nat /\ 0 <= k /\ k - 0 = k
  BY BlocksAssumption
<1> QED BY <1>1, RunSeq DEF Run

\* What the invariant says of either direction.
LEMMA StreamIsPlaced == IInv => Placed
<1> SUFFICES ASSUME IInv PROVE Placed
  OBVIOUS
<1>0. 0 \in 0..NBlocks /\ peer \in Clients => peer # NoClient
  BY BlocksAssumption, ClientsAssumption
<1>1. CASE dpc \in Early
  <2>1. Written = 0 /\ Received = Run(0, 0)
    BY <1>1, EarlyIsEmpty, RunNone DEF IInv, EarlyInv
  <2>2. 0 \in 0..NBlocks /\ 0 <= 0 /\ dpc # "done"
    BY <1>1, BlocksAssumption DEF Early
  <2> QED BY <2>1, <2>2 DEF Placed
<1>2. CASE dpc \in Going \cup Ending /\ command = "RETR"
  <2>1. PICK n \in 0..NBlocks, m \in 0..NBlocks, k \in 0..NBlocks : Retr(n, m, k)
    BY <1>2 DEF IInv, TransferInv, RetrInv
  <2>2. /\ peer \in Clients /\ peer # NoClient
        /\ down[peer] = Run(0, k) /\ k <= n - m /\ file = Run(0, n)
    BY <1>2, <2>1, ClientsAssumption DEF IInv, TransferInv, Retr, SentDown, SentFile
  <2>3. Written = n /\ Received = Run(0, k) /\ k <= n
    BY <1>2, <2>2, LengthOfRun, BlocksAssumption DEF Written, Received, OfPeer
  <2>4. ASSUME dpc = "done", ReaderEnd = "open"
        PROVE  WriterEnd = "closed" /\ Len(Received) = Written
    <3>1. client[peer] = "open"
      BY <1>2, <2>2, <2>4, EndsAre DEF ReaderEnd, IInv
    <3>2. m = 0 /\ k = n - m
      BY <2>1, <2>4, <3>1 DEF IInv, TransferInv, Retr, SentPipe, SentDown
    <3>3. k = n
      BY <3>2, BlocksAssumption
    <3>4. WriterEnd = "closed"
      BY <1>2, <2>4 DEF WriterEnd, ServerEnd
    <3> QED BY <2>3, <3>3, <3>4, LengthOfRun
  <2> QED BY <2>3, <2>4 DEF Placed
<1>3. CASE dpc \in Going \cup Ending /\ command = "STOR"
  <2>1. /\ peer \in Clients /\ peer # NoClient /\ StorInv /\ sent[peer] \in 0..NBlocks
        /\ storeresp \in BOOLEAN /\ command # "RETR"
    BY <1>3, ClientsAssumption DEF IInv, TransferInv, Typed, HarnessOK
  <2>2. CASE \E n, r \in 0..NBlocks, s \in Seq(Message) : Storing(n, r, s)
    <3>1. PICK n \in 0..NBlocks, r \in 0..NBlocks, s \in Seq(Message) : Storing(n, r, s)
      BY <2>2
    <3>2. file = Run(0, n) /\ dpc = "STOR" /\ Chain(s, n, r) /\ r <= sent[peer]
      BY <3>1 DEF Storing
    <3>3. n <= sent[peer]
      BY <2>1, <3>2, ChainGrows, BlocksAssumption
    <3> QED BY <2>1, <3>2, <3>3 DEF Placed, Written, Received, OfPeer
  <2>3. CASE \E n \in 0..NBlocks : Stored(n)
    <3>1. PICK n \in 0..NBlocks : Stored(n)
      BY <2>3
    <3>2. Written = sent[peer] /\ Received = Run(0, n) /\ n <= sent[peer]
      BY <2>1, <3>1 DEF Stored, Written, Received, OfPeer
    <3>3. ASSUME dpc = "done", ReaderEnd = "open"
          PROVE  WriterEnd = "closed" /\ Len(Received) = Written
      <4>1. ~storeresp
        BY <1>3, <3>3 DEF ReaderEnd, ServerEnd
      <4>2. n = sent[peer] /\ client[peer] = "closed"
        BY <3>1, <4>1 DEF Stored
      <4>3. WriterEnd = "closed"
        BY <2>1, <4>2, EndsAre DEF WriterEnd, IInv
      <4> QED BY <3>2, <4>2, <4>3, LengthOfRun
    <3> QED BY <2>1, <3>2, <3>3 DEF Placed
  <2> QED BY <2>1, <2>2, <2>3 DEF StorInv
<1> QED BY <1>1, <1>2, <1>3 DEF IInv, Typed, HarnessOK, Early, Going, Ending

\* Nothing the stream shows has changed.
LEMMA SameStream ==
  ASSUME UNCHANGED <<command, Written, Received, ServerEnd, ClientEnd>>,
         (dpc' = "done") = (dpc = "done")
  PROVE  StreamStep
BY DEF StreamStep, BS!streamVars

\* One of the two ends closes, or neither.
LEMMA EndCloses ==
  ASSUME Typed, Typed', UNCHANGED <<command, Written, Received>>,
         (dpc' = "done") = (dpc = "done"),
         \/ ServerEnd' = ServerEnd /\ (ClientEnd = "closed" => ClientEnd' = "closed")
         \/ ClientEnd' = ClientEnd /\ (ServerEnd = "closed" => ServerEnd' = "closed")
  PROVE  StreamStep
<1>1. /\ ServerEnd \in {"open", "closed"} /\ ClientEnd \in {"open", "closed"}
      /\ ClientEnd' \in {"open", "closed"}
  BY EndsAre, ClientsAssumption
  DEF ClientEnd, OfPeer, Typed, HarnessOK, ClientsOK
<1>2. ServerEnd' \in {"open", "closed"}
  BY DEF ServerEnd
<1>3. CASE ServerEnd' = ServerEnd /\ ClientEnd' = ClientEnd
  BY <1>3, SameStream
<1>4. CASE ServerEnd' = ServerEnd /\ ClientEnd = "open" /\ ClientEnd' = "closed"
  <2>1. BS!WriterCloses \/ BS!ReaderCloses
    BY <1>4 DEF BS!WriterCloses, BS!ReaderCloses
  <2> QED BY <2>1 DEF StreamStep, BS!Next
<1>5. CASE ClientEnd' = ClientEnd /\ ServerEnd = "open" /\ ServerEnd' = "closed"
  <2>1. BS!WriterCloses \/ BS!ReaderCloses
    BY <1>5 DEF BS!WriterCloses, BS!ReaderCloses
  <2> QED BY <2>1 DEF StreamStep, BS!Next
<1> QED BY <1>1, <1>2, <1>3, <1>4, <1>5

\* The writer goes on by a block.
LEMMA WriterWrites ==
  ASSUME UNCHANGED <<command, Received, ServerEnd, ClientEnd>>, WriterEnd = "open",
         Written' = Written + 1, dpc # "done", dpc' # "done"
  PROVE  StreamStep
<1>1. BS!Write
  BY DEF BS!Write, WriterEnd
<1> QED BY <1>1 DEF StreamStep, BS!Next

\* The reader has more than before, or as much, and may have closed.
LEMMA ReaderReceives ==
  ASSUME Placed, Placed', UNCHANGED <<command, Written, WriterEnd>>, ReaderEnd = "open",
         ReaderEnd' \in {"open", "closed"}, Len(Received) <= Len(Received'),
         dpc # "done", dpc' # "done"
  PROVE  StreamStep
<1>1. PICK n \in 0..NBlocks, k \in 0..NBlocks : Written = n /\ Received = Run(0, k) /\ k <= n
  BY DEF Placed
<1>2. PICK m \in 0..NBlocks, l \in 0..NBlocks :
        Written' = m /\ Received' = Run(0, l) /\ l <= m
  BY DEF Placed
<1>3. Len(Received) = k /\ Len(Received') = l /\ Received' = [i \in 1..l |-> i]
  BY <1>1, <1>2, LengthOfRun
<1>4. m = n /\ k <= l
  BY <1>1, <1>2, <1>3
<1>5. CASE k = l
  <2>1. Received' = Received
    BY <1>1, <1>2, <1>5
  <2>2. CASE ReaderEnd' = "open"
    BY <2>1, <2>2 DEF StreamStep, BS!streamVars, ReaderEnd, WriterEnd
  <2>3. CASE ReaderEnd' = "closed"
    <3>1. BS!ReaderCloses
      BY <2>1, <2>3 DEF BS!ReaderCloses, ReaderEnd, WriterEnd
    <3> QED BY <3>1 DEF StreamStep, BS!Next
  <2> QED BY <2>2, <2>3
<1>6. CASE k # l
  <2>1. l \in (Len(Received) + 1)..Written
    BY <1>1, <1>2, <1>3, <1>4, <1>6, BlocksAssumption
  <2>2. BS!Receive
    BY <1>3, <2>1 DEF BS!Receive, ReaderEnd, WriterEnd
  <2> QED BY <2>2 DEF StreamStep, BS!Next
<1> QED BY <1>5, <1>6

\* A step of sockfilt moves blocks along; only what it sends to a client that is there
\* and listens is received.
LEMMA SockfiltStreams ==
  ASSUME IInv, Placed, Placed', SockfiltStep, UNCHANGED <<dpc, transfer, sent>>
  PROVE  StreamStep
<1>1. UNCHANGED <<dpc, command, storeresp, file, peer, sent>> /\ dpc # "done"
  BY EndedStops DEF transfer, IInv, TransferInv
<1>2. /\ UNCHANGED client
      /\ down' = down \/ StdinData
  BY DEF SockfiltStep, Step, Start, StartFails, Select, StdinQuery, StdinQuit, StdinData,
     StdinDataDisconnected, StdinDisc, Accept, AcceptFails, SocketData, SocketEof,
     HandshakeAckd, HandshakeDisc, HandshakeOther, Orphan, Signalled, streams
<1>3. UNCHANGED <<Written, ServerEnd, ClientEnd>>
  BY <1>1, <1>2 DEF Written, ServerEnd, ClientEnd, OfPeer
<1>4. CASE Received' = Received
  BY <1>1, <1>3, <1>4, SameStream
<1>5. CASE Received' # Received
  <2>1. command = "RETR" /\ peer # NoClient /\ peer \in Clients /\ down'[peer] # down[peer]
    BY <1>1, <1>5 DEF Received, OfPeer, IInv, Typed, HarnessOK
  <2>2. StdinData /\ conn # NoClient /\ client[conn] = "open"
        /\ down' = [down EXCEPT ![conn] = @ \o Head(stdin).data]
    BY <1>2, <2>1 DEF StdinData
  <2>3. /\ down[peer] \in Seq(Items) /\ Head(stdin).data \in Seq(Items)
    BY <2>1, <2>2, ReadTyped DEF StdinData, IInv, Typed, ClientsOK, Message
  <2>4. conn = peer /\ down'[peer] = down[peer] \o Head(stdin).data
    BY <2>1, <2>2 DEF IInv, Typed, ClientsOK
  <2>5. Len(down[peer]) <= Len(down'[peer])
    <3>1. PICK s \in Seq(Items), t \in Seq(Items) : s = down[peer] /\ t = Head(stdin).data
      BY <2>3
    <3>2. Len(s \o t) = Len(s) + Len(t) /\ Len(s) \in Nat /\ Len(t) \in Nat
      BY ConcatProperties, LenProperties
    <3>3. PICK u, x, y : x = Len(s) /\ y = Len(t) /\ u = Len(s \o t)
      OBVIOUS
    <3>4. x <= u
      BY <3>2, <3>3
    <3>5. Len(down[peer]) = x /\ Len(down'[peer]) = u
      BY <2>4, <3>1, <3>3, Zenon
    <3> QED BY <3>4, <3>5
  <2>6. Len(Received) <= Len(Received')
    BY <1>1, <2>1, <2>5 DEF Received, OfPeer
  <2>7. ReaderEnd = "open" /\ ReaderEnd' = "open" /\ WriterEnd' = WriterEnd
    BY <1>1, <1>3, <2>1, <2>2, <2>4, EndsAre DEF ReaderEnd, WriterEnd, IInv
  <2> QED BY <1>1, <1>3, <2>6, <2>7, ReaderReceives
<1> QED BY <1>4, <1>5

\* A client writes a block, closes, or is one the connection is not with.
LEMMA ClientStreams ==
  ASSUME IInv, Typed', ClientStep
  PROVE  StreamStep
<1>1. PICK c \in Clients :
        Send(c) \/ Hangs(c) \/ (Connect(c) /\ UNCHANGED <<dpc, transfer, sent>>)
  BY DEF ClientStep
<1>2. /\ UNCHANGED <<dpc, command, storeresp, file, peer, down>>
      /\ ServerEnd' = ServerEnd /\ Received' = Received
  <2>1. UNCHANGED <<dpc, command, storeresp, file, peer, down>>
    BY <1>1 DEF Send, Hangs, Close, Connect, transfer, streams
  <2> QED BY <2>1 DEF ServerEnd, Received, OfPeer
<1>3. /\ client \in [Clients -> {"new", "open", "closed"}] /\ sent \in [Clients -> 0..NBlocks]
      /\ peer \in Clients => client[peer] # "new" /\ peer # NoClient
      /\ peer \in Clients \cup {NoClient}
  BY ClientsAssumption DEF IInv, Typed, ClientsOK, HarnessOK
<1>4. CASE Send(c)
  <2>1. /\ command = "STOR" /\ dpc # "done" /\ client[c] = "open" /\ client' = client
        /\ sent' = [sent EXCEPT ![c] = @ + 1]
    BY <1>4 DEF Send
  <2>2. ClientEnd' = ClientEnd
    BY <1>2, <2>1 DEF ClientEnd, OfPeer
  <2>3. CASE c = peer
    <3>1. Written' = Written + 1 /\ WriterEnd = "open"
      BY <1>2, <1>3, <2>1, <2>3 DEF Written, OfPeer, WriterEnd, ClientEnd
    <3> QED BY <1>2, <2>1, <2>2, <3>1, WriterWrites
  <2>4. CASE c # peer
    <3>1. Written' = Written
      BY <1>2, <1>3, <2>1, <2>4 DEF Written, OfPeer
    <3> QED BY <1>2, <2>2, <3>1, SameStream
  <2> QED BY <2>3, <2>4
<1>5. CASE ~Send(c)
  <2>1. /\ sent' = sent
        /\ \/ client[c] = "open" /\ client' = [client EXCEPT ![c] = "closed"]
           \/ client[c] = "new" /\ client' = [client EXCEPT ![c] = "open"]
    BY <1>1, <1>5 DEF Hangs, Close, Connect
  <2>2. Written' = Written
    BY <1>2, <2>1 DEF Written, OfPeer
  <2>3. ClientEnd = "closed" => ClientEnd' = "closed"
    BY <1>2, <1>3, <2>1 DEF ClientEnd, OfPeer
  <2> QED BY <1>2, <2>2, <2>3, EndCloses DEF IInv
<1> QED BY <1>4, <1>5

\* PASV, PORT and the shutdown leave the stream as it is, but for the client that has
\* connected and may have closed since.
LEMMA ServerStreams ==
  ASSUME IInv, IInv', Placed, Placed',
         StartPing \/ Pong \/ NoPong \/ AwaitPort \/ AwaitConnect \/ ConnectTimeout \/ Begin
           \/ Abandon \/ RetrClose \/ StorDisc \/ Closing \/ Quit
  PROVE  StreamStep
<1> USE DEF process, transfer, streams, pipes, sockfiltVars, PrintTo, KillSockfilt, SysRead
<1>1. /\ UNCHANGED <<command, storeresp, file, client, down, sent>>
      /\ dpc # "done" /\ dpc' # "done"
      /\ peer' = peer \/ AwaitConnect
  BY DEF StartPing, Pong, NoPong, AwaitPort, AwaitConnect, ConnectTimeout, Begin, Abandon,
         RetrClose, StorDisc, Closing, Quit, IInv, Typed, HarnessOK
<1>2. ServerEnd = "closed" => ServerEnd' = "closed"
  <2>1. dpc \in {"closing", "quit", "pidwait", "done"}
           => dpc' \in {"closing", "quit", "pidwait", "done"}
    BY DEF StartPing, Pong, NoPong, AwaitPort, AwaitConnect, ConnectTimeout, Begin, Abandon,
           RetrClose, StorDisc, Closing, Quit
  <2> QED BY <1>1, <2>1 DEF ServerEnd
<1>3. CASE AwaitConnect
  <2>1. dpc = "cnct" /\ dpc' = "open" /\ peer = NoClient
    BY <1>3 DEF AwaitConnect, IInv, EarlyInv, AtCnct
  <2>2. Quiet /\ Quiet'
    BY <2>1 DEF IInv, EarlyInv, Early
  <2>3. Written' = Written /\ Received' = Received
    <3>1. Written = 0 /\ Received = << >>
      BY <2>2, EarlyIsEmpty DEF IInv
    <3>2. Written' = 0 /\ Received' = << >>
      <4>1. Len(file') = 0 /\ file' = << >>
        BY <2>2, Nothing DEF Quiet
      <4>2. peer' \in Clients => sent'[peer'] = 0 /\ down'[peer'] = << >>
        BY <2>2 DEF Quiet
      <4> QED BY <4>1, <4>2 DEF Written, Received, OfPeer, IInv, Typed, HarnessOK
    <3> QED BY <3>1, <3>2
  <2>4. ServerEnd' = ServerEnd /\ ClientEnd = "open"
    BY <2>1 DEF ServerEnd, ClientEnd, OfPeer
  <2> QED BY <1>1, <2>3, <2>4, EndCloses DEF IInv
<1>4. CASE ~AwaitConnect
  <2>1. UNCHANGED <<Written, Received, ClientEnd>>
    BY <1>1, <1>4 DEF Written, Received, ClientEnd, OfPeer
  <2> QED BY <1>1, <1>2, <2>1, EndCloses DEF IInv
<1> QED BY <1>3, <1>4

\* A block of a download goes on its way, one of an upload arrives, the end is reported.
LEMMA TransferStreams ==
  ASSUME IInv, IInv', Placed, Placed', RetrSend \/ StorData \/ PidWait
  PROVE  StreamStep
<1> USE DEF process, transfer, streams, sockfiltVars, PrintTo, SysRead
<1>1. CASE RetrSend
  <2>1. /\ UNCHANGED <<command, storeresp, peer, client, down, sent>>
        /\ file' = Append(file, Len(file) + 1) /\ dpc = "RETR" /\ dpc' = "RETR"
    BY <1>1 DEF RetrSend
  <2>2. command = "RETR" /\ file \in Seq(Items)
    BY <2>1 DEF IInv, TransferInv, StorInv, Storing, Stored, Going, Typed, HarnessOK
  <2>3. Written' = Written + 1
    <3>1. Len(file) + 1 \in Items
      BY <2>2, LenProperties DEF Items
    <3>2. Len(file') = Len(file) + 1
      BY <2>1, <2>2, <3>1, AppendedIn
    <3> QED BY <2>1, <2>2, <3>2 DEF Written
  <2>4. /\ UNCHANGED <<Received, ServerEnd, ClientEnd>> /\ WriterEnd = "open"
    BY <2>1, <2>2 DEF Received, ServerEnd, ClientEnd, OfPeer, WriterEnd
  <2> QED BY <2>1, <2>3, <2>4, WriterWrites
<1>2. CASE StorData
  <2>1. /\ UNCHANGED <<command, storeresp, peer, client, down, sent>>
        /\ file' = file \o Head(stdout).data /\ dpc = "STOR" /\ dpc' \in {"STOR", "closing"}
        /\ stdout # << >>
    BY <1>2 DEF StorData, ParentReads
  <2>2. command = "STOR" /\ file \in Seq(Items) /\ Head(stdout).data \in Seq(Items)
    <3>1. command = "STOR" /\ file \in Seq(Items)
      BY <2>1 DEF IInv, TransferInv, RetrInv, Retr, SentFile, Going, Typed, HarnessOK
    <3>2. Head(stdout) \in Message
      BY <2>1, TailIn DEF IInv, Typed, PipesOK
    <3> QED BY <3>1, <3>2 DEF Message
  <2>3. Len(Received) <= Len(Received')
    <3>1. PICK s \in Seq(Items), t \in Seq(Items) : s = file /\ t = Head(stdout).data
      BY <2>2
    <3>2. PICK x, y, u : x = Len(s) /\ y = Len(t) /\ u = Len(s \o t)
      OBVIOUS
    <3>3. x <= u
      BY <3>2, ConcatProperties, LenProperties
    <3>4. Len(file) = x /\ Len(file') = u
      BY <2>1, <3>1, <3>2, Zenon
    <3> QED BY <2>1, <2>2, <3>3, <3>4 DEF Received
  <2>4. /\ UNCHANGED <<Written, WriterEnd>> /\ ReaderEnd = "open"
        /\ ReaderEnd' \in {"open", "closed"}
    BY <2>1, <2>2 DEF Written, WriterEnd, ReaderEnd, ServerEnd, ClientEnd, OfPeer
  <2> QED BY <2>1, <2>3, <2>4, ReaderReceives
<1>3. CASE PidWait
  <2>1. /\ UNCHANGED <<command, storeresp, file, peer, client, down, sent>>
        /\ dpc = "pidwait" /\ dpc' = "done"
    BY <1>3 DEF PidWait
  <2>2. UNCHANGED <<Written, Received, ServerEnd, ClientEnd>>
    BY <2>1 DEF Written, Received, ServerEnd, ClientEnd, OfPeer
  <2>3. ReaderEnd = "open" => WriterEnd = "closed" /\ Len(Received) = Written
    BY <2>1, <2>2 DEF Placed, ReaderEnd, WriterEnd
  <2>4. BS!Report
    BY <2>1, <2>2, <2>3 DEF BS!Report, ReaderEnd, WriterEnd
  <2> QED BY <2>4 DEF StreamStep, BS!Next
<1> QED BY <1>1, <1>2, <1>3

LEMMA StreamInit == Init => BS!Init
<1> SUFFICES ASSUME Init PROVE BS!Init
  OBVIOUS
<1>1. /\ dpc = "start" /\ file = << >> /\ Len(file) = 0 /\ peer = conn
      /\ sent = [c \in Clients |-> 0] /\ down = [c \in Clients |-> << >>]
      /\ command \in {"RETR", "STOR"}
  BY Nothing DEF Init, SockfiltInit
<1>2. \/ peer = NoClient
      \/ peer \in Clients /\ client[peer] = "open"
  BY <1>1 DEF Init, Listening, Connected
<1>3. ServerEnd = "open" /\ ClientEnd = "open" /\ Written = 0 /\ Received = << >>
  BY <1>1, <1>2 DEF ServerEnd, ClientEnd, OfPeer, Written, Received
<1> QED BY <1>1, <1>3 DEF BS!Init

\* A RETR or STOR is a stream of bytes, for a file of any length, any number of clients,
\* and however TCP cuts what they send: no step of the server, of sockfilt or of a client
\* loses, repeats or reorders a block, and the end that ftpserver.pl reports is the end
\* of the stream, unless its reader closed before.
THEOREM DataIsByteStream == Spec => ImplementsByteStream
<1>1. IInv /\ IInv' /\ Placed /\ Placed' /\ [Next]_vars => [BS!Next]_(BS!streamVars)
  <2> SUFFICES ASSUME IInv, IInv', Placed, Placed', [Next]_vars
               PROVE  StreamStep
    BY DEF StreamStep
  <2>1. CASE SockfiltStep /\ UNCHANGED <<dpc, transfer, sent>>
    BY <2>1, SockfiltStreams
  <2>2. CASE Harness
    BY <2>2, ServerStreams, TransferStreams DEF Harness
  <2>3. CASE ClientStep
    BY <2>3, ClientStreams DEF IInv
  <2>4. CASE UNCHANGED vars
    <3>1. UNCHANGED <<dpc, command, storeresp, file, peer, client, down, sent>>
      BY <2>4 DEF vars, sockfiltVars, transfer, streams
    <3>2. UNCHANGED <<Written, Received, ServerEnd, ClientEnd>>
      BY <3>1 DEF Written, Received, ServerEnd, ClientEnd, OfPeer
    <3> QED BY <3>1, <3>2, SameStream
  <2> QED BY <2>1, <2>2, <2>3, <2>4 DEF Next, ClientStep
<1> QED BY <1>1, StreamInit, StreamIsPlaced, Inductive, PTL
        DEF Spec, ImplementsByteStream, BS!Spec
=============================================================================
