------------------------- MODULE FtpControl_proofs -------------------------
(***************************************************************************)
(* Proofs about FtpControl: what the clients of a control connection are   *)
(* told, and when the lock of the server's files is held.                  *)
(*                                                                         *)
(* The invariant has two parts.  Typed says what each variable holds, the  *)
(* blocks in the pipes included, and what juggle knows where it is.  Shape *)
(* says how far the two processes and the client have got with each other: *)
(* nobody is connected, the server has yet to be told of a client or       *)
(* has acknowledged the end of one, or they talk; and then the line and    *)
(* the reply under way are accounted for.                                  *)
(***************************************************************************)
EXTENDS FtpControl, SequenceTheorems, FiniteSetTheorems, TLAPS

-----------------------------------------------------------------------------
(* What is in the pipes *)

Kinds == Pieces \cup {"part", "eob"}

Replies == [to : Clients \cup {NoClient}, text : {"welcome", "reply", "500"}]

Reply(r) == Block("DATA", <<r>>)
ACKD == Bare("ACKD")
DISC == Bare("DISC")
Call(c) == Block("CNCT", <<c>>)

\* What the server writes.
Orders == {Reply(r) : r \in Replies} \cup {ACKD}

\* A stretch of what a client sends: only its last piece may end a line.
Stretch(s) == s \in Seq(Kinds) /\ \A i \in 1..(Len(s) - 1) : s[i] = "part"

Final(s) == s[Len(s)]

Ends(s) == s # << >> /\ Final(s) # "part"

\* What sockfilt writes.
Reports == [cmd : {"CNCT", "DATA", "DISC"}, data : Seq(Kinds \cup Clients)]

IsReport(b) ==
  /\ b \in Reports
  /\ b.cmd = "CNCT" => b.data[1] \in Clients
  /\ b.cmd = "DATA" => Stretch(b.data) /\ b.data # << >>

-----------------------------------------------------------------------------
(* Types *)

Shaking == spc = "handshake"

\* disc_handshake waits for the server only when the client has closed its
\* end and all it sent has been passed on, or there is none.
ProcessOK ==
  /\ spc \in {"juggle", "stdin", "socket", "handshake", "ended"}
  /\ mode \in {"PASSIVE_LISTEN", "PASSIVE_CONNECT"} /\ conn \in Clients \cup {NoClient}
  /\ conn \in Clients <=> mode = "PASSIVE_CONNECT"
  /\ ready \in BOOLEAN /\ got_exit_signal \in BOOLEAN
  /\ ready => spc \in {"stdin", "handshake"}
  /\ spc = "socket" \/ ready => SocketReadable
  /\ Shaking /\ conn \in Clients => client[conn] = "closed" /\ up[conn] = << >>

PipesOK ==
  /\ stdin \in Seq(Orders)
  /\ stdout \in Seq(Reports) /\ \A i \in 1..Len(stdout) : IsReport(stdout[i])
  /\ parent \in {"alive", "dead"}

HarnessOK ==
  /\ hpc \in {"idle", "session", "mail", "received", "over"}
  /\ full \in Seq(Kinds) /\ \A i \in 1..Len(full) : full[i] = "part"
  /\ serverlogslocked \in BOOLEAN
  /\ session \in Clients \cup {NoClient}
  /\ hpc \in {"mail", "received"} => "mail" \in Pieces
  /\ hpc \in {"session", "mail", "received"} /\ parent = "alive" => serverlogslocked

\* Who was served and has not closed is still connected.
ClientsOK ==
  /\ client \in [Clients -> {"new", "open", "closed"}]
  /\ up \in [Clients -> Seq(Kinds)] /\ \A c \in Clients : Stretch(up[c])
  /\ down \in [Clients -> Seq(Replies)]
  /\ said \in [Clients -> Seq(Kinds)]
  /\ \A c \in Clients : /\ client[c] = "new" => down[c] = << >>
                        /\ down[c] = << >> => said[c] = << >> /\ up[c] = << >>
  /\ conn \in Clients => client[conn] # "new"
  /\ ~Ended => \A c \in Clients : client[c] = "open" /\ down[c] # << >> => c = conn

\* Who waits has been sent nothing, and waits once.
BacklogOK ==
  /\ backlog \in Seq(Clients)
  /\ \A i \in 1..Len(backlog) :
       /\ client[backlog[i]] # "new" /\ down[backlog[i]] = << >> /\ backlog[i] # conn
       /\ \A j \in 1..Len(backlog) : backlog[i] = backlog[j] => i = j

Typed == ProcessOK /\ PipesOK /\ HarnessOK /\ ClientsOK /\ BacklogOK

-----------------------------------------------------------------------------
(* How far they have got *)

Asked(c) == Cardinality(Lines(said[c]))

\* A block of stdout that ends a line, and the lines between the client and
\* the server: in the pipe, or still in the socket.
CarriedIn(b) == b.cmd = "DATA" /\ Ends(b.data)

Carried(out, s, p) ==
  \/ Ends(s) /\ p = Final(s)
  \/ \E i \in 1..Len(out) : CarriedIn(out[i]) /\ p = Final(out[i].data)

CarriedOnce(out, s) ==
  \A i \in 1..Len(out) :
    CarriedIn(out[i]) => /\ ~Ends(s)
                         /\ \A j \in 1..Len(out) : CarriedIn(out[j]) => i = j

Asks(p) == Carried(stdout, up[conn], p)

\* The reply DATA_smtp ends with, when it is the client's end that ended it,
\* is written after the acknowledgment: it goes to whoever is there then.
Late(r) == "mail" \in Pieces /\ r.text # "500"

Free ==
  /\ conn \notin Clients /\ ~Shaking /\ stdout = << >>
  /\ \/ hpc \in {"idle", "over", "received"} /\ stdin = << >>
     \/ hpc = "session" /\ \E r \in Replies : Late(r) /\ stdin = <<Reply(r)>>

\* Nobody was there for the late reply.
Lost ==
  /\ conn \notin Clients /\ Shaking /\ "mail" \in Pieces
  /\ \/ hpc = "session" /\ stdin = << >> /\ stdout = <<DISC>>
     \/ hpc \in {"idle", "over"} /\ stdin = <<ACKD>> /\ stdout = << >>

\* The server has not read the client's CNCT.
Called ==
  /\ conn \in Clients /\ down[conn] = << >>
  /\ hpc \in {"idle", "over", "received"} /\ stdin = << >>
  /\ stdout = IF Shaking THEN <<Call(conn), DISC>> ELSE <<Call(conn)>>

\* The server has read the client's DISC.
Acked ==
  /\ conn \in Clients /\ Shaking /\ stdout = << >>
  /\ \/ /\ hpc \in {"idle", "over", "received"}
        /\ stdin = <<ACKD>> \/ \E r \in Replies : stdin = <<Reply(r), ACKD>>
     \/ /\ hpc = "session"
        /\ \E l \in Replies :
             /\ Late(l)
             /\ \/ stdin = <<ACKD, Reply(l)>>
                \/ \E r \in Replies : stdin = <<Reply(r), ACKD, Reply(l)>>

\* One reply is under way at most, to a client that has not been answered.
Answering ==
  /\ Len(down[conn]) <= Asked(conn) + 1
  /\ \/ stdin = << >>
     \/ \E r \in Replies :
          /\ stdin = <<Reply(r)>> /\ Len(down[conn]) <= Asked(conn)
          /\ r.text = "500" => Refused(conn)
          /\ "mail" \notin Pieces =>
               r.to = conn /\ (r.text = "welcome" <=> down[conn] = << >>)

\* One line is, and then no reply: it is the last the client has sent.
Asking ==
  /\ CarriedOnce(stdout, up[conn])
  /\ \A p \in Kinds : Asks(p) => /\ LastLine(conn, p)
                                 /\ stdin = << >> /\ Len(down[conn]) <= Asked(conn)

Marks ==
  \A i \in 1..Len(stdout) :
    /\ stdout[i].cmd = "CNCT" => i = 1 /\ hpc = "session" /\ "mail" \in Pieces
    /\ stdout[i].cmd = "DISC" => i = Len(stdout) /\ Shaking

\* The server and the client agree on whether a mail is being sent.
Agreed ==
  /\ \A p \in Kinds : Asks(p) => (p = "eob" <=> hpc = "mail")
  /\ client[conn] = "open" /\ (\A p \in Kinds : ~Asks(p)) => (InMail(conn) <=> hpc = "mail")

\* What is true of a client that is served, and of one that was refused.
Turn ==
  /\ hpc \in {"idle", "over"} => Refused(conn)
  /\ hpc \in {"session", "mail", "received"} /\ Shaking =>
       stdout # << >> /\ stdout[Len(stdout)].cmd = "DISC"
  /\ hpc \in {"session", "mail"} => Agreed
  /\ hpc = "received" =>
       /\ stdin = << >> /\ Len(down[conn]) <= Asked(conn) /\ \A p \in Kinds : ~Asks(p)
       /\ client[conn] = "open" => ~InMail(conn)
  /\ "mail" \notin Pieces /\ hpc = "session" => session = conn

Talking == conn \in Clients /\ Answering /\ Asking /\ Marks /\ Turn

Shape == ~Ended => Free \/ Lost \/ Called \/ Acked \/ Talking

Inv == Typed /\ Shape

-----------------------------------------------------------------------------
(* Sequences *)

LEMMA Nothing == \A S : << >> \in Seq(S) /\ Len(<< >>) = 0
BY EmptySeq

LEMMA Pair ==
  ASSUME NEW S, NEW a \in S, NEW b \in S, NEW t \in Seq(S), Len(t) = 2, t[1] = a, t[2] = b
  PROVE  t = <<a, b>>
<1>1. <<a, b>> \in Seq(S) /\ Len(<<a, b>>) = 2 /\ <<a, b>>[1] = a /\ <<a, b>>[2] = b
  OBVIOUS
<1>2. \A i \in 1..Len(t) : t[i] = <<a, b>>[i]
  BY <1>1
<1> QED BY <1>1, <1>2, SeqEqual

LEMMA Triple ==
  ASSUME NEW S, NEW a \in S, NEW b \in S, NEW c \in S, NEW t \in Seq(S),
         Len(t) = 3, t[1] = a, t[2] = b, t[3] = c
  PROVE  t = <<a, b, c>>
<1>1. /\ <<a, b, c>> \in Seq(S) /\ Len(<<a, b, c>>) = 3
      /\ <<a, b, c>>[1] = a /\ <<a, b, c>>[2] = b /\ <<a, b, c>>[3] = c
  OBVIOUS
<1>2. \A i \in 1..Len(t) : t[i] = <<a, b, c>>[i]
  BY <1>1
<1> QED BY <1>1, <1>2, SeqEqual

LEMMA AppendShort ==
  ASSUME NEW S, NEW a \in S, NEW b \in S, NEW c \in S
  PROVE  /\ Append(<< >>, a) = <<a>>
         /\ Append(<<a>>, b) = <<a, b>>
         /\ Append(<<a, b>>, c) = <<a, b, c>>
<1>1. Append(<< >>, a) = <<a>>
  OBVIOUS
<1>2. Append(<<a>>, b) = <<a, b>>
  <2>1. /\ Append(<<a>>, b) \in Seq(S) /\ Len(Append(<<a>>, b)) = 2
        /\ Append(<<a>>, b)[1] = a /\ Append(<<a>>, b)[2] = b
    BY AppendProperties
  <2> QED BY <2>1, Pair
<1>3. Append(<<a, b>>, c) = <<a, b, c>>
  <2>1. /\ Append(<<a, b>>, c) \in Seq(S) /\ Len(Append(<<a, b>>, c)) = 3
        /\ Append(<<a, b>>, c)[1] = a /\ Append(<<a, b>>, c)[2] = b
        /\ Append(<<a, b>>, c)[3] = c
    BY AppendProperties
  <2> QED BY <2>1, Triple
<1> QED BY <1>1, <1>2, <1>3

LEMMA ShortTails ==
  \A a, b, c : /\ Head(<<a>>) = a /\ Head(<<a, b>>) = a /\ Head(<<a, b, c>>) = a
               /\ Tail(<<a>>) = << >> /\ Tail(<<a, b>>) = <<b>> /\ Tail(<<a, b, c>>) = <<b, c>>
               /\ <<a>> # << >> /\ <<a, b>> # << >> /\ <<a, b, c>> # << >>
OBVIOUS

LEMMA AppendedIn ==
  ASSUME NEW S, NEW s \in Seq(S), NEW x \in S
  PROVE  /\ Append(s, x) \in Seq(S) /\ Append(s, x) # << >>
         /\ Len(Append(s, x)) = Len(s) + 1 /\ Append(s, x)[Len(s) + 1] = x
         /\ \A i \in 1..Len(s) : Append(s, x)[i] = s[i]
BY AppendProperties

LEMMA TailIn ==
  ASSUME NEW S, NEW s \in Seq(S), s # << >>
  PROVE  /\ Tail(s) \in Seq(S) /\ Head(s) \in S /\ Head(s) = s[1]
         /\ Len(Tail(s)) = Len(s) - 1 /\ Len(s) \in Nat \ {0}
         /\ \A i \in 1..(Len(s) - 1) : Tail(s)[i] = s[i + 1]
BY HeadTailProperties, LenProperties, EmptySeq

-----------------------------------------------------------------------------
(* Messages and lines *)

LEMMA OrdersAre ==
  /\ ACKD \in Orders /\ ACKD.cmd = "ACKD"
  /\ \A r \in Replies : /\ Reply(r) \in Orders /\ Reply(r).cmd = "DATA"
                        /\ Reply(r).data = <<r>> /\ Reply(r).data \in Seq(Replies)
                        /\ Reply(r) # ACKD
  /\ \A r, q \in Replies : Reply(r) = Reply(q) => r = q
  /\ \A o \in Orders : o = ACKD \/ \E r \in Replies : o = Reply(r)
BY DEF Orders, Reply, ACKD, Bare, Block

LEMMA ReportsAre ==
  /\ DISC.cmd = "DISC" /\ IsReport(DISC)
  /\ \A c \in Clients : Call(c).cmd = "CNCT" /\ Call(c).data[1] = c /\ IsReport(Call(c))
  /\ \A s : Stretch(s) /\ s # << >> => /\ IsReport(Block("DATA", s))
                                       /\ Block("DATA", s).cmd = "DATA"
                                       /\ Block("DATA", s).data = s
  /\ \A b : IsReport(b) => b \in Reports /\ b.cmd \in {"CNCT", "DATA", "DISC"}
<1>1. DISC.cmd = "DISC" /\ IsReport(DISC)
  BY Nothing DEF DISC, Bare, Block, IsReport, Reports
<1>2. ASSUME NEW c \in Clients
      PROVE  Call(c).cmd = "CNCT" /\ Call(c).data[1] = c /\ IsReport(Call(c))
  BY DEF Call, Block, IsReport, Reports
<1>3. ASSUME NEW s, Stretch(s), s # << >>
      PROVE  /\ IsReport(Block("DATA", s)) /\ Block("DATA", s).cmd = "DATA"
             /\ Block("DATA", s).data = s
  <2>1. s \in Seq(Kinds \cup Clients)
    BY <1>3, SeqMonotonic DEF Stretch
  <2> QED BY <1>3, <2>1 DEF Block, IsReport, Reports
<1>4. \A b : IsReport(b) => b \in Reports /\ b.cmd \in {"CNCT", "DATA", "DISC"}
  BY DEF IsReport, Reports
<1> QED BY <1>1, <1>2, <1>3, <1>4

LEMMA FewReports ==
  /\ << >> \in Seq(Reports) /\ \A i \in 1..Len(<< >>) : IsReport(<< >>[i])
  /\ \A b : IsReport(b) => <<b>> \in Seq(Reports) /\ \A i \in 1..Len(<<b>>) : IsReport(<<b>>[i])
<1>1. << >> \in Seq(Reports) /\ \A i \in 1..Len(<< >>) : IsReport(<< >>[i])
  BY Nothing
<1>2. ASSUME NEW b, IsReport(b)
      PROVE  <<b>> \in Seq(Reports) /\ \A i \in 1..Len(<<b>>) : IsReport(<<b>>[i])
  <2>1. b \in Reports
    BY <1>2, ReportsAre
  <2> QED BY <1>2, <2>1
<1> QED BY <1>1, <1>2

LEMMA KindsAre ==
  /\ Kinds \subseteq {"part", "known", "unknown", "mail", "eob"}
  /\ "mail" \in Kinds => "mail" \in Pieces
  /\ "unknown" \in Kinds => "unknown" \in Pieces
  /\ "part" \in Kinds /\ "eob" \in Kinds
BY PiecesAssumption DEF Kinds

LEMMA LinesFinite ==
  ASSUME NEW s \in Seq(Kinds)
  PROVE  /\ IsFiniteSet(Lines(s)) /\ Cardinality(Lines(s)) \in Nat /\ Lines(s) \subseteq 1..Len(s)
         /\ s = << >> => Cardinality(Lines(s)) = 0
<1>1. Len(s) \in Nat /\ Lines(s) \subseteq 1..Len(s)
  BY LenProperties DEF Lines
<1>2. IsFiniteSet(1..Len(s))
  BY <1>1, FS_Interval
<1>3. IsFiniteSet(Lines(s))
  BY <1>1, <1>2, FS_Subset
<1>4. s = << >> => Lines(s) = {}
  BY <1>1
<1> QED BY <1>1, <1>3, <1>4, FS_CardinalityType, FS_EmptySet

\* A client says one more piece.
LEMMA SaysMore ==
  ASSUME NEW s \in Seq(Kinds), NEW p \in Kinds
  PROVE  /\ p = "part" => Lines(Append(s, p)) = Lines(s)
         /\ p # "part" => /\ Lines(Append(s, p)) = Lines(s) \cup {Len(s) + 1}
                          /\ Cardinality(Lines(Append(s, p))) = Cardinality(Lines(s)) + 1
<1>1. PICK t \in Seq(Kinds) : t = Append(s, p)
  BY AppendedIn
<1>2. PICK n \in Nat : n = Len(s)
  BY LenProperties
<1>3. DOMAIN s = 1..n /\ DOMAIN t = 1..(n + 1) /\ t[n + 1] = p /\ \A i \in 1..n : t[i] = s[i]
  BY <1>1, <1>2, AppendedIn, LenProperties
<1>4. \A i : i \in 1..(n + 1) <=> i \in 1..n \/ i = n + 1
  BY <1>2
<1>5. p = "part" => Lines(t) = Lines(s)
  BY <1>3, <1>4 DEF Lines
<1>6. p # "part" => Lines(t) = Lines(s) \cup {n + 1}
  BY <1>3, <1>4 DEF Lines
<1>7. n + 1 \notin Lines(s)
  BY <1>2, LinesFinite
<1>8. Cardinality(Lines(s) \cup {n + 1}) = Cardinality(Lines(s)) + 1
  BY <1>7, LinesFinite, FS_AddElement
<1> QED BY <1>1, <1>2, <1>5, <1>6, <1>8

LEMMA SaidMore ==
  ASSUME NEW c \in Clients, said \in [Clients -> Seq(Kinds)], NEW p \in Kinds,
         said' = [said EXCEPT ![c] = Append(@, p)]
  PROVE  /\ Asked(c)' = IF p = "part" THEN Asked(c) ELSE Asked(c) + 1
         /\ \A q : LastLine(c, q)' <=> IF p = "part" THEN LastLine(c, q) ELSE q = p
         /\ Refused(c) => Refused(c)'
<1>1. PICK s \in Seq(Kinds) : s = said[c]
  OBVIOUS
<1>2. PICK t \in Seq(Kinds) : t = Append(s, p)
  BY AppendedIn
<1>3. said'[c] = t
  BY <1>1, <1>2
<1>4. PICK n \in Nat : n = Len(s)
  BY LenProperties
<1>5. /\ Len(t) = n + 1 /\ t[n + 1] = p /\ \A i \in 1..n : t[i] = s[i]
      /\ Lines(s) \subseteq 1..n
  BY <1>2, <1>4, AppendedIn, LinesFinite
<1>6. Asked(c)' = IF p = "part" THEN Asked(c) ELSE Asked(c) + 1
  BY <1>1, <1>2, <1>3, SaysMore DEF Asked
<1>7. ASSUME NEW q
      PROVE  LastLine(c, q)' <=> IF p = "part" THEN LastLine(c, q) ELSE q = p
  <2>1. LastLine(c, q)' <=> \E i \in Lines(t) : t[i] = q /\ \A j \in Lines(t) : j <= i
    BY <1>3 DEF LastLine
  <2>2. LastLine(c, q) <=> \E i \in Lines(s) : s[i] = q /\ \A j \in Lines(s) : j <= i
    BY <1>1 DEF LastLine
  <2>3. CASE p = "part"
    <3>1. Lines(t) = Lines(s)
      BY <1>2, <2>3, SaysMore
    <3> QED BY <1>5, <2>1, <2>2, <2>3, <3>1
  <2>4. CASE p # "part"
    <3>1. Lines(t) = Lines(s) \cup {n + 1}
      BY <1>2, <1>4, <2>4, SaysMore
    <3>2. \A j \in Lines(t) : j <= n + 1 /\ (n + 1 <= j => j = n + 1)
      BY <1>5, <3>1
    <3> QED BY <1>5, <2>1, <2>4, <3>1, <3>2
  <2> QED BY <2>3, <2>4
<1>8. Refused(c) => Refused(c)'
  <2>1. \A i \in 1..n : i \in 1..(n + 1)
    OBVIOUS
  <2> QED BY <1>1, <1>3, <1>4, <1>5, <2>1 DEF Refused
<1> QED BY <1>6, <1>7, <1>8

LEMMA LastLineIs ==
  ASSUME NEW c \in Clients, said \in [Clients -> Seq(Kinds)], NEW p, LastLine(c, p)
  PROVE  /\ \A q : LastLine(c, q) => p = q
         /\ p # "part" /\ said[c] # << >>
         /\ \E i \in 1..Len(said[c]) : said[c][i] = p
<1>1. PICK s \in Seq(Kinds) : s = said[c]
  OBVIOUS
<1>2. Lines(s) \subseteq 1..Len(s) /\ Len(s) \in Nat
  BY LinesFinite, LenProperties
<1>3. PICK i \in Lines(s) : s[i] = p /\ \A j \in Lines(s) : j <= i
  BY <1>1 DEF LastLine
<1>4. \A q : LastLine(c, q) => p = q
  BY <1>1, <1>2, <1>3 DEF LastLine
<1> QED BY <1>1, <1>2, <1>3, <1>4 DEF Lines

\* What the server has put together is one line, and it knows which.
LEMMA TextIs ==
  ASSUME full \in Seq(Kinds), \A i \in 1..Len(full) : full[i] = "part",
         NEW data, Stretch(data), data # << >>,
         NEW text, text = full \o data
  PROVE  /\ text \in Seq(Kinds) /\ text[Len(text)] = Final(data)
         /\ Final(data) \in Kinds
         /\ Final(data) = "part" => \A i \in 1..Len(text) : text[i] = "part"
         /\ Final(data) # "part" =>
              \A line \in {"known", "mail"} : OneLine(text, line) <=> Final(data) = line
<1>1. PICK m \in Nat, n \in Nat \ {0} : m = Len(full) /\ n = Len(data)
  <2>1. Len(full) \in Nat /\ Len(data) \in Nat /\ Len(data) # 0
    BY LenProperties, EmptySeq DEF Stretch
  <2> QED BY <2>1
<1>2. /\ text \in Seq(Kinds) /\ Len(text) = m + n
      /\ \A i \in 1..(m + n) : text[i] = IF i <= m THEN full[i] ELSE data[i - m]
  BY <1>1, ConcatProperties DEF Stretch
<1>3. DOMAIN text = 1..(m + n)
  BY <1>2, LenProperties
<1>4. text[m + n] = data[n] /\ data[n] \in Kinds /\ m + n \in 1..(m + n)
  BY <1>1, <1>2, ElementOfSeq DEF Stretch
<1>5. \A i \in 1..(m + n) : i # m + n => text[i] = "part"
  <2> TAKE i \in 1..(m + n)
  <2> HAVE i # m + n
  <2>1. CASE i <= m
    BY <1>1, <1>2, <2>1
  <2>2. CASE i > m
    <3>1. i - m \in 1..(n - 1)
      BY <1>1, <2>2
    <3> QED BY <1>1, <1>2, <2>2, <3>1 DEF Stretch
  <2> QED BY <1>1, <2>1, <2>2
<1>6. Final(data) = data[n]
  BY <1>1 DEF Final
<1>7. ASSUME data[n] # "part", NEW line
      PROVE  OneLine(text, line) <=> data[n] = line
  <2>1. Lines(text) = {m + n}
    BY <1>3, <1>4, <1>5, <1>7 DEF Lines
  <2> QED BY <1>3, <1>4, <2>1 DEF OneLine
<1>8. data[n] = "part" => \A i \in 1..(m + n) : text[i] = "part"
  BY <1>4, <1>5
<1> QED BY <1>2, <1>4, <1>6, <1>7, <1>8

\* sread takes some of what has arrived.
First(s, n) == SubSeq(s, 1, n)
Rest(s, n) == SubSeq(s, n + 1, Len(s))

LEMMA CutLine ==
  ASSUME NEW s, Stretch(s), s # << >>, NEW n \in 1..Len(s)
  PROVE  /\ Stretch(First(s, n)) /\ First(s, n) # << >> /\ Stretch(Rest(s, n))
         /\ Ends(First(s, n)) => /\ Ends(s) /\ Final(First(s, n)) = Final(s)
                                 /\ Rest(s, n) = << >>
         /\ Ends(Rest(s, n)) => /\ Ends(s) /\ Final(Rest(s, n)) = Final(s)
                                /\ ~Ends(First(s, n))
         /\ Ends(s) => Ends(First(s, n)) \/ Ends(Rest(s, n))
<1>a. PICK a, b : a = First(s, n) /\ b = Rest(s, n)
  OBVIOUS
<1>1. PICK m \in Nat \ {0} : m = Len(s)
  <2>1. Len(s) \in Nat /\ Len(s) # 0
    BY LenProperties, EmptySeq DEF Stretch
  <2> QED BY <2>1
<1>2. \A i \in 1..m : s[i] \in Kinds
  BY <1>1, ElementOfSeq DEF Stretch
<1>3. /\ a \in Seq(Kinds) /\ Len(a) = n /\ \A i \in 1..n : a[i] = s[i]
  <2>1. \A i \in 1..n : s[i] \in Kinds
    BY <1>1, <1>2
  <2> QED BY <1>a, <1>1, <2>1, SubSeqProperties DEF Stretch, First
<1>4. /\ b \in Seq(Kinds) /\ Len(b) = m - n /\ \A i \in 1..(m - n) : b[i] = s[n + i]
  <2>1. \A i \in (n + 1)..m : s[i] \in Kinds
    BY <1>1, <1>2
  <2>2. n + 1 \in Int /\ m \in Int
    BY <1>1
  <2>3. b \in Seq(Kinds) /\ Len(b) = (IF n + 1 <= m THEN m - (n + 1) + 1 ELSE 0)
        /\ \A i \in 1..(m - (n + 1) + 1) : b[i] = s[(n + 1) + i - 1]
    BY <1>a, <1>1, <2>1, <2>2, SubSeqProperties DEF Stretch, Rest
  <2>4. \A i \in 1..(m - n) : (n + 1) + i - 1 = n + i
    BY <1>1
  <2> QED BY <1>1, <2>3, <2>4
<1>5. \A i \in 1..(m - 1) : s[i] = "part"
  BY <1>1 DEF Stretch
<1>6. Stretch(a) /\ a # << >>
  <2>1. n \in Nat /\ n # 0 /\ \A i \in 1..(n - 1) : i \in 1..(m - 1) /\ i \in 1..n
    BY <1>1
  <2>2. a # << >>
    BY <1>3, <2>1, Nothing
  <2>3. \A i \in 1..(Len(a) - 1) : a[i] = "part"
    BY <1>3, <1>5, <2>1
  <2> QED BY <1>3, <2>2, <2>3 DEF Stretch
<1>7. Stretch(b)
  <2>1. \A i \in 1..(m - n - 1) : n + i \in 1..(m - 1) /\ i \in 1..(m - n)
    BY <1>1
  <2> QED BY <1>1, <1>4, <1>5, <2>1 DEF Stretch
<1>8. CASE n = m
  <2>1. b = << >>
    BY <1>1, <1>4, <1>8, EmptySeq
  <2>2. Final(a) = Final(s)
    BY <1>1, <1>3, <1>8 DEF Final
  <2>3. ~Ends(b) /\ (Ends(a) <=> Ends(s))
    BY <1>6, <2>1, <2>2 DEF Ends
  <2> QED BY <1>a, <1>6, <1>7, <2>1, <2>2, <2>3
<1>9. CASE n < m
  <2>1. Final(a) = "part"
    <3>1. n \in 1..(m - 1) /\ n \in 1..n
      BY <1>1, <1>9
    <3> QED BY <1>3, <1>5, <3>1 DEF Final
  <2>2. Final(b) = Final(s) /\ b # << >>
    <3>1. m - n \in 1..(m - n) /\ n + (m - n) = m /\ m - n # 0
      BY <1>1, <1>9
    <3>2. b[m - n] = s[m] /\ Len(b) = m - n
      BY <1>4, <3>1
    <3> QED BY <1>1, <3>1, <3>2, Nothing DEF Final
  <2>3. ~Ends(a) /\ (Ends(b) <=> Ends(s))
    BY <2>1, <2>2 DEF Ends
  <2> QED BY <1>a, <1>6, <1>7, <2>2, <2>3
<1>10. n = m \/ n < m
  BY <1>1
<1> QED BY <1>a, <1>8, <1>9, <1>10

LEMMA EndsEmpty == ~Ends(<< >>) /\ Stretch(<< >>)
BY Nothing DEF Ends, Stretch

\* What is under way, when sockfilt writes a block that ends no line,
LEMMA CarriedAppend ==
  ASSUME NEW out \in Seq(Reports), NEW s, NEW b \in Reports, ~CarriedIn(b)
  PROVE  /\ \A p : Carried(Append(out, b), s, p) <=> Carried(out, s, p)
         /\ CarriedOnce(out, s) => CarriedOnce(Append(out, b), s)
<1>1. PICK t \in Seq(Reports), n \in Nat : t = Append(out, b) /\ n = Len(out)
  <2>1. Append(out, b) \in Seq(Reports) /\ Len(out) \in Nat
    BY AppendedIn, LenProperties
  <2> QED BY ONLY <2>1
<1>2. Len(t) = n + 1 /\ t[n + 1] = b /\ \A i \in 1..n : t[i] = out[i]
  BY <1>1, AppendedIn
<1>3. \A i : i \in 1..(n + 1) <=> i \in 1..n \/ i = n + 1
  BY <1>1
<1>4. \A i \in 1..(n + 1) : CarriedIn(t[i]) => i \in 1..n /\ t[i] = out[i]
  BY <1>2, <1>3
<1>5. \A p : Carried(t, s, p) <=> Carried(out, s, p)
  BY <1>1, <1>2, <1>3, <1>4 DEF Carried
<1>6. CarriedOnce(out, s) => CarriedOnce(t, s)
  BY <1>1, <1>2, <1>4 DEF CarriedOnce
<1> QED BY <1>1, <1>5, <1>6

\* some of what has arrived,
LEMMA CarriedCut ==
  ASSUME NEW out \in Seq(Reports), NEW s, Stretch(s), s # << >>, CarriedOnce(out, s),
         NEW n \in 1..Len(s)
  PROVE  /\ \A p : Carried(Append(out, Block("DATA", First(s, n))), Rest(s, n), p)
                     <=> Carried(out, s, p)
         /\ CarriedOnce(Append(out, Block("DATA", First(s, n))), Rest(s, n))
<1>a. PICK a, b : a = First(s, n) /\ b = Rest(s, n)
  OBVIOUS
<1>c. /\ Stretch(a) /\ a # << >> /\ Stretch(b)
      /\ Ends(a) => Ends(s) /\ Final(a) = Final(s) /\ b = << >>
      /\ Ends(b) => Ends(s) /\ Final(b) = Final(s) /\ ~Ends(a)
      /\ Ends(s) => Ends(a) \/ Ends(b)
  BY <1>a, CutLine
<1>1. PICK d \in Reports : d = Block("DATA", a) /\ d.cmd = "DATA" /\ d.data = a
  BY <1>c, ReportsAre
<1>2. PICK t \in Seq(Reports), k \in Nat : t = Append(out, d) /\ k = Len(out)
  <2>1. Append(out, d) \in Seq(Reports) /\ Len(out) \in Nat
    BY AppendedIn, LenProperties
  <2> QED BY ONLY <2>1
<1>3. Len(t) = k + 1 /\ t[k + 1] = d /\ \A i \in 1..k : t[i] = out[i]
  BY <1>2, AppendedIn
<1>4. \A i : i \in 1..(k + 1) <=> i \in 1..k \/ i = k + 1
  BY <1>2
<1>5. CarriedIn(d) <=> Ends(a)
  BY <1>1 DEF CarriedIn
<1>6. \A p : Carried(t, b, p) <=> Carried(out, s, p)
  <2> TAKE p
  <2>1. Carried(t, b, p) <=> \/ Ends(b) /\ p = Final(b)
                             \/ Ends(a) /\ p = Final(a)
                             \/ \E i \in 1..k : CarriedIn(out[i]) /\ p = Final(out[i].data)
    BY <1>1, <1>3, <1>4, <1>5 DEF Carried
  <2>2. Carried(out, s, p) <=> \/ Ends(s) /\ p = Final(s)
                               \/ \E i \in 1..k : CarriedIn(out[i]) /\ p = Final(out[i].data)
    BY <1>2 DEF Carried
  <2> QED BY <1>c, <2>1, <2>2
<1>7. CarriedOnce(t, b)
  <2>1. \A i \in 1..k : CarriedIn(out[i]) => /\ ~Ends(s)
                                             /\ \A j \in 1..k : CarriedIn(out[j]) => i = j
    BY <1>2 DEF CarriedOnce
  <2>2. ASSUME NEW i \in 1..(k + 1), CarriedIn(t[i])
        PROVE  ~Ends(b) /\ \A j \in 1..(k + 1) : CarriedIn(t[j]) => i = j
    <3>1. CASE i \in 1..k
      <4>1. CarriedIn(out[i]) /\ ~Ends(s)
        BY <1>3, <2>1, <2>2, <3>1
      <4>2. ~Ends(a) /\ ~Ends(b)
        BY <1>c, <4>1
      <4> QED BY <1>3, <1>4, <1>5, <2>1, <3>1, <4>1, <4>2
    <3>2. CASE i = k + 1
      <4>1. Ends(a)
        BY <1>3, <1>5, <2>2, <3>2
      <4>2. Ends(s) /\ ~Ends(b)
        BY <1>c, <4>1
      <4> QED BY <1>3, <1>4, <2>1, <3>2, <4>2
    <3> QED BY <1>4, <3>1, <3>2
  <2> QED BY <1>3, <2>2 DEF CarriedOnce
<1> QED BY <1>a, <1>1, <1>2, <1>6, <1>7

\* the server reads a block,
LEMMA CarriedTail ==
  ASSUME NEW out \in Seq(Reports), NEW s, out # << >>
  PROVE  /\ \A p : Carried(Tail(out), s, p) => Carried(out, s, p)
         /\ CarriedOnce(out, s) => CarriedOnce(Tail(out), s)
         /\ ~CarriedIn(Head(out)) => \A p : Carried(out, s, p) => Carried(Tail(out), s, p)
         /\ CarriedIn(Head(out)) =>
              /\ Carried(out, s, Final(Head(out).data))
              /\ CarriedOnce(out, s) => \A p : ~Carried(Tail(out), s, p)
<1>1. PICK t \in Seq(Reports), n \in Nat \ {0} : t = Tail(out) /\ n = Len(out)
  <2>1. Tail(out) \in Seq(Reports) /\ Len(out) \in Nat \ {0}
    BY TailIn
  <2> QED BY ONLY <2>1
<1>2. Len(t) = n - 1 /\ Head(out) = out[1] /\ \A i \in 1..(n - 1) : t[i] = out[i + 1]
  BY <1>1, TailIn
<1>3. /\ \A i \in 1..(n - 1) : i + 1 \in 1..n /\ i + 1 # 1
      /\ \A i \in 1..n : i = 1 \/ (i - 1 \in 1..(n - 1) /\ (i - 1) + 1 = i)
      /\ \A i, j \in 1..(n - 1) : i + 1 = j + 1 => i = j
      /\ 1 \in 1..n
  BY <1>1
<1>4. \A p : Carried(t, s, p) => Carried(out, s, p)
  BY <1>1, <1>2, <1>3 DEF Carried
<1>5. CarriedOnce(out, s) => CarriedOnce(t, s)
  <2> SUFFICES ASSUME CarriedOnce(out, s), NEW i \in 1..(n - 1), CarriedIn(t[i])
               PROVE  ~Ends(s) /\ \A j \in 1..(n - 1) : CarriedIn(t[j]) => i = j
    BY <1>2 DEF CarriedOnce
  <2> QED BY <1>1, <1>2, <1>3 DEF CarriedOnce
<1>6. ~CarriedIn(out[1]) => \A p : Carried(out, s, p) => Carried(t, s, p)
  BY <1>1, <1>2, <1>3 DEF Carried
<1>7. ASSUME CarriedIn(out[1])
      PROVE  /\ Carried(out, s, Final(out[1].data))
             /\ CarriedOnce(out, s) => \A p : ~Carried(t, s, p)
  <2>1. Carried(out, s, Final(out[1].data))
    BY <1>1, <1>3, <1>7 DEF Carried
  <2>2. ASSUME CarriedOnce(out, s), NEW p, Carried(t, s, p)
        PROVE  FALSE
    <3>1. ~Ends(s) /\ \A j \in 1..n : CarriedIn(out[j]) => j = 1
      BY <1>1, <1>3, <1>7, <2>2 DEF CarriedOnce
    <3>2. PICK i \in 1..(n - 1) : CarriedIn(t[i])
      BY <1>2, <2>2, <3>1 DEF Carried
    <3> QED BY <1>2, <1>3, <3>1, <3>2
  <2> QED BY <2>1, <2>2
<1> QED BY <1>1, <1>2, <1>4, <1>5, <1>6, <1>7

\* and the client says more or loses what it has said.
LEMMA CarriedSaid ==
  ASSUME NEW out \in Seq(Reports), NEW s \in Seq(Kinds), NEW p \in Kinds,
         \A q \in Kinds : ~Carried(out, s, q), \A i \in 1..Len(out) : IsReport(out[i]),
         Stretch(s)
  PROVE  /\ Stretch(Append(s, p)) /\ CarriedOnce(out, Append(s, p))
         /\ \A q : Carried(out, Append(s, p), q) <=> p # "part" /\ q = p
<1>1. PICK t \in Seq(Kinds), n \in Nat : t = Append(s, p) /\ n = Len(s)
  <2>1. Append(s, p) \in Seq(Kinds) /\ Len(s) \in Nat
    BY AppendedIn, LenProperties
  <2> QED BY ONLY <2>1
<1>2. Len(t) = n + 1 /\ t[n + 1] = p /\ t # << >> /\ \A i \in 1..n : t[i] = s[i]
  BY <1>1, AppendedIn
<1>3. ~Ends(s)
  <2>1. s # << >> => Final(s) \in Kinds
    BY LenProperties, EmptySeq, ElementOfSeq DEF Final
  <2> QED BY <2>1 DEF Carried, Ends
<1>4. \A i \in 1..Len(out) : ~CarriedIn(out[i])
  <2>1. ASSUME NEW i \in 1..Len(out), CarriedIn(out[i])
        PROVE  FALSE
    <3>1. out[i].data \in Seq(Kinds) /\ out[i].data # << >>
      BY <2>1 DEF CarriedIn, IsReport, Stretch
    <3>2. Final(out[i].data) \in Kinds
      BY <3>1, LenProperties, EmptySeq, ElementOfSeq DEF Final
    <3> QED BY <2>1, <3>2 DEF Carried
  <2> QED BY <2>1
<1>5. Stretch(t)
  <2>1. \A i \in 1..n : s[i] = "part"
    <3> TAKE i \in 1..n
    <3>1. CASE i = n
      BY <1>1, <1>3, <3>1, EmptySeq DEF Ends, Final
    <3>2. CASE i # n
      <4>1. i \in 1..(n - 1)
        BY <1>1, <3>2
      <4> QED BY <1>1, <4>1 DEF Stretch
    <3> QED BY <3>1, <3>2
  <2> QED BY <1>1, <1>2, <2>1 DEF Stretch
<1>6. Final(t) = p
  BY <1>1, <1>2 DEF Final
<1> QED BY <1>1, <1>4, <1>5, <1>6 DEF Carried, CarriedOnce, Ends

LEMMA CarriedLost ==
  ASSUME NEW out \in Seq(Reports), NEW s
  PROVE  /\ \A p : Carried(out, << >>, p) => Carried(out, s, p)
         /\ CarriedOnce(out, s) => CarriedOnce(out, << >>)
BY EndsEmpty DEF Carried, CarriedOnce

-----------------------------------------------------------------------------
(* The beginning *)

LEMMA InitInv == Init => Inv
<1> SUFFICES ASSUME Init PROVE Inv
  OBVIOUS
<1> USE DEF Init, SockfiltInit, Listening
<1>1. ProcessOK
  BY ClientsAssumption DEF ProcessOK, Shaking
<1>2. PipesOK
  BY Nothing DEF PipesOK
<1>3. HarnessOK
  <2>1. full \in Seq(Kinds) /\ Len(full) = 0
    BY Nothing
  <2>2. \A i \in 1..Len(full) : full[i] = "part"
    BY <2>1
  <2>3. hpc = "idle" /\ serverlogslocked = FALSE /\ session = NoClient
    OBVIOUS
  <2> QED BY ONLY <2>1, <2>2, <2>3 DEF HarnessOK
<1>4. ClientsOK
  <2>1. client \in [Clients -> {"new", "open", "closed"}]
    <3>1. client = [c \in Clients |-> "new"]
      OBVIOUS
    <3> QED BY ONLY <3>1
  <2>2. /\ up \in [Clients -> Seq(Kinds)] /\ \A c \in Clients : Stretch(up[c])
        /\ down \in [Clients -> Seq(Replies)] /\ said \in [Clients -> Seq(Kinds)]
        /\ \A c \in Clients : up[c] = << >> /\ down[c] = << >> /\ said[c] = << >>
    BY Nothing, EndsEmpty
  <2>3. conn \notin Clients
    BY ClientsAssumption
  <2> QED BY <2>1, <2>2, <2>3 DEF ClientsOK
<1>5. BacklogOK
  BY Nothing DEF BacklogOK
<1>6. Shape
  BY ClientsAssumption DEF Shape, Free, Shaking
<1> QED BY <1>1, <1>2, <1>3, <1>4, <1>5, <1>6 DEF Inv, Typed

-----------------------------------------------------------------------------
(* The steps of sockfilt *)

LEMMA GotoIs ==
  ASSUME Typed, NEW label, Goto(label)
  PROVE  /\ spc' = label /\ ready' \in BOOLEAN
         /\ ready' => ready /\ label \in {"stdin", "handshake"}
BY DEF Goto, Typed, ProcessOK

\* A write that fails is the end of the process.
LEMMA WriteGoes ==
  ASSUME Typed, NEW b, NEW label, WriteStdout(b, label)
  PROVE  /\ spc' \in {label, "ended"} /\ ready' \in BOOLEAN
         /\ ready' => ready /\ spc' \in {"stdin", "handshake"}
         /\ stdout' = stdout \/ stdout' = Append(stdout, b)
         /\ Ended' \/ (spc' = label /\ stdout' = Append(stdout, b))
BY GotoIs DEF WriteStdout, Ended

LEMMA ReadIs ==
  ASSUME Typed, NEW label, ReadStdin(label)
  PROVE  /\ spc = label /\ stdin # << >> /\ stdin' = Tail(stdin) /\ stdin' \in Seq(Orders)
         /\ Command = "ACKD" => Head(stdin) = ACKD
         /\ Command = "DATA" => \E r \in Replies : Head(stdin) = Reply(r)
         /\ Command \in {"ACKD", "DATA"}
<1>1. stdin \in Seq(Orders) /\ spc = label /\ stdin # << >> /\ stdin' = Tail(stdin)
  BY DEF ReadStdin, Typed, PipesOK
<1>2. stdin' \in Seq(Orders) /\ Head(stdin) \in Orders
  BY <1>1, TailIn
<1> QED BY <1>1, <1>2, OrdersAre DEF Command

LEMMA AfterStdinIs ==
  /\ AfterStdin \in {"socket", "juggle"} /\ (AfterStdin = "socket" <=> ready)
BY DEF AfterStdin

\* What select has found readable stays so until it is read.
LEMMA StillReadable ==
  ASSUME Typed, SocketReadable, UNCHANGED <<mode, conn>>,
         mode = "PASSIVE_LISTEN" => Len(backlog) <= Len(backlog'),
         backlog' \in Seq(Clients),
         conn \in Clients => /\ client[conn] = "closed" => client'[conn] = "closed"
                             /\ up'[conn] = up[conn] \/ client[conn] = "closed"
                                  \/ up'[conn] # << >>
  PROVE  SocketReadable'
<1>1. CASE mode = "PASSIVE_LISTEN"
  <2>1. backlog # << >> /\ backlog \in Seq(Clients)
    BY <1>1 DEF SocketReadable, Typed, BacklogOK
  <2>2. Len(backlog) \in Nat \ {0} /\ Len(backlog') \in Nat
    BY <2>1, TailIn, LenProperties
  <2>3. backlog' # << >>
    BY <1>1, <2>2, Nothing
  <2> QED BY <1>1, <2>3 DEF SocketReadable
<1>2. CASE mode # "PASSIVE_LISTEN"
  <2>1. conn \in Clients /\ (up[conn] # << >> \/ client[conn] = "closed")
    BY <1>2 DEF SocketReadable, Typed, ProcessOK
  <2> QED BY <1>2, <2>1 DEF SocketReadable
<1> QED BY <1>1, <1>2

\* Where they have got to does not depend on anything else.
LEMMA ShapeStays ==
  ASSUME Shape, UNCHANGED <<conn, hpc, stdin, stdout, up, down, said, session>>,
         ~Ended' => ~Ended /\ (Shaking' <=> Shaking),
         conn \in Clients => (client'[conn] = "open" => client[conn] = "open")
  PROVE  Shape'
<1> SUFFICES ASSUME ~Ended' PROVE (Free \/ Lost \/ Called \/ Acked \/ Talking)'
  BY DEF Shape
<1>1. Free \/ Lost \/ Called \/ Acked \/ Talking
  BY DEF Shape
<1>2. Shaking' <=> Shaking
  OBVIOUS
<1>3. CASE Free
  BY <1>2, <1>3 DEF Free, Late
<1>4. CASE Lost
  BY <1>2, <1>4 DEF Lost
<1>5. CASE Called
  BY <1>2, <1>5 DEF Called
<1>6. CASE Acked
  BY <1>2, <1>6 DEF Acked, Late
<1>7. CASE Talking
  <2>1. \A p : Asks(p)' <=> Asks(p)
    BY DEF Asks
  <2>2. /\ Asked(conn)' = Asked(conn) /\ (Refused(conn)' <=> Refused(conn))
        /\ InMail(conn)' = InMail(conn) /\ \A p : LastLine(conn, p)' = LastLine(conn, p)
    BY DEF Asked, Refused, InMail, LastLine
  <2>3. Answering'
    BY <1>7, <2>2 DEF Talking, Answering
  <2>4. Asking'
    BY <1>7, <2>1, <2>2 DEF Talking, Asking
  <2>5. Marks'
    BY <1>2, <1>7 DEF Talking, Marks
  <2>6. Turn'
    BY <1>2, <1>7, <2>1, <2>2 DEF Talking, Turn, Agreed
  <2> QED BY <1>7, <2>3, <2>4, <2>5, <2>6 DEF Talking
<1> QED BY <1>1, <1>3, <1>4, <1>5, <1>6, <1>7

\* The harness and what the clients have said.
LEMMA RestStays ==
  ASSUME Typed, UNCHANGED <<hpc, full, serverlogslocked, session, parent>>
  PROVE  HarnessOK'
BY DEF Typed, HarnessOK

LEMMA ClientsStay ==
  ASSUME Typed, UNCHANGED <<client, up, down, said>>, Ended => Ended',
         conn' = conn \/ (conn' \notin Clients
                          /\ (conn \in Clients => client[conn] = "closed" \/ Ended'))
  PROVE  ClientsOK'
BY DEF Typed, ClientsOK

LEMMA BacklogStays ==
  ASSUME Typed, UNCHANGED <<client, down, backlog>>, conn' = conn \/ conn' \notin Clients
  PROVE  BacklogOK'
<1>1. \A i \in 1..Len(backlog) : backlog[i] \in Clients
  BY ElementOfSeq DEF Typed, BacklogOK
<1> QED BY <1>1 DEF Typed, BacklogOK

\* A step of sockfilt leaves the server and what the clients say alone.
Aside == UNCHANGED <<harness, said, got_exit_signal, parent>>

LEMMA SelectStays == ASSUME Inv, Aside, Select PROVE Inv'
<1>1. /\ UNCHANGED <<mode, conn, stdin, stdout, client, backlog, up, down, got_exit_signal,
                     parent, hpc, full, serverlogslocked, session, said>>
      /\ spc = "juggle" /\ spc' = IF StdinReadable THEN "stdin" ELSE "socket"
      /\ ready' = (StdinReadable /\ SocketReadable)
      /\ StdinReadable \/ SocketReadable
  BY DEF Select, Aside, pipes, streams, harness
<1>2. SocketReadable' <=> SocketReadable
  BY <1>1 DEF SocketReadable
<1>3. ProcessOK'
  BY <1>1, <1>2 DEF Inv, Typed, ProcessOK, Shaking
<1>4. PipesOK' /\ HarnessOK' /\ ClientsOK' /\ BacklogOK'
  <2>1. ~Ended
    BY <1>1 DEF Ended
  <2> QED BY <1>1, <2>1, RestStays, ClientsStay, BacklogStays DEF Inv, Typed, PipesOK
<1>5. Shape'
  BY <1>1, ShapeStays DEF Inv, Ended, Shaking
<1> QED BY <1>3, <1>4, <1>5 DEF Inv, Typed

LEMMA EndStays == ASSUME Inv, Aside, Orphan \/ Signalled PROVE Inv'
<1>1. /\ UNCHANGED <<mode, conn, stdin, stdout, client, backlog, up, down, got_exit_signal,
                     parent, hpc, full, serverlogslocked, session, said>>
      /\ Goto("ended")
  BY DEF Orphan, Signalled, Aside, pipes, streams, harness
<1>2. spc' = "ended" /\ ready' = FALSE /\ Ended'
  BY <1>1 DEF Goto, Ended
<1>3. ProcessOK'
  BY <1>1, <1>2 DEF Inv, Typed, ProcessOK, Shaking
<1>4. PipesOK' /\ HarnessOK' /\ ClientsOK' /\ BacklogOK'
  BY <1>1, <1>2, RestStays, ClientsStay, BacklogStays DEF Inv, Typed, PipesOK
<1> QED BY <1>2, <1>3, <1>4 DEF Inv, Typed, Shape

LEMMA AcceptFailsStays == ASSUME Inv, Aside, AcceptFails PROVE Inv'
<1>1. /\ UNCHANGED <<mode, conn, stdin, stdout, client, up, down, got_exit_signal,
                     parent, hpc, full, serverlogslocked, session, said>>
      /\ spc = "socket" /\ backlog # << >> /\ backlog' = Tail(backlog) /\ Goto("juggle")
  BY DEF AcceptFails, AtSocket, Aside, pipes, streams, harness
<1>2. spc' = "juggle" /\ ready' = FALSE /\ ~Ended
  BY <1>1 DEF Goto, Ended
<1>3. ProcessOK'
  BY <1>1, <1>2 DEF Inv, Typed, ProcessOK, Shaking
<1>4. PipesOK' /\ HarnessOK' /\ ClientsOK'
  BY <1>1, <1>2, RestStays, ClientsStay DEF Inv, Typed, PipesOK
<1>5. BacklogOK'
  <2>1. PICK n \in Nat \ {0}, b \in Seq(Clients) :
          /\ n = Len(backlog) /\ b = Tail(backlog) /\ Len(b) = n - 1
          /\ \A i \in 1..(n - 1) : b[i] = backlog[i + 1]
    <3>1. backlog \in Seq(Clients)
      BY DEF Inv, Typed, BacklogOK
    <3>2. /\ Len(backlog) \in Nat \ {0} /\ Tail(backlog) \in Seq(Clients)
          /\ Len(Tail(backlog)) = Len(backlog) - 1
          /\ \A i \in 1..(Len(backlog) - 1) : Tail(backlog)[i] = backlog[i + 1]
      BY ONLY <1>1, <3>1, TailIn
    <3> QED BY ONLY <3>2
  <2>2. \A i, j \in 1..(n - 1) : i + 1 \in 1..n /\ (i + 1 = j + 1 => i = j)
    BY <2>1
  <2>3. \A i \in 1..(n - 1) :
          /\ client'[b[i]] # "new" /\ down'[b[i]] = << >> /\ b[i] # conn'
          /\ \A j \in 1..(n - 1) : b[i] = b[j] => i = j
    BY <1>1, <2>1, <2>2 DEF Inv, Typed, BacklogOK
  <2> QED BY <1>1, <2>1, <2>3 DEF BacklogOK
<1>6. Shape'
  BY <1>1, <1>2, ShapeStays DEF Inv, Ended, Shaking
<1> QED BY <1>3, <1>4, <1>5, <1>6 DEF Inv, Typed

\* What sockfilt passes on to the client it talks to.
Delivers(r) ==
  /\ \A c \in Clients \ {conn} : down'[c] = down[c]
  /\ \/ client[conn] = "open" /\ down'[conn] = Append(down[conn], r)
     \/ client[conn] # "open" /\ down' = down
  /\ r.text = "500" => Refused(conn)
  /\ "mail" \notin Pieces => r.to = conn /\ (r.text = "welcome" <=> down[conn] = << >>)

LEMMA StdinDataIs ==
  ASSUME Inv, Aside, StdinData
  PROVE  /\ conn \in Clients /\ Talking /\ down' \in [Clients -> Seq(Replies)]
         /\ \E r \in Replies : /\ stdin = <<Reply(r)>> /\ stdin' = << >> /\ Delivers(r)
                              /\ Len(down[conn]) <= Asked(conn)
<1>1. /\ UNCHANGED <<mode, conn, stdout, client, backlog, up, got_exit_signal,
                     parent, hpc, full, serverlogslocked, session, said>>
      /\ ReadStdin("stdin") /\ Command = "DATA" /\ mode # "PASSIVE_LISTEN" /\ Goto(AfterStdin)
      /\ down' = IF conn # NoClient /\ client[conn] = "open"
                   THEN [down EXCEPT ![conn] = @ \o Head(stdin).data] ELSE down
  BY DEF StdinData, Aside, harness
<1>2. /\ spc = "stdin" /\ stdin # << >> /\ stdin' = Tail(stdin) /\ stdin' \in Seq(Orders)
      /\ \E r \in Replies : Head(stdin) = Reply(r)
  BY <1>1, ReadIs DEF Inv
<1>3. conn \in Clients /\ ~Shaking /\ ~Ended /\ conn # NoClient
  BY <1>1, <1>2, ClientsAssumption DEF Inv, Typed, ProcessOK, Shaking, Ended
<1>5. Talking
  <2>1. Free \/ Lost \/ Called \/ Acked \/ Talking
    BY <1>3 DEF Inv, Shape
  <2> QED BY <1>2, <1>3, <2>1 DEF Free, Lost, Called, Acked
<1>6. PICK r \in Replies :
        /\ stdin = <<Reply(r)>> /\ Len(down[conn]) <= Asked(conn)
        /\ r.text = "500" => Refused(conn)
        /\ "mail" \notin Pieces => r.to = conn /\ (r.text = "welcome" <=> down[conn] = << >>)
  BY <1>2, <1>5 DEF Talking, Answering
<1>7. stdin' = << >> /\ Head(stdin).data = <<r>>
  BY <1>2, <1>6, ShortTails, OrdersAre
<1>8. \/ client[conn] = "open" /\ down' = [down EXCEPT ![conn] = @ \o <<r>>]
      \/ client[conn] # "open" /\ down' = down
  BY <1>1, <1>3, <1>7
<1>9. /\ down' \in [Clients -> Seq(Replies)] /\ \A c \in Clients \ {conn} : down'[c] = down[c]
      /\ \/ client[conn] = "open" /\ down'[conn] = Append(down[conn], r)
         \/ client[conn] # "open" /\ down' = down
  <2>1. down \in [Clients -> Seq(Replies)] /\ down[conn] \in Seq(Replies)
    BY <1>3 DEF Inv, Typed, ClientsOK
  <2>2. down[conn] \o <<r>> = Append(down[conn], r)
    BY <2>1, AppendIsConcat
  <2>3. Append(down[conn], r) \in Seq(Replies)
    BY <2>1, AppendedIn
  <2> QED BY <1>3, <1>8, <2>1, <2>2, <2>3
<1> QED BY <1>3, <1>5, <1>6, <1>7, <1>9 DEF Delivers

LEMMA StdinDataStays == ASSUME Inv, Aside, StdinData PROVE Inv'
<1>1. /\ UNCHANGED <<mode, conn, stdout, client, backlog, up, got_exit_signal,
                     parent, hpc, full, serverlogslocked, session, said>>
      /\ ReadStdin("stdin") /\ Command = "DATA" /\ mode # "PASSIVE_LISTEN" /\ Goto(AfterStdin)
      /\ down' = IF conn # NoClient /\ client[conn] = "open"
                   THEN [down EXCEPT ![conn] = @ \o Head(stdin).data] ELSE down
  BY DEF StdinData, Aside, harness
<1>2. /\ spc = "stdin" /\ stdin # << >> /\ stdin' = Tail(stdin) /\ stdin' \in Seq(Orders)
      /\ \E r \in Replies : Head(stdin) = Reply(r)
  BY <1>1, ReadIs DEF Inv
<1>3. conn \in Clients /\ ~Shaking /\ ~Ended /\ conn # NoClient
  BY <1>1, <1>2, ClientsAssumption DEF Inv, Typed, ProcessOK, Shaking, Ended
<1>4. /\ spc' = AfterStdin /\ ready' \in BOOLEAN /\ ~ready' /\ ~Ended' /\ ~Shaking'
      /\ spc' \in {"socket", "juggle"} /\ (spc' = "socket" <=> ready)
  BY <1>1, AfterStdinIs, GotoIs DEF Inv, Ended, Shaking
<1>5. Talking /\ down' \in [Clients -> Seq(Replies)]
  BY StdinDataIs
<1>6. PICK r \in Replies : /\ stdin = <<Reply(r)>> /\ stdin' = << >> /\ Delivers(r)
                         /\ Len(down[conn]) <= Asked(conn)
  BY StdinDataIs
<1>7. stdin' = << >>
  BY <1>6
<1>9. /\ down' \in [Clients -> Seq(Replies)] /\ \A c \in Clients \ {conn} : down'[c] = down[c]
      /\ \/ client[conn] = "open" /\ down'[conn] = Append(down[conn], r)
         \/ client[conn] # "open" /\ down' = down
  BY <1>5, <1>6 DEF Delivers
<1>10. /\ down'[conn] = << >> => down[conn] = << >>
       /\ Len(down[conn]) \in Nat
       /\ Len(down'[conn]) \in {Len(down[conn]), Len(down[conn]) + 1}
  <2>1. down[conn] \in Seq(Replies)
    BY <1>3 DEF Inv, Typed, ClientsOK
  <2> QED BY <1>9, <2>1, AppendedIn, LenProperties
<1>11. ProcessOK'
  <2>1. ready => SocketReadable'
    <3>1. ready => SocketReadable
      BY DEF Inv, Typed, ProcessOK
    <3>2. backlog' \in Seq(Clients) /\ Len(backlog) \in Nat
      BY <1>1, LenProperties DEF Inv, Typed, BacklogOK
    <3> QED BY <1>1, <3>1, <3>2, StillReadable DEF Inv
  <2> QED BY <1>1, <1>3, <1>4, <2>1 DEF Inv, Typed, ProcessOK, Shaking
<1>12. PipesOK' /\ HarnessOK'
  BY <1>1, <1>2, RestStays DEF Inv, Typed, PipesOK
<1>13. ClientsOK'
  <2>1. \A c \in Clients : /\ client[c] = "new" => down[c] = << >>
                           /\ down[c] = << >> => said[c] = << >> /\ up[c] = << >>
                           /\ client[c] = "open" /\ down[c] # << >> => c = conn
    BY <1>3 DEF Inv, Typed, ClientsOK
  <2>2. \A c \in Clients : /\ client[c] = "new" => down'[c] = << >>
                           /\ down'[c] = << >> => said[c] = << >> /\ up[c] = << >>
                           /\ client[c] = "open" /\ down'[c] # << >> => c = conn
    BY <1>3, <1>9, <1>10, <2>1
  <2> QED BY <1>1, <1>9, <2>2 DEF Inv, Typed, ClientsOK
<1>14. BacklogOK'
  <2>1. \A i \in 1..Len(backlog) : backlog[i] \in Clients /\ backlog[i] # conn
    BY ElementOfSeq DEF Inv, Typed, BacklogOK
  <2> QED BY <1>1, <1>9, <2>1 DEF Inv, Typed, BacklogOK
<1>15. Talking'
  <2>1. \A p : (Asks(p)' <=> Asks(p))
    BY <1>1 DEF Asks
  <2>2. /\ Asked(conn)' = Asked(conn) /\ (Refused(conn)' <=> Refused(conn))
        /\ InMail(conn)' = InMail(conn) /\ \A p : LastLine(conn, p)' = LastLine(conn, p)
    BY <1>1 DEF Asked, Refused, InMail, LastLine
  <2>3. Asked(conn) \in Nat
    BY <1>3, LinesFinite DEF Asked, Inv, Typed, ClientsOK
  <2>4. \A p \in Kinds : ~Asks(p)
    BY <1>2, <1>5 DEF Talking, Asking
  <2>5. Answering'
    BY <1>1, <1>6, <1>7, <1>10, <2>2, <2>3 DEF Answering
  <2>6. Asking'
    BY <1>1, <1>5, <2>1, <2>4 DEF Talking, Asking
  <2>7. Marks'
    BY <1>1, <1>3, <1>4, <1>5 DEF Talking, Marks
  <2>8. hpc # "received"
    BY <1>2, <1>5 DEF Talking, Turn
  <2>9. Turn'
    BY <1>1, <1>4, <1>5, <2>1, <2>2, <2>8 DEF Talking, Turn, Agreed
  <2> QED BY <1>1, <1>3, <2>5, <2>6, <2>7, <2>9 DEF Talking
<1> QED BY <1>11, <1>12, <1>13, <1>14, <1>15 DEF Inv, Typed, Shape

LEMMA StdinDataDisconnectedStays == ASSUME Inv, Aside, StdinDataDisconnected PROVE Inv'
<1>1. /\ UNCHANGED <<mode, conn, client, backlog, up, down, got_exit_signal,
                     parent, hpc, full, serverlogslocked, session, said>>
      /\ ReadStdin("stdin") /\ Command = "DATA" /\ mode = "PASSIVE_LISTEN"
      /\ WriteStdout(Bare("DISC"), "handshake")
  BY DEF StdinDataDisconnected, Aside, harness, streams
<1>2. /\ spc = "stdin" /\ stdin # << >> /\ stdin' = Tail(stdin) /\ stdin' \in Seq(Orders)
  BY <1>1, ReadIs DEF Inv
<1>3. conn \notin Clients /\ ~Shaking /\ ~Ended
  BY <1>1, <1>2 DEF Inv, Typed, ProcessOK, Shaking, Ended
<1>4. /\ spc' \in {"handshake", "ended"} /\ ready' \in BOOLEAN
      /\ ready' => ready /\ spc' \in {"stdin", "handshake"}
      /\ stdout' = stdout \/ stdout' = Append(stdout, DISC)
      /\ Ended' \/ (spc' = "handshake" /\ stdout' = Append(stdout, DISC))
  BY <1>1, WriteGoes DEF Inv, DISC
<1>5. Free /\ hpc = "session" /\ "mail" \in Pieces /\ stdout = << >> /\ stdin' = << >>
  <2>1. Free \/ Lost \/ Called \/ Acked \/ Talking
    BY <1>3 DEF Inv, Shape
  <2>2. Free
    BY <1>3, <2>1 DEF Lost, Called, Acked, Talking
  <2> QED BY <1>2, <2>2, ShortTails DEF Free, Late
<1>6. ProcessOK'
  <2>1. SocketReadable' <=> SocketReadable
    BY <1>1 DEF SocketReadable
  <2> QED BY <1>1, <1>3, <1>4, <2>1 DEF Inv, Typed, ProcessOK, Shaking
<1>7. stdout' = << >> \/ stdout' = <<DISC>>
  BY <1>4, <1>5, AppendShort
<1>8. PipesOK'
  <2>1. /\ stdout' \in Seq(Reports) /\ \A i \in 1..Len(stdout') : IsReport(stdout'[i])
    <3>1. IsReport(DISC)
      BY ReportsAre
    <3>2. CASE stdout' = << >>
      BY <3>2, FewReports
    <3>3. CASE stdout' = <<DISC>>
      BY <3>1, <3>3, FewReports
    <3> QED BY <1>7, <3>2, <3>3
  <2> QED BY <1>1, <1>2, <2>1 DEF Inv, Typed, PipesOK
<1>9. HarnessOK' /\ ClientsOK' /\ BacklogOK'
  BY <1>1, <1>3, RestStays, ClientsStay, BacklogStays DEF Inv
<1>10. Shape'
  <2>1. ~Ended' => stdout' = <<DISC>>
    BY <1>4, <1>5, AppendShort
  <2> QED BY <1>1, <1>3, <1>4, <1>5, <2>1 DEF Shape, Lost, Shaking
<1> QED BY <1>6, <1>8, <1>9, <1>10 DEF Inv, Typed

LEMMA AcceptStays == ASSUME Inv, Aside, Accept PROVE Inv'
<1>1. /\ UNCHANGED <<stdin, client, up, down, got_exit_signal,
                     parent, hpc, full, serverlogslocked, session, said>>
      /\ spc = "socket" /\ mode = "PASSIVE_LISTEN" /\ backlog # << >>
      /\ WriteStdout(Block("CNCT", <<Head(backlog)>>), "juggle")
      /\ conn' = Head(backlog) /\ mode' = "PASSIVE_CONNECT" /\ backlog' = Tail(backlog)
  BY DEF Accept, AtSocket, Aside, harness, streams
<1>2. PICK n \in Nat \ {0}, b \in Seq(Clients) :
        /\ n = Len(backlog) /\ b = backlog' /\ Len(b) = n - 1 /\ backlog[1] = conn'
        /\ conn' \in Clients /\ \A i \in 1..(n - 1) : b[i] = backlog[i + 1]
  <2>1. backlog \in Seq(Clients)
    BY DEF Inv, Typed, BacklogOK
  <2>2. /\ Len(backlog) \in Nat \ {0} /\ Tail(backlog) \in Seq(Clients)
        /\ Len(Tail(backlog)) = Len(backlog) - 1
        /\ Head(backlog) \in Clients /\ Head(backlog) = backlog[1]
        /\ \A i \in 1..(Len(backlog) - 1) : Tail(backlog)[i] = backlog[i + 1]
    BY ONLY <1>1, <2>1, TailIn
  <2> QED BY ONLY <1>1, <2>2
<1>3. conn \notin Clients /\ ~Shaking /\ ~Ended
  BY <1>1 DEF Inv, Typed, ProcessOK, Shaking, Ended
<1>4. /\ spc' \in {"juggle", "ended"} /\ ready' = FALSE
      /\ stdout' = stdout \/ stdout' = Append(stdout, Call(conn'))
      /\ Ended' \/ (spc' = "juggle" /\ stdout' = Append(stdout, Call(conn')))
  <2>1. WriteStdout(Call(conn'), "juggle")
    BY <1>1 DEF Call
  <2> QED BY <2>1, WriteGoes DEF Inv
<1>5. Free /\ stdout = << >>
  <2>1. Free \/ Lost \/ Called \/ Acked \/ Talking
    BY <1>3 DEF Inv, Shape
  <2> QED BY <1>3, <2>1 DEF Free, Lost, Called, Acked, Talking
<1>6. /\ client[conn'] # "new" /\ down[conn'] = << >> /\ said[conn'] = << >> /\ up[conn'] = << >>
      /\ \A i \in 1..(n - 1) :
           /\ client[b[i]] # "new" /\ down[b[i]] = << >> /\ b[i] # conn'
           /\ \A j \in 1..(n - 1) : b[i] = b[j] => i = j
  <2>1. \A i, j \in 1..(n - 1) : i + 1 \in 1..n /\ 1 \in 1..n /\ i + 1 # 1
                                 /\ (i + 1 = j + 1 => i = j)
    BY <1>2
  <2>2. \A i \in 1..n : /\ client[backlog[i]] # "new" /\ down[backlog[i]] = << >>
                        /\ \A j \in 1..n : backlog[i] = backlog[j] => i = j
    BY <1>2 DEF Inv, Typed, BacklogOK
  <2>3. 1 \in 1..n
    BY <1>2
  <2>4. client[conn'] # "new" /\ down[conn'] = << >>
    BY <1>2, <2>2, <2>3
  <2>5. said[conn'] = << >> /\ up[conn'] = << >>
    BY <1>2, <2>4 DEF Inv, Typed, ClientsOK
  <2>6. \A i \in 1..(n - 1) :
           /\ client[b[i]] # "new" /\ down[b[i]] = << >> /\ b[i] # conn'
           /\ \A j \in 1..(n - 1) : b[i] = b[j] => i = j
    BY <1>2, <2>1, <2>2, <2>3
  <2> QED BY <2>4, <2>5, <2>6
<1>7. ProcessOK'
  BY <1>1, <1>2, <1>4 DEF Inv, Typed, ProcessOK, Shaking
<1>8. stdout' = << >> \/ stdout' = <<Call(conn')>>
  BY <1>4, <1>5, AppendShort
<1>9. PipesOK'
  <2>1. Call(conn') \in Reports /\ IsReport(Call(conn'))
    BY <1>2, ReportsAre
  <2>2. /\ stdout' \in Seq(Reports) /\ \A i \in 1..Len(stdout') : IsReport(stdout'[i])
    BY <1>8, <2>1, FewReports
  <2> QED BY <1>1, <2>2 DEF Inv, Typed, PipesOK
<1>10. HarnessOK'
  BY <1>1, RestStays DEF Inv
<1>11. ClientsOK'
  BY <1>1, <1>2, <1>3, <1>6 DEF Inv, Typed, ClientsOK
<1>12. BacklogOK'
  BY <1>1, <1>2, <1>6 DEF BacklogOK
<1>13. Shape'
  <2> SUFFICES ASSUME ~Ended' PROVE (Called \/ Talking)'
    BY DEF Shape
  <2>1. stdout' = <<Call(conn')>> /\ ~Shaking'
    BY <1>4, <1>5, AppendShort DEF Shaking
  <2>2. CASE hpc # "session"
    <3>1. Called'
      BY <1>1, <1>2, <1>5, <1>6, <2>1, <2>2 DEF Free, Called
    <3> QED BY <3>1
  <2>3. CASE hpc = "session"
    <3>1. PICK r \in Replies : "mail" \in Pieces /\ r.text # "500" /\ stdin = <<Reply(r)>>
      BY <1>5, <2>3 DEF Free, Late
    <3>2. /\ Len(stdout') = 1 /\ stdout'[1] = Call(conn') /\ stdout'[1].cmd = "CNCT"
      BY <1>2, <2>1, ReportsAre
    <3>3. \A p : ~Asks(p)' /\ CarriedOnce(stdout', up'[conn'])
      BY <1>1, <1>6, <3>2, EndsEmpty DEF Asks, Carried, CarriedOnce, CarriedIn
    <3>4. Asked(conn)' = 0 /\ Len(down'[conn']) = 0
      <4>1. << >> \in Seq(Kinds) /\ Len(<< >>) = 0
        BY Nothing
      <4>2. Cardinality(Lines(<< >>)) = 0
        BY <4>1, LinesFinite
      <4> QED BY <1>1, <1>6, <4>1, <4>2 DEF Asked
    <3>5. ~InMail(conn)'
      <4>1. Len(said'[conn']) = 0
        BY <1>1, <1>6, Nothing
      <4>2. Lines(said'[conn']) \subseteq 1..Len(said'[conn'])
        BY <1>1, <1>6, Nothing, LinesFinite
      <4> QED BY <4>1, <4>2 DEF InMail, LastLine
    <3>6. Answering'
      BY <1>1, <3>1, <3>4 DEF Answering
    <3>7. Asking'
      BY <3>3 DEF Asking
    <3>8. Marks'
      BY <1>1, <2>3, <3>1, <3>2 DEF Marks
    <3>9. Turn'
      BY <1>1, <2>1, <2>3, <3>1, <3>3, <3>5 DEF Turn, Agreed
    <3> QED BY <1>2, <3>6, <3>7, <3>8, <3>9 DEF Talking
  <2> QED BY <2>2, <2>3
<1> QED BY <1>7, <1>9, <1>10, <1>11, <1>12, <1>13 DEF Inv, Typed

LEMMA SocketDataStays == ASSUME Inv, Aside, SocketData PROVE Inv'
<1>1. /\ UNCHANGED <<mode, conn, stdin, client, backlog, down, got_exit_signal,
                     parent, hpc, full, serverlogslocked, session, said>>
      /\ spc = "socket" /\ mode # "PASSIVE_LISTEN" /\ up[conn] # << >>
  BY DEF SocketData, AtSocket, Aside, harness
<1>2. /\ conn \in Clients /\ ~Shaking /\ ~Ended
      /\ Stretch(up[conn]) /\ down[conn] # << >>
  <2>1. conn \in Clients
    BY <1>1 DEF Inv, Typed, ProcessOK
  <2> QED BY <1>1, <2>1 DEF Inv, Typed, ClientsOK, Shaking, Ended
<1>3. PICK n \in 1..Len(up[conn]) :
        /\ WriteStdout(Block("DATA", First(up[conn], n)), "juggle")
        /\ up' = [up EXCEPT ![conn] = Rest(up[conn], n)]
  BY <1>1 DEF SocketData, First, Rest
<1>4. /\ Stretch(First(up[conn], n)) /\ First(up[conn], n) # << >> /\ Stretch(Rest(up[conn], n))
  BY <1>1, <1>2, CutLine
<1>5. PICK d \in Reports : d = Block("DATA", First(up[conn], n)) /\ IsReport(d) /\ d.cmd = "DATA"
  BY <1>4, ReportsAre
<1>6. /\ spc' \in {"juggle", "ended"} /\ ready' = FALSE
      /\ stdout' = stdout \/ stdout' = Append(stdout, d)
      /\ Ended' \/ (spc' = "juggle" /\ stdout' = Append(stdout, d))
  BY <1>3, <1>5, WriteGoes DEF Inv
<1>7. /\ up' \in [Clients -> Seq(Kinds)] /\ up'[conn] = Rest(up[conn], n)
      /\ \A c \in Clients : Stretch(up'[c])
      /\ \A c \in Clients \ {conn} : up'[c] = up[c]
  <2>1. up \in [Clients -> Seq(Kinds)] /\ \A c \in Clients : Stretch(up[c])
    BY DEF Inv, Typed, ClientsOK
  <2>2. Rest(up[conn], n) \in Seq(Kinds)
    BY <1>4 DEF Stretch
  <2> QED BY <1>2, <1>3, <1>4, <2>1, <2>2
<1>8. ProcessOK'
  BY <1>1, <1>2, <1>6 DEF Inv, Typed, ProcessOK, Shaking
<1>s. stdout \in Seq(Reports) /\ \A i \in 1..Len(stdout) : IsReport(stdout[i])
  BY DEF Inv, Typed, PipesOK
<1>a. PICK m \in Nat, t \in Seq(Reports) :
         /\ m = Len(stdout) /\ t = Append(stdout, d) /\ Len(t) = m + 1 /\ t[m + 1] = d
         /\ \A i \in 1..m : t[i] = stdout[i]
  <2>1. /\ Len(stdout) \in Nat /\ Append(stdout, d) \in Seq(Reports)
        /\ Len(Append(stdout, d)) = Len(stdout) + 1 /\ Append(stdout, d)[Len(stdout) + 1] = d
        /\ \A i \in 1..Len(stdout) : Append(stdout, d)[i] = stdout[i]
    BY <1>s, AppendedIn, LenProperties
  <2> QED BY ONLY <2>1
<1>b. \A i : i \in 1..(m + 1) <=> i \in 1..m \/ i = m + 1
  BY <1>a
<1>9. PipesOK'
  <2>1. \A i \in 1..(m + 1) : IsReport(t[i])
    BY <1>5, <1>a, <1>b, <1>s
  <2>2. stdout' \in Seq(Reports) /\ \A i \in 1..Len(stdout') : IsReport(stdout'[i])
    BY <1>6, <1>a, <1>s, <2>1
  <2> QED BY <1>1, <2>2 DEF Inv, Typed, PipesOK
<1>10. HarnessOK' /\ BacklogOK'
  BY <1>1, RestStays, BacklogStays DEF Inv
<1>11. ClientsOK'
  <2>1. \A c \in Clients : down'[c] = << >> => said'[c] = << >> /\ up'[c] = << >>
    BY <1>1, <1>2, <1>7 DEF Inv, Typed, ClientsOK
  <2> QED BY <1>1, <1>2, <1>7, <2>1 DEF Inv, Typed, ClientsOK
<1>12. Shape'
  <2> SUFFICES ASSUME ~Ended' PROVE Talking'
    BY DEF Shape
  <2>1. spc' = "juggle" /\ stdout' = t
    BY <1>6, <1>a
  <2>2. Talking
    <3>1. Free \/ Lost \/ Called \/ Acked \/ Talking
      BY <1>2 DEF Inv, Shape
    <3> QED BY <1>2, <3>1 DEF Free, Lost, Called, Acked
  <2>3. \A p : Asks(p)' <=> Asks(p)
    <3>1. \A p : Carried(t, Rest(up[conn], n), p) <=> Carried(stdout, up[conn], p)
      BY <1>1, <1>2, <1>5, <1>a, <1>s, <2>2, CarriedCut DEF Talking, Asking
    <3> QED BY <1>1, <1>7, <2>1, <3>1 DEF Asks
  <2>4. CarriedOnce(stdout', up'[conn'])
    <3>1. CarriedOnce(t, Rest(up[conn], n))
      BY <1>1, <1>2, <1>5, <1>a, <1>s, <2>2, CarriedCut DEF Talking, Asking
    <3> QED BY <1>1, <1>7, <2>1, <3>1
  <2>5. /\ Asked(conn)' = Asked(conn) /\ (Refused(conn)' <=> Refused(conn))
        /\ InMail(conn)' = InMail(conn) /\ \A p : LastLine(conn, p)' = LastLine(conn, p)
    BY <1>1 DEF Asked, Refused, InMail, LastLine
  <2>6. Answering'
    BY <1>1, <2>2, <2>5 DEF Talking, Answering
  <2>7. Asking'
    BY <1>1, <2>2, <2>3, <2>4, <2>5 DEF Talking, Asking
  <2>8. Marks'
    <3>1. \A i \in 1..m :
            /\ stdout[i].cmd = "CNCT" => i = 1 /\ hpc = "session" /\ "mail" \in Pieces
            /\ stdout[i].cmd # "DISC"
      BY <1>2, <1>a, <2>2 DEF Talking, Marks
    <3> QED BY <1>1, <1>5, <1>a, <1>b, <2>1, <3>1 DEF Marks
  <2>9. Turn'
    BY <1>1, <2>1, <2>2, <2>3, <2>5 DEF Talking, Turn, Agreed, Shaking
  <2> QED BY <1>1, <1>2, <2>6, <2>7, <2>8, <2>9 DEF Talking
<1> QED BY <1>8, <1>9, <1>10, <1>11, <1>12 DEF Inv, Typed

\* The client's end is reported last.
LEMMA SocketEofStays == ASSUME Inv, Aside, SocketEof PROVE Inv'
<1>1. /\ UNCHANGED <<mode, conn, stdin, client, backlog, up, down, got_exit_signal,
                     parent, hpc, full, serverlogslocked, session, said>>
      /\ spc = "socket" /\ mode # "PASSIVE_LISTEN" /\ up[conn] = << >> /\ client[conn] = "closed"
      /\ WriteStdout(DISC, "handshake")
  BY DEF SocketEof, AtSocket, Aside, harness, streams, DISC
<1>2. conn \in Clients /\ ~Shaking /\ ~Ended
  BY <1>1 DEF Inv, Typed, ProcessOK, Shaking, Ended
<1>3. /\ spc' \in {"handshake", "ended"} /\ ready' = FALSE
      /\ stdout' = stdout \/ stdout' = Append(stdout, DISC)
      /\ Ended' \/ (spc' = "handshake" /\ stdout' = Append(stdout, DISC))
  <2>1. ~ready
    BY <1>1 DEF Inv, Typed, ProcessOK
  <2> QED BY <1>1, <2>1, WriteGoes DEF Inv
<1>s. /\ stdout \in Seq(Reports) /\ \A i \in 1..Len(stdout) : IsReport(stdout[i])
      /\ DISC \in Reports /\ IsReport(DISC) /\ DISC.cmd = "DISC"
  BY ReportsAre DEF Inv, Typed, PipesOK
<1>a. PICK m \in Nat, t \in Seq(Reports) :
         /\ m = Len(stdout) /\ t = Append(stdout, DISC) /\ Len(t) = m + 1 /\ t[m + 1] = DISC
         /\ \A i \in 1..m : t[i] = stdout[i]
  <2>1. /\ Len(stdout) \in Nat /\ Append(stdout, DISC) \in Seq(Reports)
        /\ Len(Append(stdout, DISC)) = Len(stdout) + 1
        /\ Append(stdout, DISC)[Len(stdout) + 1] = DISC
        /\ \A i \in 1..Len(stdout) : Append(stdout, DISC)[i] = stdout[i]
    BY <1>s, AppendedIn, LenProperties
  <2> QED BY ONLY <2>1
<1>b. \A i : i \in 1..(m + 1) <=> i \in 1..m \/ i = m + 1
  BY <1>a
<1>4. ProcessOK'
  BY <1>1, <1>2, <1>3 DEF Inv, Typed, ProcessOK, Shaking
<1>5. PipesOK'
  <2>1. \A i \in 1..(m + 1) : IsReport(t[i])
    BY <1>a, <1>b, <1>s
  <2>2. stdout' \in Seq(Reports) /\ \A i \in 1..Len(stdout') : IsReport(stdout'[i])
    BY <1>3, <1>a, <1>s, <2>1
  <2> QED BY <1>1, <2>2 DEF Inv, Typed, PipesOK
<1>6. HarnessOK' /\ ClientsOK' /\ BacklogOK'
  BY <1>1, <1>2, RestStays, ClientsStay, BacklogStays DEF Inv
<1>7. Shape'
  <2> SUFFICES ASSUME ~Ended' PROVE (Called \/ Talking)'
    BY DEF Shape
  <2>1. spc' = "handshake" /\ Shaking' /\ stdout' = t
    BY <1>3, <1>a DEF Shaking
  <2>2. Called \/ Talking
    <3>1. Free \/ Lost \/ Called \/ Acked \/ Talking
      BY <1>2 DEF Inv, Shape
    <3> QED BY <1>2, <3>1 DEF Free, Lost, Acked
  <2>3. CASE Called
    <3>1. stdout = <<Call(conn)>> /\ Call(conn) \in Reports
      BY <1>2, <2>3, ReportsAre DEF Called
    <3>2. stdout' = <<Call(conn), DISC>>
      BY <1>a, <1>s, <2>1, <3>1, AppendShort
    <3>3. Called'
      BY <1>1, <2>1, <2>3, <3>2 DEF Called
    <3> QED BY <3>3
  <2>4. CASE Talking
    <3>1. ~CarriedIn(DISC)
      BY <1>s DEF CarriedIn
    <3>2. \A p : Asks(p)' <=> Asks(p)
      <4>1. \A p : Carried(t, up[conn], p) <=> Carried(stdout, up[conn], p)
        BY <1>a, <1>s, <3>1, CarriedAppend
      <4> QED BY <1>1, <2>1, <4>1 DEF Asks
    <3>3. CarriedOnce(stdout', up'[conn'])
      <4>1. CarriedOnce(t, up[conn])
        BY <1>a, <1>s, <2>4, <3>1, CarriedAppend DEF Talking, Asking
      <4> QED BY <1>1, <2>1, <4>1
    <3>4. /\ Asked(conn)' = Asked(conn) /\ (Refused(conn)' <=> Refused(conn))
          /\ InMail(conn)' = InMail(conn) /\ \A p : LastLine(conn, p)' = LastLine(conn, p)
      BY <1>1 DEF Asked, Refused, InMail, LastLine
    <3>5. Answering'
      BY <1>1, <2>4, <3>4 DEF Talking, Answering
    <3>6. Asking'
      BY <1>1, <2>4, <3>2, <3>3, <3>4 DEF Talking, Asking
    <3>7. Marks'
      <4>1. \A i \in 1..m :
              /\ stdout[i].cmd = "CNCT" => i = 1 /\ hpc = "session" /\ "mail" \in Pieces
              /\ stdout[i].cmd # "DISC"
        BY <1>2, <1>a, <2>4 DEF Talking, Marks
      <4> QED BY <1>1, <1>a, <1>b, <1>s, <2>1, <4>1 DEF Marks
    <3>8. Turn'
      <4>1. stdout' # << >> /\ stdout'[Len(stdout')].cmd = "DISC"
        BY <1>a, <1>s, <2>1, Nothing
      <4> QED BY <1>1, <2>1, <2>4, <3>2, <3>4, <4>1 DEF Talking, Turn, Agreed
    <3> QED BY <1>1, <1>2, <2>4, <3>5, <3>6, <3>7, <3>8 DEF Talking
  <2> QED BY <2>2, <2>3, <2>4
<1> QED BY <1>4, <1>5, <1>6, <1>7 DEF Inv, Typed

LEMMA HandshakeAckdStays == ASSUME Inv, Aside, HandshakeAckd PROVE Inv'
<1>1. /\ UNCHANGED <<stdout, client, backlog, up, down, got_exit_signal,
                     parent, hpc, full, serverlogslocked, session, said>>
      /\ ReadStdin("handshake") /\ Command = "ACKD"
      /\ IF mode = "PASSIVE_LISTEN" THEN Goto(AfterStdin) /\ UNCHANGED <<conn, mode>>
                                    ELSE Goto("juggle") /\ CloseSocket
  BY DEF HandshakeAckd, Aside, harness, streams
<1>2. /\ spc = "handshake" /\ stdin # << >> /\ stdin' = Tail(stdin) /\ stdin' \in Seq(Orders)
      /\ Head(stdin) = ACKD /\ ~Ended /\ Shaking
  BY <1>1, ReadIs DEF Inv, Ended, Shaking
<1>3. /\ spc' \in {"socket", "juggle"} /\ (spc' = "socket" => ready /\ mode = "PASSIVE_LISTEN")
      /\ ready' = FALSE /\ ~Ended' /\ ~Shaking'
      /\ conn' \notin Clients /\ mode' = "PASSIVE_LISTEN" /\ conn' \in Clients \cup {NoClient}
      /\ conn' = conn \/ conn \in Clients
  <2>1. CASE mode = "PASSIVE_LISTEN"
    <3>1. /\ spc' = AfterStdin /\ ready' \in BOOLEAN /\ ~ready'
      BY <1>1, <2>1, GotoIs, AfterStdinIs DEF Inv
    <3>2. conn \notin Clients /\ conn \in Clients \cup {NoClient}
      BY <2>1 DEF Inv, Typed, ProcessOK
    <3> QED BY <1>1, <2>1, <3>1, <3>2, AfterStdinIs DEF Ended, Shaking
  <2>2. CASE mode # "PASSIVE_LISTEN"
    <3>1. spc' = "juggle" /\ ready' = FALSE
      BY <1>1, <2>2, GotoIs DEF Inv
    <3>2. conn \in Clients /\ mode = "PASSIVE_CONNECT"
      BY <2>2 DEF Inv, Typed, ProcessOK
    <3>3. conn' = NoClient /\ mode' = "PASSIVE_LISTEN"
      BY <1>1, <2>2, <3>2 DEF CloseSocket
    <3> QED BY <3>1, <3>2, <3>3, ClientsAssumption DEF Ended, Shaking
  <2> QED BY <2>1, <2>2
<1>4. conn \in Clients => client[conn] = "closed"
  BY <1>2 DEF Inv, Typed, ProcessOK
<1>5. ProcessOK'
  <2>1. spc' = "socket" => SocketReadable'
    <3>1. ready /\ mode = "PASSIVE_LISTEN" => SocketReadable /\ conn' = conn
      BY <1>3 DEF Inv, Typed, ProcessOK
    <3> QED BY <1>1, <1>3, <3>1 DEF SocketReadable
  <2> QED BY <1>1, <1>3, <2>1 DEF Inv, Typed, ProcessOK, Shaking
<1>6. PipesOK' /\ HarnessOK' /\ BacklogOK'
  BY <1>1, <1>2, <1>3, RestStays, BacklogStays DEF Inv, Typed, PipesOK
<1>7. ClientsOK'
  BY <1>1, <1>2, <1>3, <1>4, ClientsStay DEF Inv
<1>8. Shape'
  <2>1. Free \/ Lost \/ Called \/ Acked \/ Talking
    BY <1>2 DEF Inv, Shape
  <2>2. Lost \/ Acked
    <3>1. ~Called
      BY <1>2 DEF Called
    <3>2. ~Talking
      BY <1>2, ShortTails, OrdersAre DEF Talking, Answering
    <3> QED BY <1>2, <2>1, <3>1, <3>2 DEF Free
  <2>3. CASE Lost
    <3>1. hpc \in {"idle", "over"} /\ stdin' = << >> /\ stdout = << >>
      BY <1>2, <2>3, ShortTails DEF Lost
    <3> QED BY <1>1, <1>3, <3>1 DEF Shape, Free
  <2>4. CASE Acked
    <3>1. CASE hpc # "session"
      <4>1. /\ hpc \in {"idle", "over", "received"} /\ stdout = << >>
            /\ stdin = <<ACKD>> \/ \E r \in Replies : stdin = <<Reply(r), ACKD>>
        BY <2>4, <3>1 DEF Acked
      <4>2. stdin = <<ACKD>>
        BY <1>2, <4>1, ShortTails, OrdersAre
      <4>3. stdin' = << >>
        BY <1>2, <4>2, ShortTails
      <4> QED BY <1>1, <1>3, <4>1, <4>3 DEF Shape, Free
    <3>2. CASE hpc = "session"
      <4>1. stdout = << >>
        BY <2>4 DEF Acked
      <4>2. PICK l \in Replies :
              /\ Late(l)
              /\ \/ stdin = <<ACKD, Reply(l)>>
                 \/ \E r \in Replies : stdin = <<Reply(r), ACKD, Reply(l)>>
        BY <2>4, <3>2 DEF Acked
      <4>3. stdin = <<ACKD, Reply(l)>>
        BY <1>2, <4>2, ShortTails, OrdersAre
      <4>4. stdin' = <<Reply(l)>>
        BY <1>2, <4>3, ShortTails
      <4> QED BY <1>1, <1>3, <3>2, <4>1, <4>2, <4>4 DEF Shape, Free, Late
    <3> QED BY <3>1, <3>2
  <2> QED BY <2>2, <2>3, <2>4
<1> QED BY <1>5, <1>6, <1>7, <1>8 DEF Inv, Typed

LEMMA HandshakeOtherStays == ASSUME Inv, Aside, HandshakeOther PROVE Inv'
<1>1. /\ UNCHANGED <<mode, conn, stdout, client, backlog, up, down, got_exit_signal,
                     parent, hpc, full, serverlogslocked, session, said>>
      /\ ReadStdin("handshake") /\ Command # "ACKD"
      /\ Goto(IF Command = "DATA" THEN "handshake" ELSE "ended")
  BY DEF HandshakeOther, Aside, harness, streams
<1>2. /\ spc = "handshake" /\ stdin # << >> /\ stdin' = Tail(stdin) /\ stdin' \in Seq(Orders)
      /\ Command = "DATA" /\ ~Ended /\ Shaking
      /\ \E r \in Replies : Head(stdin) = Reply(r)
  BY <1>1, ReadIs DEF Inv, Ended, Shaking
<1>3. spc' = "handshake" /\ ready' \in BOOLEAN /\ (ready' => ready) /\ ~Ended' /\ Shaking'
  BY <1>1, <1>2, GotoIs DEF Inv, Ended, Shaking
<1>4. ProcessOK'
  <2>1. SocketReadable' <=> SocketReadable
    BY <1>1 DEF SocketReadable
  <2> QED BY <1>1, <1>2, <1>3, <2>1 DEF Inv, Typed, ProcessOK, Shaking
<1>5. PipesOK' /\ HarnessOK' /\ ClientsOK' /\ BacklogOK'
  BY <1>1, <1>2, RestStays, ClientsStay, BacklogStays DEF Inv, Typed, PipesOK
<1>6. Shape'
  <2>1. Free \/ Lost \/ Called \/ Acked \/ Talking
    BY <1>2 DEF Inv, Shape
  <2>2. Acked \/ Talking
    <3>1. ~Called
      BY <1>2 DEF Called
    <3>2. ~Lost
      BY <1>2, ShortTails, OrdersAre DEF Lost
    <3> QED BY <1>2, <2>1, <3>1, <3>2 DEF Free
  <2>3. CASE Acked
    <3>1. CASE hpc # "session"
      <4>1. /\ hpc \in {"idle", "over", "received"} /\ stdout = << >> /\ conn \in Clients
            /\ stdin = <<ACKD>> \/ \E r \in Replies : stdin = <<Reply(r), ACKD>>
        BY <2>3, <3>1 DEF Acked
      <4>0. stdin # <<ACKD>>
        BY <1>2, ShortTails, OrdersAre
      <4>5. PICK r \in Replies : stdin = <<Reply(r), ACKD>>
        BY <4>0, <4>1
      <4>2. stdin' = <<ACKD>>
        BY <1>2, <4>5, ShortTails
      <4>3. Acked'
        BY <1>1, <1>3, <4>1, <4>2 DEF Acked
      <4> QED BY <4>3 DEF Shape
    <3>2. CASE hpc = "session"
      <4>1. stdout = << >> /\ conn \in Clients
        BY <2>3 DEF Acked
      <4>2. PICK l \in Replies :
              /\ Late(l)
              /\ \/ stdin = <<ACKD, Reply(l)>>
                 \/ \E r \in Replies : stdin = <<Reply(r), ACKD, Reply(l)>>
        BY <2>3, <3>2 DEF Acked
      <4>0. stdin # <<ACKD, Reply(l)>>
        BY <1>2, ShortTails, OrdersAre
      <4>5. PICK r \in Replies : stdin = <<Reply(r), ACKD, Reply(l)>>
        BY <4>0, <4>2
      <4>3. stdin' = <<ACKD, Reply(l)>>
        BY <1>2, <4>5, ShortTails
      <4>4. Acked'
        BY <1>1, <1>3, <3>2, <4>1, <4>2, <4>3 DEF Acked, Late
      <4> QED BY <4>4 DEF Shape
    <3> QED BY <3>1, <3>2
  <2>4. CASE Talking
    <3>1. stdin' = << >>
      BY <1>2, <2>4, ShortTails DEF Talking, Answering
    <3>2. \A p : Asks(p)' <=> Asks(p)
      BY <1>1 DEF Asks
    <3>3. /\ Asked(conn)' = Asked(conn) /\ (Refused(conn)' <=> Refused(conn))
          /\ InMail(conn)' = InMail(conn) /\ \A p : LastLine(conn, p)' = LastLine(conn, p)
      BY <1>1 DEF Asked, Refused, InMail, LastLine
    <3>4. Answering'
      BY <1>1, <2>4, <3>1, <3>3 DEF Talking, Answering
    <3>5. Asking'
      BY <1>1, <2>4, <3>1, <3>2, <3>3 DEF Talking, Asking
    <3>6. Marks'
      BY <1>1, <1>3, <2>4 DEF Talking, Marks
    <3>7. Turn'
      BY <1>1, <1>2, <1>3, <2>4, <3>1, <3>2, <3>3 DEF Talking, Turn, Agreed
    <3> QED BY <1>1, <2>4, <3>4, <3>5, <3>6, <3>7 DEF Talking, Shape
  <2> QED BY <2>2, <2>3, <2>4
<1> QED BY <1>4, <1>5, <1>6 DEF Inv, Typed

\* Nothing else is asked of sockfilt, which is listening.
LEMMA SockfiltStays ==
  ASSUME Inv, SockfiltStep, UNCHANGED <<harness, said>>
  PROVE  Inv'
<1>1. Aside /\ Step
  BY DEF SockfiltStep, Aside
<1>2. ~Start /\ ~StartFails
  BY DEF Start, StartFails, Inv, Typed, ProcessOK
<1>3. ~StdinQuery /\ ~StdinQuit /\ ~StdinDisc /\ ~HandshakeDisc
  BY ReadIs DEF StdinQuery, StdinQuit, StdinDisc, HandshakeDisc, Inv
<1> QED BY <1>1, <1>2, <1>3, SelectStays, EndStays, AcceptFailsStays, StdinDataStays,
           StdinDataDisconnectedStays, AcceptStays, SocketDataStays, SocketEofStays,
           HandshakeAckdStays, HandshakeOtherStays DEF Step

-----------------------------------------------------------------------------
(* The steps of the server *)

\* A step of the server leaves sockfilt and the clients alone.
Beside == UNCHANGED <<got_exit_signal, process, client, backlog, streams, said>>

LEMMA BesideTyped == ASSUME Typed, Beside PROVE ProcessOK' /\ ClientsOK' /\ BacklogOK'
<1>1. UNCHANGED <<spc, mode, conn, ready, got_exit_signal, client, backlog, up, down, said>>
  BY DEF Beside, process, streams
<1>2. SocketReadable' <=> SocketReadable
  BY <1>1 DEF SocketReadable
<1>3. ProcessOK'
  BY <1>1, <1>2 DEF Typed, ProcessOK, Shaking
<1> QED BY <1>1, <1>3, ClientsStay, BacklogStays DEF Ended

LEMMA BesideShape ==
  ASSUME Beside
  PROVE  /\ conn' = conn /\ spc' = spc /\ (Shaking' <=> Shaking) /\ (Ended' <=> Ended)
         /\ client' = client /\ up' = up /\ down' = down /\ said' = said
         /\ Asked(conn)' = Asked(conn) /\ (Refused(conn)' <=> Refused(conn))
         /\ InMail(conn)' = InMail(conn) /\ \A p : LastLine(conn, p)' = LastLine(conn, p)
<1>1. UNCHANGED <<spc, conn, client, up, down, said>>
  BY DEF Beside, process, streams
<1> QED BY <1>1 DEF Shaking, Ended, Asked, Refused, InMail, LastLine

LEMMA PrintsIs ==
  ASSUME Typed, NEW o \in Orders, ParentPrints(o)
  PROVE  /\ stdin' \in Seq(Orders) /\ parent' \in {"alive", "dead"}
         /\ Ended => parent' = "dead" /\ stdin' = stdin
         /\ ~Ended => parent' = parent /\ stdin' = Append(stdin, o)
         /\ parent' = "alive" => parent = "alive"
<1>1. stdin \in Seq(Orders) /\ parent \in {"alive", "dead"}
  BY DEF Typed, PipesOK
<1>2. Append(stdin, o) \in Seq(Orders)
  BY <1>1, AppendedIn
<1> QED BY <1>1, <1>2 DEF ParentPrints

LEMMA ReadsIs ==
  ASSUME Typed, ParentReads
  PROVE  /\ parent = "alive" /\ stdout # << >> /\ stdout' = Tail(stdout)
         /\ IsReport(Head(stdout)) /\ Head(stdout) = stdout[1]
         /\ Read \in {"CNCT", "DATA", "DISC"}
         /\ stdout' \in Seq(Reports) /\ Len(stdout) \in Nat \ {0}
         /\ Len(stdout') = Len(stdout) - 1
         /\ \A i \in 1..(Len(stdout) - 1) : stdout'[i] = stdout[i + 1]
         /\ \A i \in 1..Len(stdout') : IsReport(stdout'[i])
<1>1. /\ parent = "alive" /\ stdout # << >> /\ stdout' = Tail(stdout)
      /\ stdout \in Seq(Reports) /\ \A i \in 1..Len(stdout) : IsReport(stdout[i])
  BY DEF ParentReads, Typed, PipesOK
<1>2. PICK n \in Nat \ {0}, t \in Seq(Reports) :
        /\ n = Len(stdout) /\ t = Tail(stdout) /\ Len(t) = n - 1 /\ Head(stdout) = stdout[1]
        /\ \A i \in 1..(n - 1) : t[i] = stdout[i + 1]
  <2>1. /\ Len(stdout) \in Nat \ {0} /\ Tail(stdout) \in Seq(Reports)
        /\ Len(Tail(stdout)) = Len(stdout) - 1 /\ Head(stdout) = stdout[1]
        /\ \A i \in 1..(Len(stdout) - 1) : Tail(stdout)[i] = stdout[i + 1]
    BY ONLY <1>1, TailIn
  <2> QED BY ONLY <2>1
<1>3. 1 \in 1..n /\ \A i \in 1..(n - 1) : i + 1 \in 1..n
  BY <1>2
<1>4. IsReport(stdout[1]) /\ \A i \in 1..(n - 1) : IsReport(t[i])
  BY <1>1, <1>2, <1>3
<1>5. Read \in {"CNCT", "DATA", "DISC"}
  BY <1>2, <1>4, ReportsAre DEF Read
<1> QED BY <1>1, <1>2, <1>4, <1>5

\* What the server takes from the pipe is no longer under way.
LEMMA TakesFromPipe ==
  ASSUME Inv, ParentReads, Beside, Talking
  PROVE  /\ CarriedOnce(stdout', up'[conn'])
         /\ \A p : Asks(p)' => Asks(p)
         /\ ~CarriedIn(Head(stdout)) => \A p : Asks(p) => Asks(p)'
         /\ CarriedIn(Head(stdout)) => Asks(Final(Head(stdout).data)) /\ \A p : ~Asks(p)'
         /\ \A i \in 1..Len(stdout') :
              /\ stdout'[i].cmd # "CNCT"
              /\ stdout'[i].cmd = "DISC" => i = Len(stdout') /\ Shaking'
         /\ Read = "DISC" => stdout' = << >> /\ Shaking
         /\ Read # "DISC" /\ stdout[Len(stdout)].cmd = "DISC" =>
              stdout' # << >> /\ stdout'[Len(stdout')].cmd = "DISC"
<1>1. /\ conn' = conn /\ up' = up /\ (Shaking' <=> Shaking)
  BY BesideShape
<1>2. /\ stdout # << >> /\ stdout' = Tail(stdout) /\ stdout \in Seq(Reports)
      /\ Head(stdout) = stdout[1] /\ Len(stdout) \in Nat \ {0} /\ Len(stdout') = Len(stdout) - 1
      /\ stdout' \in Seq(Reports) /\ \A i \in 1..(Len(stdout) - 1) : stdout'[i] = stdout[i + 1]
  BY ReadsIs DEF Inv, Typed, PipesOK
<1>3. CarriedOnce(stdout, up[conn])
  BY DEF Talking, Asking
<1>4. /\ CarriedOnce(Tail(stdout), up[conn])
      /\ \A p : Carried(Tail(stdout), up[conn], p) => Carried(stdout, up[conn], p)
      /\ ~CarriedIn(Head(stdout)) =>
           \A p : Carried(stdout, up[conn], p) => Carried(Tail(stdout), up[conn], p)
      /\ CarriedIn(Head(stdout)) => /\ Carried(stdout, up[conn], Final(Head(stdout).data))
                                    /\ \A p : ~Carried(Tail(stdout), up[conn], p)
  BY <1>2, <1>3, CarriedTail
<1>5. PICK n \in Nat \ {0} : n = Len(stdout)
  BY <1>2
<1>6. /\ \A i \in 1..(n - 1) : i + 1 \in 1..n /\ i + 1 # 1 /\ (i + 1 = n => i = n - 1)
      /\ 1 \in 1..n /\ n \in 1..n
      /\ n # 1 => n - 1 \in 1..(n - 1) /\ (n - 1) + 1 = n /\ n - 1 # 0
  BY <1>5
<1>7. \A i \in 1..n : /\ stdout[i].cmd = "CNCT" => i = 1
                      /\ stdout[i].cmd = "DISC" => i = n /\ Shaking
  BY <1>5 DEF Talking, Marks
<1>8. \A i \in 1..(n - 1) : /\ stdout'[i].cmd # "CNCT"
                            /\ stdout'[i].cmd = "DISC" => i = n - 1 /\ Shaking'
  <2> TAKE i \in 1..(n - 1)
  <2>1. stdout'[i] = stdout[i + 1] /\ i + 1 \in 1..n /\ i + 1 # 1 /\ (i + 1 = n => i = n - 1)
    BY <1>2, <1>5, <1>6
  <2> QED BY <1>1, <1>7, <2>1
<1>9. Read = "DISC" => stdout' = << >> /\ Shaking
  <2>1. Read = "DISC" => n = 1 /\ Shaking
    BY <1>2, <1>6, <1>7 DEF Read
  <2> QED BY <1>2, <1>5, <2>1, EmptySeq
<1>10. ASSUME Read # "DISC", stdout[n].cmd = "DISC"
       PROVE  stdout' # << >> /\ stdout'[n - 1].cmd = "DISC"
  <2>1. n # 1
    BY <1>2, <1>10 DEF Read
  <2>2. Len(stdout') # 0 /\ stdout'[n - 1] = stdout[n]
    BY <1>2, <1>5, <1>6, <2>1
  <2> QED BY <1>10, <2>2, Nothing
<1> QED BY <1>1, <1>2, <1>4, <1>5, <1>8, <1>9, <1>10 DEF Asks

\* A client that has been told nothing has said nothing.
LEMMA NewHere ==
  ASSUME Typed, conn \in Clients, down[conn] = << >>
  PROVE  /\ said[conn] = << >> /\ up[conn] = << >> /\ Len(down[conn]) = 0 /\ Asked(conn) = 0
         /\ ~InMail(conn)
         /\ \A out : (\A i \in 1..Len(out) : ~CarriedIn(out[i])) =>
              CarriedOnce(out, up[conn]) /\ \A p : ~Carried(out, up[conn], p)
<1>1. said[conn] = << >> /\ up[conn] = << >>
  BY DEF Typed, ClientsOK
<1>2. << >> \in Seq(Kinds) /\ Len(<< >>) = 0
  BY Nothing
<1>3. Lines(<< >>) \subseteq 1..0 /\ Cardinality(Lines(<< >>)) = 0
  BY <1>2, LinesFinite
<1>4. ~InMail(conn)
  BY <1>1, <1>3 DEF InMail, LastLine
<1>5. \A out : (\A i \in 1..Len(out) : ~CarriedIn(out[i])) =>
        CarriedOnce(out, << >>) /\ \A p : ~Carried(out, << >>, p)
  BY EndsEmpty DEF CarriedOnce, Carried
<1> QED BY <1>1, <1>2, <1>3, <1>4, <1>5 DEF Asked

LEMMA ClientConnectsStays == ASSUME Inv, ClientConnects PROVE Inv'
<1>1. /\ Beside /\ hpc = "idle" /\ ParentReads /\ Read = "CNCT"
      /\ session' = Head(stdout).data[1] /\ serverlogslocked' = TRUE /\ full' = << >>
      /\ hpc' = "session"
      /\ ParentPrints(Reply([to |-> session', text |-> "welcome"]))
  BY DEF ClientConnects, Beside, SysRead, SendControl, PrintTo, Reply
<1>2. /\ stdout # << >> /\ stdout' = Tail(stdout) /\ stdout' \in Seq(Reports)
      /\ \A i \in 1..Len(stdout') : IsReport(stdout'[i])
      /\ session' \in Clients
  BY <1>1, ReadsIs DEF Inv, Read, IsReport
<1>3. PICK r \in Replies : r = [to |-> session', text |-> "welcome"]
  BY <1>2 DEF Replies
<1>4. /\ stdin' \in Seq(Orders) /\ parent' \in {"alive", "dead"}
      /\ ~Ended => stdin' = Append(stdin, Reply(r))
  BY <1>1, <1>3, OrdersAre, PrintsIs DEF Inv
<1>5. PipesOK' /\ HarnessOK' /\ ProcessOK' /\ ClientsOK' /\ BacklogOK'
  <2>1. full' \in Seq(Kinds) /\ Len(full') = 0
    BY <1>1, Nothing
  <2> QED BY <1>1, <1>2, <1>4, <2>1, BesideTyped DEF Inv, Typed, PipesOK, HarnessOK
<1>6. Shape'
  <2> SUFFICES ASSUME ~Ended' PROVE Talking'
    BY DEF Shape
  <2>1. /\ conn' = conn /\ (Shaking' <=> Shaking) /\ ~Ended /\ up' = up /\ down' = down
        /\ Asked(conn)' = Asked(conn) /\ InMail(conn)' = InMail(conn)
    BY <1>1, BesideShape
  <2>2. Called
    <3>1. Free \/ Lost \/ Called \/ Acked \/ Talking
      BY <2>1 DEF Inv, Shape
    <3>2. ~Talking
      <4>1. Head(stdout) = stdout[1] /\ 1 \in 1..Len(stdout)
        BY <1>1, ReadsIs DEF Inv
      <4> QED BY <1>1, <4>1 DEF Talking, Marks, Read
    <3> QED BY <1>1, <1>2, <3>1, <3>2 DEF Free, Lost, Acked
  <2>3. /\ conn \in Clients /\ down[conn] = << >> /\ stdin = << >>
        /\ stdout = IF Shaking THEN <<Call(conn), DISC>> ELSE <<Call(conn)>>
    BY <2>2 DEF Called
  <2>4. stdin' = <<Reply(r)>>
    BY <1>4, <2>1, <2>3, OrdersAre, AppendShort
  <2>5. /\ stdout' = IF Shaking THEN <<DISC>> ELSE << >>
        /\ session' = conn
    BY <1>1, <1>2, <2>3, ShortTails, ReportsAre
  <2>6. /\ \A i \in 1..Len(stdout') : stdout'[i] = DISC /\ i = Len(stdout') /\ Shaking
        /\ Shaking => stdout' # << >> /\ stdout'[Len(stdout')] = DISC
    BY <2>5, Nothing, ShortTails
  <2>7. \A i \in 1..Len(stdout') : ~CarriedIn(stdout'[i])
    BY <2>6, ReportsAre DEF CarriedIn
  <2>8. /\ CarriedOnce(stdout', up'[conn']) /\ \A p : ~Asks(p)'
        /\ Len(down'[conn']) = 0 /\ Asked(conn)' = 0 /\ ~InMail(conn)'
    BY <2>1, <2>3, <2>7, NewHere DEF Inv, Asks
  <2>9. Answering'
    BY <1>3, <2>1, <2>3, <2>4, <2>5, <2>8 DEF Answering
  <2>10. Asking'
    BY <2>8 DEF Asking
  <2>11. Marks'
    BY <2>1, <2>6, ReportsAre DEF Marks
  <2>12. Turn'
    BY <1>1, <2>1, <2>5, <2>6, <2>8, ReportsAre DEF Turn, Agreed
  <2> QED BY <2>1, <2>3, <2>9, <2>10, <2>11, <2>12 DEF Talking
<1> QED BY <1>5, <1>6 DEF Inv, Typed

LEMMA IgnoresStays == ASSUME Inv, IdleIgnores \/ SessionIgnores PROVE Inv'
<1>1. /\ Beside /\ ParentReads
      /\ UNCHANGED <<hpc, full, serverlogslocked, session, stdin, parent>>
      /\ \/ hpc = "idle" /\ Read # "CNCT"
         \/ hpc = "session" /\ Read \notin {"DATA", "DISC"}
  BY DEF IdleIgnores, SessionIgnores, Beside, SysRead, harness
<1>2. PipesOK' /\ HarnessOK' /\ ProcessOK' /\ ClientsOK' /\ BacklogOK'
  BY <1>1, ReadsIs, BesideTyped, RestStays DEF Inv, Typed, PipesOK
<1>3. Shape'
  <2> SUFFICES ASSUME ~Ended' PROVE Talking'
    BY DEF Shape
  <2>1. /\ conn' = conn /\ (Shaking' <=> Shaking) /\ ~Ended /\ up' = up /\ down' = down
        /\ client' = client
        /\ Asked(conn)' = Asked(conn) /\ (Refused(conn)' <=> Refused(conn))
        /\ InMail(conn)' = InMail(conn) /\ \A p : LastLine(conn, p)' = LastLine(conn, p)
    BY <1>1, BesideShape
  <2>r. /\ stdout # << >> /\ Head(stdout) = stdout[1] /\ Read \in {"CNCT", "DATA", "DISC"}
    BY <1>1, ReadsIs DEF Inv
  <2>2. Talking
    <3>1. Free \/ Lost \/ Called \/ Acked \/ Talking
      BY <2>1 DEF Inv, Shape
    <3>2. ~Called
      BY <1>1, ShortTails, ReportsAre DEF Called, Read
    <3>3. ~Lost
      BY <1>1, <2>r, ShortTails, ReportsAre DEF Lost, Read
    <3> QED BY <2>r, <3>1, <3>2, <3>3 DEF Free, Acked
  <2>3. /\ CarriedOnce(stdout', up'[conn'])
        /\ \A p : Asks(p)' => Asks(p)
        /\ ~CarriedIn(Head(stdout)) => \A p : Asks(p) => Asks(p)'
        /\ \A i \in 1..Len(stdout') :
              /\ stdout'[i].cmd # "CNCT"
              /\ stdout'[i].cmd = "DISC" => i = Len(stdout') /\ Shaking'
        /\ Read # "DISC" /\ stdout[Len(stdout)].cmd = "DISC" =>
              stdout' # << >> /\ stdout'[Len(stdout')].cmd = "DISC"
    BY <1>1, <2>2, TakesFromPipe
  <2>4. hpc = "session" => ~CarriedIn(Head(stdout)) /\ Read # "DISC"
    BY <1>1 DEF CarriedIn, Read
  <2>5. Answering'
    BY <1>1, <2>1, <2>2 DEF Talking, Answering
  <2>6. Asking'
    BY <1>1, <2>1, <2>2, <2>3 DEF Talking, Asking
  <2>7. Marks'
    BY <2>3 DEF Marks
  <2>8. Turn'
    <3>1. CASE hpc = "idle"
      BY <1>1, <2>1, <2>2, <3>1 DEF Talking, Turn
    <3>2. CASE hpc = "session"
      BY <1>1, <2>1, <2>2, <2>3, <2>4, <3>2 DEF Talking, Turn, Agreed
    <3> QED BY <1>1, <3>1, <3>2
  <2> QED BY <2>1, <2>2, <2>5, <2>6, <2>7, <2>8 DEF Talking
<1> QED BY <1>2, <1>3 DEF Inv, Typed

LEMMA UnlockStays == ASSUME Inv, Unlock PROVE Inv'
<1>1. /\ Beside /\ UNCHANGED <<full, session, stdin, stdout, parent>>
      /\ hpc = "over" /\ hpc' = "idle" /\ serverlogslocked' = FALSE
  BY DEF Unlock, Beside, pipes
<1>2. PipesOK' /\ HarnessOK' /\ ProcessOK' /\ ClientsOK' /\ BacklogOK'
  BY <1>1, BesideTyped DEF Inv, Typed, PipesOK, HarnessOK
<1>3. Shape'
  <2> SUFFICES ASSUME ~Ended' PROVE (Free \/ Lost \/ Called \/ Acked \/ Talking)'
    BY DEF Shape
  <2>1. /\ conn' = conn /\ (Shaking' <=> Shaking) /\ ~Ended /\ up' = up /\ down' = down
        /\ client' = client
        /\ Asked(conn)' = Asked(conn) /\ (Refused(conn)' <=> Refused(conn))
        /\ InMail(conn)' = InMail(conn) /\ \A p : LastLine(conn, p)' = LastLine(conn, p)
    BY <1>1, BesideShape
  <2>2. Free \/ Lost \/ Called \/ Acked \/ Talking
    BY <2>1 DEF Inv, Shape
  <2>3. CASE Free
    BY <1>1, <2>1, <2>3 DEF Free
  <2>4. CASE Lost
    BY <1>1, <2>1, <2>4 DEF Lost
  <2>5. CASE Called
    BY <1>1, <2>1, <2>5 DEF Called
  <2>6. CASE Acked
    BY <1>1, <2>1, <2>6 DEF Acked
  <2>7. CASE Talking
    <3>1. \A p : Asks(p)' <=> Asks(p)
      BY <1>1, <2>1 DEF Asks
    <3>2. Answering'
      BY <1>1, <2>1, <2>7 DEF Talking, Answering
    <3>3. Asking'
      BY <1>1, <2>1, <2>7, <3>1 DEF Talking, Asking
    <3>4. Marks'
      BY <1>1, <2>1, <2>7 DEF Talking, Marks
    <3>5. Turn'
      BY <1>1, <2>1, <2>7 DEF Talking, Turn
    <3> QED BY <2>1, <2>7, <3>2, <3>3, <3>4, <3>5 DEF Talking
  <2> QED BY <2>2, <2>3, <2>4, <2>5, <2>6, <2>7
<1> QED BY <1>2, <1>3 DEF Inv, Typed

\* At the end of the pipe sockfilt has ended.
LEMMA PipeEofStays == ASSUME Inv, PipeEof PROVE Inv'
<1>1. /\ Beside /\ UNCHANGED <<full, session, stdin, stdout>> /\ Ended /\ parent = "alive"
      /\ \/ hpc = "mail" /\ hpc' = "received" /\ UNCHANGED <<parent, serverlogslocked>>
         \/ hpc' = hpc /\ parent' = "dead" /\ serverlogslocked' = FALSE
  BY DEF PipeEof, Beside, pipes
<1>2. HarnessOK'
  <2>1. CASE hpc = "mail" /\ hpc' = "received" /\ UNCHANGED <<parent, serverlogslocked>>
    BY <1>1, <2>1 DEF Inv, Typed, HarnessOK
  <2>2. CASE hpc' = hpc /\ parent' = "dead" /\ serverlogslocked' = FALSE
    BY <1>1, <2>2 DEF Inv, Typed, HarnessOK
  <2> QED BY <1>1, <2>1, <2>2
<1>3. PipesOK' /\ ProcessOK' /\ ClientsOK' /\ BacklogOK'
  BY <1>1, BesideTyped DEF Inv, Typed, PipesOK
<1> QED BY <1>1, <1>2, <1>3, BesideShape DEF Inv, Typed, Shape

LEMMA EobIs ==
  ASSUME NEW data, Stretch(data), data # << >>
  PROVE  "eob" \in {data[i] : i \in DOMAIN data} <=> Final(data) = "eob"
<1>1. PICK n \in Nat \ {0} : n = Len(data) /\ DOMAIN data = 1..n
  <2>1. Len(data) \in Nat \ {0} /\ DOMAIN data = 1..Len(data)
    BY TailIn, LenProperties DEF Stretch
  <2> QED BY <2>1
<1>2. \A i \in 1..n : i = n \/ i \in 1..(n - 1)
  BY <1>1
<1>3. \A i \in 1..(n - 1) : data[i] = "part"
  BY <1>1 DEF Stretch
<1>4. n \in 1..n
  BY <1>1
<1> QED BY <1>1, <1>2, <1>3, <1>4 DEF Final

\* The reply to a line.
LEMMA ReplyToIs ==
  ASSUME Typed, NEW text, ReplyTo(text)
  PROVE  \E r \in Replies :
           /\ r.to = session /\ ParentPrints(Reply(r))
           /\ \/ OneLine(text, "known") /\ r.text = "reply" /\ hpc' = "session"
              \/ OneLine(text, "mail") /\ r.text = "reply" /\ hpc' = "mail"
              \/ /\ ~OneLine(text, "known") /\ ~OneLine(text, "mail")
                 /\ r.text = "500" /\ hpc' = "over"
<1>1. session \in Clients \cup {NoClient}
  BY DEF Typed, HarnessOK
<1>2. \A word \in {"reply", "500"} : [to |-> session, text |-> word] \in Replies
  BY <1>1 DEF Replies
<1>3. CASE OneLine(text, "known")
  <2>1. \/ SendControl("reply", session, "session")
        \/ OneLine(text, "mail") /\ SendControl("reply", session, "mail")
    BY <1>3 DEF ReplyTo
  <2>2. [to |-> session, text |-> "reply"] \in Replies
    BY <1>2
  <2> QED BY <1>3, <2>1, <2>2 DEF SendControl, PrintTo, Reply
<1>4. CASE ~OneLine(text, "known") /\ OneLine(text, "mail")
  <2>1. SendControl("reply", session, "mail")
    BY <1>4 DEF ReplyTo
  <2>2. [to |-> session, text |-> "reply"] \in Replies
    BY <1>2
  <2> QED BY <1>4, <2>1, <2>2 DEF SendControl, PrintTo, Reply
<1>5. CASE ~OneLine(text, "known") /\ ~OneLine(text, "mail")
  <2>1. SendControl("500", session, "over")
    BY <1>5 DEF ReplyTo
  <2>2. [to |-> session, text |-> "500"] \in Replies
    BY <1>2
  <2> QED BY <1>5, <2>1, <2>2 DEF SendControl, PrintTo, Reply
<1> QED BY <1>3, <1>4, <1>5

\* A command, or a part of one.
LEMMA SessionDataStays == ASSUME Inv, SessionData PROVE Inv'
<1>1. /\ Beside /\ hpc = "session" /\ ParentReads /\ Read = "DATA"
      /\ UNCHANGED <<session, serverlogslocked>>
  BY DEF SessionData, Beside, SysRead
<1>2. /\ stdout # << >> /\ stdout' \in Seq(Reports)
      /\ \A i \in 1..Len(stdout') : IsReport(stdout'[i])
      /\ IsReport(Head(stdout)) /\ parent = "alive"
  BY <1>1, ReadsIs DEF Inv
<1>3. PICK data : data = Head(stdout).data /\ Stretch(data) /\ data # << >>
  BY <1>1, <1>2 DEF IsReport, Read
<1>4. PICK text : text = full \o data
  OBVIOUS
<1>5. /\ text \in Seq(Kinds) /\ text[Len(text)] = Final(data) /\ Final(data) \in Kinds
      /\ Final(data) = "part" => \A i \in 1..Len(text) : text[i] = "part"
      /\ Final(data) # "part" =>
           \A line \in {"known", "mail"} : OneLine(text, line) <=> Final(data) = line
  BY <1>3, <1>4, TextIs DEF Inv, Typed, HarnessOK
<1>6. \/ Final(data) = "part" /\ full' = text /\ UNCHANGED <<hpc, stdin, parent>>
      \/ Final(data) # "part" /\ full' = << >> /\ ReplyTo(text)
  <2>1. IF text[Len(text)] = "part" THEN full' = text /\ UNCHANGED <<hpc, stdin, parent>>
                                    ELSE full' = << >> /\ ReplyTo(text)
    BY <1>3, <1>4 DEF SessionData
  <2> QED BY <1>5, <2>1
<1>7. ProcessOK' /\ ClientsOK' /\ BacklogOK'
  BY <1>1, BesideTyped DEF Inv
<1>8. /\ conn' = conn /\ (Shaking' <=> Shaking) /\ (Ended' <=> Ended) /\ up' = up /\ down' = down
      /\ client' = client
      /\ Asked(conn)' = Asked(conn) /\ (Refused(conn)' <=> Refused(conn))
      /\ InMail(conn)' = InMail(conn) /\ \A p : LastLine(conn, p)' = LastLine(conn, p)
  BY <1>1, BesideShape
<1>9. ~Ended => Talking
  <2> SUFFICES ASSUME ~Ended PROVE Talking
    OBVIOUS
  <2>1. Free \/ Lost \/ Called \/ Acked \/ Talking
    BY DEF Inv, Shape
  <2>2. ~Lost
    BY <1>1, ShortTails, ReportsAre DEF Lost, Read
  <2> QED BY <1>1, <1>2, <2>1, <2>2 DEF Free, Called, Acked
<1>10. ~Ended =>
         /\ CarriedOnce(stdout', up'[conn'])
         /\ \A p : Asks(p)' => Asks(p)
         /\ ~CarriedIn(Head(stdout)) => \A p : Asks(p) => Asks(p)'
         /\ CarriedIn(Head(stdout)) => Asks(Final(data)) /\ \A p : ~Asks(p)'
         /\ \A i \in 1..Len(stdout') :
              /\ stdout'[i].cmd # "CNCT"
              /\ stdout'[i].cmd = "DISC" => i = Len(stdout') /\ Shaking'
         /\ stdout[Len(stdout)].cmd = "DISC" =>
              stdout' # << >> /\ stdout'[Len(stdout')].cmd = "DISC"
  BY <1>1, <1>3, <1>9, TakesFromPipe
<1>11. CarriedIn(Head(stdout)) <=> Final(data) # "part"
  BY <1>1, <1>3 DEF CarriedIn, Ends, Read
<1>12. CASE Final(data) = "part" /\ full' = text /\ UNCHANGED <<hpc, stdin, parent>>
  <2>1. PipesOK' /\ HarnessOK'
    BY <1>1, <1>2, <1>5, <1>12 DEF Inv, Typed, PipesOK, HarnessOK
  <2>2. Shape'
    <3> SUFFICES ASSUME ~Ended' PROVE Talking'
      BY DEF Shape
    <3>1. Answering'
      BY <1>8, <1>9, <1>12 DEF Talking, Answering
    <3>2. Asking'
      BY <1>8, <1>9, <1>10, <1>12 DEF Talking, Asking
    <3>3. Marks'
      BY <1>8, <1>10 DEF Marks
    <3>4. Turn'
      BY <1>1, <1>8, <1>9, <1>10, <1>11, <1>12 DEF Talking, Turn, Agreed
    <3> QED BY <1>8, <1>9, <3>1, <3>2, <3>3, <3>4 DEF Talking
  <2> QED BY <1>7, <2>1, <2>2 DEF Inv, Typed
<1>13. CASE Final(data) # "part" /\ full' = << >> /\ ReplyTo(text)
  <2>1. PICK r \in Replies :
          /\ r.to = session /\ ParentPrints(Reply(r))
          /\ \/ Final(data) = "known" /\ r.text = "reply" /\ hpc' = "session"
             \/ Final(data) = "mail" /\ r.text = "reply" /\ hpc' = "mail"
             \/ /\ Final(data) \notin {"known", "mail"}
                /\ r.text = "500" /\ hpc' = "over"
    BY <1>5, <1>13, ReplyToIs DEF Inv
  <2>2. /\ stdin' \in Seq(Orders) /\ parent' \in {"alive", "dead"}
        /\ ~Ended => stdin' = Append(stdin, Reply(r))
    BY <2>1, OrdersAre, PrintsIs DEF Inv
  <2>3. PipesOK' /\ HarnessOK'
    <3>1. full' \in Seq(Kinds) /\ Len(full') = 0
      BY <1>13, Nothing
    <3>2. hpc' \in {"session", "mail", "over"} /\ (hpc' = "mail" => "mail" \in Pieces)
      BY <1>5, <2>1, KindsAre
    <3>3. PipesOK'
      BY <1>2, <2>2 DEF PipesOK
    <3>4. HarnessOK'
      BY <1>1, <1>2, <3>1, <3>2 DEF Inv, Typed, HarnessOK
    <3> QED BY <3>3, <3>4
  <2>4. Shape'
    <3> SUFFICES ASSUME ~Ended' PROVE Talking'
      BY DEF Shape
    <3>1. /\ conn \in Clients /\ LastLine(conn, Final(data)) /\ stdin = << >>
          /\ Len(down[conn]) <= Asked(conn) /\ \A p : ~Asks(p)'
          /\ Final(data) # "eob"
      BY <1>1, <1>5, <1>8, <1>9, <1>10, <1>11, <1>13 DEF Talking, Asking, Turn, Agreed
    <3>2. stdin' = <<Reply(r)>>
      BY <1>8, <2>1, <2>2, <3>1, OrdersAre, AppendShort
    <3>3. /\ \A q : LastLine(conn, q) => Final(data) = q
          /\ said[conn] # << >> /\ \E i \in 1..Len(said[conn]) : said[conn][i] = Final(data)
      BY <3>1, LastLineIs DEF Inv, Typed, ClientsOK
    <3>4. down[conn] # << >>
      BY <3>1, <3>3 DEF Inv, Typed, ClientsOK
    <3>5. Final(data) \notin {"known", "mail"} => Refused(conn)
      BY <1>5, <1>13, <3>1, <3>3, KindsAre DEF Refused
    <3>6. InMail(conn) <=> Final(data) = "mail"
      BY <3>1, <3>3 DEF InMail
    <3>7. Answering'
      <4>1. r.text = "500" => Refused(conn)
        BY <2>1, <3>5
      <4>2. "mail" \notin Pieces => r.to = conn /\ r.text # "welcome"
        BY <1>1, <1>8, <1>9, <2>1 DEF Talking, Turn
      <4>3. Len(down[conn]) <= Asked(conn) + 1
        BY <1>8, <1>9 DEF Talking, Answering
      <4> QED BY <1>8, <3>1, <3>2, <3>4, <4>1, <4>2, <4>3 DEF Answering
    <3>8. Asking'
      BY <1>8, <1>10, <3>1 DEF Asking
    <3>9. Marks'
      BY <1>8, <1>10 DEF Marks
    <3>10. Turn'
      <4>1. hpc' \in {"session", "mail", "over"} /\ (hpc' = "over" => Refused(conn))
            /\ (hpc' = "mail" <=> Final(data) = "mail")
        BY <2>1, <3>5
      <4>2. Agreed'
        BY <1>8, <3>1, <3>6, <4>1 DEF Agreed
      <4>3. Shaking' => stdout' # << >> /\ stdout'[Len(stdout')].cmd = "DISC"
        BY <1>1, <1>8, <1>9, <1>10 DEF Talking, Turn
      <4>4. "mail" \notin Pieces => session' = conn'
        BY <1>1, <1>8, <1>9 DEF Talking, Turn
      <4> QED BY <1>8, <4>1, <4>2, <4>3, <4>4 DEF Turn
    <3> QED BY <1>8, <3>1, <3>7, <3>8, <3>9, <3>10 DEF Talking
  <2> QED BY <1>7, <2>3, <2>4 DEF Inv, Typed
<1> QED BY <1>6, <1>12, <1>13

\* The client's end, in a session
LEMMA SessionDiscStays == ASSUME Inv, SessionDisc PROVE Inv'
<1>1. /\ Beside /\ hpc = "session" /\ hpc' = "over" /\ ParentReads /\ Read = "DISC"
      /\ UNCHANGED <<full, session, serverlogslocked>> /\ ParentPrints(ACKD)
  BY DEF SessionDisc, Beside, SysRead, PrintTo, ACKD
<1>2. /\ stdout # << >> /\ stdout' = Tail(stdout) /\ stdout' \in Seq(Reports)
      /\ \A i \in 1..Len(stdout') : IsReport(stdout'[i])
  BY <1>1, ReadsIs DEF Inv
<1>3. /\ stdin' \in Seq(Orders) /\ parent' \in {"alive", "dead"}
      /\ ~Ended => stdin' = Append(stdin, ACKD)
  BY <1>1, OrdersAre, PrintsIs DEF Inv
<1>4. PipesOK' /\ HarnessOK' /\ ProcessOK' /\ ClientsOK' /\ BacklogOK'
  BY <1>1, <1>2, <1>3, BesideTyped DEF Inv, Typed, PipesOK, HarnessOK
<1>5. Shape'
  <2> SUFFICES ASSUME ~Ended' PROVE (Lost \/ Acked)'
    BY DEF Shape
  <2>1. conn' = conn /\ (Shaking' <=> Shaking) /\ ~Ended
    BY <1>1, BesideShape
  <2>2. Free \/ Lost \/ Called \/ Acked \/ Talking
    BY <2>1 DEF Inv, Shape
  <2>3. /\ Append(<< >>, ACKD) = <<ACKD>>
        /\ \A r \in Replies : Append(<<Reply(r)>>, ACKD) = <<Reply(r), ACKD>>
    BY OrdersAre, AppendShort
  <2>4. CASE Lost
    <3>1. stdin' = <<ACKD>> /\ stdout' = << >>
      BY <1>1, <1>2, <1>3, <2>1, <2>3, <2>4, ShortTails DEF Lost
    <3> QED BY <1>1, <2>1, <2>4, <3>1 DEF Lost
  <2>5. CASE Talking
    <3>1. stdout' = << >> /\ Shaking /\ conn \in Clients
      BY <1>1, <2>5, TakesFromPipe DEF Talking
    <3>2. stdin' = <<ACKD>> \/ \E r \in Replies : stdin' = <<Reply(r), ACKD>>
      BY <1>3, <2>1, <2>3, <2>5 DEF Talking, Answering
    <3> QED BY <1>1, <2>1, <3>1, <3>2 DEF Acked
  <2> QED BY <1>1, <1>2, <2>2, <2>4, <2>5 DEF Free, Called, Acked
<1> QED BY <1>4, <1>5 DEF Inv, Typed

\* and in a mail.
LEMMA MailDiscStays == ASSUME Inv, MailDisc PROVE Inv'
<1>1. /\ Beside /\ hpc = "mail" /\ hpc' = "received" /\ ParentReads /\ Read = "DISC"
      /\ UNCHANGED <<full, session, serverlogslocked>> /\ ParentPrints(ACKD)
  BY DEF MailDisc, Beside, SysRead, PrintTo, ACKD
<1>2. /\ stdout # << >> /\ stdout' = Tail(stdout) /\ stdout' \in Seq(Reports)
      /\ \A i \in 1..Len(stdout') : IsReport(stdout'[i])
  BY <1>1, ReadsIs DEF Inv
<1>3. /\ stdin' \in Seq(Orders) /\ parent' \in {"alive", "dead"}
      /\ ~Ended => stdin' = Append(stdin, ACKD)
      /\ parent' = "alive" => parent = "alive"
  BY <1>1, OrdersAre, PrintsIs DEF Inv
<1>4. PipesOK' /\ HarnessOK' /\ ProcessOK' /\ ClientsOK' /\ BacklogOK'
  BY <1>1, <1>2, <1>3, BesideTyped DEF Inv, Typed, PipesOK, HarnessOK
<1>5. Shape'
  <2> SUFFICES ASSUME ~Ended' PROVE Acked'
    BY DEF Shape
  <2>1. conn' = conn /\ (Shaking' <=> Shaking) /\ ~Ended
    BY <1>1, BesideShape
  <2>2. Talking
    BY <1>1, <1>2, <2>1 DEF Inv, Shape, Free, Lost, Called, Acked
  <2>3. /\ Append(<< >>, ACKD) = <<ACKD>>
        /\ \A r \in Replies : Append(<<Reply(r)>>, ACKD) = <<Reply(r), ACKD>>
    BY OrdersAre, AppendShort
  <2>4. stdout' = << >> /\ Shaking /\ conn \in Clients
    BY <1>1, <2>2, TakesFromPipe DEF Talking
  <2>5. stdin' = <<ACKD>> \/ \E r \in Replies : stdin' = <<Reply(r), ACKD>>
    BY <1>3, <2>1, <2>2, <2>3 DEF Talking, Answering
  <2> QED BY <1>1, <2>1, <2>4, <2>5 DEF Acked
<1> QED BY <1>4, <1>5 DEF Inv, Typed

\* DATA_smtp reads on until the end of the mail.
LEMMA MailDataStays == ASSUME Inv, MailData PROVE Inv'
<1>1. /\ Beside /\ hpc = "mail" /\ ParentReads /\ Read = "DATA"
      /\ UNCHANGED <<full, session, serverlogslocked, stdin, parent>>
  BY DEF MailData, Beside, SysRead
<1>2. /\ stdout # << >> /\ stdout' \in Seq(Reports)
      /\ \A i \in 1..Len(stdout') : IsReport(stdout'[i])
      /\ IsReport(Head(stdout))
  BY <1>1, ReadsIs DEF Inv
<1>3. PICK data : data = Head(stdout).data /\ Stretch(data) /\ data # << >>
  BY <1>1, <1>2 DEF IsReport, Read
<1>4. hpc' = IF Final(data) = "eob" THEN "received" ELSE "mail"
  <2>1. hpc' = IF "eob" \in {data[i] : i \in DOMAIN data} THEN "received" ELSE "mail"
    BY <1>3 DEF MailData
  <2> QED BY <1>3, <2>1, EobIs
<1>5. PipesOK' /\ HarnessOK' /\ ProcessOK' /\ ClientsOK' /\ BacklogOK'
  BY <1>1, <1>2, <1>4, BesideTyped DEF Inv, Typed, PipesOK, HarnessOK
<1>6. Shape'
  <2> SUFFICES ASSUME ~Ended' PROVE Talking'
    BY DEF Shape
  <2>1. /\ conn' = conn /\ (Shaking' <=> Shaking) /\ ~Ended /\ up' = up /\ down' = down
        /\ client' = client
        /\ Asked(conn)' = Asked(conn) /\ (Refused(conn)' <=> Refused(conn))
        /\ InMail(conn)' = InMail(conn) /\ \A p : LastLine(conn, p)' = LastLine(conn, p)
    BY <1>1, BesideShape
  <2>2. Talking
    BY <1>1, <1>2, <2>1 DEF Inv, Shape, Free, Lost, Called, Acked
  <2>3. /\ CarriedOnce(stdout', up'[conn'])
        /\ \A p : Asks(p)' => Asks(p)
        /\ ~CarriedIn(Head(stdout)) => \A p : Asks(p) => Asks(p)'
        /\ CarriedIn(Head(stdout)) => Asks(Final(data)) /\ \A p : ~Asks(p)'
        /\ \A i \in 1..Len(stdout') :
             /\ stdout'[i].cmd # "CNCT"
             /\ stdout'[i].cmd = "DISC" => i = Len(stdout') /\ Shaking'
        /\ stdout[Len(stdout)].cmd = "DISC" =>
             stdout' # << >> /\ stdout'[Len(stdout')].cmd = "DISC"
    BY <1>1, <1>3, <2>2, TakesFromPipe
  <2>4. CarriedIn(Head(stdout)) <=> Final(data) # "part"
    BY <1>1, <1>3 DEF CarriedIn, Ends, Read
  <2>5. Final(data) \in Kinds
    BY <1>3, LenProperties, EmptySeq, ElementOfSeq DEF Stretch, Final
  <2>6. Answering'
    BY <1>1, <2>1, <2>2 DEF Talking, Answering
  <2>7. Asking'
    BY <1>1, <2>1, <2>2, <2>3 DEF Talking, Asking
  <2>8. Marks'
    BY <2>3 DEF Marks
  <2>9. Turn'
    <3>1. /\ Agreed
          /\ Shaking => stdout # << >> /\ stdout[Len(stdout)].cmd = "DISC"
      BY <1>1, <2>2 DEF Talking, Turn
    <3>2. CASE Final(data) = "part"
      <4>1. hpc' = "mail" /\ Agreed'
        BY <1>1, <1>4, <2>1, <2>3, <2>4, <3>1, <3>2 DEF Agreed
      <4> QED BY <2>1, <2>3, <3>1, <4>1 DEF Turn
    <3>3. CASE Final(data) # "part"
      <4>1. Asks(Final(data)) /\ \A p : ~Asks(p)'
        BY <2>3, <2>4, <3>3
      <4>2. Final(data) = "eob" /\ hpc' = "received"
        BY <1>1, <1>4, <2>5, <3>1, <4>1 DEF Agreed
      <4>3. LastLine(conn, "eob") /\ stdin = << >> /\ Len(down[conn]) <= Asked(conn)
        BY <2>2, <2>5, <4>1, <4>2 DEF Talking, Asking
      <4>4. ~InMail(conn)
        BY <2>2, <4>3, LastLineIs DEF Inv, Typed, ClientsOK, Talking, InMail
      <4> QED BY <1>1, <2>1, <2>3, <3>1, <4>1, <4>2, <4>3, <4>4 DEF Turn
    <3> QED BY <3>2, <3>3
  <2> QED BY <2>1, <2>2, <2>6, <2>7, <2>8, <2>9 DEF Talking
<1> QED BY <1>5, <1>6 DEF Inv, Typed

\* Its reply goes to whoever is there.
LEMMA MailReplyStays == ASSUME Inv, MailReply PROVE Inv'
<1>1. /\ Beside /\ hpc = "received" /\ parent = "alive" /\ hpc' = "session"
      /\ UNCHANGED <<full, session, serverlogslocked, stdout>>
      /\ ParentPrints(Reply([to |-> session, text |-> "reply"]))
  BY DEF MailReply, Beside, SendControl, PrintTo, Reply
<1>2. "mail" \in Pieces
  BY <1>1 DEF Inv, Typed, HarnessOK
<1>3. PICK r \in Replies : r = [to |-> session, text |-> "reply"] /\ Late(r)
  <2>1. [to |-> session, text |-> "reply"] \in Replies
    BY DEF Inv, Typed, HarnessOK, Replies
  <2> QED BY <1>2, <2>1 DEF Late
<1>4. /\ stdin' \in Seq(Orders) /\ parent' \in {"alive", "dead"}
      /\ ~Ended => stdin' = Append(stdin, Reply(r))
  BY <1>1, <1>3, OrdersAre, PrintsIs DEF Inv
<1>5. PipesOK' /\ HarnessOK' /\ ProcessOK' /\ ClientsOK' /\ BacklogOK'
  BY <1>1, <1>2, <1>4, BesideTyped DEF Inv, Typed, PipesOK, HarnessOK
<1>6. Shape'
  <2> SUFFICES ASSUME ~Ended' PROVE (Free \/ Acked \/ Talking)'
    BY DEF Shape
  <2>1. /\ conn' = conn /\ (Shaking' <=> Shaking) /\ ~Ended /\ up' = up /\ down' = down
        /\ client' = client
        /\ Asked(conn)' = Asked(conn) /\ (Refused(conn)' <=> Refused(conn))
        /\ InMail(conn)' = InMail(conn) /\ \A p : LastLine(conn, p)' = LastLine(conn, p)
    BY <1>1, BesideShape
  <2>2. Free \/ Lost \/ Called \/ Acked \/ Talking
    BY <2>1 DEF Inv, Shape
  <2>a. /\ Append(<< >>, Reply(r)) = <<Reply(r)>>
        /\ Append(<<ACKD>>, Reply(r)) = <<ACKD, Reply(r)>>
        /\ \A q \in Replies : Append(<<Reply(q), ACKD>>, Reply(r)) = <<Reply(q), ACKD, Reply(r)>>
    <3>1. ACKD \in Orders /\ Reply(r) \in Orders /\ \A q \in Replies : Reply(q) \in Orders
      BY OrdersAre
    <3>2. /\ Append(<< >>, Reply(r)) = <<Reply(r)>>
          /\ Append(<<ACKD>>, Reply(r)) = <<ACKD, Reply(r)>>
      BY <3>1, AppendShort
    <3>3. \A q \in Replies : Append(<<Reply(q), ACKD>>, Reply(r)) = <<Reply(q), ACKD, Reply(r)>>
      BY <3>1, AppendShort
    <3> QED BY <3>2, <3>3
  <2>b. stdin' = Append(stdin, Reply(r))
    BY <1>4, <2>1
  <2>c. \A p : Asks(p)' <=> Asks(p)
    BY <1>1, <2>1 DEF Asks
  <2>3. CASE Free
    <3>1. stdin = << >> /\ stdin' = <<Reply(r)>>
      BY <1>1, <2>3, <2>a, <2>b DEF Free
    <3> QED BY <1>1, <1>3, <2>1, <2>3, <3>1 DEF Free, Late
  <2>4. CASE Acked
    <3>1. stdin = <<ACKD>> \/ \E q \in Replies : stdin = <<Reply(q), ACKD>>
      BY <1>1, <2>4 DEF Acked
    <3>2. stdin' = <<ACKD, Reply(r)>> \/ \E q \in Replies : stdin' = <<Reply(q), ACKD, Reply(r)>>
      BY <2>a, <2>b, <3>1
    <3> QED BY <1>1, <1>3, <2>1, <2>4, <3>2 DEF Acked, Late
  <2>5. CASE Called
    <3>1. /\ conn \in Clients /\ down[conn] = << >> /\ stdin' = <<Reply(r)>>
          /\ stdout = IF Shaking THEN <<Call(conn), DISC>> ELSE <<Call(conn)>>
      BY <2>5, <2>a, <2>b DEF Called
    <3>2. /\ Len(stdout) = IF Shaking THEN 2 ELSE 1
          /\ stdout[1] = Call(conn) /\ (Shaking => stdout[2] = DISC) /\ stdout # << >>
      BY <3>1, ShortTails
    <3>3. \A i \in 1..Len(stdout) : \/ i = 1 /\ stdout[i].cmd = "CNCT"
                                    \/ i = Len(stdout) /\ Shaking /\ stdout[i].cmd = "DISC"
      BY <3>1, <3>2, ReportsAre
    <3>4. \A i \in 1..Len(stdout) : ~CarriedIn(stdout[i])
      BY <3>3 DEF CarriedIn
    <3>5. /\ CarriedOnce(stdout, up[conn]) /\ \A p : ~Asks(p)
          /\ Len(down[conn]) = 0 /\ Asked(conn) = 0 /\ ~InMail(conn)
      BY <3>1, <3>4, NewHere DEF Inv, Asks
    <3>6. Answering'
      BY <1>2, <1>3, <2>1, <3>1, <3>5 DEF Answering
    <3>7. Asking'
      BY <1>1, <2>1, <2>c, <3>5 DEF Asking
    <3>8. Marks'
      BY <1>1, <1>2, <2>1, <3>3 DEF Marks
    <3>9. Turn'
      <4>1. Shaking => stdout[Len(stdout)].cmd = "DISC"
        BY <3>2, ReportsAre
      <4> QED BY <1>1, <1>2, <2>1, <2>c, <3>2, <3>5, <4>1 DEF Turn, Agreed
    <3> QED BY <2>1, <3>1, <3>6, <3>7, <3>8, <3>9 DEF Talking
  <2>6. CASE Talking
    <3>1. /\ stdin = << >> /\ Len(down[conn]) <= Asked(conn) /\ \A p \in Kinds : ~Asks(p)
          /\ client[conn] = "open" => ~InMail(conn)
          /\ Shaking => stdout # << >> /\ stdout[Len(stdout)].cmd = "DISC"
      BY <1>1, <2>6 DEF Talking, Turn
    <3>2. stdin' = <<Reply(r)>>
      BY <2>a, <2>b, <3>1
    <3>3. Answering'
      BY <1>2, <1>3, <2>1, <2>6, <3>1, <3>2 DEF Talking, Answering
    <3>4. Asking'
      BY <1>1, <2>1, <2>6, <2>c, <3>1 DEF Talking, Asking
    <3>5. Marks'
      BY <1>1, <2>1, <2>6 DEF Talking, Marks
    <3>6. Turn'
      BY <1>1, <1>2, <2>1, <2>c, <3>1 DEF Turn, Agreed
    <3> QED BY <2>1, <2>6, <3>3, <3>4, <3>5, <3>6 DEF Talking
  <2> QED BY <1>1, <2>2, <2>3, <2>4, <2>5, <2>6 DEF Lost
<1> QED BY <1>5, <1>6 DEF Inv, Typed

LEMMA MainLoopStays == ASSUME Inv, MainLoop PROVE Inv'
BY ClientConnectsStays, IgnoresStays, SessionDataStays, SessionDiscStays, MailDataStays,
   MailDiscStays, MailReplyStays, UnlockStays, PipeEofStays DEF MainLoop

\* The server is killed, or told to end; sockfilt is told to.
LEMMA KilledStays == ASSUME Inv, Killed PROVE Inv'
<1>1. /\ UNCHANGED <<spc, mode, conn, ready, got_exit_signal, stdin, stdout, client, backlog,
                     up, down, said, hpc, full, serverlogslocked, session>>
      /\ parent' = "dead"
  BY DEF Killed, harness, pipes, process, streams
<1>2. SocketReadable' <=> SocketReadable
  BY <1>1 DEF SocketReadable
<1>3. ProcessOK'
  BY <1>1, <1>2 DEF Inv, Typed, ProcessOK, Shaking
<1>4. PipesOK' /\ HarnessOK' /\ ClientsOK' /\ BacklogOK'
  BY <1>1, ClientsStay, BacklogStays DEF Inv, Typed, PipesOK, HarnessOK, Ended
<1>5. Shape'
  BY <1>1, ShapeStays DEF Inv, Ended, Shaking
<1> QED BY <1>3, <1>4, <1>5 DEF Inv, Typed

LEMMA HarnessSignalStays == ASSUME Inv, HarnessSignal PROVE Inv'
<1>1. /\ UNCHANGED <<mode, conn, got_exit_signal, stdin, stdout, client, backlog,
                     up, down, said, hpc, full, session>>
      /\ parent' = "dead" /\ serverlogslocked' = FALSE /\ Goto("ended")
  BY DEF HarnessSignal, pipes, streams
<1>2. spc' = "ended" /\ ready' = FALSE /\ Ended'
  BY <1>1 DEF Goto, Ended
<1>3. ProcessOK'
  BY <1>1, <1>2 DEF Inv, Typed, ProcessOK, Shaking
<1>4. PipesOK' /\ HarnessOK' /\ ClientsOK' /\ BacklogOK'
  BY <1>1, <1>2, ClientsStay, BacklogStays DEF Inv, Typed, PipesOK, HarnessOK
<1> QED BY <1>2, <1>3, <1>4 DEF Inv, Typed, Shape

LEMMA ExitSignalStays == ASSUME Inv, ExitSignal, UNCHANGED <<harness, said>> PROVE Inv'
<1>1. /\ UNCHANGED <<spc, mode, conn, ready, stdin, stdout, parent, client, backlog,
                     up, down, said, hpc, full, serverlogslocked, session>>
      /\ got_exit_signal' = TRUE
  BY DEF ExitSignal, harness, pipes, process, streams
<1>2. SocketReadable' <=> SocketReadable
  BY <1>1 DEF SocketReadable
<1>3. ProcessOK'
  BY <1>1, <1>2 DEF Inv, Typed, ProcessOK, Shaking
<1>4. PipesOK' /\ HarnessOK' /\ ClientsOK' /\ BacklogOK'
  BY <1>1, RestStays, ClientsStay, BacklogStays DEF Inv, Typed, PipesOK, Ended
<1>5. Shape'
  BY <1>1, ShapeStays DEF Inv, Ended, Shaking
<1> QED BY <1>3, <1>4, <1>5 DEF Inv, Typed

-----------------------------------------------------------------------------
(* The steps of the clients *)

\* A client leaves the server and its pipes alone.
Apart == UNCHANGED <<harness, process, got_exit_signal, pipes, parent, down>>

LEMMA ApartIs ==
  ASSUME Inv, Apart
  PROVE  /\ PipesOK' /\ HarnessOK'
         /\ UNCHANGED <<hpc, full, serverlogslocked, session, spc, mode, conn, ready,
                        got_exit_signal, stdin, stdout, parent, down>>
         /\ (Shaking' <=> Shaking) /\ (Ended' <=> Ended)
<1>1. UNCHANGED <<hpc, full, serverlogslocked, session, spc, mode, conn, ready,
                  got_exit_signal, stdin, stdout, parent, down>>
  BY DEF Apart, harness, process, pipes
<1> QED BY <1>1, RestStays DEF Inv, Typed, PipesOK, Shaking, Ended

LEMMA ConnectStays ==
  ASSUME Inv, NEW c \in Clients, Connect(c), UNCHANGED <<harness, said>>
  PROVE  Inv'
<1>1. /\ Apart /\ UNCHANGED <<up, said>> /\ client[c] = "new"
      /\ client' = [client EXCEPT ![c] = "open"] /\ backlog' = Append(backlog, c)
  BY DEF Connect, Apart, streams
<1>2. /\ client \in [Clients -> {"new", "open", "closed"}] /\ down[c] = << >>
      /\ conn \in Clients => conn # c /\ client[conn] # "new"
      /\ backlog \in Seq(Clients)
  BY <1>1 DEF Inv, Typed, ClientsOK, BacklogOK
<1>3. /\ client' \in [Clients -> {"new", "open", "closed"}] /\ client'[c] = "open"
      /\ \A d \in Clients \ {c} : client'[d] = client[d]
  BY <1>1, <1>2
<1>4. PICK n \in Nat : n = Len(backlog)
  BY <1>2, LenProperties
<1>5. /\ backlog' \in Seq(Clients) /\ Len(backlog') = n + 1 /\ backlog'[n + 1] = c
      /\ \A i \in 1..n : backlog'[i] = backlog[i] /\ backlog[i] \in Clients
  BY <1>1, <1>2, <1>4, AppendedIn, ElementOfSeq
<1>6. ProcessOK'
  <2>1. SocketReadable => SocketReadable'
    <3>1. Len(backlog) <= Len(backlog')
      BY <1>4, <1>5
    <3> QED BY <1>1, <1>2, <1>3, <1>5, <3>1, ApartIs, StillReadable DEF Inv
  <2> QED BY <1>1, <1>2, <1>3, <2>1, ApartIs DEF Inv, Typed, ProcessOK
<1>7. ClientsOK'
  <2>1. \A d \in Clients : /\ client'[d] = "new" => down[d] = << >>
                           /\ ~Ended /\ client'[d] = "open" /\ down[d] # << >> => d = conn
    BY <1>2, <1>3 DEF Inv, Typed, ClientsOK
  <2> QED BY <1>1, <1>2, <1>3, <2>1, ApartIs DEF Inv, Typed, ClientsOK
<1>8. BacklogOK'
  <2>1. \A i \in 1..n : /\ client[backlog[i]] # "new" /\ down[backlog[i]] = << >>
                        /\ backlog[i] # conn /\ backlog[i] # c
                        /\ \A j \in 1..n : backlog[i] = backlog[j] => i = j
    BY <1>1, <1>4 DEF Inv, Typed, BacklogOK
  <2>2. \A i : i \in 1..(n + 1) <=> i \in 1..n \/ i = n + 1
    BY <1>4
  <2>3. conn # c
    BY <1>2
  <2>4. \A i \in 1..(n + 1) :
          /\ client'[backlog'[i]] # "new" /\ down[backlog'[i]] = << >> /\ backlog'[i] # conn
          /\ \A j \in 1..(n + 1) : backlog'[i] = backlog'[j] => i = j
    BY <1>2, <1>3, <1>5, <2>1, <2>2, <2>3
  <2> QED BY <1>1, <1>5, <2>4, ApartIs DEF BacklogOK
<1>9. Shape'
  BY <1>1, <1>2, <1>3, ApartIs, ShapeStays DEF Inv
<1> QED BY <1>1, <1>6, <1>7, <1>8, <1>9, ApartIs DEF Inv, Typed

LEMMA CloseStays ==
  ASSUME Inv, NEW c \in Clients, Close(c), UNCHANGED <<harness, said>>
  PROVE  Inv'
<1>1. /\ Apart /\ UNCHANGED <<up, said, backlog>> /\ client[c] = "open"
      /\ client' = [client EXCEPT ![c] = "closed"]
  BY DEF Close, Apart, streams
<1>2. /\ client' \in [Clients -> {"new", "open", "closed"}]
      /\ \A d \in Clients : /\ client'[d] = "new" <=> client[d] = "new"
                            /\ client'[d] = "open" => client[d] = "open"
                            /\ client[d] = "closed" => client'[d] = "closed"
  BY <1>1 DEF Inv, Typed, ClientsOK
<1>3. /\ backlog \in Seq(Clients) /\ Len(backlog) \in Nat
      /\ \A i \in 1..Len(backlog) : backlog[i] \in Clients
  BY LenProperties, ElementOfSeq DEF Inv, Typed, BacklogOK
<1>4. ProcessOK'
  <2>1. SocketReadable => SocketReadable'
    BY <1>1, <1>2, <1>3, ApartIs, StillReadable DEF Inv
  <2> QED BY <1>1, <1>2, <2>1, ApartIs DEF Inv, Typed, ProcessOK
<1>5. ClientsOK'
  BY <1>1, <1>2, ApartIs DEF Inv, Typed, ClientsOK
<1>6. BacklogOK'
  BY <1>1, <1>2, <1>3, ApartIs DEF Inv, Typed, BacklogOK
<1>7. Shape'
  BY <1>1, <1>2, ApartIs, ShapeStays DEF Inv
<1> QED BY <1>1, <1>4, <1>5, <1>6, <1>7, ApartIs DEF Inv, Typed

LEMMA ResetStays ==
  ASSUME Inv, NEW c \in Clients, Reset(c), UNCHANGED <<harness, said>>
  PROVE  Inv'
<1>1. /\ Apart /\ UNCHANGED <<client, said, backlog>> /\ client[c] = "closed"
      /\ up' = [up EXCEPT ![c] = << >>]
  BY DEF Reset, Apart
<1>2. /\ up' \in [Clients -> Seq(Kinds)] /\ \A d \in Clients : Stretch(up'[d])
      /\ \A d \in Clients : (up'[d] = << >> /\ client[d] = "closed") \/ up'[d] = up[d]
  BY <1>1, Nothing, EndsEmpty DEF Inv, Typed, ClientsOK
<1>3. backlog \in Seq(Clients) /\ Len(backlog) \in Nat
  BY LenProperties DEF Inv, Typed, BacklogOK
<1>4. ProcessOK'
  <2>1. SocketReadable => SocketReadable'
    BY <1>1, <1>2, <1>3, ApartIs, StillReadable DEF Inv
  <2> QED BY <1>1, <1>2, <2>1, ApartIs DEF Inv, Typed, ProcessOK
<1>5. ClientsOK'
  <2>1. \A d \in Clients : down[d] = << >> => up'[d] = << >>
    BY <1>2 DEF Inv, Typed, ClientsOK
  <2> QED BY <1>1, <1>2, <2>1, ApartIs DEF Inv, Typed, ClientsOK
<1>6. BacklogOK'
  BY <1>1, ApartIs DEF Inv, Typed, BacklogOK
<1>7. Shape'
  <2> SUFFICES ASSUME ~Ended' PROVE (Free \/ Lost \/ Called \/ Acked \/ Talking)'
    BY DEF Shape
  <2>0. /\ UNCHANGED <<hpc, session, conn, stdin, stdout, down, client, said>>
        /\ (Shaking' <=> Shaking) /\ ~Ended
    BY <1>1, ApartIs
  <2>1. Free \/ Lost \/ Called \/ Acked \/ Talking
    BY <2>0 DEF Inv, Shape
  <2>2. CASE Free
    BY <2>0, <2>2 DEF Free, Late
  <2>3. CASE Lost
    BY <2>0, <2>3 DEF Lost
  <2>4. CASE Called
    BY <2>0, <2>4 DEF Called
  <2>5. CASE Acked
    BY <2>0, <2>5 DEF Acked, Late
  <2>6. CASE Talking
    <3>1. /\ Asked(conn)' = Asked(conn) /\ (Refused(conn)' <=> Refused(conn))
          /\ InMail(conn)' = InMail(conn) /\ \A p : LastLine(conn, p)' = LastLine(conn, p)
      BY <2>0 DEF Asked, Refused, InMail, LastLine
    <3>2. conn \in Clients /\ stdout \in Seq(Reports) /\ CarriedOnce(stdout, up[conn])
      BY <2>6 DEF Inv, Typed, PipesOK, Talking, Asking
    <3>3. \/ up'[conn] = up[conn]
          \/ up'[conn] = << >> /\ client[conn] = "closed"
      BY <1>2, <3>2
    <3>4. /\ CarriedOnce(stdout, up'[conn])
          /\ \A p : Carried(stdout, up'[conn], p) => Carried(stdout, up[conn], p)
      BY <3>2, <3>3, CarriedLost
    <3>5. \A p : Asks(p)' => Asks(p)
      BY <2>0, <3>4 DEF Asks
    <3>6. Answering'
      BY <2>0, <2>6, <3>1 DEF Talking, Answering
    <3>7. Asking'
      BY <2>0, <2>6, <3>1, <3>4, <3>5 DEF Talking, Asking
    <3>8. Marks'
      BY <2>0, <2>6 DEF Talking, Marks
    <3>9. Agreed => Agreed'
      <4>1. CASE up'[conn] = up[conn]
        <5>1. \A p : Asks(p)' <=> Asks(p)
          BY <2>0, <4>1 DEF Asks
        <5> QED BY <2>0, <3>1, <5>1 DEF Agreed
      <4>2. CASE client[conn] = "closed"
        BY <2>0, <3>5, <4>2 DEF Agreed
      <4> QED BY <3>3, <4>1, <4>2
    <3>10. Turn'
      BY <2>0, <2>6, <3>1, <3>5, <3>9 DEF Talking, Turn
    <3> QED BY <2>0, <2>6, <3>6, <3>7, <3>8, <3>10 DEF Talking
  <2> QED BY <2>1, <2>2, <2>3, <2>4, <2>5, <2>6
<1> QED BY <1>1, <1>4, <1>5, <1>6, <1>7, ApartIs DEF Inv, Typed

\* A client speaks in its turn: nothing of it is under way then.
LEMMA SendStays == ASSUME Inv, NEW c \in Clients, Send(c) PROVE Inv'
<1>1. /\ Apart /\ UNCHANGED <<client, backlog>>
      /\ client[c] = "open" /\ ~Ended /\ Len(down[c]) > Asked(c)
  BY DEF Send, MayTalk, Apart, Asked
<1>2. PICK p \in IF InMail(c) THEN (Pieces \cap {"part"}) \cup {"eob"} ELSE Pieces :
        up' = [up EXCEPT ![c] = Append(@, p)] /\ said' = [said EXCEPT ![c] = Append(@, p)]
  BY DEF Send
<1>3. p \in Kinds /\ (p # "part" => (p = "eob" <=> InMail(c)))
  BY PiecesAssumption DEF Kinds
<1>4. /\ up \in [Clients -> Seq(Kinds)] /\ said \in [Clients -> Seq(Kinds)]
      /\ Asked(c) \in Nat /\ Len(down[c]) \in Nat \ {0} /\ down[c] # << >> /\ c = conn
  <2>1. /\ up \in [Clients -> Seq(Kinds)] /\ said \in [Clients -> Seq(Kinds)]
        /\ down[c] \in Seq(Replies)
    BY DEF Inv, Typed, ClientsOK
  <2>2. Asked(c) \in Nat
    BY <2>1, LinesFinite DEF Asked
  <2>3. Len(down[c]) \in Nat \ {0}
    BY <1>1, <2>1, <2>2, LenProperties
  <2>4. down[c] # << >>
    BY <2>3, Nothing
  <2> QED BY <1>1, <2>1, <2>2, <2>3, <2>4 DEF Inv, Typed, ClientsOK
<1>5. Talking /\ ~Shaking
  <2>1. ~Shaking
    BY <1>1, <1>4 DEF Inv, Typed, ProcessOK
  <2> QED BY <1>1, <1>4, <2>1 DEF Inv, Shape, Free, Lost, Called, Acked
<1>6. /\ stdin = << >> /\ \A q \in Kinds : ~Asks(q)
      /\ Len(down[conn]) <= Asked(conn) + 1
  <2>1. ~(Len(down[conn]) <= Asked(conn))
    BY <1>1, <1>4
  <2> QED BY <1>5, <2>1 DEF Talking, Answering, Asking
<1>7. Stretch(up[c]) /\ stdout \in Seq(Reports) /\ \A i \in 1..Len(stdout) : IsReport(stdout[i])
  BY DEF Inv, Typed, ClientsOK, PipesOK
<1>8. /\ Stretch(Append(up[c], p)) /\ CarriedOnce(stdout, Append(up[c], p))
      /\ \A q : Carried(stdout, Append(up[c], p), q) <=> p # "part" /\ q = p
  BY <1>3, <1>4, <1>6, <1>7, CarriedSaid DEF Asks
<1>9. /\ up' \in [Clients -> Seq(Kinds)] /\ said' \in [Clients -> Seq(Kinds)]
      /\ up'[c] = Append(up[c], p) /\ up'[c] # << >>
      /\ \A d \in Clients \ {c} : up'[d] = up[d] /\ said'[d] = said[d]
  BY <1>2, <1>3, <1>4, AppendedIn
<1>10. ProcessOK'
  <2>1. SocketReadable => SocketReadable'
    <3>1. backlog \in Seq(Clients) /\ Len(backlog) \in Nat
      BY LenProperties DEF Inv, Typed, BacklogOK
    <3> QED BY <1>1, <1>4, <1>9, <3>1, ApartIs, StillReadable DEF Inv
  <2> QED BY <1>1, <1>5, <2>1, ApartIs DEF Inv, Typed, ProcessOK
<1>11. ClientsOK'
  <2>1. \A d \in Clients : Stretch(up'[d])
    BY <1>8, <1>9 DEF Inv, Typed, ClientsOK
  <2>2. \A d \in Clients : down[d] = << >> => said'[d] = << >> /\ up'[d] = << >>
    BY <1>4, <1>9 DEF Inv, Typed, ClientsOK
  <2> QED BY <1>1, <1>9, <2>1, <2>2, ApartIs DEF Inv, Typed, ClientsOK
<1>12. BacklogOK'
  BY <1>1, ApartIs DEF Inv, Typed, BacklogOK
<1>13. Talking'
  <2>0. /\ UNCHANGED <<hpc, session, conn, stdin, stdout, down, client>> /\ ~Shaking'
    BY <1>1, <1>5, ApartIs
  <2>1. /\ Asked(conn)' = IF p = "part" THEN Asked(conn) ELSE Asked(conn) + 1
        /\ \A q : LastLine(conn, q)' <=> IF p = "part" THEN LastLine(conn, q) ELSE q = p
        /\ Refused(conn) => Refused(conn)'
    <3>1. /\ Asked(c)' = IF p = "part" THEN Asked(c) ELSE Asked(c) + 1
          /\ \A q : LastLine(c, q)' <=> IF p = "part" THEN LastLine(c, q) ELSE q = p
          /\ Refused(c) => Refused(c)'
      BY <1>2, <1>3, <1>4, SaidMore
    <3> QED BY <1>4, <2>0, <3>1 DEF Asked, LastLine, Refused
  <2>2. /\ CarriedOnce(stdout', up'[conn'])
        /\ \A q : Asks(q)' <=> p # "part" /\ q = p
    BY <1>4, <1>8, <1>9, <2>0 DEF Asks
  <2>3. Len(down'[conn']) <= Asked(conn)' + 1
    BY <1>4, <1>6, <2>0, <2>1
  <2>4. Answering'
    BY <1>6, <2>0, <2>3 DEF Answering
  <2>5. Asking'
    BY <1>4, <1>6, <2>0, <2>1, <2>2 DEF Asking
  <2>6. Marks'
    BY <1>5, <2>0 DEF Talking, Marks
  <2>7. hpc # "received"
    BY <1>1, <1>4, <1>5 DEF Talking, Turn
  <2>8. Agreed => Agreed'
    <3>1. Agreed => (InMail(conn) <=> hpc = "mail")
      BY <1>1, <1>4, <1>6 DEF Agreed
    <3>2. CASE p = "part"
      <4>1. InMail(conn)' <=> InMail(conn)
        BY <2>1, <3>2 DEF InMail
      <4> QED BY <2>0, <2>2, <3>1, <3>2, <4>1 DEF Agreed
    <3>3. CASE p # "part"
      BY <1>3, <1>4, <2>0, <2>2, <3>1, <3>3 DEF Agreed
    <3> QED BY <3>2, <3>3
  <2>9. Turn'
    BY <1>5, <2>0, <2>1, <2>7, <2>8 DEF Talking, Turn
  <2> QED BY <1>5, <2>0, <2>4, <2>5, <2>6, <2>9 DEF Talking
<1> QED BY <1>1, <1>10, <1>11, <1>12, <1>13, ApartIs DEF Inv, Typed, Shape

\* Nothing happens.
LEMMA StutterStays == ASSUME Inv, UNCHANGED vars PROVE Inv'
<1>1. UNCHANGED <<spc, mode, conn, ready, got_exit_signal, stdin, stdout, parent, client,
                  backlog, up, down, said, hpc, full, serverlogslocked, session>>
  BY DEF vars, sockfiltVars, harness, pipes, process, streams
<1>2. SocketReadable' <=> SocketReadable
  BY <1>1 DEF SocketReadable
<1>3. ProcessOK'
  BY <1>1, <1>2 DEF Inv, Typed, ProcessOK, Shaking
<1>4. PipesOK' /\ HarnessOK' /\ ClientsOK' /\ BacklogOK'
  BY <1>1, RestStays, ClientsStay, BacklogStays DEF Inv, Typed, PipesOK, Ended
<1>5. Shape'
  BY <1>1, ShapeStays DEF Inv, Ended, Shaking
<1> QED BY <1>3, <1>4, <1>5 DEF Inv, Typed

LEMMA NextInv == Inv /\ [Next]_vars => Inv'
<1> SUFFICES ASSUME Inv, [Next]_vars PROVE Inv'
  OBVIOUS
<1>1. CASE SockfiltStep /\ UNCHANGED <<harness, said>>
  BY <1>1, SockfiltStays
<1>2. CASE ExitSignal /\ UNCHANGED <<harness, said>>
  BY <1>2, ExitSignalStays
<1>3. CASE MainLoop
  BY <1>3, MainLoopStays
<1>4. CASE Killed
  BY <1>4, KilledStays
<1>5. CASE HarnessSignal
  BY <1>5, HarnessSignalStays
<1>6. CASE Network /\ UNCHANGED <<harness, said>>
  BY <1>6, ConnectStays, CloseStays, ResetStays DEF Network
<1>7. CASE \E c \in Clients : Send(c)
  BY <1>7, SendStays
<1>8. CASE UNCHANGED vars
  BY <1>8, StutterStays
<1> QED BY <1>1, <1>2, <1>3, <1>4, <1>5, <1>6, <1>7, <1>8 DEF Next

LEMMA Invariance == Spec => []Inv
BY InitInv, NextInv, PTL DEF Spec

-----------------------------------------------------------------------------
(* What holds of every behavior *)

\* Types, the pipes between the two processes included: the blocks in them are of
\* the protocol's kinds, and sockfilt serves its socket in the modes that have one.
THEOREM TypesAreKept == Spec => []TypeOK
<1>1. Inv => TypeOK
  <2> SUFFICES ASSUME Inv PROVE TypeOK
    OBVIOUS
  <2>1. \A o \in Orders : o.cmd \in Commands
    BY DEF Orders, Reply, ACKD, Bare, Block, Commands
  <2>2. \A b \in Reports : b.cmd \in Commands
    BY DEF Reports, Commands
  <2>3. /\ \A i \in DOMAIN stdin : stdin[i] \in Orders
        /\ \A i \in DOMAIN stdout : stdout[i] \in Reports
        /\ \A i \in DOMAIN full : i \in 1..Len(full)
    BY LenProperties, ElementOfSeq DEF Inv, Typed, PipesOK, HarnessOK
  <2>4. conn \in Clients <=> conn # NoClient
    BY ClientsAssumption DEF Inv, Typed, ProcessOK
  <2>5. SockfiltTypeOK
    BY <2>1, <2>2, <2>3, <2>4
       DEF Inv, Typed, ProcessOK, PipesOK, ClientsOK, BacklogOK, SockfiltTypeOK
  <2> QED BY <2>3, <2>5 DEF Inv, Typed, HarnessOK, TypeOK
<1> QED BY <1>1, Invariance, PTL

\* When the lines that clients send are commands that the server knows, the lock on
\* its files is held from the welcome until the client closes (CNCT in the main loop,
\* clear_advisor_read_lock after the session).  A line it does not know ends the
\* session with the client still there.
THEOREM LockIsHeld == ASSUME "unknown" \notin Pieces PROVE Spec => []LockHeld
<1>1. Inv => LockHeld
  <2> SUFFICES ASSUME Inv, conn # NoClient, Reached(conn), client[conn] = "open", ~Ended,
                      parent = "alive"
               PROVE  serverlogslocked
    BY DEF LockHeld
  <2>1. conn \in Clients /\ ~Shaking /\ down[conn] # << >>
    BY DEF Inv, Typed, ProcessOK, Reached
  <2>2. Talking
    BY <2>1 DEF Inv, Shape, Free, Lost, Called, Acked
  <2>3. ~Refused(conn)
    <3>1. said[conn] \in Seq(Kinds)
      BY <2>1 DEF Inv, Typed, ClientsOK
    <3>2. \A i \in 1..Len(said[conn]) : said[conn][i] \in Kinds
      BY <3>1, ElementOfSeq
    <3> QED BY <3>2, KindsAre DEF Refused
  <2>4. hpc \in {"session", "mail", "received"}
    BY <2>2, <2>3 DEF Inv, Typed, HarnessOK, Talking, Turn
  <2> QED BY <2>4 DEF Inv, Typed, HarnessOK
<1> QED BY <1>1, Invariance, PTL

\* Who is told what: sockfilt passes on a reply, or nothing changes.
LEMMA ToldIs ==
  ASSUME Inv, [Next]_vars
  PROVE  \/ down' = down
         \/ /\ said' = said /\ conn \in Clients /\ down' \in [Clients -> Seq(Replies)]
            /\ \E r \in Replies : Delivers(r)
<1>1. CASE SockfiltStep /\ UNCHANGED <<harness, said>>
  <2>1. Aside /\ Step
    BY <1>1 DEF SockfiltStep, Aside
  <2>2. CASE StdinData
    BY <1>1, <2>1, <2>2, StdinDataIs
  <2>3. CASE ~StdinData
    BY <2>1, <2>3 DEF Step, Start, StartFails, Select, StdinQuery, StdinQuit,
       StdinDataDisconnected, StdinDisc, Accept, AcceptFails, SocketData, SocketEof,
       HandshakeAckd, HandshakeDisc, HandshakeOther, Orphan, Signalled, streams
  <2> QED BY <2>2, <2>3
<1>2. CASE ExitSignal
  BY <1>2 DEF ExitSignal, streams
<1>3. CASE MainLoop
  BY <1>3 DEF MainLoop, ClientConnects, IdleIgnores, SessionData, SessionDisc, SessionIgnores,
     MailData, MailDisc, MailReply, Unlock, PipeEof, streams
<1>4. CASE Killed \/ HarnessSignal
  BY <1>4 DEF Killed, HarnessSignal, streams
<1>5. CASE Network
  BY <1>5 DEF Network, Connect, Close, Reset, streams
<1>6. CASE \E c \in Clients : Send(c)
  BY <1>6 DEF Send
<1>7. CASE UNCHANGED vars
  BY <1>7 DEF vars, sockfiltVars, streams
<1> QED BY <1>1, <1>2, <1>3, <1>4, <1>5, <1>6, <1>7 DEF Next

\* What a client has said it has said.
LEMMA StillSaid ==
  ASSUME Inv, [Next]_vars, NEW c \in Clients, Refused(c)
  PROVE  Refused(c)'
<1>1. CASE \E d \in Clients : Send(d)
  <2>1. PICK d \in Clients, p \in Kinds : said' = [said EXCEPT ![d] = Append(@, p)]
    BY <1>1, PiecesAssumption DEF Send, Kinds
  <2>2. said \in [Clients -> Seq(Kinds)]
    BY DEF Inv, Typed, ClientsOK
  <2>3. CASE c = d
    BY <2>1, <2>2, <2>3, SaidMore
  <2>4. CASE c # d
    <3>1. said'[c] = said[c]
      BY <2>1, <2>2, <2>4
    <3> QED BY <3>1 DEF Refused
  <2> QED BY <2>3, <2>4
<1>2. CASE said' = said
  BY <1>2 DEF Refused
<1>3. said' = said \/ \E d \in Clients : Send(d)
  BY DEF Next, MainLoop, ClientConnects, IdleIgnores, SessionData, SessionDisc, SessionIgnores,
     MailData, MailDisc, MailReply, Unlock, PipeEof, Killed, HarnessSignal, vars
<1> QED BY <1>1, <1>2, <1>3

\* One reply more.
LEMMA OneMore ==
  ASSUME down \in [Clients -> Seq(Replies)], conn \in Clients, NEW r \in Replies, Delivers(r)
  PROVE  \A c \in Clients :
           \/ down'[c] = down[c]
           \/ /\ c = conn /\ DOMAIN down'[c] = 1..(Len(down[c]) + 1)
              /\ DOMAIN down[c] = 1..Len(down[c]) /\ Len(down[c]) \in Nat
              /\ down'[c][Len(down[c]) + 1] = r
              /\ \A i \in 1..Len(down[c]) : down'[c][i] = down[c][i]
<1>1. CASE client[conn] # "open"
  BY <1>1 DEF Delivers
<1>2. CASE client[conn] = "open"
  <2>1. /\ down'[conn] = Append(down[conn], r) /\ down[conn] \in Seq(Replies)
        /\ \A c \in Clients \ {conn} : down'[c] = down[c]
    BY <1>2 DEF Delivers
  <2>2. /\ Append(down[conn], r) \in Seq(Replies)
        /\ Len(Append(down[conn], r)) = Len(down[conn]) + 1
        /\ Append(down[conn], r)[Len(down[conn]) + 1] = r
        /\ \A i \in 1..Len(down[conn]) : Append(down[conn], r)[i] = down[conn][i]
    BY <2>1, AppendedIn
  <2>3. /\ DOMAIN Append(down[conn], r) = 1..(Len(down[conn]) + 1)
        /\ DOMAIN down[conn] = 1..Len(down[conn]) /\ Len(down[conn]) \in Nat
    BY <2>1, <2>2, LenProperties
  <2> QED BY <2>1, <2>2, <2>3
<1> QED BY <1>1, <1>2

\* Only a line the server does not know is refused, wherever the client, TCP and the
\* pipe cut it: the loop on $full of the main loop puts the command together again.
THEOREM OnlyUnknownIsRefused == Spec => []Understood
<1>1. Init => Understood
  <2> SUFFICES ASSUME Init, NEW c \in Clients, NEW i \in DOMAIN down[c] PROVE FALSE
    BY DEF Understood
  <2>1. down[c] = << >>
    BY DEF Init, SockfiltInit
  <2> QED BY <2>1
<1>2. Inv /\ Understood /\ [Next]_vars => Understood'
  <2> SUFFICES ASSUME Inv, Understood, [Next]_vars, NEW c \in Clients,
                      NEW i \in DOMAIN down'[c], down'[c][i].text = "500"
               PROVE  \E j \in DOMAIN said'[c] : said'[c][j] = "unknown"
    BY DEF Understood
  <2>1. said \in [Clients -> Seq(Kinds)] /\ down \in [Clients -> Seq(Replies)]
    BY DEF Inv, Typed, ClientsOK
  <2>2. Refused(c) <=> \E j \in DOMAIN said[c] : said[c][j] = "unknown"
    <3>1. DOMAIN said[c] = 1..Len(said[c])
      BY <2>1, LenProperties
    <3> QED BY <3>1 DEF Refused
  <2>3. Refused(c)
    <3>1. CASE down'[c] = down[c]
      BY <2>2, <3>1 DEF Understood
    <3>2. CASE down'[c] # down[c]
      <4>1. PICK r \in Replies : Delivers(r) /\ conn \in Clients
        BY <3>2, ToldIs
      <4>2. /\ c = conn /\ DOMAIN down'[c] = 1..(Len(down[c]) + 1)
            /\ DOMAIN down[c] = 1..Len(down[c]) /\ Len(down[c]) \in Nat
            /\ down'[c][Len(down[c]) + 1] = r
            /\ \A j \in 1..Len(down[c]) : down'[c][j] = down[c][j]
        BY <2>1, <3>2, <4>1, OneMore
      <4>3. CASE i \in 1..Len(down[c])
        BY <2>2, <4>2, <4>3 DEF Understood
      <4>4. CASE i = Len(down[c]) + 1
        BY <4>1, <4>2, <4>4 DEF Delivers
      <4> QED BY <4>2, <4>3, <4>4
    <3> QED BY <3>1, <3>2
  <2>4. said' \in [Clients -> Seq(Kinds)]
    BY NextInv DEF Inv, Typed, ClientsOK
  <2>5. Refused(c)'
    BY <2>3, StillSaid
  <2>6. DOMAIN said'[c] = 1..Len(said'[c])
    BY <2>4, LenProperties
  <2> QED BY <2>5, <2>6 DEF Refused
<1> QED BY <1>1, <1>2, Invariance, PTL DEF Spec

\* Where no client sends a mail, each is told first the welcome, then only replies to
\* itself: disc_handshake throws away what the server had still to say to a client that
\* is gone.  (The reply that ends a mail whose client has gone is written after the
\* handshake, and delivered to the next client.)
THEOREM RepliesAreOwn == ASSUME "mail" \notin Pieces PROVE Spec => []OwnReplies
<1>1. Init => OwnReplies
  <2> SUFFICES ASSUME Init, NEW c \in Clients, NEW i \in DOMAIN down[c] PROVE FALSE
    BY DEF OwnReplies
  <2>1. down[c] = << >>
    BY DEF Init, SockfiltInit
  <2> QED BY <2>1
<1>2. Inv /\ OwnReplies /\ [Next]_vars => OwnReplies'
  <2> SUFFICES ASSUME Inv, OwnReplies, [Next]_vars, NEW c \in Clients, NEW i \in DOMAIN down'[c]
               PROVE  down'[c][i].to = c /\ (down'[c][i].text = "welcome" <=> i = 1)
    BY DEF OwnReplies
  <2>1. CASE down'[c] = down[c]
    BY <2>1 DEF OwnReplies
  <2>2. CASE down'[c] # down[c]
    <3>1. down \in [Clients -> Seq(Replies)]
      BY DEF Inv, Typed, ClientsOK
    <3>2. PICK r \in Replies : Delivers(r) /\ conn \in Clients
      BY <2>2, ToldIs
    <3>3. /\ c = conn /\ DOMAIN down'[c] = 1..(Len(down[c]) + 1)
          /\ DOMAIN down[c] = 1..Len(down[c]) /\ Len(down[c]) \in Nat
          /\ down'[c][Len(down[c]) + 1] = r
          /\ \A j \in 1..Len(down[c]) : down'[c][j] = down[c][j]
      BY <2>2, <3>1, <3>2, OneMore
    <3>4. r.to = c /\ (r.text = "welcome" <=> Len(down[c]) = 0)
      BY <3>1, <3>2, <3>3, EmptySeq DEF Delivers
    <3>5. CASE i \in 1..Len(down[c])
      BY <3>3, <3>5 DEF OwnReplies
    <3>6. CASE i = Len(down[c]) + 1
      BY <3>3, <3>4, <3>6
    <3> QED BY <3>3, <3>5, <3>6
  <2> QED BY <2>1, <2>2
<1> QED BY <1>1, <1>2, Invariance, PTL DEF Spec
=============================================================================
