--------------------------- MODULE EventLoop_proofs ---------------------------
(***************************************************************************)
(* Proofs about EventLoop, for any number of transfers, of reads and of    *)
(* errors of libcurl: each of the six programs watches every socket for    *)
(* what libcurl asked for last, and uses no SockInfo after it was freed;   *)
(* all but multi-uv keep a timer armed for libcurl's next deadline; and    *)
(* the two that end by themselves leave no transfer behind.                *)
(***************************************************************************)
EXTENDS EventLoop, FiniteSetTheorems, TLAPS

Phases == {"idle", "added", "resolve", "connect", "recv", "done", "freed"}

SockInfo == [info : {"none", "alive", "closing", "freed"}, ev : SUBSET {"IN", "OUT"},
             bad : BOOLEAN]

\* A record with the fields of Now.
IsState(m) ==
  m = [xfer |-> m.xfer, left |-> m.left, due |-> m.due, told |-> m.told,
       sock |-> m.sock, timers |-> m.timers, running |-> m.running,
       loop |-> m.loop, errors |-> m.errors, missed |-> m.missed]

\* What a program keeps of a socket is right for the phase of its transfer.
Agrees(f, phase) ==
  /\ f \in SockInfo
  /\ f.ev = Asked(phase)
  /\ ~f.bad
  /\ f.ev # {} => f.info = "alive"

Good(m) ==
  /\ IsState(m)
  /\ m.xfer \in [Urls -> Phases] /\ m.sock \in [Urls -> SockInfo]
  /\ \A u \in Urls : Agrees(m.sock[u], m.xfer[u])

\* The inductive invariant.  libcurl is not handed a transfer twice: those named in
\* the pipe, and all of them before main has begun, are new.
IInv ==
  /\ app \in FifoApps \cup ArgvApps
  /\ Good(Now)
  /\ \A w \in fifo \cap Urls : xfer[w] = "idle"
  /\ loop = "main" => fifo = {} /\ \A u \in Urls : xfer[u] = "idle"

-----------------------------------------------------------------------------
(* The socket callbacks *)

\* None frees what is freed, and all leave the socket watched as they were asked.
LEMMA CallbackAgrees ==
  ASSUME app \in FifoApps \cup ArgvApps, NEW f \in SockInfo, ~f.bad,
         NEW act \in {{}, {"IN"}, {"OUT"}}, act = {} => f.info = "alive"
  PROVE  /\ SockCb(f, act) \in SockInfo
         /\ SockCb(f, act).ev = act
         /\ ~SockCb(f, act).bad
         /\ act # {} => SockCb(f, act).info = "alive"
         /\ app = "multi-uv" => SockCb(f, act).info \in {"alive", "closing"}
<1> USE DEF SockInfo
<1>1. Flags({"IN"}) = {"IN"} /\ Flags({"OUT"}) = {"OUT"}
  BY DEF Flags
<1>2. CASE app = "hiperfifo"
  BY <1>2 DEF SockCb, HiperSock, Free, Uses, Unwatch, EventAdd, Alloc
<1>3. CASE app = "ephiperfifo"
  BY <1>3 DEF SockCb, EphiperSock, Free, Uses, Unwatch, EpollAdd, Alloc
<1>4. CASE app = "evhiperfifo"
  BY <1>4 DEF SockCb, EvhiperSock, Free, Uses, Unwatch, IoStart, Alloc
<1>5. CASE app = "ghiper"
  BY <1>5 DEF SockCb, GhiperSock, Free, Uses, Unwatch, AddWatch, Alloc
<1>6. CASE app = "multi-uv"
  BY <1>1, <1>6 DEF SockCb, UvSocket, Uses, Unwatch, EventAdd, Alloc
<1>7. CASE app = "multi-event"
  BY <1>1, <1>7 DEF SockCb, EventSocket, Free, Uses, Unwatch, EventAdd, Alloc
<1> QED
  BY <1>2, <1>3, <1>4, <1>5, <1>6, <1>7 DEF FifoApps, ArgvApps

-----------------------------------------------------------------------------
(* libcurl *)

\* Neither transfers nor sockets change.
Same(m, q) ==
  /\ IsState(q) /\ q.xfer = m.xfer /\ q.sock = m.sock /\ q.loop \in {m.loop, "exited"}
  /\ m.missed => q.missed

LEMMA SameGood == ASSUME NEW m, Good(m), NEW q, Same(m, q) PROVE Good(q)
BY DEF Good, Same

LEMMA CountedSame == ASSUME NEW m, IsState(m) PROVE Same(m, Counted(m))
BY DEF Same, IsState, Counted

LEMMA UpdateTimerSame ==
  ASSUME NEW m, IsState(m), NEW forced, NEW q \in UpdateTimer(m, forced)
  PROVE  Same(m, q)
<1>1. PICK next :
        q = IF next = m.told /\ (next = Never \/ ~forced) THEN m
            ELSE [m EXCEPT !.told = next,
                           !.timers = TimerCb(@, IF next = Never THEN -1 ELSE 500 * next)]
  BY ZenonT(30) DEF UpdateTimer
<1>2. PICK ts : q = m \/ q = [m EXCEPT !.told = next, !.timers = ts]
  BY ZenonT(30), <1>1
<1> QED BY <1>2 DEF Same, IsState

LEMMA FailingSame ==
  ASSUME NEW m, IsState(m), NEW s, NEW ignored, NEW q \in Failing(m, s, ignored)
  PROVE  Same(m, q)
<1>1. PICK code : q = [Counted(m) EXCEPT !.errors = @ + 1,
                         !.loop = IF code \in ignored THEN @ ELSE "exited",
                         !.missed = @ \/ (s = "TIMEOUT" /\ code \in ignored)]
  BY DEF Failing
<1>2. Same(m, Counted(m)) /\ Counted(m).loop = m.loop /\ Counted(m).missed = m.missed
  BY CountedSame DEF Counted, IsState
<1> QED BY <1>1, <1>2 DEF Same, IsState

LEMMA KillTimerSame ==
  ASSUME NEW m, IsState(m)
  PROVE  Same(m, KillTimer(m)) /\ Same(m, GhiperKill(m))
BY DEF Same, IsState, KillTimer, GhiperKill

\* What check_multi_info does to a state, with nothing asked of the sockets.
LEMMA CollectedGood ==
  ASSUME NEW m, Good(m)
  PROVE  /\ Good(Collected(m)) /\ Collected(m).sock = m.sock
         /\ Collected(m).loop = m.loop /\ Collected(m).missed = m.missed
         /\ \A u \in Urls : m.xfer[u] = "idle" => Collected(m).xfer[u] = "idle"
<1> DEFINE q == Collected(m)
           freed == [u \in Urls |-> IF m.xfer[u] = "done" THEN "freed" ELSE m.xfer[u]]
<1>1. /\ IsState(q) /\ q.sock = m.sock /\ q.loop = m.loop /\ q.missed = m.missed
      /\ q.xfer = freed
  BY DEF Good, IsState, Collected
<1>2. /\ freed \in [Urls -> Phases]
      /\ \A u \in Urls : /\ Asked(freed[u]) = Asked(m.xfer[u])
                         /\ m.xfer[u] = "idle" => freed[u] = "idle"
  BY DEF Good, Phases, Asked
<1> HIDE DEF q, freed
<1>3. Good(q)
  BY <1>1, <1>2 DEF Good, Agrees
<1> QED BY <1>1, <1>2, <1>3 DEF q

\* The phases a transfer can go to.
LEMMA RunsPhase ==
  ASSUME NEW m, NEW u, m.xfer[u] \in Phases, NEW ready, NEW r \in Runs(m, u, ready)
  PROVE  r.phase \in Phases /\ (m.xfer[u] = "idle" => r.phase = "idle")
BY DEF Runs, Phases

\* Running transfers calls the socket callback where something else is asked.
LEMMA PerformGood ==
  ASSUME app \in FifoApps \cup ArgvApps, NEW m, Good(m), NEW run \in SUBSET Urls, NEW f,
         \A u \in run : f[u].phase \in Phases, NEW q, q = Perform(m, run, f)
  PROVE  /\ Good(q) /\ q.loop = m.loop /\ q.missed = m.missed
         /\ \A u \in Urls : q.xfer[u] = IF u \in run THEN f[u].phase ELSE m.xfer[u]
         /\ app = "multi-uv" =>
              \A u \in Urls : m.sock[u].info \in {"alive", "closing"} =>
                                q.sock[u].info \in {"alive", "closing"}
<1> DEFINE xf == [u \in Urls |-> IF u \in run THEN f[u].phase ELSE m.xfer[u]]
           so == [u \in Urls |->
                    IF u \notin run \/ Asked(f[u].phase) = Asked(m.xfer[u]) THEN m.sock[u]
                    ELSE SockCb(m.sock[u], Asked(f[u].phase))]
<1>1. IsState(q) /\ q.loop = m.loop /\ q.missed = m.missed /\ q.xfer = xf /\ q.sock = so
  BY DEF Good, IsState, Perform
<1>2. xf \in [Urls -> Phases]
  BY DEF Good
<1>3. ASSUME NEW u \in Urls
      PROVE  /\ so[u] \in SockInfo /\ Agrees(so[u], xf[u])
             /\ app = "multi-uv" /\ m.sock[u].info \in {"alive", "closing"} =>
                  so[u].info \in {"alive", "closing"}
  <2>1. m.sock[u] \in SockInfo /\ Agrees(m.sock[u], m.xfer[u])
    BY DEF Good
  <2>2. CASE u \notin run \/ Asked(f[u].phase) = Asked(m.xfer[u])
    <3>1. so[u] = m.sock[u] /\ Asked(xf[u]) = Asked(m.xfer[u])
      BY <2>2
    <3> QED BY <2>1, <3>1 DEF Agrees
  <2>3. CASE u \in run /\ Asked(f[u].phase) # Asked(m.xfer[u])
    <3> DEFINE act == Asked(f[u].phase)
    <3>1. so[u] = SockCb(m.sock[u], act) /\ xf[u] = f[u].phase
      BY <2>3
    <3>2. act \in {{}, {"IN"}, {"OUT"}}
      BY DEF Asked
    <3>3. act = {} => m.sock[u].info = "alive"
      BY <2>1, <2>3 DEF Agrees
    <3>4. ~m.sock[u].bad
      BY <2>1 DEF Agrees
    <3> HIDE DEF act
    <3>0. /\ SockCb(m.sock[u], act) \in SockInfo
          /\ SockCb(m.sock[u], act).ev = act
          /\ ~SockCb(m.sock[u], act).bad
          /\ act # {} => SockCb(m.sock[u], act).info = "alive"
          /\ app = "multi-uv" => SockCb(m.sock[u], act).info \in {"alive", "closing"}
      <4> HIDE DEF so, xf
      <4> DEFINE g == m.sock[u]
      <4>1. g \in SockInfo /\ ~g.bad /\ (act = {} => g.info = "alive")
        BY <2>1, <3>3, <3>4 DEF Agrees
      <4> HIDE DEF g
      <4>2. /\ SockCb(g, act) \in SockInfo
            /\ SockCb(g, act).ev = act
            /\ ~SockCb(g, act).bad
            /\ act # {} => SockCb(g, act).info = "alive"
            /\ app = "multi-uv" => SockCb(g, act).info \in {"alive", "closing"}
        BY <4>1, <3>2, CallbackAgrees
      <4> QED BY <4>2 DEF g
    <3> HIDE DEF so, xf
    <3>5. /\ so[u] \in SockInfo /\ so[u].ev = act /\ ~so[u].bad
          /\ act # {} => so[u].info = "alive"
          /\ app = "multi-uv" => so[u].info \in {"alive", "closing"}
      BY <3>0, <3>1
    <3>6. act = Asked(xf[u])
      BY <3>1 DEF act
    <3>7. Agrees(so[u], xf[u])
      BY <3>5, <3>6 DEF Agrees
    <3> QED BY <3>5, <3>7
  <2> QED BY <2>2, <2>3
<1>4. so \in [Urls -> SockInfo]
  BY <1>3
<1> HIDE DEF xf, so
<1>5. Good(q)
  BY <1>1, <1>2, <1>3, <1>4 DEF Good
<1>6. \A u \in Urls : q.xfer[u] = IF u \in run THEN f[u].phase ELSE m.xfer[u]
  BY <1>1 DEF xf
<1> QED BY <1>1, <1>3, <1>5, <1>6

\* What a call may do to m: sockets as asked, no new transfer begun.
Driven(m, q) ==
  /\ Good(q)
  /\ \A u \in Urls : m.xfer[u] = "idle" => q.xfer[u] = "idle"
  /\ q.loop = "main" => m.loop = "main"
  /\ m.missed => q.missed

\* curl_multi_socket_action
LEMMA SocketActionGood ==
  ASSUME app \in FifoApps \cup ArgvApps, NEW m, Good(m), NEW s,
         NEW q \in SocketAction(m, s)
  PROVE  /\ Driven(m, q)
         /\ app = "multi-uv" =>
              \A u \in Urls : m.sock[u].info \in {"alive", "closing"} =>
                                q.sock[u].info \in {"alive", "closing"}
<1>1. PICK run \in SUBSET Urls :
        q \in RunAll(m, s, run, UNION {Runs(m, u, u = s) : u \in run})
  <2>1. ToRun(m, s) \in SUBSET Urls
    BY DEF ToRun
  <2> QED BY <2>1, Zenon DEF SocketAction
<1>2. PICK f : /\ \A u \in run : f[u] \in Runs(m, u, u = s)
               /\ q \in UpdateTimer(Counted(Perform(m, run, f)), s = "TIMEOUT")
  BY <1>1 DEF RunAll
<1> DEFINE p == Perform(m, run, f)
<1>3. \A u \in run : f[u].phase \in Phases /\ (m.xfer[u] = "idle" => f[u].phase = "idle")
  BY <1>2, RunsPhase DEF Good
<1>4. /\ Good(p) /\ p.loop = m.loop /\ p.missed = m.missed
      /\ \A u \in Urls : p.xfer[u] = IF u \in run THEN f[u].phase ELSE m.xfer[u]
      /\ app = "multi-uv" =>
           \A u \in Urls : m.sock[u].info \in {"alive", "closing"} =>
                             p.sock[u].info \in {"alive", "closing"}
  BY ZenonT(30), <1>3, PerformGood
<1> HIDE DEF p
<1>5. Same(p, Counted(p))
  BY <1>4, CountedSame DEF Good
<1>6. Same(Counted(p), q)
  BY <1>2, <1>5, UpdateTimerSame DEF Same, p
<1>7. Same(p, q)
  BY <1>5, <1>6 DEF Same
<1>8. Good(q)
  BY <1>4, <1>7, SameGood
<1>9. /\ q.xfer = p.xfer /\ q.sock = p.sock /\ q.loop \in {m.loop, "exited"}
      /\ m.missed => q.missed
  BY <1>4, <1>7 DEF Same
<1>10. Driven(m, q)
  BY <1>3, <1>4, <1>8, <1>9 DEF Driven
<1> QED BY <1>4, <1>9, <1>10

LEMMA SameDriven == ASSUME NEW m, Good(m), NEW q, Same(m, q) PROVE Driven(m, q)
BY SameGood DEF Driven, Same

LEMMA DrivenOn ==
  ASSUME NEW m, NEW n, Driven(m, n), NEW q, Driven(n, q)
  PROVE  Driven(m, q)
BY DEF Driven

LEMMA CollectedDriven == ASSUME NEW m, Good(m) PROVE Driven(m, Collected(m))
BY CollectedGood DEF Driven

\* The call of a callback, with or without an error.
LEMMA CallDriven ==
  ASSUME app \in FifoApps \cup ArgvApps, NEW m, Good(m), NEW s, NEW ignored,
         NEW q \in SocketAction(m, s) \cup Failing(m, s, ignored)
  PROVE  Driven(m, q)
<1>1. CASE q \in SocketAction(m, s)
  BY <1>1, SocketActionGood
<1>2. CASE q \in Failing(m, s, ignored)
  BY <1>2, FailingSame, SameDriven DEF Good
<1> QED BY <1>1, <1>2

LEMMA BreakingDriven ==
  ASSUME NEW c, Good(c)
  PROVE  LET b == [c EXCEPT !.loop = "breaking"] IN
         Driven(c, b) /\ Good(b) /\ b.loop = "breaking"
<1> DEFINE b == [c EXCEPT !.loop = "breaking"]
<1>1. /\ IsState(b) /\ b.xfer = c.xfer /\ b.sock = c.sock /\ b.loop = "breaking"
      /\ b.missed = c.missed
  BY DEF Good, IsState
<1> HIDE DEF b
<1>2. Good(b)
  BY <1>1 DEF Good
<1>3. Driven(c, b)
  BY <1>1, <1>2 DEF Driven
<1> QED BY <1>1, <1>2, <1>3 DEF b

LEMMA RunningGood ==
  ASSUME NEW c, Good(c)
  PROVE  LET b == [c EXCEPT !.loop = "running"] IN Good(b) /\ b.loop # "main"
<1> DEFINE b == [c EXCEPT !.loop = "running"]
<1>1. IsState(b) /\ b.xfer = c.xfer /\ b.sock = c.sock /\ b.loop = "running"
  BY DEF Good, IsState
<1> HIDE DEF b
<1> QED BY <1>1 DEF Good, b

\* What the programs do after it.
LEMMA AfterDriven ==
  ASSUME NEW m, Good(m)
  PROVE  /\ Driven(m, Collected(m)) /\ Driven(m, KillTimer(Collected(m)))
         /\ Driven(m, GhiperKill(Collected(m)))
         /\ Driven(m, HiperCheck(m)) /\ Driven(m, KillTimer(HiperCheck(m)))
<1> DEFINE c == Collected(m)
<1>1. Driven(m, c) /\ Good(c)
  BY CollectedGood, CollectedDriven
<1>2. Driven(c, KillTimer(c)) /\ Driven(c, GhiperKill(c))
  BY <1>1, KillTimerSame, SameDriven DEF Good
<1>3. Driven(m, HiperCheck(m))
  <2>1. HiperCheck(m) = c \/ HiperCheck(m) = [c EXCEPT !.loop = "breaking"]
    BY DEF HiperCheck
  <2> HIDE DEF c
  <2>2. Driven(c, [c EXCEPT !.loop = "breaking"])
    BY <1>1, BreakingDriven
  <2> QED BY <1>1, <2>1, <2>2, DrivenOn
<1>4. Driven(HiperCheck(m), KillTimer(HiperCheck(m)))
  BY <1>3, KillTimerSame, SameDriven DEF Driven, Good
<1> HIDE DEF c
<1>5. Driven(m, KillTimer(c)) /\ Driven(m, GhiperKill(c))
  BY <1>1, <1>2, DrivenOn
<1>6. Driven(m, KillTimer(HiperCheck(m)))
  BY <1>3, <1>4, DrivenOn
<1> QED BY <1>1, <1>3, <1>5, <1>6 DEF c

With(m, x, d) == [m EXCEPT !.xfer = x, !.due = d]

LEMMA WithState ==
  ASSUME NEW m, IsState(m), NEW x, NEW d
  PROVE  /\ IsState(With(m, x, d)) /\ With(m, x, d).xfer = x
         /\ With(m, x, d).sock = m.sock /\ With(m, x, d).loop = m.loop
         /\ With(m, x, d).missed = m.missed
<1>1. PICK r : r = [m EXCEPT !.xfer = x, !.due = d]
  OBVIOUS
<1>2. /\ IsState(r) /\ r.xfer = x /\ r.sock = m.sock /\ r.loop = m.loop
      /\ r.missed = m.missed
  BY <1>1 DEF IsState
<1> QED BY <1>1, <1>2 DEF With

\* curl_multi_add_handle asks nothing of a socket yet.
LEMMA AddHandlesGood ==
  ASSUME NEW m, Good(m), NEW us,
         \A u \in us \cap Urls : m.xfer[u] = "idle", NEW q \in AddHandles(m, us)
  PROVE  Good(q) /\ q.loop \in {m.loop, "exited"} /\ (m.missed => q.missed)
<1>0. PICK xf, du : /\ xf = [u \in Urls |-> IF u \in us THEN "added" ELSE m.xfer[u]]
                    /\ q \in UpdateTimer(With(m, xf, du), FALSE)
  BY Zenon DEF AddHandles, With
<1> DEFINE p == With(m, xf, du)
<1>1. /\ IsState(p) /\ p.xfer = xf /\ p.sock = m.sock /\ p.loop = m.loop
      /\ p.missed = m.missed
  BY WithState DEF Good
<1>2. /\ xf \in [Urls -> Phases]
      /\ \A u \in Urls : Asked(xf[u]) = Asked(m.xfer[u])
  BY <1>0 DEF Good, Phases, Asked
<1>4. Good(p)
  BY <1>1, <1>2 DEF Good, Agrees
<1>5. Same(p, q)
  BY <1>0, <1>1, UpdateTimerSame
<1> QED BY <1>1, <1>4, <1>5, SameGood DEF Same

\* A context that is still there is not harmed by being used.
LEMMA UsesSame ==
  ASSUME NEW m, Good(m), NEW u \in Urls, m.sock[u].info \in {"alive", "closing"}
  PROVE  Same(m, [m EXCEPT !.sock[u] = Uses(@)])
<1>1. m.sock[u] \in SockInfo /\ m.sock[u].bad = FALSE
  BY DEF Good, Agrees, SockInfo
<1>2. Uses(m.sock[u]) = m.sock[u]
  BY <1>1 DEF Uses, SockInfo
<1>3. [m.sock EXCEPT ![u] = Uses(@)] = m.sock
  BY <1>2 DEF Good
<1> QED BY <1>3 DEF Same, Good, IsState

-----------------------------------------------------------------------------
(* The invariant *)

LEMMA InvInit == Init => IInv
<1> SUFFICES ASSUME Init PROVE IInv
  OBVIOUS
<1>1. app \in FifoApps \cup ArgvApps
  BY AppsAssumption DEF Init
<1>2. IsState(Now)
  BY DEF IsState, Now
<1>3. Good(Now)
  BY <1>2 DEF Init, Good, Now, Phases, SockInfo, Agrees, Asked
<1> QED BY <1>1, <1>3 DEF Init, IInv

LEMMA NowIs ==
  /\ Now.xfer = xfer /\ Now.sock = sock /\ Now.loop = loop
  /\ IsState(Now)
BY DEF Now, IsState

\* The state a step leaves is the one that was computed.
LEMMA BecomesNow ==
  ASSUME NEW m, Good(m), Becomes(m)
  PROVE  Good(Now)' /\ xfer' = m.xfer /\ loop' = m.loop
<1>1. xfer' = m.xfer /\ sock' = m.sock /\ loop' = m.loop
  BY DEF Becomes
<1>2. Now'.xfer = m.xfer /\ Now'.sock = m.sock /\ IsState(Now')
  BY <1>1 DEF Now, IsState
<1> QED BY <1>1, <1>2 DEF Good

\* A callback that adds no transfer.
LEMMA Stays ==
  ASSUME IInv, NEW m, Driven(Now, m), Becomes(m), UNCHANGED <<app, fifo>>
  PROVE  IInv'
<1>1. /\ Good(Now)' /\ xfer' = m.xfer /\ loop' = m.loop
  BY BecomesNow DEF Driven
<1>2. \A u \in Urls : xfer[u] = "idle" => m.xfer[u] = "idle"
  BY NowIs DEF Driven
<1>3. m.loop = "main" => loop = "main"
  BY NowIs DEF Driven
<1> QED BY <1>1, <1>2, <1>3 DEF IInv

\* A callback that has read the whole pipe.
LEMMA Reads ==
  ASSUME IInv, NEW m, Good(m), m.loop # "main", Becomes(m), app' = app, fifo' = {}
  PROVE  IInv'
BY BecomesNow DEF IInv

\* What libcurl was handed was new.
LEMMA NewConnsGood ==
  ASSUME IInv, loop = "running", NEW us \in SUBSET fifo,
         NEW q \in NewConns(Now, us)
  PROVE  Good(q) /\ q.loop \in {"running", "exited"}
<1>1. Good(Now) /\ Now.loop = "running" /\ \A u \in us \cap Urls : Now.xfer[u] = "idle"
  BY NowIs DEF IInv
<1>2. CASE q \in AddHandles(Now, us)
  BY <1>1, <1>2, AddHandlesGood
<1>3. CASE q \in Failing(Now, "TIMEOUT", {})
  <2>1. Same(Now, q)
    BY <1>1, <1>3, FailingSame DEF Good
  <2> QED BY <1>1, <2>1, SameGood DEF Same
<1> QED BY <1>2, <1>3 DEF NewConns

LEMMA WithoutDriven ==
  ASSUME IInv, NEW t
  PROVE  Driven(Now, Without(t)) /\ Good(Without(t))
<1>1. Same(Now, Without(t))
  BY NowIs DEF Same, IsState, Without, Now
<1> QED BY <1>1, SameDriven DEF IInv, Driven

\* What the callbacks do after the call.
After(m) ==
  {Collected(m), KillTimer(Collected(m)), GhiperKill(Collected(m)),
   HiperCheck(m), KillTimer(HiperCheck(m))}

\* A callback of the event library, from a state n that the loop prepared.
LEMMA CallbackStays ==
  ASSUME IInv, NEW n, Driven(Now, n), NEW s, NEW ignored,
         NEW m \in SocketAction(n, s) \cup Failing(n, s, ignored),
         NEW q \in After(m), Becomes(q), UNCHANGED <<app, fifo>>
  PROVE  IInv'
<1>1. Driven(n, m)
  <2>1. Good(n) /\ app \in FifoApps \cup ArgvApps
    BY DEF IInv, Driven
  <2> QED BY <2>1, CallDriven
<1>2. Driven(m, q)
  <2>1. Good(m)
    BY <1>1 DEF Driven
  <2> QED BY <2>1, AfterDriven DEF After
<1>3. Driven(Now, q)
  <2>1. Driven(n, q)
    BY <1>1, <1>2, DrivenOn
  <2> QED BY <2>1, DrivenOn
<1> QED BY <1>3, Stays

\* The end of a loop.
LEMMA EndStays ==
  ASSUME IInv, NEW m, m = [Now EXCEPT !.loop = "ended"]
                      \/ m = [Now EXCEPT !.loop = "ended", !.timers = {}],
         Becomes(m), UNCHANGED <<app, fifo>>
  PROVE  IInv'
<1>1. /\ IsState(m) /\ m.xfer = xfer /\ m.sock = sock /\ m.loop = "ended"
      /\ m.missed = Now.missed
  BY DEF Now, IsState
<1>2. Driven(Now, m)
  BY <1>1, NowIs DEF Driven, IInv, Good
<1> QED BY <1>2, Stays

LEMMA FifoReads ==
  ASSUME IInv, NEW us \in SUBSET fifo, loop = "running",
         NEW q \in NewConns(Now, us), Becomes(q), app' = app, fifo' = {}
  PROVE  IInv'
<1>1. Good(q) /\ q.loop # "main"
  BY NewConnsGood
<1> QED BY <1>1, Reads

LEMMA NowDriven == IInv => Driven(Now, Now)
BY DEF IInv, Driven

\* Steps that touch neither transfers nor sockets nor the pipe.
LEMMA Untouched ==
  ASSUME IInv, UNCHANGED <<app, fifo, loop, xfer, sock>>
  PROVE  IInv'
<1>1. Now'.xfer = xfer /\ Now'.sock = sock /\ IsState(Now')
  BY DEF Now, IsState
<1>2. Good(Now)'
  BY <1>1, NowIs DEF IInv, Good
<1> QED BY <1>2 DEF IInv

-----------------------------------------------------------------------------
(* The steps *)

LEMMA WriteStays == ASSUME IInv, NEW w \in Urls \cup {"stop"}, Write(w) PROVE IInv'
<1>1. Good(Now)'
  <2>1. Now'.xfer = xfer /\ Now'.sock = sock /\ IsState(Now')
    BY DEF Write, lib, Now, IsState
  <2> QED BY <2>1, NowIs DEF IInv, Good
<1>2. w \in Urls => xfer[w] = "idle"
  BY AppsAssumption DEF Write
<1> QED BY <1>1, <1>2 DEF IInv, Write, lib

LEMMA TickStays == ASSUME IInv, Tick PROVE IInv'
BY Untouched DEF Tick, user

LEMMA SigintStays == ASSUME IInv, Sigint PROVE IInv'
BY Untouched DEF Sigint, lib

LEMMA EpollWaitStays == ASSUME IInv, NEW events, EpollWait(events) PROVE IInv'
BY Untouched DEF EpollWait, lib, user

LEMMA HiperStays ==
  ASSUME IInv, NEW u, HiperEvent(u) \/ HiperTimeout \/ HiperFifo \/ HiperEnd
  PROVE  IInv'
<1>1. CASE HiperEvent(u)
  <2>1. PICK m \in HiperCall(Now, u) : Becomes(KillTimer(HiperCheck(m)))
    BY <1>1 DEF HiperEvent, OneOf
  <2>2. UNCHANGED <<app, fifo>>
    BY <1>1 DEF HiperEvent, Rest, user
  <2> QED BY <2>1, <2>2, CallbackStays, NowDriven DEF HiperCall, After
<1>2. CASE HiperTimeout
  <2>1. PICK t \in Fired :
          \E m \in HiperCall(Without(t), "TIMEOUT") : Becomes(HiperCheck(m))
    BY <1>2 DEF HiperTimeout, OneOf
  <2>2. UNCHANGED <<app, fifo>>
    BY <1>2 DEF HiperTimeout, Rest, user
  <2> QED BY <2>1, <2>2, CallbackStays, WithoutDriven DEF HiperCall, After
<1>3. CASE HiperFifo
  <2> DEFINE us == fifo \ {"stop"}
  <2>1. PICK m \in NewConns(Now, us) :
          \/ Becomes(m)
          \/ Becomes([m EXCEPT !.loop = "breaking"])
    BY <1>3 DEF HiperFifo, OneOf
  <2>2. loop = "running" /\ fifo' = {} /\ app' = app
    BY <1>3 DEF HiperFifo, Running, FifoRead
  <2> HIDE DEF us
  <2>3. Good(m) /\ m.loop # "main"
    BY <2>2, NewConnsGood DEF us
  <2>4. /\ Good([m EXCEPT !.loop = "breaking"])
        /\ [m EXCEPT !.loop = "breaking"].loop # "main"
    BY <2>3, BreakingDriven
  <2> QED BY <2>1, <2>2, <2>3, <2>4, Reads
<1>4. CASE HiperEnd
  BY <1>4, EndStays DEF HiperEnd, OneOf, Rest, user
<1> QED BY <1>1, <1>2, <1>3, <1>4

LEMMA EphiperStays ==
  ASSUME IInv, NEW u,
         EphiperEvent(u) \/ EphiperTimeout \/ EphiperFifo \/ EphiperEnd
  PROVE  IInv'
<1>1. CASE EphiperEvent(u)
  <2>1. PICK m \in EphiperCall(Now, u) : Becomes(KillTimer(Collected(m)))
    BY <1>1 DEF EphiperEvent, OneOf
  <2>2. UNCHANGED <<app, fifo>>
    BY <1>1 DEF EphiperEvent, user
  <2> QED BY <2>1, <2>2, CallbackStays, NowDriven DEF EphiperCall, After
<1>2. CASE EphiperTimeout
  <2>1. UNCHANGED <<app, fifo>>
    BY <1>2 DEF EphiperTimeout, user
  <2>2. CASE \E t \in Fired :
               OneOf({Collected(m) : m \in EphiperCall(Without(t), "TIMEOUT")})
    <3>1. PICK t \in Fired :
            \E m \in EphiperCall(Without(t), "TIMEOUT") : Becomes(Collected(m))
      BY <2>2 DEF OneOf
    <3> QED BY <2>1, <3>1, CallbackStays, WithoutDriven DEF EphiperCall, After
  <2>3. CASE OneOf({Now})
    BY <2>1, <2>3, Stays, NowDriven DEF OneOf
  <2> QED BY <1>2, <2>2, <2>3 DEF EphiperTimeout
<1>3. CASE EphiperFifo
  <2>1. PICK m \in NewConns(Now, fifo) : Becomes(m)
    BY <1>3 DEF EphiperFifo, OneOf
  <2>2. loop = "running" /\ fifo' = {} /\ app' = app
    BY <1>3 DEF EphiperFifo, Running, Handled
  <2> QED BY <2>1, <2>2, FifoReads
<1>4. CASE EphiperEnd
  BY <1>4, EndStays DEF EphiperEnd, OneOf, Rest, user
<1> QED BY <1>1, <1>2, <1>3, <1>4

LEMMA EvhiperStays ==
  ASSUME IInv, NEW u, EvhiperEvent(u) \/ EvhiperTimeout \/ EvhiperFifo
  PROVE  IInv'
<1>1. CASE EvhiperEvent(u)
  <2>1. PICK m \in EvhiperCall(Now, u) : Becomes(KillTimer(Collected(m)))
    BY <1>1 DEF EvhiperEvent, OneOf
  <2>2. UNCHANGED <<app, fifo>>
    BY <1>1 DEF EvhiperEvent, Rest, user
  <2> QED BY <2>1, <2>2, CallbackStays, NowDriven DEF EvhiperCall, After
<1>2. CASE EvhiperTimeout
  <2>1. PICK t \in Fired :
          \E m \in EvhiperCall(Without(t), "TIMEOUT") : Becomes(Collected(m))
    BY <1>2 DEF EvhiperTimeout, OneOf
  <2>2. UNCHANGED <<app, fifo>>
    BY <1>2 DEF EvhiperTimeout, Rest, user
  <2> QED BY <2>1, <2>2, CallbackStays, WithoutDriven DEF EvhiperCall, After
<1>3. CASE EvhiperFifo
  <2>1. PICK m \in NewConns(Now, fifo) : Becomes(m)
    BY <1>3 DEF EvhiperFifo, OneOf
  <2>2. loop = "running" /\ fifo' = {} /\ app' = app
    BY <1>3 DEF EvhiperFifo, Running, FifoRead
  <2> QED BY <2>1, <2>2, FifoReads
<1> QED BY <1>1, <1>2, <1>3

LEMMA GhiperStays ==
  ASSUME IInv, NEW u, GhiperEvent(u) \/ GhiperTimeout \/ GhiperFifo
  PROVE  IInv'
<1>1. CASE GhiperEvent(u)
  <2>1. PICK m \in GhiperCall(Now, u) : Becomes(GhiperKill(Collected(m)))
    BY <1>1 DEF GhiperEvent, OneOf
  <2>2. UNCHANGED <<app, fifo>>
    BY <1>1 DEF GhiperEvent, Rest, user
  <2> QED BY <2>1, <2>2, CallbackStays, NowDriven DEF GhiperCall, After
<1>2. CASE GhiperTimeout
  <2>1. PICK t \in Fired :
          \E m \in GhiperCall(Without(t), "TIMEOUT") : Becomes(Collected(m))
    BY <1>2 DEF GhiperTimeout, OneOf
  <2>2. UNCHANGED <<app, fifo>>
    BY <1>2 DEF GhiperTimeout, Rest, user
  <2> QED BY <2>1, <2>2, CallbackStays, WithoutDriven DEF GhiperCall, After
<1>3. CASE GhiperFifo
  <2>1. PICK m \in NewConns(Now, fifo) : Becomes(m)
    BY <1>3 DEF GhiperFifo, OneOf
  <2>2. loop = "running" /\ fifo' = {} /\ app' = app
    BY <1>3 DEF GhiperFifo, Running, FifoRead
  <2> QED BY <2>1, <2>2, FifoReads
<1> QED BY <1>1, <1>2, <1>3

\* A socket that is reported has a context, which is not harmed by its use.
LEMMA ReadyUses ==
  ASSUME IInv, NEW u \in Urls, Ready(u)
  PROVE  /\ Driven(Now, [Now EXCEPT !.sock[u] = Uses(@)])
         /\ [Now EXCEPT !.sock[u] = Uses(@)].sock = sock
         /\ sock[u].info = "alive"
<1>1. Good(Now) /\ Now.sock[u].info = "alive" /\ sock[u].info = "alive"
  BY NowIs DEF IInv, Good, Agrees, Ready
<1>2. Same(Now, [Now EXCEPT !.sock[u] = Uses(@)])
  BY <1>1, UsesSame
<1> QED BY <1>1, <1>2, SameDriven, NowIs DEF Same

LEMMA UvStays ==
  ASSUME IInv,
         \/ UvMain \/ UvTimeout \/ UvEnd
         \/ \E u \in Urls : UvEvent(u) \/ UvClosed(u)
  PROVE  IInv'
<1>1. CASE UvMain
  <2>1. PICK us \in SUBSET Urls :
          \E m \in AddHandles(Now, us) :
            \E q \in UvCall(m, "TIMEOUT") : Becomes([q EXCEPT !.loop = "running"])
    BY <1>1 DEF UvMain, UvDownloads, OneOf
  <2>2. PICK m \in AddHandles(Now, us) :
          \E q \in UvCall(m, "TIMEOUT") : Becomes([q EXCEPT !.loop = "running"])
    BY <2>1
  <2>3. PICK q \in UvCall(m, "TIMEOUT") : Becomes([q EXCEPT !.loop = "running"])
    BY <2>2
  <2>4. fifo = {} /\ fifo' = {} /\ app' = app
    BY <1>1 DEF UvMain, Rest, user, IInv
  <2>5. Good(m)
    BY <1>1, AddHandlesGood, NowIs DEF IInv, UvMain
  <2>6. Good(q)
    BY <2>5, CallDriven DEF UvCall, IInv, Driven
  <2> QED BY <2>3, <2>4, <2>6, RunningGood, Reads
<1>2. ASSUME NEW u \in Urls, UvEvent(u) PROVE IInv'
  <2> DEFINE n == [Now EXCEPT !.sock[u] = Uses(@)]
  <2>1. PICK m \in UvCall(n, u) : Becomes([Collected(m) EXCEPT !.sock[u] = Uses(@)])
    BY <1>2 DEF UvEvent, OneOf
  <2>2. UNCHANGED <<app, fifo>> /\ app = "multi-uv"
    BY <1>2 DEF UvEvent, Rest, user, Running
  <2>3. Driven(Now, n) /\ n.sock = sock /\ sock[u].info = "alive"
    BY <1>2, ReadyUses DEF UvEvent
  <2> HIDE DEF n
  <2>4. Driven(n, m) /\ m.sock[u].info \in {"alive", "closing"}
    <3>1. CASE m \in SocketAction(n, u)
      BY <1>2, <2>2, <2>3, <3>1, SocketActionGood DEF IInv, Driven
    <3>2. CASE m \in Failing(n, u, AllErrors)
      BY <1>2, <2>3, <3>2, FailingSame, SameDriven DEF Driven, Good, Same
    <3> QED BY <2>1, <3>1, <3>2 DEF UvCall
  <2> DEFINE c == Collected(m)
  <2>5. Driven(m, c) /\ c.sock = m.sock /\ Good(c)
    BY <2>4, CollectedGood DEF Driven
  <2> HIDE DEF c
  <2> DEFINE q == [c EXCEPT !.sock[u] = Uses(@)]
  <2>6. Same(c, q)
    BY <1>2, <2>4, <2>5, UsesSame
  <2>7. Becomes(q)
    BY <2>1 DEF c
  <2> HIDE DEF q
  <2>8. Driven(c, q)
    BY <2>5, <2>6, SameDriven
  <2>9. Driven(n, q)
    BY <2>4, <2>5, <2>8, DrivenOn
  <2> QED
    <3>1. Driven(Now, q)
      BY <2>3, <2>9, DrivenOn
    <3> QED BY <2>2, <2>7, <3>1, Stays
<1>3. CASE UvTimeout
  <2>1. PICK t \in Fired : Becomes(Without(t))
    BY <1>3 DEF UvTimeout, OneOf
  <2> QED BY <1>3, <2>1, Stays, WithoutDriven DEF UvTimeout, Rest, user
<1>4. ASSUME NEW u \in Urls, UvClosed(u) PROVE IInv'
  <2> DEFINE q == [Now EXCEPT !.sock[u].info = "freed"]
  <2>1. Becomes(q) /\ UNCHANGED <<app, fifo>> /\ sock[u].info = "closing"
    BY <1>4 DEF UvClosed, OneOf, Rest, user
  <2>2. /\ IsState(q) /\ q.xfer = xfer /\ q.loop = loop /\ q.missed = Now.missed
        /\ q.sock = [sock EXCEPT ![u].info = "freed"]
    BY DEF Now, IsState
  <2> HIDE DEF q
  <2>3. Good(q)
    BY <1>4, <2>1, <2>2, NowIs DEF IInv, Good, Agrees, SockInfo
  <2>4. Driven(Now, q)
    BY <2>2, <2>3, NowIs DEF Driven
  <2> QED BY <2>1, <2>4, Stays
<1>5. CASE UvEnd
  BY <1>5, EndStays DEF UvEnd, OneOf, Rest, user
<1> QED BY <1>1, <1>2, <1>3, <1>4, <1>5

LEMMA EventStays ==
  ASSUME IInv,
         \/ EventMain \/ EventTimeout \/ EventEnd
         \/ \E u \in Urls : EventPerform(u)
  PROVE  IInv'
<1>1. CASE EventMain
  <2>1. PICK us \in SUBSET Urls :
          \E m \in AddHandles(Now, us) : Becomes([m EXCEPT !.loop = "running"])
    BY ZenonT(30), <1>1 DEF EventMain, EventDownloads, OneOf
  <2>2. PICK m \in AddHandles(Now, us) : Becomes([m EXCEPT !.loop = "running"])
    BY <2>1
  <2>3. fifo = {} /\ fifo' = {} /\ app' = app
    BY <1>1 DEF EventMain, Rest, user, IInv
  <2>4. Good(m)
    BY <1>1, AddHandlesGood, NowIs DEF IInv, EventMain
  <2> QED BY <2>2, <2>3, <2>4, RunningGood, Reads
<1>2. ASSUME NEW u \in Urls, EventPerform(u) PROVE IInv'
  <2> DEFINE n == [Now EXCEPT !.sock[u] = Uses(@)]
  <2>1. PICK m \in EventCall(n, u) : Becomes(Collected(m))
    BY <1>2 DEF EventPerform, OneOf
  <2>2. UNCHANGED <<app, fifo>>
    BY <1>2 DEF EventPerform, Rest, user
  <2>3. Driven(Now, n)
    BY <1>2, ReadyUses DEF EventPerform
  <2> HIDE DEF n
  <2> QED BY <2>1, <2>2, <2>3, CallbackStays DEF EventCall, After
<1>3. CASE EventTimeout
  <2>1. PICK t \in Fired :
          \E m \in EventCall(Without(t), "TIMEOUT") : Becomes(Collected(m))
    BY <1>3 DEF EventTimeout, OneOf
  <2>2. UNCHANGED <<app, fifo>>
    BY <1>3 DEF EventTimeout, Rest, user
  <2> QED BY <2>1, <2>2, CallbackStays, WithoutDriven DEF EventCall, After
<1>4. CASE EventEnd
  BY <1>4, EndStays DEF EventEnd, OneOf, Rest, user
<1> QED BY <1>1, <1>2, <1>3, <1>4

LEMMA InvNext == IInv /\ [Next]_vars => IInv'
<1> SUFFICES ASSUME IInv, [Next]_vars PROVE IInv'
  OBVIOUS
<1>1. CASE \E w \in Urls \cup {"stop"} : Write(w)
  BY <1>1, WriteStays
<1>2. CASE Sigint \/ Tick
  BY <1>2, SigintStays, TickStays
<1>3. CASE \E events \in SUBSET Waiting : EpollWait(events)
  BY <1>3, EpollWaitStays
<1>4. CASE \E u \in Urls : SocketEvent(u) \/ Handle(u) \/ UvClosed(u)
  BY <1>4, HiperStays, EphiperStays, EvhiperStays, GhiperStays, UvStays, EventStays
  DEF SocketEvent, Handle
<1>5. CASE Timeout \/ Fifo \/ MainSteps
  <2>1. HiperTimeout \/ HiperFifo \/ HiperEnd => IInv'
    BY HiperStays, Zenon
  <2>2. EphiperEnd => IInv'
    BY EphiperStays, Zenon
  <2>3. EvhiperTimeout \/ EvhiperFifo => IInv'
    BY EvhiperStays, Zenon
  <2>4. GhiperTimeout \/ GhiperFifo => IInv'
    BY GhiperStays, Zenon
  <2>5. UvMain \/ UvTimeout \/ UvEnd => IInv'
    BY UvStays
  <2>6. EventMain \/ EventTimeout \/ EventEnd => IInv'
    BY EventStays
  <2> QED BY <1>5, <2>1, <2>2, <2>3, <2>4, <2>5, <2>6 DEF Timeout, Fifo, MainSteps
<1>6. CASE UNCHANGED vars
  BY <1>6, Untouched DEF vars, user, lib
<1> QED BY <1>1, <1>2, <1>3, <1>4, <1>5, <1>6 DEF Next

LEMMA SpecInv == Spec => []IInv
BY InvInit, InvNext, PTL DEF Spec

\* The event loop of each program watches each socket for exactly what
\* libcurl asked for last (sock_cb, setsock, remsock and their like).
THEOREM LoopsWatchAsAsked == Spec => []WatchesAsAsked
<1>1. IInv => WatchesAsAsked
  BY NowIs DEF IInv, Good, Agrees, WatchesAsAsked
<1> QED BY <1>1, SpecInv, PTL

\* No program uses a SockInfo or context it has freed, nor is one watched.
THEOREM ContextsAreAlive == Spec => []ContextsAlive
<1>1. IInv => ContextsAlive
  BY NowIs DEF IInv, Good, Agrees, ContextsAlive
<1> QED BY <1>1, SpecInv, PTL

-----------------------------------------------------------------------------
(* Deadlines *)

Ticks == 0..3 \cup {Never}

TimerRec == [at : 0..3, current : BOOLEAN]

\* Only a transfer in progress has a deadline, and one has it always that waits for
\* neither of its socket's events.
Kept(m) ==
  /\ m.due \in [Urls -> Ticks] /\ m.told \in Ticks /\ m.timers \subseteq TimerRec
  /\ \A u \in Urls : /\ m.xfer[u] \notin Alive => m.due[u] = Never
                     /\ m.xfer[u] \in {"added", "resolve"} => m.due[u] # Never

\* The program was told the next deadline,
Told(m) ==
  /\ \A u \in Urls : m.told <= m.due[u]
  /\ m.told # Never => \E u \in Urls : m.due[u] = m.told

\* and has a timer that fires by then.
Armed(m) == m.told # Never => \E t \in m.timers : t.at <= m.told

\* A count of 0 means that libcurl has begun no transfer that is not done.
Counts(m) == m.running = 0 => \A u \in Urls : m.xfer[u] \notin {"resolve", "connect", "recv"}

\* What holds between the callbacks of a loop.
Timed(m) ==
  /\ Kept(m) /\ Told(m) /\ Armed(m) /\ Counts(m)
  /\ \A u \in Urls : m.xfer[u] # "done"

\* multi-uv ignores its timer, and multi-event may have missed an error.
Sees == app \in FifoApps \/ (app = "multi-event" /\ ~missed)

\* The inductive invariant of the deadlines.
TInv ==
  /\ IInv
  /\ Sees =>
       /\ loop \in {"main", "running"} => Timed(Now)
       /\ EndsWhenDone

\* Each timer callback arms a timer in time.
LEMMA CallbackArms ==
  ASSUME app \in FifoApps \cup ArgvApps, NEW ts \in SUBSET TimerRec, NEW next \in Ticks
  PROVE  LET new == TimerCb(ts, IF next = Never THEN -1 ELSE 500 * next) IN
         /\ new \subseteq TimerRec
         /\ next # Never => \E t \in new : t.at <= next
<1> DEFINE ms == IF next = Never THEN -1 ELSE 500 * next
<1>1. \A n \in 0..3 : Arm(n) \in TimerRec /\ Arm(n).at = n
  BY DEF Arm, TimerRec
<1>2. \A n \in 0..3 : InTicks((500 * n) \div 1000, ((500 * n) % 1000) * 1000000) = n
  BY DEF InTicks
<1>3. InTicks(0, 1) = 0 /\ InTicks(1 \div 1000, (1 % 1000) * 1000000) = 0
  BY DEF InTicks
<1>4. \A n \in 0..3 : InTicks((500 * n) \div 1000, 0) \in 0..n
  BY DEF InTicks
<1>5. CASE next = Never
  <2>1. ms = -1
    BY <1>5
  <2> HIDE DEF ms
  <2>2. TimerCb(ts, ms) \subseteq ts
    BY <2>1 DEF TimerCb, HiperTimer, EphiperTimer, TimerfdSettime, EvhiperTimer, GhiperTimer,
                UvTimer, EventTimer, FifoApps, ArgvApps
  <2> QED BY <1>5, <2>2 DEF ms
<1>6. CASE next # Never
  <2>1. next \in 0..3 /\ ms = 500 * next
    BY <1>6 DEF Ticks
  <2>2. ms \in Nat /\ (ms = 0 => next = 0) /\ ms # -1
    BY <2>1
  <2> DEFINE old == {[t EXCEPT !.current = FALSE] : t \in ts}
  <2>3. PICK n \in 0..3 : /\ n <= next /\ Arm(n) \in TimerCb(ts, ms)
                         /\ TimerCb(ts, ms) \subseteq old \cup {Arm(n)}
    <3>1. CASE app = "hiperfifo"
      BY <1>2, <2>1, <2>2, <3>1 DEF TimerCb, HiperTimer
    <3>2. CASE app = "ephiperfifo"
      <4>1. CASE ms = 0
        <5>1. TimerCb(ts, ms) = {Arm(0)}
          BY <1>3, <3>2, <4>1 DEF TimerCb, EphiperTimer, TimerfdSettime
        <5> QED BY <2>1, <5>1
      <4>2. CASE ms > 0
        <5>1. <<ms \div 1000, (ms % 1000) * 1000000>> # <<0, 0>>
          BY <2>1, <4>2
        <5>2. TimerCb(ts, ms) = {Arm(next)}
          BY <1>2, <2>1, <3>2, <4>2, <5>1 DEF TimerCb, EphiperTimer, TimerfdSettime
        <5> QED BY <2>1, <5>2
      <4> QED BY <2>2, <4>1, <4>2
    <3>3. CASE app = "evhiperfifo"
      BY <1>4, <2>1, <2>2, <3>3 DEF TimerCb, EvhiperTimer
    <3>4. CASE app = "ghiper"
      BY <1>2, <2>1, <2>2, <3>4 DEF TimerCb, GhiperTimer
    <3>5. CASE app = "multi-uv"
      BY <1>2, <1>3, <2>1, <2>2, <3>5 DEF TimerCb, UvTimer
    <3>6. CASE app = "multi-event"
      BY <1>2, <1>3, <2>1, <2>2, <3>6 DEF TimerCb, EventTimer
    <3> QED BY <3>1, <3>2, <3>3, <3>4, <3>5, <3>6 DEF FifoApps, ArgvApps
  <2>4. TimerCb(ts, ms) \subseteq TimerRec
    <3>1. old \subseteq TimerRec
      BY DEF TimerRec
    <3> QED BY <1>1, <2>3, <3>1
  <2> QED BY <1>1, <2>3, <2>4
<1> QED BY <1>5, <1>6

\* When libcurl calls its timer callback, or has armed the right one before.
LEMMA UpdateTimerArms ==
  ASSUME app \in FifoApps \cup ArgvApps, NEW m, IsState(m), Kept(m), NEW forced \in BOOLEAN,
         forced \/ Armed(m), NEW q \in UpdateTimer(m, forced)
  PROVE  /\ Kept(q) /\ Told(q) /\ Armed(q)
         /\ q.xfer = m.xfer /\ q.due = m.due /\ q.running = m.running /\ q.loop = m.loop
<1>1. PICK next \in {m.due[u] : u \in Urls} :
        /\ \A u \in Urls : next <= m.due[u]
        /\ q = IF next = m.told /\ (next = Never \/ ~forced) THEN m
               ELSE [m EXCEPT !.told = next,
                              !.timers = TimerCb(@, IF next = Never THEN -1 ELSE 500 * next)]
  BY ZenonT(30) DEF UpdateTimer
<1>2. next \in Ticks
  BY <1>1 DEF Kept
<1>3. CASE next = m.told /\ (next = Never \/ ~forced)
  <2>1. q = m
    BY <1>1, <1>3
  <2>2. Told(m) /\ Armed(m)
    BY <1>1, <1>3 DEF Told, Armed
  <2> QED BY <2>1, <2>2
<1>4. CASE ~(next = m.told /\ (next = Never \/ ~forced))
  <2>1. PICK ts : ts = TimerCb(m.timers, IF next = Never THEN -1 ELSE 500 * next)
    OBVIOUS
  <2>2. ts \subseteq TimerRec /\ (next # Never => \E t \in ts : t.at <= next)
    <3>1. m.timers \in SUBSET TimerRec
      BY DEF Kept
    <3> QED BY <1>2, <2>1, <3>1, CallbackArms
  <2>3. q = [m EXCEPT !.told = next, !.timers = ts]
    BY <1>1, <1>4, <2>1
  <2>4. /\ q.told = next /\ q.timers = ts
        /\ q.xfer = m.xfer /\ q.due = m.due /\ q.running = m.running /\ q.loop = m.loop
    BY <2>3 DEF IsState
  <2>5. Kept(q)
    BY <1>2, <2>2, <2>4 DEF Kept
  <2>6. Told(q) /\ Armed(q)
    BY <1>1, <2>2, <2>4 DEF Told, Armed
  <2> QED BY <2>4, <2>5, <2>6
<1> QED BY <1>3, <1>4

\* What a call of libcurl leaves: 0 means that all is done.
Served(q) ==
  /\ Kept(q) /\ Told(q) /\ Armed(q)
  /\ q.running \in Nat
  /\ q.running = 0 => \A u \in Urls : q.xfer[u] \notin Alive

LEMMA CountedServes ==
  ASSUME NEW m, IsState(m)
  PROVE  /\ Counted(m).xfer = m.xfer /\ Counted(m).due = m.due /\ Counted(m).told = m.told
         /\ Counted(m).timers = m.timers /\ Counted(m).loop = m.loop
         /\ IsState(Counted(m))
         /\ Counted(m).running \in Nat
         /\ Counted(m).running = 0 => \A u \in Urls : m.xfer[u] \notin Alive
<1> DEFINE S == {u \in Urls : m.xfer[u] \in Alive}
<1>1. IsFiniteSet(S)
  <2>1. S \in SUBSET Urls /\ IsFiniteSet(Urls)
    BY AppsAssumption
  <2> HIDE DEF S
  <2> QED BY ONLY <2>1, FS_Subset
<1>2. Cardinality(S) \in Nat /\ (Cardinality(S) = 0 => S = {})
  <2> HIDE DEF S
  <2>1. Cardinality(S) \in Nat
    BY ONLY <1>1, FS_CardinalityType
  <2>2. Cardinality(S) = 0 <=> S = {}
    BY ONLY <1>1, FS_EmptySet
  <2> QED BY <2>1, <2>2
<1>3. Counted(m) = [m EXCEPT !.running = Cardinality(S)]
  BY DEF Counted
<1> HIDE DEF S
<1>4. /\ Counted(m).xfer = m.xfer /\ Counted(m).due = m.due /\ Counted(m).told = m.told
      /\ Counted(m).timers = m.timers /\ Counted(m).loop = m.loop
      /\ IsState(Counted(m)) /\ Counted(m).running = Cardinality(S)
  BY <1>3 DEF IsState
<1> QED BY <1>2, <1>4 DEF S

\* The deadlines a transfer can get.
LEMMA RunsDue ==
  ASSUME NEW m, NEW u, m.xfer[u] \in Phases, NEW ready, NEW r \in Runs(m, u, ready)
  PROVE  /\ r.due \in Ticks
         /\ r.phase \notin Alive => r.due = Never
         /\ r.phase \in {"added", "resolve"} => r.due # Never
BY DEF Runs, Phases, Ticks, Alive, Never

LEMMA PerformKeeps ==
  ASSUME NEW m, IsState(m), Kept(m), NEW run \in SUBSET Urls, NEW f,
         \A u \in run : /\ f[u].due \in Ticks
                        /\ f[u].phase \notin Alive => f[u].due = Never
                        /\ f[u].phase \in {"added", "resolve"} => f[u].due # Never,
         NEW q, q = Perform(m, run, f)
  PROVE  IsState(q) /\ Kept(q) /\ q.loop = m.loop
<1>1. PICK xf, le, du, so :
        /\ xf = [u \in Urls |-> IF u \in run THEN f[u].phase ELSE m.xfer[u]]
        /\ du = [u \in Urls |-> IF u \in run THEN f[u].due ELSE m.due[u]]
        /\ q = [m EXCEPT !.xfer = xf, !.left = le, !.due = du, !.sock = so]
  BY DEF Perform
<1>2. /\ IsState(q) /\ q.xfer = xf /\ q.due = du /\ q.told = m.told /\ q.timers = m.timers
      /\ q.loop = m.loop
  BY <1>1 DEF IsState
<1>3. du \in [Urls -> Ticks]
  BY <1>1 DEF Kept
<1>4. \A u \in Urls : /\ xf[u] \notin Alive => du[u] = Never
                      /\ xf[u] \in {"added", "resolve"} => du[u] # Never
  <2> TAKE u \in Urls
  <2>1. CASE u \in run
    BY <1>1, <2>1
  <2>2. CASE u \notin run
    BY <1>1, <2>2 DEF Kept
  <2> QED BY <2>1, <2>2
<1> QED BY <1>2, <1>3, <1>4 DEF Kept

\* curl_multi_socket_action: called for a timeout it arms a timer in any case, called
\* for a socket it goes by the one it asked for last.
LEMMA SocketActionServes ==
  ASSUME app \in FifoApps \cup ArgvApps, NEW m, Good(m), Kept(m), NEW s,
         s = "TIMEOUT" \/ Armed(m), NEW q \in SocketAction(m, s)
  PROVE  Served(q) /\ q.loop = m.loop
<1>1. PICK run \in SUBSET Urls :
        q \in RunAll(m, s, run, UNION {Runs(m, u, u = s) : u \in run})
  <2>1. ToRun(m, s) \in SUBSET Urls
    BY DEF ToRun
  <2> QED BY <2>1, Zenon DEF SocketAction
<1>2. PICK f : /\ \A u \in run : f[u] \in Runs(m, u, u = s)
               /\ q \in UpdateTimer(Counted(Perform(m, run, f)), s = "TIMEOUT")
  BY <1>1 DEF RunAll
<1> DEFINE p == Perform(m, run, f)
<1>3. \A u \in run : /\ f[u].due \in Ticks
                     /\ f[u].phase \notin Alive => f[u].due = Never
                     /\ f[u].phase \in {"added", "resolve"} => f[u].due # Never
  BY <1>2, RunsDue DEF Good
<1>4. /\ IsState(p) /\ Kept(p) /\ p.loop = m.loop
      /\ p.told = m.told /\ p.timers = m.timers
  <2>1. IsState(p) /\ Kept(p) /\ p.loop = m.loop
    BY <1>3, PerformKeeps DEF Good
  <2>2. p.told = m.told /\ p.timers = m.timers
    BY DEF Perform, Good, IsState
  <2> QED BY <2>1, <2>2
<1>5. q \in UpdateTimer(Counted(p), s = "TIMEOUT")
  BY <1>2
<1> HIDE DEF p
<1>6. PICK c : c = Counted(p)
  OBVIOUS
<1>7. /\ IsState(c) /\ c.xfer = p.xfer /\ c.due = p.due /\ c.told = m.told
      /\ c.timers = m.timers /\ c.loop = m.loop
      /\ c.running \in Nat
      /\ c.running = 0 => \A u \in Urls : p.xfer[u] \notin Alive
  BY <1>4, <1>6, CountedServes
<1>8. Kept(c) /\ (Armed(m) => Armed(c))
  BY <1>4, <1>7 DEF Kept, Armed
<1>9. /\ Kept(q) /\ Told(q) /\ Armed(q)
      /\ q.xfer = c.xfer /\ q.due = c.due /\ q.running = c.running /\ q.loop = c.loop
  <2>1. (s = "TIMEOUT") \in BOOLEAN /\ (s = "TIMEOUT" \/ Armed(c))
    BY <1>8
  <2>2. q \in UpdateTimer(c, s = "TIMEOUT")
    BY <1>5, <1>6
  <2> QED BY <1>7, <1>8, <2>1, <2>2, UpdateTimerArms
<1> QED BY <1>7, <1>9 DEF Served

\* A call that fails and does not end the program was for a socket.
LEMMA FailingServes ==
  ASSUME NEW m, IsState(m), Kept(m), Told(m), NEW s, s = "TIMEOUT" \/ Armed(m),
         NEW ignored, NEW q \in Failing(m, s, ignored),
         ignored \in SUBSET {"BAD_SOCKET"} \/ ~q.missed,
         q.loop # "exited"
  PROVE  Served(q) /\ q.loop = m.loop
<1>1. PICK code \in {"INTERNAL_ERROR", "BAD_SOCKET"} :
        /\ q = [Counted(m) EXCEPT !.errors = @ + 1,
                    !.loop = IF code \in ignored THEN @ ELSE "exited",
                    !.missed = @ \/ (s = "TIMEOUT" /\ code \in ignored)]
        /\ s = "TIMEOUT" => code = "INTERNAL_ERROR"
  BY DEF Failing
<1>2. PICK c : c = Counted(m)
  OBVIOUS
<1>3. /\ IsState(c) /\ c.xfer = m.xfer /\ c.due = m.due /\ c.told = m.told
      /\ c.timers = m.timers /\ c.loop = m.loop
      /\ c.running \in Nat
      /\ c.running = 0 => \A u \in Urls : m.xfer[u] \notin Alive
  BY <1>2, CountedServes
<1>4. q = [c EXCEPT !.errors = @ + 1, !.loop = IF code \in ignored THEN @ ELSE "exited",
                    !.missed = @ \/ (s = "TIMEOUT" /\ code \in ignored)]
  BY <1>1, <1>2
<1>5. /\ q.xfer = c.xfer /\ q.due = c.due /\ q.told = c.told /\ q.timers = c.timers
      /\ q.running = c.running /\ q.loop = IF code \in ignored THEN c.loop ELSE "exited"
      /\ s = "TIMEOUT" /\ code \in ignored => q.missed
  BY <1>3, <1>4 DEF IsState
<1>6. code \in ignored
  BY <1>5
<1>7. Armed(m)
  BY <1>1, <1>5, <1>6
<1> QED BY <1>3, <1>5, <1>6, <1>7 DEF Served, Kept, Told, Armed

\* With nothing in progress no deadline is left, and the timer may go.
LEMMA NothingLeft ==
  ASSUME NEW q, Kept(q), Told(q), \A u \in Urls : q.xfer[u] \notin Alive
  PROVE  q.told = Never
BY DEF Kept, Told

\* Between callbacks, or after the end of a loop.
Rests(q) ==
  /\ q.loop \in {"main", "running"} => Timed(q)
  /\ q.loop = "breaking" => \A u \in Urls : q.xfer[u] \in {"idle", "freed"}

LEMMA CollectedServes ==
  ASSUME NEW m, Good(m), Served(m)
  PROVE  /\ Served(Collected(m)) /\ IsState(Collected(m)) /\ Collected(m).loop = m.loop
         /\ \A u \in Urls : Collected(m).xfer[u] \in Phases \ {"done"}
<1>1. PICK xf, q : /\ xf = [u \in Urls |-> IF m.xfer[u] = "done" THEN "freed" ELSE m.xfer[u]]
                   /\ q = Collected(m) /\ q = [m EXCEPT !.xfer = xf]
  BY DEF Collected
<1>2. /\ IsState(q) /\ q.xfer = xf /\ q.due = m.due /\ q.told = m.told
      /\ q.timers = m.timers /\ q.running = m.running /\ q.loop = m.loop
  BY <1>1 DEF Good, IsState
<1>3. \A u \in Urls : /\ xf[u] \in Phases \ {"done"}
                      /\ xf[u] \in Alive <=> m.xfer[u] \in Alive
                      /\ xf[u] \in {"added", "resolve"} => m.xfer[u] \in {"added", "resolve"}
  BY <1>1 DEF Good, Phases, Alive
<1>4. Kept(q)
  BY <1>2, <1>3 DEF Served, Kept
<1>5. Told(q) /\ Armed(q) /\ q.running \in Nat
  BY <1>2 DEF Served, Told, Armed
<1>6. q.running = 0 => \A u \in Urls : q.xfer[u] \notin Alive
  BY <1>2, <1>3 DEF Served
<1> QED BY <1>1, <1>2, <1>3, <1>4, <1>5, <1>6 DEF Served

\* What the callbacks do after the call leaves the timer that is needed.
LEMMA AfterRests ==
  ASSUME NEW m, Good(m), Served(m), m.loop = "running", NEW q \in After(m)
  PROVE  Rests(q) /\ q.loop \in {"running", "breaking"}
<1>1. PICK c : c = Collected(m)
  OBVIOUS
<1>2. /\ Served(c) /\ IsState(c) /\ c.loop = "running"
      /\ \A u \in Urls : c.xfer[u] \in Phases \ {"done"}
  BY <1>1, CollectedServes
<1>3. \A p : /\ p.xfer = c.xfer /\ p.due = c.due /\ p.told = c.told /\ p.running = c.running
             /\ p.timers \subseteq TimerRec
             /\ p.running = 0 \/ p.timers = c.timers
             /\ p.loop = "running"
             => Rests(p)
  <2> TAKE p
  <2> HAVE /\ p.xfer = c.xfer /\ p.due = c.due /\ p.told = c.told /\ p.running = c.running
           /\ p.timers \subseteq TimerRec
           /\ p.running = 0 \/ p.timers = c.timers
           /\ p.loop = "running"
  <2>1. Kept(p) /\ Told(p)
    BY <1>2 DEF Served, Kept, Told
  <2>2. p.running = 0 => \A u \in Urls : p.xfer[u] \notin Alive
    BY <1>2 DEF Served
  <2>3. Armed(p)
    <3>1. CASE p.running = 0
      BY <2>1, <2>2, <3>1, NothingLeft DEF Armed
    <3>2. CASE p.timers = c.timers
      BY <1>2, <3>2 DEF Served, Armed
    <3> QED BY <3>1, <3>2
  <2>4. Counts(p)
    BY <2>2 DEF Counts, Alive
  <2> QED BY <1>2, <2>1, <2>3, <2>4 DEF Rests, Timed
<1>4. c.timers \subseteq TimerRec /\ c.running \in Nat
  BY <1>2 DEF Served, Kept
<1>5. CASE q = c
  BY <1>2, <1>3, <1>4, <1>5
<1>6. CASE q = KillTimer(c)
  <2>1. /\ q.xfer = c.xfer /\ q.due = c.due /\ q.told = c.told /\ q.running = c.running
        /\ q.timers = (IF c.running <= 0 THEN {} ELSE c.timers) /\ q.loop = c.loop
    BY <1>2, <1>6 DEF KillTimer, IsState
  <2> QED BY <1>2, <1>3, <1>4, <2>1
<1>7. CASE q = GhiperKill(c)
  <2>1. /\ q.xfer = c.xfer /\ q.due = c.due /\ q.told = c.told /\ q.running = c.running
        /\ q.timers \subseteq c.timers /\ (c.running > 0 => q.timers = c.timers)
        /\ q.loop = c.loop
    BY <1>2, <1>7 DEF GhiperKill, IsState
  <2> QED BY <1>2, <1>3, <1>4, <2>1
<1>8. CASE q = HiperCheck(m) \/ q = KillTimer(HiperCheck(m))
  <2>1. PICK h : h = HiperCheck(m)
    OBVIOUS
  <2>2. /\ h.xfer = c.xfer /\ h.due = c.due /\ h.told = c.told /\ h.running = c.running
        /\ h.timers = c.timers /\ IsState(h)
        /\ (h.loop = "running" \/ (h.loop = "breaking" /\ c.running = 0))
    <3>1. h = c \/ (h = [c EXCEPT !.loop = "breaking"] /\ c.running = 0)
      BY <1>1, <2>1 DEF HiperCheck
    <3> QED BY <1>2, <3>1 DEF IsState
  <2>3. /\ q.xfer = c.xfer /\ q.due = c.due /\ q.told = c.told /\ q.running = c.running
        /\ (q.timers = c.timers \/ (q.timers = {} /\ c.running <= 0))
        /\ q.loop = h.loop
    <3>1. CASE q = h
      BY <2>2, <3>1
    <3>2. CASE q = KillTimer(h)
      <4>1. q = h \/ (q = [h EXCEPT !.timers = {}] /\ h.running <= 0)
        BY <3>2 DEF KillTimer
      <4> QED BY <2>2, <4>1 DEF IsState
    <3> QED BY <1>8, <2>1, <3>1, <3>2
  <2>4. CASE q.loop = "running"
    BY <1>2, <1>3, <1>4, <2>3, <2>4
  <2>5. CASE q.loop = "breaking"
    <3>1. \A u \in Urls : c.xfer[u] \notin Alive
      BY <1>2, <2>2, <2>3, <2>5 DEF Served
    <3> QED BY <1>2, <2>3, <2>5, <3>1 DEF Rests, Phases, Alive
  <2> QED BY <2>2, <2>3, <2>4, <2>5
<1> QED BY <1>1, <1>5, <1>6, <1>7, <1>8 DEF After

LEMMA AfterExited ==
  ASSUME NEW m, Good(m), m.loop = "exited", NEW q \in After(m)
  PROVE  q.loop = "exited"
<1>1. PICK c : c = Collected(m)
  OBVIOUS
<1>2. IsState(c) /\ c.loop = "exited"
  BY <1>1, CollectedGood DEF Good
<1>3. HiperCheck(m) = c
  BY <1>1, <1>2 DEF HiperCheck
<1>4. KillTimer(c).loop = "exited" /\ GhiperKill(c).loop = "exited"
  BY <1>2 DEF KillTimer, GhiperKill, IsState
<1> QED BY <1>1, <1>2, <1>3, <1>4 DEF After

LEMMA NowTimes ==
  /\ Now.due = due /\ Now.told = told /\ Now.timers = timers
  /\ Now.running = still_running
BY DEF Now

LEMMA BecomesTimed ==
  ASSUME NEW q, Becomes(q), Timed(q)
  PROVE  Timed(Now)'
<1>1. /\ Now'.xfer = q.xfer /\ Now'.due = q.due /\ Now'.told = q.told
      /\ Now'.timers = q.timers /\ Now'.running = q.running
  BY DEF Becomes, Now
<1> QED BY <1>1 DEF Timed, Kept, Told, Armed, Counts

\* The state in which a callback leaves a program that goes on or ends its loop.
LEMMA RestsNow ==
  ASSUME IInv', NEW q, Becomes(q), Rests(q), q.loop \in {"running", "breaking"}
  PROVE  TInv'
<1>1. loop' = q.loop /\ xfer' = q.xfer
  BY DEF Becomes
<1>2. CASE q.loop = "running"
  BY <1>1, <1>2, BecomesTimed DEF Rests, TInv, EndsWhenDone
<1>3. CASE q.loop = "breaking"
  BY <1>1, <1>3 DEF Rests, TInv, EndsWhenDone
<1> QED BY <1>2, <1>3

LEMMA ExitsNow ==
  ASSUME IInv', loop' = "exited"
  PROVE  TInv'
BY DEF TInv, EndsWhenDone

\* A callback of the event library, from a state n that the loop prepared.
LEMMA CallbackTimed ==
  ASSUME IInv, IInv', NEW n, Good(n), Kept(n), Told(n), n.loop = "running",
         NEW s, s = "TIMEOUT" \/ Armed(n), NEW ignored,
         NEW m \in SocketAction(n, s) \cup Failing(n, s, ignored),
         NEW q \in After(m), Becomes(q),
         ignored \in SUBSET {"BAD_SOCKET"} \/ ~missed'
  PROVE  TInv'
<1>0. app \in FifoApps \cup ArgvApps
  BY DEF IInv
<1>1. Good(m)
  BY <1>0, CallDriven DEF Driven
<1>2. CASE m.loop = "exited"
  <2>1. q.loop = "exited"
    BY <1>1, <1>2, AfterExited
  <2> QED BY <2>1, ExitsNow DEF Becomes
<1>3. CASE m.loop # "exited"
  <2>1. Served(m) /\ m.loop = "running"
    <3>1. CASE m \in SocketAction(n, s)
      BY <1>0, <3>1, SocketActionServes
    <3>2. CASE m \in Failing(n, s, ignored)
      <4>1. q.missed = missed' /\ (m.missed => q.missed)
        BY <1>1, AfterDriven DEF Becomes, After, Driven
      <4> QED BY <1>3, <3>2, <4>1, FailingServes DEF Good
    <3> QED BY <3>1, <3>2
  <2>2. Rests(q) /\ q.loop \in {"running", "breaking"}
    BY <1>1, <2>1, AfterRests
  <2> QED BY <2>2, RestsNow
<1> QED BY <1>2, <1>3

\* Between two callbacks.
LEMMA NowTimed ==
  ASSUME TInv, Sees, loop \in {"main", "running"}
  PROVE  Good(Now) /\ Kept(Now) /\ Told(Now) /\ Armed(Now) /\ Timed(Now) /\ Now.loop = loop
BY NowIs DEF TInv, IInv, Timed

\* A timer has fired.
LEMMA WithoutTimed ==
  ASSUME TInv, Sees, loop = "running", NEW t
  PROVE  /\ Good(Without(t)) /\ Kept(Without(t)) /\ Told(Without(t))
         /\ Without(t).loop = "running"
<1>1. PICK n : n = Without(t)
  OBVIOUS
<1>2. /\ n.xfer = Now.xfer /\ n.due = Now.due /\ n.told = Now.told /\ n.loop = Now.loop
      /\ n.timers = Now.timers \ {t}
  BY <1>1 DEF Without, Now
<1>3. Good(n)
  BY <1>1, WithoutDriven DEF TInv
<1>4. Kept(n) /\ Told(n)
  BY <1>2, NowTimed DEF Kept, Told
<1> QED BY <1>1, <1>2, <1>3, <1>4, NowTimed

\* The context of a socket is used.
LEMMA UsesTimed ==
  ASSUME TInv, Sees, loop = "running", NEW u \in Urls, Ready(u)
  PROVE  LET n == [Now EXCEPT !.sock[u] = Uses(@)] IN
         Good(n) /\ Kept(n) /\ Told(n) /\ Armed(n) /\ n.loop = "running"
<1>1. PICK n : n = [Now EXCEPT !.sock[u] = Uses(@)]
  OBVIOUS
<1>2. /\ n.xfer = Now.xfer /\ n.due = Now.due /\ n.told = Now.told /\ n.loop = Now.loop
      /\ n.timers = Now.timers
  BY <1>1 DEF Now
<1>3. Good(n)
  BY <1>1, ReadyUses DEF TInv, Driven
<1>4. Kept(n) /\ Told(n) /\ Armed(n)
  BY <1>2, NowTimed DEF Kept, Told, Armed
<1> QED BY <1>1, <1>2, <1>3, <1>4, NowTimed

\* Handles that are added are due at once, and libcurl asks for a timer.
LEMMA AddHandlesTimed ==
  ASSUME app \in FifoApps \cup ArgvApps, NEW m, Good(m), Timed(m), NEW us,
         \A u \in us \cap Urls : m.xfer[u] = "idle", NEW q \in AddHandles(m, us)
  PROVE  /\ Timed(q) /\ IsState(q) /\ q.loop = m.loop /\ q.running = m.running
         /\ \A u \in Urls : q.xfer[u] \in {m.xfer[u], "added"}
<1>1. PICK xf, du : /\ xf = [u \in Urls |-> IF u \in us THEN "added" ELSE m.xfer[u]]
                    /\ du = [u \in Urls |-> IF u \in us THEN 0 ELSE m.due[u]]
                    /\ q \in UpdateTimer(With(m, xf, du), FALSE)
  BY Zenon DEF AddHandles, With
<1>2. PICK p : p = With(m, xf, du)
  OBVIOUS
<1>3. /\ IsState(p) /\ p.xfer = xf /\ p.due = du /\ p.told = m.told /\ p.timers = m.timers
      /\ p.loop = m.loop /\ p.running = m.running
  BY <1>2 DEF With, Good, IsState
<1>4. Kept(p) /\ Armed(p)
  <2>1. du \in [Urls -> Ticks]
    BY <1>1 DEF Ticks, Timed, Kept
  <2>2. \A u \in Urls : /\ xf[u] \notin Alive => du[u] = Never
                        /\ xf[u] \in {"added", "resolve"} => du[u] # Never
    <3> TAKE u \in Urls
    <3>1. CASE u \in us
      BY <1>1, <3>1 DEF Alive, Never
    <3>2. CASE u \notin us
      BY <1>1, <3>2 DEF Timed, Kept
    <3> QED BY <3>1, <3>2
  <2> QED BY <1>3, <2>1, <2>2 DEF Timed, Kept, Armed
<1>5. /\ Kept(q) /\ Told(q) /\ Armed(q)
      /\ q.xfer = p.xfer /\ q.running = p.running /\ q.loop = p.loop
  BY ZenonT(30), <1>1, <1>2, <1>3, <1>4, UpdateTimerArms
<1>6. IsState(q)
  BY <1>1, <1>2, <1>3, UpdateTimerSame DEF Same
<1>7. \A u \in Urls : q.xfer[u] \in {m.xfer[u], "added"}
  BY <1>1, <1>3, <1>5
<1>8. Counts(q) /\ \A u \in Urls : q.xfer[u] # "done"
  BY <1>3, <1>5, <1>7 DEF Timed, Counts
<1> QED BY <1>3, <1>5, <1>6, <1>7, <1>8 DEF Timed

\* What new_conn hands to libcurl.
LEMMA NewConnsTimed ==
  ASSUME TInv, Sees, loop = "running", NEW us \in SUBSET fifo,
         NEW q \in NewConns(Now, us), q.loop # "exited"
  PROVE  /\ Timed(q) /\ IsState(q) /\ q.loop = "running" /\ q.running = still_running
         /\ \A u \in Urls : q.xfer[u] \in {xfer[u], "added"}
<1>1. \A u \in us \cap Urls : Now.xfer[u] = "idle"
  BY NowIs DEF TInv, IInv
<1>2. Failing(Now, "TIMEOUT", {}) = {} \/ q \in AddHandles(Now, us)
  <2>1. CASE q \in Failing(Now, "TIMEOUT", {})
    <3>1. PICK c, code : /\ c = Counted(Now)
                         /\ q = [c EXCEPT !.errors = @ + 1,
                                   !.loop = IF code \in {} THEN @ ELSE "exited",
                                   !.missed = @ \/ ("TIMEOUT" = "TIMEOUT" /\ code \in {})]
      BY <2>1 DEF Failing
    <3>2. IsState(c)
      BY <3>1, NowIs, CountedServes
    <3>3. q.loop = "exited"
      BY <3>1, <3>2 DEF IsState
    <3> QED BY <3>3
  <2> QED BY <2>1 DEF NewConns
<1>3. q \in AddHandles(Now, us)
  BY <1>2 DEF NewConns
<1> QED BY <1>1, <1>3, AddHandlesTimed, NowTimed, NowIs, NowTimes DEF TInv, IInv

LEMMA FifoTimed ==
  ASSUME TInv, IInv', Sees, loop = "running", NEW us \in SUBSET fifo,
         NEW q \in NewConns(Now, us), Becomes(q)
  PROVE  TInv'
<1>1. CASE q.loop = "exited"
  BY <1>1, ExitsNow DEF Becomes
<1>2. CASE q.loop # "exited"
  <2>1. Timed(q) /\ q.loop = "running"
    BY <1>2, NewConnsTimed
  <2> QED BY <2>1, RestsNow DEF Rests
<1> QED BY <1>1, <1>2

\* Steps that touch neither transfers nor deadlines.
LEMMA UntouchedTimed ==
  ASSUME TInv, IInv',
         UNCHANGED <<app, loop, still_running, xfer, due, told, timers, missed>>
  PROVE  TInv'
<1>1. /\ Now'.xfer = Now.xfer /\ Now'.due = Now.due /\ Now'.told = Now.told
      /\ Now'.timers = Now.timers /\ Now'.running = Now.running
  BY DEF Now
<1>2. Timed(Now) => Timed(Now)'
  BY <1>1 DEF Timed, Kept, Told, Armed, Counts
<1> QED BY <1>2 DEF TInv, Sees, EndsWhenDone

LEMMA UvTimed == ASSUME IInv', app = "multi-uv", app' = app PROVE TInv'
BY DEF TInv, Sees, FifoApps

\* The end of a loop that is breaking, or of which nothing is asked.
LEMMA EndTimed ==
  ASSUME TInv, IInv', app' = app, xfer' = xfer, missed' = missed, loop' = "ended",
         app \in FifoApps, app # "hiperfifo" \/ loop = "breaking"
  PROVE  TInv'
BY DEF TInv, Sees, FifoApps, EndsWhenDone

LEMMA TickKeepsOrder ==
  /\ \A n \in Ticks : Tick0(n) \in Ticks /\ (Tick0(n) = Never <=> n = Never)
  /\ \A n \in 0..3 : Tick0(n) \in 0..3
  /\ \A n, k \in Ticks : n <= k => Tick0(n) <= Tick0(k)
BY DEF Ticks, Tick0, Never

\* Time brings timers and deadlines nearer alike.
LEMMA TickTimed == ASSUME TInv, IInv', Tick PROVE TInv'
<1>1. /\ loop = "running" /\ app' = app /\ loop' = loop /\ xfer' = xfer
      /\ due' = [u \in Urls |-> Tick0(due[u])] /\ told' = Tick0(told)
      /\ timers' = {[t EXCEPT !.at = Tick0(@)] : t \in timers}
      /\ still_running' = still_running /\ missed' = missed
  BY DEF Tick
<1>2. CASE ~Sees
  BY <1>1, <1>2 DEF TInv, Sees
<1>3. CASE Sees
  <2>1. Kept(Now) /\ Told(Now) /\ Armed(Now) /\ Timed(Now)
    BY <1>1, <1>3, NowTimed
  <2>2. /\ due \in [Urls -> Ticks] /\ told \in Ticks /\ timers \subseteq TimerRec
        /\ \A u \in Urls : /\ xfer[u] \notin Alive => due[u] = Never
                           /\ xfer[u] \in {"added", "resolve"} => due[u] # Never
    BY <2>1, NowIs, NowTimes DEF Kept
  <2>3. /\ \A u \in Urls : told <= due[u]
        /\ told # Never => \E u \in Urls : due[u] = told
        /\ told # Never => \E t \in timers : t.at <= told
    BY <2>1, NowIs, NowTimes DEF Told, Armed
  <2>4. /\ Now'.xfer = xfer /\ Now'.due = due' /\ Now'.told = told'
        /\ Now'.timers = timers' /\ Now'.running = still_running
    BY <1>1 DEF Now
  <2>5. \A u \in Urls : due[u] \in Ticks /\ due'[u] = Tick0(due[u])
    BY <1>1, <2>2
  <2>6. Kept(Now)'
    <3>1. due' \in [Urls -> Ticks]
      BY <1>1, <2>5, TickKeepsOrder
    <3>2. told' \in Ticks
      BY <1>1, <2>2, TickKeepsOrder
    <3>3. timers' \subseteq TimerRec
      BY <1>1, <2>2, TickKeepsOrder DEF TimerRec
    <3>4. \A u \in Urls : /\ xfer[u] \notin Alive => due'[u] = Never
                          /\ xfer[u] \in {"added", "resolve"} => due'[u] # Never
      BY <2>2, <2>5, TickKeepsOrder
    <3> QED BY <2>4, <3>1, <3>2, <3>3, <3>4 DEF Kept
  <2>7. Told(Now)'
    <3>1. \A u \in Urls : told' <= due'[u]
      BY <1>1, <2>2, <2>3, <2>5, TickKeepsOrder
    <3>2. told' # Never => \E u \in Urls : due'[u] = told'
      BY <1>1, <2>2, <2>3, <2>5, TickKeepsOrder
    <3> QED BY <2>4, <3>1, <3>2 DEF Told
  <2>8. Armed(Now)'
    <3>1. told' # Never => \E t \in timers' : t.at <= told'
      <4>1. SUFFICES ASSUME told' # Never PROVE \E t \in timers' : t.at <= told'
        OBVIOUS
      <4>2. told # Never
        BY <1>1, <2>2, <4>1, TickKeepsOrder
      <4>3. PICK t \in timers : t.at <= told
        BY <2>3, <4>2
      <4>4. t \in TimerRec /\ t.at \in 0..3 /\ t.at \in Ticks
        BY <2>2, <4>3 DEF TimerRec, Ticks
      <4>5. PICK r \in timers' : r = [t EXCEPT !.at = Tick0(@)]
        BY <1>1, <4>3
      <4>6. r.at = Tick0(t.at)
        BY <4>4, <4>5 DEF TimerRec
      <4>7. Tick0(t.at) <= Tick0(told)
        BY <2>2, <4>3, <4>4, TickKeepsOrder
      <4> QED BY <1>1, <4>5, <4>6, <4>7
    <3> QED BY <2>4, <3>1 DEF Armed
  <2>9. Timed(Now)'
    BY <2>1, <2>4, <2>6, <2>7, <2>8, NowIs, NowTimes DEF Timed, Counts
  <2> QED BY <1>1, <2>9 DEF TInv, EndsWhenDone
<1> QED BY <1>2, <1>3

LEMMA HiperTimed ==
  ASSUME TInv, IInv', NEW u, HiperEvent(u) \/ HiperTimeout \/ HiperFifo \/ HiperEnd
  PROVE  TInv'
<1>0. app = "hiperfifo" /\ Sees /\ IInv /\ {"BAD_SOCKET"} \in SUBSET {"BAD_SOCKET"}
  BY DEF HiperEvent, HiperTimeout, HiperFifo, HiperEnd, Running, TInv, Sees, FifoApps
<1>1. CASE HiperEvent(u)
  <2>1. PICK m \in HiperCall(Now, u) : Becomes(KillTimer(HiperCheck(m)))
    BY <1>1 DEF HiperEvent, OneOf
  <2>2. loop = "running"
    BY <1>1 DEF HiperEvent, Running
  <2> QED BY <1>0, <2>1, <2>2, NowTimed, CallbackTimed DEF HiperCall, After
<1>2. CASE HiperTimeout
  <2>1. PICK t \in Fired :
          \E m \in HiperCall(Without(t), "TIMEOUT") : Becomes(HiperCheck(m))
    BY <1>2 DEF HiperTimeout, OneOf
  <2>2. loop = "running"
    BY <1>2 DEF HiperTimeout, Running
  <2> QED BY <1>0, <2>1, <2>2, WithoutTimed, CallbackTimed DEF HiperCall, After
<1>3. CASE HiperFifo
  <2> DEFINE us == fifo \ {"stop"}
  <2>1. PICK m \in NewConns(Now, us) :
          \/ Becomes(m)
          \/ still_running = 0 /\ m.loop = "running" /\ Becomes([m EXCEPT !.loop = "breaking"])
    BY <1>3 DEF HiperFifo, OneOf
  <2>2. loop = "running" /\ us \in SUBSET fifo
    BY <1>3 DEF HiperFifo, Running
  <2> HIDE DEF us
  <2>3. CASE Becomes(m)
    BY <1>0, <2>1, <2>2, <2>3, FifoTimed
  <2>4. CASE still_running = 0 /\ m.loop = "running"
             /\ Becomes([m EXCEPT !.loop = "breaking"])
    <3>1. IsState(m) /\ \A v \in Urls : m.xfer[v] \in {xfer[v], "added"}
      BY <1>0, <2>1, <2>2, <2>4, NewConnsTimed
    <3>2. PICK q : q = [m EXCEPT !.loop = "breaking"]
      OBVIOUS
    <3>3. q.xfer = m.xfer /\ q.loop = "breaking"
      BY <3>1, <3>2 DEF IsState
    <3>4. loop' = "breaking" /\ xfer' = m.xfer
      BY <2>4, <3>2, <3>3 DEF Becomes
    <3>5. \A v \in Urls : xfer[v] \in {"idle", "freed", "added"}
      <4>1. Timed(Now) /\ Good(Now)
        BY <1>0, <2>2, NowTimed
      <4>2. \A v \in Urls : xfer[v] \in Phases \ {"done", "resolve", "connect", "recv"}
        BY <2>4, <4>1, NowIs, NowTimes DEF Timed, Counts, Good
      <4> QED BY <4>2 DEF Phases
    <3>6. app' = "hiperfifo"
      BY <1>0, <1>3 DEF HiperFifo, FifoRead
    <3>7. \A v \in Urls : xfer'[v] \in {"idle", "freed"} \cup {"added"}
      BY <3>1, <3>4, <3>5
    <3> QED BY <3>4, <3>6, <3>7 DEF TInv, EndsWhenDone
  <2> QED BY <2>1, <2>3, <2>4
<1>4. CASE HiperEnd
  <2>1. PICK q : q = [Now EXCEPT !.loop = "ended", !.timers = {}] /\ Becomes(q)
    BY <1>4 DEF HiperEnd, OneOf
  <2>2. loop' = "ended" /\ xfer' = xfer /\ missed' = missed
    BY <2>1 DEF Becomes, Now
  <2> QED BY <1>4, <2>2, EndTimed DEF HiperEnd, Rest, FifoApps
<1> QED BY <1>1, <1>2, <1>3, <1>4

LEMMA EphiperTimed ==
  ASSUME TInv, IInv', NEW u,
         EphiperEvent(u) \/ EphiperTimeout \/ EphiperFifo \/ EphiperEnd
  PROVE  TInv'
<1>0. /\ app = "ephiperfifo" /\ Sees /\ loop = "running" /\ IInv
      /\ {"BAD_SOCKET"} \in SUBSET {"BAD_SOCKET"}
  BY DEF EphiperEvent, EphiperTimeout, EphiperFifo, EphiperEnd, Handled, Running, TInv,
         Sees, FifoApps
<1>1. CASE EphiperEvent(u)
  <2>1. PICK m \in EphiperCall(Now, u) : Becomes(KillTimer(Collected(m)))
    BY <1>1 DEF EphiperEvent, OneOf
  <2> QED BY <1>0, <2>1, NowTimed, CallbackTimed DEF EphiperCall, After
<1>2. CASE EphiperTimeout
  <2>1. CASE \E t \in Fired :
               OneOf({Collected(m) : m \in EphiperCall(Without(t), "TIMEOUT")})
    <3>1. PICK t \in Fired :
            \E m \in EphiperCall(Without(t), "TIMEOUT") : Becomes(Collected(m))
      BY <2>1 DEF OneOf
    <3> QED BY <1>0, <3>1, WithoutTimed, CallbackTimed DEF EphiperCall, After
  <2>2. CASE OneOf({Now})
    <3>1. UNCHANGED <<app, loop, still_running, xfer, due, told, timers, missed>>
      BY <1>2, <2>2 DEF EphiperTimeout, OneOf, Becomes, Now
    <3> QED BY <3>1, UntouchedTimed
  <2> QED BY <1>2, <2>1, <2>2 DEF EphiperTimeout
<1>3. CASE EphiperFifo
  <2>1. PICK m \in NewConns(Now, fifo) : Becomes(m)
    BY <1>3 DEF EphiperFifo, OneOf
  <2> QED BY <1>0, <2>1, FifoTimed
<1>4. CASE EphiperEnd
  <2>1. PICK q : q = [Now EXCEPT !.loop = "ended", !.timers = {}] /\ Becomes(q)
    BY <1>4 DEF EphiperEnd, OneOf
  <2>2. loop' = "ended" /\ xfer' = xfer /\ missed' = missed
    BY <2>1 DEF Becomes, Now
  <2> QED BY <1>0, <1>4, <2>2, EndTimed DEF EphiperEnd, Rest, FifoApps
<1> QED BY <1>1, <1>2, <1>3, <1>4

LEMMA EvhiperTimed ==
  ASSUME TInv, IInv', NEW u, EvhiperEvent(u) \/ EvhiperTimeout \/ EvhiperFifo
  PROVE  TInv'
<1>0. /\ Sees /\ loop = "running" /\ IInv
      /\ {"BAD_SOCKET"} \in SUBSET {"BAD_SOCKET"}
  BY DEF EvhiperEvent, EvhiperTimeout, EvhiperFifo, Running, TInv, Sees, FifoApps
<1>1. CASE EvhiperEvent(u)
  <2>1. PICK m \in EvhiperCall(Now, u) : Becomes(KillTimer(Collected(m)))
    BY <1>1 DEF EvhiperEvent, OneOf
  <2> QED BY <1>0, <2>1, NowTimed, CallbackTimed DEF EvhiperCall, After
<1>2. CASE EvhiperTimeout
  <2>1. PICK t \in Fired :
          \E m \in EvhiperCall(Without(t), "TIMEOUT") : Becomes(Collected(m))
    BY <1>2 DEF EvhiperTimeout, OneOf
  <2> QED BY <1>0, <2>1, WithoutTimed, CallbackTimed DEF EvhiperCall, After
<1>3. CASE EvhiperFifo
  <2>1. PICK m \in NewConns(Now, fifo) : Becomes(m)
    BY <1>3 DEF EvhiperFifo, OneOf
  <2> QED BY <1>0, <2>1, FifoTimed
<1> QED BY <1>1, <1>2, <1>3

LEMMA GhiperTimed ==
  ASSUME TInv, IInv', NEW u, GhiperEvent(u) \/ GhiperTimeout \/ GhiperFifo
  PROVE  TInv'
<1>0. /\ Sees /\ loop = "running" /\ IInv
      /\ {} \in SUBSET {"BAD_SOCKET"}
  BY DEF GhiperEvent, GhiperTimeout, GhiperFifo, Running, TInv, Sees, FifoApps
<1>1. CASE GhiperEvent(u)
  <2>1. PICK m \in GhiperCall(Now, u) : Becomes(GhiperKill(Collected(m)))
    BY <1>1 DEF GhiperEvent, OneOf
  <2> QED BY <1>0, <2>1, NowTimed, CallbackTimed DEF GhiperCall, After
<1>2. CASE GhiperTimeout
  <2>1. PICK t \in Fired :
          \E m \in GhiperCall(Without(t), "TIMEOUT") : Becomes(Collected(m))
    BY <1>2 DEF GhiperTimeout, OneOf
  <2> QED BY <1>0, <2>1, WithoutTimed, CallbackTimed DEF GhiperCall, After
<1>3. CASE GhiperFifo
  <2>1. PICK m \in NewConns(Now, fifo) : Becomes(m)
    BY <1>3 DEF GhiperFifo, OneOf
  <2> QED BY <1>0, <2>1, FifoTimed
<1> QED BY <1>1, <1>2, <1>3

\* What multi-event has missed, it has missed for good.
LEMMA EventMisses ==
  ASSUME IInv,
         \/ EventMain \/ EventTimeout \/ EventEnd
         \/ \E u \in Urls : EventPerform(u)
  PROVE  missed => missed'
<1>0. Now.missed = missed /\ Good(Now) /\ app \in FifoApps \cup ArgvApps
  BY DEF Now, IInv
<1>1. ASSUME NEW n, Driven(Now, n), NEW s, NEW m \in EventCall(n, s), Becomes(Collected(m))
      PROVE  missed => missed'
  <2>1. Driven(n, m)
    BY <1>0, <1>1, CallDriven DEF EventCall, Driven
  <2>2. Collected(m).missed = m.missed
    BY <2>1, CollectedGood DEF Driven
  <2> QED BY <1>0, <1>1, <2>1, <2>2 DEF Driven, Becomes
<1>2. CASE EventMain
  <2>1. PICK us \in SUBSET Urls :
          \E m \in AddHandles(Now, us) : Becomes([m EXCEPT !.loop = "running"])
    BY ZenonT(30), <1>2 DEF EventMain, EventDownloads, OneOf
  <2>2. PICK m \in AddHandles(Now, us) : Becomes([m EXCEPT !.loop = "running"])
    BY <2>1
  <2>3. Good(m) /\ (Now.missed => m.missed)
    BY <1>0, <1>2, AddHandlesGood, NowIs DEF IInv, EventMain
  <2>4. [m EXCEPT !.loop = "running"].missed = m.missed
    BY <2>3 DEF Good, IsState
  <2> QED BY <1>0, <2>2, <2>3, <2>4 DEF Becomes
<1>3. ASSUME NEW u \in Urls, EventPerform(u) PROVE missed => missed'
  <2>1. PICK m \in EventCall([Now EXCEPT !.sock[u] = Uses(@)], u) : Becomes(Collected(m))
    BY <1>3 DEF EventPerform, OneOf
  <2>2. Driven(Now, [Now EXCEPT !.sock[u] = Uses(@)])
    BY <1>3, ReadyUses DEF EventPerform
  <2> QED BY <1>1, <2>1, <2>2
<1>4. CASE EventTimeout
  <2>1. PICK t \in Fired :
          \E m \in EventCall(Without(t), "TIMEOUT") : Becomes(Collected(m))
    BY <1>4 DEF EventTimeout, OneOf
  <2> QED BY <1>1, <2>1, WithoutDriven
<1>5. CASE EventEnd
  BY <1>5 DEF EventEnd, OneOf, Becomes, Now
<1> QED BY <1>2, <1>3, <1>4, <1>5

LEMMA EventTimed ==
  ASSUME TInv, IInv',
         \/ EventMain \/ EventTimeout \/ EventEnd
         \/ \E u \in Urls : EventPerform(u)
  PROVE  TInv'
<1>a. app = "multi-event" /\ app' = app /\ IInv
  BY DEF EventMain, EventTimeout, EventEnd, EventPerform, Running, Rest, TInv
<1>b. SUFFICES ASSUME ~missed' PROVE TInv'
  BY <1>a DEF TInv, Sees, FifoApps
<1>0. app = "multi-event" /\ app' = app /\ IInv /\ Sees
  BY <1>a, <1>b, EventMisses DEF Sees
<1>1. CASE EventMain
  <2>1. PICK us \in SUBSET Urls :
          \E m \in AddHandles(Now, us) : Becomes([m EXCEPT !.loop = "running"])
    BY <1>1 DEF EventMain, EventDownloads, OneOf
  <2>2. PICK m \in AddHandles(Now, us) : Becomes([m EXCEPT !.loop = "running"])
    BY <2>1
  <2>3. Timed(m) /\ IsState(m)
    <3>1. loop = "main" /\ \A u \in us \cap Urls : Now.xfer[u] = "idle"
      BY <1>0, <1>1, NowIs DEF EventMain, IInv
    <3> QED BY <1>0, <2>2, <3>1, NowTimed, AddHandlesTimed DEF IInv
  <2>4. PICK q : q = [m EXCEPT !.loop = "running"]
    OBVIOUS
  <2>5. /\ q.xfer = m.xfer /\ q.due = m.due /\ q.told = m.told /\ q.timers = m.timers
        /\ q.running = m.running /\ q.loop = "running"
    BY <2>3, <2>4 DEF IsState
  <2>6. Timed(q)
    BY <2>3, <2>5 DEF Timed, Kept, Told, Armed, Counts
  <2> QED BY <2>2, <2>4, <2>5, <2>6, RestsNow DEF Rests
<1>2. ASSUME NEW u \in Urls, EventPerform(u) PROVE TInv'
  <2> DEFINE n == [Now EXCEPT !.sock[u] = Uses(@)]
  <2>1. PICK m \in EventCall(n, u) : Becomes(Collected(m))
    BY <1>2 DEF EventPerform, OneOf
  <2>2. Good(n) /\ Kept(n) /\ Told(n) /\ Armed(n) /\ n.loop = "running"
    BY <1>0, <1>2, UsesTimed DEF EventPerform, Running
  <2> HIDE DEF n
  <2> QED BY <1>0, <1>b, <2>1, <2>2, CallbackTimed DEF EventCall, After
<1>3. CASE EventTimeout
  <2>1. PICK t \in Fired :
          \E m \in EventCall(Without(t), "TIMEOUT") : Becomes(Collected(m))
    BY <1>3 DEF EventTimeout, OneOf
  <2>2. loop = "running"
    BY <1>3 DEF EventTimeout, Running
  <2> QED BY <1>0, <1>b, <2>1, <2>2, WithoutTimed, CallbackTimed DEF EventCall, After
<1>4. CASE EventEnd
  <2>1. PICK q : q = [Now EXCEPT !.loop = "ended"] /\ Becomes(q)
    BY <1>4 DEF EventEnd, OneOf
  <2>2. loop' = "ended" /\ xfer' = xfer /\ app' = app
    BY <1>4, <2>1 DEF Becomes, Now, EventEnd, Rest
  <2>3. timers = {} /\ loop = "running" /\ \A u \in Urls : sock[u].ev = {}
    BY <1>4 DEF EventEnd, Running
  <2>4. Timed(Now) /\ Good(Now)
    BY <1>0, <2>3, NowTimed
  <2>5. told = Never
    BY <2>3, <2>4, NowTimes DEF Timed, Armed
  <2>6. \A u \in Urls : due[u] = Never
    BY <2>4, <2>5, NowTimes DEF Timed, Kept, Told, Ticks, Never
  <2>7. \A u \in Urls : Asked(xfer[u]) = {}
    BY <2>3, <2>4, NowIs DEF Good, Agrees
  <2>8. \A u \in Urls : xfer[u] \in {"idle", "freed"}
    <3> TAKE u \in Urls
    <3>1. xfer[u] \in Phases \ {"done", "added", "resolve"}
      BY <2>4, <2>6, NowIs, NowTimes DEF Timed, Kept, Good
    <3>2. xfer[u] \notin {"connect", "recv"}
      BY <2>7 DEF Asked
    <3> QED BY <3>1, <3>2 DEF Phases
  <2> QED BY <2>2, <2>8 DEF TInv, EndsWhenDone
<1> QED BY <1>1, <1>2, <1>3, <1>4

LEMMA InitTimed == Init => TInv
<1> SUFFICES ASSUME Init PROVE TInv
  OBVIOUS
<1>1. /\ Now.xfer = [u \in Urls |-> "idle"] /\ Now.due = [u \in Urls |-> Never]
      /\ Now.told = Never
      /\ Now.timers \in {{}, {[at |-> 2, current |-> TRUE]}}
  BY DEF Init, Now
<1>2. Kept(Now)
  <2>1. Now.timers \subseteq TimerRec
    <3>1. [at |-> 2, current |-> TRUE] \in TimerRec
      BY DEF TimerRec
    <3>2. Now.timers = {} \/ Now.timers = {[at |-> 2, current |-> TRUE]}
      BY <1>1
    <3> QED BY <3>1, <3>2, Zenon
  <2>2. Now.due \in [Urls -> Ticks] /\ Now.told \in Ticks
    BY <1>1 DEF Ticks
  <2> QED BY <1>1, <2>1, <2>2 DEF Kept, Alive
<1>3. Told(Now) /\ Armed(Now) /\ Counts(Now) /\ \A u \in Urls : Now.xfer[u] # "done"
  BY <1>1 DEF Told, Armed, Counts, Never
<1>4. loop \notin {"breaking", "ended"}
  BY DEF Init
<1> QED BY <1>2, <1>3, <1>4, InvInit DEF TInv, Timed, EndsWhenDone

LEMMA TimedNext == TInv /\ [Next]_vars => TInv'
<1> SUFFICES ASSUME TInv, [Next]_vars PROVE TInv'
  OBVIOUS
<1>0. IInv'
  BY InvNext DEF TInv
<1>1. CASE \E w \in Urls \cup {"stop"} : Write(w)
  BY <1>0, <1>1, UntouchedTimed DEF Write, lib
<1>2. CASE Sigint \/ (\E events \in SUBSET Waiting : EpollWait(events))
  BY <1>0, <1>2, UntouchedTimed DEF Sigint, EpollWait, lib, user
<1>3. CASE UNCHANGED vars
  BY <1>0, <1>3, UntouchedTimed DEF vars, lib
<1>4. CASE Tick
  BY <1>0, <1>4, TickTimed
<1>5. UvMain \/ UvTimeout \/ UvEnd => TInv'
  BY <1>0, UvTimed DEF UvMain, UvTimeout, UvEnd, Running, Rest
<1>6. \A u \in Urls : UvEvent(u) \/ UvClosed(u) => TInv'
  BY <1>0, UvTimed DEF UvEvent, UvClosed, Running, Rest
<1>7. CASE \E u \in Urls : SocketEvent(u) \/ Handle(u) \/ UvClosed(u)
  BY <1>0, <1>6, <1>7, HiperTimed, EphiperTimed, EvhiperTimed, GhiperTimed, EventTimed
  DEF SocketEvent, Handle
<1>8. CASE Timeout \/ Fifo \/ MainSteps
  <2>1. HiperTimeout \/ HiperFifo \/ HiperEnd => TInv'
    BY <1>0, HiperTimed, Zenon
  <2>2. EphiperEnd => TInv'
    BY <1>0, EphiperTimed, Zenon
  <2>3. EvhiperTimeout \/ EvhiperFifo => TInv'
    BY <1>0, EvhiperTimed, Zenon
  <2>4. GhiperTimeout \/ GhiperFifo => TInv'
    BY <1>0, GhiperTimed, Zenon
  <2>5. EventMain \/ EventTimeout \/ EventEnd => TInv'
    BY <1>0, EventTimed
  <2> QED BY <1>5, <1>8, <2>1, <2>2, <2>3, <2>4, <2>5 DEF Timeout, Fifo, MainSteps
<1> QED BY <1>1, <1>2, <1>3, <1>4, <1>7, <1>8 DEF Next

LEMMA SpecTimed == Spec => []TInv
BY InitTimed, TimedNext, PTL DEF Spec

\* The next deadline of libcurl is never lost: whatever the callbacks of a program do
\* to its timer, one stays armed that fires no later.
THEOREM WakeupsAreKept == Spec => []NoLostWakeup
<1>1. TInv => NoLostWakeup
  <2> SUFFICES ASSUME TInv, loop = "running", app # "multi-uv", ~missed, NEW u \in Urls,
                      due[u] # Never
               PROVE  \E t \in timers : t.at <= due[u]
    BY DEF NoLostWakeup
  <2>0. Sees
    BY DEF TInv, IInv, Sees, ArgvApps
  <2>1. Kept(Now) /\ Told(Now) /\ Armed(Now)
    BY <2>0, NowTimed
  <2>2. due[u] \in 0..3 /\ told \in Ticks /\ told <= due[u] /\ timers \subseteq TimerRec
    BY <2>1, NowTimes DEF Kept, Told, Ticks
  <2>3. told # Never
    BY <2>2 DEF Never
  <2>4. PICK t \in timers : t.at <= told
    BY <2>1, <2>3, NowTimes DEF Armed
  <2>5. t.at \in 0..3 /\ told \in Int /\ due[u] \in Int
    BY <2>2, <2>4 DEF TimerRec, Ticks, Never
  <2> QED BY <2>2, <2>4, <2>5
<1> QED BY <1>1, SpecTimed, PTL

\* hiperfifo breaks its loop after "stop", and multi-event leaves its own, only when
\* every transfer libcurl has begun is done and freed.
THEOREM LoopsEndWhenDone == Spec => []EndsWhenDone
<1>1. TInv => EndsWhenDone
  BY DEF TInv, Sees, FifoApps, EndsWhenDone
<1> QED BY <1>1, SpecTimed, PTL
=============================================================================
