------------------------------ MODULE EventLoop ------------------------------
(***************************************************************************)
(* Six example programs that drive libcurl from an event loop with         *)
(* curl_multi_socket_action: hiperfifo.c and multi-event.c (libevent),     *)
(* ephiperfifo.c (epoll and a timerfd), evhiperfifo.c (libev), ghiper.c    *)
(* (glib) and multi-uv.c (libuv).  One behaviour is a run of one of them,  *)
(* app.  libcurl and the event libraries are external: a transfer goes     *)
(* through the phases below and asks for its socket and its next deadline  *)
(* through the two callbacks the program has set.                          *)
(*                                                                         *)
(* Time passes in ticks of half a second.  A callback of the event library *)
(* is one action: everything it calls, libcurl's own callbacks included,   *)
(* runs before the loop gets control again.                                *)
(***************************************************************************)
EXTENDS Integers, FiniteSets

CONSTANTS
    Apps,               \* the programs of this run
    Urls,               \* what is fetched, each by a transfer of its own
    Chunks,             \* reads a download takes
    MaxErrors           \* bound: calls of libcurl that return an error

FifoApps == {"hiperfifo", "ephiperfifo", "evhiperfifo", "ghiper"}
ArgvApps == {"multi-uv", "multi-event"}

ASSUME AppsAssumption ==
    /\ Apps \subseteq FifoApps \cup ArgvApps
    /\ Chunks \in Nat \ {0} /\ MaxErrors \in Nat
    /\ IsFiniteSet(Urls) /\ "stop" \notin Urls

VARIABLES
    app,                \* the program, chosen once
    loop,               \* "main", "running", "breaking", "ended" or "exited"
    fifo,               \* words in the named pipe; a callback reads them all
    stopped,            \* hiperfifo: "stop" was read; ephiperfifo: SIGINT
    still_running,
    xfer, left,         \* libcurl: each transfer's phase, reads it still takes
    due,                \* libcurl: ticks to each transfer's deadline
    told,               \* libcurl: the deadline the program was told last
    sock,               \* each socket's SockInfo or context, and its events
    timers,             \* the armed timers of the event loop; two of ghiper's
                        \* that expire together count as one
    batch,              \* ephiperfifo: events returned by epoll_wait
    errors,
    missed              \* history: a call for what is due failed, unnoticed

lib == <<xfer, left, due, told, errors, missed>>
user == <<fifo, stopped>>
vars == <<app, loop, user, still_running, lib, sock, timers, batch>>

Never == 9              \* no deadline
Tick0(n) == IF n \in {0, Never} THEN n ELSE n - 1

Alive == {"added", "resolve", "connect", "recv"}

\* What libcurl waits for on the socket of a transfer.
Asked(phase) ==
    CASE phase = "connect" -> {"OUT"} [] phase = "recv" -> {"IN"} [] OTHER -> {}

Init ==
    /\ app \in Apps
    /\ loop = IF app \in ArgvApps THEN "main" ELSE "running"
    /\ fifo = {} /\ stopped = FALSE
    /\ still_running = 0
    /\ xfer = [u \in Urls |-> "idle"] /\ left = [u \in Urls |-> Chunks]
    /\ due = [u \in Urls |-> Never] /\ told = Never
    /\ sock = [u \in Urls |-> [info |-> "none", ev |-> {}, bad |-> FALSE]]
    /\ timers = IF app = "ephiperfifo" THEN {[at |-> 2, current |-> TRUE]}
                                       ELSE {}
    /\ batch = {} /\ errors = 0 /\ missed = FALSE

-----------------------------------------------------------------------------
(* The timer callbacks.  A delay is given to the event library in its own  *)
(* units; InTicks is when it fires.                                        *)

InTicks(sec, nsec) == 2 * sec + nsec \div 500000000

Arm(n) == [at |-> n, current |-> TRUE]

\* hiperfifo.c multi_timer_cb: evtimer_add moves a pending timer.
HiperTimer(ts, ms) ==
    IF ms = -1 THEN {}
    ELSE {Arm(InTicks(ms \div 1000, (ms % 1000) * 1000000))}

\* ephiperfifo.c multi_timer_cb: an it_value of zero disarms a timerfd.
TimerfdSettime(value) ==
    IF value = <<0, 0>> THEN {} ELSE {Arm(InTicks(value[1], value[2]))}

\* Mutant: a delay of zero is passed on.
EphiperZero(ts, ms) ==
    TimerfdSettime(IF ms > 0 THEN <<ms \div 1000, (ms % 1000) * 1000000>>
                   ELSE <<0, 0>>)

EphiperTimer(ts, ms) ==
    TimerfdSettime(IF ms > 0 THEN <<ms \div 1000, (ms % 1000) * 1000000>>
                   ELSE IF ms = 0 THEN <<0, 1>> ELSE <<0, 0>>)

\* evhiperfifo.c multi_timer_cb: timeout_ms / 1000 is an integer division.
EvhiperTimer(ts, ms) ==
    IF ms >= 0 THEN {Arm(InTicks(ms \div 1000, 0))} ELSE {}

\* ghiper.c update_timeout_cb: earlier timers stay.
GhiperTimer(ts, ms) ==
    IF ms >= 0
    THEN {[t EXCEPT !.current = FALSE] : t \in ts}
         \cup {Arm(InTicks(ms \div 1000, (ms % 1000) * 1000000))}
    ELSE ts

\* multi-uv.c cb_timeout
UvTimer(ts, ms) ==
    IF ms < 0 THEN {}
    ELSE LET delay == IF ms = 0 THEN 1 ELSE ms IN
         {Arm(InTicks(delay \div 1000, (delay % 1000) * 1000000))}

\* multi-event.c start_timeout
EventTimer(ts, ms) ==
    IF ms < 0 THEN {}
    ELSE LET delay == IF ms = 0 THEN 1 ELSE ms IN
         {Arm(InTicks(delay \div 1000, (delay % 1000) * 1000000))}

TimerCb(ts, ms) ==
    CASE app = "hiperfifo"   -> HiperTimer(ts, ms)
      [] app = "ephiperfifo" -> EphiperTimer(ts, ms)
      [] app = "evhiperfifo" -> EvhiperTimer(ts, ms)
      [] app = "ghiper"      -> GhiperTimer(ts, ms)
      [] app = "multi-uv"    -> UvTimer(ts, ms)
      [] app = "multi-event" -> EventTimer(ts, ms)

-----------------------------------------------------------------------------
(* The socket callbacks.  f is what the program keeps of a socket, ev the  *)
(* events its library watches for; the libraries differ in what adding     *)
(* events to a watched socket does.                                        *)

EventAdd(f, ev) == [f EXCEPT !.ev = ev]                 \* after event_assign
EpollAdd(f, ev) == [f EXCEPT !.ev = IF @ = {} THEN ev ELSE @]   \* EEXIST
IoStart(f, ev)  == [f EXCEPT !.ev = IF @ = {} THEN ev ELSE @]   \* active
AddWatch(f, ev) == [f EXCEPT !.ev = @ \cup ev]          \* one more GSource
Unwatch(f)      == [f EXCEPT !.ev = {}]

Alloc(f) == [f EXCEPT !.info = "alive"]
Uses(f)  == [f EXCEPT !.bad = @ \/ f.info \notin {"alive", "closing"}]
Free(f)  == [Uses(f) EXCEPT !.info = "freed"]

\* hiperfifo.c: remsock, setsock, addsock, sock_cb
HiperSock(f, act) ==
    IF act = {} THEN Free(Unwatch(f)) ELSE EventAdd(Unwatch(Alloc(f)), act)

\* Mutant: the socket is added again without EPOLL_CTL_DEL.
EphiperNoDel(f, act) ==
    IF act = {} THEN Free(Unwatch(f)) ELSE EpollAdd(Alloc(f), act)

\* ephiperfifo.c: remsock, setsock, addsock, sock_cb
EphiperSock(f, act) ==
    IF act = {} THEN Free(Unwatch(f)) ELSE EpollAdd(Unwatch(Alloc(f)), act)

\* evhiperfifo.c: remsock, setsock, addsock, sock_cb
EvhiperSock(f, act) ==
    IF act = {} THEN Free(Unwatch(f)) ELSE IoStart(Unwatch(Alloc(f)), act)

\* ghiper.c: remsock, setsock, addsock, sock_cb
GhiperSock(f, act) ==
    IF act = {} THEN Free(Unwatch(f)) ELSE AddWatch(Unwatch(Alloc(f)), act)

Flags(act) == (IF act # {"IN"} THEN {"OUT"} ELSE {})
              \cup (IF act # {"OUT"} THEN {"IN"} ELSE {})

\* Mutant: the context is freed at once.
UvFreesNow(f, act) ==
    IF act = {} THEN Free(Unwatch(f)) ELSE EventAdd(Alloc(f), Flags(act))

\* multi-uv.c cb_socket: the context is freed when libuv has closed it.
UvSocket(f, act) ==
    IF act = {} THEN [Uses(Unwatch(f)) EXCEPT !.info = "closing"]
    ELSE EventAdd(Alloc(f), Flags(act))

\* multi-event.c handle_socket
EventSocket(f, act) ==
    IF act = {} THEN Free(Unwatch(f))
    ELSE EventAdd(Unwatch(Alloc(f)), Flags(act))

SockCb(f, act) ==
    CASE app = "hiperfifo"   -> HiperSock(f, act)
      [] app = "ephiperfifo" -> EphiperSock(f, act)
      [] app = "evhiperfifo" -> EvhiperSock(f, act)
      [] app = "ghiper"      -> GhiperSock(f, act)
      [] app = "multi-uv"    -> UvSocket(f, act)
      [] app = "multi-event" -> EventSocket(f, act)

-----------------------------------------------------------------------------
(* libcurl.  A call takes the state m of everything it may change, and     *)
(* returns the set of states it may leave.                                 *)

Now == [xfer |-> xfer, left |-> left, due |-> due, told |-> told,
        sock |-> sock, timers |-> timers, running |-> still_running,
        loop |-> loop, errors |-> errors, missed |-> missed]

Becomes(m) ==
    /\ xfer' = m.xfer /\ left' = m.left /\ due' = m.due /\ told' = m.told
    /\ sock' = m.sock /\ timers' = m.timers /\ still_running' = m.running
    /\ loop' = m.loop /\ errors' = m.errors /\ missed' = m.missed

OneOf(ms) == \E m \in ms : Becomes(m)

\* What may become of transfer u when libcurl runs it, by its socket or not.
Runs(m, u, ready) ==
    LET To(phase, n, dues) ==
            [phase : {phase}, left : {n}, due : dues]
        done == To("done", m.left[u], {Never})
    IN CASE m.xfer[u] = "added" ->
                To("resolve", m.left[u], {1, 3})
                \cup To("connect", m.left[u], {3, Never}) \cup done
         [] m.xfer[u] = "resolve" -> To("connect", m.left[u], {3, Never}) \cup done
         [] m.xfer[u] = "connect" ->
                To(IF ready THEN "recv" ELSE "connect", m.left[u], {1, Never})
                \cup done
         [] m.xfer[u] = "recv" ->
                (IF ~ready THEN To("recv", m.left[u], {1, Never})
                 ELSE IF m.left[u] > 1 THEN To("recv", m.left[u] - 1, {1, Never})
                 ELSE {}) \cup done
         [] OTHER -> To(m.xfer[u], m.left[u], {Never})

\* The timer callback is called when the next deadline is another one.
UpdateTimer(m, forced) ==
    {IF next = m.told /\ (next = Never \/ ~forced) THEN m
     ELSE [m EXCEPT !.told = next,
                    !.timers = TimerCb(@, IF next = Never THEN -1 ELSE 500 * next)] :
        next \in {n \in {m.due[u] : u \in Urls} : \A u \in Urls : n <= m.due[u]}}

\* The transfers in run are run with outcomes f: the socket callback is
\* called for what is asked of their sockets now.
Perform(m, run, f) ==
    [m EXCEPT !.xfer = [u \in Urls |-> IF u \in run THEN f[u].phase ELSE @[u]],
              !.left = [u \in Urls |-> IF u \in run THEN f[u].left ELSE @[u]],
              !.due = [u \in Urls |-> IF u \in run THEN f[u].due ELSE @[u]],
              !.sock = [u \in Urls |->
                  IF u \notin run \/ Asked(f[u].phase) = Asked(m.xfer[u]) THEN @[u]
                  ELSE SockCb(@[u], Asked(f[u].phase))]]

Counted(m) == [m EXCEPT !.running = Cardinality({u \in Urls : m.xfer[u] \in Alive})]

\* curl_multi_socket_action(multi, s, ...): s and all that is due is run.
RunAll(m, s, run, outcomes) ==
    UNION {UpdateTimer(p, s = "TIMEOUT") :
        p \in {Counted(Perform(m, run, f)) :
            f \in {f \in [run -> outcomes] : \A u \in run : f[u] \in Runs(m, u, u = s)}}}

ToRun(m, s) == {u \in Urls : m.due[u] = 0 \/ (u = s /\ Asked(m.xfer[u]) # {})}

SocketAction(m, s) ==
    UNION {RunAll(m, s, run, UNION {Runs(m, u, u = s) : u \in run}) : run \in {ToRun(m, s)}}

\* curl_multi_add_handle
AddHandles(m, us) ==
    UpdateTimer([m EXCEPT !.xfer = [u \in Urls |-> IF u \in us THEN "added" ELSE @[u]],
                          !.due = [u \in Urls |-> IF u \in us THEN 0 ELSE @[u]]],
                FALSE)

\* A call that returns an error has only set running_handles; mcode_or_die
\* exits on all errors but the ignored ones.
Failing(m, s, ignored) ==
    {[Counted(m) EXCEPT !.errors = @ + 1,
               !.loop = IF code \in ignored THEN @ ELSE "exited",
               !.missed = @ \/ (s = "TIMEOUT" /\ code \in ignored)] :
        code \in IF m.errors = MaxErrors THEN {}
                 ELSE IF s = "TIMEOUT" THEN {"INTERNAL_ERROR"}
                 ELSE {"INTERNAL_ERROR", "BAD_SOCKET"}}

\* Mutant: one message is read, not all.
CollectedOne(m) ==
    LET done == {u \in Urls : m.xfer[u] = "done"} IN
    IF done = {} THEN m ELSE [m EXCEPT !.xfer[CHOOSE u \in done : TRUE] = "freed"]

\* check_multi_info: every transfer that is done is removed and freed.
Collected(m) ==
    [m EXCEPT !.xfer = [u \in Urls |-> IF @[u] = "done" THEN "freed" ELSE @[u]]]

\* event_cb of the fifo programs: "last transfer done, kill timeout"
KillTimer(m) == IF m.running <= 0 THEN [m EXCEPT !.timers = {}] ELSE m

-----------------------------------------------------------------------------
(* What the event libraries report.                                        *)

Running(a) == app = a /\ loop = "running"

\* The loop reports a socket when something it is watched for happens.
Ready(u) == sock[u].ev \cap Asked(xfer[u]) # {}

\* A timer fires; it is armed no more.
Fired == {t \in timers : t.at = 0}
Without(t) == [Now EXCEPT !.timers = @ \ {t}]

\* The words read from the pipe; the handles are added to libcurl.
NewConns(m, us) == AddHandles(m, us) \cup Failing(m, "TIMEOUT", {})

\* Somebody writes a word to the pipe, or (ephiperfifo) types ^C.
Write(w) ==
    /\ app \in FifoApps /\ loop = "running"
    /\ w \notin fifo
    /\ \/ w \in Urls /\ xfer[w] = "idle"
       \/ w = "stop" /\ app = "hiperfifo" /\ ~stopped
    /\ fifo' = fifo \cup {w}
    /\ UNCHANGED <<app, loop, stopped, still_running, lib, sock, timers, batch>>

Sigint ==
    /\ Running("ephiperfifo") /\ ~stopped /\ stopped' = TRUE
    /\ UNCHANGED <<app, loop, fifo, still_running, lib, sock, timers,
                   batch>>

\* Half a second passes.
Tick ==
    /\ loop = "running"
    /\ due' = [u \in Urls |-> Tick0(due[u])]
    /\ told' = Tick0(told)
    /\ timers' = {[t EXCEPT !.at = Tick0(@)] : t \in timers}
    /\ <<due, told, timers>>' # <<due, told, timers>>
    /\ UNCHANGED <<app, loop, user, still_running, xfer, left, errors, missed, sock, batch>>

Rest == UNCHANGED <<app, user, batch>>
FifoRead == fifo # {} /\ fifo' = {} /\ UNCHANGED <<app, batch>>

-----------------------------------------------------------------------------
(* hiperfifo.c *)

HiperCall(m, s) == SocketAction(m, s) \cup Failing(m, s, {"BAD_SOCKET"})

\* Mutant: "stop" ends the loop although transfers are running.
HiperCheckStop(m) ==
    LET c == Collected(m) IN
    IF stopped /\ c.loop = "running" THEN [c EXCEPT !.loop = "breaking"] ELSE c

\* check_multi_info
HiperCheck(m) ==
    LET c == Collected(m) IN
    IF c.running = 0 /\ stopped /\ c.loop = "running"
    THEN [c EXCEPT !.loop = "breaking"] ELSE c

\* event_cb
HiperEvent(u) ==
    /\ Running("hiperfifo") /\ Ready(u)
    /\ OneOf({KillTimer(HiperCheck(m)) : m \in HiperCall(Now, u)})
    /\ Rest

\* timer_cb
HiperTimeout ==
    /\ Running("hiperfifo")
    /\ \E t \in Fired : OneOf({HiperCheck(m) : m \in HiperCall(Without(t), "TIMEOUT")})
    /\ Rest

\* fifo_cb and new_conn
HiperFifo ==
    /\ Running("hiperfifo") /\ FifoRead
    /\ stopped' = (stopped \/ "stop" \in fifo)
    /\ OneOf({IF "stop" \in fifo /\ still_running = 0 /\ m.loop = "running"
                  THEN [m EXCEPT !.loop = "breaking"] ELSE m : m \in NewConns(Now, fifo \ {"stop"})})

\* main after event_base_dispatch
HiperEnd ==
    /\ app = "hiperfifo" /\ loop = "breaking"
    /\ OneOf({[Now EXCEPT !.loop = "ended", !.timers = {}]})
    /\ Rest

-----------------------------------------------------------------------------
(* ephiperfifo.c *)

EphiperCall(m, s) == SocketAction(m, s) \cup Failing(m, s, {"BAD_SOCKET"})

\* main's while: epoll_wait returns some of what is ready.
Waiting ==
    {u \in Urls : Ready(u)}
    \cup {"timer" : t \in Fired}
    \cup (IF fifo # {} THEN {"fifo"} ELSE {})

EpollWait(events) ==
    /\ Running("ephiperfifo") /\ ~stopped /\ batch = {}
    /\ events # {}
    /\ batch' = events
    /\ UNCHANGED <<app, loop, user, still_running, lib, sock, timers>>

Handled(e) == Running("ephiperfifo") /\ e \in batch /\ batch' = batch \ {e}

\* event_cb: the socket may have been closed by an earlier event.
EphiperEvent(u) ==
    /\ Handled(u)
    /\ OneOf({KillTimer(Collected(m)) : m \in EphiperCall(Now, u)})
    /\ UNCHANGED <<app, user>>

\* timer_cb: read returns EAGAIN when the timer was set again meanwhile.
EphiperTimeout ==
    /\ Handled("timer")
    /\ \/ \E t \in Fired : OneOf({Collected(m) : m \in EphiperCall(Without(t), "TIMEOUT")})
       \/ Fired = {} /\ OneOf({Now})
    /\ UNCHANGED <<app, user>>

\* fifo_cb and new_conn
EphiperFifo ==
    /\ Handled("fifo") /\ fifo' = {}
    /\ OneOf(NewConns(Now, fifo))
    /\ UNCHANGED <<app, stopped>>

\* main: while(!g_should_exit_) and what follows it
EphiperEnd ==
    /\ Running("ephiperfifo") /\ batch = {} /\ stopped
    /\ OneOf({[Now EXCEPT !.loop = "ended", !.timers = {}]})
    /\ Rest

-----------------------------------------------------------------------------
(* evhiperfifo.c *)

EvhiperCall(m, s) == SocketAction(m, s) \cup Failing(m, s, {"BAD_SOCKET"})

\* event_cb
EvhiperEvent(u) ==
    /\ Running("evhiperfifo") /\ Ready(u)
    /\ OneOf({KillTimer(Collected(m)) : m \in EvhiperCall(Now, u)})
    /\ Rest

\* timer_cb
EvhiperTimeout ==
    /\ Running("evhiperfifo")
    /\ \E t \in Fired : OneOf({Collected(m) : m \in EvhiperCall(Without(t), "TIMEOUT")})
    /\ Rest

\* fifo_cb and new_conn
EvhiperFifo ==
    /\ Running("evhiperfifo") /\ FifoRead
    /\ OneOf(NewConns(Now, fifo))
    /\ UNCHANGED stopped

-----------------------------------------------------------------------------
(* ghiper.c *)

GhiperCall(m, s) == SocketAction(m, s) \cup Failing(m, s, {})

\* event_cb: g_source_remove of the timer added last, if it is still there.
GhiperKill(m) ==
    IF m.running > 0 THEN m
    ELSE [m EXCEPT !.timers = {t \in @ : ~t.current}]

GhiperEvent(u) ==
    /\ Running("ghiper") /\ Ready(u)
    /\ OneOf({GhiperKill(Collected(m)) : m \in GhiperCall(Now, u)})
    /\ Rest

\* timer_cb
GhiperTimeout ==
    /\ Running("ghiper")
    /\ \E t \in Fired : OneOf({Collected(m) : m \in GhiperCall(Without(t), "TIMEOUT")})
    /\ Rest

\* fifo_cb and new_conn
GhiperFifo ==
    /\ Running("ghiper") /\ FifoRead
    /\ OneOf(NewConns(Now, fifo))
    /\ UNCHANGED stopped

-----------------------------------------------------------------------------
(* multi-uv.c *)

AllErrors == {"INTERNAL_ERROR", "BAD_SOCKET"}

\* The result of curl_multi_socket_action is not looked at.
UvCall(m, s) == SocketAction(m, s) \cup Failing(m, s, AllErrors)

\* add_download for each argument: the ones whose file can be opened and
\* which libcurl takes; nobody looks at what curl_multi_add_handle returns.
UvDownloads == UNION {AddHandles(Now, us) : us \in SUBSET Urls}

\* main; what is done here already is found when a socket event comes.
UvMain ==
    /\ app = "multi-uv" /\ loop = "main"
    /\ \E m \in UvDownloads :
          OneOf({[q EXCEPT !.loop = "running"] : q \in UvCall(m, "TIMEOUT")})
    /\ Rest

\* on_uv_socket: check_multi_info(context) is called after libcurl.
UvEvent(u) ==
    /\ Running("multi-uv") /\ Ready(u)
    /\ OneOf({[Collected(m) EXCEPT !.sock[u] = Uses(@)] :
                 m \in UvCall([Now EXCEPT !.sock[u] = Uses(@)], u)})
    /\ Rest

\* on_uv_timeout: nobody has set req->data, context is NULL.
UvTimeout ==
    /\ Running("multi-uv")
    /\ \E t \in Fired : OneOf({Without(t)})
    /\ Rest

\* curl_close_cb
UvClosed(u) ==
    /\ Running("multi-uv") /\ sock[u].info = "closing"
    /\ OneOf({[Now EXCEPT !.sock[u].info = "freed"]})
    /\ Rest

\* uv_run returns when nothing is active or closing.
UvEnd ==
    /\ Running("multi-uv") /\ timers = {}
    /\ \A u \in Urls : sock[u].ev = {} /\ sock[u].info # "closing"
    /\ OneOf({[Now EXCEPT !.loop = "ended"]})
    /\ Rest

-----------------------------------------------------------------------------
(* multi-event.c *)

\* The result of curl_multi_socket_action is not looked at.
EventCall(m, s) == SocketAction(m, s) \cup Failing(m, s, AllErrors)

\* add_download for each argument, as in multi-uv.c
EventDownloads == UNION {AddHandles(Now, us) : us \in SUBSET Urls}

\* main
EventMain ==
    /\ app = "multi-event" /\ loop = "main"
    /\ OneOf({[m EXCEPT !.loop = "running"] : m \in EventDownloads})
    /\ Rest

\* curl_perform: the context is used before libcurl is called, not after.
EventPerform(u) ==
    /\ Running("multi-event") /\ Ready(u)
    /\ OneOf({Collected(m) : m \in EventCall([Now EXCEPT !.sock[u] = Uses(@)], u)})
    /\ Rest

\* on_timeout
EventTimeout ==
    /\ Running("multi-event")
    /\ \E t \in Fired : OneOf({Collected(m) : m \in EventCall(Without(t), "TIMEOUT")})
    /\ Rest

\* event_base_dispatch returns when no event is pending.
EventEnd ==
    /\ Running("multi-event") /\ timers = {}
    /\ \A u \in Urls : sock[u].ev = {}
    /\ OneOf({[Now EXCEPT !.loop = "ended"]})
    /\ Rest

-----------------------------------------------------------------------------

SocketEvent(u) ==
    \/ HiperEvent(u) \/ EvhiperEvent(u) \/ GhiperEvent(u)
    \/ UvEvent(u) \/ EventPerform(u)

Timeout ==
    \/ HiperTimeout \/ EvhiperTimeout \/ GhiperTimeout
    \/ UvTimeout \/ EventTimeout

Fifo == HiperFifo \/ EvhiperFifo \/ GhiperFifo

Handle(u) == EphiperEvent(u) \/ EphiperTimeout \/ EphiperFifo

MainSteps == UvMain \/ EventMain \/ HiperEnd \/ EphiperEnd \/ UvEnd \/ EventEnd

Next ==
    \/ \E w \in Urls \cup {"stop"} : Write(w)
    \/ Sigint \/ Tick \/ Timeout \/ Fifo \/ MainSteps
    \/ \E u \in Urls : SocketEvent(u) \/ Handle(u) \/ UvClosed(u)
    \/ \E events \in SUBSET Waiting : EpollWait(events)

Spec == Init /\ [][Next]_vars

\* A socket that stays watched is reported in the end: the peer answers, or
\* its connection fails.  epoll_wait reports all that is ready again and again.
FairSpec ==
    /\ Spec
    /\ WF_vars(Tick) /\ WF_vars(Timeout) /\ WF_vars(Fifo) /\ WF_vars(MainSteps)
    /\ \A u \in Urls :
          WF_vars(SocketEvent(u)) /\ WF_vars(Handle(u)) /\ WF_vars(UvClosed(u))
    /\ SF_vars(EpollWait(Waiting))

-----------------------------------------------------------------------------
(* Properties *)

\* libcurl's next deadline is never lost: between callbacks a timer is armed
\* that fires no later (multi_timer_cb, event_cb's "kill timeout", timer_cb).
\* multi-event looks at no result: once a call for what is due has failed
\* (multi-event.c:151) its timer is gone, and nothing is claimed.  Not stated
\* for multi-uv: see TimeoutsReachLibcurl.
NoLostWakeup ==
    loop = "running" /\ app # "multi-uv" /\ ~missed =>
        \A u \in Urls : due[u] # Never =>
            \E t \in timers : t.at <= due[u]

\* The loop watches each socket for exactly what libcurl asked for last, and
\* for nothing once libcurl has given it up (sock_cb, setsock, remsock).
WatchesAsAsked ==
    loop = "running" => \A u \in Urls : sock[u].ev = Asked(xfer[u])

\* No SockInfo or context is used, or freed, after it was freed: neither by
\* the events of one batch nor by a callback that goes on after libcurl has
\* told it to remove its own socket (on_uv_socket).
ContextsAlive ==
    \A u \in Urls : ~sock[u].bad /\ (sock[u].ev # {} => sock[u].info = "alive")

\* A loop that ends by itself leaves no transfer behind: multi-event returns
\* from event_base_dispatch, and hiperfifo breaks its loop after "stop", only
\* when whatever libcurl has begun is done and freed; but multi-event may
\* return at any time after a failure it did not look at (multi-event.c:151).
EndsWhenDone ==
    loop \in {"breaking", "ended"} /\ app \in {"hiperfifo", "multi-event"} /\ ~missed =>
        \A u \in Urls : xfer[u] \in {"idle", "freed"}
                        \cup IF app = "hiperfifo" THEN {"added"} ELSE {}

\* Every transfer handed to libcurl is finished and freed, unless the program
\* is told to stop (hiperfifo, ephiperfifo), dies of an error or, multi-event,
\* has not looked at one; the end of multi-event's own loop is no excuse.
AllFetched ==
    \A u \in Urls : xfer[u] = "added" ~>
        \/ xfer[u] = "freed" \/ loop = "exited"
        \/ app \in FifoApps /\ loop \in {"breaking", "ended"}
        \/ missed \/ app = "multi-uv"

\* multi-uv: when the timer has expired, curl_multi_socket_action is called.
TimeoutsReachLibcurl ==
    loop = "running" /\ app = "multi-uv" =>
        \A u \in Urls : due[u] # Never =>
            \E t \in timers : t.at <= due[u]
=============================================================================
