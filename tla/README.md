# Formal models of the programs around libcurl (karpierz/libcurl)

The repository is a ctypes binding of libcurl (`src/libcurl`) with libcurl's
headers, its C example programs and a port of curl's test suite. libcurl itself
is not part of it. What has behaviour of its own are

* the **test servers** in `tests/server/*.c`: small network servers that the test
  suite starts, talks to and kills, and that must neither lose data nor hang
  when the program under test misbehaves;
* the **example programs** in `examples/examples.c`: what libcurl's own authors show
  as the right way to drive it, from event loops, threads and plain calls;
* the **headers** in `src/libcurl/libcurl.h/curl`, whose macros check what is passed
  to libcurl's variadic functions.

This directory models them in TLA+, checks the models with TLC and proves central
properties with TLAPS. Paths below are relative to the repository.

## Inventory

| Component | State | Operations | Interacts by | Hard | Correct when | Status |
|---|---|---|---|---|---|---|
| `tftpd.c` download (`sendtftp`, `readit`, `read_ahead`) | block number (unsigned short), two buffers, `timeout`, last ACK | send, read ahead, receive, resend, give up | UDP with one client; SIGALRM `longjmp`; SIGTERM flag | lost/duplicate/late ACKs, timer racing an ACK, wrap of the block number | the client gets the file in order; the buffers stay in step; it ends with a silent client | `TftpSend`, proved |
| `tftpd.c` upload (`recvtftp`, `writeit`, `write_behind`) | the same, upload file | ACK, flush, receive, queue, final ACK | the same, and the file system | acknowledged before written; failing writes; lost final ACK | what is acknowledged is saved; closed before the final ACK | `TftpRecv` |
| `tftpd.c` netascii | `newline`, `prevchar` | convert a packet | the buffers | a pair split by a packet boundary | cuts do not show | `TftpNetascii` |
| `tftpd.c` process (`main`, `do_tftp`, `timer`) with `util.c` | sockets, pid/port/lock files and their flags, exit flag | start, serve, lock, clean up, signal | the test suite reads the files and sends signals | a failure or signal anywhere; `exit(1)` in a handler | no file left, lock not held when idle, a signal ends it | `TftpServer` |
| `sockfilt.c` + `tests.c/ftpserver.pl` | listening and connected socket, mode, stdin/stdout; `$full`, the lock, the data connection | `juggle`, `disc_handshake`, `read_data_block` | pipes with the harness, TCP with the client | both sides blocked on each other during DISC/ACKD | never both waiting; no block lost or misdirected at a disconnect; the lock is held while serving | `Sockfilt`, `FtpControl`, `FtpData` |
| `examples.c/*fifo.c`, `ghiper.c`, `multi-uv.c`, `multi-event.c` | SockInfo or context of each socket, the loop's timer, `still_running` | socket and timer callbacks, the named pipe, `check_multi_info` | `curl_multi_socket_action` and its callbacks; libevent, epoll, libev, glib, libuv | callbacks nested in callbacks, events returned together, deadlines set again before they fire | no deadline lost, sockets watched as asked, nothing used after free, every transfer done | `EventLoop` |
| `examples.c/old/fopen.c` | each stream's buffer and count, one multi handle | open, read, gets, feof, rewind, close | `write_callback` of all transfers whenever one is read | a count that is about all transfers and out of date | bytes in order, an end that is the end | `Fopen`, proved |
| 125 programs of `examples.c` | handles, files, lists, threads | acquire, set as option, drive, release | setopt keeps pointers; callbacks; threads | a failing call half-way, an early return, a thread that outlives main | nothing dangling, nothing left, handles removed first | `Lifetimes` with `ExampleEasy`, `ExampleMulti` |
| `curl.h`, `typecheck-gcc.h`, `system.h` | none | the checks of the arguments | the compiler | ranges of numbers, three data models | a warning exactly for a wrong argument | `CurlOptions`, `CurlTypecheck` |
| `sws.c` connection table | sockets, `req` records, listen socket | `accept_connection`, `service_connection`, the `select` loop | TCP; advisor lock | state shared by connections; table full | each reply to its request; lock held while serving | planned |
| `sws.c` CONNECT tunnel | two directions, buffers, half-closed ends | `http_connect` | client and server sockets, a second FTP-like connection | half close, full buffer, keep-alive | bytes relayed in order; ends when both sides are done | planned |
| `socksd.c` | handshake states, relay buffers | `sockit`, `tunnel`, `socksd_incoming` | TCP both ways | EOF of one direction; a handshake that blocks others | relayed in order | planned |
| `mqttd.c` | session flags, packet ids | `mqttit` | TCP | order of SUBACK and PUBLISH, remaining-length coding | publishes what was subscribed | planned |
| `rtspd.c`, `dnsd.c`, `getpart.c`, `resolve.c` | little | request/response, parsing | | | | not modelled |
| Python binding, harness, libtests, Python examples | | argument conversion, process management | | | | not modelled |

The same servers exist a second time, unchanged, under `tests/tests.c/server`.

## Modules

| Module | Models |
|---|---|
| `FileTransfer` | abstract: what one transfer promises, to either side |
| `TftpSend` | a download; refines `FileTransfer` |
| `TftpRecv` | an upload; refines `FileTransfer` |
| `TftpServer` | the process around the transfers |
| `TftpNetascii` | the conversions, packet by packet |
| `Sockfilt` | the process of `sockfilt.c`, its pipes and its clients' sockets |
| `FtpControl` | the main loop of `ftpserver.pl` and `DATA_smtp` on top of a listening `Sockfilt` |
| `ByteStream` | abstract: what one data connection promises, in either direction |
| `FtpData` | PASV or PORT, one RETR or STOR, and `close_dataconn`, on top of a second `Sockfilt`; refines `ByteStream` |
| `EventLoop` | six programs and the event libraries and libcurl they stand between |
| `Fopen` | `fopen.c` and the loops of its `main` |
| `CurlOptions` | every `CURLOPT_` and `CURLINFO_` of `curl.h` with its number and type |
| `CurlTypecheck` | the predicates of `typecheck-gcc.h`, and what `va_arg` reads |
| `ExampleSteps` | the statements an example is made of |
| `ExampleEasy`, `ExampleMulti` | the examples, each a sequence of these statements |
| `Lifetimes` | runs one of them: resources, references, membership in multi handles |
| `NumberLemmas` | lemmas about wrapped counters, runs of consecutive numbers, least elements, induction, and the tables of recursive functions (no state) |
| `TftpSend_proofs`, `TftpRecv_proofs`, `FtpControl_proofs`, `FtpData_proofs`, `EventLoop_proofs`, `Fopen_proofs` | theorems about the module each is named after |
| `Tftpd_proofs` | theorems about `TftpServer` and `TftpNetascii`: what `tftpd` does besides the transfers |

**State.** The variables have the names of the C variables. `pc` names the
program points between which another actor or a signal can act: in `TftpSend`
`readit` (top of the loop), `send` (the label `send_data` and the `sigsetjmp`
above it), `wait` (blocked in `sread` with the alarm armed), `got` (`sread` has
returned, the alarm not yet cancelled or the packet not yet looked at); in
`TftpRecv` likewise `ack`, `flush`, `wait`, `got`, and `finish`, `close`,
`lastack`, `dally`, `dallied` for what follows the last block.
A terminal `pc` tells how the function ended: `done` (out of the loop), `aborted`
(an early return), `nak`, `exited` (the timer's `exit(1)`).

**Data.** A file is its segments 1..N; all but the last fill a packet, the last
is short and may be empty (a file whose size is a multiple of 512 is
the empty case). Sizes are 1 (full) and 0 (short). A datagram carries its block number
and, as history that no action of the server reads, the unwrapped one (`seq`).

**Actions.** One per program step that another actor can observe: `SendData` is
`swrite` and the `read_ahead` after it, `Receive` is `sread`, `Alarm` is the
SIGALRM handler `timer` at any point between `alarm(rexmtval)` and `alarm(0)`
(also when `sread` has returned: the packet is dropped), `AckExpected`,
`AckOther` (with `synchnet`) and `GiveUp` are the branches after the read.
`ExitSignal` is `exit_signal_handler`. In `TftpRecv`, `WriteBehind` has an outcome
for a failed `open` and a failed `write`, recorded in `diskError`.

**The environment is external.** The client is any RFC 1350 peer, taken from
what `tftpd.c` expects of it: it acknowledges what it stores, repeats its last
datagram, may say what has no place in the transfer (`ClientBabbles`), send ERROR, close
its port or vanish, all of it as often as it likes. The network loses, duplicates and
reorders, but a datagram does not survive the transfer's advance by
`PacketLife` blocks: with a 16-bit block number and no other
identification TFTP cannot do without such a bound, and
`PacketLife < BlockMod` is the weakest one under which the proofs go through.
`writedelay` (a pause before sending) is left out; so is the Windows build.

**Process.** In `TftpServer` a transfer is one step that returns or ends in the
timer's `exit(1)`; when it ends is `Termination` of the two
transfer modules. Every system call of `main` that is tested may fail.

**sockfilt and its harness.** `spc` is where `sockfilt` is: `start` (binding or
connecting), `juggle` (the top of the loop), `stdin` and `socket` (about to serve
the descriptor `select` reported), `handshake` (in `disc_handshake`'s `read`),
`ended`. `ready` is what is left of `select`'s answer: that the socket is still
to be served after stdin, a fact that may be stale by then. `hpc` and `dpc` are the
program points of the main loop and of the data connection; the harness blocks
only in `sysread`, so each of its actions is one block read with everything that is
done until the next `sysread`. A pipe is a sequence of blocks (command and data
are written in one piece by either side, and read to their end). `ParentPrints` is
a `print` to a pipe nobody reads: SIGPIPE ends the harness. `WriteStdout` is the
same the other way round, where `sockfilt` notices and ends.
In `FtpData` the writer of a `ByteStream` is the server for RETR (`Written` is what
`senddata` has printed, `Received` what is with the client `peer`) and `peer` for STOR (`Written` is
what it has sent, `Received` the file). The server's end closes with
`close_dataconn`; for STOR only if `storeresp` made it stop early, since otherwise it has read
to the end.
A client's stream is a sequence of pieces: `part` does not end a line, `known`,
`unknown` and `mail` do, `eob` ends a mail; `SocketData` passes on any non-empty
prefix of what has arrived, so a line is cut wherever TCP may cut it. `Reset` is
a client that closes with unread data: what it had sent may be lost. A message to a
client carries, as history, for whom it was meant (`to`).

**Event loops.** A run is of one program, `app`, chosen at the start. `loop` is where
its main function is; a callback of the event library is one action, with all
that it calls: libcurl, and the program's own socket and timer callbacks that
libcurl calls before it returns. libcurl is a transfer's phase (`xfer`), the
direction it waits for on its socket (`Asked`), its deadline (`due`), and the
deadline the program was told last (`told`): `curl_multi_socket_action` runs the
socket it is given and all that is due, in `RunAll`, with every outcome. The event libraries
differ in what adding events to a watched socket does (`EventAdd`, `EpollAdd`,
`IoStart`, `AddWatch`) and in units of time (`InTicks`); a tick is half a second,
which tells an integer division from a right one. A call of libcurl may fail (`Failing`); where
the program does not look at the result of one for what is due, `missed` records it. In `ephiperfifo` a `batch` is what
one `epoll_wait` returned, handled in any order.

**Streams.** Driving libcurl in `Fopen` (`Perform`) moves every running transfer,
which may write a block into its own file's buffer, and sets `still_running` of one file
only. `fill_buffer` is an action for each round of its loop; in `fdset_fails` it breaks out of
it, and the read goes on with what the buffer has (`call.broken`). Bytes are numbered;
names that open as local files go to stdio.

**Examples.** A program is the sequence of the statements that touch a resource,
with tests of pointers kept and every other condition free. `Set` makes libcurl
refer to data, `Do` and `Drive` follow what is referred to. `Transfer` runs the
program's callbacks as often as it likes. Threads interleave statement by
statement. Strings are not resources: setopt copies them. Options in `#ifdef` are
included; of `post-callback.c`, the build without `USE_CHUNKED` is modelled. Arrays have two
elements: two transfers, two threads, one pushed stream.
What libcurl does with all this is its headers' word, not its code:
NULL is refused and not followed; an append to a list that exists succeeds;
`curl_multi_cleanup` touches no easy handle. `application` is one more program,
that makes any one call of setopt or getinfo. `Args` and `MultiArgs` are setopt calls with
numbers, strings and constants, with their C types; the pointers of `Set` have none.

**Types.** `CurlTypecheck` states both sides: `SetoptWarns` and `GetinfoWarns` translate
the macros, `SetoptReads` and `StoredIn` say what the type in an option's name promises, on the
three data models (`Models`) for which `system.h` defines `curl_off_t` with gcc.
`curl_multi_setopt` has no checks (`typecheck-gcc.h:200`): `MultiSetoptReads` alone.

## Runs

| Run | Shows | Bounds |
|---|---|---|
| `tftp_send` | buffers in step; file in order; one block at a time; refines `FileTransfer`; ends unless datagrams are repeated for ever | 5 segments, block number modulo 3 (wraps once, and the wrap meets late packets of life 2), 2 alarms, any number of duplicates and repeats |
| `tftp_recv` | disk in order; acknowledged is saved (and never more than one block behind); closed before the final ACK; refines `FileTransfer`; ends unless datagrams are repeated for ever | 4 segments, modulo 3, 2 alarms, any number of duplicates and repeats |
| `tftp_final_ack` | **violated**: the final ACK is not repeated | real values of modulus and alarms, 2 segments |
| `tftp_server` | own files removed at every end; idle holds neither lock nor socket; a signal during a transfer ends the process | 3 datagrams of 3 kinds, any files left by a predecessor |
| `tftp_netascii` | cutting into packets does not show; pairs are decoded and a file survives the round trip | all files and streams of up to 6 bytes over CR, LF, NUL and another, packets of 3 |
| `ftp_control` | types; a client gets its own welcome and replies and nothing else; only unknown commands are refused; until one is, every client that connects is welcomed | 2 clients, 2 lines each, of at most 2 pieces |
| `ftp_mail` | lock held while serving and given up; no handshake waits for ever; an orphan and a signalled `sockfilt` end (`SockfiltEnds`) | the same, with mails instead of unknown commands |
| `ftp_data` | nothing of an upload or a download is lost or misdirected; refines `ByteStream`; both processes come to their end | 2 clients, 3 blocks, passive and active, RETR and STOR, `storeresp` |
| `event_loop` | no deadline of libcurl is lost; sockets are watched for what was asked; no SockInfo or context is used after it was freed; a loop that ends leaves no transfer; every transfer is fetched (all but the second and third as long as no error of libcurl passed unseen) | six programs, 2 URLs, 2 reads each, 1 failing call |
| `uv_timeout` | **violated**: `multi-uv.c`'s timer calls nothing | the same, `multi-uv` |
| `programs` | the checks warn of exactly what libcurl cannot read; the numbers and strings of the examples have the declared types on every data model, but for `crawler.c:189`; nothing dangling is followed; handles are removed first; all is released | 125 examples with arrays of two, and any one call of 308 options or 77 infos, with 21 types of arguments |
| `fopen` | bytes in order; a loop ends only at the end of its transfer, or when `curl_multi_fdset` fails; it ends | 2 streams of 3 bytes with one line end, a buffer of 3, one rewind |

*Why the bounds are enough.* The block number matters only through equality with
the current and the previous one, so a modulus of 3 with packets of life 2 has
every relation the real one has (equal, previous, stale, and the int -1 at the
wrap); five segments let it wrap with both buffers in every role. Two alarms
distinguish "one more try" from "give up". Duplicates and repeats have no bound: they
add no state but the set of datagrams under way. For `TftpSend` and `TftpRecv` the
proofs make the bounds irrelevant, as they do for the safety properties of `FtpControl`,
`FtpData`, `EventLoop` and `Fopen`. A pair is two bytes, a packet three: a pair
can end, begin or straddle every boundary within six bytes.
`sockfilt` has one connection at a time: two clients are a client and its
successor, which is all the state that can leak. Two lines give a session a line
before and one after the interesting one; one `part` a line is a cut, more of
them repeat it. Three blocks are a first, a middle and a last one.
In `event_loop` one transfer uses its socket and the other waits for its deadline: what
a callback for one does to the other needs two. Deadlines of half a second and of
one and a half are short and long, on both sides of a whole second; two reads let
the direction stay as it is once. In `fopen` the other file is everything that
reading this one does to the rest; a stream may be shorter than, as long as and
(by `Size - 1` of `url_fgets`) longer than what is asked for. In `programs` loops run any number of times; a third
element of an array would behave as the second does.
Deadlock checking is off where a transfer or the process really ends.

*Fairness.* Weak fairness of the server's own steps (the process is scheduled)
and of the alarm it armed. The network and the client have none: they may stay
silent for ever, and the transfer must still end. It need not end while datagrams are
delivered twice, or the client repeats itself or says what has no place, without an end:
`Termination` names these (`Repetition`). `recvfrom` of an idle server
need not fail, and nobody need send a request.
In `FtpControl` and `FtpData` both processes run (weak fairness of each as a whole, not
of single actions: no branch is favoured). A client that anything has reached
closes in the end, and so does one that uploads: the program under test has
timeouts. Nobody has to connect, to send, or to close a download.
In `EventLoop` time passes, a socket that is watched is reported in the end (the peer
answers or the connection fails), an expired timer fires, and `epoll_wait`, called
again and again, sometimes returns all that is ready (strong fairness: a
socket's turn may pass while a batch is handled). Nobody has to write to the pipe. In `Fopen` the
thread goes on, and libcurl driven again and again ends each transfer: a server
answers or a timeout strikes. `curl_multi_fdset` may fail at any time, and where it always
does libcurl is not driven. A client need not close its file.
`Finishes` counts a harness killed by SIGPIPE as an end: `PING` is printed to a
data `sockfilt` that may have failed to bind (`ftpserver.pl:2489`).

## What disagrees with its documentation

* `tftp_final_ack`: `recvtftp` waits for the last block to come again in order to
  repeat the final ACK, reads it into `trsbuf`, and then looks at `rdp`, the
  buffer for a next block (`tftpd.c:1316-1326`). The ACK is repeated only by
  accident: when that buffer still holds a packet with the same block number.
* `uv_timeout`: `multi-uv.c` reads its context from the `data` of libuv's timer
  (160), which `main` never sets (225-253). "callback from libuv when timeout
  expires" (157) therefore does nothing, and a transfer that waits for a deadline
  alone is not driven again unless a socket of another one is.

More were followed to a counterexample with the modules here, and have no
run of their own:

* idle `tftpd`: the exit signals are installed restartable (`util.c:694,700`), so
  an idle server stays in `recvfrom` and does not "finish as soon as possible"
  (`util.c:449-450`).
* unknown command (`HandshakeEnds` with `unknown` among the `Pieces` of `FtpMail.cfg`): after a line its regular expressions do not accept, the main loop
  answers 500 and leaves the session (`ftpserver.pl:3237,3257,3273,3278`)
  without disconnecting `sockfilt`. When that client closes, `sockfilt` sends DISC
  and waits for ACKD; the outer loop ignores everything but CNCT
  (`ftpserver.pl:3130-3134`). No later client is served.
* late reply (`OwnReplies` with `mail` among the `Pieces` of `FtpControl.cfg`): `DATA_smtp` acknowledges a DISC (`ftpserver.pl:978-983`) and
  then sends its 250 all the same (`998`). By then `sockfilt` may have accepted
  the next client, who gets it, and no welcome. For this reason `Answered`, which asks for
  the welcome, is a property of `ftp_control`, where nobody sends a mail.
* repeated packets (`<>(pc \in Terminal)` in place of `Termination`): `sendtftp` and
  `recvtftp` arm the alarm anew for each packet they read (`tftpd.c:1191,1263`), and only an
  alarm counts in `timeout` (268). A client that repeats its last ACK or DATA, or sends any other opcode, every
  four seconds keeps the transfer, and with it the server, for ever.
* ignored errors (`NoLostWakeup`, `EndsWhenDone` and `AllFetched` without `missed`):
  `multi-event.c:139,151` and `multi-uv.c` ignore the result of `curl_multi_socket_action`. When the call
  for an expired timer fails before libcurl has run, no timer is left; `multi-event`
  returns from its loop with transfers unfinished.
* failing `curl_multi_fdset` (`EndIsEnd` and `CopyEnds` without `call.broken`):
  `fill_buffer` breaks out of its loop (`fopen.c:166-171`), and `url_fread` returns 0 although the
  transfer runs. `main` takes it for the end of the file (`reader = "cut"`): the copy is
  cut short without a word. The fgets loop goes round again instead, for ever if the error stays.
* `crawler.c:189` (`ArgumentsAsDeclared` without its exception): the `int` `max_con` is passed for
  `CURLMOPT_MAX_TOTAL_CONNECTIONS`, a long (`multi.h:387`). Where a long has 64 bits, half of what
  libcurl reads was never passed.

Smaller ones, seen while modelling and kept as the code has them:

* `ghiper.c:166-171` says its timer callback deletes the timer for -1 and updates it
  otherwise; it adds one more `g_timeout_add` and never removes one (`GhiperTimer`). The
  old ones fire too, which only calls libcurl more often. `CURLOPT_WRITEDATA` is
  given `&conn`, the address of a local variable (312), which `write_cb` does not use.
* `evhiperfifo.c:125` divides milliseconds by an integer: half a second becomes
  none, and the timer fires early, again and again, until the deadline.
* `multi-uv.c:249` starts the transfers without `check_multi_info`: one that is done
  at once is found when some other socket has an event, or never. For these two reasons
  `NoLostWakeup` and `AllFetched` are not stated of `multi-uv`.
* `hiperfifo.c:380-382`: after `stop`, URLs read in the same go are added and the
  loop is broken under them (the `added` of `EndsWhenDone`).
* `fopen.c:433`: `url_rewind` restarts a transfer ("restart", 432) and leaves
  `still_running` alone: of a stream that was already finished nothing is read
  again, the next `url_fread` returns 0 (`rewound = "late"`). `main`'s fgets loop does not
  look at what `url_fgets` returns and writes its last line twice when it is NULL.
  `url_fread` with items of more than a byte drops what is left of an item (361).
* `sessioninfo.c:42-49` passes a pointer to a pointer to const, which is right and
  which `typecheck-gcc.h:179-180` warns of: an exception in `ArgumentsAsDeclared`.
* What the examples use without a check, never release or clean up too early is
  listed in `NeverChecked`, `RemovedFirst` and `Leaks` of `Lifetimes`, by program and
  variable. Among them: `http2-upload.c` cleans up its multi handle before the
  transfers are removed from it; `smooth-gtk-thread.c:98` allocates a string into
  one variable of both threads, outside the mutex; `multithread.c` and
  `threaded-ssl.c` join threads that were not created.

## Proofs

`TftpSend_proofs` proves, for every `N`, `BlockMod`, `PacketLife < BlockMod` and
`MaxAlarms`:

* `TypeCorrect`: `Spec => []TypeOK`, from `TypeInv` (adds that an armed alarm never
  finds `timeout` at its maximum). Being proved, it is not repeated in a run.
* `BuffersCorrect`: `Spec => []BufferHoldsBlock`, from `RingInv`, which describes the
  buffers at every `pc`: which is free, which holds block `seg`, which `seg + 1`,
  where `nextone` points and how far the file is read. `BufferHoldsBlock` speaks
  only of the points where a block is being sent and is not inductive: what
  `ReadIt` finds depends on what the last `SendData` left.
* `DeliveredInOrder` and `OneBlockAtATime`: `Spec => []InOrder`, `[]StepByStep`, from
  `ProtocolInv`, which adds that the wrapped counters follow the unwrapped
  blocks, that a DATA packet under way is not newer than the current block nor
  older than `PacketLife` allows, and that an ACK under way is for a block the
  client has. The step that needs arithmetic is that two numbers less than
  `BlockMod` apart with equal remainders are equal: `SameBlock` in `NumberLemmas`.
* `DownloadIsFileTransfer`: `Spec => ImplementsFileTransfer`, the refinement, from
  `TypeInv` and `ProtocolInv`.

The only assumption is `TransferAssumption`.

`TftpRecv_proofs` proves for an upload, from `UploadAssumption` alone (the same
constants):

* `UploadInOrder`: `Spec => []DiskInOrder`.
* `SavedWhenAcknowledged`: `Spec => []AckedIsSaved`.
* `ClosedBeforeFinalAck`: `Spec => []FinalAckMeansClosed`.
* `UploadIsFileTransfer`: `Spec => ImplementsFileTransfer`, the refinement.

All four follow from one inductive invariant, `IInv`. `ProtocolInv` relates the
wrapped numbers to the blocks: the client is at the block awaited or at the one
before, every packet under way is a block it did send, every ACK one that was
accepted, and `ackblock = recvblock` (`Late`) holds exactly from the final ACK on.
`DiskInv` says, as long as no open and no write failed, what the file lacks at each
`pc`: nothing (`UpToDate`), or one block that waits in the buffer `write_behind` looks
at next (`Behind`). The delicate place is `pc = "ack"`: an accepted block is in a
buffer, and the transfer may end there because the client is gone. It is not lost
on the client: its ACK has not been sent, and no older one still under way can be taken
for it (`Quiet`). Between `send_ack` and `write_behind` a block is
acknowledged and not yet written, but no signal or failure ends the transfer there.

`Fopen_proofs` proves, for any finite set of `Files`, any `N`, `Newlines` and `Size > 1`
(`FilesAssumption`, `SizesAssumption`):

* `LoopsSeeTheEnd`: `Spec => []EndIsEnd`. A loop of `main` stops, other than in a read whose
  `curl_multi_fdset` fails, on `still_running = 0` and
  an empty buffer, and `still_running` counted all transfers when this file was last read. The
  inductive invariant `IInv` says what such a 0 still means: the file's own
  transfer has ended, for it could only be started again by rewinding this file
  (`ZeroMeansEnded`); and that `fill_buffer` gives up without data only at 0 or on that error
  (`StopsFor`), so that the fread loop, which looks at the buffer alone, stops there too
  (`DoneAtEnd`). `Performed` is the lemma about libcurl it rests on: driving it ends
  transfers and starts none, and a count of 0 means that none is left.
* `StreamsInOrder`: `Spec => []InOrder`. The invariant, `OInv`, adds for each file (`InStream`)
  that its buffer goes on where its reader was given the last byte, and that a block libcurl
  delivered only in part (no memory) fails its transfer: the one way in which the two
  together are less than what was sent. Bytes leave the buffer only at its front and only
  those the reader is given. `url_fgets` cuts at the first line end in the buffer, a
  `CHOOSE` whose witness exists because a set of numbers has a least element
  (`LeastNumber` in `NumberLemmas`, from the library's facts about well-founded relations).

`Tftpd_proofs` proves of the process, with no assumption at all:

* `FilesRemoved`: `Spec => []LeavesNoFiles`, and `WaitingHoldsNothing`:
  `Spec => []IdleHoldsNothing`. The inductive invariant relates each file the
  process created to the flag that says so (`FilesInv`): a file on disk has its
  flag set at every point where a signal or an exit can strike, so that the clean-up, which looks
  at the flags alone, misses none; and it bounds the places where the lock
  and the peer socket may be held (`HeldInv`).

and of the netascii conversions, for files of any length (`Bytes` and `SegSize` as
`NetasciiAssumption` has them):

* `CutsDoNotShowAlways`: `NetasciiSpec => []CutsDoNotShow`. The packets of a download, put one after
  the other, are the encoding of the file as a whole, wherever `SegSize` cuts them; the
  file an upload leaves is what a single `write_behind` would have made of all of it. The
  inductive invariant (`NetasciiInv`) says this in the middle of a transfer: the packets so
  far and the half of a pair `newline` or `prevchar` still owes encode what was read
  (`ReadInv`), and the file is what `write_behind` makes of the packets so far with
  `prevchar` their last byte (`WriteInv`). Under it lies a loop invariant of `read_ahead`
  (`Loop`: `Filled` one byte further), and `WriteConcat`: `write_behind` on a
  stream in two parts is `write_behind` on the first, then on the second with the
  `prevchar` the first left.
* `RoundTripAlways`: `NetasciiSpec => []RoundTrip`: what was downloaded and is uploaded is the file it
  was. It rests on `DecodingEncoding`: `Decoding(Encoding(f)) = f` for every sequence of bytes, CRs, LFs and
  NULs in any order.

The functions of `TftpNetascii` are recursive over sequences. A function so
defined is a `CHOOSE`: before its equation may be used, a function that satisfies it must be
shown to exist. `Iterates` (`NumberLemmas`) gives the table of such an iteration up to any length,
`Agree` says that two tables agree where both are defined, and so their union is the function.
What the function computes is then shown by `SeqInduction`, which speaks of the
*set* of sequences that have a property and not of an operator, and
so is within the provers' reach.

`FtpControl_proofs` proves, from `ClientsAssumption` and `PiecesAssumption`, for any number of
clients and lines:

* `TypesAreKept`: `Spec => []TypeOK`, and `OnlyUnknownIsRefused`: `Spec => []Understood`, for all
  the `Pieces` a client may send.
* `RepliesAreOwn`: `Spec => []OwnReplies`, where no client sends a mail; `LockIsHeld`:
  `Spec => []LockHeld`, where no client sends a line the server does not know. Both
  assumptions leave out what the code does wrong (late reply and unknown command, above), and
  nothing else: with them dropped the properties are false.

The invariant (`Inv`) has two parts. `Typed` says what the variables and the blocks in the
pipes are, that a connected client for which `sockfilt` is in `disc_handshake` has closed and
all its data was passed on, and that a client that was told something and is open is the one
`sockfilt` is connected to. `Shape` says how far server, `sockfilt` and client have got with each
other, of which there are five ways: nobody is there (`Free`), or was there for a late
reply (`Lost`); the CNCT has not been read (`Called`); the DISC has been (`Acked`); or they talk
(`Talking`). Then at most one line is under way from the client to the server (cut anywhere:
`CarriedOnce`, kept by `CarriedCut` when `sread` returns a part of it) or one reply back, and never
both; the line is the last the client has sent, and server and client agree on whether
it belongs to a mail (`Agreed`). It is this that makes `OneLine` true of what the main loop
has put together in `$full` (`TextIs`). In `Acked` the pipe to `sockfilt` holds the rest of what
the server had to say, then ACKD: `disc_handshake` drops the one and leaves at the other,
before it accepts anybody else.

`FtpData_proofs` proves, from `ClientsAssumption` and `BlocksAssumption`, for any number of
clients and blocks:

* `FilesAreSent`: `Spec => []SentAll`, and `UploadsAreStored`: `Spec => []StoredAll`. The invariant
  (`IInv`) says that every block of the file is with the client, in a pipe in its place, or
  not sent yet, and in this order (runs of consecutive numbers, `NumberLemmas`). A client that
  closed is the only way for blocks to be missed: `disc_handshake`, which throws data away, is
  entered only when the client has closed. In the other direction DISC comes after the last
  DATA. Before the transfer (`EarlyInv`) nothing is in the pipes that could be taken for part
  of it, and the server reports the end only when the data process has ended, with its
  pipe empty (`TransferInv`).
* `DataIsByteStream`: `Spec => ImplementsByteStream`. From `IInv` follows `Placed`: the reader has the
  first blocks of what was written, and at the end all of them, or it has closed. Each
  step then maps to one of `ByteStream` or to a stutter: most move blocks between
  pipes and show nothing; `StdinData` and `StorData` are `Receive`, one block or
  several; `RetrSend` and `Send` are `Write`; `PidWait` is `Report`. The refinement says what the
  two invariants do not: that no step takes back a block, that a reader that
  closed receives nothing more, and that the end is reported only after the writer has closed.

`EventLoop_proofs` proves, from `AppsAssumption`, for any `Urls`, `Chunks` and `MaxErrors`:

* `LoopsWatchAsAsked`: `Spec => []WatchesAsAsked`, and `ContextsAreAlive`:
  `Spec => []ContextsAlive`. The invariant (`Good`) says that what a program keeps of
  a socket agrees with what libcurl asked for it last. `CallbackAgrees` shows that
  of the six socket callbacks, and `PerformGood` carries it through a call that runs any
  set of transfers at once. Two things are needed beside it: a transfer handed to libcurl is new (else
  its socket would be forgotten), and in `multi-uv` a context whose socket libcurl
  has just removed is closing and not freed, so that `on_uv_socket` may still look at it
  (the second half of `SocketActionGood`).
* `WakeupsAreKept`: `Spec => []NoLostWakeup`, and `LoopsEndWhenDone`: `Spec => []EndsWhenDone`, for
  any finite `Urls`. `TInv` adds to the invariant what holds between the callbacks of a loop
  (`Timed`): a count of 0 running transfers means that none is under way (`Counts`); none is done and
  not fetched; a transfer that waits for no event of its socket has a deadline (`Kept`); the
  program was told the earliest, and has a timer that fires by then (`Told`, `Armed`). `CallbackArms` shows this of each timer callback but the one of
  `multi-uv`, of which it is not true (see above). What fails in between counts: an error the
  fifo programs see ends them, one that `multi-event` does not look at sets `missed`,
  for good (`EventMisses`), and the invariant then asks no deadline of it (`Sees`).

Liveness under fairness (`Termination`, `SignalEndsTransfer`, `AllFetched`, `CopyEnds`,
`LockReleased`, `Answered`, `HandshakeEnds`, `SockfiltEnds`, and the like) and `ENABLED` are
beyond the prover and only model-checked.
`Lifetimes` has no parameters to prove it for: its programs are the examples, and TLC runs
each of them. The inductive invariants were checked by TLC, with the bounds of the runs, before they
were proved.

## Not modelled

* *Sizes*: of packets (full or short), of `sockfilt`'s blocks (`BUFFER_SIZE`, the
  `%04x` of a length) and of the pipes, which are unbounded here. A full pipe in
  both directions at once would need a client that sends while it is being sent
  to; the protocols of the test suite take turns.
* *Content*: what a command answers, the parsing of test files, log messages.
* *Variants of one shape*: `APPEND_imap` (as `DATA_smtp`), LIST and REST (as RETR),
  the `NODATACONN` settings, that open no data connection or never use it.
* *The Windows builds* of `tftpd` (no SIGALRM) and `sockfilt` (its own `select`).
* *libcurl and the event libraries*: external, as their headers and the programs
  that call them describe them.
* *What the examples print, parse and compute*, and their callbacks that touch no
  resource. `opensslthreadlock.c` (lock callbacks around calls that are not in
  the file) and `sslbackend.c` (a list of names) have no order to model.
* *Headers that only declare*: `urlapi.h`, `websockets.h`, `options.h`, `header.h`, `mprintf.h`.
* The servers in the table above without a module, the binding and the harness.

## Plan

1. (done) The TFTP server: `TftpSend`, `TftpRecv`, `TftpServer`, `TftpNetascii`,
   `FileTransfer`; proofs about all four.
2. (done) `sockfilt.c` with its side in `ftpserver.pl`: `Sockfilt`, `FtpControl`, `FtpData`.
3. (done) The examples and headers: `EventLoop` and `Fopen` with their proofs, `CurlOptions`,
   `CurlTypecheck`, `Lifetimes`.
4. (done) Proofs about `Fopen`, `FtpData`, `FtpControl`, the timers of `EventLoop`, and
   the recursive functions of `TftpNetascii`; `ByteStream`, which `FtpData` implements. Next:
   the same for the control connection, as a sequence of commands and replies.
5. `SwsTunnel`: `http_connect` as two relays with half-close; abstract
   specification: two FIFO channels. `SwsTable`: the connection table, the
   listen socket and the advisor lock.
6. `Socksd`: handshake and relay, refining the same FIFO channels; `Mqttd`: `mqttit`
   and the remaining-length coding against a reference.
