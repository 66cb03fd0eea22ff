--------------------------------- MODULE Fopen ---------------------------------
(***************************************************************************)
(* fopen.c: url_fopen, url_fread, url_fgets, url_feof, url_rewind and      *)
(* url_fclose make a stream that is read of transfers that write: libcurl  *)
(* calls write_callback whenever it is driven, fill_buffer drives it until *)
(* there is enough in the buffer, use_buffer takes from its front.  All    *)
(* the files share one multi handle, and still_running, which each of them *)
(* has, is the number of transfers the multi handle ran when this file     *)
(* last drove it.                                                          *)
(*                                                                         *)
(* One thread reads the files with the loops of main, several at a time;   *)
(* it rewinds a file at most once, as main does.  The bytes of a source    *)
(* are numbered; those in Newlines are line ends.  A name that opens as a  *)
(* local file is handed to stdio and changes nothing here.                 *)
(***************************************************************************)
EXTENDS Integers, Sequences, FiniteSets

CONSTANTS
  Files,      \* of a client, each with a source of its own
  N,          \* the bytes of every source
  Newlines,   \* those that end a line
  Size,       \* sizeof(buffer) of the client, 256 in main
  NoFile      \* NULL

ASSUME FilesAssumption == IsFiniteSet(Files) /\ NoFile \notin Files
ASSUME SizesAssumption == N \in Nat /\ Newlines \subseteq 1..N /\ Size \in Nat \ {0, 1}

VARIABLES
  file,      \* the URL_FILE of each file
  transfer,  \* its easy handle: where libcurl has got to
  call,      \* the function that reads, while it is in progress
  reader,    \* what the client does with a file
  taken,     \* what it was given since the stream's start
  rewound    \* whether it called url_rewind, and when

vars == <<file, transfer, call, reader, taken, rewound>>

Idle    == [f |-> NoFile, want |-> 0, filling |-> FALSE, broken |-> FALSE]
NoCurl  == [state |-> "none", sent |-> 0]
Begun   == [state |-> "running", sent |-> 0]
Closed  == [buffer |-> <<>>, buffer_len |-> 0, still_running |-> 0]

Active(transfers) == {g \in Files : transfers[g].state = "running"}

Source == [i \in 1..N |-> i]

Init ==
  /\ file = [f \in Files |-> Closed]
  /\ transfer = [f \in Files |-> NoCurl]
  /\ call = Idle
  /\ reader = [f \in Files |-> "closed"]
  /\ taken = [f \in Files |-> <<>>]
  /\ rewound = [f \in Files |-> "never"]

-----------------------------------------------------------------------------
(* libcurl *)

\* Appends the data, of which only what fits when realloc fails.
write_callback(u, bytes, grows) ==
  LET rembuff == u.buffer_len - Len(u.buffer)
      short   == Len(bytes) > rembuff
      size    == IF short /\ ~grows THEN rembuff ELSE Len(bytes)
  IN [u EXCEPT !.buffer = @ \o SubSeq(bytes, 1, size),
               !.buffer_len = IF short /\ grows THEN @ + Len(bytes) - rembuff ELSE @]

\* What may become of a transfer while the multi handle is driven: a block of data is
\* delivered, or none, and it may end, as it does when the callback takes less than that.
Progress(u, t) ==
  {p \in {[u |-> write_callback(u, SubSeq(Source, t.sent + 1, t.sent + n), grows),
           t |-> [state |-> state, sent |-> t.sent + n]] :
             n \in 0..(N - t.sent), grows \in BOOLEAN,
             state \in {"running", "complete", "failed"}} :
     /\ Len(p.u.buffer) - Len(u.buffer) < p.t.sent - t.sent => p.t.state = "failed"
     /\ p.t.state = "complete" => p.t.sent = N}

\* What may become of all those running.
Rounds(files, transfers) ==
  LET active == Active(transfers)
  IN UNION {{p \in [active -> UNION {each[g] : g \in active}] :
               \A g \in active : p[g] \in each[g]} :
              each \in {[g \in active |-> Progress(files[g], transfers[g])]}}

\* curl_multi_perform(multi_handle, &f->still_running)
Perform(f, files, transfers) ==
  \E p \in Rounds(files, transfers) :
    /\ transfer' = [g \in Files |-> IF g \in DOMAIN p THEN p[g].t ELSE transfers[g]]
    /\ file' = [[g \in Files |-> IF g \in DOMAIN p THEN p[g].u ELSE files[g]]
                  EXCEPT ![f].still_running = Cardinality(Active(transfer'))]

-----------------------------------------------------------------------------
(* The functions of the stream *)

\* Mutant: a buffer with more than was asked for is dropped too.
use_buffer_Drops(u, want) ==
  IF Len(u.buffer) >= want THEN [u EXCEPT !.buffer = <<>>, !.buffer_len = 0]
  ELSE [u EXCEPT !.buffer = SubSeq(@, want + 1, Len(@))]

\* Removes want bytes from the front.
use_buffer(u, want) ==
  IF Len(u.buffer) <= want THEN [u EXCEPT !.buffer = <<>>, !.buffer_len = 0]
  ELSE [u EXCEPT !.buffer = SubSeq(@, want + 1, Len(@))]

\* curl_easy_init may fail: libcurl refuses the NULL handle wherever it is passed.
url_fopen(f, handle) ==
  /\ call = Idle
  /\ reader[f] = "closed"
  /\ Perform(f, file, [transfer EXCEPT ![f] = handle])
  /\ IF file'[f].buffer = <<>> /\ file'[f].still_running = 0
     THEN reader' = [reader EXCEPT ![f] = "failed"]
     ELSE \E loop \in {"test", "read"} : reader' = [reader EXCEPT ![f] = loop]
  /\ UNCHANGED <<call, taken, rewound>>

url_feof(u) == u.buffer = <<>> /\ u.still_running = 0

\* Whether fill_buffer drives libcurl at all,
Starts(u, want) == u.still_running # 0 /\ Len(u.buffer) <= want

\* Mutant: it is driven once.
Repeats_Never(u, want) == FALSE

\* Mutant: it is driven until there is enough.
Repeats_UntilFull(u, want) == Len(u.buffer) < want

\* and once more.
Repeats(u, want) == u.still_running # 0 /\ Len(u.buffer) < want

\* main: while(!url_feof(handle)), of the fgets loop
Test(f) ==
  /\ call = Idle
  /\ reader[f] = "test"
  /\ reader' = [reader EXCEPT ![f] = IF url_feof(file[f]) THEN "done" ELSE "line"]
  /\ UNCHANGED <<file, transfer, call, taken, rewound>>

\* url_fgets and url_fread as far as fill_buffer
Reads(f, want) ==
  /\ call = Idle
  /\ call' = [f |-> f, want |-> want, filling |-> Starts(file[f], want), broken |-> FALSE]
  /\ UNCHANGED <<file, transfer, reader, taken, rewound>>

Gets(f)  == reader[f] = "line" /\ Reads(f, Size - 1)
Fread(f) == reader[f] = "read" /\ Reads(f, Size)

\* A round of its loop.  One whose select fails changes nothing.
fill_buffer(f) ==
  /\ call.f = f
  /\ call.filling
  /\ Perform(f, file, transfer)
  /\ call' = [call EXCEPT !.filling = Repeats(file'[f], call.want)]
  /\ UNCHANGED <<reader, taken, rewound>>

\* curl_multi_fdset fails: fill_buffer breaks out of its loop, and its caller is not told.
fdset_fails(f) ==
  /\ call.f = f
  /\ call.filling
  /\ call' = [call EXCEPT !.filling = FALSE, !.broken = TRUE]
  /\ UNCHANGED <<file, transfer, reader, taken, rewound>>

\* What is given to the caller: as much as there is, for url_fgets up to a line's end.
Given(u, want, byLine) ==
  LET most == IF Len(u.buffer) < want THEN Len(u.buffer) ELSE want
      ends == {i \in 1..most : byLine /\ u.buffer[i] \in Newlines}
  IN IF ends = {} THEN most ELSE CHOOSE i \in ends : \A j \in ends : i <= j

\* The rest of url_fgets and url_fread.  The fgets loop of main does not look at what
\* it returns, the fread loop ends with 0: "done", or "cut" by an error of libcurl.
Return(f) ==
  /\ call.f = f
  /\ ~call.filling
  /\ LET u    == file[f]
         want == Given(u, call.want, reader[f] = "line")
     IN IF u.buffer = <<>>
        THEN UNCHANGED <<file, taken>>
        ELSE /\ file' = [file EXCEPT ![f] = use_buffer(u, want)]
             /\ taken' = [taken EXCEPT ![f] = @ \o SubSeq(u.buffer, 1, want)]
  /\ reader' = [reader EXCEPT ![f] = IF @ = "line" THEN "test"
                                     ELSE IF file[f].buffer # <<>> THEN "read"
                                     ELSE IF call.broken THEN "cut" ELSE "done"]
  /\ call' = Idle
  /\ UNCHANGED <<transfer, rewound>>

\* The transfer starts afresh, still_running stays.
url_rewind(f) ==
  /\ call = Idle
  /\ reader[f] = "read"
  /\ rewound[f] = "never"
  /\ transfer' = [transfer EXCEPT ![f] = IF @ = NoCurl THEN NoCurl ELSE Begun]
  /\ file' = [file EXCEPT ![f] = [@ EXCEPT !.buffer = <<>>, !.buffer_len = 0]]
  /\ taken' = [taken EXCEPT ![f] = <<>>]
  /\ rewound' = [rewound EXCEPT ![f] = IF file[f].still_running = 0 THEN "late" ELSE "early"]
  /\ UNCHANGED <<call, reader>>

url_fclose(f) ==
  /\ call = Idle
  /\ reader[f] \in {"test", "read", "done", "cut"}
  /\ file' = [file EXCEPT ![f] = Closed]
  /\ transfer' = [transfer EXCEPT ![f] = NoCurl]
  /\ reader' = [reader EXCEPT ![f] = "finished"]
  /\ taken' = [taken EXCEPT ![f] = <<>>]
  /\ UNCHANGED <<call, rewound>>

Open(f)  == \E handle \in {Begun, NoCurl} : url_fopen(f, handle)
Loop(f)  == Test(f) \/ Gets(f) \/ Fread(f) \/ fill_buffer(f) \/ Return(f)

Next ==
  \E f \in Files : Open(f) \/ Loop(f) \/ fdset_fails(f) \/ url_rewind(f) \/ url_fclose(f)

Spec == Init /\ [][Next]_vars

\* The thread goes on, and libcurl, driven again and again by fill_buffer, ends every
\* transfer: a server answers or a timeout of libcurl strikes.  It is not driven where
\* curl_multi_fdset fails.  (Rounds with transfers to drive need no fairness of their
\* own: the last conjunct says where they lead to.)
FairSpec ==
  /\ Spec
  /\ WF_vars(\E f \in Files : Test(f) \/ Gets(f) \/ Fread(f) \/ Return(f))
  /\ WF_vars(\E f \in Files : Active(transfer) = {} /\ fill_buffer(f))
  /\ \A f \in Files :
       []<>call.filling => []<>call.broken \/ []<>(f \notin Active(transfer))

-----------------------------------------------------------------------------
\* What the client was given and what waits in the buffer are together the start of the
\* source, without a gap, a repetition or, unless the transfer failed, a loss, however
\* the writes that reading other files causes fall between the reads of this one.
InOrder ==
  \A f \in Files : reader[f] \in {"test", "line", "read", "done", "cut"} =>
    LET stream == taken[f] \o file[f].buffer
    IN /\ Len(stream) <= transfer[f].sent
       /\ stream = SubSeq(Source, 1, Len(stream))
       /\ transfer[f].state # "failed" => Len(stream) = transfer[f].sent

\* A loop of main ends only when the transfer has ended and nothing of it is left in
\* the buffer, the fread loop also when curl_multi_fdset fails in it with an empty
\* buffer ("either errored or EOF", 347-348; reader = "cut"), which main takes for the
\* end of the file.  It does not hold of a file rewound after still_running was 0.
EndIsEnd ==
  \A f \in Files : reader[f] = "done" /\ rewound[f] # "late" =>
    /\ transfer[f].state # "running"
    /\ file[f].buffer = <<>>

\* A loop of main ends, although the count it waits for includes the transfers of
\* files nobody reads, unless curl_multi_fdset fails again and again: the fgets loop,
\* which looks at url_feof only, then goes round for ever.
CopyEnds ==
  \A f \in Files : reader[f] \in {"test", "line", "read"} ~>
    reader[f] \in {"done", "cut", "finished"} \/ call.broken
=============================================================================
