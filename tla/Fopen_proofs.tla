----------------------------- MODULE Fopen_proofs -----------------------------
(***************************************************************************)
(* EndIsEnd and InOrder of Fopen, for any number of files, of bytes and    *)
(* any size of the client's buffer.                                        *)
(*                                                                         *)
(* EndIsEnd: a loop of main that ended, other than by a failing            *)
(* curl_multi_fdset, has seen the end of its transfer.                     *)
(* still_running of a file is a count of all the transfers at a time that  *)
(* has passed, so the argument is about what a 0 of it still means         *)
(* (ZeroMeansEnded) and about what fill_buffer leaves behind when it stops *)
(* (StopsFor).                                                             *)
(*                                                                         *)
(* InOrder: the client gets the source in order.  Whoever drives libcurl,  *)
(* a buffer goes on where the client was given the last byte (InStream),   *)
(* and what is given is cut from its front.                                *)
(***************************************************************************)
EXTENDS Fopen, NumberLemmas, FiniteSetTheorems, TLAPS

Opened == {"test", "line", "read", "done", "cut"}

IsFile(u) ==
  u = [buffer |-> u.buffer, buffer_len |-> u.buffer_len, still_running |-> u.still_running]

\* The tables have an entry for each file; a function in progress is one of a file
\* that is read.
Shape ==
  /\ file = [f \in Files |-> file[f]]
  /\ \A f \in Files : IsFile(file[f])
  /\ transfer = [f \in Files |-> transfer[f]]
  /\ reader = [f \in Files |-> reader[f]]
  /\ rewound = [f \in Files |-> rewound[f]]
  /\ call = [f |-> call.f, want |-> call.want, filling |-> call.filling,
              broken |-> call.broken]
  /\ \A f \in Files : call.f = f => reader[f] \in {"line", "read"} /\ call.want \in Nat \ {0}

\* A count of 0 is still true of the file's own transfer: it can only be started again
\* by rewinding the file.
ZeroMeansEnded ==
  \A f \in Files :
    reader[f] \in Opened /\ rewound[f] # "late" /\ file[f].still_running = 0 =>
      f \notin Active(transfer)

\* fill_buffer stops without data only when the count is 0 or curl_multi_fdset fails.
StopsFor ==
  \A f \in Files :
    call.f = f /\ ~call.filling /\ ~call.broken /\ file[f].buffer = <<>> =>
      file[f].still_running = 0

\* A loop stops at the end of the stream, where nothing follows.
DoneAtEnd ==
  \A f \in Files :
    reader[f] = "done" /\ rewound[f] # "late" =>
      file[f].buffer = <<>> /\ file[f].still_running = 0

\* The inductive invariant.
IInv == Shape /\ ZeroMeansEnded /\ StopsFor /\ DoneAtEnd
-----------------------------------------------------------------------------
(* What driving libcurl does *)

\* A transfer only goes on or ends, and write_callback changes nothing but the buffer.
LEMMA WrittenIsFile ==
  ASSUME NEW u, IsFile(u), NEW t, NEW p \in Progress(u, t)
  PROVE  IsFile(p.u) /\ p.u.still_running = u.still_running
<1>1. PICK bytes, grows : p.u = write_callback(u, bytes, grows)
  <2> DEFINE bytes(n) == SubSeq(Source, t.sent + 1, t.sent + n)
  <2>1. PICK n \in 0..(N - t.sent), grows \in BOOLEAN,
             state \in {"running", "complete", "failed"} :
          p = [u |-> write_callback(u, bytes(n), grows),
               t |-> [state |-> state, sent |-> t.sent + n]]
    BY DEF Progress
  <2>2. p.u = write_callback(u, bytes(n), grows)
    BY <2>1
  <2> QED
    BY <2>2
<1>2. PICK buffer, len : p.u = [u EXCEPT !.buffer = buffer, !.buffer_len = len]
  BY <1>1 DEF write_callback
<1> QED
  BY <1>2 DEF IsFile

\* Its count is another field than the buffer.
LEMMA CountedIsFile ==
  ASSUME NEW u, IsFile(u), NEW count, NEW v, v = [u EXCEPT !.still_running = count]
  PROVE  /\ IsFile(v) /\ v.still_running = count
         /\ v.buffer = u.buffer /\ v.buffer_len = u.buffer_len
BY DEF IsFile

\* url_rewind drops the buffer and leaves the count.
LEMMA EmptiedIsFile ==
  ASSUME NEW u, IsFile(u), NEW v, v = [u EXCEPT !.buffer = <<>>, !.buffer_len = 0]
  PROVE  IsFile(v) /\ v.still_running = u.still_running
BY DEF IsFile

\* url_fopen and fill_buffer(f): the transfers that had ended stay as they are, the
\* counts of the other files too, and f's, when 0, says that all have ended.
LEMMA Performed ==
  ASSUME NEW f \in Files, NEW STATE transfers,
         file = [g \in Files |-> file[g]], \A g \in Files : IsFile(file[g]),
         Perform(f, file, transfers)
  PROVE  /\ file' = [g \in Files |-> file'[g]]
         /\ transfer' = [g \in Files |-> transfer'[g]]
         /\ \A g \in Files : IsFile(file'[g])
         /\ \A g \in Files \ {f} : file'[g].still_running = file[g].still_running
         /\ \A g \in Files \ Active(transfers) :
              /\ transfer'[g] = transfers[g]
              /\ file'[g].buffer = file[g].buffer /\ file'[g].buffer_len = file[g].buffer_len
         /\ \A g \in Active(transfers) : \E q \in Progress(file[g], transfers[g]) :
              /\ transfer'[g] = q.t
              /\ file'[g].buffer = q.u.buffer /\ file'[g].buffer_len = q.u.buffer_len
         /\ Active(transfer') \subseteq Active(transfers)
         /\ file'[f].still_running = 0 => Active(transfer') = {}
<1> DEFINE moved(p) == [g \in Files |-> IF g \in DOMAIN p THEN p[g].u ELSE file[g]]
<1>1. PICK p \in Rounds(file, transfers) :
        /\ transfer' = [g \in Files |-> IF g \in DOMAIN p THEN p[g].t ELSE transfers[g]]
        /\ file' = [moved(p) EXCEPT ![f].still_running = Cardinality(Active(transfer'))]
  BY DEF Perform
<1>2. /\ DOMAIN p = Active(transfers)
      /\ \A g \in Active(transfers) : p[g] \in Progress(file[g], transfers[g])
  <2>1. PICK each \in {[g \in Active(transfers) |-> Progress(file[g], transfers[g])]} :
          p \in {q \in [Active(transfers) -> UNION {each[g] : g \in Active(transfers)}] :
                  \A g \in Active(transfers) : q[g] \in each[g]}
    BY DEF Rounds
  <2>2. each = [g \in Active(transfers) |-> Progress(file[g], transfers[g])]
    OBVIOUS
  <2> QED
    BY <2>1, <2>2
<1>3. Active(transfers) \subseteq Files
  BY DEF Active
<1>4. \A g \in Files : /\ IsFile(moved(p)[g])
                       /\ moved(p)[g].still_running = file[g].still_running
                       /\ g \notin Active(transfers) => moved(p)[g] = file[g]
                       /\ g \in Active(transfers) => moved(p)[g] = p[g].u
  <2> SUFFICES ASSUME NEW g \in Files
               PROVE  /\ IsFile(moved(p)[g])
                      /\ moved(p)[g].still_running = file[g].still_running
                      /\ g \notin Active(transfers) => moved(p)[g] = file[g]
                      /\ g \in Active(transfers) => moved(p)[g] = p[g].u
    OBVIOUS
  <2>1. CASE g \in Active(transfers)
    <3>1. IsFile(p[g].u) /\ p[g].u.still_running = file[g].still_running
      <4>1. p[g] \in Progress(file[g], transfers[g])
        BY <1>2, <2>1
      <4> QED
        BY <4>1, WrittenIsFile
    <3> QED
      BY <1>2, <2>1, <3>1
  <2>2. CASE g \notin Active(transfers)
    BY <1>2, <2>2
  <2> QED
    BY <2>1, <2>2
<1>5. file' = [g \in Files |-> IF g = f
                  THEN [moved(p)[f] EXCEPT !.still_running = Cardinality(Active(transfer'))]
                  ELSE moved(p)[g]]
  BY <1>1
<1> HIDE DEF moved
<1>6. /\ IsFile(file'[f])
      /\ file'[f].still_running = Cardinality(Active(transfer'))
      /\ file'[f].buffer = moved(p)[f].buffer
      /\ file'[f].buffer_len = moved(p)[f].buffer_len
  <2>1. file'[f] = [moved(p)[f] EXCEPT !.still_running = Cardinality(Active(transfer'))]
    BY <1>5
  <2>2. IsFile(moved(p)[f])
    BY <1>4
  <2> QED
    BY ONLY <2>1, <2>2, CountedIsFile
<1>7. \A g \in Files \ {f} : file'[g] = moved(p)[g]
  BY <1>5
<1>8. \A g \in Files : transfer'[g] = IF g \in Active(transfers) THEN p[g].t ELSE transfers[g]
  BY <1>1, <1>2
<1>9. Active(transfer') \subseteq Active(transfers)
  BY <1>8 DEF Active
<1>10. IsFiniteSet(Active(transfer'))
  <2>1. Active(transfer') \subseteq Files
    BY DEF Active
  <2> QED
    BY <2>1, FilesAssumption, FS_Subset
<1>11. file'[f].still_running = 0 => Active(transfer') = {}
  BY <1>6, <1>10, FS_EmptySet
<1>12. \A g \in Active(transfers) : \E q \in Progress(file[g], transfers[g]) :
         /\ transfer'[g] = q.t
         /\ file'[g].buffer = q.u.buffer /\ file'[g].buffer_len = q.u.buffer_len
  <2> SUFFICES ASSUME NEW g \in Active(transfers)
               PROVE  /\ p[g] \in Progress(file[g], transfers[g])
                      /\ transfer'[g] = p[g].t
                      /\ file'[g].buffer = p[g].u.buffer
                      /\ file'[g].buffer_len = p[g].u.buffer_len
    OBVIOUS
  <2> QED
    BY <1>2, <1>3, <1>4, <1>6, <1>7, <1>8
<1>13. \A g \in Files \ Active(transfers) :
         /\ transfer'[g] = transfers[g]
         /\ file'[g].buffer = file[g].buffer /\ file'[g].buffer_len = file[g].buffer_len
  BY <1>4, <1>6, <1>7, <1>8
<1> QED
  BY <1>1, <1>4, <1>5, <1>6, <1>7, <1>9, <1>11, <1>12, <1>13

-----------------------------------------------------------------------------
(* The invariant *)

LEMMA InitHolds == Init => IInv
BY FilesAssumption
   DEF Init, IInv, Shape, ZeroMeansEnded, StopsFor, DoneAtEnd, Opened, Closed, NoCurl, Idle,
       IsFile, Active

LEMMA OpenHolds ==
  ASSUME NEW f \in Files, NEW handle \in {Begun, NoCurl}, IInv, url_fopen(f, handle)
  PROVE  IInv'
<1> DEFINE transfers == [transfer EXCEPT ![f] = handle]
<1>1. /\ Shape /\ ZeroMeansEnded /\ StopsFor /\ DoneAtEnd
      /\ call = Idle /\ call' = Idle /\ reader[f] = "closed"
      /\ rewound' = rewound
      /\ Perform(f, file, transfers)
      /\ \A g \in Files \ {f} : reader'[g] = reader[g]
      /\ reader' = [g \in Files |-> reader'[g]]
      /\ reader'[f] \in {"failed", "test", "read"}
  BY DEF IInv, Shape, url_fopen
<1>2. \A g \in Files \ {f} : transfers[g] = transfer[g]
  BY <1>1 DEF Shape
<1>3. \A g \in Files \ {f} : g \in Active(transfers) => g \in Active(transfer)
  BY <1>2 DEF Active
<1> HIDE DEF transfers
<1>4. /\ file' = [g \in Files |-> file'[g]]
      /\ transfer' = [g \in Files |-> transfer'[g]]
      /\ \A g \in Files : IsFile(file'[g])
      /\ \A g \in Files \ {f} : file'[g].still_running = file[g].still_running
      /\ \A g \in Files \ Active(transfers) :
           transfer'[g] = transfers[g] /\ file'[g].buffer = file[g].buffer
      /\ Active(transfer') \subseteq Active(transfers)
      /\ file'[f].still_running = 0 => Active(transfer') = {}
  BY <1>1, Performed DEF Shape
<1>5. Shape'
  BY <1>1, <1>4, FilesAssumption DEF Shape, Idle
<1>6. ZeroMeansEnded'
  <2> SUFFICES ASSUME NEW g \in Files, reader'[g] \in Opened, rewound'[g] # "late",
                      file'[g].still_running = 0
               PROVE  g \notin Active(transfer')
    BY DEF ZeroMeansEnded, Active
  <2>1. CASE g = f
    BY <1>4, <2>1
  <2>2. CASE g # f
    BY <1>1, <1>3, <1>4, <2>2 DEF ZeroMeansEnded
  <2> QED
    BY <2>1, <2>2
<1>7. StopsFor'
  BY <1>1, FilesAssumption DEF StopsFor, Idle
<1>8. DoneAtEnd'
  <2> SUFFICES ASSUME NEW g \in Files, reader'[g] = "done", rewound'[g] # "late"
               PROVE  file'[g].buffer = <<>> /\ file'[g].still_running = 0
    BY DEF DoneAtEnd
  <2>1. g # f
    BY <1>1
  <2>2. g \notin Active(transfers)
    BY <1>1, <1>3, <2>1 DEF ZeroMeansEnded, DoneAtEnd, Opened
  <2> QED
    BY <1>1, <1>4, <2>1, <2>2 DEF DoneAtEnd
<1> QED
  BY <1>5, <1>6, <1>7, <1>8 DEF IInv

LEMMA TestHolds ==
  ASSUME NEW f \in Files, IInv, Test(f)
  PROVE  IInv'
<1>1. Shape'
  BY FilesAssumption DEF IInv, Shape, Test, Idle
<1>2. ZeroMeansEnded'
  BY DEF IInv, Shape, ZeroMeansEnded, Test, Opened, Active
<1>3. StopsFor'
  BY DEF IInv, StopsFor, Test
<1>4. DoneAtEnd'
  BY DEF IInv, Shape, DoneAtEnd, Test, url_feof
<1> QED
  BY <1>1, <1>2, <1>3, <1>4 DEF IInv

LEMMA ReadsHolds ==
  ASSUME NEW f \in Files, NEW want \in Nat \ {0}, reader[f] \in {"line", "read"},
         IInv, Reads(f, want)
  PROVE  IInv'
<1>1. Shape'
  BY FilesAssumption DEF IInv, Shape, Reads
<1>2. ZeroMeansEnded' /\ DoneAtEnd'
  BY DEF IInv, ZeroMeansEnded, DoneAtEnd, Reads, Active
<1>3. StopsFor'
  <2>1. call'.f = f /\ call'.filling = Starts(file[f], want) /\ file' = file
    BY DEF Reads
  <2> SUFFICES ASSUME ~call'.filling, ~call'.broken, file'[f].buffer = <<>>
               PROVE  file'[f].still_running = 0
    BY <2>1 DEF StopsFor
  <2>2. ~Starts(file[f], want)
    BY <2>1
  <2>3. Len(<<>>) <= want
    OBVIOUS
  <2> QED
    BY <2>1, <2>2, <2>3 DEF Starts
<1> QED
  BY <1>1, <1>2, <1>3 DEF IInv

LEMMA FillHolds ==
  ASSUME NEW f \in Files, IInv, fill_buffer(f)
  PROVE  IInv'
<1>1. /\ Shape /\ ZeroMeansEnded /\ StopsFor /\ DoneAtEnd
      /\ call.f = f
      /\ call' = [call EXCEPT !.filling = Repeats(file'[f], call.want)]
      /\ reader' = reader /\ rewound' = rewound
      /\ Perform(f, file, transfer)
  BY DEF IInv, fill_buffer
<1>2. reader[f] \in {"line", "read"} /\ call.want \in Nat \ {0}
  BY <1>1 DEF Shape
<1>3. /\ call'.f = f /\ call'.want = call.want
      /\ call'.filling = Repeats(file'[f], call.want)
      /\ call' = [f |-> call'.f, want |-> call'.want, filling |-> call'.filling,
                   broken |-> call'.broken]
  BY <1>1 DEF Shape
<1>4. /\ file' = [g \in Files |-> file'[g]]
      /\ transfer' = [g \in Files |-> transfer'[g]]
      /\ \A g \in Files : IsFile(file'[g])
      /\ \A g \in Files \ {f} : file'[g].still_running = file[g].still_running
      /\ \A g \in Files \ Active(transfer) :
           transfer'[g] = transfer[g] /\ file'[g].buffer = file[g].buffer
      /\ Active(transfer') \subseteq Active(transfer)
      /\ file'[f].still_running = 0 => Active(transfer') = {}
  BY <1>1, Performed DEF Shape
<1>5. Shape'
  BY <1>1, <1>2, <1>3, <1>4 DEF Shape
<1>6. ZeroMeansEnded'
  <2> SUFFICES ASSUME NEW g \in Files, reader'[g] \in Opened, rewound'[g] # "late",
                      file'[g].still_running = 0
               PROVE  g \notin Active(transfer')
    BY DEF ZeroMeansEnded, Active
  <2>1. CASE g = f
    BY <1>4, <2>1
  <2>2. CASE g # f
    BY <1>1, <1>4, <2>2 DEF ZeroMeansEnded
  <2> QED
    BY <2>1, <2>2
<1>7. StopsFor'
  <2> SUFFICES ASSUME ~call'.filling, ~call'.broken, file'[f].buffer = <<>>
               PROVE  file'[f].still_running = 0
    BY <1>3 DEF StopsFor
  <2>1. ~Repeats(file'[f], call.want)
    BY <1>3
  <2>2. Len(<<>>) < call.want
    BY <1>2
  <2> QED
    BY <2>1, <2>2 DEF Repeats
<1>8. DoneAtEnd'
  <2> SUFFICES ASSUME NEW g \in Files, reader'[g] = "done", rewound'[g] # "late"
               PROVE  file'[g].buffer = <<>> /\ file'[g].still_running = 0
    BY DEF DoneAtEnd
  <2>1. g # f
    BY <1>1, <1>2
  <2>2. g \notin Active(transfer)
    BY <1>1, <2>1 DEF ZeroMeansEnded, DoneAtEnd, Opened
  <2> QED
    BY <1>1, <1>4, <2>1, <2>2 DEF DoneAtEnd
<1> QED
  BY <1>5, <1>6, <1>7, <1>8 DEF IInv

LEMMA FdsetHolds ==
  ASSUME NEW f \in Files, IInv, fdset_fails(f)
  PROVE  IInv'
<1>1. /\ Shape /\ ZeroMeansEnded /\ DoneAtEnd
      /\ call.f = f
      /\ call' = [call EXCEPT !.filling = FALSE, !.broken = TRUE]
      /\ UNCHANGED <<file, transfer, reader, rewound>>
  BY DEF IInv, fdset_fails
<1>2. /\ call'.f = f /\ call'.want = call.want /\ call'.broken
      /\ call' = [f |-> call'.f, want |-> call'.want, filling |-> call'.filling,
                   broken |-> call'.broken]
  BY <1>1 DEF Shape
<1>3. Shape'
  BY <1>1, <1>2 DEF Shape
<1>4. ZeroMeansEnded' /\ DoneAtEnd'
  BY <1>1 DEF ZeroMeansEnded, DoneAtEnd, Active
<1>5. StopsFor'
  BY <1>2 DEF StopsFor
<1> QED
  BY <1>3, <1>4, <1>5 DEF IInv

LEMMA ReturnHolds ==
  ASSUME NEW f \in Files, IInv, Return(f)
  PROVE  IInv'
<1>1. /\ Shape /\ ZeroMeansEnded /\ StopsFor /\ DoneAtEnd
      /\ call.f = f /\ ~call.filling /\ call' = Idle
      /\ transfer' = transfer /\ rewound' = rewound
  BY DEF IInv, Return
<1>2. reader[f] \in {"line", "read"}
  BY <1>1 DEF Shape
<1>3. /\ file' = [g \in Files |-> file'[g]]
      /\ \A g \in Files : IsFile(file'[g]) /\ file'[g].still_running = file[g].still_running
      /\ \A g \in Files \ {f} : file'[g] = file[g]
      /\ file[f].buffer = <<>> => file' = file
  <2>1. CASE file[f].buffer = <<>>
    <3>1. file' = file
      BY <2>1 DEF Return
    <3> QED
      BY <1>1, <2>1, <3>1 DEF Shape
  <2>2. CASE file[f].buffer # <<>>
    <3>1. PICK want : file' = [file EXCEPT ![f] = use_buffer(file[f], want)]
      BY <2>2 DEF Return
    <3>2. IsFile(file[f])
      BY <1>1 DEF Shape
    <3>3. /\ IsFile(use_buffer(file[f], want))
          /\ use_buffer(file[f], want).still_running = file[f].still_running
      BY <3>2 DEF IsFile, use_buffer
    <3> QED
      BY <1>1, <2>2, <3>1, <3>3 DEF Shape
  <2> QED
    BY <2>1, <2>2
<1>4. /\ reader' = [g \in Files |-> reader'[g]]
      /\ \A g \in Files \ {f} : reader'[g] = reader[g]
      /\ reader'[f] = "done" => file[f].buffer = <<>> /\ ~call.broken
  BY <1>1, <1>2 DEF Return, Shape
<1>5. Shape'
  BY <1>1, <1>3, <1>4, FilesAssumption DEF Shape, Idle
<1>6. ZeroMeansEnded'
  BY <1>1, <1>2, <1>3, <1>4 DEF ZeroMeansEnded, Opened, Active
<1>7. StopsFor'
  BY <1>1, FilesAssumption DEF StopsFor, Idle
<1>8. DoneAtEnd'
  BY <1>1, <1>3, <1>4 DEF DoneAtEnd, StopsFor
<1> QED
  BY <1>5, <1>6, <1>7, <1>8 DEF IInv

LEMMA RewindHolds ==
  ASSUME NEW f \in Files, IInv, url_rewind(f)
  PROVE  IInv'
<1>1. /\ Shape /\ ZeroMeansEnded /\ StopsFor /\ DoneAtEnd
      /\ call = Idle /\ call' = Idle /\ reader[f] = "read" /\ reader' = reader
  BY DEF IInv, url_rewind
<1>2. /\ \A g \in Files \ {f} : /\ file'[g] = file[g] /\ transfer'[g] = transfer[g]
                                /\ rewound'[g] = rewound[g]
      /\ rewound'[f] = IF file[f].still_running = 0 THEN "late" ELSE "early"
      /\ file' = [g \in Files |-> file'[g]]
      /\ transfer' = [g \in Files |-> transfer'[g]]
      /\ rewound' = [g \in Files |-> rewound'[g]]
      /\ IsFile(file'[f]) /\ file'[f].still_running = file[f].still_running
  <2> DEFINE u == [file[f] EXCEPT !.buffer = <<>>, !.buffer_len = 0]
  <2>1. IsFile(file[f])
    BY <1>1 DEF Shape
  <2>2. IsFile(u) /\ u.still_running = file[f].still_running
    BY <2>1, EmptiedIsFile
  <2>3. file' = [file EXCEPT ![f] = u]
    BY DEF url_rewind
  <2> HIDE DEF u
  <2>4. /\ file' = [g \in Files |-> file'[g]]
        /\ file'[f] = u
        /\ \A g \in Files \ {f} : file'[g] = file[g]
    BY <1>1, <2>3 DEF Shape
  <2>5. /\ transfer' = [g \in Files |-> transfer'[g]]
        /\ \A g \in Files \ {f} : transfer'[g] = transfer[g]
    BY <1>1 DEF Shape, url_rewind
  <2>6. /\ rewound' = [g \in Files |-> rewound'[g]]
        /\ \A g \in Files \ {f} : rewound'[g] = rewound[g]
        /\ rewound'[f] = IF file[f].still_running = 0 THEN "late" ELSE "early"
    BY <1>1 DEF Shape, url_rewind
  <2> QED
    BY <2>2, <2>4, <2>5, <2>6
<1>3. Shape'
  BY <1>1, <1>2, FilesAssumption DEF Shape, Idle
<1>4. ZeroMeansEnded'
  BY <1>1, <1>2 DEF ZeroMeansEnded, Active
<1>5. StopsFor' /\ DoneAtEnd'
  BY <1>1, <1>2, FilesAssumption DEF StopsFor, DoneAtEnd, Idle
<1> QED
  BY <1>3, <1>4, <1>5 DEF IInv

LEMMA CloseHolds ==
  ASSUME NEW f \in Files, IInv, url_fclose(f)
  PROVE  IInv'
<1>1. /\ Shape /\ ZeroMeansEnded /\ StopsFor /\ DoneAtEnd
      /\ call = Idle /\ call' = Idle /\ rewound' = rewound
  BY DEF IInv, url_fclose
<1>2. /\ file' = [file EXCEPT ![f] = Closed]
      /\ transfer' = [transfer EXCEPT ![f] = NoCurl]
      /\ reader' = [reader EXCEPT ![f] = "finished"]
  BY DEF url_fclose
<1>3. Shape'
  BY <1>1, <1>2, FilesAssumption DEF Shape, Idle, Closed, IsFile
<1>4. ZeroMeansEnded'
  BY <1>1, <1>2 DEF ZeroMeansEnded, Shape, Active, Opened
<1>5. StopsFor' /\ DoneAtEnd'
  BY <1>1, <1>2, FilesAssumption DEF StopsFor, DoneAtEnd, Shape, Idle
<1> QED
  BY <1>3, <1>4, <1>5 DEF IInv

LEMMA NextHolds == IInv /\ [Next]_vars => IInv'
<1> SUFFICES ASSUME IInv, [Next]_vars
             PROVE  IInv'
  OBVIOUS
<1>1. ASSUME NEW f \in Files, Open(f)
      PROVE  IInv'
  BY <1>1, OpenHolds DEF Open
<1>2. ASSUME NEW f \in Files, Loop(f)
      PROVE  IInv'
  <2>1. CASE Gets(f) \/ Fread(f)
    <3>1. Size - 1 \in Nat \ {0} /\ Size \in Nat \ {0}
      BY SizesAssumption
    <3> QED
      BY <2>1, <3>1, ReadsHolds DEF Gets, Fread
  <2> QED
    BY <1>2, <2>1, TestHolds, FillHolds, ReturnHolds DEF Loop
<1>3. ASSUME UNCHANGED vars
      PROVE  IInv'
  BY <1>3 DEF vars, IInv, Shape, ZeroMeansEnded, StopsFor, DoneAtEnd, Active
<1> QED
  BY <1>1, <1>2, <1>3, FdsetHolds, RewindHolds, CloseHolds DEF Next

\* A loop of main that ended, other than by a failing curl_multi_fdset, has seen its
\* transfer end, whatever other files are read in between, however libcurl delivers and
\* whatever curl_multi_fdset did in the reads before.
THEOREM LoopsSeeTheEnd == Spec => []EndIsEnd
<1>1. IInv => EndIsEnd
  BY DEF IInv, ZeroMeansEnded, DoneAtEnd, EndIsEnd, Active, Opened
<1> QED
  BY <1>1, InitHolds, NextHolds, PTL DEF Spec

-----------------------------------------------------------------------------
(* The order of the bytes *)

\* The buffer goes on where the client was given the last byte, and unless the transfer
\* failed holds all that was sent since.
InStream(u, t, given) ==
  LET have == given + Len(u.buffer)
  IN /\ u.buffer \in Seq(Nat) /\ u.buffer = Run(given, have)
     /\ u.buffer_len \in Nat /\ Len(u.buffer) <= u.buffer_len
     /\ t.sent \in 0..N /\ have <= t.sent
     /\ t.state # "failed" => have = t.sent

Streams ==
  \A f \in Files :
    /\ reader[f] = "closed" =>
         /\ file[f].buffer = <<>> /\ file[f].buffer_len = 0
         /\ transfer[f] = NoCurl /\ taken[f] = <<>>
    /\ reader[f] \in Opened =>
         /\ taken[f] \in Seq(Nat) /\ taken[f] = Run(0, Len(taken[f]))
         /\ InStream(file[f], transfer[f], Len(taken[f]))

TakenShape == taken = [f \in Files |-> taken[f]]

\* The inductive invariant of the order.
OInv == IInv /\ TakenShape /\ Streams

LEMMA SourceIsRun == Source = Run(0, N) /\ N \in Nat
<1>1. N \in Nat
  BY SizesAssumption
<1>2. \A i \in 1..N : 0 + i = i
  BY <1>1
<1>3. N - 0 = N
  BY <1>1
<1> QED
  BY <1>1, <1>2, <1>3 DEF Source, Run

\* A part of a run, from its position m on.
LEMMA Cut ==
  ASSUME NEW a \in Nat, NEW b \in Nat, NEW x \in Nat, NEW y \in Nat,
         NEW m \in Int, NEW n \in Int, a <= x, x <= y, y <= b, m = x - a + 1, n = y - a
  PROVE  SubSeq(Run(a, b), m, n) = Run(x, y)
<1>1. m \in 1..(b - a + 1) /\ n \in (m - 1)..(b - a) /\ a + m - 1 = x /\ a + n = y /\ a <= b
  OBVIOUS
<1>2. SubSeq(Run(a, b), m, n) = Run(a + m - 1, a + n)
  BY ONLY <1>1, a \in Nat, b \in Nat, RunSubSeq
<1> QED
  BY <1>1, <1>2, Zenon

\* Of the bytes that go to write_callback those that it takes.
Accepted(sent, n, size) == SubSeq(SubSeq(Source, sent + 1, sent + n), 1, size)

LEMMA Block ==
  ASSUME NEW sent \in Nat, NEW size \in Nat, NEW n \in Nat,
         size <= n, sent + n \in 0..N
  PROVE  /\ Len(SubSeq(Source, sent + 1, sent + n)) = n
         /\ Accepted(sent, n, size) = Run(sent, sent + size)
<1>1. PICK end, to : end = sent + n /\ to = sent + size
  OBVIOUS
<1>2. /\ end \in Nat /\ to \in Nat /\ 0 \in Nat /\ 0 <= sent /\ sent <= to /\ to <= end
      /\ sent <= end /\ end <= N /\ sent <= sent
      /\ sent + 1 \in Int /\ sent + n \in Int /\ 1 \in Int /\ size \in Int
      /\ end - sent = n
      /\ sent + 1 = sent - 0 + 1 /\ sent + n = end - 0
      /\ 1 = sent - sent + 1 /\ size = to - sent
  BY <1>1, SourceIsRun
<1> DEFINE bytes == SubSeq(Source, sent + 1, sent + n)
<1>3. bytes = Run(sent, end)
  <2>1. N \in Nat
    BY SourceIsRun
  <2>2. SubSeq(Run(0, N), sent + 1, sent + n) = Run(sent, end)
    BY ONLY <1>2, <2>1, sent \in Nat, Cut
  <2> QED
    BY <2>2, SourceIsRun
<1> HIDE DEF bytes
<1>4. Len(bytes) = n
  <2>1. Len(bytes) = end - sent
    BY ONLY <1>2, <1>3, sent \in Nat, RunSeq
  <2> QED
    BY <1>2, <2>1
<1>5. SubSeq(bytes, 1, size) = Run(sent, to)
  <2>1. SubSeq(Run(sent, end), 1, size) = Run(sent, to)
    BY ONLY <1>2, sent \in Nat, Cut
  <2> QED
    BY <1>3, <2>1
<1>6. Accepted(sent, n, size) = SubSeq(bytes, 1, size)
  BY DEF Accepted, bytes
<1> QED
  BY <1>1, <1>4, <1>5, <1>6 DEF bytes

\* write_callback keeps the order: a block whose end does not fit fails its transfer.
LEMMA Written ==
  ASSUME NEW u, NEW t, NEW given \in Nat, IsFile(u), InStream(u, t, given),
         t.state = "running", NEW q \in Progress(u, t)
  PROVE  InStream(q.u, q.t, given)
<1> DEFINE bytes(n) == SubSeq(Source, t.sent + 1, t.sent + n)
<1>1. PICK n \in 0..(N - t.sent), grows \in BOOLEAN,
           state \in {"running", "complete", "failed"} :
        q = [u |-> write_callback(u, bytes(n), grows),
             t |-> [state |-> state, sent |-> t.sent + n]]
  BY DEF Progress
<1>2. Len(q.u.buffer) - Len(u.buffer) < q.t.sent - t.sent => q.t.state = "failed"
  BY DEF Progress
<1>3. PICK sent, len, cap : sent = t.sent /\ len = Len(u.buffer) /\ cap = u.buffer_len
  OBVIOUS
<1>4. /\ len \in Nat /\ cap \in Nat /\ len <= cap /\ sent \in 0..N /\ sent = given + len
      /\ u.buffer = Run(given, sent)
  BY <1>3 DEF InStream
<1>5. n \in Nat /\ sent \in Nat /\ given <= sent /\ sent + n <= N /\ sent + n \in 0..N
      /\ n <= n
  <2>1. n \in 0..(N - sent) /\ N \in Nat
    BY <1>1, <1>3, SourceIsRun
  <2> QED
    BY <1>4, <2>1
<1>6. PICK size : size = IF n > cap - len /\ ~grows THEN cap - len ELSE n
  OBVIOUS
<1>7. /\ size \in Nat /\ size <= n
      /\ ~(n > cap - len /\ grows) => len + size <= cap
      /\ n > cap - len /\ grows => size = n
  BY <1>4, <1>5, <1>6
<1>8. Len(bytes(n)) = n
  <2>1. Len(SubSeq(Source, sent + 1, sent + n)) = n
    BY ONLY <1>5, given \in Nat, Block
  <2> QED
    BY <1>3, <2>1
<1>9. q.u = [u EXCEPT !.buffer = @ \o SubSeq(bytes(n), 1, size),
                      !.buffer_len = IF n > cap - len /\ grows THEN @ + n - (cap - len) ELSE @]
  BY <1>1, <1>3, <1>6, <1>8 DEF write_callback
<1>10. PICK to : to = sent + size
  OBVIOUS
<1>11. /\ to \in Nat /\ given <= to /\ to <= sent + n /\ to - given = len + size
       /\ given + (to - given) = to
  BY <1>4, <1>5, <1>7, <1>10
<1>12. /\ u.buffer \o SubSeq(bytes(n), 1, size) = Run(given, to)
       /\ Run(given, to) \in Seq(Nat) /\ Len(Run(given, to)) = to - given
  <2>1. Accepted(sent, n, size) = Run(sent, to)
    BY ONLY <1>5, <1>7, <1>10, Block
  <2>2. Run(given, to) \in Seq(Nat) /\ Len(Run(given, to)) = to - given
    BY ONLY <1>11, given \in Nat, RunSeq
  <2>3. SubSeq(bytes(n), 1, size) = Accepted(sent, n, size)
    BY <1>3 DEF Accepted
  <2>4. sent <= to
    BY <1>5, <1>7, <1>10
  <2>5. Run(given, sent) \o Run(sent, to) = Run(given, to)
    BY <1>5, <1>11, <2>4, RunConcat
  <2> HIDE DEF bytes
  <2> QED
    BY <1>4, <2>1, <2>2, <2>3, <2>5
<1> HIDE DEF bytes
<1>13. /\ q.u.buffer = Run(given, to)
       /\ q.u.buffer_len = IF n > cap - len /\ grows THEN cap + n - (cap - len) ELSE cap
  BY <1>3, <1>9, <1>12 DEF IsFile
<1>14. q.t.sent = sent + n
  BY <1>1, <1>3
<1>15. q.u.buffer_len \in Nat /\ len + size <= q.u.buffer_len
  BY <1>4, <1>5, <1>7, <1>13
<1>16. q.t.state # "failed" => to = q.t.sent
  <2>1. Len(q.u.buffer) = len + size /\ Len(u.buffer) = len
    BY <1>3, <1>11, <1>12, <1>13
  <2>2. Len(q.u.buffer) - Len(u.buffer) = size
    BY <1>4, <1>7, <2>1
  <2>3. q.t.sent - t.sent = n
    BY <1>3, <1>5, <1>14
  <2>4. size < n => q.t.state = "failed"
    BY <1>2, <2>2, <2>3
  <2>5. ~(size < n) => to = sent + n
    BY <1>5, <1>7, <1>10
  <2> QED
    BY <1>14, <2>4, <2>5
<1> QED
  BY <1>5, <1>11, <1>12, <1>13, <1>14, <1>15, <1>16 DEF InStream

\* Whichever files are read, driving libcurl keeps the order of each.
LEMMA Drives ==
  ASSUME NEW f \in Files, NEW STATE transfers,
         file = [g \in Files |-> file[g]], \A g \in Files : IsFile(file[g]),
         Perform(f, file, transfers),
         NEW g \in Files, NEW given \in Nat, InStream(file[g], transfers[g], given)
  PROVE  InStream(file'[g], transfer'[g], given)
<1>1. CASE g \in Active(transfers)
  <2>1. PICK q \in Progress(file[g], transfers[g]) :
          /\ transfer'[g] = q.t
          /\ file'[g].buffer = q.u.buffer /\ file'[g].buffer_len = q.u.buffer_len
    BY <1>1, Performed
  <2>2. transfers[g].state = "running" /\ IsFile(file[g])
    BY <1>1 DEF Active
  <2>3. InStream(q.u, q.t, given)
    BY ONLY <2>1, <2>2, Written, InStream(file[g], transfers[g], given), given \in Nat
  <2> QED
    BY <2>1, <2>3 DEF InStream
<1>2. CASE g \notin Active(transfers)
  <2>1. /\ transfer'[g] = transfers[g]
        /\ file'[g].buffer = file[g].buffer /\ file'[g].buffer_len = file[g].buffer_len
    BY <1>2, Performed
  <2> QED
    BY <2>1 DEF InStream
<1> QED
  BY <1>1, <1>2

\* What is given is part of what is there.
LEMMA GivenIsThere ==
  ASSUME NEW u, u.buffer \in Seq(Nat), NEW want \in Nat, NEW byLine \in BOOLEAN
  PROVE  Given(u, want, byLine) \in 0..Len(u.buffer)
<1> DEFINE most == IF Len(u.buffer) < want THEN Len(u.buffer) ELSE want
           ends == {i \in 1..most : byLine /\ u.buffer[i] \in Newlines}
<1>1. most \in 0..Len(u.buffer)
  OBVIOUS
<1>2. Given(u, want, byLine)
        = IF ends = {} THEN most ELSE CHOOSE i \in ends : \A j \in ends : i <= j
  BY DEF Given
<1> HIDE DEF most
<1>3. CASE ends = {}
  BY <1>1, <1>2, <1>3
<1>4. CASE ends # {}
  <2>1. ends \in SUBSET Nat /\ ends \subseteq 0..Len(u.buffer)
    BY <1>1
  <2> HIDE DEF ends
  <2>2. \E i \in ends : \A j \in ends : i <= j
    BY <1>4, <2>1, LeastNumber
  <2>3. (CHOOSE i \in ends : \A j \in ends : i <= j) \in ends
    BY <2>2
  <2> QED
    BY <1>2, <1>4, <2>1, <2>3
<1> QED
  BY <1>3, <1>4

\* use_buffer takes from the front what was copied to the caller.
LEMMA Consumed ==
  ASSUME NEW u, NEW t, NEW given \in Nat, IsFile(u), InStream(u, t, given),
         NEW want \in Nat, want <= Len(u.buffer), NEW v, v = use_buffer(u, want)
  PROVE  /\ InStream(v, t, given + want)
         /\ SubSeq(u.buffer, 1, want) = Run(given, given + want)
<1>1. PICK len, have, to : len = Len(u.buffer) /\ have = given + len /\ to = given + want
  OBVIOUS
<1>2. /\ u.buffer \in Seq(Nat) /\ len \in Nat /\ u.buffer = Run(given, have)
      /\ u.buffer_len \in Nat /\ len <= u.buffer_len
      /\ t.sent \in 0..N /\ have <= t.sent
      /\ t.state # "failed" => have = t.sent
  BY <1>1 DEF InStream
<1>3. /\ have \in Nat /\ to \in Nat /\ given <= to /\ to <= have /\ given <= given
      /\ want \in Int /\ 1 \in Int /\ want + 1 \in Int /\ len \in Int
      /\ have <= have
      /\ 1 = given - given + 1 /\ want = to - given
      /\ want + 1 = to - given + 1 /\ len = have - given
  <2>1. want <= len
    BY <1>1
  <2> QED
    BY <1>1, <1>2, <2>1
<1>4. SubSeq(u.buffer, 1, want) = Run(given, to)
  <2>1. SubSeq(Run(given, have), 1, want) = Run(given, to)
    BY ONLY <1>3, given \in Nat, Cut
  <2> QED
    BY <1>2, <2>1
<1>5. CASE Len(u.buffer) <= want
  <2>1. v = [u EXCEPT !.buffer = <<>>, !.buffer_len = 0]
    BY <1>5 DEF use_buffer
  <2>2. v.buffer = <<>> /\ v.buffer_len = 0
    BY <2>1 DEF IsFile
  <2>3. to = have
    <3>1. len <= want
      BY <1>1, <1>5
    <3> QED
      BY <1>3, <3>1
  <2>4. <<>> = Run(to, to) /\ <<>> \in Seq(Nat) /\ Len(<<>>) = 0
    BY <1>3, RunSeq
  <2>5. to + 0 = to
    BY <1>3
  <2> QED
    BY <1>1, <1>2, <1>4, <2>2, <2>3, <2>4, <2>5 DEF InStream
<1>6. CASE ~(Len(u.buffer) <= want)
  <2>1. v = [u EXCEPT !.buffer = SubSeq(@, want + 1, Len(@))]
    BY <1>6 DEF use_buffer
  <2>2. v.buffer = SubSeq(u.buffer, want + 1, Len(u.buffer)) /\ v.buffer_len = u.buffer_len
    BY <2>1 DEF IsFile
  <2>3. v.buffer = Run(to, have)
    <3>1. SubSeq(Run(given, have), want + 1, len) = Run(to, have)
      BY ONLY <1>3, given \in Nat, Cut
    <3> QED
      BY <1>1, <1>2, <2>2, <3>1
  <2>4. v.buffer \in Seq(Nat) /\ Len(v.buffer) = have - to
    <3>1. Run(to, have) \in Seq(Nat) /\ Len(Run(to, have)) = have - to
      BY ONLY <1>3, RunSeq
    <3> QED
      BY <2>3, <3>1
  <2>5. to + Len(v.buffer) = have /\ Len(v.buffer) <= v.buffer_len
    <3>1. to + (have - to) = have /\ have - to <= len
      BY ONLY <1>3, given \in Nat
    <3>2. have - to \in Nat
      BY <1>3
    <3> QED
      BY <1>2, <2>2, <2>4, <3>1, <3>2
  <2> QED
    BY <1>1, <1>2, <1>4, <2>2, <2>3, <2>4, <2>5 DEF InStream
<1> QED
  BY <1>5, <1>6

LEMMA InitOrder == Init => OInv
<1> SUFFICES ASSUME Init
             PROVE  OInv
  OBVIOUS
<1>1. TakenShape /\ Streams
  BY DEF Init, TakenShape, Streams, Opened, Closed, NoCurl
<1> QED
  BY <1>1, InitHolds DEF OInv

LEMMA OpenOrder ==
  ASSUME NEW f \in Files, NEW handle \in {Begun, NoCurl}, OInv, url_fopen(f, handle)
  PROVE  TakenShape' /\ Streams'
<1> DEFINE transfers == [transfer EXCEPT ![f] = handle]
<1>1. /\ reader[f] = "closed" /\ taken' = taken
      /\ Perform(f, file, transfers)
      /\ \A g \in Files \ {f} : reader'[g] = reader[g]
      /\ reader'[f] \in {"failed", "test", "read"}
  BY DEF OInv, IInv, Shape, url_fopen
<1>2. \A g \in Files \ {f} : transfers[g] = transfer[g]
  OBVIOUS
<1>3. transfers[f] = handle
  BY DEF OInv, IInv, Shape
<1> HIDE DEF transfers
<1>4. file = [g \in Files |-> file[g]] /\ \A g \in Files : IsFile(file[g])
  BY DEF OInv, IInv, Shape
<1>5. ASSUME NEW g \in Files, g # f
      PROVE  /\ reader'[g] = "closed" =>
                  /\ file'[g].buffer = <<>> /\ file'[g].buffer_len = 0
                  /\ transfer'[g] = NoCurl /\ taken'[g] = <<>>
             /\ reader'[g] \in Opened =>
                  /\ taken'[g] \in Seq(Nat) /\ taken'[g] = Run(0, Len(taken'[g]))
                  /\ InStream(file'[g], transfer'[g], Len(taken'[g]))
  <2>1. CASE reader[g] = "closed"
    <3>1. /\ file[g].buffer = <<>> /\ file[g].buffer_len = 0
          /\ transfer[g] = NoCurl /\ taken[g] = <<>>
      BY <2>1 DEF OInv, Streams
    <3>2. g \notin Active(transfers)
      BY <1>2, <1>5, <3>1 DEF Active, NoCurl
    <3>3. /\ transfer'[g] = transfers[g]
          /\ file'[g].buffer = file[g].buffer /\ file'[g].buffer_len = file[g].buffer_len
      BY <1>1, <1>4, <3>2, Performed
    <3> QED
      BY <1>1, <1>2, <1>5, <2>1, <3>1, <3>3 DEF Opened
  <2>2. CASE reader[g] \in Opened
    <3>1. /\ taken[g] \in Seq(Nat) /\ taken[g] = Run(0, Len(taken[g]))
          /\ InStream(file[g], transfers[g], Len(taken[g]))
      BY <1>2, <1>5, <2>2 DEF OInv, Streams
    <3>2. Len(taken[g]) \in Nat
      BY <3>1
    <3>3. InStream(file'[g], transfer'[g], Len(taken[g]))
      BY <1>1, <1>4, <3>1, <3>2, Drives
    <3> QED
      BY <1>1, <1>5, <2>2, <3>1, <3>3 DEF Opened
  <2> QED
    BY <1>1, <1>5, <2>1, <2>2
<1>6. /\ reader'[f] # "closed"
      /\ taken'[f] \in Seq(Nat) /\ taken'[f] = Run(0, Len(taken'[f]))
      /\ InStream(file'[f], transfer'[f], Len(taken'[f]))
  <2>1. file[f].buffer = <<>> /\ file[f].buffer_len = 0 /\ taken[f] = <<>>
    BY <1>1 DEF OInv, Streams
  <2>2. <<>> \in Seq(Nat) /\ Len(<<>>) = 0 /\ <<>> = Run(0, 0)
    BY RunSeq
  <2>3. handle.sent = 0 /\ 0 \in 0..N
    BY SourceIsRun DEF Begun, NoCurl
  <2>4. InStream(file[f], transfers[f], 0)
    BY <1>3, <2>1, <2>2, <2>3 DEF InStream
  <2>5. InStream(file'[f], transfer'[f], 0)
    BY <1>1, <1>4, <2>4, Drives
  <2> QED
    BY <1>1, <2>1, <2>2, <2>5
<1>7. Streams'
  BY <1>5, <1>6 DEF Streams
<1> QED
  BY <1>1, <1>7 DEF OInv, TakenShape

LEMMA FillOrder ==
  ASSUME NEW f \in Files, OInv, fill_buffer(f)
  PROVE  TakenShape' /\ Streams'
<1>1. reader' = reader /\ taken' = taken /\ Perform(f, file, transfer)
  BY DEF fill_buffer
<1>2. file = [g \in Files |-> file[g]] /\ \A g \in Files : IsFile(file[g])
  BY DEF OInv, IInv, Shape
<1>3. ASSUME NEW g \in Files, reader[g] = "closed"
      PROVE  /\ file'[g].buffer = <<>> /\ file'[g].buffer_len = 0
             /\ transfer'[g] = NoCurl /\ taken[g] = <<>>
  <2>1. /\ file[g].buffer = <<>> /\ file[g].buffer_len = 0
        /\ transfer[g] = NoCurl /\ taken[g] = <<>>
    BY <1>3 DEF OInv, Streams
  <2>2. g \notin Active(transfer)
    BY <2>1 DEF Active, NoCurl
  <2> QED
    BY <1>1, <1>2, <2>1, <2>2, Performed
<1>4. ASSUME NEW g \in Files, reader[g] \in Opened
      PROVE  /\ taken[g] \in Seq(Nat) /\ taken[g] = Run(0, Len(taken[g]))
             /\ InStream(file'[g], transfer'[g], Len(taken[g]))
  <2>1. /\ taken[g] \in Seq(Nat) /\ taken[g] = Run(0, Len(taken[g]))
        /\ InStream(file[g], transfer[g], Len(taken[g]))
    BY <1>4 DEF OInv, Streams
  <2>2. Len(taken[g]) \in Nat
    BY <2>1
  <2> QED
    BY <1>1, <1>2, <2>1, <2>2, Drives
<1>5. Streams'
  BY <1>1, <1>3, <1>4 DEF Streams
<1> QED
  BY <1>1, <1>5 DEF OInv, TakenShape

LEMMA ReturnOrder ==
  ASSUME NEW f \in Files, OInv, Return(f)
  PROVE  TakenShape' /\ Streams'
<1> DEFINE u == file[f]
           w == Given(u, call.want, reader[f] = "line")
<1>1. /\ call.f = f /\ transfer' = transfer
      /\ IF u.buffer = <<>> THEN UNCHANGED <<file, taken>>
         ELSE /\ file' = [file EXCEPT ![f] = use_buffer(u, w)]
              /\ taken' = [taken EXCEPT ![f] = @ \o SubSeq(u.buffer, 1, w)]
  BY DEF Return
<1>2. reader[f] \in {"line", "read"} /\ call.want \in Nat /\ IsFile(u)
  BY <1>1 DEF OInv, IInv, Shape
<1>3. /\ \A g \in Files \ {f} : reader'[g] = reader[g]
      /\ reader'[f] \in Opened
  BY <1>2 DEF Return, OInv, IInv, Shape, Opened
<1>4. /\ taken[f] \in Seq(Nat) /\ taken[f] = Run(0, Len(taken[f]))
      /\ InStream(u, transfer[f], Len(taken[f]))
  BY <1>2 DEF OInv, Streams, Opened
<1>5. CASE u.buffer = <<>>
  <2>1. file' = file /\ taken' = taken
    BY <1>1, <1>5
  <2> QED
    BY <1>1, <1>2, <1>3, <1>4, <2>1 DEF OInv, TakenShape, Streams, Opened
<1>6. CASE u.buffer # <<>>
  <2>1. w \in Nat /\ w <= Len(u.buffer)
    <3>1. u.buffer \in Seq(Nat) /\ (reader[f] = "line") \in BOOLEAN
      BY <1>4 DEF InStream
    <3>2. w \in 0..Len(u.buffer)
      BY <1>2, <3>1, GivenIsThere
    <3> HIDE DEF w
    <3> QED
      BY <3>1, <3>2
  <2> HIDE DEF w
  <2>2. PICK t, v : t = Len(taken[f]) /\ v = use_buffer(u, w)
    OBVIOUS
  <2>3. t \in Nat /\ w \in Nat /\ t + w \in Nat /\ 0 <= t /\ t <= t + w
    <3>1. Len(u.buffer) \in Nat /\ t \in Nat
      BY <1>4, <2>2 DEF InStream
    <3> QED
      BY <2>1, <3>1
  <2>4. InStream(v, transfer[f], t + w) /\ SubSeq(u.buffer, 1, w) = Run(t, t + w)
    BY <1>2, <1>4, <2>1, <2>2, <2>3, Consumed
  <2>5. file' = [file EXCEPT ![f] = v]
    BY <1>1, <1>6, <2>2
  <2>6. taken' = [taken EXCEPT ![f] = @ \o SubSeq(u.buffer, 1, w)]
    BY <1>1, <1>6
  <2>7. /\ file'[f] = v /\ taken'[f] = Run(0, t + w)
        /\ \A g \in Files \ {f} : file'[g] = file[g] /\ taken'[g] = taken[g]
    <3>1. taken[f] \o SubSeq(u.buffer, 1, w) = Run(0, t + w)
      <4>1. Run(0, t) \o Run(t, t + w) = Run(0, t + w)
        BY <2>3, RunConcat
      <4> QED
        BY <1>4, <2>2, <2>4, <4>1
    <3>2. taken'[f] = taken[f] \o SubSeq(u.buffer, 1, w)
      BY <2>6 DEF OInv, TakenShape
    <3>3. file'[f] = v /\ \A g \in Files \ {f} : file'[g] = file[g]
      BY <2>5 DEF OInv, IInv, Shape
    <3>4. \A g \in Files \ {f} : taken'[g] = taken[g]
      BY <2>6 DEF OInv, TakenShape
    <3> QED
      BY <3>1, <3>2, <3>3, <3>4
  <2>8. taken'[f] \in Seq(Nat) /\ Len(taken'[f]) = t + w
    <3>1. PICK z : z = t + w
      OBVIOUS
    <3>2. z \in Nat /\ 0 \in Nat /\ 0 <= z /\ z - 0 = z
      BY <2>3, <3>1
    <3>3. Run(0, z) \in Seq(Nat) /\ Len(Run(0, z)) = z
      BY ONLY <3>2, RunSeq
    <3> QED
      BY <2>7, <3>1, <3>3
  <2>9. Streams'
    <3>1. ASSUME NEW g \in Files, g # f
          PROVE  /\ file'[g] = file[g] /\ transfer'[g] = transfer[g]
                 /\ taken'[g] = taken[g] /\ reader'[g] = reader[g]
      BY <1>1, <1>3, <2>7, <3>1
    <3>2. /\ reader'[f] # "closed" /\ taken'[f] = Run(0, Len(taken'[f]))
          /\ InStream(file'[f], transfer'[f], Len(taken'[f]))
      BY <1>1, <1>3, <2>4, <2>7, <2>8 DEF Opened
    <3> QED
      BY <2>8, <3>1, <3>2 DEF OInv, Streams
  <2>10. TakenShape'
    BY <2>6 DEF OInv, TakenShape
  <2> QED
    BY <2>9, <2>10
<1> QED
  BY <1>5, <1>6

LEMMA RewindOrder ==
  ASSUME NEW f \in Files, OInv, url_rewind(f)
  PROVE  TakenShape' /\ Streams'
<1> DEFINE v == [file[f] EXCEPT !.buffer = <<>>, !.buffer_len = 0]
<1>1. /\ reader[f] = "read" /\ reader' = reader
      /\ transfer' = [transfer EXCEPT ![f] = IF @ = NoCurl THEN NoCurl ELSE Begun]
      /\ taken' = [taken EXCEPT ![f] = <<>>]
  BY DEF url_rewind
<1>2. file' = [file EXCEPT ![f] = v]
  BY DEF url_rewind
<1>3. v.buffer = <<>> /\ v.buffer_len = 0
  BY DEF OInv, IInv, Shape, IsFile
<1> HIDE DEF v
<1>4. /\ file'[f] = v /\ taken'[f] = <<>> /\ transfer'[f] \in {NoCurl, Begun}
      /\ \A g \in Files \ {f} :
           file'[g] = file[g] /\ taken'[g] = taken[g] /\ transfer'[g] = transfer[g]
  BY <1>1, <1>2 DEF OInv, IInv, Shape, TakenShape
<1>0. <<>> \in Seq(Nat) /\ Len(<<>>) = 0 /\ <<>> = Run(0, 0)
  BY RunSeq
<1>5. InStream(file'[f], transfer'[f], 0)
  <2>2. transfer'[f].sent = 0 /\ 0 \in 0..N
    BY <1>4, SourceIsRun DEF Begun, NoCurl
  <2>3. file'[f].buffer = <<>> /\ file'[f].buffer_len = 0
    BY <1>3, <1>4
  <2> QED
    BY <1>0, <2>2, <2>3 DEF InStream
<1>6. taken'[f] \in Seq(Nat) /\ Len(taken'[f]) = 0 /\ taken'[f] = Run(0, 0)
  BY ONLY <1>0, <1>4
<1>7. TakenShape'
  BY <1>1 DEF OInv, TakenShape
<1>8. Streams'
  BY <1>1, <1>4, <1>5, <1>6 DEF OInv, Streams
<1> QED
  BY <1>7, <1>8

LEMMA CloseOrder ==
  ASSUME NEW f \in Files, OInv, url_fclose(f)
  PROVE  TakenShape' /\ Streams'
<1>1. /\ file' = [file EXCEPT ![f] = Closed]
      /\ transfer' = [transfer EXCEPT ![f] = NoCurl]
      /\ reader' = [reader EXCEPT ![f] = "finished"]
      /\ taken' = [taken EXCEPT ![f] = <<>>]
  BY DEF url_fclose
<1>2. /\ reader'[f] = "finished"
      /\ \A g \in Files \ {f} : /\ file'[g] = file[g] /\ taken'[g] = taken[g]
                                /\ transfer'[g] = transfer[g] /\ reader'[g] = reader[g]
  BY <1>1 DEF OInv, IInv, Shape, TakenShape
<1>3. TakenShape'
  BY <1>1 DEF OInv, TakenShape
<1>4. Streams'
  BY <1>2 DEF OInv, Streams, Opened
<1> QED
  BY <1>3, <1>4

LEMMA NextOrder == OInv /\ [Next]_vars => OInv'
<1> SUFFICES ASSUME OInv, [Next]_vars
             PROVE  OInv'
  OBVIOUS
<1>1. IInv'
  BY NextHolds DEF OInv
<1>2. ASSUME NEW f \in Files, Open(f)
      PROVE  TakenShape' /\ Streams'
  BY <1>2, OpenOrder DEF Open
<1>3. ASSUME NEW f \in Files, Test(f) \/ Gets(f) \/ Fread(f)
      PROVE  TakenShape' /\ Streams'
  <2>1. file' = file /\ transfer' = transfer /\ taken' = taken
    BY <1>3 DEF Test, Gets, Fread, Reads
  <2>2. \A g \in Files : \/ reader'[g] = reader[g]
                         \/ reader[g] \in Opened /\ reader'[g] \in Opened
    <3>1. CASE Test(f)
      <4>1. /\ reader[f] = "test"
            /\ reader' = [reader EXCEPT ![f] = IF url_feof(file[f]) THEN "done" ELSE "line"]
        BY <3>1 DEF Test
      <4>2. reader'[f] \in Opened /\ reader[f] \in Opened
        BY <4>1 DEF OInv, IInv, Shape, Opened
      <4>3. \A g \in Files \ {f} : reader'[g] = reader[g]
        BY <4>1 DEF OInv, IInv, Shape
      <4> QED
        BY <4>2, <4>3
    <3>2. CASE Gets(f) \/ Fread(f)
      <4>1. reader' = reader
        BY <3>2 DEF Gets, Fread, Reads
      <4> QED
        BY <4>1
    <3> QED
      BY <1>3, <3>1, <3>2
  <2> QED
    BY <2>1, <2>2 DEF OInv, TakenShape, Streams, Opened
<1>4. ASSUME NEW f \in Files, fill_buffer(f) \/ Return(f)
      PROVE  TakenShape' /\ Streams'
  BY <1>4, FillOrder, ReturnOrder
<1>5. ASSUME UNCHANGED vars \/ \E f \in Files : fdset_fails(f)
      PROVE  TakenShape' /\ Streams'
  BY <1>5 DEF vars, fdset_fails, OInv, TakenShape, Streams
<1>6. ASSUME NEW f \in Files, url_rewind(f) \/ url_fclose(f)
      PROVE  TakenShape' /\ Streams'
  BY <1>6, RewindOrder, CloseOrder
<1>7. TakenShape' /\ Streams'
  BY <1>2, <1>3, <1>4, <1>5, <1>6 DEF Next, Loop
<1> QED
  BY <1>1, <1>7 DEF OInv

\* The client is given the source in order, and nothing is lost between it and the
\* buffer, whichever file's reads deliver the bytes.
THEOREM StreamsInOrder == Spec => []InOrder
<1>1. OInv => InOrder
  <2> SUFFICES ASSUME OInv, NEW f \in Files, reader[f] \in Opened
               PROVE  LET stream == taken[f] \o file[f].buffer
                      IN /\ Len(stream) <= transfer[f].sent
                         /\ stream = SubSeq(Source, 1, Len(stream))
                         /\ transfer[f].state # "failed" => Len(stream) = transfer[f].sent
    BY DEF InOrder, Opened
  <2>1. PICK t, len, have : t = Len(taken[f]) /\ len = Len(file[f].buffer) /\ have = t + len
    OBVIOUS
  <2>2. /\ t \in Nat /\ have \in Nat /\ 0 <= t /\ t <= have /\ have <= N
        /\ taken[f] = Run(0, t) /\ file[f].buffer = Run(t, have)
        /\ have <= transfer[f].sent
        /\ transfer[f].state # "failed" => have = transfer[f].sent
    <3>1. /\ taken[f] \in Seq(Nat) /\ taken[f] = Run(0, Len(taken[f]))
          /\ InStream(file[f], transfer[f], Len(taken[f]))
      BY DEF OInv, Streams
    <3>2. N \in Nat
      BY SourceIsRun
    <3>3. /\ file[f].buffer \in Seq(Nat) /\ file[f].buffer = Run(t, have)
          /\ have <= transfer[f].sent /\ transfer[f].sent \in 0..N
          /\ transfer[f].state # "failed" => have = transfer[f].sent
      BY <2>1, <3>1 DEF InStream
    <3>4. t \in Nat /\ len \in Nat
      BY ONLY <2>1, <3>1, <3>3, LenProperties
    <3>5. have \in Nat /\ t <= have /\ 0 <= t
      <4>1. have = t + len
        BY <2>1
      <4> QED
        BY ONLY <3>4, <4>1
    <3>6. have <= N
      BY <3>2, <3>3, <3>5
    <3> QED
      BY <2>1, <3>1, <3>3, <3>4, <3>5, <3>6
  <2>3. taken[f] \o file[f].buffer = Run(0, have)
    <3>1. Run(0, t) \o Run(t, have) = Run(0, have)
      BY <2>2, RunConcat
    <3> QED
      BY <2>2, <3>1
  <2>4. Len(Run(0, have)) = have
    BY <2>2, RunSeq
  <2>5. Run(0, have) = SubSeq(Source, 1, have)
    <3>1. 0 \in Nat /\ N \in Nat /\ 1 \in Int /\ have \in Int /\ 0 <= 0 /\ 0 <= have
          /\ 1 = 0 - 0 + 1 /\ have = have - 0
      BY <2>2, SourceIsRun
    <3>2. SubSeq(Run(0, N), 1, have) = Run(0, have)
      BY ONLY <2>2, <3>1, Cut
    <3> QED
      BY <3>2, SourceIsRun
  <2> QED
    BY <2>2, <2>3, <2>4, <2>5
<1> QED
  BY <1>1, InitOrder, NextOrder, PTL DEF Spec
=============================================================================
