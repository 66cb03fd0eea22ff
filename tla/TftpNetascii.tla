---------------------------- MODULE TftpNetascii ----------------------------
(***************************************************************************)
(* The netascii conversions of tests/server/tftpd.c, packet by packet:     *)
(* read_ahead() turns LF into CR LF and CR into CR NUL and carries half a  *)
(* pair over to the next packet in newline and prevchar; write_behind()    *)
(* turns the pairs back and carries the CR over in prevchar, after it has  *)
(* written it.  A run either downloads a file and uploads what came, or    *)
(* uploads bytes that no encoder made.                                     *)
(*                                                                         *)
(* This module and TftpServer have no name in common, so that one module   *)
(* can extend both.                                                        *)
(***************************************************************************)
EXTENDS Integers, Sequences, SequencesExt

CONSTANTS
    SegSize,            \* SEGSIZE: 512
    MaxBytes            \* longest file

ASSUME NetasciiAssumption == SegSize \in Nat \ {0} /\ MaxBytes \in Nat

Byte == {"CR", "LF", "NUL", "x"}

VARIABLES
    stage,                 \* "read_ahead", "write_behind" or "done"
    input,              \* the file served; the bytes uploaded otherwise
    download,           \* is it served first?
    rptr,               \* bytes of it read
    newline, prevchar,  \* the conversion's state
    wire,               \* the data of all the packets
    wptr,               \* bytes of wire written
    disk                \* the upload file

netasciiVars == <<stage, input, download, rptr, newline, prevchar, wire, wptr, disk>>

\* rw_init
NetasciiInit ==
    /\ input \in BoundedSeq(Byte, MaxBytes)
    /\ download \in BOOLEAN
    /\ stage = IF download THEN "read_ahead" ELSE "write_behind"
    /\ rptr = 0
    /\ newline = FALSE /\ prevchar = "none"
    /\ wire = IF download THEN << >> ELSE input
    /\ wptr = 0
    /\ disk = << >>

-----------------------------------------------------------------------------
(* Download *)

\* One turn of read_ahead's loop: st is its state, left alone at the end of
\* the file.
Put(st) ==
    LET c == input[st.rptr + 1]
    IN CASE st.newline ->
              [st EXCEPT !.newline = FALSE,
                         !.out = Append(@, IF st.prevchar = "LF" THEN "LF" ELSE "NUL")]
         [] ~st.newline /\ st.rptr < Len(input) /\ c \in {"CR", "LF"} ->
              [st EXCEPT !.rptr = @ + 1, !.newline = TRUE, !.prevchar = c,
                         !.out = Append(@, "CR")]
         [] ~st.newline /\ st.rptr < Len(input) /\ c \notin {"CR", "LF"} ->
              [st EXCEPT !.rptr = @ + 1, !.out = Append(@, c)]
         [] OTHER -> st

\* Where a call of read_ahead leaves its loop: with SEGSIZE bytes, or at the
\* end of the file.
Filled(newlineAtStart) ==
    LET turn[i \in 0..SegSize] ==
          IF i = 0 THEN [rptr |-> rptr, newline |-> newlineAtStart,
                         prevchar |-> prevchar, out |-> << >>]
                   ELSE Put(turn[i - 1])
    IN turn[SegSize]

FillPacket(newlineAtStart) ==
    LET st == Filled(newlineAtStart)
    IN /\ stage = "read_ahead"
       /\ rptr' = st.rptr
       /\ newline' = st.newline
       /\ wire' = wire \o st.out
       /\ \/ Len(st.out) = SegSize /\ prevchar' = st.prevchar /\ stage' = stage
          \* a short packet is the last; rw_init for the upload
          \/ Len(st.out) < SegSize /\ prevchar' = "none" /\ stage' = "write_behind"
       /\ UNCHANGED <<input, download, wptr, disk>>

\* Mutant: newline is a local variable of read_ahead.
ForgetsNewline == FillPacket(FALSE)

\* The packets of the download, up to the first that is not full.
ReadAhead == FillPacket(newline)

-----------------------------------------------------------------------------
(* Upload *)

\* One turn of write_behind's loop: the byte c after prevchar, on the file f.
Written(f, prev, c) ==
    CASE prev = "CR" /\ c = "LF"  -> Append(SubSeq(f, 1, Len(f) - 1), "LF")
      [] prev = "CR" /\ c = "NUL" -> f
      [] OTHER                    -> Append(f, c)

\* prevchar when the loop is at byte i of a packet, for prev at its start.
Before(prev, bytes, i) == IF i = 1 THEN prev ELSE bytes[i - 1]

\* The loop over the bytes of a packet.
WriteAll(f, prev, bytes) ==
    LET turn[i \in 0..Len(bytes)] ==
          IF i = 0 THEN f
                   ELSE Written(turn[i - 1], Before(prev, bytes, i), bytes[i])
    IN turn[Len(bytes)]

\* The next packet of the stream: all that is left, but at most SegSize bytes.
Packet ==
    SubSeq(wire, wptr + 1,
           IF Len(wire) - wptr < SegSize THEN Len(wire) ELSE wptr + SegSize)

\* The character before the end of a stream.
LastOf(prev, bytes) == IF bytes = << >> THEN prev ELSE bytes[Len(bytes)]

WritePacket(prevAtStart) ==
    /\ stage = "write_behind"
    /\ disk' = WriteAll(disk, prevAtStart, Packet)
    /\ wptr' = wptr + Len(Packet)
    /\ prevchar' = LastOf(prevchar, Packet)
    /\ stage' = IF Len(Packet) = SegSize THEN stage ELSE "done"
    /\ UNCHANGED <<input, download, rptr, newline, wire>>

\* Mutant: prevchar is a local variable of write_behind.
ForgetsPrevchar == WritePacket("none")

WriteBehind == WritePacket(prevchar)

NetasciiNext == ReadAhead \/ WriteBehind

NetasciiSpec == NetasciiInit /\ [][NetasciiNext]_netasciiVars

-----------------------------------------------------------------------------
(* What the conversions guarantee *)

\* What netascii makes of a byte, and of a file.
Code(c) ==
    CASE c = "LF" -> <<"CR", "LF">>
      [] c = "CR" -> <<"CR", "NUL">>
      [] OTHER    -> <<c>>

Encoding(f) == FlattenSeq([i \in 1..Len(f) |-> Code(f[i])])

\* What a byte of a stream stands for, and the stream.
EndsPair(w, i) == i \in 2..Len(w) /\ w[i - 1] = "CR" /\ w[i] \in {"LF", "NUL"}

Meaning(w, i) ==
    CASE EndsPair(w, i + 1)               -> << >>
      [] EndsPair(w, i) /\ w[i] = "NUL"   -> <<"CR">>
      [] OTHER                            -> <<w[i]>>

Decoding(w) == FlattenSeq([i \in 1..Len(w) |-> Meaning(w, i)])

\* However the packets cut the file, a download in netascii carries exactly its
\* encoding: no pair is lost or doubled at a packet boundary and the loop does
\* not end with half a pair unsent.
CutsDoNotShow == download /\ stage # "read_ahead" => wire = Encoding(input)

\* However the packets cut the stream, an upload stores its decoding: the CR
\* that was written at the end of one packet is replaced if the next one
\* begins with LF, and kept if anything but LF or NUL follows.  So a file that
\* is downloaded and uploaded again in netascii is the same file.
RoundTrip ==
    stage = "done" =>
        /\ disk = Decoding(wire)
        /\ download => disk = input
=============================================================================
