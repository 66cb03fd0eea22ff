----------------------------- MODULE ByteStream -----------------------------
(***************************************************************************)
(* What a data connection of tests/tests.c/ftpserver.pl promises,          *)
(* whichever side the server is on: a stream in one direction, from a      *)
(* writer to a reader.  The reader receives the blocks 1, 2, ... in order, *)
(* each once, several at a time if they come so, and never one that was    *)
(* not written; either end may close; and the end of the transfer is       *)
(* reported only when the writer has closed and the reader has everything, *)
(* unless the reader closed and did not want it.                           *)
(***************************************************************************)
EXTENDS Integers, Sequences

VARIABLES
    written,            \* how many blocks the writer has written
    writer,             \* "open" or "closed"
    received,           \* the blocks the reader has received
    reader,             \* "open" or "closed"
    over                \* the end of the transfer has been reported

streamVars == <<written, writer, received, reader, over>>

Init ==
    /\ written = 0 /\ writer = "open"
    /\ received = << >> /\ reader = "open"
    /\ over = FALSE

Write ==
    /\ writer = "open" /\ ~over
    /\ written' = written + 1
    /\ UNCHANGED <<writer, received, reader, over>>

WriterCloses ==
    /\ writer = "open"
    /\ writer' = "closed"
    /\ UNCHANGED <<written, received, reader, over>>

\* The reader receives more of what was written, and may close at that.
Receive ==
    /\ reader = "open" /\ ~over
    /\ \E k \in (Len(received) + 1)..written : received' = [i \in 1..k |-> i]
    /\ reader' \in {"open", "closed"}
    /\ UNCHANGED <<written, writer, over>>

ReaderCloses ==
    /\ reader = "open"
    /\ reader' = "closed"
    /\ UNCHANGED <<written, writer, received, over>>

Report ==
    /\ ~over
    /\ reader = "open" => writer = "closed" /\ Len(received) = written
    /\ over' = TRUE
    /\ UNCHANGED <<written, writer, received, reader>>

Next == Write \/ WriterCloses \/ Receive \/ ReaderCloses \/ Report

Spec == Init /\ [][Next]_streamVars
=============================================================================
