---------------------------- MODULE FileTransfer ----------------------------
(***************************************************************************)
(* What one TFTP transfer of tests/server/tftpd.c promises, whichever side *)
(* the server is on: the Total segments of the file reach the receiver one *)
(* by one, in order and exactly once; an end that reports success is right *)
(* to do so; and either end may give up as long as it is still busy.       *)
(***************************************************************************)
EXTENDS Integers, Sequences

CONSTANT Total          \* number of segments of the file

VARIABLES
    delivered,          \* the segments the receiver has stored
    sender,             \* "busy", "complete" or "failed"
    receiver            \* likewise

ftvars == <<delivered, sender, receiver>>

Init ==
    /\ delivered = << >>
    /\ sender = "busy"
    /\ receiver = "busy"

\* The receiver stores the next segment, and may notice it was the last one.
Deliver ==
    /\ receiver = "busy"
    /\ Len(delivered) < Total
    /\ delivered' = Append(delivered, Len(delivered) + 1)
    /\ \/ receiver' = receiver
       \/ Len(delivered') = Total /\ receiver' = "complete"
    /\ UNCHANGED sender

ReceiverDone ==
    /\ receiver = "busy"
    /\ Len(delivered) = Total
    /\ receiver' = "complete"
    /\ UNCHANGED <<delivered, sender>>

\* The sender reports success only for a file the receiver has in full.
SenderDone ==
    /\ sender = "busy"
    /\ receiver = "complete"
    /\ sender' = "complete"
    /\ UNCHANGED <<delivered, receiver>>

SenderFails ==
    /\ sender = "busy"
    /\ sender' = "failed"
    /\ UNCHANGED <<delivered, receiver>>

ReceiverFails ==
    /\ receiver = "busy"
    /\ receiver' = "failed"
    /\ UNCHANGED <<delivered, sender>>

Next == Deliver \/ ReceiverDone \/ SenderDone \/ SenderFails \/ ReceiverFails

Spec == Init /\ [][Next]_ftvars
=============================================================================
